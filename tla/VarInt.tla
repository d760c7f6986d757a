-------------------------------- MODULE VarInt --------------------------------
(***************************************************************************)
(* Variable-length integers: utils::decode_variable_int,                   *)
(* get_variable_int_size and encode_variable_int (lmqtt_utils.h).          *)
(***************************************************************************)
EXTENDS Naturals, Sequences

\* mul, a uint8_t: 1, then 128, then nothing but 0.
Times128(m) == (m * 128) % 256
Mul == <<1, Times128(1), Times128(Times128(1)), Times128(Times128(Times128(1)))>>

Continues(buf, i) == i <= Len(buf) /\ buf[i] >= 128

\* offset when the loop ends: how many bytes it left behind.  A byte without
\* the continuation bit breaks the loop before offset counts it.
Offset(buf) == CHOOSE n \in 0..4 : /\ \A i \in 1..n : Continues(buf, i)
                                   /\ n < 4 => ~Continues(buf, n + 1)

\* The test of mul against 0x200000 is never true of a uint8_t.
DecodeVariableInt(buf) ==
    LET n       == Offset(buf)
        Term(i) == IF i <= n + 1 THEN (buf[i] % 128) * Mul[i] ELSE 0
        ok      == n = 4 \/ n < Len(buf)
    IN [ok     |-> ok,
        offset |-> n,
        value  |-> IF ok THEN Term(1) + Term(2) + Term(3) + Term(4) ELSE 0]

GetVariableIntSize(v) == IF v >= 2097152 THEN 4
                         ELSE IF v >= 16384 THEN 3 ELSE IF v >= 128 THEN 2 ELSE 1

\* Rounds of the loop of encode_variable_int, which divides by 0x7f; it fails
\* past the fourth byte.
EncodedSize(v) == IF v = 0 THEN 0
                  ELSE CHOOSE n \in 1..5 : v \div 127^(n - 1) # 0 /\ v \div 127^n = 0
EncodeFails(v) == EncodedSize(v) > 4

\* Every byte but the last has 0x7f set in it, which makes it 127 whatever it was.
EncodeVariableInt(v) ==
    LET n == EncodedSize(v)
    IN [i \in 1..n |-> IF i < n THEN 127 ELSE (v \div 127^(n - 1)) % 127]
===============================================================================
