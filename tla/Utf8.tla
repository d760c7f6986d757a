--------------------------------- MODULE Utf8 ---------------------------------
(***************************************************************************)
(* utf8_utils::is_valid_content (lmqtt_utf8_string.h), by the rounds of    *)
(* its loop, each of which passes one character.  The tests of bits are    *)
(* divisions: byte & 1110'0000 = 1100'0000 is byte \div 32 = 6.            *)
(***************************************************************************)
EXTENDS Naturals, Sequences

\* 10xx'xxxx
IsContinuation(b) == b \div 64 = 2

\* What is no ILL_FORMED, in the branch for each length.
OneByte(b1) == b1 \in 1..127
TwoBytes(b1, b2) == b1 \div 32 = 6 /\ IsContinuation(b2) /\ b1 \div 2 # 96

\* Mutant: surrogates are let through.
ThreeBytes_Surrogates(b1, b2, b3) ==
    /\ b1 \div 16 = 14 /\ IsContinuation(b2) /\ IsContinuation(b3)
    /\ ~(b1 = 224 /\ b2 \div 32 = 4)

ThreeBytes(b1, b2, b3) ==
    /\ b1 \div 16 = 14 /\ IsContinuation(b2) /\ IsContinuation(b3)
    /\ ~(b1 = 224 /\ b2 \div 32 = 4)
    /\ ~(b1 = 237 /\ b2 \div 32 = 5)
FourBytes(b1, b2, b3, b4) ==
    /\ b1 \div 8 = 30 /\ IsContinuation(b2) /\ IsContinuation(b3) /\ IsContinuation(b4)
    /\ ~(b1 = 240 /\ b2 \div 16 = 8) /\ ~(b1 = 244 /\ b2 > 143) /\ b1 <= 244

\* The round at the it-th byte passes n bytes.  The branch of three tests for an
\* end two bytes on, but not one: a lead byte of three that is the last byte
\* reads past the end, and as the cursor then never meets it, the string is
\* never found to be well-formed.
Passes(str, it, n) ==
    /\ it + n - 1 <= Len(str)
    /\ CASE n = 1 -> OneByte(str[it])
         [] n = 2 -> TwoBytes(str[it], str[it + 1])
         [] n = 3 -> ThreeBytes(str[it], str[it + 1], str[it + 2])
         [] n = 4 -> FourBytes(str[it], str[it + 1], str[it + 2], str[it + 3])

\* The result becomes WELL_FORMED_NO_CHARACTOR.  The test for C1 controls looks
\* twice at byte1 and is never true.
IsNoCharacter(str, it, n) ==
    CASE n = 1 -> str[it] <= 31 \/ str[it] = 127
      [] n = 2 -> FALSE
      [] n = 3 -> str[it] = 239 /\ str[it + 1] = 191 /\ str[it + 2] \div 2 = 95
      [] n = 4 -> str[it + 1] % 16 = 15 /\ str[it + 2] = 191 /\ str[it + 3] \div 2 = 95

\* The answer is WELL_FORMED: no round fails, and none meets a non-character.
IsValidContent(str) ==
    LET from[it \in 1..(Len(str) + 1)] ==
            \/ it = Len(str) + 1
            \/ \E n \in 1..4 : /\ Passes(str, it, n) /\ ~IsNoCharacter(str, it, n)
                               /\ from[it + n]
    IN from[1]
===============================================================================
