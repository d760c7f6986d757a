----------------------------- MODULE UnicodeTable -----------------------------
(***************************************************************************)
(* Well-formed UTF-8 as the Unicode standard defines it, by the table of   *)
(* the bytes a character may consist of.  It is what Utf8, the code, is    *)
(* compared with.                                                          *)
(***************************************************************************)
EXTENDS Naturals, Sequences

Tail8 == 128..191

\* The rows of the table: for each byte of a character the values it may have.
Rows == {<<0..127>>,
         <<194..223, Tail8>>,
         <<{224}, 160..191, Tail8>>, <<225..236, Tail8, Tail8>>,
         <<{237}, 128..159, Tail8>>, <<238..239, Tail8, Tail8>>,
         <<{240}, 144..191, Tail8, Tail8>>, <<241..243, Tail8, Tail8, Tail8>>,
         <<{244}, 128..143, Tail8, Tail8>>}

\* The n bytes of s from the i-th on are one character.
CharacterAt(s, i, n) ==
    \E row \in Rows : /\ Len(row) = n /\ i + n - 1 <= Len(s)
                      /\ \A k \in 1..n : s[i + k - 1] \in row[k]

\* Where characters begin in s, and behind its end.
Starts(s) == {i \in 1..Len(s) : s[i] \notin Tail8} \union {Len(s) + 1}

\* From one start to the next there is one character, and no U+0000, which MQTT
\* forbids.
StandardText(s) ==
    /\ 1 \in Starts(s)
    /\ \A i \in Starts(s) : i <= Len(s) =>
           /\ s[i] # 0
           /\ \E n \in 1..4 : /\ CharacterAt(s, i, n) /\ i + n \in Starts(s)
                              /\ \A k \in 1..(n - 1) : i + k \notin Starts(s)

\* MQTT advises against control characters, and the code refuses the ones
\* below 128.
HasControl(s) == \E i \in 1..Len(s) : s[i] \in (1..31) \union {127}

\* U+FFFE, U+FFFF and their like in the other planes.
HasNonCharacter(s) ==
    \E i \in 1..Len(s), n \in {3, 4} :
        /\ CharacterAt(s, i, n)
        /\ (s[i + n - 3] % 16) * 4096 + (s[i + n - 2] % 64) * 64 + (s[i + n - 1] % 64) >= 65534
===============================================================================
