------------------------------- MODULE Utf8Proofs -------------------------------
(***************************************************************************)
(* is_valid_content accepts exactly the text of the standard without       *)
(* controls and non-characters, whatever the string.  A round of its loop  *)
(* passes the characters of the Unicode table; the string is good if it    *)
(* is from every place on that a round can reach, by induction on how much *)
(* of it is left.                                                          *)
(***************************************************************************)
EXTENDS Utf8, UnicodeTable, SetInduction

B == 0..255

\* What the tests of bits say of a byte.
LEMMA Continuation ==
    ASSUME NEW b \in B PROVE IsContinuation(b) <=> b \in Tail8
  BY SMT DEF IsContinuation, Tail8, B

LEMMA Bits ==
    ASSUME NEW b \in B
    PROVE  /\ b \div 32 = 6 <=> b \in 192..223
           /\ b \div 2 # 96 <=> b \notin 192..193
           /\ b \div 16 = 14 <=> b \in 224..239
           /\ b \div 8 = 30 <=> b \in 240..247
           /\ b \div 32 = 4 <=> b \in 128..159
           /\ b \div 32 = 5 <=> b \in 160..191
           /\ b \div 16 = 8 <=> b \in 128..143
  BY SMT DEF B

\* The rows of the table, by length, as conditions on the bytes.
Row1(b1) == b1 \in 0..127
Row2(b1, b2) == b1 \in 194..223 /\ b2 \in Tail8
Row3(b1, b2, b3) ==
    /\ \/ b1 = 224 /\ b2 \in 160..191
       \/ b1 \in 225..236 /\ b2 \in Tail8
       \/ b1 = 237 /\ b2 \in 128..159
       \/ b1 \in 238..239 /\ b2 \in Tail8
    /\ b3 \in Tail8
Row4(b1, b2, b3, b4) ==
    /\ \/ b1 = 240 /\ b2 \in 144..191
       \/ b1 \in 241..243 /\ b2 \in Tail8
       \/ b1 = 244 /\ b2 \in 128..143
    /\ b3 \in Tail8 /\ b4 \in Tail8

\* The branch for each length of character is the rows of that length.
LEMMA OneByteRow == \A b1 \in B : OneByte(b1) <=> Row1(b1) /\ b1 # 0
  BY SMT DEF OneByte, Row1, B

LEMMA TwoByteRow == \A b1, b2 \in B : TwoBytes(b1, b2) <=> Row2(b1, b2)
  BY Continuation, Bits, SMT DEF TwoBytes, Row2, Tail8, B

LEMMA ThreeByteRows == \A b1, b2, b3 \in B : ThreeBytes(b1, b2, b3) <=> Row3(b1, b2, b3)
  BY Continuation, Bits, SMT DEF ThreeBytes, Row3, Tail8, B

LEMMA FourByteRows ==
    \A b1, b2, b3, b4 \in B : FourBytes(b1, b2, b3, b4) <=> Row4(b1, b2, b3, b4)
  BY Continuation, Bits, SMT DEF FourBytes, Row4, Tail8, B

\* The first byte tells the length, and the others are tails.
LEMMA Shape2 ==
    ASSUME NEW b1, NEW b2, Row2(b1, b2)
    PROVE  b1 \in 194..223 /\ b2 \in Tail8 /\ b1 # 0
  BY SMT DEF Row2

LEMMA Shape3 ==
    ASSUME NEW b1, NEW b2, NEW b3, Row3(b1, b2, b3)
    PROVE  b1 \in 224..239 /\ b2 \in Tail8 /\ b3 \in Tail8 /\ b1 # 0
  BY SMT DEF Row3, Tail8

LEMMA Shape4 ==
    ASSUME NEW b1, NEW b2, NEW b3, NEW b4, Row4(b1, b2, b3, b4)
    PROVE  /\ b1 \in 240..244 /\ b1 # 0
           /\ b2 \in Tail8 /\ b3 \in Tail8 /\ b4 \in Tail8
  BY SMT DEF Row4, Tail8

LEMMA FirstNotZero ==
    /\ \A b1, b2 : Row2(b1, b2) => b1 # 0
    /\ \A b1, b2, b3 : Row3(b1, b2, b3) => b1 # 0
    /\ \A b1, b2, b3, b4 : Row4(b1, b2, b3, b4) => b1 # 0
  BY Shape2, Shape3, Shape4

\* A character of each length.
LEMMA Character1 ==
    ASSUME NEW s, NEW i \in Nat
    PROVE  CharacterAt(s, i, 1) <=> i <= Len(s) /\ Row1(s[i])
  BY DEF CharacterAt, Rows, Row1

LEMMA Character2 ==
    ASSUME NEW s, NEW i \in Nat
    PROVE  CharacterAt(s, i, 2) <=> i + 1 <= Len(s) /\ Row2(s[i], s[i + 1])
  BY DEF CharacterAt, Rows, Row2

LEMMA Character3 ==
    ASSUME NEW s, NEW i \in Nat
    PROVE  CharacterAt(s, i, 3) <=> i + 2 <= Len(s) /\ Row3(s[i], s[i + 1], s[i + 2])
  BY DEF CharacterAt, Rows, Row3

LEMMA Character4 ==
    ASSUME NEW s, NEW i \in Nat
    PROVE  CharacterAt(s, i, 4) <=>
             i + 3 <= Len(s) /\ Row4(s[i], s[i + 1], s[i + 2], s[i + 3])
  BY DEF CharacterAt, Rows, Row4

LEMMA Members ==
    ASSUME NEW s \in Seq(B), NEW i \in 1..Len(s)
    PROVE  /\ i \in Nat /\ Len(s) \in Nat /\ s[i] \in B
           /\ i + 1 <= Len(s) => s[i + 1] \in B
           /\ i + 2 <= Len(s) => s[i + 1] \in B /\ s[i + 2] \in B
           /\ i + 3 <= Len(s) => s[i + 1] \in B /\ s[i + 2] \in B /\ s[i + 3] \in B
  OBVIOUS

\* A round passes n bytes just where the table has a character of n bytes, U+0000
\* left out (the tests of is_valid_content).
THEOREM RoundIsCharacter ==
    ASSUME NEW s \in Seq(B), NEW i \in 1..Len(s), NEW n \in 1..4
    PROVE  Passes(s, i, n) <=> CharacterAt(s, i, n) /\ s[i] # 0
<1>1. i \in Nat /\ Len(s) \in Nat /\ s[i] \in B
  BY Members
<1>2. Passes(s, i, 1) <=> CharacterAt(s, i, 1) /\ s[i] # 0
  <2>1. Passes(s, i, 1) <=> i <= Len(s) /\ OneByte(s[i])
    BY <1>1 DEF Passes
  <2> QED BY <1>1, <2>1, OneByteRow, Character1, Zenon
<1>3. Passes(s, i, 2) <=> CharacterAt(s, i, 2) /\ s[i] # 0
  <2>1. Passes(s, i, 2) <=> i + 1 <= Len(s) /\ TwoBytes(s[i], s[i + 1])
    BY <1>1 DEF Passes
  <2>2. i + 1 <= Len(s) => (TwoBytes(s[i], s[i + 1]) <=> Row2(s[i], s[i + 1]))
    BY <1>1, Members, TwoByteRow, Zenon
  <2>3. Row2(s[i], s[i + 1]) => s[i] # 0
    BY FirstNotZero, Zenon
  <2> QED BY <1>1, <2>1, <2>2, <2>3, Character2, Zenon
<1>4. Passes(s, i, 3) <=> CharacterAt(s, i, 3) /\ s[i] # 0
  <2>1. Passes(s, i, 3) <=> i + 2 <= Len(s) /\ ThreeBytes(s[i], s[i + 1], s[i + 2])
    BY <1>1 DEF Passes
  <2>2. i + 2 <= Len(s) =>
          (ThreeBytes(s[i], s[i + 1], s[i + 2]) <=> Row3(s[i], s[i + 1], s[i + 2]))
    BY <1>1, Members, ThreeByteRows, Zenon
  <2>3. Row3(s[i], s[i + 1], s[i + 2]) => s[i] # 0
    BY FirstNotZero, Zenon
  <2> QED BY <1>1, <2>1, <2>2, <2>3, Character3, Zenon
<1>5. Passes(s, i, 4) <=> CharacterAt(s, i, 4) /\ s[i] # 0
  <2>1. Passes(s, i, 4) <=>
          i + 3 <= Len(s) /\ FourBytes(s[i], s[i + 1], s[i + 2], s[i + 3])
    BY <1>1 DEF Passes
  <2>2. i + 3 <= Len(s) => (FourBytes(s[i], s[i + 1], s[i + 2], s[i + 3])
                              <=> Row4(s[i], s[i + 1], s[i + 2], s[i + 3]))
    BY <1>1, Members, FourByteRows, Zenon
  <2>3. Row4(s[i], s[i + 1], s[i + 2], s[i + 3]) => s[i] # 0
    BY FirstNotZero, Zenon
  <2> QED BY <1>1, <2>1, <2>2, <2>3, Character4, Zenon
<1>6. n = 1 \/ n = 2 \/ n = 3 \/ n = 4
  OBVIOUS
<1> QED BY <1>2, <1>3, <1>4, <1>5, <1>6

\* What each length of character says of the bytes.
LEMMA CharacterShape ==
    ASSUME NEW s, NEW i \in Nat
    PROVE  /\ CharacterAt(s, i, 1) => i <= Len(s) /\ s[i] \in 0..127
           /\ CharacterAt(s, i, 2) =>
                i + 1 <= Len(s) /\ s[i] \in 194..223 /\ s[i + 1] \in Tail8
           /\ CharacterAt(s, i, 3) =>
                /\ i + 2 <= Len(s) /\ s[i] \in 224..239
                /\ s[i + 1] \in Tail8 /\ s[i + 2] \in Tail8
           /\ CharacterAt(s, i, 4) =>
                /\ i + 3 <= Len(s) /\ s[i] \in 240..244
                /\ s[i + 1] \in Tail8 /\ s[i + 2] \in Tail8 /\ s[i + 3] \in Tail8
<1>1. /\ CharacterAt(s, i, 1) => i <= Len(s) /\ Row1(s[i])
      /\ CharacterAt(s, i, 2) => i + 1 <= Len(s) /\ Row2(s[i], s[i + 1])
      /\ CharacterAt(s, i, 3) => i + 2 <= Len(s) /\ Row3(s[i], s[i + 1], s[i + 2])
      /\ CharacterAt(s, i, 4) =>
           i + 3 <= Len(s) /\ Row4(s[i], s[i + 1], s[i + 2], s[i + 3])
  BY Character1, Character2, Character3, Character4, Zenon
<1>2. Row1(s[i]) => s[i] \in 0..127
  BY Zenon DEF Row1
<1>3. Row2(s[i], s[i + 1]) => s[i] \in 194..223 /\ s[i + 1] \in Tail8
  BY Shape2, Zenon
<1>4. Row3(s[i], s[i + 1], s[i + 2]) =>
        s[i] \in 224..239 /\ s[i + 1] \in Tail8 /\ s[i + 2] \in Tail8
  BY Shape3, Zenon
<1>5. Row4(s[i], s[i + 1], s[i + 2], s[i + 3]) =>
        /\ s[i] \in 240..244
        /\ s[i + 1] \in Tail8 /\ s[i + 2] \in Tail8 /\ s[i + 3] \in Tail8
  BY Shape4, Zenon
<1> QED BY <1>1, <1>2, <1>3, <1>4, <1>5

\* The first byte is no tail, and tells the length.
LEMMA FirstByte ==
    ASSUME NEW s, NEW i \in Nat, NEW n \in 1..4, CharacterAt(s, i, n)
    PROVE  /\ s[i] \notin Tail8
           /\ n = 1 <=> s[i] \in 0..127
           /\ n = 2 <=> s[i] \in 194..223
           /\ n = 3 <=> s[i] \in 224..239
           /\ n = 4 <=> s[i] \in 240..244
<1>1. CASE n = 1
  <2>1. CharacterAt(s, i, 1)
    BY <1>1
  <2>2. s[i] \in 0..127
    BY <2>1, CharacterShape
  <2> QED BY <1>1, <2>2 DEF Tail8
<1>2. CASE n = 2
  <2>1. CharacterAt(s, i, 2)
    BY <1>2
  <2>2. s[i] \in 194..223
    BY <2>1, CharacterShape
  <2> QED BY <1>2, <2>2 DEF Tail8
<1>3. CASE n = 3
  <2>1. CharacterAt(s, i, 3)
    BY <1>3
  <2>2. s[i] \in 224..239
    BY <2>1, CharacterShape
  <2> QED BY <1>3, <2>2 DEF Tail8
<1>4. CASE n = 4
  <2>1. CharacterAt(s, i, 4)
    BY <1>4
  <2>2. s[i] \in 240..244
    BY <2>1, CharacterShape
  <2> QED BY <1>4, <2>2 DEF Tail8
<1> QED BY <1>1, <1>2, <1>3, <1>4

\* The tests for what is no character mean what they say.
LastOfPlane(b1, b2, b3) == (b1 % 16) * 4096 + (b2 % 64) * 64 + (b3 % 64) >= 65534

LEMMA ControlMeans ==
    ASSUME NEW s, NEW i, s[i] \in B
    PROVE  IsNoCharacter(s, i, 1) <=> s[i] \in 0..31 \/ s[i] = 127
  BY DEF IsNoCharacter, B

LEMMA NoCharacterMeans ==
    ASSUME NEW s, NEW i \in Nat
    PROVE  /\ s[i] \in B => (IsNoCharacter(s, i, 1) <=> s[i] \in 0..31 \/ s[i] = 127)
           /\ ~IsNoCharacter(s, i, 2)
           /\ CharacterAt(s, i, 3) =>
                (IsNoCharacter(s, i, 3) <=> LastOfPlane(s[i], s[i + 1], s[i + 2]))
           /\ CharacterAt(s, i, 4) =>
                (IsNoCharacter(s, i, 4) <=> LastOfPlane(s[i + 1], s[i + 2], s[i + 3]))
<1>1. s[i] \in B => (IsNoCharacter(s, i, 1) <=> s[i] \in 0..31 \/ s[i] = 127)
  BY ControlMeans
<1>2. ~IsNoCharacter(s, i, 2)
  BY DEF IsNoCharacter
<1>3. ASSUME CharacterAt(s, i, 3)
      PROVE  IsNoCharacter(s, i, 3) <=> LastOfPlane(s[i], s[i + 1], s[i + 2])
  <2>1. s[i] \in 224..239 /\ s[i + 1] \in Tail8 /\ s[i + 2] \in Tail8
    BY <1>3, CharacterShape
  <2>2. \A b1 \in 224..239, b2, b3 \in Tail8 :
           (b1 = 239 /\ b2 = 191 /\ b3 \div 2 = 95) <=> LastOfPlane(b1, b2, b3)
    BY SMT DEF LastOfPlane, Tail8
  <2>3. IsNoCharacter(s, i, 3) <=> s[i] = 239 /\ s[i + 1] = 191 /\ s[i + 2] \div 2 = 95
    BY DEF IsNoCharacter
  <2> QED BY <2>1, <2>2, <2>3
<1>4. ASSUME CharacterAt(s, i, 4)
      PROVE  IsNoCharacter(s, i, 4) <=> LastOfPlane(s[i + 1], s[i + 2], s[i + 3])
  <2>1. s[i + 1] \in Tail8 /\ s[i + 2] \in Tail8 /\ s[i + 3] \in Tail8
    BY <1>4, CharacterShape
  <2>2. \A b1, b2, b3 \in Tail8 :
           (b1 % 16 = 15 /\ b2 = 191 /\ b3 \div 2 = 95) <=> LastOfPlane(b1, b2, b3)
    BY SMT DEF LastOfPlane, Tail8
  <2>3. IsNoCharacter(s, i, 4) <=>
          s[i + 1] % 16 = 15 /\ s[i + 2] = 191 /\ s[i + 3] \div 2 = 95
    BY DEF IsNoCharacter
  <2> QED BY <2>1, <2>2, <2>3
<1> QED BY <1>1, <1>2, <1>3, <1>4

-------------------------------------------------------------------------------
(* The whole string. *)

\* A character begins at a start, and ends before the next one.
LEMMA CharacterIsSegment ==
    ASSUME NEW s \in Seq(B), NEW i \in 1..Len(s), NEW n \in 1..4, CharacterAt(s, i, n)
    PROVE  /\ i \in Starts(s) /\ i + n <= Len(s) + 1
           /\ \A k \in 1..(n - 1) : i + k \notin Starts(s)
<1>1. i \in Nat /\ Len(s) \in Nat
  OBVIOUS
<1>2. n = 1 \/ n = 2 \/ n = 3 \/ n = 4
  OBVIOUS
<1>3. s[i] \notin Tail8 /\ i + n <= Len(s) + 1
  <2>1. s[i] \notin Tail8
    BY <1>1, FirstByte, Zenon
  <2>2. /\ n = 2 => i + 1 <= Len(s)
        /\ n = 3 => i + 2 <= Len(s)
        /\ n = 4 => i + 3 <= Len(s)
    BY <1>1, CharacterShape
  <2> QED BY <1>1, <1>2, <2>1, <2>2
<1>4. \A k \in 1..(n - 1) : s[i + k] \in Tail8 /\ i + k <= Len(s)
  <2>1. CASE n = 1
    BY <2>1
  <2>2. CASE n = 2
    BY <1>1, <2>2, CharacterShape
  <2>3. CASE n = 3
    BY <1>1, <2>3, CharacterShape
  <2>4. CASE n = 4
    BY <1>1, <2>4, CharacterShape
  <2> QED BY <1>2, <2>1, <2>2, <2>3, <2>4
<1>5. i \in Starts(s)
  BY <1>3, Zenon DEF Starts
<1>6. ASSUME NEW k \in 1..(n - 1) PROVE i + k \notin Starts(s)
  <2>1. i + k # Len(s) + 1
    <3>1. i + k <= Len(s)
      BY <1>4
    <3> QED BY <1>1, <3>1
  <2> QED BY <1>4, <2>1, Zenon DEF Starts
<1> QED BY <1>3, <1>5, <1>6

\* From a start on, each start begins a round that is passed and ends at one.
GoodFrom(s, it) ==
    /\ it \in Starts(s)
    /\ \A i \in Starts(s) : it <= i /\ i <= Len(s) =>
          \E n \in 1..4 : /\ Passes(s, i, n) /\ ~IsNoCharacter(s, i, n)
                          /\ i + n \in Starts(s)

\* The recursion of is_valid_content holds of GoodFrom.
LEMMA GoodStep ==
    ASSUME NEW s \in Seq(B), NEW it \in 1..(Len(s) + 1)
    PROVE  GoodFrom(s, it) <=>
             \/ it = Len(s) + 1
             \/ \E n \in 1..4 : /\ Passes(s, it, n) /\ ~IsNoCharacter(s, it, n)
                                /\ GoodFrom(s, it + n)
<1>1. it \in Nat /\ Len(s) \in Nat /\ Starts(s) \subseteq Nat /\ Len(s) + 1 \in Starts(s)
  BY DEF Starts
<1>2. ASSUME GoodFrom(s, it), it # Len(s) + 1
      PROVE  \E n \in 1..4 : /\ Passes(s, it, n) /\ ~IsNoCharacter(s, it, n)
                             /\ GoodFrom(s, it + n)
  <2>1. it \in Starts(s) /\ it <= Len(s)
    BY <1>1, <1>2 DEF GoodFrom
  <2>2. PICK n \in 1..4 : /\ Passes(s, it, n) /\ ~IsNoCharacter(s, it, n)
                          /\ it + n \in Starts(s)
    BY <1>1, <1>2, <2>1 DEF GoodFrom
  <2>3. \A i \in Starts(s) : it + n <= i => it <= i
    BY <1>1
  <2>4. GoodFrom(s, it + n)
    BY <1>2, <2>2, <2>3 DEF GoodFrom
  <2> QED BY <2>2, <2>4
<1>3. ASSUME it = Len(s) + 1 PROVE GoodFrom(s, it)
  BY <1>1, <1>3 DEF GoodFrom
<1>4. ASSUME NEW n \in 1..4, Passes(s, it, n), ~IsNoCharacter(s, it, n), GoodFrom(s, it + n),
             it # Len(s) + 1
      PROVE  GoodFrom(s, it)
  <2>1. it \in 1..Len(s)
    BY <1>1, <1>4
  <2>2. CharacterAt(s, it, n)
    BY <1>4, <2>1, RoundIsCharacter
  <2>3. /\ it \in Starts(s)
        /\ \A k \in 1..(n - 1) : it + k \notin Starts(s)
    BY <2>1, <2>2, CharacterIsSegment
  <2>4. it + n \in Starts(s)
    BY <1>4 DEF GoodFrom
  <2>5. ASSUME NEW i \in Starts(s), it <= i, i <= Len(s)
        PROVE  \E m \in 1..4 : /\ Passes(s, i, m) /\ ~IsNoCharacter(s, i, m)
                               /\ i + m \in Starts(s)
    <3>1. CASE i = it
      BY <1>4, <2>4, <3>1
    <3>2. CASE it + n <= i
      BY <1>4, <2>5, <3>2 DEF GoodFrom
    <3>3. CASE it < i /\ i < it + n
      <4>1. i - it \in 1..(n - 1) /\ it + (i - it) = i
        BY <1>1, <2>5, <3>3
      <4> QED BY <2>3, <2>5, <4>1
    <3> QED BY <1>1, <2>5, <3>1, <3>2, <3>3
  <2> QED BY <2>3, <2>5 DEF GoodFrom
<1> QED BY <1>2, <1>3, <1>4

\* The function that IsValidContent defines by recursion.
Rounds(s, it, f) ==
    \/ it = Len(s) + 1
    \/ \E n \in 1..4 : /\ Passes(s, it, n) /\ ~IsNoCharacter(s, it, n)
                       /\ f[it + n]

\* There is such a function, GoodFrom, and IsValidContent takes one.
LEMMA RoundsFunction ==
    ASSUME NEW s \in Seq(B)
    PROVE  \E f : /\ f = [it \in 1..(Len(s) + 1) |-> Rounds(s, it, f)]
                  /\ IsValidContent(s) = f[1]
<1> DEFINE from[it \in 1..(Len(s) + 1)] ==
               \/ it = Len(s) + 1
               \/ \E n \in 1..4 : /\ Passes(s, it, n) /\ ~IsNoCharacter(s, it, n)
                                  /\ from[it + n]
           good == [it \in 1..(Len(s) + 1) |-> GoodFrom(s, it)]
<1>1. IsValidContent(s) = from[1]
  BY Zenon DEF IsValidContent
<1>2. from = CHOOSE f : f = [it \in 1..(Len(s) + 1) |-> Rounds(s, it, f)]
  BY Zenon DEF Rounds
<1>3. \A it \in 1..(Len(s) + 1) : GoodFrom(s, it) <=> Rounds(s, it, good)
  <2> SUFFICES ASSUME NEW it \in 1..(Len(s) + 1)
               PROVE  GoodFrom(s, it) <=> Rounds(s, it, good)
    OBVIOUS
  <2>1. \A n \in 1..4 : Passes(s, it, n) => it + n \in 1..(Len(s) + 1)
    BY DEF Passes
  <2>2. \A n \in 1..4 : Passes(s, it, n) => (good[it + n] <=> GoodFrom(s, it + n))
    BY <2>1, Zenon
  <2> QED BY <2>2, GoodStep, Zenon DEF Rounds
<1>4. good = [it \in 1..(Len(s) + 1) |-> Rounds(s, it, good)]
  <2>1. \A it \in 1..(Len(s) + 1) : GoodFrom(s, it) = Rounds(s, it, good)
    BY <1>3, Zenon DEF GoodFrom, Rounds
  <2> HIDE DEF from
  <2> QED BY <2>1, Zenon
<1> HIDE DEF from, good
<1>5. from = [it \in 1..(Len(s) + 1) |-> Rounds(s, it, from)]
  BY <1>2, <1>4
<1> QED BY <1>1, <1>5

\* By induction on what is left of the string, there is no other one.
LEMMA ValidIsGood ==
    ASSUME NEW s \in Seq(B) PROVE IsValidContent(s) <=> GoodFrom(s, 1)
<1>1. PICK f : /\ f = [it \in 1..(Len(s) + 1) |-> Rounds(s, it, f)]
               /\ IsValidContent(s) = f[1]
  BY RoundsFunction
<1>2. \A it \in 1..(Len(s) + 1) : f[it] = Rounds(s, it, f)
  BY <1>1, Zenon
<1>3. Len(s) \in Nat
  OBVIOUS
<1> DEFINE Agree(it) == f[it] <=> GoodFrom(s, it)
           S == {k \in Nat : \A it \in 1..(Len(s) + 1) : Len(s) + 1 - it <= k => Agree(it)}
<1>4. ASSUME NEW it \in 1..(Len(s) + 1),
             \A n \in 1..4 : it + n <= Len(s) + 1 => Agree(it + n)
      PROVE  Agree(it)
  <2>1. \A n \in 1..4 : Passes(s, it, n) => it + n <= Len(s) + 1
    BY <1>3 DEF Passes
  <2>2. f[it] <=> Rounds(s, it, f)
    BY <1>2, Zenon
  <2> QED BY <1>4, <2>1, <2>2, GoodStep, Zenon DEF Rounds
<1> HIDE DEF Agree
<1>5. 0 \in S
  <2>1. ASSUME NEW it \in 1..(Len(s) + 1), Len(s) + 1 - it <= 0 PROVE Agree(it)
    <3>1. \A n \in 1..4 : ~(it + n <= Len(s) + 1)
      BY <1>3, <2>1
    <3> QED BY <1>4, <3>1
  <2> QED BY <2>1
<1>6. ASSUME NEW k \in Nat, k \in S PROVE k + 1 \in S
  <2>1. ASSUME NEW it \in 1..(Len(s) + 1), Len(s) + 1 - it <= k + 1 PROVE Agree(it)
    <3>1. \A n \in 1..4 : it + n <= Len(s) + 1 =>
             it + n \in 1..(Len(s) + 1) /\ Len(s) + 1 - (it + n) <= k
      BY <1>3, <2>1
    <3>2. \A n \in 1..4 : it + n <= Len(s) + 1 => Agree(it + n)
      BY <1>6, <3>1
    <3> QED BY <1>4, <3>2
  <2> QED BY <2>1
<1>7. Nat \subseteq S
  <2> HIDE DEF S
  <2> QED BY <1>5, <1>6, SetInduction
<1>8. Len(s) \in S
  BY <1>3, <1>7
<1>9. Agree(1)
  BY <1>3, <1>8
<1> QED BY <1>1, <1>9 DEF Agree

\* is_valid_content answers WELL_FORMED of a string of bytes, of any length, if
\* and only if it is UTF-8 by the Unicode standard, without U+0000, without the
\* controls below 128 and without the last two code points of a plane.
THEOREM AcceptsStandardText ==
    ASSUME NEW s \in Seq(B)
    PROVE  IsValidContent(s) <=>
             StandardText(s) /\ ~HasControl(s) /\ ~HasNonCharacter(s)
<1>1. Len(s) \in Nat /\ \A i \in 1..Len(s) : s[i] \in B
  OBVIOUS
<1>2. ASSUME GoodFrom(s, 1)
      PROVE  StandardText(s) /\ ~HasControl(s) /\ ~HasNonCharacter(s)
  <2>1. ASSUME NEW i \in Starts(s), i <= Len(s)
        PROVE  \E n \in 1..4 : /\ CharacterAt(s, i, n) /\ s[i] # 0
                               /\ ~IsNoCharacter(s, i, n) /\ i + n \in Starts(s)
                               /\ \A k \in 1..(n - 1) : i + k \notin Starts(s)
    <3>1. i \in 1..Len(s) /\ 1 <= i
      BY <1>1, <2>1 DEF Starts
    <3>2. PICK n \in 1..4 : /\ Passes(s, i, n) /\ ~IsNoCharacter(s, i, n)
                            /\ i + n \in Starts(s)
      BY <1>2, <2>1, <3>1 DEF GoodFrom
    <3>3. CharacterAt(s, i, n) /\ s[i] # 0
      BY <3>1, <3>2, RoundIsCharacter
    <3> QED BY <3>1, <3>2, <3>3, CharacterIsSegment
  <2>2. StandardText(s)
    BY <1>2, <2>1, Zenon DEF StandardText, GoodFrom
  <2>3. ASSUME NEW i \in 1..Len(s), s[i] \in (1..31) \union {127} PROVE FALSE
    <3>1. i \in Starts(s) /\ i <= Len(s) /\ i \in Nat /\ s[i] \in 0..127
      <4>1. \A b : b \in (1..31) \union {127} => b \in 0..127 /\ b \notin Tail8
        BY SMT DEF Tail8
      <4>2. s[i] \in 0..127 /\ s[i] \notin Tail8
        BY <2>3, <4>1, Zenon
      <4> QED BY <1>1, <4>2 DEF Starts
    <3>2. PICK n \in 1..4 : CharacterAt(s, i, n) /\ ~IsNoCharacter(s, i, n)
      BY <2>1, <3>1
    <3>3. n = 1
      BY <3>1, <3>2, FirstByte, Zenon
    <3>4. s[i] \in 0..31 \/ s[i] = 127
      BY <2>3
    <3> QED BY <1>1, <3>1, <3>2, <3>3, <3>4, NoCharacterMeans
  <2>4. ASSUME NEW i \in 1..Len(s), NEW m \in {3, 4}, CharacterAt(s, i, m),
               LastOfPlane(s[i + m - 3], s[i + m - 2], s[i + m - 1])
        PROVE  FALSE
    <3>1. i \in Starts(s) /\ i <= Len(s) /\ i \in Nat
      BY <2>4, CharacterIsSegment
    <3>2. PICK n \in 1..4 : CharacterAt(s, i, n) /\ ~IsNoCharacter(s, i, n)
      BY <2>1, <3>1
    <3>3. n = m
      <4>1. m \in 1..4 /\ (m = 3 \/ m = 4)
        OBVIOUS
      <4>2. (m = 3 <=> s[i] \in 224..239) /\ (m = 4 <=> s[i] \in 240..244)
        BY <2>4, <3>1, <4>1, FirstByte
      <4>3. (n = 3 <=> s[i] \in 224..239) /\ (n = 4 <=> s[i] \in 240..244)
        BY <3>1, <3>2, FirstByte
      <4> QED BY <4>1, <4>2, <4>3
    <3>4. CASE m = 3
      <4>1. i + 3 - 3 = i /\ i + 3 - 2 = i + 1 /\ i + 3 - 1 = i + 2
        BY <3>1
      <4>2. LastOfPlane(s[i], s[i + 1], s[i + 2])
        BY <2>4, <3>4, <4>1
      <4> QED BY <2>4, <3>1, <3>2, <3>3, <3>4, <4>2, NoCharacterMeans
    <3>5. CASE m = 4
      <4>1. i + 4 - 3 = i + 1 /\ i + 4 - 2 = i + 2 /\ i + 4 - 1 = i + 3
        BY <3>1
      <4>2. LastOfPlane(s[i + 1], s[i + 2], s[i + 3])
        BY <2>4, <3>5, <4>1
      <4> QED BY <2>4, <3>1, <3>2, <3>3, <3>5, <4>2, NoCharacterMeans
    <3> QED BY <2>4, <3>4, <3>5
  <2> QED BY <2>2, <2>3, <2>4 DEF HasControl, HasNonCharacter, LastOfPlane
<1>3. ASSUME StandardText(s), ~HasControl(s), ~HasNonCharacter(s)
      PROVE  GoodFrom(s, 1)
  <2>1. ASSUME NEW i \in Starts(s), i <= Len(s)
        PROVE  \E n \in 1..4 : /\ Passes(s, i, n) /\ ~IsNoCharacter(s, i, n)
                               /\ i + n \in Starts(s)
    <3>1. i \in 1..Len(s) /\ i \in Nat /\ s[i] \in B
      BY <1>1, <2>1 DEF Starts
    <3>2. s[i] # 0
      BY <1>3, <2>1, Zenon DEF StandardText
    <3>3. PICK n \in 1..4 : CharacterAt(s, i, n) /\ i + n \in Starts(s)
      BY <1>3, <2>1, Zenon DEF StandardText
    <3>4. Passes(s, i, n)
      BY <3>1, <3>2, <3>3, RoundIsCharacter
    <3>5. ~IsNoCharacter(s, i, n)
      <4>1. CASE n = 1
        <5>1. s[i] \notin (1..31) \union {127}
          BY <1>3, <3>1 DEF HasControl
        <5>2. ~(s[i] \in 0..31 \/ s[i] = 127)
          BY <3>1, <3>2, <5>1 DEF B
        <5>3. s[i] \in B
          BY <3>1
        <5>4. ~IsNoCharacter(s, i, 1)
          BY <5>2, <5>3, ControlMeans
        <5> QED BY <4>1, <5>4
      <4>2. CASE n = 2
        BY <3>1, <4>2, NoCharacterMeans
      <4>3. CASE n = 3
        <5>1. i + 3 - 3 = i /\ i + 3 - 2 = i + 1 /\ i + 3 - 1 = i + 2
          BY <3>1
        <5>2. ~LastOfPlane(s[i + 3 - 3], s[i + 3 - 2], s[i + 3 - 1])
          BY <1>3, <3>1, <3>3, <4>3 DEF HasNonCharacter, LastOfPlane
        <5>3. ~LastOfPlane(s[i], s[i + 1], s[i + 2])
          BY <5>1, <5>2
        <5> QED BY <3>1, <3>3, <4>3, <5>3, NoCharacterMeans
      <4>4. CASE n = 4
        <5>1. i + 4 - 3 = i + 1 /\ i + 4 - 2 = i + 2 /\ i + 4 - 1 = i + 3
          BY <3>1
        <5>2. ~LastOfPlane(s[i + 4 - 3], s[i + 4 - 2], s[i + 4 - 1])
          BY <1>3, <3>1, <3>3, <4>4 DEF HasNonCharacter, LastOfPlane
        <5>3. ~LastOfPlane(s[i + 1], s[i + 2], s[i + 3])
          BY <5>1, <5>2
        <5> QED BY <3>1, <3>3, <4>4, <5>3, NoCharacterMeans
      <4>5. n = 1 \/ n = 2 \/ n = 3 \/ n = 4
        OBVIOUS
      <4> QED BY <4>1, <4>2, <4>3, <4>4, <4>5
    <3> QED BY <3>3, <3>4, <3>5
  <2> QED BY <1>3, <2>1, Zenon DEF GoodFrom, StandardText
<1> QED BY <1>2, <1>3, ValidIsGood
===============================================================================
