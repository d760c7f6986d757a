-------------------------- MODULE ConnectMeaningProofs --------------------------
(***************************************************************************)
(* What a client means by a CONNECT is what PacketCodec makes of it, for   *)
(* every meaning and after any packets, and the CONNACK says what has been *)
(* negotiated: the theorems of ConnectMeaning, behind the lemmas on bytes  *)
(* that stand in a string (At), on the wire format and on the CONNACK.     *)
(***************************************************************************)
EXTENDS ConnectMeaning, PacketCodecProofs, Utf8Proofs

\* The bytes of w stand in s, behind the n-th.
At(s, n, w) == n + Len(w) <= Len(s) /\ \A i \in 1..Len(w) : s[n + i] = w[i]

LEMMA AtJoined ==
    ASSUME NEW s \in Strings, NEW u \in Strings, NEW v \in Strings, NEW n \in Nat
    PROVE  At(s, n, u \o v) <=> At(s, n, u) /\ At(s, n + Len(u), v)
<1>1. /\ Len(s) \in Nat /\ Len(u) \in Nat /\ Len(v) \in Nat
      /\ Len(u \o v) = Len(u) + Len(v)
      /\ \A i \in 1..(Len(u) + Len(v)) : (u \o v)[i] = IF i <= Len(u) THEN u[i] ELSE v[i - Len(u)]
  BY ConcatProperties, LenProperties DEF Strings
<1> DEFINE l == Len(u)
           k == Len(v)
           w == u \o v
<1>2. l \in Nat /\ k \in Nat /\ Len(s) \in Nat /\ Len(w) = l + k
  BY <1>1
<1>3. /\ \A i \in 1..l : w[i] = u[i] /\ i \in 1..(l + k)
      /\ \A i \in 1..k : w[l + i] = v[i] /\ l + i \in 1..(l + k)
  <2>1. \A i \in 1..k : l + i \in 1..(l + k) /\ ~(l + i <= l) /\ (l + i) - l = i
    BY <1>2
  <2>2. \A i \in 1..l : i \in 1..(l + k)
    BY <1>2
  <2> QED BY <1>1, <2>1, <2>2
<1>4. ASSUME At(s, n, w) PROVE At(s, n, u) /\ At(s, n + l, v)
  <2>1. n + (l + k) <= Len(s) /\ \A i \in 1..(l + k) : s[n + i] = w[i]
    BY <1>2, <1>4 DEF At
  <2>2. \A i \in 1..l : s[n + i] = u[i]
    BY <1>3, <2>1
  <2>3. \A i \in 1..k : s[(n + l) + i] = v[i]
    <3>1. \A i \in 1..k : (n + l) + i = n + (l + i)
      BY <1>2
    <3>2. \A i \in 1..k : s[n + (l + i)] = w[l + i]
      BY <1>3, <2>1
    <3> HIDE DEF l, k, w
    <3> QED BY <1>3, <3>1, <3>2
  <2>4. n + l <= Len(s) /\ (n + l) + k <= Len(s)
    <3> HIDE DEF l, k, w
    <3> QED BY <1>2, <2>1
  <2> QED BY <2>2, <2>3, <2>4 DEF At
<1>5. ASSUME At(s, n, u), At(s, n + l, v) PROVE At(s, n, w)
  <2>1. /\ \A i \in 1..l : s[n + i] = u[i]
        /\ \A i \in 1..k : s[(n + l) + i] = v[i]
        /\ (n + l) + k <= Len(s)
    BY <1>5 DEF At
  <2>2. ASSUME NEW i \in 1..(l + k) PROVE s[n + i] = w[i]
    <3>1. CASE i <= l
      <4>1. i \in 1..l
        BY <1>2, <3>1
      <4> QED BY <1>3, <2>1, <4>1
    <3>2. CASE ~(i <= l)
      <4>1. i - l \in 1..k /\ (n + l) + (i - l) = n + i /\ l + (i - l) = i
        <5> HIDE DEF l, k, w
        <5> QED BY <1>2, <3>2
      <4>2. s[(n + l) + (i - l)] = v[i - l] /\ w[l + (i - l)] = v[i - l]
        BY <1>3, <2>1, <4>1
      <4> HIDE DEF l, k, w
      <4> QED BY <4>1, <4>2
    <3> QED BY <3>1, <3>2
  <2>3. n + (l + k) <= Len(s)
    <3> HIDE DEF l, k, w
    <3> QED BY <1>2, <2>1
  <2> QED BY <1>2, <2>2, <2>3 DEF At
<1> QED BY <1>4, <1>5

LEMMA AtSelf == ASSUME NEW s \in Strings PROVE At(s, 0, s)
<1>1. Len(s) \in Nat
  BY LenProperties DEF Strings
<1> QED BY <1>1 DEF At

\* What stands there and is as long is the whole string.
LEMMA AtWhole ==
    ASSUME NEW s \in Strings, NEW w \in Strings, Len(s) = Len(w), At(s, 0, w)
    PROVE  s = w
<1>1. Len(s) \in Nat /\ \A i \in 1..Len(s) : s[i] = w[i]
  BY LenProperties DEF Strings, At
<1> QED BY <1>1, SeqEqual DEF Strings

\* FlattenSeq joins strings from the first on.
Flattened(f, w, N) ==
    /\ f \in [0..N -> Strings] /\ f[0] = <<>> /\ f[N] = FlattenSeq(w)
    /\ \A n \in 1..N : f[n] = f[n - 1] \o w[n] /\ Len(f[n]) = Len(f[n - 1]) + Len(w[n])

LEMMA FlattenJoins ==
    ASSUME NEW N \in Nat, NEW w \in [1..N -> Strings]
    PROVE  \E f : Flattened(f, w, N)
<1> DEFINE step == [x \in (1..N) \X Strings |-> x[2] \o w[x[1]]]
           flatten[i \in 1..N] == IF i = 1 THEN w[i] ELSE flatten[i - 1] \o w[i]
<1>1. step \in [(1..N) \X Strings -> Strings]
  BY Joined
<1>2. PICK f : f \in Recursive(Strings, <<>>, N, step)
  <2>1. <<>> \in Strings
    BY DEF Strings
  <2> HIDE DEF step
  <2> QED BY <1>1, <2>1, Recursion
<1>3. /\ f \in [0..N -> Strings]
      /\ \A n \in 0..N : f[n] = IF n = 0 THEN <<>> ELSE step[<<n, f[n - 1]>>]
  BY <1>2, Zenon DEF Recursive
<1>4. /\ f[0] = <<>>
      /\ \A n \in 1..N : f[n - 1] \in Strings /\ f[n] = f[n - 1] \o w[n]
  <2>1. \A n \in 1..N : n \in 0..N /\ n # 0 /\ n - 1 \in 0..N
    OBVIOUS
  <2>2. \A n \in 1..N : f[n - 1] \in Strings /\ <<n, f[n - 1]>> \in (1..N) \X Strings
    BY <1>3, <2>1
  <2>3. 0 \in 0..N
    OBVIOUS
  <2>4. \A n \in 1..N : step[<<n, f[n - 1]>>] = f[n - 1] \o w[n]
    BY <2>2
  <2> HIDE DEF step
  <2> QED BY <1>3, <2>1, <2>2, <2>3, <2>4
<1>5. ASSUME NEW n \in 1..N PROVE Len(f[n]) = Len(f[n - 1]) + Len(w[n])
  <2>1. f[n - 1] \in Strings /\ w[n] \in Strings /\ f[n] = f[n - 1] \o w[n]
    BY <1>4
  <2> QED BY <2>1, Joined, Zenon
<1>6. Len(w) = N
  OBVIOUS
<1>7. CASE N = 0
  <2>1. FlattenSeq(w) = w
    BY <1>6, <1>7 DEF FlattenSeq
  <2>2. w = <<>>
    BY <1>7
  <2> QED BY <1>3, <1>4, <1>5, <1>7, <2>1, <2>2 DEF Flattened
<1>8. CASE N # 0
  <2> DEFINE g == [i \in 1..N |-> f[i]]
  <2>1. g = [i \in 1..N |-> IF i = 1 THEN w[i] ELSE g[i - 1] \o w[i]]
    <3>1. ASSUME NEW i \in 1..N PROVE f[i] = IF i = 1 THEN w[i] ELSE g[i - 1] \o w[i]
      <4>1. CASE i = 1
        <5>1. f[1] = f[1 - 1] \o w[1] /\ w[1] \in Strings /\ 1 - 1 = 0
          BY <1>4, <4>1
        <5>2. f[1] = <<>> \o w[1]
          BY <1>4, <5>1
        <5> QED BY <4>1, <5>1, <5>2, ConcatEmptySeq DEF Strings
      <4>2. CASE i # 1
        <5>1. i - 1 \in 1..N
          BY <4>2
        <5>2. g[i - 1] = f[i - 1]
          BY <5>1
        <5> HIDE DEF g
        <5> QED BY <1>4, <4>2, <5>2
      <4> QED BY <4>1, <4>2
    <3> QED BY <3>1
  <2>2. flatten = [i \in 1..N |-> IF i = 1 THEN w[i] ELSE flatten[i - 1] \o w[i]]
    BY <2>1, Zenon DEF flatten
  <2> HIDE DEF flatten, g
  <2>3. \A i \in 1..N : flatten[i] = f[i]
    <3> DEFINE S == {0} \union {i \in 1..N : flatten[i] = f[i]}
    <3>1. ASSUME NEW n \in 1..N, n - 1 \in S PROVE n \in S
      <4>1. flatten[n] = IF n = 1 THEN w[n] ELSE flatten[n - 1] \o w[n]
        BY <2>2
      <4>2. f[n] = f[n - 1] \o w[n] /\ w[n] \in Strings
        BY <1>4
      <4>3. CASE n = 1
        <5>1. f[1] = f[1 - 1] \o w[1] /\ 1 - 1 = 0
          BY <4>2, <4>3
        <5>2. f[1] = <<>> \o w[1]
          BY <1>4, <5>1
        <5> QED BY <4>1, <4>2, <4>3, <5>2, ConcatEmptySeq DEF Strings
      <4>4. CASE n # 1
        <5>1. flatten[n - 1] = f[n - 1]
          BY <3>1, <4>4
        <5> QED BY <4>1, <4>2, <4>4, <5>1
      <4> QED BY <4>3, <4>4
    <3>2. 0..N \subseteq S
      <4>1. 0 \in S
        OBVIOUS
      <4> HIDE DEF S
      <4> QED BY <3>1, <4>1, UpToInduction
    <3> QED BY <3>2
  <2>4. FlattenSeq(w) = flatten[N]
    BY <1>6, <1>8, Zenon DEF FlattenSeq, flatten
  <2>5. f[N] = FlattenSeq(w)
    BY <1>8, <2>3, <2>4
  <2> QED BY <1>3, <1>4, <1>5, <2>5 DEF Flattened
<1> QED BY <1>7, <1>8

\* Where all of the strings stand, each of them stands behind the ones before it.
LEMMA AtFlattened ==
    ASSUME NEW N \in Nat, NEW w \in [1..N -> Strings], NEW f, Flattened(f, w, N),
           NEW s \in Strings, NEW a \in Nat, At(s, a, FlattenSeq(w))
    PROVE  \A n \in 1..N : At(s, a + Len(f[n - 1]), w[n])
<1>1. /\ f \in [0..N -> Strings] /\ f[N] = FlattenSeq(w)
      /\ \A n \in 1..N : f[n] = f[n - 1] \o w[n]
  BY DEF Flattened
<1>2. ASSUME NEW n \in 1..N, At(s, a, f[n])
      PROVE  At(s, a, f[n - 1]) /\ At(s, a + Len(f[n - 1]), w[n])
  <2>1. n - 1 \in 0..N /\ f[n - 1] \in Strings /\ w[n] \in Strings /\ f[n] = f[n - 1] \o w[n]
    BY <1>1
  <2>2. At(s, a, f[n - 1] \o w[n])
    BY <1>2, <2>1
  <2> QED BY <2>1, <2>2, AtJoined, Zenon
<1> DEFINE S == {k \in 0..N : At(s, a, f[N - k])}
<1>3. 0 \in S
  BY <1>1
<1>4. ASSUME NEW k \in 1..N, k - 1 \in S PROVE k \in S
  <2> DEFINE n == N - (k - 1)
  <2>1. n \in 1..N /\ n - 1 = N - k /\ k \in 0..N
    OBVIOUS
  <2>2. At(s, a, f[n])
    BY <1>4
  <2> HIDE DEF n
  <2> QED BY <1>2, <2>1, <2>2
<1>5. 0..N \subseteq S
  <2> HIDE DEF S
  <2> QED BY <1>3, <1>4, UpToInduction
<1>6. \A n \in 1..N : At(s, a, f[n])
  <2>1. \A n \in 1..N : N - n \in 0..N /\ N - (N - n) = n
    OBVIOUS
  <2> QED BY <1>5, <2>1
<1> QED BY <1>2, <1>6

\* The lengths only grow.
LEMMA LengthsGrow ==
    ASSUME NEW N \in Nat, NEW w \in [1..N -> Strings], NEW f, Flattened(f, w, N)
    PROVE  /\ \A n \in 0..N : Len(f[n]) \in Nat /\ Len(f[n]) <= Len(f[N])
           /\ \A n \in 1..N : Len(f[n]) = Len(f[n - 1]) + Len(w[n]) /\ Len(w[n]) \in Nat
<1>1. \A n \in 0..N : Len(f[n]) \in Nat
  BY LenProperties DEF Flattened, Strings
<1>2. \A n \in 1..N : Len(f[n]) = Len(f[n - 1]) + Len(w[n]) /\ Len(w[n]) \in Nat
  BY LenProperties DEF Flattened, Strings
<1> DEFINE S == {k \in 0..N : Len(f[N - k]) <= Len(f[N])}
<1>3. 0 \in S
  BY <1>1
<1>4. ASSUME NEW k \in 1..N, k - 1 \in S PROVE k \in S
  <2> DEFINE n == N - (k - 1)
  <2>1. n \in 1..N /\ n - 1 = N - k /\ k \in 0..N /\ n \in 0..N /\ n - 1 \in 0..N /\ N \in 0..N
    OBVIOUS
  <2>2. Len(f[n]) <= Len(f[N])
    BY <1>4
  <2> HIDE DEF n
  <2>3. Len(f[n - 1]) <= Len(f[N])
    BY <1>1, <1>2, <2>1, <2>2
  <2> QED BY <2>1, <2>3
<1>5. 0..N \subseteq S
  <2> HIDE DEF S
  <2> QED BY <1>3, <1>4, UpToInduction
<1>6. \A n \in 0..N : N - n \in 0..N /\ N - (N - n) = n
  OBVIOUS
<1> QED BY <1>1, <1>2, <1>5, <1>6

\* A slice begins with what stands at its place, if it is long enough.
LEMMA AtSlice ==
    ASSUME NEW s \in Strings, NEW n \in Nat, NEW m \in Nat, m <= Len(s),
           NEW w \in Strings, NEW k \in Nat, At(s, n + k, w), n + k + Len(w) <= m
    PROVE  SubSeq(s, n + 1, m) \in Strings /\ At(SubSeq(s, n + 1, m), k, w)
<1> DEFINE t == SubSeq(s, n + 1, m)
           l == Len(w)
<1>1. Len(s) \in Nat /\ l \in Nat
  BY LenProperties DEF Strings
<1>2. /\ t \in Strings /\ Len(t) = (IF n + 1 <= m THEN m - (n + 1) + 1 ELSE 0)
  BY <1>1, Slice
<1>3. \A i \in 1..(m - n) : t[i] = s[n + i]
  <2>1. \A i \in (n + 1)..m : s[i] \in Byte
    BY <1>1 DEF Strings
  <2>2. \A i \in 1..(m - (n + 1) + 1) : t[i] = s[(n + 1) + i - 1]
    BY <1>1, <2>1, SubSeqProperties DEF Strings
  <2>3. \A i \in 1..(m - n) : i \in 1..(m - (n + 1) + 1) /\ (n + 1) + i - 1 = n + i
    OBVIOUS
  <2> HIDE DEF t
  <2> QED BY <2>2, <2>3
<1>4. k + l <= Len(t)
  <2> HIDE DEF t, l
  <2> QED BY <1>1, <1>2 DEF l
<1>5. ASSUME NEW i \in 1..l PROVE t[k + i] = w[i]
  <2>1. k + i \in 1..(m - n) /\ n + (k + i) = (n + k) + i
    <3> HIDE DEF t, l
    <3> QED BY <1>1 DEF l
  <2>2. s[(n + k) + i] = w[i]
    BY DEF At
  <2> HIDE DEF t, l
  <2> QED BY <1>3, <2>1, <2>2
<1> QED BY <1>2, <1>4, <1>5 DEF At

\* What stands in front, and what stands behind it.
LEMMA AtFront ==
    ASSUME NEW s \in Strings, NEW u \in Strings, NEW v \in Strings, At(s, 0, u \o v)
    PROVE  At(s, 0, u) /\ At(s, Len(u), v)
<1>1. \A n \in Nat : At(s, n, u \o v) <=> At(s, n, u) /\ At(s, n + Len(u), v)
  BY AtJoined
<1>2. Len(u) \in Nat /\ (0 + Len(u) = Len(u))
  BY LenProperties DEF Strings
<1>3. At(s, 0, u) /\ At(s, 0 + Len(u), v)
  BY <1>1
<1> QED BY <1>2, <1>3

LEMMA AtTwo ==
    ASSUME NEW s \in Strings, NEW v \in Strings, NEW a \in Byte, NEW b \in Byte,
           At(s, 0, <<a, b>> \o v)
    PROVE  At(s, 2, v) /\ s[1] = a /\ s[2] = b
<1>1. <<a, b>> \in Strings /\ Len(<<a, b>>) = 2
  BY DEF Strings
<1>2. At(s, 0, <<a, b>>) /\ At(s, Len(<<a, b>>), v)
  BY <1>1, AtFront
<1>3. \A i \in 1..2 : s[0 + i] = <<a, b>>[i]
  BY <1>1, <1>2 DEF At
<1>4. s[0 + 1] = a /\ s[0 + 2] = b
  BY <1>3
<1>5. 0 + 1 = 1 /\ 0 + 2 = 2
  OBVIOUS
<1> QED BY <1>1, <1>2, <1>4, <1>5

\* The bytes of a string on the wire.
LEMMA WireStringFits ==
    ASSUME NEW x \in ShortStrings
    PROVE  /\ x \in Strings /\ WireString(x) \in Strings
           /\ Len(x) \in Nat /\ Len(WireString(x)) = 2 + Len(x)
<1>1. x \in Strings /\ Len(x) \in Nat
  BY LenProperties DEF ShortStrings, Strings
<1> QED BY <1>1, StringBytesFit DEF WireString, StringBytes, LengthBytes

\* What reads a string finds the one that was written.
LEMMA ReadsString ==
    ASSUME NEW s \in Strings, NEW x \in ShortStrings, At(s, 0, WireString(x))
    PROVE  HoldsString(s) /\ Length(s) = Len(x) /\ StringOf(s) = x
<1> DEFINE l == Len(x)
<1>1. x \in Strings /\ l \in Nat /\ l <= 65535 /\ Len(s) \in Nat
  BY LenProperties DEF ShortStrings, Strings
<1>2. l \div 256 \in Byte /\ l % 256 \in Byte
  <2>1. ASSUME NEW n \in Nat, n <= 65535 PROVE n \div 256 \in 0..255 /\ n % 256 \in 0..255
    BY <2>1
  <2> HIDE DEF l
  <2> QED BY <1>1, <2>1 DEF Byte
<1>3. At(s, 2, x) /\ s[1] = l \div 256 /\ s[2] = l % 256
  <2>1. WireString(x) = <<l \div 256, l % 256>> \o x
    BY DEF WireString
  <2>2. \A a, b \in Byte : At(s, 0, <<a, b>> \o x) => At(s, 2, x) /\ s[1] = a /\ s[2] = b
    BY <1>1, AtTwo
  <2>3. l \div 256 \in Byte /\ l % 256 \in Byte
    BY <1>2
  <2> HIDE DEF l
  <2> QED BY <2>1, <2>2, <2>3
<1>5. Length(s) = l
  <2>1. \A n \in Nat : (n \div 256) * 256 + (n % 256) = n
    OBVIOUS
  <2> HIDE DEF l
  <2> QED BY <1>1, <1>3, <2>1 DEF Length
<1>6. 2 + l <= Len(s) /\ \A i \in 1..l : s[2 + i] = x[i]
  BY <1>3 DEF At
<1>7. HoldsString(s)
  <2> HIDE DEF l
  <2> QED BY <1>1, <1>5, <1>6 DEF HoldsString
<1>8. StringOf(s) = x
  <2>1. At(s, 2 + 0, x) /\ 2 + 0 + Len(x) <= 2 + l
    <3>1. 2 + 0 = 2
      OBVIOUS
    <3> QED BY <1>1, <1>3, <3>1
  <2>0. 2 \in Nat /\ 0 \in Nat /\ 2 + l \in Nat /\ 2 + l <= Len(s)
    BY <1>1, <1>6
  <2>2. SubSeq(s, 2 + 1, 2 + l) \in Strings /\ At(SubSeq(s, 2 + 1, 2 + l), 0, x)
    <3>1. \A n, m, k \in Nat : m <= Len(s) /\ At(s, n + k, x) /\ n + k + Len(x) <= m =>
              SubSeq(s, n + 1, m) \in Strings /\ At(SubSeq(s, n + 1, m), k, x)
      BY <1>1, AtSlice
    <3> HIDE DEF l
    <3> QED BY <2>0, <2>1, <3>1
  <2>3. Len(SubSeq(s, 2 + 1, 2 + l)) = l
    <3>1. 2 + 1 \in Nat \ {0} /\ 2 + l \in Int
      BY <1>1
    <3>2. Len(SubSeq(s, 2 + 1, 2 + l)) = IF 2 + 1 <= 2 + l THEN (2 + l) - (2 + 1) + 1 ELSE 0
      BY <1>6, <3>1, Slice
    <3> HIDE DEF l
    <3> QED BY <1>1, <3>2
  <2>4. SubSeq(s, 2 + 1, 2 + l) = x
    <3>1. \A t \in Strings : Len(t) = Len(x) /\ At(t, 0, x) => t = x
      BY <1>1, AtWhole
    <3> QED BY <2>2, <2>3, <3>1
  <2> QED BY <1>5, <2>4 DEF StringOf
<1> QED BY <1>5, <1>7, <1>8

\* ... and the second one of a pair behind it.
LEMMA ReadsPair ==
    ASSUME NEW s \in Strings, NEW x \in ShortStrings, NEW y \in ShortStrings,
           At(s, 0, WireString(x) \o WireString(y))
    PROVE  /\ HoldsString(s) /\ Length(s) = Len(x) /\ StringOf(s) = x
           /\ HoldsString(Behind(s)) /\ Length(Behind(s)) = Len(y) /\ StringOf(Behind(s)) = y
<1>1. /\ WireString(x) \in Strings /\ WireString(y) \in Strings /\ Len(x) \in Nat /\ Len(y) \in Nat
      /\ Len(WireString(x)) = 2 + Len(x) /\ Len(WireString(y)) = 2 + Len(y) /\ Len(s) \in Nat
  BY WireStringFits, LenProperties DEF Strings
<1>2. At(s, 0, WireString(x)) /\ At(s, 0 + Len(WireString(x)), WireString(y))
  BY <1>1, AtJoined
<1>3. HoldsString(s) /\ Length(s) = Len(x) /\ StringOf(s) = x
  BY <1>2, ReadsString
<1>4. /\ At(s, (2 + Len(x)) + 0, WireString(y))
      /\ (2 + Len(x)) + 0 + Len(WireString(y)) <= Len(s)
  <2>1. 0 + Len(WireString(x)) = (2 + Len(x)) + 0
    BY <1>1
  <2> QED BY <1>1, <1>2, <2>1 DEF At
<1>5. /\ SubSeq(s, (2 + Len(x)) + 1, Len(s)) \in Strings
      /\ At(SubSeq(s, (2 + Len(x)) + 1, Len(s)), 0, WireString(y))
  <2>1. 2 + Len(x) \in Nat /\ Len(s) <= Len(s)
    BY <1>1
  <2> QED BY <1>1, <1>4, <2>1, AtSlice
<1>6. Behind(s) = SubSeq(s, (2 + Len(x)) + 1, Len(s))
  <2>1. 3 + Len(x) = (2 + Len(x)) + 1
    BY <1>1
  <2> QED BY <1>3, <2>1 DEF Behind
<1> QED BY <1>3, <1>5, <1>6, ReadsString

\* The empty string is a text.
LEMMA EmptyIsText == StandardText(<<>>)
  BY DEF StandardText, Starts

\* What TextIsWellFormed says of a configuration.
TextPairs(users) == \A i \in DOMAIN users : StandardText(users[i][1]) /\ StandardText(users[i][2])
TextIn(c) ==
    /\ \A t \in ConfigPayloads : ~IsBinaryPayload(t) => StandardText(c.payload[t])
    /\ StandardText(c.property["AUTHENTICATION_METHOD"])
    /\ StandardText(c.will.property["CONTENT_TYPE"])
    /\ StandardText(c.will.property["RESPONSE_TOPIC"])
    /\ TextPairs(c.userProperties) /\ TextPairs(c.will.userProperties)

LEMMA TextNamed == TextIsWellFormed <=> TextIn(cfg)
  BY DEF TextIsWellFormed, TextIn, TextPairs

LEMMA TextTypes ==
    /\ DataType("AUTHENTICATION_METHOD") = "UTF8_STRING"
    /\ DataType("CONTENT_TYPE") = "UTF8_STRING" /\ DataType("RESPONSE_TOPIC") = "UTF8_STRING"
<1>1. /\ "AUTHENTICATION_METHOD" \in StringProperties
      /\ "CONTENT_TYPE" \in StringProperties /\ "RESPONSE_TOPIC" \in StringProperties
  BY DEF StringProperties
<1>2. \A p \in StringProperties :
         /\ p \notin ByteProperties /\ p \notin TwoByteProperties /\ p \notin FourByteProperties
         /\ p \notin BinaryProperties /\ p # "SUBSCRIPTION_ID" /\ p # "USER_PROPERTY"
  BY DEF ByteProperties, TwoByteProperties, FourByteProperties, StringProperties,
         BinaryProperties
<1>3. ASSUME NEW p \in StringProperties PROVE DataType(p) = "UTF8_STRING"
  BY <1>2, SMT DEF DataType
<1> QED BY <1>1, <1>3

LEMMA DefaultIsText ==
    /\ TextIn(DefaultConfig)
    /\ FreshWill(TRUE).property["CONTENT_TYPE"] = <<>>
    /\ FreshWill(TRUE).property["RESPONSE_TOPIC"] = <<>> /\ FreshWill(TRUE).userProperties = <<>>
<1>1. \A b \in BOOLEAN :
          /\ FreshWill(b).property["CONTENT_TYPE"] = <<>>
          /\ FreshWill(b).property["RESPONSE_TOPIC"] = <<>> /\ FreshWill(b).userProperties = <<>>
  BY DEF FreshWill, WillProperties, IsPropertyFixed, ByteProperties, TwoByteProperties,
         FourByteProperties
<1>2. DefaultConfig.property["AUTHENTICATION_METHOD"] = <<>>
  BY DEF DefaultConfig, ConfigProperties, InConnect, ByteProperties
<1>3. DefaultConfig.userProperties = <<>> /\ DefaultConfig.will = FreshWill(FALSE)
  BY DEF DefaultConfig
<1>4. \A t \in ConfigPayloads : DefaultConfig.payload[t] = <<>>
  BY DEF DefaultConfig
<1>5. TextPairs(<<>>)
  BY DEF TextPairs
<1>6. /\ DefaultConfig.will.property["CONTENT_TYPE"] = <<>>
      /\ DefaultConfig.will.property["RESPONSE_TOPIC"] = <<>>
      /\ DefaultConfig.will.userProperties = <<>>
  BY <1>1, <1>3
<1>7. TextIn(DefaultConfig)
  BY <1>2, <1>3, <1>4, <1>5, <1>6, EmptyIsText, Zenon DEF TextIn
<1> QED BY <1>1, <1>7

\* Appending a pair of texts.
LEMMA AppendsText ==
    ASSUME NEW users \in Seq(Pairs), NEW q \in Pairs,
           TextPairs(users), StandardText(q[1]), StandardText(q[2])
    PROVE  TextPairs(Append(users, q))
<1>1. /\ Len(users) \in Nat /\ Len(Append(users, q)) = Len(users) + 1
      /\ DOMAIN Append(users, q) = 1..(Len(users) + 1) /\ DOMAIN users = 1..Len(users)
      /\ \A i \in 1..Len(users) : Append(users, q)[i] = users[i]
      /\ Append(users, q)[Len(users) + 1] = q
  BY AppendProperties, LenProperties
<1>2. \A i \in 1..(Len(users) + 1) : i \in 1..Len(users) \/ i = Len(users) + 1
  BY <1>1
<1> QED BY <1>1, <1>2 DEF TextPairs

\* What is given to configure_propriety of a text has been found to be one.
IsDataText(p, data) ==
    /\ DataType(p) = "UTF8_STRING" => StandardText(data)
    /\ p = "USER_PROPERTY" => StandardText(data[1]) /\ StandardText(data[2])

LEMMA ConfiguresText ==
    ASSUME NEW c \in ClientConfigs, TextIn(c), NEW p,
           NEW data \in IF p = "USER_PROPERTY" THEN Pairs ELSE Strings, IsDataText(p, data)
    PROVE  TextIn(ConfigurePropriety(c, p, data).cfg)
<1> DEFINE d == ConfigurePropriety(c, p, data).cfg
<1>1. CASE p = "USER_PROPERTY"
  <2>1. d = [c EXCEPT !.userProperties = Append(@, data)]
    BY <1>1 DEF ConfigurePropriety, ConfigProperties
  <2>2. /\ d.payload = c.payload /\ d.property = c.property /\ d.will = c.will
        /\ d.userProperties = Append(c.userProperties, data)
    BY <2>1 DEF ClientConfigs
  <2>3. c.userProperties \in Seq(Pairs)
    BY DEF ClientConfigs
  <2> HIDE DEF d
  <2>4. TextPairs(d.userProperties)
    BY <1>1, <2>2, <2>3, AppendsText DEF TextIn, IsDataText
  <2>9. TextIn(d)
    BY <2>2, <2>4 DEF TextIn
  <2> QED BY <2>9 DEF d
<1>2. CASE p # "USER_PROPERTY" /\ d # c
  <2>1. p \in ConfigProperties /\ d = [c EXCEPT !.property[p] = data]
    BY <1>2 DEF ConfigurePropriety
  <2>2. /\ d.payload = c.payload /\ d.will = c.will /\ d.userProperties = c.userProperties
        /\ d.property = [c.property EXCEPT ![p] = data]
    BY <2>1 DEF ClientConfigs
  <2>3. p = "AUTHENTICATION_METHOD" => StandardText(data)
    BY TextTypes DEF IsDataText
  <2>4. c.property \in [ConfigProperties -> Strings] /\ "AUTHENTICATION_METHOD" \in ConfigProperties
    BY DEF ClientConfigs, ConfigProperties, InConnect
  <2> HIDE DEF d
  <2>5. d.property["AUTHENTICATION_METHOD"]
          = IF p = "AUTHENTICATION_METHOD" THEN data ELSE c.property["AUTHENTICATION_METHOD"]
    BY <2>2, <2>4
  <2>9. TextIn(d)
    BY <2>2, <2>3, <2>5 DEF TextIn
  <2> QED BY <2>9 DEF d
<1>3. CASE d = c
  BY <1>3
<1> QED BY <1>1, <1>2, <1>3

LEMMA ConfiguresWillText ==
    ASSUME NEW c \in ClientConfigs, TextIn(c), NEW p,
           NEW data \in IF p = "USER_PROPERTY" THEN Pairs ELSE Strings, IsDataText(p, data)
    PROVE  TextIn(ConfigureWillPropriety(c, p, data).cfg)
<1> DEFINE d == ConfigureWillPropriety(c, p, data).cfg
<1>1. CASE d = c
  BY <1>1
<1>2. CASE d # c /\ p = "USER_PROPERTY"
  <2>1. d = [c EXCEPT !.will.userProperties = Append(@, data)]
    BY <1>2 DEF ConfigureWillPropriety, WillProperties
  <2>2. /\ d.payload = c.payload /\ d.property = c.property
        /\ d.userProperties = c.userProperties
        /\ d.will.property = c.will.property
        /\ d.will.userProperties = Append(c.will.userProperties, data)
    BY <2>1 DEF ClientConfigs, WillConfigs
  <2>3. c.will.userProperties \in Seq(Pairs)
    BY DEF ClientConfigs, WillConfigs
  <2> HIDE DEF d
  <2>4. TextPairs(d.will.userProperties)
    BY <1>2, <2>2, <2>3, AppendsText DEF TextIn, IsDataText
  <2>9. TextIn(d)
    BY <2>2, <2>4 DEF TextIn
  <2> QED BY <2>9 DEF d
<1>3. CASE d # c /\ p # "USER_PROPERTY"
  <2>1. p \in WillProperties /\ d = [c EXCEPT !.will.property[p] = data]
    BY <1>3 DEF ConfigureWillPropriety
  <2>2. /\ d.payload = c.payload /\ d.property = c.property
        /\ d.userProperties = c.userProperties
        /\ d.will.userProperties = c.will.userProperties
        /\ d.will.property = [c.will.property EXCEPT ![p] = data]
    BY <2>1 DEF ClientConfigs, WillConfigs
  <2>3. p \in {"CONTENT_TYPE", "RESPONSE_TOPIC"} => StandardText(data)
    BY TextTypes DEF IsDataText
  <2>4. c.will.property \in [WillProperties -> Strings]
    BY DEF ClientConfigs, WillConfigs
  <2> HIDE DEF d
  <2>5. ASSUME NEW q \in {"CONTENT_TYPE", "RESPONSE_TOPIC"}
        PROVE  d.will.property[q] = IF p = q THEN data ELSE c.will.property[q]
    <3>1. q \in WillProperties
      BY DEF WillProperties
    <3> QED BY <2>2, <2>4, <3>1
  <2>6. /\ StandardText(d.will.property["CONTENT_TYPE"])
        /\ StandardText(d.will.property["RESPONSE_TOPIC"])
    BY <2>3, <2>5 DEF TextIn
  <2>9. TextIn(d)
    BY <2>2, <2>6 DEF TextIn
  <2> QED BY <2>9 DEF d
<1> QED BY <1>1, <1>2, <1>3

\* A payload that is stored is a text, unless it is binary.
LEMMA StoresText ==
    ASSUME NEW c \in ClientConfigs, TextIn(c), NEW t \in ConfigPayloads, NEW data \in Strings,
           ~IsBinaryPayload(t) => StandardText(data)
    PROVE  TextIn(ConfigurePayload(c, t, data).cfg)
<1> DEFINE d == ConfigurePayload(c, t, data).cfg
<1>1. CASE d = c
  BY <1>1
<1>2. CASE d # c
  <2>1. d = [c EXCEPT !.payload[t] = data]
    BY <1>2 DEF ConfigurePayload
  <2>2. /\ d.property = c.property /\ d.will = c.will /\ d.userProperties = c.userProperties
        /\ d.payload = [c.payload EXCEPT ![t] = data] /\ c.payload \in [ConfigPayloads -> Strings]
    BY <2>1 DEF ClientConfigs
  <2> HIDE DEF d
  <2>3. \A u \in ConfigPayloads : d.payload[u] = IF u = t THEN data ELSE c.payload[u]
    BY <2>2
  <2>9. TextIn(d)
    BY <2>2, <2>3 DEF TextIn
  <2> QED BY <2>9 DEF d
<1> QED BY <1>1, <1>2

\* get_property_data asks of each string whether it is well-formed.
LEMMA PresentIsText ==
    ASSUME NEW p, NEW s \in Strings, Present(p, s),
           \A t \in Strings : WellFormed(t) => StandardText(t)
    PROVE  IsDataText(p, DataOf(p, s))
<1>1. CASE p = "USER_PROPERTY"
  <2>1. ~IsPropertyFixed(p) /\ DataType(p) = "UTF8_STRING_PAIR"
    BY <1>1 DEF IsPropertyFixed, DataType, ByteProperties, TwoByteProperties,
                FourByteProperties, StringProperties, BinaryProperties
  <2>2. IsString(s) /\ IsString(Behind(s))
    BY <2>1 DEF Present
  <2>3. HoldsString(s) /\ HoldsString(Behind(s))
    BY <2>2 DEF IsString
  <2>4. StringOf(s) \in Strings /\ Behind(s) \in Strings /\ StringOf(Behind(s)) \in Strings
    BY <2>3, StringFits
  <2>5. DataOf(p, s) = <<StringOf(s), StringOf(Behind(s))>>
    BY <2>1 DEF DataOf
  <2>6. StandardText(StringOf(s)) /\ StandardText(StringOf(Behind(s)))
    BY <2>2, <2>4 DEF IsString
  <2> QED BY <2>1, <2>5, <2>6 DEF IsDataText
<1>2. CASE p # "USER_PROPERTY" /\ DataType(p) = "UTF8_STRING"
  <2>1. ~IsPropertyFixed(p)
    <3> SUFFICES ASSUME IsPropertyFixed(p) PROVE FALSE
      OBVIOUS
    <3>1. DataType(p) \in {"BYTE", "TWO_BYTES_INT", "FOUR_BYTES_INT"}
      BY Zenon DEF IsPropertyFixed, DataType, ByteProperties, TwoByteProperties,
                   FourByteProperties, StringProperties, BinaryProperties
    <3> QED BY <1>2, <3>1
  <2>2. IsString(s) /\ DataOf(p, s) = StringOf(s)
    BY <1>2, <2>1 DEF Present, DataOf
  <2>3. StringOf(s) \in Strings
    BY <2>2, StringFits DEF IsString
  <2> QED BY <1>2, <2>2, <2>3 DEF IsDataText, IsString
<1>3. CASE p # "USER_PROPERTY" /\ DataType(p) # "UTF8_STRING"
  BY <1>3 DEF IsDataText
<1> QED BY <1>1, <1>2, <1>3

\* What is configured of a property is a text, although it may then be refused.
LEMMA ConfiguredIsText ==
    ASSUME DecoderInv, TextIn(cfg), phase = "properties", pos # stop, NEW p,
           PropertyCode(p, Between(pos + 1, stop)) = "SUCCESS",
           \A t \in Strings : WellFormed(t) => StandardText(t)
    PROVE  TextIn(Configured(p, Between(pos + 1, stop)).cfg)
<1> DEFINE s == Between(pos + 1, stop)
           data == DataOf(p, s)
<1>1. s \in Strings /\ cfg \in ClientConfigs
  BY Remaining DEF DecoderInv, DecoderTypeOK
<1>2. Present(p, s)
  BY DEF PropertyCode
<1> HIDE DEF s
<1>3. data \in IF p = "USER_PROPERTY" THEN Pairs ELSE Strings
  BY <1>1, <1>2, PresentFits
<1>4. IsDataText(p, data)
  BY <1>1, <1>2, PresentIsText
<1> HIDE DEF data
<1>5. /\ TextIn(ConfigurePropriety(cfg, p, data).cfg)
      /\ TextIn(ConfigureWillPropriety(cfg, p, data).cfg)
  BY <1>1, <1>3, <1>4, ConfiguresText, ConfiguresWillText
<1> QED BY <1>5 DEF Configured, s, data

\* The will of a CONNECT that announces one begins empty.
LEMMA FlagsKeepText ==
    ASSUME NEW f, cfg \in ClientConfigs, TextIn(cfg)
    PROVE  TextIn(WithFlags(f))
<1> DEFINE d == WithFlags(f)
           ends == [cfg.payload EXCEPT !["WILL_TOPIC"] = <<>>, !["WILL_PAYLOAD"] = <<>>]
<1>1. /\ d.property = cfg.property /\ d.userProperties = cfg.userProperties
      /\ d.will = IF Bit(f, 2) THEN FreshWill(TRUE) ELSE cfg.will
      /\ d.payload = IF Bit(f, 2) THEN ends ELSE cfg.payload
  BY DEF WithFlags, ClientConfigs
<1>2. \A t \in ConfigPayloads : ends[t] \in {cfg.payload[t], <<>>}
  BY DEF ClientConfigs
<1> HIDE DEF d, ends
<1>3. \A t \in ConfigPayloads : ~IsBinaryPayload(t) => StandardText(d.payload[t])
  BY <1>1, <1>2, EmptyIsText DEF TextIn
<1>4. TextPairs(<<>>)
  BY DEF TextPairs
<1>5. /\ StandardText(d.will.property["CONTENT_TYPE"])
      /\ StandardText(d.will.property["RESPONSE_TOPIC"]) /\ TextPairs(d.will.userProperties)
  BY <1>1, <1>4, DefaultIsText, EmptyIsText DEF TextIn
<1>6. StandardText(d.property["AUTHENTICATION_METHOD"]) /\ TextPairs(d.userProperties)
  BY <1>1 DEF TextIn
<1>7. TextIn(d)
  BY <1>3, <1>5, <1>6 DEF TextIn
<1> QED BY <1>7 DEF d

LEMMA TextStep ==
    ASSUME DecoderInv, TextIn(cfg), [Next]_vars,
           \A t \in Strings : WellFormed(t) => StandardText(t)
    PROVE  TextIn(cfg)'
<1>0. cfg \in ClientConfigs
  BY DEF DecoderInv, DecoderTypeOK
<1>1. CASE UNCHANGED cfg
  BY <1>1 DEF TextIn
<1>2. CASE DecodeConnect
  <2>1. cfg' = WithFlags(body[8])
    BY <1>2 DEF DecodeConnect
  <2>2. TextIn(WithFlags(body[8]))
    BY <1>0, FlagsKeepText
  <2> QED BY <2>1, <2>2 DEF TextIn
<1>3. CASE ReadProperty \/ (RefuseProperty /\ cfg' # cfg)
  <2> DEFINE p == PropertyOf(body[pos + 1])
             c == Configured(p, Between(pos + 1, stop)).cfg
  <2>1. /\ phase = "properties" /\ pos # stop
        /\ PropertyCode(p, Between(pos + 1, stop)) = "SUCCESS" /\ cfg' = c
    BY <1>3 DEF ReadProperty, RefuseProperty
  <2>2. TextIn(c)
    BY <2>1, ConfiguredIsText
  <2> HIDE DEF c
  <2> QED BY <2>1, <2>2 DEF TextIn
<1>4. CASE ReadPayload
  <2> DEFINE s == From(pos)
             c == ConfigurePayload(cfg, Payload, StringOf(s)).cfg
  <2>1. /\ phase = "payload" /\ slot <= 6 /\ pos < Len(body) /\ Payload # "WILL_PROPERTIES"
        /\ PayloadPresent(Payload, s) /\ cfg' = c
    BY <1>4 DEF ReadPayload, AtPayload, PayloadCode
  <2>2. s \in Strings /\ HoldsString(s)
    BY <2>1, Remaining DEF DecoderInv, DecoderTypeOK, PayloadPresent, IsString
  <2>3. StringOf(s) \in Strings
    BY <2>2, StringFits
  <2>4. Payload \in ConfigPayloads
    BY <2>1 DEF Payload, ConfigPayloads, PayloadTypeSet, DecoderInv, DecoderTypeOK
  <2>5. ~IsBinaryPayload(Payload) => StandardText(StringOf(s))
    BY <2>1, <2>3 DEF PayloadPresent, IsString
  <2>6. TextIn(c)
    BY <1>0, <2>3, <2>4, <2>5, StoresText
  <2> HIDE DEF c
  <2> QED BY <2>1, <2>6 DEF TextIn
<1>5. CASE DecodePublish \/ DecodePublishOverrun
  <2>1. PICK topic : cfg' = [cfg EXCEPT !.lastTopic = topic]
    BY <1>5 DEF DecodePublish, DecodePublishOverrun, KeepTopic
  <2>2. /\ cfg'.payload = cfg.payload /\ cfg'.property = cfg.property /\ cfg'.will = cfg.will
        /\ cfg'.userProperties = cfg.userProperties
    BY <1>0, <2>1 DEF ClientConfigs
  <2> QED BY <2>2 DEF TextIn
<1>6. CASE Answer
  <2>1. UNCHANGED cfg
    BY <1>6 DEF Answer, CreateConnack, FillProperty, SendConnack
  <2> QED BY <2>1, <1>1
<1>7. CASE Receive \/ RefuseConnect \/ EndProperties \/ EndPayload \/ SkipPayload
           \/ EnterWillProperties \/ RefusePayload \/ ReadMessage \/ DecodeDisconnect
           \/ DecodeCrashes \/ UNCHANGED vars
  <2>1. UNCHANGED cfg
    BY <1>7 DEF Receive, RefuseConnect, EndProperties, EndPayload, SkipPayload,
           EnterWillProperties, RefusePayload, ReadMessage, DecodeDisconnect, DecodeCrashes,
           vars
  <2> QED BY <2>1, <1>1
<1>8. CASE RefuseProperty /\ cfg' = cfg
  BY <1>8, <1>1
<1> QED BY <1>2, <1>3, <1>4, <1>5, <1>6, <1>7, <1>8 DEF Next, Decode

\* WellFormed is what the code asks: is_valid_content answers WELL_FORMED.
AsksIsValidContent == \A s \in Strings : WellFormed(s) <=> IsValidContent(s)

LEMMA TextInit == Init => TextIn(cfg)
  BY DefaultIsText DEF Init

\* Whatever bytes a client sends as text, what is kept of them is UTF-8 by the
\* Unicode standard without U+0000: each way into the configuration asks
\* is_valid_content first, or stores nothing (decode_utf8_str,
\* get_property_data, get_payload).
THEOREM TextStaysWellFormed == AsksIsValidContent /\ Spec => []TextIsWellFormed
<1> SUFFICES ASSUME AsksIsValidContent PROVE Spec => []TextIsWellFormed
  OBVIOUS
<1>1. \A s \in Strings : WellFormed(s) => StandardText(s)
  BY AcceptsStandardText DEF AsksIsValidContent, Strings, Byte, B
<1>2. DecoderInv /\ TextIn(cfg) /\ [Next]_vars => TextIn(cfg)'
  BY <1>1, TextStep
<1> QED BY TextInit, <1>2, DecoderInvHolds, TextNamed, PTL DEF Spec

-------------------------------------------------------------------------------
(* Where the CONNACK's bytes stand. *)

\* If each of the strings stands behind the ones before it, all of them do.
LEMMA FlattenedAt ==
    ASSUME NEW N \in Nat, NEW w \in [1..N -> Strings], NEW f, Flattened(f, w, N),
           NEW s \in Strings, NEW a \in Nat, a <= Len(s),
           \A n \in 1..N : At(s, a + Len(f[n - 1]), w[n])
    PROVE  At(s, a, FlattenSeq(w))
<1> DEFINE S == {n \in 0..N : At(s, a, f[n])}
<1>1. /\ f \in [0..N -> Strings] /\ f[0] = <<>> /\ f[N] = FlattenSeq(w)
      /\ \A n \in 1..N : f[n] = f[n - 1] \o w[n]
  BY DEF Flattened
<1>2. 0 \in S
  <2>1. At(s, a, <<>>)
    BY LenProperties DEF At, Strings
  <2> QED BY <1>1, <2>1
<1>3. ASSUME NEW n \in 1..N, n - 1 \in S PROVE n \in S
  <2>1. At(s, a, f[n - 1]) /\ At(s, a + Len(f[n - 1]), w[n])
    BY <1>3
  <2>2. n - 1 \in 0..N /\ n \in 0..N /\ f[n - 1] \in Strings /\ w[n] \in Strings
    BY <1>1
  <2>3. At(s, a, f[n - 1] \o w[n])
    BY <2>1, <2>2, AtJoined, Zenon
  <2>4. At(s, a, f[n])
    BY <1>1, <2>3
  <2> QED BY <2>2, <2>4
<1>4. 0..N \subseteq S
  <2> HIDE DEF S
  <2> QED BY <1>2, <1>3, UpToInduction
<1>5. N \in 0..N
  OBVIOUS
<1> QED BY <1>1, <1>4, <1>5

\* The bytes of a slice.
LEMMA SliceHas ==
    ASSUME NEW s \in Strings, NEW m \in Nat \ {0}, NEW n \in Int, n <= Len(s)
    PROVE  \A i \in 1..(n - m + 1) : SubSeq(s, m, n)[i] = s[m + i - 1]
<1>1. Len(s) \in Nat
  BY LenProperties DEF Strings
<1>2. \A i \in m..n : s[i] \in Byte
  BY <1>1 DEF Strings
<1> QED BY <1>1, <1>2, SubSeqProperties DEF Strings

\* The bytes of joined strings.
LEMMA JoinedHas ==
    ASSUME NEW u \in Strings, NEW v \in Strings
    PROVE  /\ \A i \in 1..Len(u) : (u \o v)[i] = u[i]
           /\ \A i \in 1..Len(v) : (u \o v)[Len(u) + i] = v[i]
<1>1. Len(u) \in Nat /\ Len(v) \in Nat
  BY LenProperties DEF Strings
<1>2. \A i \in 1..(Len(u) + Len(v)) : (u \o v)[i] = IF i <= Len(u) THEN u[i] ELSE v[i - Len(u)]
  BY ConcatProperties DEF Strings
<1> DEFINE l == Len(u)
           k == Len(v)
           w == u \o v
<1>3. ASSUME NEW i \in 1..l PROVE w[i] = u[i]
  <2>1. i \in 1..(l + k) /\ i <= l
    BY <1>1
  <2> QED BY <1>2, <2>1
<1>4. ASSUME NEW i \in 1..k PROVE w[l + i] = v[i]
  <2>1. l + i \in 1..(l + k) /\ ~(l + i <= l) /\ l + i - l = i
    <3> HIDE DEF l, k
    <3> QED BY <1>1 DEF l, k
  <2> QED BY <1>2, <2>1
<1> QED BY <1>3, <1>4

\* What stands in front of the bytes that are written over, or behind them, stays.
LEMMA OverwrittenHas ==
    ASSUME NEW bytes \in Strings, NEW new \in Strings, NEW n \in Nat, n + Len(new) <= Len(bytes)
    PROVE  /\ \A i \in 1..n : Overwritten(bytes, n, new)[i] = bytes[i]
           /\ At(Overwritten(bytes, n, new), n, new)
<1> DEFINE front == SubSeq(bytes, 1, n)
           back == SubSeq(bytes, n + Len(new) + 1, Len(bytes))
           all == front \o new \o back
           l == Len(new)
           k == Len(bytes)
           result == SubSeq(all, 1, k)
<1>1. k \in Nat /\ l \in Nat /\ n <= k
  <2>1. Len(bytes) \in Nat /\ Len(new) \in Nat
    BY LenProperties DEF Strings
  <2> QED BY <2>1
<1>2. front \in Strings /\ Len(front) = n /\ \A i \in 1..n : front[i] = bytes[i]
  <2>1. front \in Strings /\ Len(front) = n
    BY <1>1, Slice
  <2>2. \A i \in 1..(n - 1 + 1) : front[i] = bytes[1 + i - 1]
    BY <1>1, SliceHas
  <2>3. \A i \in 1..n : i \in 1..(n - 1 + 1) /\ 1 + i - 1 = i
    OBVIOUS
  <2> HIDE DEF front
  <2> QED BY <2>1, <2>2, <2>3
<1>3. back \in Strings /\ Len(back) = k - n - l
  <2>1. back \in Strings /\ Len(back) = IF n + l + 1 <= k THEN k - (n + l + 1) + 1 ELSE 0
    BY <1>1, Slice
  <2>2. n + l <= k
    OBVIOUS
  <2> HIDE DEF back, k, l
  <2> QED BY <1>1, <2>1, <2>2
<1> HIDE DEF front, back
<1>4. /\ front \o new \in Strings /\ Len(front \o new) = n + l
      /\ \A i \in 1..n : (front \o new)[i] = front[i]
      /\ \A i \in 1..l : (front \o new)[n + i] = new[i]
  <2>1. /\ \A i \in 1..Len(front) : (front \o new)[i] = front[i]
        /\ \A i \in 1..Len(new) : (front \o new)[Len(front) + i] = new[i]
    BY <1>2, JoinedHas
  <2>2. front \o new \in Strings /\ Len(front \o new) = Len(front) + Len(new)
    BY <1>2, Joined
  <2> QED BY <1>2, <2>1, <2>2
<1>5. all \in Strings /\ Len(all) = k /\ \A i \in 1..(n + l) : all[i] = (front \o new)[i]
  <2>1. all \in Strings /\ Len(all) = Len(front \o new) + Len(back)
    BY <1>3, <1>4, Joined
  <2>2. \A i \in 1..Len(front \o new) : all[i] = (front \o new)[i]
    BY <1>3, <1>4, JoinedHas
  <2>3. (n + l) + (k - n - l) = k
    BY <1>1
  <2> QED BY <1>3, <1>4, <2>1, <2>2, <2>3
<1> HIDE DEF all
<1>6. \A i \in 1..(n + l) : result[i] = all[i]
  <2>1. \A i \in 1..(k - 1 + 1) : result[i] = all[1 + i - 1]
    BY <1>1, <1>5, SliceHas
  <2>2. n + l <= k
    OBVIOUS
  <2>3. \A i \in 1..(n + l) : i \in 1..(k - 1 + 1) /\ 1 + i - 1 = i
    <3> HIDE DEF k, l
    <3> QED BY <1>1, <2>2
  <2> HIDE DEF result, k
  <2> QED BY <2>1, <2>3
<1>7. Overwritten(bytes, n, new) = result
  BY DEF Overwritten, all, front, back
<1>8. Len(result) = k
  BY <1>1, <1>5, Slice
<1> HIDE DEF result
<1>9. \A i \in 1..n : result[i] = bytes[i]
  <2>1. \A i \in 1..n : i \in 1..(n + l)
    BY <1>1
  <2> QED BY <1>2, <1>4, <1>5, <1>6, <2>1
<1>10. n + Len(new) <= Len(result) /\ \A i \in 1..Len(new) : result[n + i] = new[i]
  <2>1. \A i \in 1..l : n + i \in 1..(n + l)
    BY <1>1
  <2> QED BY <1>4, <1>5, <1>6, <1>8, <2>1
<1> QED BY <1>7, <1>9, <1>10 DEF At

\* resize keeps the head that is written over the bytes.
LEMMA ResizedHas ==
    ASSUME NEW bytes \in Strings, NEW head \in Strings, NEW size \in Nat, Len(head) <= size
    PROVE  At(Resized(bytes, head, size), 0, head)
<1> DEFINE kept == SubSeq(bytes, Len(head) + 1, Len(bytes))
           all == head \o kept \o Zeros(size)
           l == Len(head)
<1>1. l \in Nat /\ Len(bytes) \in Nat
  BY LenProperties DEF Strings
<1>2. kept \in Strings
  BY <1>1, Slice
<1>3. Zeros(size) \in Strings /\ Len(Zeros(size)) = size
  BY DEF Zeros, Strings, Byte
<1> HIDE DEF kept
<1>4. /\ head \o kept \in Strings /\ Len(head \o kept) = l + Len(kept)
      /\ \A i \in 1..l : (head \o kept)[i] = head[i] /\ Len(kept) \in Nat
  BY <1>2, Joined, JoinedHas, LenProperties DEF Strings
<1>5. /\ all \in Strings /\ Len(all) = Len(head \o kept) + size
      /\ \A i \in 1..Len(head \o kept) : all[i] = (head \o kept)[i]
  <2>1. all \in Strings /\ Len(all) = Len(head \o kept) + Len(Zeros(size))
    BY <1>3, <1>4, Joined
  <2>2. \A i \in 1..Len(head \o kept) : all[i] = (head \o kept)[i]
    BY <1>3, <1>4, JoinedHas
  <2> QED BY <1>3, <2>1, <2>2
<1>6. \A i \in 1..l : all[i] = head[i]
  <2>0. Len(kept) \in Nat
    BY <1>2, LenProperties DEF Strings
  <2>1. \A i \in 1..l : i \in 1..Len(head \o kept)
    <3> HIDE DEF l
    <3> QED BY <1>1, <1>4, <2>0
  <2> QED BY <1>4, <1>5, <2>1
<1>7. Resized(bytes, head, size) = SubSeq(all, 1, size)
  BY DEF Resized, kept
<1>8. size <= Len(all)
  <2>1. Len(kept) \in Nat
    BY <1>2, LenProperties DEF Strings
  <2> HIDE DEF all, l
  <2> QED BY <1>1, <1>4, <1>5, <2>1
<1> HIDE DEF all
<1>9. Len(SubSeq(all, 1, size)) = size /\ \A i \in 1..(size - 1 + 1) : SubSeq(all, 1, size)[i] = all[1 + i - 1]
  BY <1>5, <1>8, Slice, SliceHas
<1>10. \A i \in 1..l : i \in 1..(size - 1 + 1) /\ 1 + i - 1 = i /\ 0 + i = i
  BY <1>1
<1>11. \A i \in 1..l : SubSeq(all, 1, size)[0 + i] = head[i]
  BY <1>6, <1>9, <1>10
<1>12. 0 + l <= size
  BY <1>1
<1> QED BY <1>7, <1>9, <1>11, <1>12 DEF At

LEMMA SizesGrow ==
    ASSUME cfg \in ClientConfigs, Shaped(cfg)
    PROVE  \A n \in 0..17 : \A j \in 0..n : SizeUpTo[j] <= SizeUpTo[n]
<1>1. /\ \A n \in 0..17 : SizeUpTo[n] \in Nat
      /\ \A n \in 1..17 : SizeUpTo[n] = SizeUpTo[n - 1] + Sizes(n)
      /\ \A n \in 1..17 : Sizes(n) \in Nat
  BY SizesAddUp, SizesCount
<1> DEFINE S == {n \in 0..17 : \A j \in 0..n : SizeUpTo[j] <= SizeUpTo[n]}
<1>2. 0 \in S
  BY <1>1
<1>3. ASSUME NEW n \in 1..17, n - 1 \in S PROVE n \in S
  <2>1. \A j \in 0..(n - 1) : SizeUpTo[j] <= SizeUpTo[n - 1]
    BY <1>3
  <2>2. SizeUpTo[n - 1] <= SizeUpTo[n] /\ SizeUpTo[n] \in Nat /\ SizeUpTo[n - 1] \in Nat
    BY <1>1
  <2>3. ASSUME NEW j \in 0..n PROVE SizeUpTo[j] <= SizeUpTo[n]
    <3>1. CASE j = n
      BY <2>2, <3>1
    <3>2. CASE j # n
      <4>1. j \in 0..(n - 1) /\ SizeUpTo[j] \in Nat
        BY <1>1, <3>2
      <4> QED BY <2>1, <2>2, <4>1
    <3> QED BY <3>1, <3>2
  <2> QED BY <2>3
<1>4. 0..17 \subseteq S
  <2>1. 17 \in Nat
    OBVIOUS
  <2> HIDE DEF S
  <2> QED BY <1>2, <1>3, <2>1, UpToInduction
<1> QED BY <1>4

\* What stands in the first n bytes stands there still where they are the same.
LEMMA FrontKept ==
    ASSUME NEW s \in Strings, NEW t \in Strings, Len(t) = Len(s), NEW n \in Nat,
           \A i \in 1..n : t[i] = s[i],
           NEW w \in Strings, NEW k \in Nat, k + Len(w) <= n, At(s, k, w)
    PROVE  At(t, k, w)
<1>1. Len(w) \in Nat
  BY LenProperties DEF Strings
<1>2. \A i \in 1..Len(w) : k + i \in 1..n
  BY <1>1
<1> QED BY <1>2 DEF At

\* While the CONNACK is written, its head and the properties that are passed
\* stand where they have to.
Written == phase = "fill" =>
    /\ LengthFits(VariablePacketSize) /\ LengthFits(PropertiesSize)
    /\ Len(reply) = Len(ConnackHead) + PropertiesSize
    /\ At(reply, 0, ConnackHead)
    /\ \A j \in 1..13 : j < index =>
          At(reply, Len(ConnackHead) + SizeUpTo[j - 1], BytesOf(ConnackProperties[j]))

\* What Written speaks of depends on the configuration and the body alone.
LEMMA WrittenFrame ==
    ASSUME cfg' = cfg, body' = body
    PROVE  /\ VariablePacketSize' = VariablePacketSize /\ PropertiesSize' = PropertiesSize
           /\ ConnackHead' = ConnackHead /\ SizeUpTo' = SizeUpTo
           /\ \A p : BytesOf(p)' = BytesOf(p)
<1>1. SizeUpTo' = SizeUpTo
  BY DEF SizeUpTo
<1>2. PropertiesSize' = PropertiesSize
  BY <1>1 DEF PropertiesSize
<1>3. VariablePacketSize' = VariablePacketSize
  BY <1>2 DEF VariablePacketSize
<1>4. ConnackHead' = ConnackHead
  BY <1>2, <1>3 DEF ConnackHead
<1>5. \A p : BytesOf(p)' = BytesOf(p)
  BY DEF BytesOf, KeepAlive
<1> QED BY <1>1, <1>2, <1>3, <1>4, <1>5

LEMMA CreateWrites ==
    ASSUME WriterInv, CreateConnack, phase' = "fill"
    PROVE  Written'
<1>1. /\ LengthFits(VariablePacketSize) /\ LengthFits(PropertiesSize)
      /\ index' = 1 /\ cfg' = cfg /\ body' = body
      /\ reply' = Resized(reply, ConnackHead, Len(ConnackHead) + PropertiesSize)
  BY DEF CreateConnack, Refuse, packet
<1>2. /\ VariablePacketSize' = VariablePacketSize /\ PropertiesSize' = PropertiesSize
      /\ ConnackHead' = ConnackHead
  BY <1>1, WrittenFrame
<1>3. PropertiesSize \in Nat /\ reply \in Strings
  BY SizesAddUp DEF PropertiesSize, WriterInv, WriterTypeOK, DecoderInv, DecoderTypeOK
<1>4. ConnackHead \in Strings /\ Len(ConnackHead) \in Nat
  BY <1>1, <1>3, HeadFits, LenProperties DEF Strings
<1>5. /\ Len(ConnackHead) + PropertiesSize \in Nat
      /\ Len(ConnackHead) <= Len(ConnackHead) + PropertiesSize
  BY <1>3, <1>4
<1>6. At(reply', 0, ConnackHead) /\ Len(reply') = Len(ConnackHead) + PropertiesSize
  BY <1>1, <1>3, <1>4, <1>5, ResizedHas, ResizedFits
<1> QED BY <1>1, <1>2, <1>6 DEF Written

LEMMA FillWrites ==
    ASSUME WriterInv, Written, FillProperty, phase' = "fill"
    PROVE  Written'
<1> DEFINE p == ConnackProperties[index]
           H == Len(ConnackHead)
           P == PropertiesSize
           n == Len(reply) - left
           new == BytesOf(p)
<1>1. /\ phase = "fill" /\ left # 0 /\ left >= Sizes(index) /\ cfg' = cfg /\ body' = body
      /\ index' = index + 1 /\ reply' = Overwritten(reply, n, new)
  BY DEF FillProperty, Fills, Sizes, Refuse, packet
<1>2. /\ VariablePacketSize' = VariablePacketSize /\ PropertiesSize' = PropertiesSize
      /\ ConnackHead' = ConnackHead /\ SizeUpTo' = SizeUpTo
      /\ \A q : BytesOf(q)' = BytesOf(q)
  BY <1>1, WrittenFrame
<1>3. /\ cfg \in ClientConfigs /\ Shaped(cfg) /\ body \in Strings /\ Len(body) >= 10
      /\ reply \in Strings /\ left \in Nat
  BY <1>1 DEF WriterInv, WriterTypeOK, DecoderInv, DecoderTypeOK, HasKeepAlive
<1>4. index \in 1..13 /\ left = P - SizeUpTo[index - 1]
  BY <1>1, LeftToFill DEF PropertiesSize
<1>5. /\ LengthFits(VariablePacketSize) /\ LengthFits(PropertiesSize)
      /\ Len(reply) = H + P /\ At(reply, 0, ConnackHead)
      /\ \A j \in 1..13 : j < index => At(reply, H + SizeUpTo[j - 1], BytesOf(ConnackProperties[j]))
  BY <1>1 DEF Written
<1>6. /\ \A j \in 0..17 : SizeUpTo[j] \in Nat
      /\ \A j \in 1..17 : SizeUpTo[j] = SizeUpTo[j - 1] + Sizes(j) /\ Sizes(j) \in Nat
      /\ P \in Nat
  BY <1>3, SizesAddUp, SizesCount DEF PropertiesSize
<1>7. ConnackHead \in Strings /\ H \in Nat
  BY <1>5, <1>6, HeadFits, LenProperties DEF Strings
<1>8. ASSUME NEW j \in 1..13
      PROVE  /\ BytesOf(ConnackProperties[j]) \in Strings
             /\ Len(BytesOf(ConnackProperties[j])) \in Nat
             /\ Len(BytesOf(ConnackProperties[j])) <= Sizes(j)
  <2>1. j \in 1..17 /\ j <= 13
    OBVIOUS
  <2>2. BytesOf(ConnackProperties[j]) \in Strings /\ Len(BytesOf(ConnackProperties[j])) <= Sizes(j)
    BY <1>3, <2>1, BytesFit
  <2> QED BY <2>2, LenProperties DEF Strings
<1>9. new \in Strings /\ Len(new) \in Nat /\ Len(new) <= Sizes(index)
  BY <1>4, <1>8
<1> HIDE DEF p, H, P, new
<1>10. n = H + SizeUpTo[index - 1] /\ n \in Nat /\ n + Len(new) <= Len(reply)
  <2>1. index - 1 \in 0..17 /\ SizeUpTo[index - 1] \in Nat /\ Sizes(index) \in Nat
    BY <1>4, <1>6
  <2>2. Len(reply) = H + P /\ left = P - SizeUpTo[index - 1] /\ left >= Sizes(index)
    BY <1>1, <1>4, <1>5
  <2>3. P \in Nat /\ H \in Nat /\ Len(new) \in Nat /\ Len(new) <= Sizes(index)
    BY <1>6, <1>7, <1>9
  <2>4. n = (H + P) - (P - SizeUpTo[index - 1])
    BY <2>2
  <2>5. n = H + SizeUpTo[index - 1] /\ n \in Nat
    <3> HIDE DEF n
    <3> QED BY <2>1, <2>3, <2>4
  <2>6. P - SizeUpTo[index - 1] >= Sizes(index)
    BY <2>2
  <2>7. H + SizeUpTo[index - 1] + Len(new) <= H + P
    BY <2>1, <2>3, <2>6
  <2> QED BY <2>2, <2>5, <2>7
<1> HIDE DEF n
<1>11. /\ reply' \in Strings /\ Len(reply') = Len(reply)
       /\ \A i \in 1..n : reply'[i] = reply[i]
       /\ At(reply', n, new)
  <2>1. n <= Len(reply)
    <3>1. Len(reply) \in Nat
      BY <1>3, LenProperties DEF Strings
    <3> QED BY <1>9, <1>10, <3>1
  <2> QED BY <1>1, <1>3, <1>9, <1>10, <2>1, OverwrittenFits, OverwrittenHas
<1>12. At(reply', 0, ConnackHead)
  <2>1. 0 + Len(ConnackHead) <= n /\ 0 \in Nat
    <3>1. SizeUpTo[index - 1] \in Nat
      BY <1>4, <1>6
    <3> QED BY <1>7, <1>10, <3>1 DEF H
  <2> QED BY <1>3, <1>5, <1>7, <1>10, <1>11, <2>1, FrontKept
<1>13. ASSUME NEW j \in 1..13, j < index + 1
       PROVE  At(reply', H + SizeUpTo[j - 1], BytesOf(ConnackProperties[j]))
  <2>1. CASE j = index
    BY <1>10, <1>11, <2>1 DEF new, p
  <2>2. CASE j # index
    <3>1. j < index /\ j \in 0..(index - 1) /\ index - 1 \in 0..17 /\ j - 1 \in 0..17 /\ j \in 1..17
      BY <1>4, <1>13, <2>2
    <3>2. SizeUpTo[j] <= SizeUpTo[index - 1]
      BY <1>3, <3>1, SizesGrow
    <3>3. At(reply, H + SizeUpTo[j - 1], BytesOf(ConnackProperties[j]))
      BY <1>5, <3>1
    <3> DEFINE w == BytesOf(ConnackProperties[j])
               k == H + SizeUpTo[j - 1]
    <3>4. w \in Strings /\ Len(w) \in Nat /\ Len(w) <= Sizes(j)
      BY <1>8
    <3>5. At(reply, k, w)
      BY <3>3
    <3> HIDE DEF w
    <3>6. k \in Nat /\ k + Len(w) <= n
      <4>1. /\ SizeUpTo[j - 1] \in Nat /\ SizeUpTo[j] \in Nat /\ SizeUpTo[index - 1] \in Nat
            /\ SizeUpTo[j] = SizeUpTo[j - 1] + Sizes(j) /\ Sizes(j) \in Nat
        BY <1>6, <3>1
      <4>2. n = H + SizeUpTo[index - 1] /\ n \in Nat
        BY <1>10
      <4>3. k = H + SizeUpTo[j - 1]
        OBVIOUS
      <4> HIDE DEF k
      <4>4. Len(w) <= Sizes(j) /\ Len(w) \in Nat /\ H \in Nat
        BY <1>7, <3>4
      <4>5. \A a, b, c, z, l, h \in Nat :
               b = a + z /\ b <= c /\ l <= z => h + a \in Nat /\ h + a + l <= h + c
        OBVIOUS
      <4>6. /\ H + SizeUpTo[j - 1] \in Nat
            /\ H + SizeUpTo[j - 1] + Len(w) <= H + SizeUpTo[index - 1]
        BY <3>2, <4>1, <4>4, <4>5
      <4> QED BY <4>2, <4>3, <4>6
    <3> HIDE DEF k
    <3>7. At(reply', k, w)
      BY <1>3, <1>10, <1>11, <3>4, <3>5, <3>6, FrontKept
    <3> QED BY <3>7 DEF k, w
  <2> QED BY <2>1, <2>2
<1> QED BY <1>1, <1>2, <1>5, <1>11, <1>12, <1>13 DEF Written, H, P

LEMMA WrittenStep == WriterInv /\ Written /\ [Next]_vars => Written'
<1> SUFFICES ASSUME WriterInv, Written, [Next]_vars, phase' = "fill" PROVE Written'
  BY DEF Written
<1>1. CASE Receive \/ Decode
  BY <1>1, DecodeWrites
<1>2. CASE Answer
  BY <1>2, CreateWrites, FillWrites DEF Answer, SendConnack
<1>3. CASE UNCHANGED vars
  <2>1. UNCHANGED <<phase, cfg, body, index, left, reply>>
    BY <1>3 DEF vars, packet, out
  <2>2. /\ VariablePacketSize' = VariablePacketSize /\ PropertiesSize' = PropertiesSize
        /\ ConnackHead' = ConnackHead /\ SizeUpTo' = SizeUpTo
        /\ \A q : BytesOf(q)' = BytesOf(q)
    BY <2>1, WrittenFrame
  <2> QED BY <2>1, <2>2 DEF Written
<1> QED BY <1>1, <1>2, <1>3 DEF Next

\* Below 127 the encoder of lengths is right.
LEMMA EncodedShort ==
    ASSUME NEW v \in 1..126
    PROVE  EncodeVariableInt(v) = <<v>> /\ EncodedSize(v) = 1 /\ GetVariableIntSize(v) = 1
<1>1. 127^0 = 1 /\ 127^1 = 127 /\ 127^2 = 16129 /\ 127^3 = 2048383 /\ 127^4 = 260144641
  OBVIOUS
<1>2. /\ v \div 1 = v /\ v \div 127 = 0 /\ v \div 16129 = 0 /\ v \div 2048383 = 0
      /\ v \div 260144641 = 0 /\ v % 127 = v
  OBVIOUS
<1>3. 1 - 1 = 0 /\ 2 - 1 = 1 /\ 3 - 1 = 2 /\ 4 - 1 = 3 /\ 5 - 1 = 4
  OBVIOUS
<1> DEFINE Q(n) == v \div 127^(n - 1) # 0 /\ v \div 127^n = 0
<1>4. Q(1)
  <2>1. v \div 127^(1 - 1) = v /\ v \div 127^1 = 0 /\ v # 0
    BY <1>1, <1>2, <1>3
  <2> QED BY <2>1
<1>5. ~Q(2) /\ ~Q(3) /\ ~Q(4) /\ ~Q(5)
  <2>1. /\ v \div 127^(2 - 1) = 0 /\ v \div 127^(3 - 1) = 0 /\ v \div 127^(4 - 1) = 0
        /\ v \div 127^(5 - 1) = 0
    BY <1>1, <1>2, <1>3
  <2> QED BY <2>1
<1>6. EncodedSize(v) = 1
  <2> DEFINE x == CHOOSE n \in 1..5 : Q(n)
  <2>1. v # 0
    OBVIOUS
  <2>2. EncodedSize(v) = x
    BY <2>1, Zenon DEF EncodedSize
  <2>3. 1 \in 1..5
    OBVIOUS
  <2> HIDE DEF Q
  <2>4. x \in 1..5 /\ Q(x)
    BY <1>4, <2>3, Zenon
  <2> HIDE DEF x
  <2>5. x \in {1, 2, 3, 4, 5}
    BY <2>4
  <2> QED BY <1>5, <2>2, <2>4, <2>5
<1>7. EncodeVariableInt(v) = [i \in 1..1 |-> IF i < 1 THEN 127 ELSE (v \div 127^(1 - 1)) % 127]
  BY <1>6, Zenon DEF EncodeVariableInt
<1>8. [i \in 1..1 |-> IF i < 1 THEN 127 ELSE (v \div 127^(1 - 1)) % 127] = <<v>>
  <2>1. (v \div 127^(1 - 1)) % 127 = v
    BY <1>1, <1>2, <1>3
  <2>2. \A i \in 1..1 : (IF i < 1 THEN 127 ELSE (v \div 127^(1 - 1)) % 127) = v
    BY <2>1
  <2>3. [i \in 1..1 |-> IF i < 1 THEN 127 ELSE (v \div 127^(1 - 1)) % 127] = [i \in 1..1 |-> v]
    BY <2>2, Zenon
  <2>4. [i \in 1..1 |-> v] = <<v>>
    OBVIOUS
  <2> QED BY <2>3, <2>4
<1> QED BY <1>6, <1>7, <1>8 DEF GetVariableIntSize

\* One user property.
LEMMA OneUser ==
    ASSUME NEW pairs \in Seq(ShortPairs), Len(pairs) = 1
    PROVE  /\ pairs[1] \in ShortPairs
           /\ UserBytes(pairs) = WireString(pairs[1][1]) \o WireString(pairs[1][2])
<1> DEFINE u == StringBytes(pairs[1][1])
           v == StringBytes(pairs[1][2])
           f == [n \in 0..1 |-> IF n = 0 THEN <<>> ELSE <<>> \o u \o v]
           upTo[n \in 0..1] == IF n = 0 THEN <<>>
                               ELSE upTo[n - 1] \o StringBytes(pairs[n][1])
                                                \o StringBytes(pairs[n][2])
<1>1. pairs[1] \in ShortPairs
  OBVIOUS
<1>2. u \in Strings /\ v \in Strings
  <2>1. pairs[1][1] \in ShortStrings /\ pairs[1][2] \in ShortStrings
    BY <1>1 DEF ShortPairs
  <2> QED BY <2>1, StringBytesFit
<1>3. f = [n \in 0..1 |-> IF n = 0 THEN <<>>
                          ELSE f[n - 1] \o StringBytes(pairs[n][1])
                                        \o StringBytes(pairs[n][2])]
  <2>1. \A n \in 0..1 : n = 0 \/ (n = 1 /\ n - 1 = 0)
    OBVIOUS
  <2>2. f[0] = <<>>
    OBVIOUS
  <2>3. \A n \in 0..1 : f[n] = IF n = 0 THEN <<>> ELSE <<>> \o u \o v
    OBVIOUS
  <2>4. f = [n \in 0..1 |-> f[n]]
    OBVIOUS
  <2> HIDE DEF f
  <2>5. \A n \in 0..1 : f[n] = IF n = 0 THEN <<>>
                               ELSE f[n - 1] \o StringBytes(pairs[n][1])
                                             \o StringBytes(pairs[n][2])
    BY <2>1, <2>2, <2>3
  <2> QED BY <2>4, <2>5
<1>4. upTo = [n \in 0..1 |-> IF n = 0 THEN <<>>
                             ELSE upTo[n - 1] \o StringBytes(pairs[n][1])
                                              \o StringBytes(pairs[n][2])]
  <2> HIDE DEF f
  <2> QED BY <1>3, Zenon DEF upTo
<1>5. UserBytes(pairs) = upTo[1]
  BY Zenon DEF UserBytes, upTo
<1> HIDE DEF upTo, f
<1>6. upTo[0] = <<>> /\ upTo[1] = upTo[0] \o u \o v
  <2>1. 0 \in 0..1 /\ 1 \in 0..1 /\ 1 - 1 = 0 /\ 1 # 0
    OBVIOUS
  <2>2. upTo[1] = upTo[1 - 1] \o u \o v
    BY <1>4, <2>1
  <2> QED BY <1>4, <2>1, <2>2
<1>7. <<>> \o u = u
  BY <1>2, ConcatEmptySeq DEF Strings
<1>8. UserBytes(pairs) = u \o v
  BY <1>5, <1>6, <1>7
<1> QED BY <1>1, <1>8 DEF StringBytes, LengthBytes, WireString

\* KeepAlive is what is read of the CONNECT.
LEMMA KeepAliveIs ==
    ASSUME body \in Strings, Len(body) >= 10
    PROVE  KeepAlive = <<body[9], body[10]>> /\ KeepAlive \in Strings /\ Len(KeepAlive) = 2
<1>1. 9 \in Nat \ {0} /\ 10 \in Int /\ Len(body) \in Nat
  BY LenProperties DEF Strings
<1>2. KeepAlive \in Strings /\ Len(KeepAlive) = 2
  BY <1>1, Slice DEF KeepAlive
<1>3. \A i \in 1..(10 - 9 + 1) : KeepAlive[i] = body[9 + i - 1]
  BY <1>1, SliceHas DEF KeepAlive
<1>4. KeepAlive[1] = body[9] /\ KeepAlive[2] = body[10]
  <2>1. /\ 1 \in 1..(10 - 9 + 1) /\ 2 \in 1..(10 - 9 + 1)
        /\ 9 + 1 - 1 = 9 /\ 9 + 2 - 1 = 10
    OBVIOUS
  <2> QED BY <1>3, <2>1
<1>5. KeepAlive = <<KeepAlive[1], KeepAlive[2]>>
  BY <1>2 DEF Strings
<1> QED BY <1>2, <1>4, <1>5

\* A number on the wire is its identifier and its bytes.
LEMMA WireNumber ==
    ASSUME NEW p, IsPropertyFixed(p), NEW d
    PROVE  WireProperty(Property(p, d)) = <<Identifier[p]>> \o d
<1>1. p # "USER_PROPERTY"
  BY DEF IsPropertyFixed, ByteProperties, TwoByteProperties, FourByteProperties
<1>2. Property(p, d).type = p /\ Property(p, d).data = d
  BY DEF Property
<1> QED BY <1>1, <1>2 DEF WireProperty, WireData

\* Where a property that is negotiated comes in connack_properties.
Place(i) == IF i <= 5 THEN i ELSE i + 1

\* The n-th property of the CONNACK is a number d.
LEMMA NumberField ==
    ASSUME cfg \in ClientConfigs, Shaped(cfg), NEW n \in 1..17, NEW p,
           p = ConnackProperties[n], IsPropertyFixed(p),
           NEW d \in Strings, Len(d) = FixedSize(p), BytesOf(p) = <<Identifier[p]>> \o d
    PROVE  /\ WireProperty(Property(p, d)) = BytesOf(ConnackProperties[n])
           /\ Len(WireProperty(Property(p, d))) = Sizes(n)
<1>1. p \in PropertyTypes
  BY DEF IsPropertyFixed, PropertyTypes
<1>2. Sizes(n) = 1 + FixedSize(p)
  <2>1. p \notin {"ASSIGNED_CLIENT_ID", "REASON_STRING", "USER_PROPERTY"}
    BY DEF IsPropertyFixed, ByteProperties, TwoByteProperties, FourByteProperties
  <2>2. GetPropertySize(cfg, p) = 1 + FixedSize(p)
    BY <2>1 DEF GetPropertySize
  <2> QED BY <2>2 DEF Sizes
<1>3. WireProperty(Property(p, d)) = <<Identifier[p]>> \o d
  BY WireNumber
<1>4. Identifier[p] \in Byte
  BY <1>1, IdentifierIsByte
<1>5. Len(<<Identifier[p]>> \o d) = 1 + Len(d)
  BY <1>4, Prefixed
<1> QED BY <1>2, <1>3, <1>5

LEMMA FieldsAre ==
    ASSUME cfg \in ClientConfigs, Shaped(cfg), body \in Strings, Len(body) >= 10,
           Len(cfg.userProperties) = 1, NEW i \in 1..12
    PROVE  /\ WireProperty(Negotiated[i]) = BytesOf(ConnackProperties[Place(i)])
           /\ Len(WireProperty(Negotiated[i])) = Sizes(Place(i))
<1>0. /\ <<1>> \in Strings /\ Len(<<1>>) = 1
      /\ \A q \in ConfigProperties : cfg.property[q] \in Strings
  <2>1. 1 \in Byte
    BY DEF Byte
  <2>2. <<1>> \in Strings /\ Len(<<1>>) = 1
    BY <2>1 DEF Strings
  <2> QED BY <2>2 DEF ClientConfigs
<1>1. CASE i = 1
  <2> DEFINE p == "SESSION_EXPIRY_INTERVAL"
  <2>1. Place(i) = 1 /\ ConnackProperties[1] = p /\ Negotiated[1] = Property(p, cfg.property["SESSION_EXPIRY_INTERVAL"])
    BY <1>1 DEF Place, ConnackProperties, Negotiated, One
  <2>2. IsPropertyFixed(p) /\ FixedSize(p) = 4 /\ p \in ConfigProperties
    BY DEF IsPropertyFixed, FixedSize, ByteProperties, TwoByteProperties, FourByteProperties,
           ConfigProperties, InConnect
  <2>3. cfg.property["SESSION_EXPIRY_INTERVAL"] \in Strings /\ Len(cfg.property["SESSION_EXPIRY_INTERVAL"]) = FixedSize(p)
    BY <1>0, <2>2 DEF Shaped, Widths
  <2>4. BytesOf(p) = <<Identifier[p]>> \o cfg.property["SESSION_EXPIRY_INTERVAL"]
    BY DEF BytesOf, PropertyBytes, PropertyValue
  <2>5. 1 \in 1..17 /\ p = ConnackProperties[1]
    BY <2>1
  <2> HIDE DEF p
  <2>6. /\ WireProperty(Property(p, cfg.property["SESSION_EXPIRY_INTERVAL"])) = BytesOf(ConnackProperties[1])
        /\ Len(WireProperty(Property(p, cfg.property["SESSION_EXPIRY_INTERVAL"]))) = Sizes(1)
    BY <2>2, <2>3, <2>4, <2>5, NumberField
  <2> QED BY <1>1, <2>1, <2>6
<1>2. CASE i = 2
  <2> DEFINE p == "RECEIVE_MAXIMUM"
  <2>1. Place(i) = 2 /\ ConnackProperties[2] = p /\ Negotiated[2] = Property(p, cfg.property["RECEIVE_MAXIMUM"])
    BY <1>2 DEF Place, ConnackProperties, Negotiated, One
  <2>2. IsPropertyFixed(p) /\ FixedSize(p) = 2 /\ p \in ConfigProperties
    BY DEF IsPropertyFixed, FixedSize, ByteProperties, TwoByteProperties, FourByteProperties,
           ConfigProperties, InConnect
  <2>3. cfg.property["RECEIVE_MAXIMUM"] \in Strings /\ Len(cfg.property["RECEIVE_MAXIMUM"]) = FixedSize(p)
    BY <1>0, <2>2 DEF Shaped, Widths
  <2>4. BytesOf(p) = <<Identifier[p]>> \o cfg.property["RECEIVE_MAXIMUM"]
    BY DEF BytesOf, PropertyBytes, PropertyValue
  <2>5. 2 \in 1..17 /\ p = ConnackProperties[2]
    BY <2>1
  <2> HIDE DEF p
  <2>6. /\ WireProperty(Property(p, cfg.property["RECEIVE_MAXIMUM"])) = BytesOf(ConnackProperties[2])
        /\ Len(WireProperty(Property(p, cfg.property["RECEIVE_MAXIMUM"]))) = Sizes(2)
    BY <2>2, <2>3, <2>4, <2>5, NumberField
  <2> QED BY <1>2, <2>1, <2>6
<1>3. CASE i = 3
  <2> DEFINE p == "MAXIMUM_QOS"
  <2>1. Place(i) = 3 /\ ConnackProperties[3] = p /\ Negotiated[3] = Property(p, <<1>>)
    BY <1>3 DEF Place, ConnackProperties, Negotiated, One
  <2>2. IsPropertyFixed(p) /\ FixedSize(p) = 1
    BY DEF IsPropertyFixed, FixedSize, ByteProperties, TwoByteProperties, FourByteProperties
  <2>3. <<1>> \in Strings /\ Len(<<1>>) = FixedSize(p)
    BY <1>0, <2>2
  <2>4. BytesOf(p) = <<Identifier[p]>> \o <<1>>
    BY DEF BytesOf, PropertyBytes, PropertyValue
  <2>5. 3 \in 1..17 /\ p = ConnackProperties[3]
    BY <2>1
  <2> HIDE DEF p
  <2>6. /\ WireProperty(Property(p, <<1>>)) = BytesOf(ConnackProperties[3])
        /\ Len(WireProperty(Property(p, <<1>>))) = Sizes(3)
    BY <2>2, <2>3, <2>4, <2>5, NumberField
  <2> QED BY <1>3, <2>1, <2>6
<1>4. CASE i = 4
  <2> DEFINE p == "RETAIN_AVAILABLE"
  <2>1. Place(i) = 4 /\ ConnackProperties[4] = p /\ Negotiated[4] = Property(p, <<1>>)
    BY <1>4 DEF Place, ConnackProperties, Negotiated, One
  <2>2. IsPropertyFixed(p) /\ FixedSize(p) = 1
    BY DEF IsPropertyFixed, FixedSize, ByteProperties, TwoByteProperties, FourByteProperties
  <2>3. <<1>> \in Strings /\ Len(<<1>>) = FixedSize(p)
    BY <1>0, <2>2
  <2>4. BytesOf(p) = <<Identifier[p]>> \o <<1>>
    BY DEF BytesOf, PropertyBytes, PropertyValue
  <2>5. 4 \in 1..17 /\ p = ConnackProperties[4]
    BY <2>1
  <2> HIDE DEF p
  <2>6. /\ WireProperty(Property(p, <<1>>)) = BytesOf(ConnackProperties[4])
        /\ Len(WireProperty(Property(p, <<1>>))) = Sizes(4)
    BY <2>2, <2>3, <2>4, <2>5, NumberField
  <2> QED BY <1>4, <2>1, <2>6
<1>5. CASE i = 5
  <2> DEFINE p == "MAXIMUM_PACKET_SIZE"
  <2>1. Place(i) = 5 /\ ConnackProperties[5] = p /\ Negotiated[5] = Property(p, cfg.property["MAXIMUM_PACKET_SIZE"])
    BY <1>5 DEF Place, ConnackProperties, Negotiated, One
  <2>2. IsPropertyFixed(p) /\ FixedSize(p) = 4 /\ p \in ConfigProperties
    BY DEF IsPropertyFixed, FixedSize, ByteProperties, TwoByteProperties, FourByteProperties,
           ConfigProperties, InConnect
  <2>3. cfg.property["MAXIMUM_PACKET_SIZE"] \in Strings /\ Len(cfg.property["MAXIMUM_PACKET_SIZE"]) = FixedSize(p)
    BY <1>0, <2>2 DEF Shaped, Widths
  <2>4. BytesOf(p) = <<Identifier[p]>> \o cfg.property["MAXIMUM_PACKET_SIZE"]
    BY DEF BytesOf, PropertyBytes, PropertyValue
  <2>5. 5 \in 1..17 /\ p = ConnackProperties[5]
    BY <2>1
  <2> HIDE DEF p
  <2>6. /\ WireProperty(Property(p, cfg.property["MAXIMUM_PACKET_SIZE"])) = BytesOf(ConnackProperties[5])
        /\ Len(WireProperty(Property(p, cfg.property["MAXIMUM_PACKET_SIZE"]))) = Sizes(5)
    BY <2>2, <2>3, <2>4, <2>5, NumberField
  <2> QED BY <1>5, <2>1, <2>6
<1>6. CASE i = 6
  <2> DEFINE p == "TOPIC_ALIAS_MAXIMUM"
  <2>1. Place(i) = 7 /\ ConnackProperties[7] = p /\ Negotiated[6] = Property(p, cfg.property["TOPIC_ALIAS_MAXIMUM"])
    BY <1>6 DEF Place, ConnackProperties, Negotiated, One
  <2>2. IsPropertyFixed(p) /\ FixedSize(p) = 2 /\ p \in ConfigProperties
    BY DEF IsPropertyFixed, FixedSize, ByteProperties, TwoByteProperties, FourByteProperties,
           ConfigProperties, InConnect
  <2>3. cfg.property["TOPIC_ALIAS_MAXIMUM"] \in Strings /\ Len(cfg.property["TOPIC_ALIAS_MAXIMUM"]) = FixedSize(p)
    BY <1>0, <2>2 DEF Shaped, Widths
  <2>4. BytesOf(p) = <<Identifier[p]>> \o cfg.property["TOPIC_ALIAS_MAXIMUM"]
    BY DEF BytesOf, PropertyBytes, PropertyValue
  <2>5. 7 \in 1..17 /\ p = ConnackProperties[7]
    BY <2>1
  <2> HIDE DEF p
  <2>6. /\ WireProperty(Property(p, cfg.property["TOPIC_ALIAS_MAXIMUM"])) = BytesOf(ConnackProperties[7])
        /\ Len(WireProperty(Property(p, cfg.property["TOPIC_ALIAS_MAXIMUM"]))) = Sizes(7)
    BY <2>2, <2>3, <2>4, <2>5, NumberField
  <2> QED BY <1>6, <2>1, <2>6
<1>7. CASE i = 9
  <2> DEFINE p == "WILDCARD_SUBSCRIPTION_AVAILABLE"
  <2>1. Place(i) = 10 /\ ConnackProperties[10] = p /\ Negotiated[9] = Property(p, <<1>>)
    BY <1>7 DEF Place, ConnackProperties, Negotiated, One
  <2>2. IsPropertyFixed(p) /\ FixedSize(p) = 1
    BY DEF IsPropertyFixed, FixedSize, ByteProperties, TwoByteProperties, FourByteProperties
  <2>3. <<1>> \in Strings /\ Len(<<1>>) = FixedSize(p)
    BY <1>0, <2>2
  <2>4. BytesOf(p) = <<Identifier[p]>> \o <<1>>
    BY DEF BytesOf, PropertyBytes, PropertyValue
  <2>5. 10 \in 1..17 /\ p = ConnackProperties[10]
    BY <2>1
  <2> HIDE DEF p
  <2>6. /\ WireProperty(Property(p, <<1>>)) = BytesOf(ConnackProperties[10])
        /\ Len(WireProperty(Property(p, <<1>>))) = Sizes(10)
    BY <2>2, <2>3, <2>4, <2>5, NumberField
  <2> QED BY <1>7, <2>1, <2>6
<1>8. CASE i = 10
  <2> DEFINE p == "SUBSCRIPTION_ID_AVAILABLE"
  <2>1. Place(i) = 11 /\ ConnackProperties[11] = p /\ Negotiated[10] = Property(p, <<1>>)
    BY <1>8 DEF Place, ConnackProperties, Negotiated, One
  <2>2. IsPropertyFixed(p) /\ FixedSize(p) = 1
    BY DEF IsPropertyFixed, FixedSize, ByteProperties, TwoByteProperties, FourByteProperties
  <2>3. <<1>> \in Strings /\ Len(<<1>>) = FixedSize(p)
    BY <1>0, <2>2
  <2>4. BytesOf(p) = <<Identifier[p]>> \o <<1>>
    BY DEF BytesOf, PropertyBytes, PropertyValue
  <2>5. 11 \in 1..17 /\ p = ConnackProperties[11]
    BY <2>1
  <2> HIDE DEF p
  <2>6. /\ WireProperty(Property(p, <<1>>)) = BytesOf(ConnackProperties[11])
        /\ Len(WireProperty(Property(p, <<1>>))) = Sizes(11)
    BY <2>2, <2>3, <2>4, <2>5, NumberField
  <2> QED BY <1>8, <2>1, <2>6
<1>9. CASE i = 11
  <2> DEFINE p == "SHARED_SUBSCRIPTION_AVAILABLE"
  <2>1. Place(i) = 12 /\ ConnackProperties[12] = p /\ Negotiated[11] = Property(p, <<1>>)
    BY <1>9 DEF Place, ConnackProperties, Negotiated, One
  <2>2. IsPropertyFixed(p) /\ FixedSize(p) = 1
    BY DEF IsPropertyFixed, FixedSize, ByteProperties, TwoByteProperties, FourByteProperties
  <2>3. <<1>> \in Strings /\ Len(<<1>>) = FixedSize(p)
    BY <1>0, <2>2
  <2>4. BytesOf(p) = <<Identifier[p]>> \o <<1>>
    BY DEF BytesOf, PropertyBytes, PropertyValue
  <2>5. 12 \in 1..17 /\ p = ConnackProperties[12]
    BY <2>1
  <2> HIDE DEF p
  <2>6. /\ WireProperty(Property(p, <<1>>)) = BytesOf(ConnackProperties[12])
        /\ Len(WireProperty(Property(p, <<1>>))) = Sizes(12)
    BY <2>2, <2>3, <2>4, <2>5, NumberField
  <2> QED BY <1>9, <2>1, <2>6
<1>10. CASE i = 12
  <2> DEFINE p == "SERVER_KEEP_ALIVE"
  <2>1. Place(i) = 13 /\ ConnackProperties[13] = p /\ Negotiated[12] = Property(p, KeepAlive)
    BY <1>10, KeepAliveIs DEF Place, ConnackProperties, Negotiated, One
  <2>2. IsPropertyFixed(p) /\ FixedSize(p) = 2
    BY DEF IsPropertyFixed, FixedSize, ByteProperties, TwoByteProperties, FourByteProperties
  <2>3. KeepAlive \in Strings /\ Len(KeepAlive) = FixedSize(p)
    BY <1>0, <2>2, KeepAliveIs
  <2>4. BytesOf(p) = <<Identifier[p]>> \o KeepAlive
    BY DEF BytesOf, PropertyBytes, PropertyValue
  <2>5. 13 \in 1..17 /\ p = ConnackProperties[13]
    BY <2>1
  <2> HIDE DEF p
  <2>6. /\ WireProperty(Property(p, KeepAlive)) = BytesOf(ConnackProperties[13])
        /\ Len(WireProperty(Property(p, KeepAlive))) = Sizes(13)
    BY <2>2, <2>3, <2>4, <2>5, NumberField
  <2> QED BY <1>10, <2>1, <2>6
<1>11. CASE i = 7
  <2> DEFINE q == Property("REASON_STRING", ReasonString)
  <2>1. /\ Place(i) = 8 /\ ConnackProperties[8] = "REASON_STRING" /\ Negotiated[7] = q
        /\ q.type = "REASON_STRING" /\ q.data = ReasonString
    BY <1>11 DEF Place, ConnackProperties, Negotiated, Property
  <2>2. ~IsPropertyFixed("REASON_STRING")
    BY DEF IsPropertyFixed, ByteProperties, TwoByteProperties, FourByteProperties
  <2>3. WireProperty(q) = <<Identifier["REASON_STRING"]>> \o WireString(ReasonString)
    <3> HIDE DEF q
    <3> QED BY <2>1, <2>2 DEF WireProperty, WireData
  <2>4. BytesOf("REASON_STRING") = <<Identifier["REASON_STRING"]>> \o StringBytes(ReasonString)
    BY DEF BytesOf, PropertyBytes, PropertyValue
  <2>5. StringBytes(ReasonString) \in Strings /\ Len(StringBytes(ReasonString)) = 19
    <3>1. ReasonString \in Seq(Byte) /\ Len(ReasonString) = 17
      <4>1. 69 \in Byte
        BY DEF Byte
      <4> QED BY <4>1 DEF ReasonString, ReasonStringSize
    <3>2. ReasonString \in ShortStrings
      <4>1. ReasonString \in Strings /\ Len(ReasonString) <= 65535
        BY <3>1 DEF Strings
      <4> QED BY <4>1 DEF ShortStrings
    <3>3. Len(StringBytes(ReasonString)) = 2 + 17
      BY <3>1, <3>2, StringBytesFit
    <3> QED BY <3>2, <3>3, StringBytesFit
  <2>6. WireString(ReasonString) = StringBytes(ReasonString)
    BY DEF WireString, StringBytes, LengthBytes
  <2>7. Sizes(8) = 20 /\ "REASON_STRING" \in PropertyTypes
    BY SizesAre DEF PropertyTypes, StringProperties
  <2>8. Len(<<Identifier["REASON_STRING"]>> \o StringBytes(ReasonString)) = 1 + 19
    BY <2>5, <2>7, Prefixed, IdentifierIsByte
  <2> HIDE DEF q
  <2> QED BY <1>11, <2>1, <2>3, <2>4, <2>6, <2>7, <2>8
<1>12. CASE i = 8
  <2> DEFINE u == cfg.userProperties[1]
             q == Property("USER_PROPERTY", u)
  <2>1. /\ Place(i) = 9 /\ ConnackProperties[9] = "USER_PROPERTY" /\ Negotiated[8] = q
        /\ q.type = "USER_PROPERTY" /\ q.data = u
    BY <1>12 DEF Place, ConnackProperties, Negotiated, Property
  <2>2. cfg.userProperties \in Seq(ShortPairs)
    BY DEF Shaped
  <2>3. WireProperty(q) = <<Identifier["USER_PROPERTY"]>> \o (WireString(u[1]) \o WireString(u[2]))
    <3>1. ~IsPropertyFixed("USER_PROPERTY")
      BY DEF IsPropertyFixed, ByteProperties, TwoByteProperties, FourByteProperties
    <3>2. q.type = "USER_PROPERTY" /\ q.data = u
      BY <2>1
    <3> HIDE DEF q, u
    <3>3. WireData(q) = WireString(u[1]) \o WireString(u[2])
      BY <3>1, <3>2 DEF WireData
    <3> QED BY <3>2, <3>3 DEF WireProperty
  <2>4. BytesOf("USER_PROPERTY") = <<Identifier["USER_PROPERTY"]>> \o UserBytes(cfg.userProperties)
    BY DEF BytesOf, PropertyBytes, PropertyValue
  <2>5. UserBytes(cfg.userProperties) = WireString(u[1]) \o WireString(u[2])
    BY <2>2, OneUser
  <2>6. /\ UserBytes(cfg.userProperties) \in Strings
        /\ Len(UserBytes(cfg.userProperties)) = PairBytes(cfg.userProperties)
    BY <2>2, UserBytesCount
  <2>7. Sizes(9) = 1 + PairBytes(cfg.userProperties) /\ "USER_PROPERTY" \in PropertyTypes
    BY SizesAre DEF PropertyTypes
  <2>8. Len(<<Identifier["USER_PROPERTY"]>> \o UserBytes(cfg.userProperties))
           = 1 + PairBytes(cfg.userProperties)
    BY <2>6, <2>7, Prefixed, IdentifierIsByte
  <2> HIDE DEF q, u
  <2> QED BY <1>12, <2>1, <2>3, <2>4, <2>5, <2>7, <2>8
<1> QED BY <1>1, <1>2, <1>3, <1>4, <1>5, <1>6, <1>7, <1>8, <1>9, <1>10, <1>11, <1>12

LEMMA TwoBytesJoined == \A a, b \in Byte : <<a>> \o <<b>> = <<a, b>>
<1> SUFFICES ASSUME NEW a \in Byte, NEW b \in Byte PROVE <<a>> \o <<b>> = <<a, b>>
  OBVIOUS
<1>1. /\ <<a>> \in Seq(Byte) /\ <<b>> \in Seq(Byte) /\ <<a, b>> \in Seq(Byte)
      /\ Len(<<a>>) = 1 /\ Len(<<b>>) = 1 /\ Len(<<a, b>>) = 2
  OBVIOUS
<1>2. /\ <<a>> \o <<b>> \in Seq(Byte) /\ Len(<<a>> \o <<b>>) = 2
      /\ \A i \in 1..2 : (<<a>> \o <<b>>)[i] = IF i <= 1 THEN <<a>>[i] ELSE <<b>>[i - 1]
  BY <1>1, ConcatProperties
<1>3. \A i \in 1..2 : (<<a>> \o <<b>>)[i] = <<a, b>>[i]
  BY <1>2
<1> QED BY <1>1, <1>2, <1>3, SeqEqual

LEMMA JoinThree ==
    ASSUME NEW u \in Strings, NEW v \in Strings, NEW w \in Strings
    PROVE  (u \o v) \o w = u \o (v \o w)
<1>1. u \in Seq(Byte) /\ v \in Seq(Byte) /\ w \in Seq(Byte)
  BY DEF Strings
<1> QED BY <1>1, ConcatAssociative

LEMMA FourJoined ==
    \A s, a, b, c, d \in Strings :
        /\ Len(a) = 2 /\ Len(b) = 2 /\ Len(c) = 1 /\ Len(s) = 5 + Len(d)
        /\ At(s, 0, (a \o b) \o c) /\ At(s, 5, d)
        => s = a \o (b \o (c \o d))
<1> TAKE s, a, b, c, d \in Strings
<1> HAVE /\ Len(a) = 2 /\ Len(b) = 2 /\ Len(c) = 1 /\ Len(s) = 5 + Len(d)
         /\ At(s, 0, (a \o b) \o c) /\ At(s, 5, d)
<1>1. a \o b \in Strings /\ Len(a \o b) = 4
  <2>1. a \o b \in Strings /\ Len(a \o b) = Len(a) + Len(b)
    BY Joined
  <2> QED BY <2>1
<1>2. (a \o b) \o c \in Strings /\ Len((a \o b) \o c) = 5
  <2>1. (a \o b) \o c \in Strings /\ Len((a \o b) \o c) = Len(a \o b) + Len(c)
    BY <1>1, Joined
  <2> QED BY <1>1, <2>1
<1>3. c \o d \in Strings
  BY Joined, Zenon
<1>4. At(s, 0, ((a \o b) \o c) \o d)
  <2>1. \A n \in Nat : \A u \in Strings :
           At(s, n, u \o d) <=> At(s, n, u) /\ At(s, n + Len(u), d)
    BY AtJoined
  <2>2. 0 + 5 = 5 /\ 0 \in Nat
    OBVIOUS
  <2> QED BY <1>2, <2>1, <2>2
<1>5. ((a \o b) \o c) \o d \in Strings /\ Len(((a \o b) \o c) \o d) = Len(s)
  BY <1>2, Joined
<1>6. s = ((a \o b) \o c) \o d
  BY <1>4, <1>5, AtWhole
<1>7. ((a \o b) \o c) \o d = (a \o b) \o (c \o d)
  BY <1>1, JoinThree
<1>8. (a \o b) \o (c \o d) = a \o (b \o (c \o d))
  <2>1. \A w \in Strings : (a \o b) \o w = a \o (b \o w)
    BY JoinThree
  <2> QED BY <1>3, <2>1, Zenon
<1> QED BY <1>6, <1>7, <1>8

\* The control field of a CONNACK.
ConnackField == 32

\* A packet of a short length: its fields behind the fixed header.
LEMMA ShortPacket ==
    ASSUME NEW s \in Strings, NEW V \in Byte, NEW P \in Byte, NEW bytes \in Strings,
           Len(s) = 5 + Len(bytes),
           At(s, 0, <<ConnackField>> \o <<V>> \o <<0, 0>> \o <<P>>), At(s, 5, bytes)
    PROVE  s = <<ConnackField, V>> \o (<<0, 0>> \o (<<P>> \o bytes))
<1> USE DEF ConnackField
<1>1. 32 \in Byte /\ 0 \in Byte
  BY DEF Byte
<1>2. <<32>> \o <<V>> = <<32, V>>
  BY <1>1, TwoBytesJoined
<1>3. /\ <<32, V>> \in Strings /\ <<0, 0>> \in Strings /\ <<P>> \in Strings
      /\ Len(<<32, V>>) = 2 /\ Len(<<0, 0>>) = 2 /\ Len(<<P>>) = 1
  BY <1>1 DEF Strings
<1>4. At(s, 0, (<<32, V>> \o <<0, 0>>) \o <<P>>)
  BY <1>2
<1>5. PICK a \in Strings, b \in Strings, c \in Strings :
         a = <<32, V>> /\ b = <<0, 0>> /\ c = <<P>>
  BY <1>3, Zenon
<1>6. Len(a) = 2 /\ Len(b) = 2 /\ Len(c) = 1 /\ At(s, 0, (a \o b) \o c)
  BY <1>3, <1>4, <1>5, Zenon
<1>7. s = a \o (b \o (c \o bytes))
  <2> DEFINE Q(x, y, z, d) ==
               /\ Len(x) = 2 /\ Len(y) = 2 /\ Len(z) = 1 /\ Len(s) = 5 + Len(d)
               /\ At(s, 0, (x \o y) \o z) /\ At(s, 5, d)
               => s = x \o (y \o (z \o d))
  <2>1. \A x, y, z, d \in Strings : Q(x, y, z, d)
    BY FourJoined, Zenon
  <2> HIDE DEF Q
  <2>2. Q(a, b, c, bytes)
    BY <2>1
  <2> USE DEF Q
  <2> QED BY <1>6, <2>2
<1> QED BY <1>5, <1>7, Zenon

\* The properties that are negotiated stand behind the head, one after the other.
LEMMA FieldsStand ==
    ASSUME WriterInv, Written, phase = "fill", left = 0,
           cfg.payload["CLIENT_ID"] # <<>>, Len(cfg.userProperties) = 1
    PROVE  /\ WirePropertyBytes(Negotiated) \in Strings
           /\ Len(WirePropertyBytes(Negotiated)) = PropertiesSize
           /\ PropertiesSize \in Nat /\ PropertiesSize > 0
           /\ At(reply, Len(ConnackHead), WirePropertyBytes(Negotiated))
<1> DEFINE w == [i \in 1..12 |-> WireProperty(Negotiated[i])]
           H == Len(ConnackHead)
<1>1. /\ cfg \in ClientConfigs /\ Shaped(cfg) /\ body \in Strings /\ Len(body) >= 10
      /\ reply \in Strings /\ index \in 1..18 /\ left = SizeUpTo[17] - SizeUpTo[index - 1]
  BY DEF WriterInv, WriterTypeOK, DecoderInv, DecoderTypeOK, HasKeepAlive, LeftIsRest
<1>2. /\ \A j \in 0..17 : SizeUpTo[j] \in Nat
      /\ \A j \in 1..17 : SizeUpTo[j] = SizeUpTo[j - 1] + Sizes(j) /\ Sizes(j) \in Nat
      /\ SizeUpTo[0] = 0 /\ SizeUpTo[13] = SizeUpTo[17] /\ PropertiesSize = SizeUpTo[17]
  BY <1>1, SizesAddUp, SizesCount DEF PropertiesSize
<1>3. ASSUME NEW i \in 1..12
      PROVE  /\ w[i] = BytesOf(ConnackProperties[Place(i)]) /\ Len(w[i]) = Sizes(Place(i))
             /\ w[i] \in Strings /\ Place(i) \in 1..13
  <2>1. Place(i) \in 1..13 /\ Place(i) \in 1..17
    BY DEF Place
  <2>2. BytesOf(ConnackProperties[Place(i)]) \in Strings
    BY <1>1, <2>1, BytesFit
  <2> QED BY <1>1, <2>1, <2>2, FieldsAre
<1>4. WirePropertyBytes(Negotiated) = FlattenSeq(w)
  <2>1. Len(Negotiated) = 12
    BY DEF Negotiated
  <2> QED BY <2>1 DEF WirePropertyBytes
<1>5. w \in [1..12 -> Strings]
  BY <1>3
<1> HIDE DEF w
<1>6. PICK f : Flattened(f, w, 12)
  <2>1. 12 \in Nat
    OBVIOUS
  <2> QED BY <1>5, <2>1, FlattenJoins
<1>7. /\ f \in [0..12 -> Strings] /\ f[0] = <<>> /\ f[12] = FlattenSeq(w)
      /\ \A n \in 1..12 : Len(f[n]) = Len(f[n - 1]) + Len(w[n])
  BY <1>6 DEF Flattened
<1>8. Sizes(6) = 0 /\ Sizes(13) = 3
  <2>1. ~IsPropertyFixed("ASSIGNED_CLIENT_ID")
    BY DEF IsPropertyFixed, ByteProperties, TwoByteProperties, FourByteProperties
  <2>2. Sizes(6) = 0
    BY <2>1 DEF Sizes, GetPropertySize, ConnackProperties
  <2> QED BY <1>1, <2>2, SizesAre
<1> DEFINE passed(n) == IF n <= 5 THEN n ELSE n + 1
<1>9. \A n \in 0..12 : Len(f[n]) = SizeUpTo[passed(n)]
  <2> DEFINE S == {n \in 0..12 : Len(f[n]) = SizeUpTo[passed(n)]}
  <2>1. 0 \in S
    <3>1. passed(0) = 0 /\ Len(<<>>) = 0 /\ 0 \in 0..12
      OBVIOUS
    <3> HIDE DEF passed
    <3> QED BY <1>2, <1>7, <3>1
  <2>2. ASSUME NEW n \in 1..12, n - 1 \in S PROVE n \in S
    <3>1. Len(f[n - 1]) = SizeUpTo[passed(n - 1)]
      BY <2>2
    <3>2. Len(f[n]) = SizeUpTo[passed(n - 1)] + Sizes(Place(n))
      BY <1>3, <1>7, <3>1
    <3>3. CASE n <= 5
      <4>1. passed(n - 1) = n - 1 /\ passed(n) = n /\ Place(n) = n /\ n \in 1..17 /\ n \in 0..12
        BY <3>3 DEF Place
      <4> HIDE DEF passed
      <4> QED BY <1>2, <3>2, <4>1
    <3>4. CASE n = 6
      <4>1. /\ passed(n - 1) = 5 /\ passed(n) = 7 /\ Place(n) = 7 /\ n \in 0..12
            /\ 6 - 1 = 5 /\ 7 - 1 = 6
        BY <3>4 DEF Place
      <4>2. SizeUpTo[6] = SizeUpTo[5] + Sizes(6) /\ SizeUpTo[7] = SizeUpTo[6] + Sizes(7)
            /\ SizeUpTo[5] \in Nat
        BY <1>2, <4>1
      <4> HIDE DEF passed
      <4> QED BY <1>8, <3>2, <4>1, <4>2
    <3>5. CASE n >= 7
      <4>1. /\ passed(n - 1) = n /\ passed(n) = n + 1 /\ Place(n) = n + 1 /\ n \in 0..12
            /\ n + 1 \in 1..17 /\ (n + 1) - 1 = n
        BY <3>5 DEF Place
      <4> HIDE DEF passed
      <4> QED BY <1>2, <3>2, <4>1
    <3> QED BY <3>3, <3>4, <3>5
  <2>3. 0..12 \subseteq S
    <3>1. 12 \in Nat
      OBVIOUS
    <3> HIDE DEF S
    <3> QED BY <2>1, <2>2, <3>1, UpToInduction
  <2> QED BY <2>3
<1>10. \A n \in 1..12 : Len(f[n - 1]) = SizeUpTo[Place(n) - 1]
  <2> SUFFICES ASSUME NEW n \in 1..12 PROVE Len(f[n - 1]) = SizeUpTo[Place(n) - 1]
    OBVIOUS
  <2>1. Len(f[n - 1]) = SizeUpTo[passed(n - 1)]
    <3>1. n - 1 \in 0..12
      OBVIOUS
    <3> HIDE DEF passed
    <3> QED BY <1>9, <3>1
  <2>2. CASE n # 6
    <3>1. passed(n - 1) = Place(n) - 1
      BY <2>2 DEF Place
    <3> HIDE DEF passed
    <3> QED BY <2>1, <3>1
  <2>3. CASE n = 6
    <3>1. passed(n - 1) = 5 /\ Place(n) - 1 = 6 /\ 6 - 1 = 5
      BY <2>3 DEF Place
    <3>2. SizeUpTo[6] = SizeUpTo[5] + Sizes(6) /\ SizeUpTo[5] \in Nat
      BY <1>2, <3>1
    <3> HIDE DEF passed
    <3> QED BY <1>8, <2>1, <3>1, <3>2
  <2> QED BY <2>2, <2>3
<1>11. Len(f[12]) = SizeUpTo[17]
  <2>1. passed(12) = 13
    OBVIOUS
  <2> HIDE DEF passed
  <2> QED BY <1>2, <1>9, <2>1
<1>12. SizeUpTo[13] = SizeUpTo[12] + 3 /\ SizeUpTo[12] \in Nat
  <2>1. 13 - 1 = 12
    OBVIOUS
  <2> QED BY <1>2, <1>8, <2>1
<1>13. index >= 14
  <2> SUFFICES ASSUME index <= 13 PROVE FALSE
    BY <1>1
  <2>1. index - 1 \in 0..12 /\ index - 1 \in 0..17
    BY <1>1
  <2>2. SizeUpTo[index - 1] <= SizeUpTo[12] /\ SizeUpTo[index - 1] \in Nat
    <3>1. \A j \in 0..12 : SizeUpTo[j] <= SizeUpTo[12]
      <4>1. 12 \in 0..17
        OBVIOUS
      <4> QED BY <1>1, <4>1, SizesGrow
    <3> QED BY <1>2, <2>1, <3>1
  <2>3. SizeUpTo[17] - SizeUpTo[index - 1] = 0
    BY <1>1
  <2>4. SizeUpTo[17] = SizeUpTo[12] + 3
    BY <1>2, <1>12
  <2> QED BY <1>12, <2>2, <2>3, <2>4
<1>14. /\ Len(reply) = H + PropertiesSize /\ H \in Nat
       /\ \A j \in 1..13 : At(reply, H + SizeUpTo[j - 1], BytesOf(ConnackProperties[j]))
  <2>1. /\ LengthFits(VariablePacketSize) /\ LengthFits(PropertiesSize)
        /\ Len(reply) = H + PropertiesSize
        /\ \A j \in 1..13 : j < index =>
              At(reply, H + SizeUpTo[j - 1], BytesOf(ConnackProperties[j]))
    BY DEF Written
  <2>2. PropertiesSize \in Nat
    BY <1>2
  <2>3. ConnackHead \in Strings
    BY <2>1, <2>2, HeadFits
  <2>4. H \in Nat
    BY <2>3, LenProperties DEF Strings
  <2>5. \A j \in 1..13 : j < index
    BY <1>1, <1>13
  <2> QED BY <2>1, <2>4, <2>5
<1> HIDE DEF H
<1>15. \A n \in 1..12 : At(reply, H + Len(f[n - 1]), w[n])
  BY <1>3, <1>10, <1>14
<1>17. PropertiesSize \in Nat /\ PropertiesSize > 0
  <2>1. PropertiesSize = SizeUpTo[12] + 3
    BY <1>2, <1>12
  <2> QED BY <1>12, <2>1
<1>16. At(reply, H, FlattenSeq(w))
  <2>0. PropertiesSize \in Nat /\ Len(reply) = H + PropertiesSize /\ H \in Nat
    BY <1>14, <1>17
  <2>1. 12 \in Nat /\ H <= Len(reply)
    BY <2>0
  <2> QED BY <1>1, <1>5, <1>6, <1>14, <1>15, <2>1, FlattenedAt
<1>18. FlattenSeq(w) \in Strings /\ Len(FlattenSeq(w)) = PropertiesSize
  BY <1>2, <1>7, <1>11
<1> QED BY <1>4, <1>16, <1>17, <1>18 DEF H

LEMMA ConnackWritten ==
    ASSUME WriterInv, Written
    PROVE  ConnackAsConfigured
<1> DEFINE bytes == WirePropertyBytes(Negotiated)
           P == PropertiesSize
           V == 2 + P + 1
           fields == <<0, 0>> \o WireProperties(Negotiated)
<1> SUFFICES ASSUME phase = "fill", left = 0, cfg.payload["CLIENT_ID"] # <<>>,
                    Len(cfg.userProperties) = 1, Len(fields) < 127
             PROVE  reply = <<32, Len(fields)>> \o fields
  BY Zenon DEF ConnackAsConfigured
<1>1. /\ bytes \in Strings /\ Len(bytes) = P /\ P \in Nat /\ P > 0
      /\ At(reply, Len(ConnackHead), bytes)
  BY FieldsStand
<1>2. /\ reply \in Strings /\ Len(reply) = Len(ConnackHead) + P /\ At(reply, 0, ConnackHead)
  BY DEF WriterInv, WriterTypeOK, Written
<1>3. fields = <<0, 0>> \o (WireVarInt(P) \o bytes)
  BY <1>1 DEF WireProperties
<1> HIDE DEF bytes, P
<1>4. <<0, 0>> \in Strings /\ Len(<<0, 0>>) = 2
  <2>1. 0 \in Byte
    BY DEF Byte
  <2> QED BY <2>1 DEF Strings
<1>5. P < 124
  <2>1. CASE P < 128
    <3>1. WireVarInt(P) = <<P>> /\ P \in Byte
      BY <1>1, <2>1 DEF WireVarInt, Byte
    <3>2. <<P>> \in Strings /\ Len(<<P>>) = 1
      BY <3>1 DEF Strings
    <3>3. <<P>> \o bytes \in Strings /\ Len(<<P>> \o bytes) = 1 + P
      BY <1>1, <3>2, Joined
    <3>4. Len(fields) = 2 + (1 + P)
      BY <1>3, <1>4, <3>1, <3>3, Joined
    <3> HIDE DEF fields
    <3> QED BY <1>1, <3>4
  <2>2. CASE P >= 128
    <3>1. Len(fields) >= 127
      <4> DEFINE x == <<128 + (P % 128), P \div 128>>
      <4>1. WireVarInt(P) = x
        BY <1>1, <2>2 DEF WireVarInt
      <4>2. x \in Seq(Nat) /\ bytes \in Seq(Nat) /\ Len(x) = 2 /\ <<0, 0>> \in Seq(Nat)
        <5>1. \A n \in Nat : 128 + (n % 128) \in Nat /\ n \div 128 \in Nat
          OBVIOUS
        <5>2. 128 + (P % 128) \in Nat /\ P \div 128 \in Nat
          BY <1>1, <5>1
        <5>3. Byte \subseteq Nat
          BY DEF Byte
        <5>4. x \in Seq(Nat) /\ Len(x) = 2 /\ <<0, 0>> \in Seq(Nat)
          BY <5>2
        <5>5. bytes \in Seq(Nat)
          <6>1. bytes \in Seq(Byte)
            BY <1>1 DEF Strings
          <6>2. Len(bytes) \in Nat /\ (\A i \in 1..Len(bytes) : bytes[i] \in Byte)
                /\ bytes = [i \in 1..Len(bytes) |-> bytes[i]]
            BY <6>1
          <6>3. \A i \in 1..Len(bytes) : bytes[i] \in Nat
            BY <5>3, <6>2
          <6> HIDE DEF bytes
          <6> QED BY <6>1, <6>3
        <5> QED BY <5>4, <5>5
      <4> HIDE DEF x
      <4>3. x \o bytes \in Seq(Nat) /\ Len(x \o bytes) = 2 + P
        <5>1. x \o bytes \in Seq(Nat) /\ Len(x \o bytes) = Len(x) + Len(bytes)
          BY <4>2, ConcatProperties
        <5> QED BY <1>1, <4>2, <5>1
      <4>4. Len(fields) = 2 + (2 + P)
        BY <1>3, <1>4, <4>1, <4>2, <4>3, ConcatProperties
      <4> HIDE DEF fields
      <4> QED BY <1>1, <2>2, <4>4
    <3> HIDE DEF fields
    <3>2. Len(fields) \in Nat \/ ~(Len(fields) < 127 /\ Len(fields) >= 127)
      BY LenProperties
    <3> QED BY <3>1, <3>2
  <2> QED BY <1>1, <2>1, <2>2
<1>6. P \in 1..126 /\ V \in 1..126 /\ P \in Byte /\ V \in Byte /\ P < 128
  BY <1>1, <1>5 DEF Byte
<1>7. VariablePacketSize = V
  BY <1>6, EncodedShort DEF VariablePacketSize, P
<1>8. ConnackHead = <<32>> \o <<V>> \o <<0, 0>> \o <<P>>
  BY <1>6, <1>7, EncodedShort DEF ConnackHead, P
<1>9. Len(ConnackHead) = 5
  BY <1>8
<1>10. fields = <<0, 0>> \o (<<P>> \o bytes)
  BY <1>3, <1>6 DEF WireVarInt
<1>11. Len(fields) = V
  <2>1. <<P>> \in Strings /\ Len(<<P>>) = 1
    BY <1>6 DEF Strings
  <2>2. <<P>> \o bytes \in Strings /\ Len(<<P>> \o bytes) = 1 + P
    BY <1>1, <2>1, Joined
  <2>3. Len(fields) = 2 + (1 + P)
    BY <1>4, <1>10, <2>2, Joined
  <2> QED BY <1>1, <2>3
<1> HIDE DEF V, fields
<1>12. reply = <<32, V>> \o (<<0, 0>> \o (<<P>> \o bytes))
  <2>1. Len(reply) = 5 + Len(bytes)
    BY <1>1, <1>2, <1>9
  <2>2. At(reply, 0, <<32>> \o <<V>> \o <<0, 0>> \o <<P>>) /\ At(reply, 5, bytes)
    BY <1>1, <1>2, <1>8, <1>9
  <2>3. bytes \in Strings /\ reply \in Strings /\ V \in Byte /\ P \in Byte
    BY <1>1, <1>2, <1>6
  <2> QED BY <2>1, <2>2, <2>3, ShortPacket DEF ConnackField
<1> QED BY <1>10, <1>11, <1>12

\* Byte for byte, the CONNACK is the standard's encoding of what the CONNECT has
\* negotiated, whatever properties there are and whatever an earlier CONNACK has
\* left in the buffer, for a client with a name and one user property and lengths
\* below 127 (create_connack_packet, fill_property, encode_variable_int).
THEOREM ConnackIsEncoded == Spec => []ConnackAsConfigured
<1>1. Init => WriterInv /\ Written
  BY WriterInit DEF Init, Written
<1>2. WriterInv /\ Written /\ [Next]_vars => (WriterInv /\ Written)'
  BY WriterStep, WrittenStep
<1>3. WriterInv /\ Written => ConnackAsConfigured
  BY ConnackWritten
<1> QED BY <1>1, <1>2, <1>3, PTL DEF Spec

\* No two properties have the same identifier.
LEMMA IdentifiesOne == \A p, q \in PropertyTypes : Identifier[p] = Identifier[q] => p = q
<1> DEFINE Name(b) == CASE b = 1 -> "PAYLOAD_FORMAT_INDICATOR"
                    [] b = 2 -> "MESSAGE_EXPIRY_INTERVAL"
                    [] b = 3 -> "CONTENT_TYPE"
                    [] b = 8 -> "RESPONSE_TOPIC"
                    [] b = 9 -> "CORRELATION_DATA"
                    [] b = 11 -> "SUBSCRIPTION_ID"
                    [] b = 17 -> "SESSION_EXPIRY_INTERVAL"
                    [] b = 18 -> "ASSIGNED_CLIENT_ID"
                    [] b = 19 -> "SERVER_KEEP_ALIVE"
                    [] b = 21 -> "AUTHENTICATION_METHOD"
                    [] b = 22 -> "AUTHENTICATION_DATA"
                    [] b = 23 -> "REQUEST_PROBLEM_INFORMATION"
                    [] b = 24 -> "WILL_DELAY_INTERVAL"
                    [] b = 25 -> "REQUEST_RESPONSE_INFORMATION"
                    [] b = 26 -> "RESPONSE_INFORMATION"
                    [] b = 28 -> "SERVER_REFERENCE"
                    [] b = 31 -> "REASON_STRING"
                    [] b = 33 -> "RECEIVE_MAXIMUM"
                    [] b = 34 -> "TOPIC_ALIAS_MAXIMUM"
                    [] b = 35 -> "TOPIC_ALIAS"
                    [] b = 36 -> "MAXIMUM_QOS"
                    [] b = 37 -> "RETAIN_AVAILABLE"
                    [] b = 38 -> "USER_PROPERTY"
                    [] b = 39 -> "MAXIMUM_PACKET_SIZE"
                    [] b = 40 -> "WILDCARD_SUBSCRIPTION_AVAILABLE"
                    [] b = 41 -> "SUBSCRIPTION_ID_AVAILABLE"
                    [] b = 42 -> "SHARED_SUBSCRIPTION_AVAILABLE"
<1>1. ASSUME NEW p \in PropertyTypes PROVE Name(Identifier[p]) = p
  <2>1. CASE p = "PAYLOAD_FORMAT_INDICATOR"
    <3>1. Identifier["PAYLOAD_FORMAT_INDICATOR"] = 1
      BY <2>1 DEF Identifier
    <3> QED BY <2>1, <3>1
  <2>2. CASE p = "MESSAGE_EXPIRY_INTERVAL"
    <3>1. Identifier["MESSAGE_EXPIRY_INTERVAL"] = 2
      BY <2>2 DEF Identifier
    <3> QED BY <2>2, <3>1
  <2>3. CASE p = "CONTENT_TYPE"
    <3>1. Identifier["CONTENT_TYPE"] = 3
      BY <2>3 DEF Identifier
    <3> QED BY <2>3, <3>1
  <2>4. CASE p = "RESPONSE_TOPIC"
    <3>1. Identifier["RESPONSE_TOPIC"] = 8
      BY <2>4 DEF Identifier
    <3> QED BY <2>4, <3>1
  <2>5. CASE p = "CORRELATION_DATA"
    <3>1. Identifier["CORRELATION_DATA"] = 9
      BY <2>5 DEF Identifier
    <3> QED BY <2>5, <3>1
  <2>6. CASE p = "SUBSCRIPTION_ID"
    <3>1. Identifier["SUBSCRIPTION_ID"] = 11
      BY <2>6 DEF Identifier
    <3> QED BY <2>6, <3>1
  <2>7. CASE p = "SESSION_EXPIRY_INTERVAL"
    <3>1. Identifier["SESSION_EXPIRY_INTERVAL"] = 17
      BY <2>7 DEF Identifier
    <3> QED BY <2>7, <3>1
  <2>8. CASE p = "ASSIGNED_CLIENT_ID"
    <3>1. Identifier["ASSIGNED_CLIENT_ID"] = 18
      BY <2>8 DEF Identifier
    <3> QED BY <2>8, <3>1
  <2>9. CASE p = "SERVER_KEEP_ALIVE"
    <3>1. Identifier["SERVER_KEEP_ALIVE"] = 19
      BY <2>9 DEF Identifier
    <3> QED BY <2>9, <3>1
  <2>10. CASE p = "AUTHENTICATION_METHOD"
    <3>1. Identifier["AUTHENTICATION_METHOD"] = 21
      BY <2>10 DEF Identifier
    <3> QED BY <2>10, <3>1
  <2>11. CASE p = "AUTHENTICATION_DATA"
    <3>1. Identifier["AUTHENTICATION_DATA"] = 22
      BY <2>11 DEF Identifier
    <3> QED BY <2>11, <3>1
  <2>12. CASE p = "REQUEST_PROBLEM_INFORMATION"
    <3>1. Identifier["REQUEST_PROBLEM_INFORMATION"] = 23
      BY <2>12 DEF Identifier
    <3> QED BY <2>12, <3>1
  <2>13. CASE p = "WILL_DELAY_INTERVAL"
    <3>1. Identifier["WILL_DELAY_INTERVAL"] = 24
      BY <2>13 DEF Identifier
    <3> QED BY <2>13, <3>1
  <2>14. CASE p = "REQUEST_RESPONSE_INFORMATION"
    <3>1. Identifier["REQUEST_RESPONSE_INFORMATION"] = 25
      BY <2>14 DEF Identifier
    <3> QED BY <2>14, <3>1
  <2>15. CASE p = "RESPONSE_INFORMATION"
    <3>1. Identifier["RESPONSE_INFORMATION"] = 26
      BY <2>15 DEF Identifier
    <3> QED BY <2>15, <3>1
  <2>16. CASE p = "SERVER_REFERENCE"
    <3>1. Identifier["SERVER_REFERENCE"] = 28
      BY <2>16 DEF Identifier
    <3> QED BY <2>16, <3>1
  <2>17. CASE p = "REASON_STRING"
    <3>1. Identifier["REASON_STRING"] = 31
      BY <2>17 DEF Identifier
    <3> QED BY <2>17, <3>1
  <2>18. CASE p = "RECEIVE_MAXIMUM"
    <3>1. Identifier["RECEIVE_MAXIMUM"] = 33
      BY <2>18 DEF Identifier
    <3> QED BY <2>18, <3>1
  <2>19. CASE p = "TOPIC_ALIAS_MAXIMUM"
    <3>1. Identifier["TOPIC_ALIAS_MAXIMUM"] = 34
      BY <2>19 DEF Identifier
    <3> QED BY <2>19, <3>1
  <2>20. CASE p = "TOPIC_ALIAS"
    <3>1. Identifier["TOPIC_ALIAS"] = 35
      BY <2>20 DEF Identifier
    <3> QED BY <2>20, <3>1
  <2>21. CASE p = "MAXIMUM_QOS"
    <3>1. Identifier["MAXIMUM_QOS"] = 36
      BY <2>21 DEF Identifier
    <3> QED BY <2>21, <3>1
  <2>22. CASE p = "RETAIN_AVAILABLE"
    <3>1. Identifier["RETAIN_AVAILABLE"] = 37
      BY <2>22 DEF Identifier
    <3> QED BY <2>22, <3>1
  <2>23. CASE p = "USER_PROPERTY"
    <3>1. Identifier["USER_PROPERTY"] = 38
      BY <2>23 DEF Identifier
    <3> QED BY <2>23, <3>1
  <2>24. CASE p = "MAXIMUM_PACKET_SIZE"
    <3>1. Identifier["MAXIMUM_PACKET_SIZE"] = 39
      BY <2>24 DEF Identifier
    <3> QED BY <2>24, <3>1
  <2>25. CASE p = "WILDCARD_SUBSCRIPTION_AVAILABLE"
    <3>1. Identifier["WILDCARD_SUBSCRIPTION_AVAILABLE"] = 40
      BY <2>25 DEF Identifier
    <3> QED BY <2>25, <3>1
  <2>26. CASE p = "SUBSCRIPTION_ID_AVAILABLE"
    <3>1. Identifier["SUBSCRIPTION_ID_AVAILABLE"] = 41
      BY <2>26 DEF Identifier
    <3> QED BY <2>26, <3>1
  <2>27. CASE p = "SHARED_SUBSCRIPTION_AVAILABLE"
    <3>1. Identifier["SHARED_SUBSCRIPTION_AVAILABLE"] = 42
      BY <2>27 DEF Identifier
    <3> QED BY <2>27, <3>1
  <2> HIDE DEF Name
  <2> QED BY <2>1, <2>2, <2>3, <2>4, <2>5, <2>6, <2>7, <2>8, <2>9, <2>10, <2>11, <2>12, <2>13, <2>14, <2>15, <2>16, <2>17, <2>18, <2>19, <2>20, <2>21, <2>22, <2>23, <2>24, <2>25, <2>26, <2>27 DEF PropertyTypes, ByteProperties, TwoByteProperties,
             FourByteProperties, StringProperties, BinaryProperties
<1> HIDE DEF Name
<1> QED BY <1>1

LEMMA PropertyNamed == \A p \in PropertyTypes : PropertyOf(Identifier[p]) = p
  BY IdentifiesOne DEF PropertyOf

\* The kinds of data that a property of a CONNECT has.
LEMMA KindsInConnect ==
    ASSUME NEW p \in InConnect
    PROVE  /\ p \in PropertyTypes
           /\ ~IsPropertyFixed(p) /\ p # "USER_PROPERTY" =>
                 /\ p \in {"AUTHENTICATION_METHOD", "AUTHENTICATION_DATA"}
                 /\ DataType(p) = IF p = "AUTHENTICATION_METHOD" THEN "UTF8_STRING" ELSE "BINARY"
<1>1. p \in PropertyTypes
  BY DEF InConnect, PropertyTypes, ByteProperties, TwoByteProperties,
         FourByteProperties, StringProperties, BinaryProperties
<1>2. ASSUME ~IsPropertyFixed(p), p # "USER_PROPERTY"
      PROVE  p \in {"AUTHENTICATION_METHOD", "AUTHENTICATION_DATA"}
  BY <1>2 DEF InConnect, IsPropertyFixed, ByteProperties, TwoByteProperties, FourByteProperties
<1>3. /\ DataType("AUTHENTICATION_METHOD") = "UTF8_STRING"
      /\ DataType("AUTHENTICATION_DATA") = "BINARY"
  BY DEF DataType, ByteProperties, TwoByteProperties,
         FourByteProperties, StringProperties, BinaryProperties
<1> QED BY <1>1, <1>2, <1>3

LEMMA UserPropertyIs ==
    /\ ~IsPropertyFixed("USER_PROPERTY") /\ DataType("USER_PROPERTY") = "UTF8_STRING_PAIR"
    /\ "USER_PROPERTY" \in PropertyTypes
  BY DEF DataType, ByteProperties, TwoByteProperties, IsPropertyFixed, PropertyTypes,
         FourByteProperties, StringProperties, BinaryProperties

LEMMA FixedKind ==
    ASSUME NEW p, IsPropertyFixed(p)
    PROVE  DataType(p) \notin {"UTF8_STRING", "UTF8_STRING_PAIR", "BINARY"}
<1>1. CASE p \in ByteProperties
  BY <1>1 DEF DataType, ByteProperties, TwoByteProperties, FourByteProperties,
              StringProperties, BinaryProperties
<1>2. CASE p \in TwoByteProperties
  BY <1>2 DEF DataType, ByteProperties, TwoByteProperties, FourByteProperties,
              StringProperties, BinaryProperties
<1>3. CASE p \in FourByteProperties
  BY <1>3 DEF DataType, ByteProperties, TwoByteProperties, FourByteProperties,
              StringProperties, BinaryProperties
<1> QED BY <1>1, <1>2, <1>3 DEF IsPropertyFixed

LEMMA WireDataFits ==
    ASSUME NEW q, IsProperty(q)
    PROVE  /\ WireData(q) \in Strings /\ WireProperty(q) \in Strings
           /\ Len(WireData(q)) \in Nat \ {0} /\ Len(WireProperty(q)) = 1 + Len(WireData(q))
<1>1. /\ q.type \in PropertyTypes
      /\ q.type = "USER_PROPERTY" => q.data[1] \in ShortStrings /\ q.data[2] \in ShortStrings
      /\ q.type # "USER_PROPERTY" => q.data \in ShortStrings
      /\ IsPropertyFixed(q.type) => Len(q.data) = FixedSize(q.type)
  BY DEF IsProperty, ShortPairs
<1>2. WireData(q) \in Strings /\ Len(WireData(q)) \in Nat \ {0}
  <2>1. CASE q.type = "USER_PROPERTY"
    <3>1. WireData(q) = WireString(q.data[1]) \o WireString(q.data[2])
      BY <2>1, UserPropertyIs DEF WireData
    <3>2. /\ WireString(q.data[1]) \in Strings /\ WireString(q.data[2]) \in Strings
          /\ Len(WireString(q.data[1])) = 2 + Len(q.data[1]) /\ Len(q.data[1]) \in Nat
          /\ Len(WireString(q.data[2])) = 2 + Len(q.data[2]) /\ Len(q.data[2]) \in Nat
      BY <1>1, <2>1, WireStringFits
    <3>3. /\ WireData(q) \in Strings
          /\ Len(WireData(q)) = Len(WireString(q.data[1])) + Len(WireString(q.data[2]))
      BY <3>1, <3>2, Joined
    <3>4. \A a, b \in Nat : (2 + a) + (2 + b) \in Nat \ {0}
      OBVIOUS
    <3>5. (2 + Len(q.data[1])) + (2 + Len(q.data[2])) \in Nat \ {0}
      BY <3>2, <3>4
    <3> QED BY <3>2, <3>3, <3>5
  <2>2. CASE IsPropertyFixed(q.type) /\ q.type # "USER_PROPERTY"
    <3>1. WireData(q) = q.data
      BY <2>2 DEF WireData
    <3>2. FixedSize(q.type) \in {1, 2, 4}
      BY DEF FixedSize
    <3> QED BY <1>1, <2>2, <3>1, <3>2, WireStringFits
  <2>3. CASE ~IsPropertyFixed(q.type) /\ q.type # "USER_PROPERTY"
    <3>1. WireData(q) = WireString(q.data)
      BY <2>3 DEF WireData
    <3>2. /\ WireString(q.data) \in Strings /\ Len(WireString(q.data)) = 2 + Len(q.data)
          /\ Len(q.data) \in Nat
      BY <1>1, <2>3, WireStringFits
    <3> QED BY <3>1, <3>2
  <2> QED BY <2>1, <2>2, <2>3
<1>3. Identifier[q.type] \in Byte
  BY <1>1, IdentifierIsByte
<1> QED BY <1>2, <1>3, Prefixed DEF WireProperty

\* get_property_data returns the data that the client has written, and moves the
\* cursor behind them.
LEMMA ReadsProperty ==
    ASSUME NEW q, IsProperty(q), q.type \in InConnect,
           NEW s \in Strings, At(s, 0, WireData(q))
    PROVE  /\ DataOf(q.type, s) = q.data
           /\ SizeOf(q.type, s) = Len(WireData(q))
           /\ s # <<>>
           /\ /\ q.type = "AUTHENTICATION_METHOD" => WellFormed(q.data)
              /\ q.type = "USER_PROPERTY" => WellFormed(q.data[1]) /\ WellFormed(q.data[2])
              => Present(q.type, s)
<1>1. /\ q.type \in PropertyTypes
      /\ q.type = "USER_PROPERTY" => q.data \in ShortPairs /\ q.data[1] \in ShortStrings
                                     /\ q.data[2] \in ShortStrings
      /\ q.type # "USER_PROPERTY" => q.data \in ShortStrings
      /\ IsPropertyFixed(q.type) => Len(q.data) = FixedSize(q.type)
  BY DEF IsProperty, ShortPairs
<1>2. Len(WireData(q)) \in Nat \ {0} /\ Len(s) \in Nat /\ Len(WireData(q)) <= Len(s)
  <2>1. Len(WireData(q)) \in Nat \ {0} /\ Len(s) \in Nat
    BY WireDataFits, LenProperties DEF Strings
  <2> QED BY <2>1 DEF At
<1>3. s # <<>>
  <2>1. Len(<<>>) = 0
    OBVIOUS
  <2> QED BY <1>2, <2>1
<1>4. CASE q.type = "USER_PROPERTY"
  <2>1. WireData(q) = WireString(q.data[1]) \o WireString(q.data[2])
    BY <1>4, UserPropertyIs DEF WireData
  <2>2. /\ HoldsString(s) /\ Length(s) = Len(q.data[1]) /\ StringOf(s) = q.data[1]
        /\ HoldsString(Behind(s)) /\ Length(Behind(s)) = Len(q.data[2])
        /\ StringOf(Behind(s)) = q.data[2]
    BY <1>1, <1>4, <2>1, ReadsPair
  <2>3. DataOf(q.type, s) = <<q.data[1], q.data[2]>>
    BY <1>4, <2>2, UserPropertyIs DEF DataOf
  <2>4. q.data = <<q.data[1], q.data[2]>>
    BY <1>1, <1>4 DEF ShortPairs
  <2>5. SizeOf(q.type, s) = 4 + Len(q.data[1]) + Len(q.data[2])
    BY <1>4, <2>2, UserPropertyIs DEF SizeOf
  <2>6. Len(WireData(q)) = 4 + Len(q.data[1]) + Len(q.data[2])
    <3>1. /\ WireString(q.data[1]) \in Strings /\ WireString(q.data[2]) \in Strings
          /\ Len(WireString(q.data[1])) = 2 + Len(q.data[1]) /\ Len(q.data[1]) \in Nat
          /\ Len(WireString(q.data[2])) = 2 + Len(q.data[2]) /\ Len(q.data[2]) \in Nat
      BY <1>1, <1>4, WireStringFits
    <3>2. Len(WireData(q)) = Len(WireString(q.data[1])) + Len(WireString(q.data[2]))
      BY <2>1, <3>1, Joined
    <3>4. \A a, b \in Nat : (2 + a) + (2 + b) = 4 + a + b
      OBVIOUS
    <3>5. (2 + Len(q.data[1])) + (2 + Len(q.data[2])) = 4 + Len(q.data[1]) + Len(q.data[2])
      BY <3>1, <3>4
    <3> QED BY <3>1, <3>2, <3>5
  <2>7. WellFormed(q.data[1]) /\ WellFormed(q.data[2]) => Present(q.type, s)
    BY <1>4, <2>2, UserPropertyIs DEF Present, IsString
  <2> QED BY <1>3, <1>4, <2>3, <2>4, <2>5, <2>6, <2>7
<1>5. CASE IsPropertyFixed(q.type)
  <2>1. q.type # "USER_PROPERTY"
    BY <1>5, UserPropertyIs
  <2>2. WireData(q) = q.data
    BY <1>5, <2>1 DEF WireData
  <2>3. SizeOf(q.type, s) = FixedSize(q.type) /\ DataOf(q.type, s) = SubSeq(s, 1, FixedSize(q.type))
    BY <1>5, FixedKind DEF SizeOf, DataOf
  <2>4. Present(q.type, s)
    BY <1>1, <1>2, <1>5, <2>2, FixedKind DEF Present
  <2>5. SubSeq(s, 1, FixedSize(q.type)) = q.data
    <3> DEFINE n == FixedSize(q.type)
               t == SubSeq(s, 0 + 1, n)
    <3>1. n \in Nat /\ n <= Len(s) /\ Len(q.data) = n /\ n # 0
      BY <1>1, <1>2, <1>5, <2>2
    <3>2. q.data \in Strings
      BY <1>1, <2>1, WireStringFits
    <3>3. At(s, 0 + 0, q.data) /\ 0 + 0 + Len(q.data) <= n /\ 0 \in Nat
      BY <2>2, <3>1
    <3> HIDE DEF n
    <3>4. SubSeq(s, 0 + 1, n) \in Strings /\ At(SubSeq(s, 0 + 1, n), 0, q.data)
      BY <3>1, <3>2, <3>3, AtSlice
    <3>5. Len(t) = n
      <4>1. 1 \in Nat \ {0} /\ n \in Int /\ 0 + 1 = 1
        BY <3>1
      <4>2. Len(SubSeq(s, 1, n)) = IF 1 <= n THEN n - 1 + 1 ELSE 0
        BY <3>1, <4>1, Slice
      <4>3. (IF 1 <= n THEN n - 1 + 1 ELSE 0) = n
        BY <3>1
      <4> QED BY <4>1, <4>2, <4>3
    <3>6. t = q.data
      <4> HIDE DEF t
      <4>1. t \in Strings /\ At(t, 0, q.data)
        BY <3>4 DEF t
      <4> QED BY <3>1, <3>2, <3>5, <4>1, AtWhole
    <3>7. 0 + 1 = 1
      OBVIOUS
    <3> QED BY <3>6, <3>7 DEF n
  <2> QED BY <1>1, <1>3, <1>5, <2>1, <2>2, <2>3, <2>4, <2>5
<1>6. CASE ~IsPropertyFixed(q.type) /\ q.type # "USER_PROPERTY"
  <2>1. WireData(q) = WireString(q.data)
    BY <1>6 DEF WireData
  <2>2. HoldsString(s) /\ Length(s) = Len(q.data) /\ StringOf(s) = q.data
    BY <1>1, <1>6, <2>1, ReadsString
  <2>3. DataType(q.type) = IF q.type = "AUTHENTICATION_METHOD" THEN "UTF8_STRING" ELSE "BINARY"
    BY <1>6, KindsInConnect
  <2>4. DataOf(q.type, s) = q.data
    BY <1>6, <2>2, <2>3 DEF DataOf
  <2>5. SizeOf(q.type, s) = 2 + Len(q.data)
    BY <1>6, <2>2, <2>3 DEF SizeOf
  <2>6. Len(WireData(q)) = 2 + Len(q.data)
    BY <1>1, <1>6, <2>1, WireStringFits
  <2>7. (q.type = "AUTHENTICATION_METHOD" => WellFormed(q.data)) => Present(q.type, s)
    BY <1>6, <2>2, <2>3 DEF Present, IsString
  <2> QED BY <1>3, <1>6, <2>4, <2>5, <2>6, <2>7
<1> QED BY <1>4, <1>5, <1>6

\* What decode_variable_int makes of the first two bytes; the others count for nothing.
LEMMA TwoBytesCount ==
    ASSUME NEW s \in Strings, DecodeVariableInt(s).ok
    PROVE  /\ Offset(s) \in 0..4 /\ DecodeVariableInt(s).offset = Offset(s)
           /\ s[1] \in Byte /\ Len(s) >= 1
           /\ Offset(s) = 0 => s[1] < 128 /\ DecodeVariableInt(s).value = s[1]
           /\ Offset(s) >= 1 => /\ s[1] >= 128 /\ s[2] \in Byte
                                /\ DecodeVariableInt(s).value = (s[1] % 128) + (s[2] % 128) * 128
<1> DEFINE n == Offset(s)
           Term(i) == IF i <= n + 1 THEN (s[i] % 128) * Mul[i] ELSE 0
           ok == n = 4 \/ n < Len(s)
<1>1. /\ n \in 0..4 /\ (\A i \in 1..n : Continues(s, i)) /\ Len(s) \in Nat
      /\ (n < 4 => ~Continues(s, n + 1))
  BY OffsetFits DEF Strings
<1>2. DecodeVariableInt(s) =
        [ok |-> ok, offset |-> n,
         value |-> IF ok THEN Term(1) + Term(2) + Term(3) + Term(4) ELSE 0]
  BY DEF DecodeVariableInt
<1>3. ok /\ DecodeVariableInt(s).offset = n
      /\ DecodeVariableInt(s).value = Term(1) + Term(2) + Term(3) + Term(4)
  <2> HIDE DEF n, ok, Term
  <2>1. ok
    BY <1>2
  <2> QED BY <1>2, <2>1
<1>4. n <= Len(s)
  BY <1>1 DEF Continues
<1>5. Mul = <<1, 128, 0, 0>>
  BY DEF Mul, Times128
<1>6. ASSUME NEW i \in 1..4, i <= n + 1 PROVE i <= Len(s) /\ s[i] \in Byte /\ s[i] % 128 \in Nat
  <2>1. i \in 1..Len(s)
    BY <1>1, <1>3, <1>4, <1>6
  <2>2. \A j \in 1..Len(s) : s[j] \in Byte
    BY DEF Strings
  <2>3. s[i] \in Byte
    BY <2>1, <2>2
  <2>4. \A x \in Byte : x % 128 \in Nat
    BY DEF Byte
  <2>5. s[i] % 128 \in Nat
    BY <2>3, <2>4
  <2> QED BY <2>1, <2>3, <2>5
<1>7. Term(3) = 0 /\ Term(4) = 0
  <2>1. Term(3) = 0
    <3>1. CASE 3 <= n + 1
      <4>1. s[3] % 128 \in Nat /\ Mul[3] = 0
        BY <1>5, <1>6, <3>1
      <4> QED BY <3>1, <4>1
    <3>2. CASE ~(3 <= n + 1)
      BY <3>2
    <3> QED BY <3>1, <3>2
  <2>2. Term(4) = 0
    <3>1. CASE 4 <= n + 1
      <4>1. s[4] % 128 \in Nat /\ Mul[4] = 0
        BY <1>5, <1>6, <3>1
      <4> QED BY <3>1, <4>1
    <3>2. CASE ~(4 <= n + 1)
      BY <3>2
    <3> QED BY <3>1, <3>2
  <2> QED BY <2>1, <2>2
<1>8. s[1] \in Byte /\ s[1] % 128 \in Nat /\ 1 <= Len(s) /\ Term(1) = s[1] % 128
  <2>1. 1 \in 1..4 /\ 1 <= n + 1 /\ Mul[1] = 1
    BY <1>1, <1>5
  <2>2. s[1] \in Byte /\ s[1] % 128 \in Nat /\ 1 <= Len(s)
    BY <1>6, <2>1
  <2> QED BY <2>1, <2>2
<1>9. CASE n = 0
  <2>1. Term(2) = 0
    BY <1>9
  <2>2. s[1] < 128
    <3>1. ~Continues(s, 1)
      BY <1>1, <1>9
    <3>2. ~(s[1] >= 128)
      BY <1>8, <3>1 DEF Continues
    <3>3. \A x \in Byte : x < 128 \/ x >= 128
      BY DEF Byte
    <3> QED BY <1>8, <3>2, <3>3
  <2>3. s[1] % 128 = s[1]
    <3>1. \A x \in 0..255 : x < 128 => x % 128 = x
      OBVIOUS
    <3> QED BY <1>8, <2>2, <3>1 DEF Byte
  <2> HIDE DEF Term
  <2>4. DecodeVariableInt(s).value = s[1]
    <3>1. s[1] \in Nat
      <4>1. Byte \subseteq Nat
        BY DEF Byte
      <4> QED BY <1>8, <4>1
    <3> QED BY <1>3, <1>7, <1>8, <2>1, <2>3, <3>1
  <2> QED BY <1>1, <1>3, <1>8, <1>9, <2>2, <2>4
<1>10. CASE n >= 1
  <2>1. s[2] \in Byte /\ s[2] % 128 \in Nat /\ Term(2) = (s[2] % 128) * 128
    <3>1. 2 \in 1..4 /\ 2 <= n + 1 /\ Mul[2] = 128
      BY <1>1, <1>5, <1>10
    <3>2. s[2] \in Byte /\ s[2] % 128 \in Nat
      BY <1>6, <3>1
    <3> QED BY <3>1, <3>2
  <2>2. s[1] >= 128
    <3>1. Continues(s, 1)
      BY <1>1, <1>10
    <3> QED BY <3>1 DEF Continues
  <2> HIDE DEF Term
  <2>3. DecodeVariableInt(s).value = (s[1] % 128) + (s[2] % 128) * 128
    BY <1>3, <1>7, <1>8, <2>1
  <2> QED BY <1>1, <1>3, <1>8, <1>10, <2>1, <2>2, <2>3
<1> QED BY <1>1, <1>9, <1>10

\* A length as the client writes it is the one that is read, if two bytes hold it.
LEMMA ReadsVarInt ==
    ASSUME NEW n \in Nat, n < 16384, NEW s \in Strings, At(s, 0, WireVarInt(n))
    PROVE  /\ WireVarInt(n) \in Strings /\ Len(WireVarInt(n)) \in {1, 2}
           /\ DecodeVariableInt(s).ok /\ DecodeVariableInt(s).value = n
           /\ DecodeVariableInt(s).offset + 1 = Len(WireVarInt(n))
<1>1. /\ Offset(s) \in 0..4 /\ (\A i \in 1..Offset(s) : Continues(s, i)) /\ Len(s) \in Nat
      /\ (Offset(s) < 4 => ~Continues(s, Offset(s) + 1))
  BY OffsetFits DEF Strings
<1>2. DecodeVariableInt(s).ok <=> Offset(s) = 4 \/ Offset(s) < Len(s)
  <2> DEFINE k == Offset(s)
             Term(i) == IF i <= k + 1 THEN (s[i] % 128) * Mul[i] ELSE 0
             ok == k = 4 \/ k < Len(s)
             value == IF ok THEN Term(1) + Term(2) + Term(3) + Term(4) ELSE 0
  <2>1. DecodeVariableInt(s) = [ok |-> ok, offset |-> k, value |-> value]
    BY DEF DecodeVariableInt
  <2> HIDE DEF value, ok
  <2>2. DecodeVariableInt(s).ok <=> ok
    BY <2>1
  <2> QED BY <2>2 DEF ok
<1>3. CASE n < 128
  <2>1. WireVarInt(n) = <<n>> /\ n \in Byte
    BY <1>3 DEF WireVarInt, Byte
  <2>2. <<n>> \in Strings /\ Len(<<n>>) = 1
    BY <2>1 DEF Strings
  <2>3. 1 <= Len(s) /\ s[1] = n
    <3>1. 0 + 1 <= Len(s) /\ \A i \in 1..1 : s[0 + i] = <<n>>[i]
      BY <2>1, <2>2 DEF At
    <3>2. s[0 + 1] = n
      BY <3>1
    <3> QED BY <3>1, <3>2
  <2>4. Offset(s) = 0
    <3>1. ~Continues(s, 1)
      BY <1>3, <2>3 DEF Continues
    <3> QED BY <1>1, <3>1
  <2>5. DecodeVariableInt(s).ok
    BY <1>1, <1>2, <2>3, <2>4
  <2> QED BY <2>1, <2>2, <2>3, <2>4, <2>5, TwoBytesCount
<1>4. CASE n >= 128
  <2> DEFINE a == 128 + (n % 128)
             b == n \div 128
  <2>1. WireVarInt(n) = <<a, b>>
    BY <1>4 DEF WireVarInt
  <2>2. a \in 128..255 /\ b \in 0..127 /\ a % 128 = n % 128 /\ b % 128 = b /\ (a % 128) + b * 128 = n
    <3>1. ASSUME NEW x \in Nat, x < 16384
          PROVE  /\ 128 + (x % 128) \in 128..255 /\ x \div 128 \in 0..127
                 /\ (128 + (x % 128)) % 128 = x % 128 /\ (x \div 128) % 128 = x \div 128
                 /\ (x % 128) + (x \div 128) * 128 = x
      BY <3>1
    <3>2. (128 + (n % 128)) % 128 = n % 128 /\ (n % 128) + (n \div 128) * 128 = n
      BY <3>1
    <3> QED BY <3>1, <3>2
  <2> HIDE DEF a, b
  <2>3. <<a, b>> \in Strings /\ Len(<<a, b>>) = 2
    BY <2>2 DEF Strings, Byte
  <2>4. 2 <= Len(s) /\ s[1] = a /\ s[2] = b
    <3>1. 0 + 2 <= Len(s) /\ \A i \in 1..2 : s[0 + i] = <<a, b>>[i]
      BY <2>1, <2>3 DEF At
    <3>2. s[0 + 1] = a /\ s[0 + 2] = b
      BY <3>1
    <3> QED BY <3>1, <3>2
  <2>5. Offset(s) = 1
    <3>1. Continues(s, 1) /\ ~Continues(s, 2)
      BY <2>2, <2>4 DEF Continues
    <3>2. ~(Offset(s) >= 2)
      BY <1>1, <3>1
    <3>3. Offset(s) # 0
      BY <1>1, <3>1
    <3> QED BY <1>1, <3>2, <3>3
  <2>6. DecodeVariableInt(s).ok
    BY <1>1, <1>2, <2>4, <2>5
  <2>7. DecodeVariableInt(s).offset = 1 /\ DecodeVariableInt(s).value = (a % 128) + (b % 128) * 128
    BY <2>4, <2>5, <2>6, TwoBytesCount
  <2> QED BY <2>1, <2>2, <2>3, <2>6, <2>7
<1> QED BY <1>3, <1>4

\* Where the parts of a CONNECT stand.
Wires(qs) == [i \in 1..Len(qs) |-> WireProperty(qs[i])]
WiredUpTo(qs) == CHOOSE f : Flattened(f, Wires(qs), Len(qs))
SizeOfFirst(qs, n) == Len(WiredUpTo(qs)[n])
PropertiesLength(m) == Len(WirePropertyBytes(m.properties))
FirstProperty(m) == 10 + Len(WireVarInt(PropertiesLength(m)))
FirstPayload(m) == FirstProperty(m) + PropertiesLength(m)
WirePayloads(m) == [i \in 1..6 |-> WirePayload(m, PayloadTypes[i])]
BehindName(m) == FirstPayload(m) + 2 + Len(m.payload["CLIENT_ID"])
BehindUser(m) == BehindName(m) + Len(WirePayload(m, "USER_NAME"))

LEMMA MeaningIs ==
    ASSUME NEW m, IsMeaning(m)
    PROVE  /\ Len(m.properties) \in Nat /\ DOMAIN m.properties = 1..Len(m.properties)
           /\ \A i \in 1..Len(m.properties) : IsProperty(m.properties[i])
           /\ PropertiesLength(m) < 16384
           /\ "CLIENT_ID" \in DOMAIN m.payload /\ DOMAIN m.payload \subseteq ConfigPayloads
           /\ \A t \in DOMAIN m.payload : m.payload[t] \in ShortStrings
           /\ HasWill(m) <=> "WILL_PAYLOAD" \in DOMAIN m.payload
<1>1. m.properties \in Seq(Range(m.properties))
  BY DEF IsMeaning
<1>2. Len(m.properties) \in Nat /\ DOMAIN m.properties = 1..Len(m.properties)
  BY <1>1, LenProperties
<1> QED BY <1>2 DEF IsMeaning, PropertiesLength

LEMMA PropertiesJoined ==
    ASSUME NEW qs, Len(qs) \in Nat, \A i \in 1..Len(qs) : IsProperty(qs[i])
    PROVE  /\ Wires(qs) \in [1..Len(qs) -> Strings]
           /\ Flattened(WiredUpTo(qs), Wires(qs), Len(qs))
           /\ WirePropertyBytes(qs) \in Strings
           /\ SizeOfFirst(qs, 0) = 0 /\ SizeOfFirst(qs, Len(qs)) = Len(WirePropertyBytes(qs))
           /\ \A n \in 0..Len(qs) : /\ SizeOfFirst(qs, n) \in Nat
                                    /\ SizeOfFirst(qs, n) <= Len(WirePropertyBytes(qs))
           /\ \A n \in 1..Len(qs) :
                 SizeOfFirst(qs, n) = SizeOfFirst(qs, n - 1) + Len(WireProperty(qs[n]))
<1>1. Wires(qs) \in [1..Len(qs) -> Strings]
  BY WireDataFits DEF Wires
<1>2. Flattened(WiredUpTo(qs), Wires(qs), Len(qs))
  <2>1. \E f : Flattened(f, Wires(qs), Len(qs))
    BY <1>1, FlattenJoins
  <2> QED BY <2>1 DEF WiredUpTo
<1>3. WirePropertyBytes(qs) = FlattenSeq(Wires(qs))
  BY DEF WirePropertyBytes, Wires
<1>4. /\ WiredUpTo(qs) \in [0..Len(qs) -> Strings] /\ WiredUpTo(qs)[0] = <<>>
      /\ WiredUpTo(qs)[Len(qs)] = FlattenSeq(Wires(qs))
      /\ \A n \in 1..Len(qs) :
            Len(WiredUpTo(qs)[n]) = Len(WiredUpTo(qs)[n - 1]) + Len(Wires(qs)[n])
  BY <1>2, Zenon DEF Flattened
<1>5. \A n \in 0..Len(qs) : /\ Len(WiredUpTo(qs)[n]) \in Nat
                            /\ Len(WiredUpTo(qs)[n]) <= Len(WiredUpTo(qs)[Len(qs)])
  BY <1>1, <1>2, LengthsGrow
<1>6. \A n \in 1..Len(qs) : Wires(qs)[n] = WireProperty(qs[n])
  BY DEF Wires
<1>7. Len(<<>>) = 0
  OBVIOUS
<1>8. WiredUpTo(qs)[Len(qs)] \in Strings
  BY <1>4
<1> QED BY <1>1, <1>2, <1>3, <1>4, <1>5, <1>6, <1>7, <1>8, Zenon DEF SizeOfFirst

\* The flags are a byte.
LEMMA FlagsAre ==
    ASSUME NEW m
    PROVE  WireFlags(m) \in Byte
  BY DEF WireFlags, Byte

LEMMA PayloadsFit ==
    ASSUME NEW m, IsMeaning(m)
    PROVE  WirePayloads(m) \in [1..6 -> Strings]
<1>1. ASSUME NEW t PROVE WirePayload(m, t) \in Strings
  <2>1. <<>> \in Strings
    BY DEF Strings
  <2>2. CASE t = "WILL_PROPERTIES"
    <3>1. WireProperties(<<>>) \in Strings
      <4>1. Len(<<>>) = 0 /\ 1..0 = {}
        OBVIOUS
      <4>2. WirePropertyBytes(<<>>) \in Strings /\ Len(WirePropertyBytes(<<>>)) = 0
        <5>1. Len(<<>>) \in Nat /\ \A i \in 1..Len(<<>>) : IsProperty(<<>>[i])
          BY <4>1
        <5>2. SizeOfFirst(<<>>, 0) = 0 /\ SizeOfFirst(<<>>, Len(<<>>)) = Len(WirePropertyBytes(<<>>))
              /\ WirePropertyBytes(<<>>) \in Strings
          BY <5>1, PropertiesJoined
        <5> QED BY <4>1, <5>2
      <4>3. WireVarInt(0) = <<0>> /\ <<0>> \in Strings
        BY DEF WireVarInt, Strings, Byte
      <4> QED BY <4>2, <4>3, Joined DEF WireProperties
    <3> QED BY <2>1, <2>2, <3>1 DEF WirePayload
  <2>3. CASE t # "WILL_PROPERTIES"
    <3>1. t \in DOMAIN m.payload => WireString(m.payload[t]) \in Strings
      BY MeaningIs, WireStringFits
    <3> QED BY <2>1, <2>3, <3>1 DEF WirePayload
  <2> QED BY <2>2, <2>3
<1> QED BY <1>1 DEF WirePayloads

\* The parts of a CONNECT, one behind the other.
LEMMA PartsStand ==
    ASSUME NEW m, IsMeaning(m)
    PROVE  /\ WireConnect(m) \in Strings
           /\ WireConnect(m)[8] = WireFlags(m)
           /\ At(WireConnect(m), 0, ConnectHeader(WireFlags(m)))
           /\ At(WireConnect(m), 10, WireVarInt(PropertiesLength(m)))
           /\ At(WireConnect(m), FirstProperty(m), WirePropertyBytes(m.properties))
           /\ At(WireConnect(m), FirstPayload(m), FlattenSeq(WirePayloads(m)))
           /\ FlattenSeq(WirePayloads(m)) \in Strings
           /\ Len(WireConnect(m)) = FirstPayload(m) + Len(FlattenSeq(WirePayloads(m)))
           /\ FirstProperty(m) \in Nat /\ FirstPayload(m) \in Nat
<1> DEFINE head == ConnectHeader(WireFlags(m))
           L == PropertiesLength(m)
           size == WireVarInt(L)
           bytes == WirePropertyBytes(m.properties)
           rest == FlattenSeq(WirePayloads(m))
           b == (head \o (size \o bytes)) \o rest
<1>1. bytes \in Strings /\ L \in Nat /\ Len(bytes) = L /\ L < 16384
  <2>1. bytes \in Strings
    BY MeaningIs, PropertiesJoined
  <2> QED BY <2>1, MeaningIs, LenProperties DEF PropertiesLength, Strings
<1>2. size \in Strings /\ Len(size) \in Nat
  <2>1. size \in Strings
    <3>1. CASE L < 128
      <4>1. \A x \in Nat : x < 128 => WireVarInt(x) = <<x>> /\ x \in Byte
        BY DEF WireVarInt, Byte
      <4> HIDE DEF L
      <4>2. size = <<L>> /\ L \in Byte
        BY <1>1, <3>1, <4>1
      <4> HIDE DEF size
      <4> QED BY <4>2 DEF Strings
    <3>2. CASE L >= 128
      <4>1. ASSUME NEW x \in Nat, x < 16384
            PROVE  128 + (x % 128) \in Byte /\ x \div 128 \in Byte
        BY <4>1 DEF Byte
      <4>2. 128 + (L % 128) \in Byte /\ L \div 128 \in Byte
        BY <1>1, <4>1
      <4>3. size = <<128 + (L % 128), L \div 128>>
        BY <1>1, <3>2 DEF WireVarInt
      <4> HIDE DEF size, L
      <4> QED BY <4>2, <4>3 DEF Strings
    <3> HIDE DEF L, size
    <3> QED BY <1>1, <3>1, <3>2
  <2> HIDE DEF size
  <2> QED BY <2>1, LenProperties DEF Strings
<1>3. rest \in Strings
  <2>1. WirePayloads(m) \in [1..6 -> Strings] /\ 6 \in Nat
    BY PayloadsFit
  <2>2. PICK f : Flattened(f, WirePayloads(m), 6)
    BY <2>1, FlattenJoins
  <2>3. f \in [0..6 -> Strings] /\ f[6] = FlattenSeq(WirePayloads(m))
    BY <2>2 DEF Flattened
  <2> QED BY <2>3
<1>4. head \in Strings /\ Len(head) = 10 /\ head[8] = WireFlags(m)
  BY FlagsAre DEF ConnectHeader, Strings, Byte
<1>5. WireConnect(m) = b
  BY DEF WireConnect, WireProperties, WirePayloads, PropertiesLength
<1> HIDE DEF head, size, bytes, rest, L
<1>6. size \o bytes \in Strings /\ Len(size \o bytes) = Len(size) + L
  BY <1>1, <1>2, Joined
<1>7. /\ head \o (size \o bytes) \in Strings
      /\ Len(head \o (size \o bytes)) = 10 + (Len(size) + L)
  BY <1>4, <1>6, Joined
<1>8. b \in Strings /\ Len(b) = (10 + (Len(size) + L)) + Len(rest)
  BY <1>3, <1>7, Joined
<1>9. At(b, 0, head \o (size \o bytes)) /\ At(b, 10 + (Len(size) + L), rest)
  <2>1. At(b, 0, b)
    BY <1>8, AtSelf
  <2>2. \A u, v \in Strings : At(b, 0, u \o v) => At(b, 0, u) /\ At(b, Len(u), v)
    BY <1>8, AtFront
  <2>3. /\ At(b, 0, head \o (size \o bytes))
        /\ At(b, Len(head \o (size \o bytes)), rest)
    BY <1>3, <1>7, <2>1, <2>2
  <2> QED BY <1>7, <2>3
<1> HIDE DEF b
<1>10. At(b, 0, head) /\ At(b, 10, size \o bytes)
  <2>1. At(b, 0, head) /\ At(b, Len(head), size \o bytes)
    BY <1>4, <1>6, <1>8, <1>9, AtFront
  <2> QED BY <1>4, <2>1
<1>11. At(b, 10, size) /\ At(b, 10 + Len(size), bytes)
  BY <1>1, <1>2, <1>8, <1>10, AtJoined
<1>12. b[8] = WireFlags(m)
  <2>1. b[0 + 8] = head[8]
    BY <1>4, <1>10 DEF At
  <2> QED BY <1>4, <2>1
<1>13. FirstProperty(m) = 10 + Len(size) /\ FirstPayload(m) = (10 + Len(size)) + L
  BY DEF FirstProperty, FirstPayload, size, L
<1>14. /\ (10 + Len(size)) + L = 10 + (Len(size) + L)
       /\ (10 + Len(size)) + L \in Nat /\ 10 + Len(size) \in Nat
  BY <1>1, <1>2
<1> QED BY <1>3, <1>5, <1>8, <1>9, <1>10, <1>11, <1>12, <1>13, <1>14 DEF head, size, bytes, rest, L

\* Each property stands behind the ones before it.
LEMMA PropertyStands ==
    ASSUME NEW m, IsMeaning(m), NEW i \in 1..Len(m.properties), NEW n,
           n = FirstProperty(m) + SizeOfFirst(m.properties, i - 1)
    PROVE  /\ n \in Nat /\ WireConnect(m)[n + 1] = Identifier[m.properties[i].type]
           /\ At(WireConnect(m), n + 1, WireData(m.properties[i]))
           /\ n + 1 + Len(WireData(m.properties[i]))
                 = FirstProperty(m) + SizeOfFirst(m.properties, i)
           /\ n + 1 + Len(WireData(m.properties[i])) <= FirstPayload(m)
           /\ Len(WireData(m.properties[i])) \in Nat
<1> DEFINE qs == m.properties
           q == qs[i]
           b == WireConnect(m)
           f == WiredUpTo(qs)
<1>1. /\ b \in Strings /\ FirstProperty(m) \in Nat
      /\ At(b, FirstProperty(m), WirePropertyBytes(qs))
  BY PartsStand
<1>2. Len(qs) \in Nat /\ i \in 1..Len(qs) /\ \A j \in 1..Len(qs) : IsProperty(qs[j])
  BY MeaningIs
<1>3. IsProperty(q)
  BY <1>2
<1>4. /\ Wires(qs) \in [1..Len(qs) -> Strings] /\ Flattened(f, Wires(qs), Len(qs))
      /\ \A k \in 0..Len(qs) : /\ SizeOfFirst(qs, k) \in Nat
                               /\ SizeOfFirst(qs, k) <= Len(WirePropertyBytes(qs))
      /\ \A k \in 1..Len(qs) :
            SizeOfFirst(qs, k) = SizeOfFirst(qs, k - 1) + Len(WireProperty(qs[k]))
  BY <1>2, PropertiesJoined
<1>5. WirePropertyBytes(qs) = FlattenSeq(Wires(qs)) /\ Wires(qs)[i] = WireProperty(q)
  BY <1>2 DEF WirePropertyBytes, Wires
<1>6. At(b, FirstProperty(m) + Len(f[i - 1]), Wires(qs)[i])
  <2> HIDE DEF b, qs, f, q
  <2> QED BY <1>1, <1>2, <1>4, <1>5, AtFlattened
<1>7. /\ WireData(q) \in Strings /\ Len(WireData(q)) \in Nat
      /\ Len(WireProperty(q)) = 1 + Len(WireData(q))
  BY <1>3, WireDataFits
<1>8. n = FirstProperty(m) + SizeOfFirst(qs, i - 1) /\ SizeOfFirst(qs, i - 1) = Len(f[i - 1])
  BY DEF SizeOfFirst
<1> HIDE DEF b, qs, f, q
<1>9. /\ SizeOfFirst(qs, i - 1) \in Nat /\ SizeOfFirst(qs, i) \in Nat
      /\ SizeOfFirst(qs, i) <= Len(WirePropertyBytes(qs))
      /\ SizeOfFirst(qs, i) = SizeOfFirst(qs, i - 1) + (1 + Len(WireData(q)))
  <2>1. i - 1 \in 0..Len(qs) /\ i \in 0..Len(qs) /\ i \in 1..Len(qs)
    BY <1>2
  <2> QED BY <1>4, <1>7, <2>1 DEF q
<1>10. n \in Nat /\ At(b, n, WireProperty(q))
  BY <1>1, <1>5, <1>6, <1>8, <1>9
<1>11. b[n + 1] = Identifier[q.type] /\ At(b, n + 1, WireData(q))
  <2>1. Identifier[q.type] \in Byte
    BY <1>3, IdentifierIsByte DEF IsProperty
  <2>2. <<Identifier[q.type]>> \in Strings /\ Len(<<Identifier[q.type]>>) = 1
    BY <2>1 DEF Strings
  <2>3. At(b, n, <<Identifier[q.type]>>) /\ At(b, n + Len(<<Identifier[q.type]>>), WireData(q))
    <3>1. \A u, v \in Strings : At(b, n, u \o v) => At(b, n, u) /\ At(b, n + Len(u), v)
      BY <1>1, <1>10, AtJoined
    <3>2. At(b, n, <<Identifier[q.type]>> \o WireData(q))
      BY <1>10 DEF WireProperty
    <3> QED BY <1>7, <2>2, <3>1, <3>2, Zenon
  <2>4. b[n + 1] = <<Identifier[q.type]>>[1]
    <3>1. \A j \in 1..1 : b[n + j] = <<Identifier[q.type]>>[j]
      BY <2>2, <2>3 DEF At
    <3> QED BY <3>1
  <2> QED BY <2>2, <2>3, <2>4
<1>12. /\ n + 1 + Len(WireData(q)) = FirstProperty(m) + SizeOfFirst(qs, i)
       /\ n + 1 + Len(WireData(q)) <= FirstPayload(m)
  <2>1. FirstPayload(m) = FirstProperty(m) + Len(WirePropertyBytes(qs))
        /\ Len(WirePropertyBytes(qs)) \in Nat
    <3>1. Len(WirePropertyBytes(qs)) \in Nat
      BY <1>2, PropertiesJoined, LenProperties DEF Strings
    <3> QED BY <3>1 DEF FirstPayload, PropertiesLength, qs
  <2> QED BY <1>1, <1>7, <1>8, <1>9, <2>1
<1> QED BY <1>7, <1>10, <1>11, <1>12 DEF b, qs, q

\* Without a will, so do the payloads: a name, and what else is announced.
LEMMA PayloadsStand ==
    ASSUME NEW m, IsMeaning(m), ~HasWill(m)
    PROVE  /\ At(WireConnect(m), FirstPayload(m), WireString(m.payload["CLIENT_ID"]))
           /\ At(WireConnect(m), BehindName(m), WirePayload(m, "USER_NAME"))
           /\ At(WireConnect(m), BehindUser(m), WirePayload(m, "PASSWORD"))
           /\ Len(WireConnect(m)) = BehindUser(m) + Len(WirePayload(m, "PASSWORD"))
           /\ BehindName(m) \in Nat /\ BehindUser(m) \in Nat
           /\ FirstPayload(m) < BehindName(m)
           /\ m.payload["CLIENT_ID"] \in ShortStrings /\ Len(m.payload["CLIENT_ID"]) \in Nat
           /\ \A t \in {"USER_NAME", "PASSWORD"} :
                 IF t \in DOMAIN m.payload
                 THEN /\ WirePayload(m, t) = WireString(m.payload[t])
                      /\ m.payload[t] \in ShortStrings /\ Len(m.payload[t]) \in Nat
                      /\ Len(WirePayload(m, t)) = 2 + Len(m.payload[t])
                 ELSE Len(WirePayload(m, t)) = 0
<1> DEFINE b == WireConnect(m)
           w == WirePayloads(m)
           name == m.payload["CLIENT_ID"]
           F == FirstPayload(m)
           U == Len(WirePayload(m, "USER_NAME"))
           P == Len(WirePayload(m, "PASSWORD"))
<1>1. /\ b \in Strings /\ F \in Nat /\ At(b, F, FlattenSeq(w)) /\ Len(b) = F + Len(FlattenSeq(w))
  BY PartsStand
<1>2. w \in [1..6 -> Strings]
  BY PayloadsFit
<1>3. /\ w[1] = WireString(name) /\ Len(w[2]) = 0 /\ Len(w[3]) = 0 /\ Len(w[4]) = 0
      /\ w[5] = WirePayload(m, "USER_NAME") /\ w[6] = WirePayload(m, "PASSWORD")
  <2>1. Len(<<>>) = 0
    OBVIOUS
  <2>2. "CLIENT_ID" \in DOMAIN m.payload
    BY MeaningIs
  <2>3. w[1] = WireString(name)
    BY <2>2 DEF WirePayloads, WirePayload, PayloadTypes
  <2>4. w[2] = <<>>
    BY DEF WirePayloads, WirePayload, PayloadTypes
  <2>5. w[3] = <<>>
    BY DEF WirePayloads, WirePayload, PayloadTypes, HasWill
  <2>6. w[4] = <<>>
    BY MeaningIs DEF WirePayloads, WirePayload, PayloadTypes
  <2>7. w[5] = WirePayload(m, "USER_NAME") /\ w[6] = WirePayload(m, "PASSWORD")
    BY DEF WirePayloads, PayloadTypes
  <2> QED BY <2>1, <2>3, <2>4, <2>5, <2>6, <2>7
<1>4. name \in ShortStrings /\ Len(name) \in Nat /\ Len(WireString(name)) = 2 + Len(name)
  BY MeaningIs, WireStringFits
<1>5. ASSUME NEW t \in {"USER_NAME", "PASSWORD"}
      PROVE  IF t \in DOMAIN m.payload
             THEN /\ WirePayload(m, t) = WireString(m.payload[t])
                  /\ m.payload[t] \in ShortStrings /\ Len(m.payload[t]) \in Nat
                  /\ Len(WirePayload(m, t)) = 2 + Len(m.payload[t])
             ELSE Len(WirePayload(m, t)) = 0
  <2>1. Len(<<>>) = 0
    OBVIOUS
  <2>2. WirePayload(m, t) = IF t \in DOMAIN m.payload THEN WireString(m.payload[t]) ELSE <<>>
    BY DEF WirePayload
  <2>3. t \in DOMAIN m.payload => m.payload[t] \in ShortStrings
    BY MeaningIs
  <2> QED BY <2>1, <2>2, <2>3, WireStringFits
<1> HIDE DEF w, b, name, F
<1>6. PICK f : Flattened(f, w, 6)
  <2>1. 6 \in Nat
    OBVIOUS
  <2> QED BY <1>2, <2>1, FlattenJoins
<1>7. /\ f \in [0..6 -> Strings] /\ f[0] = <<>> /\ f[6] = FlattenSeq(w)
      /\ \A n \in 1..6 : Len(f[n]) = Len(f[n - 1]) + Len(w[n])
  BY <1>6 DEF Flattened
<1>8. \A n \in 1..6 : At(b, F + Len(f[n - 1]), w[n])
  <2>1. 6 \in Nat
    OBVIOUS
  <2> QED BY <1>1, <1>2, <1>6, <2>1, AtFlattened
<1>9. Len(f[0]) = 0
  <2>1. Len(<<>>) = 0
    OBVIOUS
  <2> QED BY <1>7, <2>1
<1>10. U \in Nat /\ P \in Nat
  <2>1. w[5] \in Strings /\ w[6] \in Strings
    BY <1>2
  <2>2. Len(w[5]) \in Nat /\ Len(w[6]) \in Nat
    BY <2>1, LenProperties DEF Strings
  <2> QED BY <1>3, <2>2
<1>11. Len(w[5]) = U /\ Len(w[6]) = P /\ Len(w[1]) = 2 + Len(name)
  BY <1>3, <1>4
<1> HIDE DEF U, P
<1>12. /\ Len(f[1]) = Len(f[0]) + Len(w[1]) /\ Len(f[2]) = Len(f[1]) + Len(w[2])
       /\ Len(f[3]) = Len(f[2]) + Len(w[3]) /\ Len(f[4]) = Len(f[3]) + Len(w[4])
       /\ Len(f[5]) = Len(f[4]) + Len(w[5]) /\ Len(f[6]) = Len(f[5]) + Len(w[6])
  BY <1>7
<1>13. /\ Len(f[4]) = 2 + Len(name) /\ Len(f[5]) = 2 + Len(name) + U
       /\ Len(f[6]) = 2 + Len(name) + U + P
  <2>1. Len(f[1]) = 2 + Len(name)
    BY <1>4, <1>9, <1>11, <1>12
  <2>2. Len(f[2]) = 2 + Len(name)
    <3>1. Len(w[2]) = 0 /\ Len(f[2]) = Len(f[1]) + Len(w[2])
      BY <1>3, <1>12
    <3>2. 2 + Len(name) \in Nat
      BY <1>4
    <3> QED BY <2>1, <3>1, <3>2
  <2>3. Len(f[3]) = 2 + Len(name)
    BY <1>3, <1>4, <1>12, <2>2
  <2>4. Len(f[4]) = 2 + Len(name)
    BY <1>3, <1>4, <1>12, <2>3
  <2> QED BY <1>4, <1>10, <1>11, <1>12, <2>4
<1>14. At(b, F + Len(f[0]), w[1]) /\ At(b, F + Len(f[4]), w[5]) /\ At(b, F + Len(f[5]), w[6])
  <2>1. 1 - 1 = 0 /\ 5 - 1 = 4 /\ 6 - 1 = 5 /\ 1 \in 1..6 /\ 5 \in 1..6 /\ 6 \in 1..6
    OBVIOUS
  <2> QED BY <1>8, <2>1
<1>15. BehindName(m) = F + 2 + Len(name) /\ BehindUser(m) = F + 2 + Len(name) + U
  BY DEF BehindName, BehindUser, F, name, U
<1>16. /\ F + Len(f[0]) = F /\ F + Len(f[4]) = BehindName(m) /\ F + Len(f[5]) = BehindUser(m)
       /\ Len(b) = BehindUser(m) + P
       /\ BehindName(m) \in Nat /\ BehindUser(m) \in Nat /\ F < BehindName(m)
  BY <1>1, <1>4, <1>7, <1>9, <1>10, <1>13, <1>15
<1>17. At(b, F, w[1]) /\ At(b, BehindName(m), w[5]) /\ At(b, BehindUser(m), w[6])
  BY <1>14, <1>16
<1> QED BY <1>3, <1>4, <1>5, <1>16, <1>17 DEF b, name, F, P

\* The user properties among the first ones.
UsersUpTo(qs, u) ==
    /\ u \in [0..Len(qs) -> Seq(ShortPairs)] /\ u[0] = <<>> /\ u[Len(qs)] = Users(qs)
    /\ \A n \in 1..Len(qs) : u[n] = IF qs[n].type = "USER_PROPERTY"
                                    THEN Append(u[n - 1], qs[n].data) ELSE u[n - 1]
UsersOfFirst(qs) == CHOOSE u : UsersUpTo(qs, u)

LEMMA UsersCollected ==
    ASSUME NEW qs, Len(qs) \in Nat, \A i \in 1..Len(qs) : IsProperty(qs[i])
    PROVE  UsersUpTo(qs, UsersOfFirst(qs))
<1> DEFINE N == Len(qs)
           V == Seq(ShortPairs)
           step == [x \in (1..N) \X V |-> IF qs[x[1]].type = "USER_PROPERTY"
                                          THEN Append(x[2], qs[x[1]].data) ELSE x[2]]
           upTo[n \in 0..N] == IF n = 0 THEN <<>>
                               ELSE IF qs[n].type = "USER_PROPERTY"
                                    THEN Append(upTo[n - 1], qs[n].data) ELSE upTo[n - 1]
<1>1. N \in Nat
  OBVIOUS
<1>2. \A n \in 1..N : qs[n].type = "USER_PROPERTY" => qs[n].data \in ShortPairs
  BY DEF IsProperty
<1>3. step \in [(1..N) \X V -> V]
  <2>1. ASSUME NEW x \in (1..N) \X V
        PROVE  (IF qs[x[1]].type = "USER_PROPERTY" THEN Append(x[2], qs[x[1]].data) ELSE x[2]) \in V
    <3>1. x[1] \in 1..N /\ x[2] \in V
      OBVIOUS
    <3>2. CASE qs[x[1]].type = "USER_PROPERTY"
      <4>1. qs[x[1]].data \in ShortPairs
        BY <1>2, <3>1, <3>2
      <4>2. Append(x[2], qs[x[1]].data) \in V
        BY <3>1, <4>1, AppendProperties
      <4> QED BY <3>2, <4>2
    <3>3. CASE qs[x[1]].type # "USER_PROPERTY"
      BY <3>1, <3>3
    <3> QED BY <3>2, <3>3
  <2> QED BY <2>1
<1>4. PICK f : f \in Recursive(V, <<>>, N, step)
  <2>1. <<>> \in V
    OBVIOUS
  <2> HIDE DEF N, step, V
  <2> QED BY <1>1, <1>3, <2>1, Recursion
<1>5. /\ f \in [0..N -> V]
      /\ \A n \in 0..N : f[n] = IF n = 0 THEN <<>> ELSE step[<<n, f[n - 1]>>]
  <2> HIDE DEF N, step, V
  <2> QED BY <1>4, Zenon DEF Recursive
<1>6. \A n \in 1..N : step[<<n, f[n - 1]>>] = IF qs[n].type = "USER_PROPERTY"
                                              THEN Append(f[n - 1], qs[n].data) ELSE f[n - 1]
  <2>1. \A n \in 1..N : <<n, f[n - 1]>> \in (1..N) \X V
    BY <1>1, <1>5
  <2> QED BY <2>1
<1> HIDE DEF step, V, N
<1>7. /\ f[0] = <<>>
      /\ \A n \in 1..N : f[n] = IF qs[n].type = "USER_PROPERTY"
                                THEN Append(f[n - 1], qs[n].data) ELSE f[n - 1]
  <2>1. 0 \in 0..N /\ \A n \in 1..N : n \in 0..N /\ n # 0
    BY <1>1
  <2> QED BY <1>5, <1>6, <2>1, Zenon
<1>8. f = [n \in 0..N |-> IF n = 0 THEN <<>>
                          ELSE IF qs[n].type = "USER_PROPERTY"
                               THEN Append(f[n - 1], qs[n].data) ELSE f[n - 1]]
  <2>1. ASSUME NEW n \in 0..N
        PROVE  f[n] = IF n = 0 THEN <<>>
                      ELSE IF qs[n].type = "USER_PROPERTY"
                           THEN Append(f[n - 1], qs[n].data) ELSE f[n - 1]
    <3>1. n # 0 => n \in 1..N
      BY <1>1
    <3> QED BY <1>7, <3>1
  <2> QED BY <1>5, <2>1
<1>9. upTo = [n \in 0..N |-> IF n = 0 THEN <<>>
                             ELSE IF qs[n].type = "USER_PROPERTY"
                                  THEN Append(upTo[n - 1], qs[n].data) ELSE upTo[n - 1]]
  BY <1>8, Zenon DEF upTo
<1> HIDE DEF upTo
<1>10. \A n \in 0..N : upTo[n] = f[n]
  <2> DEFINE S == {n \in 0..N : upTo[n] = f[n]}
  <2>1. 0 \in S
    <3>1. 0 \in 0..N
      BY <1>1
    <3> QED BY <1>7, <1>9, <3>1
  <2>2. ASSUME NEW n \in 1..N, n - 1 \in S PROVE n \in S
    <3>1. n \in 0..N /\ n # 0 /\ upTo[n - 1] = f[n - 1]
      BY <1>1, <2>2
    <3>2. upTo[n] = IF qs[n].type = "USER_PROPERTY"
                    THEN Append(upTo[n - 1], qs[n].data) ELSE upTo[n - 1]
      BY <1>9, <3>1
    <3> QED BY <1>7, <3>1, <3>2
  <2>3. 0..N \subseteq S
    <3> HIDE DEF S
    <3> QED BY <1>1, <2>1, <2>2, UpToInduction
  <2> QED BY <2>3
<1>11. Users(qs) = upTo[N]
  BY Zenon DEF Users, upTo, N
<1>12. f[N] = Users(qs)
  <2>1. N \in 0..N
    BY <1>1
  <2> QED BY <1>10, <1>11, <2>1
<1>13. UsersUpTo(qs, f)
  BY <1>5, <1>7, <1>12, Zenon DEF UsersUpTo, N, V
<1> QED BY <1>13, Zenon DEF UsersOfFirst

\* The k-th property is the first of its type, or may come again.
NoneAgain(qs, k) == \A i, j \in 1..k : i # j /\ qs[i].type = qs[j].type
                                       => qs[i].type = "USER_PROPERTY"

\* The list ends with another one.
EndsWith(s, u) == \E n \in Nat : Len(s) = n + Len(u) /\ \A i \in 1..Len(u) : s[n + i] = u[i]

\* What is configured once the first k properties are read, and what came before
\* the first packet: nothing.
HasRead(c, first, m, k) ==
    /\ NoneAgain(m.properties, k)
    /\ \A i \in 1..k : m.properties[i].type # "USER_PROPERTY" =>
                          /\ m.properties[i].type \in ConfigProperties
                          /\ c.property[m.properties[i].type] = m.properties[i].data
    /\ EndsWith(c.userProperties, UsersOfFirst(m.properties)[k])
    /\ first => c.userProperties = UsersOfFirst(m.properties)[k]

LEMMA SameRead ==
    ASSUME NEW c, NEW d, NEW first, NEW m, NEW k, HasRead(c, first, m, k),
           d.property = c.property, d.userProperties = c.userProperties
    PROVE  HasRead(d, first, m, k)
  BY DEF HasRead

LEMMA EndsWithAppended ==
    ASSUME NEW s \in Seq(Pairs), NEW u \in Seq(ShortPairs), NEW x \in ShortPairs, EndsWith(s, u)
    PROVE  EndsWith(Append(s, x), Append(u, x))
<1>1. PICK n \in Nat : Len(s) = n + Len(u) /\ \A i \in 1..Len(u) : s[n + i] = u[i]
  BY DEF EndsWith
<1>2. Len(u) \in Nat /\ Len(s) \in Nat
  BY LenProperties
<1>3. /\ Len(Append(u, x)) = Len(u) + 1 /\ Append(u, x)[Len(u) + 1] = x
      /\ \A i \in 1..Len(u) : Append(u, x)[i] = u[i]
  BY AppendProperties
<1>4. /\ Len(Append(s, x)) = Len(s) + 1 /\ Append(s, x)[Len(s) + 1] = x
      /\ \A i \in 1..Len(s) : Append(s, x)[i] = s[i]
  <2>1. x \in Pairs
    BY WireStringFits DEF ShortPairs, Pairs
  <2> QED BY <2>1, AppendProperties
<1> DEFINE v == Append(u, x)
           t == Append(s, x)
<1> HIDE DEF v, t
<1>5. Len(t) = n + Len(v)
  BY <1>1, <1>2, <1>3, <1>4 DEF v, t
<1>6. ASSUME NEW i \in 1..Len(v) PROVE t[n + i] = v[i]
  <2>0. Len(v) = Len(u) + 1 /\ Len(t) = Len(s) + 1
    BY <1>3, <1>4 DEF v, t
  <2>1. CASE i <= Len(u)
    <3>1. i \in 1..Len(u) /\ n + i \in 1..Len(s)
      BY <1>1, <1>2, <2>0, <2>1
    <3>2. t[n + i] = s[n + i] /\ v[i] = u[i]
      BY <1>3, <1>4, <3>1 DEF t, v
    <3> QED BY <1>1, <3>1, <3>2
  <2>2. CASE i = Len(u) + 1
    <3>1. n + i = Len(s) + 1
      BY <1>1, <1>2, <2>2
    <3> QED BY <1>3, <1>4, <2>2, <3>1 DEF t, v
  <2> QED BY <1>2, <2>0, <2>1, <2>2
<1> QED BY <1>5, <1>6 DEF EndsWith, t, v

\* One more property is read.
LEMMA ReadsNext ==
    ASSUME NEW c \in ClientConfigs, NEW first, NEW m, IsMeaning(m),
           NEW k \in 0..Len(m.properties), k # Len(m.properties), HasRead(c, first, m, k),
           NEW q, q = m.properties[k + 1],
           q.type \notin {m.properties[i].type : i \in 1..k} \ {"USER_PROPERTY"},
           ConfigurePropriety(c, q.type, q.data).rcode = "SUCCESS"
    PROVE  HasRead(ConfigurePropriety(c, q.type, q.data).cfg, first, m, k + 1)
<1> DEFINE qs == m.properties
           u == UsersOfFirst(qs)
           d == ConfigurePropriety(c, q.type, q.data).cfg
<1>1. Len(qs) \in Nat /\ \A i \in 1..Len(qs) : IsProperty(qs[i])
  BY MeaningIs
<1>2. /\ u \in [0..Len(qs) -> Seq(ShortPairs)]
      /\ \A n \in 1..Len(qs) : u[n] = IF qs[n].type = "USER_PROPERTY"
                                      THEN Append(u[n - 1], qs[n].data) ELSE u[n - 1]
  BY <1>1, UsersCollected, Zenon DEF UsersUpTo
<1>3. k + 1 \in 1..Len(qs) /\ (k + 1) - 1 = k /\ k \in Nat
  BY <1>1
<1>4. /\ u[k] \in Seq(ShortPairs)
      /\ u[k + 1] = IF q.type = "USER_PROPERTY" THEN Append(u[k], q.data) ELSE u[k]
  BY <1>2, <1>3
<1>5. IsProperty(q)
  BY <1>1, <1>3
<1>6. /\ NoneAgain(qs, k)
      /\ \A i \in 1..k : qs[i].type # "USER_PROPERTY" =>
            qs[i].type \in ConfigProperties /\ c.property[qs[i].type] = qs[i].data
      /\ EndsWith(c.userProperties, u[k]) /\ (first => c.userProperties = u[k])
  BY DEF HasRead
<1>7. NoneAgain(qs, k + 1)
  <2>1. ASSUME NEW i \in 1..(k + 1), NEW j \in 1..(k + 1), i # j, qs[i].type = qs[j].type
        PROVE  qs[i].type = "USER_PROPERTY"
    <3>1. CASE i \in 1..k /\ j \in 1..k
      BY <1>6, <2>1, <3>1 DEF NoneAgain
    <3>2. CASE i = k + 1
      <4>1. j \in 1..k
        BY <1>3, <2>1, <3>2
      <4> QED BY <2>1, <3>2, <4>1
    <3>3. CASE j = k + 1
      <4>1. i \in 1..k
        BY <1>3, <2>1, <3>3
      <4> QED BY <2>1, <3>3, <4>1
    <3> QED BY <1>3, <3>1, <3>2, <3>3
  <2> HIDE DEF qs
  <2> QED BY <2>1 DEF NoneAgain
<1>8. c.userProperties \in Seq(Pairs) /\ c.property \in [ConfigProperties -> Strings]
  BY DEF ClientConfigs
<1>9. CASE q.type = "USER_PROPERTY"
  <2>1. d = [c EXCEPT !.userProperties = Append(@, q.data)]
    BY <1>9 DEF ConfigurePropriety, ConfigProperties
  <2>2. d.userProperties = Append(c.userProperties, q.data) /\ d.property = c.property
    BY <2>1 DEF ClientConfigs
  <2>3. q.data \in ShortPairs
    BY <1>5, <1>9 DEF IsProperty
  <2>4. EndsWith(d.userProperties, u[k + 1])
    <3>1. EndsWith(Append(c.userProperties, q.data), Append(u[k], q.data))
      BY <1>4, <1>6, <1>8, <2>3, EndsWithAppended
    <3> QED BY <1>4, <1>9, <2>2, <3>1, Zenon
  <2>5. \A i \in 1..(k + 1) : qs[i].type # "USER_PROPERTY" =>
           qs[i].type \in ConfigProperties /\ d.property[qs[i].type] = qs[i].data
    <3>1. \A i \in 1..(k + 1) : i \in 1..k \/ i = k + 1
      BY <1>3
    <3> HIDE DEF d
    <3> QED BY <1>6, <1>9, <2>2, <3>1
  <2>6. first => d.userProperties = u[k + 1]
    BY <1>4, <1>6, <1>9, <2>2
  <2> HIDE DEF d, u
  <2> QED BY <1>7, <2>4, <2>5, <2>6, Zenon DEF HasRead, d, u
<1>10. CASE q.type # "USER_PROPERTY"
  <2>1. d = [c EXCEPT !.property[q.type] = q.data] /\ q.type \in ConfigProperties
    BY <1>10, Zenon DEF ConfigurePropriety
  <2>2. d.userProperties = c.userProperties /\ d.property = [c.property EXCEPT ![q.type] = q.data]
    BY <2>1 DEF ClientConfigs
  <2>3. EndsWith(d.userProperties, u[k + 1])
    BY <1>4, <1>6, <1>10, <2>2
  <2>4. ASSUME NEW i \in 1..(k + 1), qs[i].type # "USER_PROPERTY"
        PROVE  qs[i].type \in ConfigProperties /\ d.property[qs[i].type] = qs[i].data
    <3>1. CASE i = k + 1
      BY <1>8, <2>1, <2>2, <3>1
    <3>2. CASE i \in 1..k
      <4>1. qs[i].type # q.type
        BY <2>4, <3>2
      <4>2. qs[i].type \in ConfigProperties /\ c.property[qs[i].type] = qs[i].data
        BY <1>6, <2>4, <3>2
      <4> QED BY <1>8, <2>2, <4>1, <4>2
    <3> QED BY <1>3, <3>1, <3>2
  <2>5. first => d.userProperties = u[k + 1]
    BY <1>4, <1>6, <1>10, <2>2
  <2> HIDE DEF d, u
  <2> QED BY <1>7, <2>3, <2>4, <2>5, Zenon DEF HasRead, d, u
<1> QED BY <1>9, <1>10

LEMMA AtRest ==
    ASSUME NEW s \in Strings, NEW n \in Nat, NEW w \in Strings, At(s, n, w)
    PROVE  SubSeq(s, n + 1, Len(s)) \in Strings /\ At(SubSeq(s, n + 1, Len(s)), 0, w)
<1>1. Len(s) \in Nat /\ Len(w) \in Nat /\ Len(s) <= Len(s) /\ 0 \in Nat
  BY LenProperties DEF Strings
<1>2. n + 0 = n /\ n + 0 + Len(w) <= Len(s)
  BY <1>1 DEF At
<1>3. At(s, n + 0, w)
  BY <1>2
<1> QED BY <1>1, <1>2, <1>3, AtSlice

LEMMA WireVarIntFits ==
    ASSUME NEW n \in Nat, n < 16384
    PROVE  WireVarInt(n) \in Strings /\ Len(WireVarInt(n)) \in {1, 2}
<1>1. CASE n < 128
  <2>1. WireVarInt(n) = <<n>> /\ n \in Byte
    BY <1>1 DEF WireVarInt, Byte
  <2> QED BY <2>1 DEF Strings
<1>2. CASE n >= 128
  <2>1. ASSUME NEW x \in Nat, x < 16384
        PROVE  128 + (x % 128) \in Byte /\ x \div 128 \in Byte
    BY <2>1 DEF Byte
  <2>2. 128 + (n % 128) \in Byte /\ n \div 128 \in Byte
    BY <2>1
  <2>3. WireVarInt(n) = <<128 + (n % 128), n \div 128>>
    BY <1>2 DEF WireVarInt
  <2>4. \A x, y \in Byte : <<x, y>> \in Strings /\ Len(<<x, y>>) = 2
    BY DEF Strings
  <2> QED BY <2>2, <2>3, <2>4
<1> QED BY <1>1, <1>2

\* The packet being decoded is what this client means.
IsMeant(m) == type = "CONNECT" /\ body = WireConnect(m)

\* decode_properties stands behind a number of properties, and has configured those;
\* behind its loop, all of them.
PropertiesMeant(m) ==
    IsMeant(m) =>
        /\ phase = "properties" /\ ~will =>
              \E k \in 0..Len(m.properties) :
                 /\ pos = FirstProperty(m) + SizeOfFirst(m.properties, k)
                 /\ stop = FirstPayload(m)
                 /\ seen = {m.properties[i].type : i \in 1..k} \ {"USER_PROPERTY"}
                 /\ HasRead(cfg, received = 1, m, k)
        /\ phase \in {"payload", "connack"} \/ (phase = "properties" /\ will) =>
              HasRead(cfg, received = 1, m, Len(m.properties))

\* Nothing is known of a client before its first packet.
NothingYet ==
    /\ received = 0 => phase = "idle"
    /\ received = 0 \/ (received = 1 /\ phase = "header") =>
          cfg.userProperties = <<>> /\ wanted = {"CLIENT_ID"}

\* Where decode_connect_packet_body enters decode_properties.
LEMMA MeantProperties ==
    ASSUME NEW m, IsMeaning(m), body = WireConnect(m)
    PROVE  /\ DecodeVariableInt(From(10)).ok
           /\ DecodeVariableInt(From(10)).value = PropertiesLength(m)
           /\ PropertiesStart = FirstProperty(m)
           /\ PropertiesStart + PropertiesLength(m) = FirstPayload(m)
           /\ FirstPayload(m) <= Len(body)
<1> DEFINE n == PropertiesLength(m)
           w == WireVarInt(n)
<1>1. body \in Strings /\ At(body, 10, w) /\ FirstPayload(m) \in Nat
      /\ Len(body) = FirstPayload(m) + Len(FlattenSeq(WirePayloads(m)))
      /\ FlattenSeq(WirePayloads(m)) \in Strings
  BY PartsStand
<1>2. n \in Nat /\ n < 16384
  <2>1. WirePropertyBytes(m.properties) \in Strings
    BY MeaningIs, PropertiesJoined
  <2> QED BY <2>1, MeaningIs, LenProperties DEF PropertiesLength, Strings
<1>3. w \in Strings /\ Len(w) \in {1, 2}
  BY <1>2, WireVarIntFits
<1>4. From(10) \in Strings /\ At(From(10), 0, w)
  <2>1. 10 + 1 = 11 /\ 10 \in Nat
    OBVIOUS
  <2> HIDE DEF w
  <2> QED BY <1>1, <1>3, <2>1, AtRest DEF From
<1>5. /\ DecodeVariableInt(From(10)).ok /\ DecodeVariableInt(From(10)).value = n
      /\ DecodeVariableInt(From(10)).offset + 1 = Len(w)
  BY <1>2, <1>4, ReadsVarInt
<1>6. DecodeVariableInt(From(10)).offset \in Nat
  BY <1>4, VariableIntFits
<1>7. PropertiesStart = 10 + Len(w)
  BY <1>5, <1>6 DEF PropertiesStart
<1>8. Len(FlattenSeq(WirePayloads(m))) \in Nat
  BY <1>1, LenProperties DEF Strings
<1>9. FirstPayload(m) <= Len(body)
  BY <1>1, <1>8
<1> QED BY <1>5, <1>7, <1>9 DEF FirstProperty, FirstPayload

LEMMA DecodeConnectMeans ==
    ASSUME DecoderInv, NothingYet, DecodeConnect, NEW m, IsMeaning(m)
    PROVE  PropertiesMeant(m)'
<1> SUFFICES ASSUME IsMeant(m)' PROVE PropertiesMeant(m)'
  BY DEF PropertiesMeant
<1> DEFINE qs == m.properties
           u == UsersOfFirst(qs)
<1>1. body = WireConnect(m) /\ phase = "header" /\ cfg \in ClientConfigs
  BY DEF IsMeant, DecodeConnect, packet, DecoderInv, DecoderTypeOK
<1>2. /\ phase' = "properties" /\ seen' = {} /\ will' = FALSE /\ received' = received
      /\ pos' = FirstProperty(m) /\ stop' = FirstPayload(m)
      /\ cfg' = WithFlags(body[8])
  BY <1>1, MeantProperties DEF DecodeConnect, EnterProperties
<1>3. cfg'.userProperties = cfg.userProperties
  BY <1>1, <1>2 DEF WithFlags, ClientConfigs
<1>4. Len(qs) \in Nat /\ SizeOfFirst(qs, 0) = 0 /\ u[0] = <<>> /\ FirstProperty(m) \in Nat
  <2>1. Len(qs) \in Nat /\ \A i \in 1..Len(qs) : IsProperty(qs[i])
    BY MeaningIs
  <2>2. UsersUpTo(qs, u) /\ SizeOfFirst(qs, 0) = 0
    BY <2>1, UsersCollected, PropertiesJoined
  <2> QED BY <2>1, <2>2, PartsStand, Zenon DEF UsersUpTo
<1>5. HasRead(cfg', received' = 1, m, 0)
  <2>1. 1..0 = {} /\ Len(<<>>) = 0
    OBVIOUS
  <2>2. cfg.userProperties \in Seq(Pairs)
    BY <1>1 DEF ClientConfigs
  <2>3. EndsWith(cfg.userProperties, <<>>)
    <3>1. Len(cfg.userProperties) \in Nat
      BY <2>2, LenProperties
    <3>2. Len(cfg.userProperties) = Len(cfg.userProperties) + Len(<<>>)
      BY <2>1, <3>1
    <3> QED BY <2>1, <3>1, <3>2 DEF EndsWith
  <2>4. received' = 1 => cfg'.userProperties = <<>>
    BY <1>1, <1>2, <1>3 DEF NothingYet
  <2>5. NoneAgain(qs, 0)
    BY <2>1 DEF NoneAgain
  <2> HIDE DEF u
  <2> QED BY <1>3, <1>4, <2>1, <2>3, <2>4, <2>5 DEF HasRead, u
<1>6. /\ pos' = FirstProperty(m) + SizeOfFirst(qs, 0)
      /\ seen' = {qs[i].type : i \in 1..0} \ {"USER_PROPERTY"}
  BY <1>2, <1>4
<1>7. 0 \in 0..Len(qs)
  BY <1>4
<1> QED BY <1>2, <1>5, <1>6, <1>7, Zenon DEF PropertiesMeant

LEMMA WillLeavesProperties ==
    ASSUME NEW c \in ClientConfigs, NEW p, NEW data
    PROVE  /\ ConfigureWillPropriety(c, p, data).cfg.property = c.property
           /\ ConfigureWillPropriety(c, p, data).cfg.userProperties = c.userProperties
           /\ ConfigureWillPropriety(c, p, data).cfg.payload = c.payload
           /\ ConfigureWillPropriety(c, p, data).cfg.willFlag = c.willFlag
           /\ ConfigureWillPropriety(c, p, data).cfg.userNameFlag = c.userNameFlag
  BY DEF ConfigureWillPropriety, ClientConfigs

\* The k-th property is the one that is read.
LEMMA MeantProperty ==
    ASSUME NEW m, IsMeaning(m), body = WireConnect(m), stop = FirstPayload(m), pos # stop,
           NEW k \in 0..Len(m.properties),
           pos = FirstProperty(m) + SizeOfFirst(m.properties, k)
    PROVE  /\ k + 1 \in 1..Len(m.properties) /\ (k + 1) - 1 = k
           /\ IsProperty(m.properties[k + 1])
           /\ PropertyOf(body[pos + 1]) = m.properties[k + 1].type
           /\ Between(pos + 1, stop) \in Strings
           /\ At(Between(pos + 1, stop), 0, WireData(m.properties[k + 1]))
           /\ pos + 1 + Len(WireData(m.properties[k + 1]))
                 = FirstProperty(m) + SizeOfFirst(m.properties, k + 1)
<1> DEFINE qs == m.properties
           q == qs[k + 1]
<1>1. /\ Len(qs) \in Nat /\ \A i \in 1..Len(qs) : IsProperty(qs[i])
  BY MeaningIs
<1>2. k # Len(qs)
  <2>1. SizeOfFirst(qs, Len(qs)) = PropertiesLength(m)
    BY <1>1, PropertiesJoined DEF PropertiesLength
  <2> QED BY <2>1 DEF FirstPayload
<1>3. k + 1 \in 1..Len(qs) /\ (k + 1) - 1 = k
  BY <1>1, <1>2
<1>4. IsProperty(q) /\ q.type \in PropertyTypes
  BY <1>1, <1>3 DEF IsProperty
<1>5. /\ pos \in Nat /\ body[pos + 1] = Identifier[q.type]
      /\ At(body, pos + 1, WireData(q))
      /\ pos + 1 + Len(WireData(q)) = FirstProperty(m) + SizeOfFirst(qs, k + 1)
      /\ pos + 1 + Len(WireData(q)) <= FirstPayload(m)
      /\ Len(WireData(q)) \in Nat
  <2>1. pos = FirstProperty(m) + SizeOfFirst(qs, (k + 1) - 1)
    BY <1>3
  <2> QED BY <1>3, <2>1, PropertyStands
<1>6. PropertyOf(body[pos + 1]) = q.type
  BY <1>4, <1>5, PropertyNamed
<1>7. WireData(q) \in Strings
  BY <1>4, WireDataFits
<1>8. stop \in Nat /\ stop <= Len(body) /\ body \in Strings
  BY PartsStand, MeantProperties
<1> HIDE DEF q
<1>9. SubSeq(body, (pos + 1) + 1, stop) \in Strings /\ At(SubSeq(body, (pos + 1) + 1, stop), 0, WireData(q))
  <2>1. (pos + 1) + 0 = pos + 1 /\ pos + 1 \in Nat /\ 0 \in Nat
    BY <1>5
  <2>2. At(body, (pos + 1) + 0, WireData(q)) /\ (pos + 1) + 0 + Len(WireData(q)) <= stop
    BY <1>5, <2>1
  <2> QED BY <1>7, <1>8, <2>1, <2>2, AtSlice
<1> QED BY <1>3, <1>4, <1>5, <1>6, <1>9 DEF Between, q

LEMMA ReadPropertyMeans ==
    ASSUME DecoderInv, NEW m, IsMeaning(m), PropertiesMeant(m), ReadProperty
    PROVE  PropertiesMeant(m)'
<1> DEFINE qs == m.properties
           p == PropertyOf(body[pos + 1])
           s == Between(pos + 1, stop)
<1> SUFFICES ASSUME IsMeant(m)' PROVE PropertiesMeant(m)'
  BY DEF PropertiesMeant
<1>1. /\ phase = "properties" /\ pos # stop /\ PropertyCode(p, s) = "SUCCESS"
      /\ Configured(p, s).rcode = "SUCCESS" /\ cfg' = Configured(p, s).cfg
      /\ pos' = pos + 1 + SizeOf(p, s)
      /\ seen' = IF IsPropertyUnique(p) THEN seen \union {p} ELSE seen
      /\ phase' = phase /\ will' = will /\ stop' = stop /\ received' = received
      /\ body' = body /\ type' = type
  BY DEF ReadProperty, packet
<1>2. IsMeant(m) /\ body = WireConnect(m) /\ type = "CONNECT" /\ cfg \in ClientConfigs
  BY <1>1 DEF IsMeant, DecoderInv, DecoderTypeOK
<1>3. CASE will
  <2>1. HasRead(cfg, received = 1, m, Len(qs))
    BY <1>1, <1>2, <1>3 DEF PropertiesMeant
  <2>2. cfg'.property = cfg.property /\ cfg'.userProperties = cfg.userProperties
    BY <1>1, <1>2, <1>3, WillLeavesProperties DEF Configured
  <2>3. HasRead(cfg', received' = 1, m, Len(qs))
    BY <1>1, <2>1, <2>2, SameRead
  <2> QED BY <1>1, <1>3, <2>3 DEF PropertiesMeant
<1>4. CASE ~will
  <2>1. PICK k \in 0..Len(qs) :
           /\ pos = FirstProperty(m) + SizeOfFirst(qs, k) /\ stop = FirstPayload(m)
           /\ seen = {qs[i].type : i \in 1..k} \ {"USER_PROPERTY"}
           /\ HasRead(cfg, received = 1, m, k)
    BY <1>1, <1>2, <1>4, Zenon DEF PropertiesMeant
  <2> DEFINE q == qs[k + 1]
  <2>2. /\ k + 1 \in 1..Len(qs) /\ (k + 1) - 1 = k /\ IsProperty(q) /\ p = q.type
        /\ s \in Strings /\ At(s, 0, WireData(q))
        /\ pos + 1 + Len(WireData(q)) = FirstProperty(m) + SizeOfFirst(qs, k + 1)
    BY <1>1, <1>2, <2>1, MeantProperty
  <2> HIDE DEF p, s, q, qs
  <2>3. p \in InConnect /\ p \notin seen
    <3>1. ValidatePacketPropertyType(p, type) /\ p \notin seen
      BY <1>1 DEF PropertyCode
    <3> QED BY <1>2, <3>1 DEF ValidatePacketPropertyType
  <2>4. DataOf(p, s) = q.data /\ SizeOf(p, s) = Len(WireData(q))
    BY <2>2, <2>3, ReadsProperty
  <2>5. Configured(p, s) = ConfigurePropriety(cfg, q.type, q.data)
    BY <1>4, <2>2, <2>4 DEF Configured
  <2>6. HasRead(cfg', received' = 1, m, k + 1)
    <3>1. q = m.properties[k + 1] /\ k # Len(m.properties) /\ k \in 0..Len(m.properties)
      BY <2>1, <2>2 DEF q, qs
    <3>2. q.type \notin {m.properties[i].type : i \in 1..k} \ {"USER_PROPERTY"}
      BY <2>1, <2>2, <2>3, Zenon DEF qs
    <3>3. HasRead(cfg, received = 1, m, k)
      BY <2>1
    <3>4. ConfigurePropriety(cfg, q.type, q.data).rcode = "SUCCESS"
      BY <1>1, <2>5
    <3>5. HasRead(ConfigurePropriety(cfg, q.type, q.data).cfg, received = 1, m, k + 1)
      BY <1>2, <3>1, <3>2, <3>3, <3>4, ReadsNext
    <3> QED BY <1>1, <2>5, <3>5
  <2>7. seen' = {qs[i].type : i \in 1..(k + 1)} \ {"USER_PROPERTY"}
    <3>1. {qs[i].type : i \in 1..(k + 1)} = {qs[i].type : i \in 1..k} \union {p}
      <4>1. \A i : i \in 1..(k + 1) <=> i \in 1..k \/ i = k + 1
        BY <2>1
      <4> QED BY <2>2, <4>1 DEF q
    <3> QED BY <1>1, <2>1, <3>1 DEF IsPropertyUnique
  <2>8. pos' = FirstProperty(m) + SizeOfFirst(qs, k + 1) /\ stop' = FirstPayload(m)
    BY <1>1, <2>1, <2>2, <2>4
  <2>9. k + 1 \in 0..Len(qs)
    BY <2>1, <2>2
  <2> QED BY <1>1, <1>4, <2>6, <2>7, <2>8, <2>9, Zenon DEF PropertiesMeant, qs
<1> QED BY <1>3, <1>4

\* Where the cursor stands at the end, all of the properties are read.
LEMMA AllRead ==
    ASSUME NEW m, IsMeaning(m), NEW k \in 0..Len(m.properties),
           FirstProperty(m) + SizeOfFirst(m.properties, k) = FirstPayload(m)
    PROVE  k = Len(m.properties)
<1> DEFINE qs == m.properties
<1>1. Len(qs) \in Nat /\ \A i \in 1..Len(qs) : IsProperty(qs[i])
  BY MeaningIs
<1>2. /\ \A n \in 0..Len(qs) : /\ SizeOfFirst(qs, n) \in Nat
                               /\ SizeOfFirst(qs, n) <= Len(WirePropertyBytes(qs))
      /\ \A n \in 1..Len(qs) :
            SizeOfFirst(qs, n) = SizeOfFirst(qs, n - 1) + Len(WireProperty(qs[n]))
  BY <1>1, PropertiesJoined
<1>3. FirstProperty(m) \in Nat /\ FirstPayload(m) = FirstProperty(m) + Len(WirePropertyBytes(qs))
  BY PartsStand DEF FirstPayload, PropertiesLength
<1> SUFFICES ASSUME k # Len(qs) PROVE FALSE
  OBVIOUS
<1>4. k + 1 \in 1..Len(qs) /\ (k + 1) - 1 = k /\ k + 1 \in 0..Len(qs)
  BY <1>1
<1>5. /\ Len(WireProperty(qs[k + 1])) = 1 + Len(WireData(qs[k + 1]))
      /\ Len(WireData(qs[k + 1])) \in Nat
  BY <1>1, <1>4, WireDataFits
<1>6. /\ SizeOfFirst(qs, k + 1) = SizeOfFirst(qs, k) + (1 + Len(WireData(qs[k + 1])))
      /\ SizeOfFirst(qs, k + 1) <= Len(WirePropertyBytes(qs))
      /\ SizeOfFirst(qs, k) \in Nat
  BY <1>2, <1>4, <1>5
<1>7. SizeOfFirst(qs, k) = Len(WirePropertyBytes(qs))
  <2>1. Len(WirePropertyBytes(qs)) \in Nat
    BY <1>1, PropertiesJoined, LenProperties DEF Strings
  <2> QED BY <1>3, <1>6, <2>1
<1> QED BY <1>5, <1>6, <1>7

LEMMA EndPropertiesMeans ==
    ASSUME DecoderInv, NEW m, IsMeaning(m), PropertiesMeant(m), EndProperties
    PROVE  PropertiesMeant(m)'
<1> SUFFICES ASSUME IsMeant(m)' PROVE PropertiesMeant(m)'
  BY DEF PropertiesMeant
<1>1. /\ phase = "properties" /\ pos = stop /\ cfg' = cfg /\ received' = received
      /\ body' = body /\ type' = type
  BY DEF EndProperties, packet
<1>2. IsMeant(m) /\ phase' = "payload"
  BY <1>1 DEF IsMeant, EndProperties
<1>3. HasRead(cfg, received = 1, m, Len(m.properties))
  <2>1. CASE will
    BY <1>1, <1>2, <2>1 DEF PropertiesMeant
  <2>2. CASE ~will
    <3>1. PICK k \in 0..Len(m.properties) :
             /\ pos = FirstProperty(m) + SizeOfFirst(m.properties, k) /\ stop = FirstPayload(m)
             /\ HasRead(cfg, received = 1, m, k)
      BY <1>1, <1>2, <2>2, Zenon DEF PropertiesMeant
    <3>2. k = Len(m.properties)
      BY <1>1, <3>1, AllRead
    <3> QED BY <3>1, <3>2
  <2> QED BY <2>1, <2>2
<1> QED BY <1>1, <1>2, <1>3 DEF PropertiesMeant

\* decode_payload configures payloads, and no properties.
LEMMA PayloadLeavesProperties ==
    ASSUME NEW c \in ClientConfigs, NEW t, NEW data
    PROVE  /\ ConfigurePayload(c, t, data).cfg.property = c.property
           /\ ConfigurePayload(c, t, data).cfg.userProperties = c.userProperties
           /\ ConfigurePayload(c, t, data).cfg.willFlag = c.willFlag
           /\ ConfigurePayload(c, t, data).cfg.userNameFlag = c.userNameFlag
  BY DEF ConfigurePayload, ClientConfigs

LEMMA PayloadsMean ==
    ASSUME NEW m, PropertiesMeant(m), phase = "payload", UNCHANGED <<type, body, received>>,
           phase' \in {"payload", "connack"} \/ (phase' = "properties" /\ will'),
           cfg'.property = cfg.property, cfg'.userProperties = cfg.userProperties
    PROVE  PropertiesMeant(m)'
<1> SUFFICES ASSUME IsMeant(m)' PROVE PropertiesMeant(m)'
  BY DEF PropertiesMeant
<1>1. IsMeant(m)
  BY DEF IsMeant
<1>2. HasRead(cfg, received = 1, m, Len(m.properties))
  BY <1>1 DEF PropertiesMeant
<1>3. HasRead(cfg', received' = 1, m, Len(m.properties))
  BY <1>2, SameRead
<1> QED BY <1>3 DEF PropertiesMeant

LEMMA PropertiesStep ==
    ASSUME DecoderInv, NothingYet, [Next]_vars, NEW m, IsMeaning(m), PropertiesMeant(m)
    PROVE  PropertiesMeant(m)'
<1>0. cfg \in ClientConfigs /\ (phase = "payload" => type = "CONNECT")
  BY DEF DecoderInv, DecoderTypeOK, Callers
<1>1. ASSUME phase' \notin {"properties", "payload", "connack"} PROVE PropertiesMeant(m)'
  BY <1>1 DEF PropertiesMeant
<1>2. ASSUME type' # "CONNECT" PROVE PropertiesMeant(m)'
  BY <1>2 DEF PropertiesMeant, IsMeant
<1>3. CASE Receive
  BY <1>1, <1>3 DEF Receive
<1>4. CASE DecodeConnect
  BY <1>4, DecodeConnectMeans
<1>5. CASE RefuseConnect
  BY <1>1, <1>5 DEF RefuseConnect, Refuse
<1>6. CASE ReadProperty
  BY <1>6, ReadPropertyMeans
<1>7. CASE RefuseProperty
  <2>1. phase' \in {"message", "closed"}
    BY <1>7 DEF RefuseProperty
  <2> QED BY <1>1, <2>1
<1>8. CASE EndProperties
  BY <1>8, EndPropertiesMeans
<1>9. CASE EndPayload
  <2>1. phase = "payload" /\ phase' = "connack" /\ cfg' = cfg /\ UNCHANGED <<type, body, received>>
    BY <1>9 DEF EndPayload, packet
  <2> QED BY <2>1, PayloadsMean
<1>10. CASE SkipPayload
  <2>1. phase = "payload" /\ phase' = "payload" /\ cfg' = cfg /\ UNCHANGED <<type, body, received>>
    BY <1>10 DEF SkipPayload, AtPayload, packet
  <2> QED BY <2>1, PayloadsMean
<1>11. CASE EnterWillProperties
  <2>1. /\ phase = "payload" /\ phase' = "properties" /\ will' = TRUE /\ cfg' = cfg
        /\ UNCHANGED <<type, body, received>>
    BY <1>11 DEF EnterWillProperties, EnterProperties, AtPayload, packet
  <2> QED BY <2>1, PayloadsMean
<1>12. CASE ReadPayload
  <2>1. /\ phase = "payload" /\ phase' = "payload" /\ UNCHANGED <<type, body, received>>
        /\ cfg' = ConfigurePayload(cfg, Payload, StringOf(From(pos))).cfg
    BY <1>12 DEF ReadPayload, AtPayload, packet
  <2>2. cfg'.property = cfg.property /\ cfg'.userProperties = cfg.userProperties
    BY <1>0, <2>1, PayloadLeavesProperties
  <2> QED BY <2>1, <2>2, PayloadsMean
<1>13. CASE RefusePayload
  BY <1>1, <1>13 DEF RefusePayload, Refuse
<1>14. CASE DecodePublish
  <2>1. type' = "PUBLISH"
    BY <1>14 DEF DecodePublish, ReadLength, Refuse, packet
  <2> QED BY <1>2, <2>1
<1>15. CASE DecodePublishOverrun
  BY <1>1, <1>15 DEF DecodePublishOverrun, Refuse
<1>16. CASE ReadMessage
  BY <1>1, <1>16 DEF ReadMessage, Refuse
<1>17. CASE DecodeDisconnect
  BY <1>1, <1>17 DEF DecodeDisconnect, Refuse
<1>18. CASE CreateConnack
  BY <1>1, <1>18 DEF CreateConnack, Refuse
<1>19. CASE FillProperty
  <2>1. phase' \in {"fill", "closed"}
    BY <1>19 DEF FillProperty, Refuse
  <2> QED BY <1>1, <2>1
<1>20. CASE SendConnack
  BY <1>1, <1>20 DEF SendConnack
<1>21. CASE UNCHANGED vars
  BY <1>21 DEF vars, packet, cursor, PropertiesMeant, IsMeant
<1>22. CASE DecodeCrashes
  BY <1>1, <1>22 DEF DecodeCrashes
<1> QED BY <1>3, <1>4, <1>5, <1>6, <1>7, <1>8, <1>9, <1>10, <1>11, <1>12, <1>13, <1>14, <1>15,
           <1>16, <1>17, <1>18, <1>19, <1>20, <1>21, <1>22 DEF Next, Decode, Answer

LEMMA NothingYetStep == NothingYet /\ DecoderInv /\ [Next]_vars => NothingYet'
<1> SUFFICES ASSUME NothingYet, DecoderInv, [Next]_vars PROVE NothingYet'
  OBVIOUS
<1>0. received \in Nat
  BY DEF DecoderInv, DecoderTypeOK
<1>1. CASE Receive
  <2>1. /\ phase = "idle" /\ phase' = "header" /\ received' = received + 1
        /\ cfg' = cfg /\ wanted' = wanted
    BY <1>1 DEF Receive
  <2>2. received' = 1 => received = 0
    BY <1>0, <2>1
  <2>3. received' # 0
    BY <1>0, <2>1
  <2> QED BY <2>1, <2>2, <2>3 DEF NothingYet
<1>2. CASE Decode \/ Answer
  <2>1. phase # "idle" /\ phase' # "header" /\ received' = received
    BY <1>2 DEF Decode, Answer, DecodeConnect, RefuseConnect, ReadProperty, RefuseProperty,
         EndProperties, EndPayload, SkipPayload, EnterWillProperties, ReadPayload, RefusePayload,
         DecodePublish, ReadLength, DecodePublishOverrun, ReadMessage, DecodeDisconnect,
         DecodeCrashes, CreateConnack, FillProperty, SendConnack, AtPayload, EnterProperties, Refuse
  <2>2. received # 0
    BY <2>1 DEF NothingYet
  <2> QED BY <2>1, <2>2 DEF NothingYet
<1>3. CASE UNCHANGED vars
  BY <1>3 DEF vars, NothingYet
<1> QED BY <1>1, <1>2, <1>3 DEF Next

\* What is known of each client's CONNECT while it is decoded.
Meant == NothingYet /\ \A m \in Meanings : PropertiesMeant(m)

LEMMA MeantInit == Init => Meant
  BY DEF Init, Meant, NothingYet, PropertiesMeant, DefaultConfig

LEMMA MeantStep == DecoderInv /\ Meant /\ [Next]_vars => Meant'
<1> SUFFICES ASSUME DecoderInv, Meant, [Next]_vars PROVE Meant'
  OBVIOUS
<1>1. NothingYet'
  BY NothingYetStep DEF Meant
<1>2. ASSUME NEW m \in Meanings PROVE PropertiesMeant(m)'
  <2>1. IsMeaning(m)
    BY MeaningsAssumption
  <2>2. PropertiesMeant(m) /\ NothingYet
    BY DEF Meant
  <2> QED BY <2>1, <2>2, PropertiesStep
<1> QED BY <1>1, <1>2 DEF Meant

LEMMA MeantHolds == Spec => []Meant
<1>1. Init => Meant
  BY MeantInit
<1>2. DecoderInv /\ Meant /\ [Next]_vars => Meant'
  BY MeantStep
<1> QED BY <1>1, <1>2, DecoderInvHolds, PTL DEF Spec

LEMMA MeantRefuses == Meant => DuplicatesRefused
<1> SUFFICES ASSUME Meant, NEW m \in Meanings, Accepted, body = WireConnect(m)
             PROVE  NoUniqueTwice(m.properties)
  BY DEF DuplicatesRefused
<1>1. IsMeaning(m)
  BY MeaningsAssumption
<1>2. HasRead(cfg, received = 1, m, Len(m.properties))
  BY DEF Meant, PropertiesMeant, IsMeant, Accepted
<1>3. DOMAIN m.properties = 1..Len(m.properties)
  BY <1>1, MeaningIs
<1> QED BY <1>2, <1>3 DEF HasRead, NoneAgain, NoUniqueTwice, IsPropertyUnique

\* propertySet does what it is for: whatever a client means, however many packets
\* came before, a CONNECT in which something comes twice that may come once is
\* never accepted (decode_properties).
THEOREM DuplicatesAreRefused == Spec => []DuplicatesRefused
<1>1. Meant => DuplicatesRefused
  BY MeantRefuses
<1> QED BY <1>1, MeantHolds, PTL

\* The bits that the decoder looks at say what the client has announced.
LEMMA FlagBits ==
    ASSUME NEW m, ~HasWill(m)
    PROVE  LET f == WireFlags(m)
           IN /\ ~Bit(f, 2)
              /\ Bit(f, 6) <=> "PASSWORD" \in DOMAIN m.payload
              /\ Bit(f, 7) <=> "USER_NAME" \in DOMAIN m.payload
<1> DEFINE f == WireFlags(m)
<1>1. 2^2 = 4 /\ 2^6 = 64 /\ 2^7 = 128
  OBVIOUS
<1>2. f = (IF "PASSWORD" \in DOMAIN m.payload THEN 64 ELSE 0)
          + (IF "USER_NAME" \in DOMAIN m.payload THEN 128 ELSE 0)
  BY DEF WireFlags
<1> HIDE DEF f
<1>3. /\ Bit(f, 2) <=> (f \div 4) % 2 = 1
      /\ Bit(f, 6) <=> (f \div 64) % 2 = 1
      /\ Bit(f, 7) <=> (f \div 128) % 2 = 1
  BY <1>1 DEF Bit
<1> QED BY <1>2, <1>3 DEF f

\* Payloads that were announced once are looked for in every CONNECT.
WillIsWanted == "CLIENT_ID" \in wanted
                /\ ("WILL_PROPERTIES" \in wanted => "WILL_TOPIC" \in wanted)

\* What decode_payload has configured when it stands at a payload, for a client
\* that has no will, and where it stands.
Within(m) == phase = "payload" \/ (phase = "properties" /\ will)
AtSlot(m) ==
    /\ slot = 1 => pos = FirstPayload(m)
    /\ slot \in {2, 4, 5} => pos = BehindName(m)
    /\ slot = 3 => pos = BehindName(m) \/ (pos < Len(body) /\ "WILL_TOPIC" \in wanted)
    /\ slot = 6 => pos = BehindUser(m)
    /\ slot = 7 => "PASSWORD" \notin DOMAIN m.payload
PayloadsMeant(m) ==
    IsMeant(m) /\ ~HasWill(m) /\ phase \in {"properties", "payload", "connack"} =>
        /\ ~cfg.willFlag /\ (cfg.userNameFlag <=> "USER_NAME" \in DOMAIN m.payload)
        /\ DOMAIN m.payload \ {"CLIENT_ID"} \subseteq wanted
        /\ received = 1 => wanted = DOMAIN m.payload
        /\ phase = "properties" /\ will =>
              slot = 2 /\ stop < Len(body) /\ "WILL_TOPIC" \in wanted
        /\ phase = "payload" => AtSlot(m)
        /\ phase = "connack" \/ (Within(m) /\ slot >= 2) =>
              cfg.payload["CLIENT_ID"] = m.payload["CLIENT_ID"]
        /\ phase = "connack" \/ (phase = "payload" /\ slot >= 6) =>
              ("USER_NAME" \in DOMAIN m.payload
               => cfg.payload["USER_NAME"] = m.payload["USER_NAME"])
        /\ phase = "connack" => "PASSWORD" \notin DOMAIN m.payload

\* What the client may announce besides its name.
LEMMA NoWill ==
    ASSUME NEW m, IsMeaning(m), ~HasWill(m)
    PROVE  /\ "CLIENT_ID" \in DOMAIN m.payload
           /\ DOMAIN m.payload \subseteq {"CLIENT_ID", "USER_NAME", "PASSWORD"}
<1>1. ConfigPayloads \subseteq {"CLIENT_ID", "WILL_TOPIC", "WILL_PAYLOAD", "USER_NAME", "PASSWORD"}
  BY DEF ConfigPayloads, PayloadTypeSet, PayloadTypes
<1>2. /\ "CLIENT_ID" \in DOMAIN m.payload /\ DOMAIN m.payload \subseteq ConfigPayloads
      /\ "WILL_PAYLOAD" \notin DOMAIN m.payload
  BY MeaningIs
<1>3. "WILL_TOPIC" \notin DOMAIN m.payload
  BY DEF HasWill
<1> QED BY <1>1, <1>2, <1>3

LEMMA DecodeConnectAnnounces ==
    ASSUME DecoderInv, NothingYet, WillIsWanted, DecodeConnect, NEW m, IsMeaning(m)
    PROVE  PayloadsMeant(m)'
<1> SUFFICES ASSUME IsMeant(m)', ~HasWill(m) PROVE PayloadsMeant(m)'
  BY DEF PayloadsMeant
<1>1. /\ phase = "header" /\ cfg \in ClientConfigs /\ body = WireConnect(m)
      /\ phase' = "properties" /\ will' = FALSE /\ received' = received
      /\ cfg' = WithFlags(WireFlags(m)) /\ wanted' = wanted \union Announced(WireFlags(m))
  <2>1. body = WireConnect(m)
    BY DEF IsMeant, DecodeConnect, packet
  <2>2. body[8] = WireFlags(m)
    BY <2>1, PartsStand
  <2> QED BY <2>1, <2>2 DEF DecodeConnect, EnterProperties, DecoderInv, DecoderTypeOK
<1>2. LET f == WireFlags(m)
      IN /\ ~Bit(f, 2)
         /\ Bit(f, 6) <=> "PASSWORD" \in DOMAIN m.payload
         /\ Bit(f, 7) <=> "USER_NAME" \in DOMAIN m.payload
  BY FlagBits
<1>3. ~cfg'.willFlag /\ (cfg'.userNameFlag <=> "USER_NAME" \in DOMAIN m.payload)
  <2>1. cfg'.willFlag = Bit(WireFlags(m), 2) /\ cfg'.userNameFlag = Bit(WireFlags(m), 7)
    BY <1>1 DEF WithFlags, ClientConfigs
  <2> QED BY <1>2, <2>1
<1>4. Announced(WireFlags(m)) = DOMAIN m.payload \ {"CLIENT_ID"}
  <2>1. DOMAIN m.payload \subseteq {"CLIENT_ID", "USER_NAME", "PASSWORD"}
    BY NoWill
  <2> QED BY <1>2, <2>1 DEF Announced
<1>5. received' = 1 => wanted' = DOMAIN m.payload
  <2>1. received = 1 => wanted = {"CLIENT_ID"}
    BY <1>1 DEF NothingYet
  <2>2. "CLIENT_ID" \in DOMAIN m.payload
    BY NoWill
  <2> QED BY <1>1, <1>4, <2>1, <2>2
<1> QED BY <1>1, <1>3, <1>4, <1>5 DEF PayloadsMeant, Within

\* What stands where a payload is read.
LEMMA MeantName ==
    ASSUME NEW m, IsMeaning(m), ~HasWill(m), body = WireConnect(m), pos = FirstPayload(m)
    PROVE  /\ pos < Len(body) /\ From(pos) \in Strings
           /\ HoldsString(From(pos)) /\ StringOf(From(pos)) = m.payload["CLIENT_ID"]
           /\ pos + 2 + Length(From(pos)) = BehindName(m)
<1>1. /\ body \in Strings /\ pos \in Nat
  BY PartsStand
<1>2. /\ At(body, pos, WireString(m.payload["CLIENT_ID"]))
      /\ m.payload["CLIENT_ID"] \in ShortStrings /\ Len(m.payload["CLIENT_ID"]) \in Nat
      /\ BehindName(m) \in Nat /\ pos < BehindName(m)
  BY PayloadsStand
<1>3. WireString(m.payload["CLIENT_ID"]) \in Strings
      /\ Len(WireString(m.payload["CLIENT_ID"])) = 2 + Len(m.payload["CLIENT_ID"])
  BY <1>2, WireStringFits
<1>4. From(pos) \in Strings /\ At(From(pos), 0, WireString(m.payload["CLIENT_ID"]))
  BY <1>1, <1>2, <1>3, AtRest DEF From
<1>5. /\ HoldsString(From(pos)) /\ StringOf(From(pos)) = m.payload["CLIENT_ID"]
      /\ Length(From(pos)) = Len(m.payload["CLIENT_ID"])
  BY <1>2, <1>4, ReadsString
<1>6. pos < Len(body)
  <2>1. pos + (2 + Len(m.payload["CLIENT_ID"])) <= Len(body) /\ Len(body) \in Nat
    BY <1>1, <1>2, <1>3, LenProperties DEF At, Strings
  <2> QED BY <1>1, <1>2, <2>1
<1> QED BY <1>4, <1>5, <1>6 DEF BehindName

LEMMA MeantPayload ==
    ASSUME NEW m, IsMeaning(m), ~HasWill(m), body = WireConnect(m),
           NEW t \in {"USER_NAME", "PASSWORD"}, t \in DOMAIN m.payload,
           pos = IF t = "USER_NAME" THEN BehindName(m) ELSE BehindUser(m)
    PROVE  /\ pos < Len(body) /\ From(pos) \in Strings
           /\ HoldsString(From(pos)) /\ StringOf(From(pos)) = m.payload[t]
           /\ t = "USER_NAME" => pos + 2 + Length(From(pos)) = BehindUser(m)
<1>1. body \in Strings
  BY PartsStand
<1>2. /\ At(body, pos, WireString(m.payload[t])) /\ pos \in Nat
      /\ m.payload[t] \in ShortStrings /\ Len(m.payload[t]) \in Nat
      /\ WirePayload(m, t) = WireString(m.payload[t])
      /\ Len(WirePayload(m, t)) = 2 + Len(m.payload[t])
  BY PayloadsStand, Zenon
<1>3. WireString(m.payload[t]) \in Strings
      /\ Len(WireString(m.payload[t])) = 2 + Len(m.payload[t])
  BY <1>2, WireStringFits
<1>4. From(pos) \in Strings /\ At(From(pos), 0, WireString(m.payload[t]))
  BY <1>1, <1>2, <1>3, AtRest DEF From
<1>5. /\ HoldsString(From(pos)) /\ StringOf(From(pos)) = m.payload[t]
      /\ Length(From(pos)) = Len(m.payload[t])
  BY <1>2, <1>4, ReadsString
<1>6. pos < Len(body)
  <2>1. pos + (2 + Len(m.payload[t])) <= Len(body) /\ Len(body) \in Nat
    BY <1>1, <1>2, <1>3, LenProperties DEF At, Strings
  <2> QED BY <1>2, <2>1
<1>7. t = "USER_NAME" => pos + 2 + Length(From(pos)) = BehindUser(m)
  BY <1>2, <1>5 DEF BehindUser
<1> QED BY <1>4, <1>5, <1>6, <1>7

\* Where only a part of the payloads is announced.
LEMMA NothingThere ==
    ASSUME NEW m, IsMeaning(m), ~HasWill(m), body = WireConnect(m)
    PROVE  /\ BehindName(m) \in Nat /\ BehindUser(m) \in Nat /\ Len(body) \in Nat
           /\ FirstPayload(m) < Len(body)
           /\ "USER_NAME" \notin DOMAIN m.payload => BehindUser(m) = BehindName(m)
           /\ BehindUser(m) = Len(body) => "PASSWORD" \notin DOMAIN m.payload
           /\ BehindName(m) = Len(body) => /\ "USER_NAME" \notin DOMAIN m.payload
                                           /\ "PASSWORD" \notin DOMAIN m.payload
           /\ BehindName(m) # Len(body) => \/ "USER_NAME" \in DOMAIN m.payload
                                           \/ "PASSWORD" \in DOMAIN m.payload
<1> DEFINE U == Len(WirePayload(m, "USER_NAME"))
           P == Len(WirePayload(m, "PASSWORD"))
<1>1. /\ BehindName(m) \in Nat /\ BehindUser(m) \in Nat /\ Len(body) = BehindUser(m) + P
      /\ FirstPayload(m) < BehindName(m) /\ FirstPayload(m) \in Nat
      /\ IF "USER_NAME" \in DOMAIN m.payload
         THEN U = 2 + Len(m.payload["USER_NAME"]) /\ Len(m.payload["USER_NAME"]) \in Nat
         ELSE U = 0
      /\ IF "PASSWORD" \in DOMAIN m.payload
         THEN P = 2 + Len(m.payload["PASSWORD"]) /\ Len(m.payload["PASSWORD"]) \in Nat
         ELSE P = 0
      /\ BehindUser(m) = BehindName(m) + U
  BY PayloadsStand, PartsStand DEF BehindUser
<1> HIDE DEF U, P
<1>2. U \in Nat /\ P \in Nat /\ ("USER_NAME" \in DOMAIN m.payload <=> U # 0)
      /\ ("PASSWORD" \in DOMAIN m.payload <=> P # 0)
  <2>1. CASE "USER_NAME" \in DOMAIN m.payload
    <3>1. U \in Nat /\ U # 0
      BY <1>1, <2>1
    <3>2. P \in Nat /\ ("PASSWORD" \in DOMAIN m.payload <=> P # 0)
      BY <1>1
    <3> QED BY <2>1, <3>1, <3>2
  <2>2. CASE "USER_NAME" \notin DOMAIN m.payload
    <3>1. U = 0
      BY <1>1, <2>2
    <3>2. P \in Nat /\ ("PASSWORD" \in DOMAIN m.payload <=> P # 0)
      BY <1>1
    <3> QED BY <2>2, <3>1, <3>2
  <2> QED BY <2>1, <2>2
<1> QED BY <1>1, <1>2

\* Will properties that are looked for where there are none do not reach the end
\* of the body: their length is a byte of the length of a string.
LEMMA WillStaysInside ==
    ASSUME NEW m, IsMeaning(m), ~HasWill(m), body = WireConnect(m), pos = BehindName(m),
           pos # Len(body), DecodeVariableInt(From(pos)).ok
    PROVE  WillStart + DecodeVariableInt(From(pos)).value < Len(body)
<1> DEFINE s == From(pos)
           d == DecodeVariableInt(s)
<1>1. /\ pos \in Nat /\ Len(body) \in Nat /\ body \in Strings
      /\ "USER_NAME" \notin DOMAIN m.payload => BehindUser(m) = BehindName(m)
      /\ "USER_NAME" \in DOMAIN m.payload \/ "PASSWORD" \in DOMAIN m.payload
  BY NothingThere, PartsStand
<1>2. pos < Len(body) /\ s \in Strings /\ HoldsString(s)
  <2>1. CASE "USER_NAME" \in DOMAIN m.payload
    BY <2>1, MeantPayload
  <2>2. CASE "USER_NAME" \notin DOMAIN m.payload
    <3>1. "PASSWORD" \in DOMAIN m.payload /\ pos = BehindUser(m)
      BY <1>1, <2>2
    <3> QED BY <3>1, MeantPayload
  <2> QED BY <2>1, <2>2
<1>3. Len(s) = Len(body) - pos
  <2>1. pos + 1 \in Nat \ {0} /\ Len(body) \in Int /\ Len(body) <= Len(body) /\ pos + 1 <= Len(body)
    BY <1>1, <1>2
  <2>2. Len(SubSeq(body, pos + 1, Len(body))) = Len(body) - (pos + 1) + 1
    BY <1>1, <2>1, Slice
  <2> QED BY <1>1, <2>2 DEF From
<1>4. 2 + (s[1] * 256 + s[2]) <= Len(s) /\ s[1] \in Byte /\ s[2] \in Byte
  <2>1. 2 <= Len(s) /\ 2 + (s[1] * 256 + s[2]) <= Len(s)
    BY <1>2 DEF HoldsString, Length
  <2>2. \A i \in 1..Len(s) : s[i] \in Byte
    BY <1>2 DEF Strings
  <2>3. 1 \in 1..Len(s) /\ 2 \in 1..Len(s)
    BY <1>1, <1>2, <1>3, <2>1
  <2> QED BY <2>1, <2>2, <2>3
<1>5. /\ d.offset \in 0..4
      /\ d.offset = 0 => d.value = s[1]
      /\ d.offset >= 1 => s[1] >= 128 /\ d.value = (s[1] % 128) + (s[2] % 128) * 128
  BY <1>2, TwoBytesCount
<1>6. \A a, b \in Byte : \A l, o, v \in Int :
         /\ 2 + (a * 256 + b) <= l /\ o \in 0..4
         /\ o = 0 => v = a
         /\ o >= 1 => a >= 128 /\ v = (a % 128) + (b % 128) * 128
         => o + v < l
  <2>1. \A a \in 0..255 : a % 128 \in 0..127
    OBVIOUS
  <2>2. \A x, y, a, b, l, o, v \in Int :
         /\ x \in 0..127 /\ y \in 0..127 /\ a \in 0..255 /\ b \in 0..255
         /\ 2 + (a * 256 + b) <= l /\ o \in 0..4
         /\ o = 0 => v = a
         /\ o >= 1 => a >= 128 /\ v = x + y * 128
         => o + v < l
    OBVIOUS
  <2> TAKE a, b \in Byte
  <2> TAKE l, o, v \in Int
  <2>3. a % 128 \in 0..127 /\ b % 128 \in 0..127 /\ a \in 0..255 /\ b \in 0..255
    <3>1. a \in 0..255 /\ b \in 0..255
      BY DEF Byte
    <3> QED BY <2>1, <3>1
  <2>4. a % 128 \in Int /\ b % 128 \in Int /\ a \in Int /\ b \in Int
    BY <2>3
  <2> QED BY <2>2, <2>3, <2>4
<1> HIDE DEF s, d
<1>7. d.offset + d.value < Len(s)
  <2>1. d.value \in Int /\ Len(s) \in Int
    <3>1. d.value \in Nat
      BY <1>2, VariableIntFits DEF d
    <3> QED BY <1>1, <1>3, <3>1
  <2>2. d.offset \in Int
    BY <1>5
  <2>3. 2 + (s[1] * 256 + s[2]) <= Len(s) /\ d.offset \in 0..4
    BY <1>4, <1>5
  <2> DEFINE Q(a, b, l, o, v) ==
         /\ 2 + (a * 256 + b) <= l /\ o \in 0..4
         /\ o = 0 => v = a
         /\ o >= 1 => a >= 128 /\ v = (a % 128) + (b % 128) * 128
         => o + v < l
  <2>4. \A a, b \in Byte : \A l, o, v \in Int : Q(a, b, l, o, v)
    BY <1>6
  <2> HIDE DEF Q
  <2>5. Q(s[1], s[2], Len(s), d.offset, d.value)
    BY <1>4, <2>1, <2>2, <2>4
  <2> QED BY <1>5, <2>3, <2>5 DEF Q
<1>8. WillStart = pos + d.offset
  BY DEF WillStart, d, s
<1>9. d.value \in Nat
  BY <1>2, VariableIntFits DEF d
<1>10. WillStart + d.value < Len(body)
  <2>1. \A a, b, o, v \in Int : o + v < b - a => (a + o) + v < b
    OBVIOUS
  <2>2. d.offset \in Int /\ d.value \in Int /\ pos \in Int /\ Len(body) \in Int
    BY <1>1, <1>5, <1>9
  <2>3. d.offset + d.value < Len(body) - pos
    BY <1>3, <1>7
  <2> QED BY <1>8, <2>1, <2>2, <2>3
<1> QED BY <1>10 DEF d, s

LEMMA PropertyLeavesPayloads ==
    ASSUME NEW c \in ClientConfigs, NEW p, NEW data
    PROVE  /\ ConfigurePropriety(c, p, data).cfg.payload = c.payload
           /\ ConfigurePropriety(c, p, data).cfg.willFlag = c.willFlag
           /\ ConfigurePropriety(c, p, data).cfg.userNameFlag = c.userNameFlag
<1>1. CASE p = "USER_PROPERTY"
  BY <1>1 DEF ConfigurePropriety, ConfigProperties, ClientConfigs
<1>2. CASE /\ p # "USER_PROPERTY" /\ p \in ConfigProperties
           /\ ~(p = "AUTHENTICATION_DATA" /\ c.property["AUTHENTICATION_METHOD"] = <<>>)
  <2>1. ConfigurePropriety(c, p, data).cfg = [c EXCEPT !.property[p] = data]
    BY <1>2, Zenon DEF ConfigurePropriety
  <2> QED BY <2>1 DEF ClientConfigs
<1>3. CASE /\ p # "USER_PROPERTY"
           /\ ~(/\ p \in ConfigProperties
                /\ ~(p = "AUTHENTICATION_DATA" /\ c.property["AUTHENTICATION_METHOD"] = <<>>))
  <2>1. ConfigurePropriety(c, p, data).cfg = c
    BY <1>3, Zenon DEF ConfigurePropriety
  <2> QED BY <2>1
<1> QED BY <1>1, <1>2, <1>3

LEMMA ReadPropertyAnnounced ==
    ASSUME DecoderInv, NEW m, IsMeaning(m), PayloadsMeant(m), ReadProperty
    PROVE  PayloadsMeant(m)'
<1> SUFFICES ASSUME IsMeant(m)', ~HasWill(m) PROVE PayloadsMeant(m)'
  BY DEF PayloadsMeant
<1> DEFINE p == PropertyOf(body[pos + 1])
           s == Between(pos + 1, stop)
<1>1. /\ phase = "properties" /\ cfg' = Configured(p, s).cfg
      /\ UNCHANGED <<phase, type, body, stop, will, slot, wanted, received>>
  BY DEF ReadProperty, packet
<1>2. IsMeant(m) /\ cfg \in ClientConfigs
  BY <1>1 DEF IsMeant, DecoderInv, DecoderTypeOK
<1>3. /\ cfg'.payload = cfg.payload /\ cfg'.willFlag = cfg.willFlag
      /\ cfg'.userNameFlag = cfg.userNameFlag
  <2> HIDE DEF p, s
  <2> QED BY <1>1, <1>2, WillLeavesProperties, PropertyLeavesPayloads DEF Configured
<1> QED BY <1>1, <1>2, <1>3 DEF PayloadsMeant, Within

LEMMA EndPropertiesAnnounced ==
    ASSUME DecoderInv, NEW m, IsMeaning(m), PropertiesMeant(m), PayloadsMeant(m), EndProperties
    PROVE  PayloadsMeant(m)'
<1> SUFFICES ASSUME IsMeant(m)', ~HasWill(m) PROVE PayloadsMeant(m)'
  BY DEF PayloadsMeant
<1>1. /\ phase = "properties" /\ pos = stop /\ pos' = resume
      /\ UNCHANGED <<type, body, will, wanted, cfg, received>>
      /\ slot' = IF will THEN slot + 1 ELSE 1
  BY DEF EndProperties, packet
<1>2. IsMeant(m) /\ phase' = "payload" /\ resume = stop /\ type = "CONNECT"
  BY <1>1 DEF IsMeant, EndProperties, DecoderInv, Callers
<1>3. CASE will
  <2>1. slot = 2 /\ stop < Len(body) /\ "WILL_TOPIC" \in wanted
    BY <1>1, <1>2, <1>3 DEF PayloadsMeant
  <2>2. slot' = 3 /\ AtSlot(m)'
    BY <1>1, <1>2, <1>3, <2>1 DEF AtSlot
  <2> QED BY <1>1, <1>2, <1>3, <2>1, <2>2 DEF PayloadsMeant, Within
<1>4. CASE ~will
  <2>1. stop = FirstPayload(m)
    BY <1>1, <1>2, <1>4 DEF PropertiesMeant
  <2>2. slot' = 1 /\ AtSlot(m)'
    BY <1>1, <1>2, <1>4, <2>1 DEF AtSlot
  <2> QED BY <1>1, <1>2, <2>2 DEF PayloadsMeant, Within
<1> QED BY <1>3, <1>4

LEMMA EndPayloadAnnounced ==
    ASSUME DecoderInv, NEW m, IsMeaning(m), PayloadsMeant(m), EndPayload
    PROVE  PayloadsMeant(m)'
<1> SUFFICES ASSUME IsMeant(m)', ~HasWill(m) PROVE PayloadsMeant(m)'
  BY DEF PayloadsMeant
<1>1. /\ phase = "payload" /\ (slot = 7 \/ pos = Len(body)) /\ phase' = "connack"
      /\ UNCHANGED <<type, body, slot, wanted, cfg, received>>
  BY DEF EndPayload, packet, cursor
<1>2. /\ IsMeant(m) /\ body = WireConnect(m) /\ AtSlot(m) /\ slot \in 1..7
  BY <1>1 DEF IsMeant, PayloadsMeant, DecoderInv, DecoderTypeOK
<1>3. /\ BehindName(m) \in Nat /\ BehindUser(m) \in Nat /\ Len(body) \in Nat
      /\ FirstPayload(m) < Len(body)
      /\ BehindUser(m) = Len(body) => "PASSWORD" \notin DOMAIN m.payload
      /\ BehindName(m) = Len(body) => /\ "USER_NAME" \notin DOMAIN m.payload
                                      /\ "PASSWORD" \notin DOMAIN m.payload
  BY <1>2, NothingThere
<1>4. slot # 1
  BY <1>1, <1>2, <1>3 DEF AtSlot
<1>5. "PASSWORD" \notin DOMAIN m.payload /\ (slot < 6 => "USER_NAME" \notin DOMAIN m.payload)
  BY <1>1, <1>2, <1>3, <1>4 DEF AtSlot
<1> QED BY <1>1, <1>2, <1>4, <1>5 DEF PayloadsMeant, Within

LEMMA SlotsAre ==
    /\ PayloadTypes[1] = "CLIENT_ID" /\ PayloadTypes[2] = "WILL_PROPERTIES"
    /\ PayloadTypes[3] = "WILL_TOPIC" /\ PayloadTypes[4] = "WILL_PAYLOAD"
    /\ PayloadTypes[5] = "USER_NAME" /\ PayloadTypes[6] = "PASSWORD"
  BY DEF PayloadTypes

LEMMA SkipPayloadAnnounced ==
    ASSUME DecoderInv, WillIsWanted, NEW m, IsMeaning(m), PayloadsMeant(m), SkipPayload
    PROVE  PayloadsMeant(m)'
<1> SUFFICES ASSUME IsMeant(m)', ~HasWill(m) PROVE PayloadsMeant(m)'
  BY DEF PayloadsMeant
<1>1. /\ phase = "payload" /\ slot <= 6 /\ pos < Len(body) /\ PayloadTypes[slot] \notin wanted
      /\ slot' = slot + 1 /\ UNCHANGED <<phase, type, body, pos, will, wanted, cfg, received>>
  BY DEF SkipPayload, AtPayload, Payload, packet
<1>2. /\ IsMeant(m) /\ body = WireConnect(m) /\ AtSlot(m) /\ slot \in 1..7
      /\ DOMAIN m.payload \ {"CLIENT_ID"} \subseteq wanted
  BY <1>1 DEF IsMeant, PayloadsMeant, DecoderInv, DecoderTypeOK
<1>3. slot # 1 /\ slot' \in 3..7
  BY <1>1, <1>2, SlotsAre DEF WillIsWanted
<1>4. "USER_NAME" \notin DOMAIN m.payload => BehindUser(m) = BehindName(m)
  BY <1>2, NothingThere
<1>5. AtSlot(m)'
  <2>1. CASE slot = 2
    BY <1>1, <1>2, <2>1 DEF AtSlot
  <2>2. CASE slot = 3
    BY <1>1, <1>2, <2>2, SlotsAre DEF AtSlot
  <2>3. CASE slot = 4
    BY <1>1, <1>2, <2>3 DEF AtSlot
  <2>4. CASE slot = 5
    BY <1>1, <1>2, <1>4, <2>4, SlotsAre DEF AtSlot
  <2>5. CASE slot = 6
    BY <1>1, <1>2, <2>5, SlotsAre DEF AtSlot
  <2> QED BY <1>1, <1>2, <1>3, <2>1, <2>2, <2>3, <2>4, <2>5
<1>6. slot' >= 6 => slot >= 6 \/ "USER_NAME" \notin DOMAIN m.payload
  <2>1. slot' >= 6 => slot >= 6 \/ slot = 5
    BY <1>1, <1>2
  <2>2. slot = 5 => "USER_NAME" \notin DOMAIN m.payload
    BY <1>1, <1>2, SlotsAre
  <2> QED BY <2>1, <2>2
<1>7. slot >= 2
  BY <1>2, <1>3
<1> QED BY <1>1, <1>2, <1>5, <1>6, <1>7 DEF PayloadsMeant, Within

LEMMA EnterWillAnnounced ==
    ASSUME DecoderInv, WillIsWanted, NEW m, IsMeaning(m), PayloadsMeant(m), EnterWillProperties
    PROVE  PayloadsMeant(m)'
<1> SUFFICES ASSUME IsMeant(m)', ~HasWill(m) PROVE PayloadsMeant(m)'
  BY DEF PayloadsMeant
<1>1. /\ phase = "payload" /\ slot <= 6 /\ pos < Len(body)
      /\ PayloadTypes[slot] = "WILL_PROPERTIES" /\ "WILL_PROPERTIES" \in wanted
      /\ WillCode = "SUCCESS"
      /\ phase' = "properties" /\ will' = TRUE
      /\ stop' = WillStart + DecodeVariableInt(From(pos)).value
      /\ UNCHANGED <<type, body, slot, wanted, cfg, received>>
  BY DEF EnterWillProperties, EnterProperties, AtPayload, Payload, packet
<1>2. /\ IsMeant(m) /\ body = WireConnect(m) /\ AtSlot(m) /\ slot \in 1..7
      /\ body \in Strings /\ pos \in Nat
  BY <1>1 DEF IsMeant, PayloadsMeant, DecoderInv, DecoderTypeOK
<1>3. slot = 2
  <2>1. slot \in {1, 2, 3, 4, 5, 6}
    BY <1>1, <1>2
  <2> QED BY <1>1, <2>1, SlotsAre
<1>4. pos = BehindName(m) /\ pos # Len(body) /\ DecodeVariableInt(From(pos)).ok
  <2>1. pos # Len(body)
    BY <1>1, <1>2
  <2> QED BY <1>1, <1>2, <1>3, <2>1 DEF AtSlot, WillCode
<1>5. stop' < Len(body)
  BY <1>1, <1>2, <1>4, WillStaysInside
<1>6. "WILL_TOPIC" \in wanted
  BY <1>1 DEF WillIsWanted
<1> QED BY <1>1, <1>2, <1>3, <1>5, <1>6 DEF PayloadsMeant, Within

LEMMA ReadPayloadAnnounced ==
    ASSUME DecoderInv, WillIsWanted, NEW m, IsMeaning(m), PayloadsMeant(m), ReadPayload
    PROVE  PayloadsMeant(m)'
<1> SUFFICES ASSUME IsMeant(m)', ~HasWill(m) PROVE PayloadsMeant(m)'
  BY DEF PayloadsMeant
<1> DEFINE t == PayloadTypes[slot]
           x == StringOf(From(pos))
<1>1. /\ phase = "payload" /\ slot <= 6 /\ pos < Len(body) /\ t # "WILL_PROPERTIES"
      /\ t \in wanted /\ PayloadCode = "SUCCESS"
      /\ cfg' = ConfigurePayload(cfg, t, x).cfg
      /\ pos' = pos + 2 + Length(From(pos)) /\ slot' = slot + 1
      /\ UNCHANGED <<phase, type, body, will, wanted, received>>
  BY DEF ReadPayload, AtPayload, Payload, packet
<1>2. /\ IsMeant(m) /\ body = WireConnect(m) /\ AtSlot(m) /\ slot \in 1..7
      /\ DOMAIN m.payload \ {"CLIENT_ID"} \subseteq wanted
      /\ ~cfg.willFlag /\ (cfg.userNameFlag <=> "USER_NAME" \in DOMAIN m.payload)
      /\ received = 1 => wanted = DOMAIN m.payload
      /\ cfg \in ClientConfigs
  BY <1>1 DEF IsMeant, PayloadsMeant, DecoderInv, DecoderTypeOK
<1> HIDE DEF x
<1>3. PayloadExpected(cfg, t)
  <2>1. ConfigurePayload(cfg, t, x).rcode = "SUCCESS"
    BY <1>1 DEF PayloadCode, Payload, x
  <2> QED BY <2>1 DEF ConfigurePayload
<1>4. t \in {"CLIENT_ID", "USER_NAME"}
  <2>1. slot \in {1, 2, 3, 4, 5, 6}
    BY <1>1, <1>2
  <2>2. t \in {"CLIENT_ID", "WILL_PROPERTIES", "WILL_TOPIC", "WILL_PAYLOAD", "USER_NAME", "PASSWORD"}
    BY <2>1, SlotsAre
  <2>3. t \notin {"WILL_TOPIC", "WILL_PAYLOAD", "PASSWORD"}
    BY <1>2, <1>3 DEF PayloadExpected
  <2> QED BY <1>1, <2>2, <2>3
<1>5. cfg' = [cfg EXCEPT !.payload[t] = x]
  BY <1>1, <1>3 DEF ConfigurePayload
<1>6. /\ cfg'.payload = [cfg.payload EXCEPT ![t] = x] /\ cfg'.willFlag = cfg.willFlag
      /\ cfg'.userNameFlag = cfg.userNameFlag
      /\ cfg.payload \in [ConfigPayloads -> Strings]
  BY <1>2, <1>5 DEF ClientConfigs
<1>7. {"CLIENT_ID", "USER_NAME"} \subseteq ConfigPayloads
  BY SlotsAre DEF ConfigPayloads, PayloadTypeSet
<1>8. CASE t = "CLIENT_ID"
  <2>1. slot = 1
    <3>1. slot \in {1, 2, 3, 4, 5, 6}
      BY <1>1, <1>2
    <3> QED BY <1>8, <3>1, SlotsAre
  <2>2. pos = FirstPayload(m)
    BY <1>2, <2>1 DEF AtSlot
  <2>3. x = m.payload["CLIENT_ID"] /\ pos' = BehindName(m)
    BY <1>1, <1>2, <2>2, MeantName DEF x
  <2>4. slot' = 2 /\ AtSlot(m)'
    BY <1>1, <2>1, <2>3 DEF AtSlot
  <2>5. cfg'.payload["CLIENT_ID"] = m.payload["CLIENT_ID"]
    BY <1>6, <1>7, <1>8, <2>3
  <2> HIDE DEF t
  <2> QED BY <1>1, <1>2, <1>6, <2>4, <2>5 DEF PayloadsMeant, Within
<1>9. CASE t = "USER_NAME"
  <2>1. slot = 5
    <3>1. slot \in {1, 2, 3, 4, 5, 6}
      BY <1>1, <1>2
    <3> QED BY <1>9, <3>1, SlotsAre
  <2>2. pos = BehindName(m) /\ "USER_NAME" \in DOMAIN m.payload
    BY <1>2, <1>3, <1>9, <2>1 DEF AtSlot, PayloadExpected
  <2>3. x = m.payload["USER_NAME"] /\ pos' = BehindUser(m)
    BY <1>1, <1>2, <2>2, MeantPayload DEF x
  <2>4. slot' = 6 /\ AtSlot(m)'
    BY <1>1, <2>1, <2>3 DEF AtSlot
  <2>5. /\ cfg'.payload["USER_NAME"] = m.payload["USER_NAME"]
        /\ cfg'.payload["CLIENT_ID"] = cfg.payload["CLIENT_ID"]
    BY <1>6, <1>7, <1>9, <2>3
  <2>6. cfg.payload["CLIENT_ID"] = m.payload["CLIENT_ID"]
    BY <1>1, <1>2, <2>1 DEF PayloadsMeant, Within
  <2> HIDE DEF t
  <2> QED BY <1>1, <1>2, <1>6, <2>4, <2>5, <2>6 DEF PayloadsMeant, Within
<1> QED BY <1>4, <1>8, <1>9

LEMMA PayloadsStep ==
    ASSUME DecoderInv, NothingYet, WillIsWanted, [Next]_vars,
           NEW m, IsMeaning(m), PropertiesMeant(m), PayloadsMeant(m)
    PROVE  PayloadsMeant(m)'
<1>0. phase = "payload" => type = "CONNECT"
  BY DEF DecoderInv, Callers
<1>1. ASSUME phase' \notin {"properties", "payload", "connack"} PROVE PayloadsMeant(m)'
  BY <1>1 DEF PayloadsMeant
<1>2. ASSUME type' # "CONNECT" PROVE PayloadsMeant(m)'
  BY <1>2 DEF PayloadsMeant, IsMeant
<1>3. CASE Receive
  BY <1>1, <1>3 DEF Receive
<1>4. CASE DecodeConnect
  BY <1>4, DecodeConnectAnnounces
<1>5. CASE RefuseConnect
  BY <1>1, <1>5 DEF RefuseConnect, Refuse
<1>6. CASE ReadProperty
  BY <1>6, ReadPropertyAnnounced
<1>7. CASE RefuseProperty
  <2>1. phase' \in {"message", "closed"}
    BY <1>7 DEF RefuseProperty
  <2> QED BY <1>1, <2>1
<1>8. CASE EndProperties
  BY <1>8, EndPropertiesAnnounced
<1>9. CASE EndPayload
  BY <1>9, EndPayloadAnnounced
<1>10. CASE SkipPayload
  BY <1>10, SkipPayloadAnnounced
<1>11. CASE EnterWillProperties
  BY <1>11, EnterWillAnnounced
<1>12. CASE ReadPayload
  BY <1>12, ReadPayloadAnnounced
<1>13. CASE RefusePayload
  BY <1>1, <1>13 DEF RefusePayload, Refuse
<1>14. CASE DecodePublish
  <2>1. type' = "PUBLISH"
    BY <1>14 DEF DecodePublish, ReadLength, Refuse, packet
  <2> QED BY <1>2, <2>1
<1>15. CASE DecodePublishOverrun
  BY <1>1, <1>15 DEF DecodePublishOverrun, Refuse
<1>16. CASE ReadMessage
  BY <1>1, <1>16 DEF ReadMessage, Refuse
<1>17. CASE DecodeDisconnect
  BY <1>1, <1>17 DEF DecodeDisconnect, Refuse
<1>18. CASE CreateConnack
  BY <1>1, <1>18 DEF CreateConnack, Refuse
<1>19. CASE FillProperty
  <2>1. phase' \in {"fill", "closed"}
    BY <1>19 DEF FillProperty, Refuse
  <2> QED BY <1>1, <2>1
<1>20. CASE SendConnack
  BY <1>1, <1>20 DEF SendConnack
<1>21. CASE UNCHANGED vars
  BY <1>21 DEF vars, packet, cursor, PayloadsMeant, IsMeant, Within, AtSlot
<1>22. CASE DecodeCrashes
  BY <1>1, <1>22 DEF DecodeCrashes
<1> QED BY <1>3, <1>4, <1>5, <1>6, <1>7, <1>8, <1>9, <1>10, <1>11, <1>12, <1>13, <1>14, <1>15,
           <1>16, <1>17, <1>18, <1>19, <1>20, <1>21, <1>22 DEF Next, Decode, Answer

\* Nothing is taken from what is looked for, and a will's parts come together.
LEMMA WillIsWantedStep == WillIsWanted /\ [Next]_vars => WillIsWanted'
<1> SUFFICES ASSUME WillIsWanted, [Next]_vars PROVE WillIsWanted'
  OBVIOUS
<1>1. CASE DecodeConnect
  <2>1. wanted' = wanted \union Announced(body[8])
    BY <1>1 DEF DecodeConnect
  <2>2. "WILL_PROPERTIES" \in Announced(body[8]) => "WILL_TOPIC" \in Announced(body[8])
    BY DEF Announced
  <2> QED BY <2>1, <2>2 DEF WillIsWanted
<1>2. CASE ~DecodeConnect
  <2>1. wanted' = wanted
    BY <1>2 DEF Next, Decode, Answer, Receive, RefuseConnect, ReadProperty, RefuseProperty,
         EndProperties, EndPayload, SkipPayload, EnterWillProperties, ReadPayload, RefusePayload,
         DecodePublish, ReadLength, DecodePublishOverrun, ReadMessage, DecodeDisconnect,
         DecodeCrashes, CreateConnack, FillProperty, SendConnack, EnterProperties, Refuse, vars
  <2> QED BY <2>1 DEF WillIsWanted
<1> QED BY <1>1, <1>2

\* What is known of each client's CONNECT and of its payloads.
Announcing == WillIsWanted /\ \A m \in Meanings : PayloadsMeant(m)

LEMMA AnnouncingInit == Init => Announcing
  BY DEF Init, Announcing, WillIsWanted, PayloadsMeant

LEMMA AnnouncingStep == DecoderInv /\ Meant /\ Announcing /\ [Next]_vars => Announcing'
<1> SUFFICES ASSUME DecoderInv, Meant, Announcing, [Next]_vars PROVE Announcing'
  OBVIOUS
<1>1. WillIsWanted'
  BY WillIsWantedStep DEF Announcing
<1>2. ASSUME NEW m \in Meanings PROVE PayloadsMeant(m)'
  <2>1. IsMeaning(m)
    BY MeaningsAssumption
  <2>2. PropertiesMeant(m) /\ PayloadsMeant(m) /\ NothingYet /\ WillIsWanted
    BY DEF Meant, Announcing
  <2> QED BY <2>1, <2>2, PayloadsStep
<1> QED BY <1>1, <1>2 DEF Announcing

LEMMA AnnouncingHolds == Spec => []Announcing
<1>1. Init => Announcing
  BY AnnouncingInit
<1>2. DecoderInv /\ Meant /\ Announcing /\ [Next]_vars => Announcing'
  BY AnnouncingStep
<1> QED BY <1>1, <1>2, MeantHolds, DecoderInvHolds, PTL DEF Spec

LEMMA MeantIsKept == Meant /\ Announcing => AcceptedAsMeant
<1> SUFFICES ASSUME Meant, Announcing, NEW m \in Meanings, Accepted, body = WireConnect(m),
                    ~HasWill(m)
             PROVE  LET users == Users(m.properties)
                        n     == Len(cfg.userProperties) - Len(users)
                    IN /\ \A t \in DOMAIN m.payload : cfg.payload[t] = m.payload[t]
                       /\ \A i \in DOMAIN m.properties :
                             m.properties[i].type = "USER_PROPERTY"
                             \/ cfg.property[m.properties[i].type] = m.properties[i].data
                       /\ n >= 0
                       /\ \A i \in DOMAIN users : cfg.userProperties[n + i] = users[i]
  BY DEF AcceptedAsMeant
<1> DEFINE qs == m.properties
           users == Users(qs)
<1>1. IsMeaning(m) /\ IsMeant(m) /\ phase = "connack"
  BY MeaningsAssumption DEF Accepted, IsMeant
<1>2. PropertiesMeant(m) /\ PayloadsMeant(m)
  BY DEF Meant, Announcing
<1>3. HasRead(cfg, received = 1, m, Len(qs))
  BY <1>1, <1>2 DEF PropertiesMeant
<1>4. Len(qs) \in Nat /\ DOMAIN qs = 1..Len(qs) /\ UsersUpTo(qs, UsersOfFirst(qs))
  BY <1>1, MeaningIs, UsersCollected
<1>5. users = UsersOfFirst(qs)[Len(qs)] /\ users \in Seq(ShortPairs)
  <2>1. /\ UsersOfFirst(qs) \in [0..Len(qs) -> Seq(ShortPairs)]
        /\ UsersOfFirst(qs)[Len(qs)] = users
    BY <1>4, Zenon DEF UsersUpTo
  <2>2. Len(qs) \in 0..Len(qs)
    BY <1>4
  <2> QED BY <2>1, <2>2
<1>6. \A t \in DOMAIN m.payload : cfg.payload[t] = m.payload[t]
  <2>1. DOMAIN m.payload \subseteq {"CLIENT_ID", "USER_NAME", "PASSWORD"}
    BY <1>1, NoWill
  <2> QED BY <1>1, <1>2, <2>1 DEF PayloadsMeant
<1>7. \A i \in DOMAIN qs : qs[i].type = "USER_PROPERTY"
                           \/ cfg.property[qs[i].type] = qs[i].data
  BY <1>3, <1>4 DEF HasRead
<1> HIDE DEF users
<1>8. PICK n \in Nat : /\ Len(cfg.userProperties) = n + Len(users)
                       /\ \A i \in 1..Len(users) : cfg.userProperties[n + i] = users[i]
  BY <1>3, <1>5 DEF HasRead, EndsWith
<1>9. Len(users) \in Nat /\ DOMAIN users = 1..Len(users)
  BY <1>5, LenProperties
<1>10. Len(cfg.userProperties) - Len(users) = n
  BY <1>8, <1>9
<1> QED BY <1>6, <1>7, <1>8, <1>9, <1>10 DEF users

\* A CONNECT without a will configures all of what the client meant, and nothing
\* that was announced by an earlier one is taken for a part of it
\* (decode_connect_packet_body, decode_properties, decode_payload).
THEOREM ConnectIsKept == Spec => []AcceptedAsMeant
<1>1. Meant /\ Announcing => AcceptedAsMeant
  BY MeantIsKept
<1> QED BY <1>1, MeantHolds, AnnouncingHolds, PTL

-------------------------------------------------------------------------------
(* The first CONNECT of a client. *)

LEMMA NothingReserved ==
    ASSUME NEW m, ~HasWill(m)
    PROVE  FlagsOk(WireFlags(m))
<1> DEFINE f == WireFlags(m)
<1>1. ~Bit(f, 2)
  BY FlagBits
<1>2. f = (IF "PASSWORD" \in DOMAIN m.payload THEN 64 ELSE 0)
          + (IF "USER_NAME" \in DOMAIN m.payload THEN 128 ELSE 0)
  BY DEF WireFlags
<1>3. f \in {0, 64, 128, 192}
  BY <1>2
<1> HIDE DEF f
<1>4. 2^0 = 1
  OBVIOUS
<1>5. Bit(f, 0) <=> (f \div 1) % 2 = 1
  BY <1>4 DEF Bit
<1>6. ~Bit(f, 0)
  BY <1>3, <1>5
<1> QED BY <1>1, <1>6 DEF FlagsOk, f

\* Nothing in front of the properties is a reason to refuse it.
LEMMA ConnectIsTaken ==
    ASSUME NEW m, IsMeaning(m), ~HasWill(m), body = WireConnect(m), NEW g
    PROVE  ConnectCode(g) = "SUCCESS"
<1> DEFINE f == WireFlags(m)
           head == ConnectHeader(f)
<1>1. At(body, 0, head) /\ body \in Strings /\ FirstPayload(m) \in Nat /\ FirstProperty(m) \in Nat
  BY PartsStand
<1>2. /\ head[1] = 0 /\ head[2] = 4 /\ head[3] = 77 /\ head[4] = 81 /\ head[5] = 84
      /\ head[6] = 84 /\ head[7] = 5 /\ head[8] = f /\ Len(head) = 10
  BY DEF ConnectHeader
<1> HIDE DEF f, head
<1>3. \A i \in 1..10 : body[i] = head[i]
  <2>1. \A i \in 1..10 : 0 + i = i
    OBVIOUS
  <2> QED BY <1>1, <1>2, <2>1 DEF At
<1>4. Len(body) \in Nat /\ Len(body) >= 13
  <2>1. /\ Len(body) = BehindUser(m) + Len(WirePayload(m, "PASSWORD"))
        /\ Len(m.payload["CLIENT_ID"]) \in Nat
    BY PayloadsStand
  <2>2. Len(body) \in Nat
    BY <1>1, LenProperties DEF Strings
  <2>3. \A t \in {"USER_NAME", "PASSWORD"} : Len(WirePayload(m, t)) \in Nat
    <3>1. \A t \in {"USER_NAME", "PASSWORD"} :
             IF t \in DOMAIN m.payload
             THEN /\ Len(m.payload[t]) \in Nat
                  /\ Len(WirePayload(m, t)) = 2 + Len(m.payload[t])
             ELSE Len(WirePayload(m, t)) = 0
      BY PayloadsStand
    <3> QED BY <3>1
  <2>4. PropertiesLength(m) \in Nat /\ FirstProperty(m) >= 11
    <3>1. WirePropertyBytes(m.properties) \in Strings
      BY MeaningIs, PropertiesJoined
    <3>2. PropertiesLength(m) \in Nat /\ PropertiesLength(m) < 16384
      BY <3>1, MeaningIs, LenProperties DEF PropertiesLength, Strings
    <3>3. Len(WireVarInt(PropertiesLength(m))) \in {1, 2}
      BY <3>2, WireVarIntFits
    <3> QED BY <3>2, <3>3 DEF FirstProperty
  <2>5. FirstPayload(m) >= 11
    BY <1>1, <2>4 DEF FirstPayload
  <2>6. BehindName(m) >= 13 /\ BehindName(m) \in Nat
    BY <1>1, <2>1, <2>5 DEF BehindName
  <2>7. BehindUser(m) >= 13 /\ BehindUser(m) \in Nat
    BY <2>3, <2>6 DEF BehindUser
  <2> QED BY <2>1, <2>2, <2>3, <2>7
<1>5. \A n \in 0..9 : ByteAt(n, g) = body[n + 1]
  BY <1>4 DEF ByteAt
<1>6. NameOk(g)
  <2>1. ByteAt(0, g) = 0 /\ ByteAt(1, g) = 4
    <3>1. 0 + 1 = 1 /\ 1 + 1 = 2 /\ 0 \in 0..9 /\ 1 \in 0..9 /\ 1 \in 1..10 /\ 2 \in 1..10
      OBVIOUS
    <3> QED BY <1>2, <1>3, <1>5, <3>1
  <2>2. (0 + 4) % 256 = 4
    OBVIOUS
  <2> QED BY <2>1, <2>2 DEF NameOk
<1>7. ProtocolOk(g)
  <2>1. \A i \in 1..5 : i + 1 \in 0..9 /\ (i + 1) + 1 = i + 2 /\ i + 2 \in 1..10
    OBVIOUS
  <2>2. \A i \in 1..5 : ByteAt(i + 1, g) = head[i + 2]
    BY <1>3, <1>5, <2>1
  <2>3. \A i \in 1..5 : head[i + 2] = <<77, 81, 84, 84, 5>>[i]
    <3>1. /\ head[1 + 2] = 77 /\ head[2 + 2] = 81 /\ head[3 + 2] = 84 /\ head[4 + 2] = 84
          /\ head[5 + 2] = 5
      BY <1>2
    <3> QED BY <3>1
  <2>4. [i \in 1..5 |-> ByteAt(i + 1, g)] = [i \in 1..5 |-> <<77, 81, 84, 84, 5>>[i]]
    BY <2>2, <2>3
  <2>5. [i \in 1..5 |-> <<77, 81, 84, 84, 5>>[i]] = <<77, 81, 84, 84, 5>>
    OBVIOUS
  <2> QED BY <2>4, <2>5 DEF ProtocolOk
<1>8. FlagsOk(ByteAt(7, g))
  <2>1. ByteAt(7, g) = f
    BY <1>2, <1>3, <1>5
  <2> QED BY <2>1, NothingReserved DEF f
<1>9. /\ DecodeVariableInt(From(10)).ok
      /\ Holds(PropertiesStart, DecodeVariableInt(From(10)).value)
  BY MeantProperties DEF Holds
<1> QED BY <1>4, <1>6, <1>7, <1>8, <1>9 DEF ConnectCode

\* Text by the standard is taken for text.
TextIsTaken == \A s \in Strings : IsText(s) => WellFormed(s)

LEMMA SoundHasNoWill ==
    ASSUME NEW m, IsMeaning(m), Sound(m)
    PROVE  /\ ~HasWill(m) /\ "WILL_TOPIC" \notin DOMAIN m.payload
           /\ "WILL_PROPERTIES" \notin DOMAIN m.payload /\ "PASSWORD" \notin DOMAIN m.payload
           /\ "CLIENT_ID" \in DOMAIN m.payload
  BY MeaningIs DEF Sound, HasWill

LEMMA PropertyIsTaken ==
    ASSUME DecoderInv, NEW m, IsMeaning(m), Sound(m), IsMeant(m), received = 1,
           PropertiesMeant(m), PayloadsMeant(m), phase = "properties", pos # stop, TextIsTaken
    PROVE  LET p == PropertyOf(body[pos + 1])
               s == Between(pos + 1, stop)
           IN PropertyCode(p, s) = "SUCCESS" /\ Configured(p, s).rcode = "SUCCESS"
<1> DEFINE qs == m.properties
           p == PropertyOf(body[pos + 1])
           s == Between(pos + 1, stop)
<1>0. ~HasWill(m) /\ "WILL_TOPIC" \notin DOMAIN m.payload
  BY SoundHasNoWill
<1>1. ~will
  BY <1>0 DEF PayloadsMeant
<1>2. PICK k \in 0..Len(qs) :
         /\ pos = FirstProperty(m) + SizeOfFirst(qs, k) /\ stop = FirstPayload(m)
         /\ seen = {qs[i].type : i \in 1..k} \ {"USER_PROPERTY"}
         /\ HasRead(cfg, received = 1, m, k)
  BY <1>1, Zenon DEF PropertiesMeant
<1> DEFINE q == qs[k + 1]
<1>3. /\ k + 1 \in 1..Len(qs) /\ (k + 1) - 1 = k /\ IsProperty(q) /\ p = q.type
      /\ s \in Strings /\ At(s, 0, WireData(q))
  BY <1>2, MeantProperty DEF IsMeant
<1>4. DOMAIN qs = 1..Len(qs) /\ Len(qs) \in Nat
  BY MeaningIs
<1>5. SoundProperty(qs, k + 1) /\ NoUniqueTwice(qs)
  BY <1>3, <1>4 DEF Sound
<1> HIDE DEF p, s
<1>6. /\ q.type \in InConnect /\ ~BadNumber(q.type, q.data)
      /\ q.type = "AUTHENTICATION_METHOD" => IsText(q.data)
      /\ q.type = "USER_PROPERTY" => IsText(q.data[1]) /\ IsText(q.data[2])
      /\ q.type = "AUTHENTICATION_DATA" =>
            \E j \in 1..k : qs[j].type = "AUTHENTICATION_METHOD" /\ qs[j].data # <<>>
  BY <1>3, <1>5 DEF SoundProperty
<1>7. p \notin seen
  <2>1. ASSUME p \in seen PROVE FALSE
    <3>1. PICK i \in 1..k : qs[i].type = p /\ p # "USER_PROPERTY"
      BY <1>2, <2>1
    <3>2. i \in DOMAIN qs /\ k + 1 \in DOMAIN qs /\ i # k + 1
      BY <1>2, <1>3, <1>4
    <3> QED BY <1>3, <1>5, <3>1, <3>2 DEF NoUniqueTwice, IsPropertyUnique
  <2> QED BY <2>1
<1>8. /\ q.type = "AUTHENTICATION_METHOD" => q.data \in Strings
      /\ q.type = "USER_PROPERTY" => q.data[1] \in Strings /\ q.data[2] \in Strings
  BY <1>3 DEF IsProperty, ShortPairs, ShortStrings
<1>9. DataOf(p, s) = q.data /\ s # <<>> /\ Present(p, s)
  <2>1. /\ q.type = "AUTHENTICATION_METHOD" => WellFormed(q.data)
        /\ q.type = "USER_PROPERTY" => WellFormed(q.data[1]) /\ WellFormed(q.data[2])
    BY <1>6, <1>8 DEF TextIsTaken
  <2> HIDE DEF q
  <2> QED BY <1>3, <1>6, <2>1, ReadsProperty
<1> HIDE DEF q
<1>10. PropertyCode(p, s) = "SUCCESS"
  <2>1. ValidatePacketPropertyType(p, type)
    BY <1>3, <1>6 DEF ValidatePacketPropertyType, IsMeant
  <2> QED BY <1>7, <1>9, <2>1 DEF PropertyCode
<1>11. Configured(p, s).rcode = "SUCCESS"
  <2>1. Configured(p, s) = ConfigurePropriety(cfg, q.type, q.data)
    BY <1>1, <1>3, <1>9 DEF Configured
  <2>2. CASE q.type = "USER_PROPERTY"
    <3>1. "USER_PROPERTY" \notin ConfigProperties
      BY DEF ConfigProperties
    <3> QED BY <2>1, <2>2, <3>1 DEF ConfigurePropriety
  <2>3. CASE q.type # "USER_PROPERTY"
    <3>1. q.type \in ConfigProperties
      BY <1>6, <2>3 DEF ConfigProperties
    <3>2. q.type = "AUTHENTICATION_DATA" => cfg.property["AUTHENTICATION_METHOD"] # <<>>
      <4>1. SUFFICES ASSUME q.type = "AUTHENTICATION_DATA"
                     PROVE  cfg.property["AUTHENTICATION_METHOD"] # <<>>
        OBVIOUS
      <4>2. PICK j \in 1..k : qs[j].type = "AUTHENTICATION_METHOD" /\ qs[j].data # <<>>
        BY <1>6, <4>1
      <4> QED BY <1>2, <4>2 DEF HasRead
    <3>3. ConfigurePropriety(cfg, q.type, q.data).rcode
             = IF BadNumber(q.type, q.data) THEN "PROTOCOL_ERROR" ELSE "SUCCESS"
      BY <2>3, <3>1, <3>2 DEF ConfigurePropriety
    <3> QED BY <1>6, <2>1, <3>3
  <2> QED BY <2>2, <2>3
<1> QED BY <1>10, <1>11 DEF p, s

LEMMA PayloadIsTaken ==
    ASSUME DecoderInv, NEW m, IsMeaning(m), Sound(m), IsMeant(m), received = 1,
           PayloadsMeant(m), AtPayload, TextIsTaken
    PROVE  RoundCode = "SUCCESS"
<1>1. /\ phase = "payload" /\ slot <= 6 /\ pos # Len(body) /\ slot \in 1..7
      /\ pos <= Len(body) /\ pos \in Nat /\ Len(body) \in Nat /\ body = WireConnect(m)
  BY Remaining DEF AtPayload, DecoderInv, DecoderTypeOK, CursorInside, IsMeant
<1>2. ~HasWill(m) /\ DOMAIN m.payload \subseteq {"CLIENT_ID", "USER_NAME"}
  BY SoundHasNoWill DEF Sound
<1>3. /\ wanted = DOMAIN m.payload /\ AtSlot(m) /\ pos < Len(body)
      /\ cfg.userNameFlag <=> "USER_NAME" \in DOMAIN m.payload
  BY <1>1, <1>2 DEF PayloadsMeant
<1>4. CASE Payload \notin wanted
  BY <1>1, <1>3, <1>4 DEF RoundCode
<1>5. CASE Payload \in wanted
  <2> DEFINE x == StringOf(From(pos))
  <2>1. Payload \in {"CLIENT_ID", "USER_NAME"} /\ Payload \in DOMAIN m.payload
    BY <1>2, <1>3, <1>5
  <2>2. slot \in {1, 2, 3, 4, 5, 6}
    BY <1>1
  <2>3. HoldsString(From(pos)) /\ x = m.payload[Payload]
    <3>1. CASE Payload = "CLIENT_ID"
      <4>1. slot = 1
        BY <2>2, <3>1, SlotsAre DEF Payload
      <4>2. pos = FirstPayload(m)
        BY <1>3, <4>1 DEF AtSlot
      <4> QED BY <1>1, <1>2, <3>1, <4>2, MeantName
    <3>2. CASE Payload = "USER_NAME"
      <4>1. slot = 5
        BY <2>2, <3>2, SlotsAre DEF Payload
      <4>2. pos = BehindName(m)
        BY <1>3, <4>1 DEF AtSlot
      <4>3. "USER_NAME" \in DOMAIN m.payload
        BY <2>1, <3>2
      <4> QED BY <1>1, <1>2, <3>2, <4>2, <4>3, MeantPayload
    <3> QED BY <2>1, <3>1, <3>2
  <2>4. WellFormed(x)
    <3>1. m.payload[Payload] \in Strings
      BY <2>1, MeaningIs DEF ShortStrings
    <3>2. IsText(m.payload[Payload])
      BY <2>1 DEF Sound
    <3> QED BY <2>3, <3>1, <3>2 DEF TextIsTaken
  <2>5. PayloadPresent(Payload, From(pos))
    <3>1. ~IsBinaryPayload(Payload)
      BY <2>1 DEF IsBinaryPayload
    <3> QED BY <2>3, <2>4, <3>1 DEF PayloadPresent, IsString
  <2>6. PayloadExpected(cfg, Payload)
    <3>1. CASE Payload = "CLIENT_ID"
      BY <3>1 DEF PayloadExpected
    <3>2. CASE Payload = "USER_NAME"
      BY <1>3, <2>1, <3>2 DEF PayloadExpected
    <3> QED BY <2>1, <3>1, <3>2
  <2>7. PayloadCode = "SUCCESS"
    BY <2>5, <2>6 DEF PayloadCode, ConfigurePayload
  <2>8. Payload # "WILL_PROPERTIES"
    BY <2>1
  <2>9. ~(pos > Len(body)) /\ ~(pos < Len(body) /\ Payload \notin wanted)
    BY <1>1, <1>5
  <2> QED BY <2>7, <2>8, <2>9 DEF RoundCode
<1> QED BY <1>4, <1>5

\* The CONNACK stays so short that both of its lengths are written as computed.
LEMMA ConnackIsMade ==
    ASSUME WriterInv, NEW m, IsMeaning(m), Sound(m), IsMeant(m), received = 1,
           PropertiesMeant(m), phase = "connack"
    PROVE  LengthFits(VariablePacketSize) /\ LengthFits(PropertiesSize)
<1> DEFINE qs == m.properties
<1>1. cfg.userProperties = Users(qs)
  <2>1. HasRead(cfg, received = 1, m, Len(qs))
    BY DEF PropertiesMeant
  <2>2. UsersUpTo(qs, UsersOfFirst(qs))
    BY MeaningIs, UsersCollected
  <2> QED BY <2>1, <2>2 DEF HasRead, UsersUpTo
<1>2. cfg \in ClientConfigs /\ Shaped(cfg)
  BY DEF WriterInv, DecoderInv, DecoderTypeOK
<1>3. PairBytes(cfg.userProperties) \in Nat /\ PairBytes(cfg.userProperties) <= 70
  <2>1. cfg.userProperties \in Seq(ShortPairs)
    BY <1>2 DEF Shaped
  <2> QED BY <1>1, <2>1, UserBytesCount DEF Sound
<1>4. /\ Sizes(1) = 5 /\ Sizes(2) = 3 /\ Sizes(3) = 2 /\ Sizes(4) = 2 /\ Sizes(5) = 5
      /\ Sizes(6) \in {0, 3} /\ Sizes(7) = 3 /\ Sizes(8) = 20
      /\ Sizes(9) = 1 + PairBytes(cfg.userProperties)
      /\ Sizes(10) = 2 /\ Sizes(11) = 2 /\ Sizes(12) = 2 /\ Sizes(13) = 3
  BY <1>2, SizesAre
<1>5. PropertiesSize \in 1..123
  <2>1. SizeUpTo[0] = 0 /\ SizeUpTo[13] = SizeUpTo[17]
    BY <1>2, SizesAddUp
  <2>2. \A n \in 1..17 : SizeUpTo[n] = SizeUpTo[n - 1] + Sizes(n)
    BY <1>2, SizesAddUp
  <2>3. \A n \in 0..17 : SizeUpTo[n] \in Nat
    BY <1>2, SizesAddUp
  <2> HIDE DEF Sizes
  <2>4. SizeUpTo[5] = 17
    <3>1. /\ SizeUpTo[1] = SizeUpTo[0] + Sizes(1) /\ SizeUpTo[2] = SizeUpTo[1] + Sizes(2)
          /\ SizeUpTo[3] = SizeUpTo[2] + Sizes(3) /\ SizeUpTo[4] = SizeUpTo[3] + Sizes(4)
          /\ SizeUpTo[5] = SizeUpTo[4] + Sizes(5)
      BY <2>2
    <3> QED BY <1>4, <2>1, <3>1
  <2>5. SizeUpTo[8] \in {40, 43}
    <3>1. /\ SizeUpTo[6] = SizeUpTo[5] + Sizes(6) /\ SizeUpTo[7] = SizeUpTo[6] + Sizes(7)
          /\ SizeUpTo[8] = SizeUpTo[7] + Sizes(8)
      BY <2>2
    <3> QED BY <1>4, <2>4, <3>1
  <2>6. SizeUpTo[13] = SizeUpTo[8] + 10 + PairBytes(cfg.userProperties)
    <3>1. /\ SizeUpTo[9] = SizeUpTo[8] + Sizes(9) /\ SizeUpTo[10] = SizeUpTo[9] + Sizes(10)
          /\ SizeUpTo[11] = SizeUpTo[10] + Sizes(11) /\ SizeUpTo[12] = SizeUpTo[11] + Sizes(12)
          /\ SizeUpTo[13] = SizeUpTo[12] + Sizes(13)
      BY <2>2
    <3> QED BY <1>3, <1>4, <2>5, <3>1
  <2>7. SizeUpTo[17] \in 1..123
    BY <1>3, <2>1, <2>5, <2>6
  <2> QED BY <2>7 DEF PropertiesSize
<1>6. PropertiesSize \in 1..126 /\ GetVariableIntSize(PropertiesSize) = 1
  <2>1. PropertiesSize \in 1..126
    BY <1>5
  <2> QED BY <2>1, EncodedShort
<1>7. VariablePacketSize \in 1..126
  BY <1>5, <1>6 DEF VariablePacketSize
<1>8. \A v \in 1..126 : LengthFits(v)
  BY EncodedShort DEF LengthFits, EncodeFails
<1> QED BY <1>6, <1>7, <1>8

\* What is left is never too small for the next property.
LEMMA PropertyIsFilled ==
    ASSUME WriterInv, phase = "fill", left # 0
    PROVE  Fills(cfg, ConnackProperties[index], left)
<1>1. index \in 1..13 /\ left = SizeUpTo[17] - SizeUpTo[index - 1]
  BY LeftToFill
<1>2. cfg \in ClientConfigs /\ Shaped(cfg)
  BY DEF WriterInv, DecoderInv, DecoderTypeOK
<1>3. /\ SizeUpTo[index] = SizeUpTo[index - 1] + Sizes(index)
      /\ SizeUpTo[index] <= SizeUpTo[17] /\ SizeUpTo[index - 1] \in Nat
      /\ SizeUpTo[index] \in Nat /\ SizeUpTo[17] \in Nat /\ Sizes(index) \in Nat
  <2>1. index \in 1..17 /\ index \in 0..17 /\ index - 1 \in 0..17 /\ 17 \in 0..17
    BY <1>1
  <2> QED BY <1>2, <2>1, SizesAddUp, SizesCount
<1>4. left >= Sizes(index)
  BY <1>1, <1>3
<1>5. ConnackProperties[index] \notin {"RESPONSE_INFORMATION", "SERVER_REFERENCE"}
  BY <1>1 DEF ConnackProperties
<1> QED BY <1>4, <1>5 DEF Fills, Sizes

\* The first packet is a CONNECT, and one that is as it should be goes on.
FirstIsConnect == received = 1 => type = "CONNECT"
GoesOn(m) == received = 1 /\ body = WireConnect(m) /\ Sound(m) => phase \notin {"closed", "message", "crashed"}

LEMMA FirstIsConnectStep == NothingYet /\ DecoderInv /\ FirstIsConnect /\ [Next]_vars => FirstIsConnect'
<1> SUFFICES ASSUME NothingYet, DecoderInv, FirstIsConnect, [Next]_vars PROVE FirstIsConnect'
  OBVIOUS
<1>0. received \in Nat
  BY DEF DecoderInv, DecoderTypeOK
<1>1. CASE Receive
  <2>1. PICK p \in Packets : /\ received = 0 => p.type = "CONNECT"
                             /\ type' = p.type /\ received' = received + 1
    BY <1>1 DEF Receive
  <2>2. received' = 1 => received = 0
    BY <1>0, <2>1
  <2> QED BY <2>1, <2>2 DEF FirstIsConnect
<1>2. CASE ~Receive
  <2>1. type' = type /\ received' = received
    BY <1>2 DEF Next, Decode, Answer, DecodeConnect, RefuseConnect, ReadProperty, RefuseProperty,
         EndProperties, EndPayload, SkipPayload, EnterWillProperties, ReadPayload, RefusePayload,
         DecodePublish, ReadLength, DecodePublishOverrun, ReadMessage, DecodeDisconnect,
         DecodeCrashes, CreateConnack, FillProperty, SendConnack,
         EnterProperties, Refuse, vars, packet
  <2> QED BY <2>1 DEF FirstIsConnect
<1> QED BY <1>1, <1>2

LEMMA GoesOnStep ==
    ASSUME TextIsTaken, WriterInv, FirstIsConnect, [Next]_vars, NEW m, IsMeaning(m),
           PropertiesMeant(m), PayloadsMeant(m), GoesOn(m)
    PROVE  GoesOn(m)'
<1> SUFFICES ASSUME received' = 1, body' = WireConnect(m), Sound(m)
             PROVE  phase' \notin {"closed", "message", "crashed"}
  BY DEF GoesOn, Sound
<1>0. DecoderInv /\ ~HasWill(m)
  BY SoundHasNoWill DEF WriterInv
<1>1. CASE Receive
  BY <1>1 DEF Receive
<1>2. CASE ~Receive
  <2>1. body' = body /\ received' = received
    BY <1>2 DEF Next, Decode, Answer, DecodeConnect, RefuseConnect, ReadProperty, RefuseProperty,
         EndProperties, EndPayload, SkipPayload, EnterWillProperties, ReadPayload, RefusePayload,
         DecodePublish, ReadLength, DecodePublishOverrun, ReadMessage, DecodeDisconnect,
         DecodeCrashes, CreateConnack, FillProperty, SendConnack,
         EnterProperties, Refuse, vars, packet
  <2>2. /\ received = 1 /\ IsMeant(m) /\ body = WireConnect(m) /\ type = "CONNECT"
        /\ phase \notin {"closed", "message", "crashed"}
    BY <2>1 DEF FirstIsConnect, IsMeant, GoesOn
  <2>3. ~RefuseConnect
    BY <1>0, <2>2, ConnectIsTaken DEF RefuseConnect
  <2>4. ~RefuseProperty
    <3> DEFINE p == PropertyOf(body[pos + 1])
               s == Between(pos + 1, stop)
    <3>1. ASSUME phase = "properties", pos # stop
          PROVE  PropertyCode(p, s) = "SUCCESS" /\ Configured(p, s).rcode = "SUCCESS"
      BY <1>0, <2>2, <3>1, PropertyIsTaken
    <3> HIDE DEF p, s
    <3>2. RefuseProperty => /\ phase = "properties" /\ pos # stop
                            /\ \/ PropertyCode(p, s) # "SUCCESS"
                               \/ Configured(p, s).rcode # "SUCCESS"
      BY DEF RefuseProperty, p, s
    <3> QED BY <3>1, <3>2
  <2>5. ~RefusePayload
    BY <1>0, <2>2, PayloadIsTaken DEF RefusePayload
  <2>6. CreateConnack => phase' = "fill"
    BY <2>2, ConnackIsMade DEF CreateConnack
  <2>7. FillProperty => phase' = "fill"
    <3>1. phase = "fill" /\ left # 0 => Fills(cfg, ConnackProperties[index], left)
      BY PropertyIsFilled
    <3> QED BY <3>1 DEF FillProperty
  <2>8. ~DecodeCrashes
    <3>1. ASSUME phase = "header" PROVE body # <<>>
      <4>1. PICK g \in Leftover : ConnectCode(g) = "SUCCESS"
        BY <1>0, <2>2, <3>1, ConnectIsTaken, LeftoverAssumption
      <4> QED BY <4>1 DEF ConnectCode
    <3> QED BY <2>2, <3>1 DEF DecodeCrashes, ReadsAstray, NoMemory
  <2>13. ~(DecodePublish \/ DecodePublishOverrun \/ ReadMessage \/ DecodeDisconnect)
    BY <2>2 DEF DecodePublish, DecodePublishOverrun, ReadMessage, DecodeDisconnect
  <2>9. CASE DecodeConnect \/ EnterWillProperties
    BY <2>9 DEF DecodeConnect, EnterWillProperties, EnterProperties
  <2>10. CASE ReadProperty \/ EndProperties \/ EndPayload \/ SkipPayload \/ ReadPayload
    BY <2>2, <2>10 DEF ReadProperty, EndProperties, EndPayload, SkipPayload, ReadPayload
  <2>11. CASE SendConnack
    BY <2>11 DEF SendConnack
  <2>12. CASE UNCHANGED vars
    BY <2>2, <2>12 DEF vars
  <2> QED BY <1>2, <2>3, <2>4, <2>5, <2>6, <2>7, <2>8, <2>9, <2>10, <2>11, <2>12,
            <2>13 DEF Next, Decode, Answer
<1> QED BY <1>1, <1>2

\* What is known of a first CONNECT that goes on.
Going == FirstIsConnect /\ \A m \in Meanings : GoesOn(m)

LEMMA GoingInit == Init => Going
  BY DEF Init, Going, FirstIsConnect, GoesOn

LEMMA GoingStep ==
    AsksIsValidContent /\ WriterInv /\ Meant /\ Announcing /\ Going /\ [Next]_vars => Going'
<1> SUFFICES ASSUME AsksIsValidContent, WriterInv, Meant, Announcing, Going, [Next]_vars
             PROVE  Going'
  OBVIOUS
<1>1. TextIsTaken
  BY AcceptsStandardText DEF AsksIsValidContent, TextIsTaken, IsText, Strings, Byte, B
<1>2. DecoderInv /\ NothingYet /\ FirstIsConnect /\ FirstIsConnect'
  BY FirstIsConnectStep DEF WriterInv, Meant, Going
<1>3. Announcing'
  BY <1>2, AnnouncingStep
<1>4. ASSUME NEW m \in Meanings PROVE GoesOn(m)'
  <2>1. IsMeaning(m)
    BY MeaningsAssumption
  <2>2. PropertiesMeant(m) /\ PayloadsMeant(m) /\ GoesOn(m)
    BY DEF Meant, Announcing, Going
  <2> QED BY <1>1, <1>2, <1>3, <2>1, <2>2, GoesOnStep
<1> QED BY <1>2, <1>4 DEF Going

LEMMA GoingAccepts == Going => FirstConnectAccepted
  BY DEF Going, FirstConnectAccepted, GoesOn

\* No first CONNECT is refused that is as the standard asks, without will and
\* password, and whose answer stays short: if is_valid_content decides what
\* WELL_FORMED stands for (decode_connect_packet_body and all it calls,
\* create_connack_packet, fill_property).
THEOREM FirstConnectIsAccepted == AsksIsValidContent /\ Spec => []FirstConnectAccepted
<1> SUFFICES ASSUME AsksIsValidContent PROVE Spec => []FirstConnectAccepted
  OBVIOUS
<1>1. WriterInv => DecoderInv
  BY DEF WriterInv
<1>2. WriterInv /\ Meant /\ Announcing /\ Going /\ [Next]_vars => Going'
  BY GoingStep
<1> QED BY <1>1, <1>2, GoingInit, GoingAccepts, WriterInit, WriterStep, MeantInit, MeantStep,
           AnnouncingInit, AnnouncingStep, PTL DEF Spec
===============================================================================
