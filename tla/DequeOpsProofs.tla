---------------------------- MODULE DequeOpsProofs ----------------------------
(***************************************************************************)
(* Lemmas about the deque operations: they keep sequences sequences, and   *)
(* find_and_erase takes out the one occurrence of an element.              *)
(***************************************************************************)
EXTENDS DequeOps, SequenceTheorems, TLAPS

\* Removing one position leaves a sequence of the same elements.
LEMMA RemoveAtType ==
    ASSUME NEW V, NEW s \in Seq(V), NEW i \in 1..Len(s)
    PROVE  RemoveAt(s, i) \in Seq(V)
<1>1. SubSeq(s, 1, i - 1) \in Seq(V)
  <2>1. \A k \in 1..(i - 1) : s[k] \in V
    BY ElementOfSeq
  <2> QED BY <2>1, SubSeqProperties
<1>2. SubSeq(s, i + 1, Len(s)) \in Seq(V)
  <2>1. \A k \in (i + 1)..Len(s) : s[k] \in V
    BY ElementOfSeq
  <2> QED BY <2>1, SubSeqProperties
<1> QED BY <1>1, <1>2, ConcatProperties DEF RemoveAt

\* find_and_erase leaves a sequence of the same elements.
LEMMA EraseFirstType ==
    ASSUME NEW V, NEW s \in Seq(V), NEW v
    PROVE  EraseFirst(s, v) \in Seq(V)
<1>1. CASE \E i \in 1..Len(s) : FirstAt(s, v, i)
  <2>1. (CHOOSE i \in 1..Len(s) : FirstAt(s, v, i)) \in 1..Len(s)
    BY <1>1
  <2> QED BY <1>1, <2>1, RemoveAtType DEF EraseFirst
<1>2. CASE ~\E i \in 1..Len(s) : FirstAt(s, v, i)
  BY <1>2 DEF EraseFirst
<1> QED BY <1>1, <1>2

\* Every defined operation leaves a sequence of the same elements.
LEMMA AfterType ==
    ASSUME NEW V, NEW s \in Seq(V), NEW v \in V, NEW o \in Locked, Defined(o, s)
    PROVE  After(o, s, v) \in Seq(V)
<1>1. CASE o = "push_front"
  <2>1. <<v>> \o s \in Seq(V)
    BY ConcatProperties
  <2> QED BY <1>1, <2>1 DEF After
<1>2. CASE o = "push_back"
  BY <1>2 DEF After
<1>3. CASE o = "pop_front"
  BY <1>3 DEF After, Defined, Pops
<1>4. CASE o = "pop_back"
  <2>1. \A k \in 1..(Len(s) - 1) : s[k] \in V
    BY ElementOfSeq
  <2>2. SubSeq(s, 1, Len(s) - 1) \in Seq(V)
    BY <2>1, SubSeqProperties
  <2> QED BY <1>4, <2>2 DEF After
<1>5. CASE o = "clear"
  BY <1>5 DEF After
<1>6. CASE o = "find_and_erase"
  <2>1. EraseFirst(s, v) \in Seq(V)
    BY EraseFirstType
  <2> QED BY <1>6, <2>1 DEF After
<1>7. CASE o \in {"empty", "size"}
  BY <1>7 DEF After
<1> QED BY <1>1, <1>2, <1>3, <1>4, <1>5, <1>6, <1>7 DEF Locked, Writes, Pushes, Pops

\* Every defined operation answers with an element, a number or nothing.
LEMMA AnswerType ==
    ASSUME NEW V, NEW s \in Seq(V), NEW nothing, NEW o, Defined(o, s)
    PROVE  Answer(o, s, nothing) \in V \cup {nothing} \cup Nat
<1>1. CASE o \in Pops
  <2>1. s # <<>>
    BY <1>1 DEF Defined
  <2>2. Len(s) \in Nat /\ Len(s) >= 1
    BY <2>1, EmptySeq, LenProperties
  <2>3. s[1] \in V /\ s[Len(s)] \in V
    BY <2>2, ElementOfSeq
  <2> QED BY <1>1, <2>3 DEF Answer, Pops
<1>2. CASE o \notin Pops
  BY <1>2, LenProperties DEF Answer, Pops
<1> QED BY <1>1, <1>2

\* A reference is to an element.
LEMMA ReferredToType ==
    ASSUME NEW V, NEW s \in Seq(V), NEW o \in Referring, Defined(o, s)
    PROVE  ReferredTo(o, s) \subseteq V
<1>1. s # <<>>
  BY DEF Defined
<1>2. Len(s) \in Nat /\ Len(s) >= 1
  BY <1>1, EmptySeq, LenProperties
<1>3. \A i \in 1..Len(s) : s[i] \in V
  BY <1>2, ElementOfSeq
<1> QED BY <1>2, <1>3 DEF ReferredTo

-------------------------------------------------------------------------------
(* Members. *)

\* push_back adds its argument and nothing else.
LEMMA AppendMembers ==
    ASSUME NEW V, NEW s \in Seq(V), NEW v \in V, NEW w
    PROVE  Contains(Append(s, v), w) <=> Contains(s, w) \/ w = v
<1>1. /\ Len(s) \in Nat
      /\ Len(Append(s, v)) = Len(s) + 1
      /\ \A i \in 1..Len(s) : Append(s, v)[i] = s[i]
      /\ Append(s, v)[Len(s) + 1] = v
  BY AppendProperties, LenProperties
<1>2. ASSUME Contains(Append(s, v), w) PROVE Contains(s, w) \/ w = v
  BY <1>1, <1>2 DEF Contains
<1>3. ASSUME Contains(s, w) PROVE Contains(Append(s, v), w)
  BY <1>1, <1>3 DEF Contains
<1>4. Contains(Append(s, v), v)
  BY <1>1 DEF Contains
<1> QED BY <1>2, <1>3, <1>4

\* pop_front takes the head, and no element that was not there appears.
LEMMA TailMembers ==
    ASSUME NEW V, NEW s \in Seq(V), s # <<>>, NEW w
    PROVE  /\ Tail(s) \in Seq(V)
           /\ Head(s) \in V /\ Contains(s, Head(s))
           /\ Contains(s, w) <=> Contains(Tail(s), w) \/ w = Head(s)
<1>1. /\ Len(s) \in Nat /\ Len(s) >= 1 /\ Head(s) = s[1]
      /\ Len(Tail(s)) = Len(s) - 1
      /\ \A i \in 1..Len(Tail(s)) : Tail(s)[i] = s[i + 1]
      /\ Tail(s) \in Seq(V) /\ Head(s) \in V
  BY HeadTailProperties, LenProperties, EmptySeq
<1>2. Contains(s, Head(s))
  BY <1>1 DEF Contains
<1>3. ASSUME Contains(s, w), w # Head(s) PROVE Contains(Tail(s), w)
  <2>1. PICK i \in 1..Len(s) : s[i] = w
    BY <1>3 DEF Contains
  <2>2. i - 1 \in 1..Len(Tail(s)) /\ Tail(s)[i - 1] = w
    BY <1>1, <1>3, <2>1
  <2> QED BY <2>2 DEF Contains
<1>4. ASSUME Contains(Tail(s), w) PROVE Contains(s, w)
  <2>1. PICK i \in 1..Len(Tail(s)) : Tail(s)[i] = w
    BY <1>4 DEF Contains
  <2>2. i + 1 \in 1..Len(s) /\ s[i + 1] = w
    BY <1>1, <2>1
  <2> QED BY <2>2 DEF Contains
<1> QED BY <1>1, <1>2, <1>3, <1>4

\* Nothing occurs twice.
Unique(s) == \A i, j \in 1..Len(s) : s[i] = s[j] => i = j

\* push_back of a new element keeps a deque free of duplicates, with it at the back.
LEMMA AppendUnique ==
    ASSUME NEW V, NEW s \in Seq(V), NEW v \in V, Unique(s), ~Contains(s, v)
    PROVE  /\ Unique(Append(s, v))
           /\ Append(s, v) # <<>> /\ Last(Append(s, v)) = v
<1>1. /\ Len(s) \in Nat
      /\ Len(Append(s, v)) = Len(s) + 1
      /\ \A i \in 1..Len(s) : Append(s, v)[i] = s[i]
      /\ Append(s, v)[Len(s) + 1] = v
  BY AppendProperties, LenProperties
<1>2. \A i \in 1..Len(s) : s[i] # v
  BY DEF Contains
<1>3. Unique(Append(s, v))
  <2> SUFFICES ASSUME NEW i \in 1..Len(Append(s, v)), NEW j \in 1..Len(Append(s, v)),
                      Append(s, v)[i] = Append(s, v)[j]
               PROVE  i = j
    BY DEF Unique
  <2>1. CASE i \in 1..Len(s) /\ j \in 1..Len(s)
    BY <1>1, <2>1 DEF Unique
  <2>2. CASE i \notin 1..Len(s) \/ j \notin 1..Len(s)
    BY <1>1, <1>2, <2>2
  <2> QED BY <2>1, <2>2
<1>4. Append(s, v) # <<>>
  BY <1>1, EmptySeq
<1>5. Last(Append(s, v)) = v
  BY <1>1 DEF Last
<1> QED BY <1>3, <1>4, <1>5

\* Removing position i shifts what follows it.
LEMMA RemoveAtElements ==
    ASSUME NEW V, NEW s \in Seq(V), NEW i \in 1..Len(s)
    PROVE  /\ Len(RemoveAt(s, i)) = Len(s) - 1
           /\ \A k \in 1..(Len(s) - 1) :
                  RemoveAt(s, i)[k] = IF k < i THEN s[k] ELSE s[k + 1]
<1> DEFINE a == SubSeq(s, 1, i - 1)
           b == SubSeq(s, i + 1, Len(s))
<1>1. Len(s) \in Nat /\ i \in Int
  BY LenProperties
<1>2. /\ a \in Seq(V) /\ Len(a) = i - 1
      /\ \A k \in 1..(i - 1) : a[k] = s[k]
  <2>1. \A k \in 1..(i - 1) : s[k] \in V
    BY <1>1, ElementOfSeq
  <2> QED BY <1>1, <2>1, SubSeqProperties
<1>3. /\ b \in Seq(V) /\ Len(b) = Len(s) - i
      /\ \A k \in 1..(Len(s) - i) : b[k] = s[i + k]
  <2>1. \A k \in (i + 1)..Len(s) : s[k] \in V
    BY <1>1, ElementOfSeq
  <2> QED BY <1>1, <2>1, SubSeqProperties
<1> HIDE DEF a, b
<1>4. /\ Len(a \o b) = Len(a) + Len(b)
      /\ \A k \in 1..(Len(a) + Len(b)) : (a \o b)[k] = IF k <= Len(a) THEN a[k] ELSE b[k - Len(a)]
  BY <1>2, <1>3, ConcatProperties
<1>5. RemoveAt(s, i) = a \o b
  BY DEF RemoveAt, a, b
<1>6. Len(a) + Len(b) = Len(s) - 1
  BY <1>1, <1>2, <1>3
<1>7. ASSUME NEW k \in 1..(Len(s) - 1)
      PROVE  (a \o b)[k] = IF k < i THEN s[k] ELSE s[k + 1]
  <2>1. CASE k < i
    <3>1. k \in 1..(i - 1) /\ k <= Len(a)
      BY <1>1, <1>2, <2>1
    <3> QED BY <1>2, <1>4, <1>6, <2>1, <3>1
  <2>2. CASE ~(k < i)
    <3>1. /\ k - Len(a) = k - i + 1 /\ ~(k <= Len(a))
          /\ k - i + 1 \in 1..(Len(s) - i) /\ i + (k - i + 1) = k + 1
      BY <1>1, <1>2, <2>2
    <3> QED BY <1>3, <1>4, <1>6, <2>2, <3>1
  <2> QED BY <2>1, <2>2
<1> QED BY <1>4, <1>5, <1>6, <1>7

\* Of a deque without duplicates, find_and_erase takes out its argument, keeps
\* the others, and leaves the last one last.
LEMMA EraseMembers ==
    ASSUME NEW V, NEW s \in Seq(V), Unique(s), NEW v
    PROVE  LET r == EraseFirst(s, v)
           IN /\ Len(r) <= Len(s)
              /\ Unique(r)
              /\ \A w : Contains(r, w) <=> Contains(s, w) /\ w # v
              /\ s # <<>> /\ Last(s) # v => r # <<>> /\ Last(r) = Last(s)
<1> DEFINE r == EraseFirst(s, v)
<1>0. Len(s) \in Nat
  BY LenProperties
<1>1. CASE \E i \in 1..Len(s) : FirstAt(s, v, i)
  <2>1. PICK i \in 1..Len(s) : FirstAt(s, v, i) /\ r = RemoveAt(s, i)
    BY <1>1 DEF EraseFirst
  <2>2. s[i] = v
    BY <2>1 DEF FirstAt
  <2>3. /\ Len(r) = Len(s) - 1
        /\ \A k \in 1..(Len(s) - 1) : r[k] = IF k < i THEN s[k] ELSE s[k + 1]
    BY <2>1, RemoveAtElements
  <2> HIDE DEF r
  <2>4. Unique(r)
    BY <1>0, <2>3 DEF Unique
  <2>5. ASSUME NEW w, Contains(r, w) PROVE Contains(s, w) /\ w # v
    BY <1>0, <2>2, <2>3, <2>5 DEF Contains, Unique
  <2>6. ASSUME NEW w, Contains(s, w), w # v PROVE Contains(r, w)
    <3>1. PICK k \in 1..Len(s) : s[k] = w
      BY <2>6 DEF Contains
    <3>2. CASE k < i
      BY <1>0, <2>3, <3>1, <3>2 DEF Contains
    <3>3. CASE k > i
      <4>1. k - 1 \in 1..Len(r) /\ r[k - 1] = w
        BY <1>0, <2>3, <3>1, <3>3
      <4> QED BY <4>1 DEF Contains
    <3> QED BY <1>0, <2>2, <2>6, <3>1, <3>2, <3>3
  <2>7. ASSUME s # <<>>, Last(s) # v PROVE r # <<>> /\ Last(r) = Last(s)
    <3>1. i < Len(s)
      BY <1>0, <2>2, <2>7 DEF Last
    <3>2. Len(r) >= 1
      BY <1>0, <2>3, <3>1
    <3>3. r[Len(r)] = s[Len(s)]
      BY <1>0, <2>3, <3>1, <3>2
    <3> QED BY <3>2, <3>3 DEF Last
  <2> QED BY <1>0, <2>3, <2>4, <2>5, <2>6, <2>7 DEF r
<1>2. CASE ~\E i \in 1..Len(s) : FirstAt(s, v, i)
  <2>1. r = s
    BY <1>2 DEF EraseFirst
  <2>2. ~Contains(s, v)
    <3> SUFFICES ASSUME NEW i \in 1..Len(s), s[i] = v PROVE FALSE
      BY DEF Contains
    <3>1. FirstAt(s, v, i)
      BY <1>0 DEF FirstAt, Unique
    <3> QED BY <1>2, <3>1
  <2> QED BY <1>0, <2>1, <2>2
<1> QED BY <1>1, <1>2
===============================================================================
