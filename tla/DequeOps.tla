------------------------------- MODULE DequeOps -------------------------------
(***************************************************************************)
(* The std::deque operations that ts_queue wraps, as functions of the      *)
(* sequence of elements: what an operation leaves behind, what it answers, *)
(* and when it is defined.  Elements are opaque.                           *)
(***************************************************************************)
EXTENDS Naturals, SequencesExt

Pushes   == {"push_front", "push_back"}
Pops     == {"pop_front", "pop_back"}
Writes   == Pushes \cup Pops \cup {"clear", "find_and_erase"}
\* These do all their work under _mxq and answer with a value, or not at all.
Locked   == Writes \cup {"empty", "size"}
\* back() and operator[] declare a scoped_lock named _mxq: they lock nothing.
Unlocked == {"back", "index"}
\* These answer with a reference, which the caller reads when no lock is held
\* any more; front() has at least taken it under _mxq.
Referring == Unlocked \cup {"front"}

\* std::find, then erase of the one element found: later duplicates stay.
FirstAt(s, v, i) == s[i] = v /\ \A j \in 1..(i - 1) : s[j] # v
EraseFirst(s, v) ==
    IF \E i \in 1..Len(s) : FirstAt(s, v, i)
    THEN RemoveAt(s, CHOOSE i \in 1..Len(s) : FirstAt(s, v, i))
    ELSE s

\* std::deque leaves these undefined on an empty container.
Defined(op, s) == op \in Pops \cup Referring => s # <<>>

\* The elements after op with argument v.
After(op, s, v) ==
    CASE op = "push_front"     -> <<v>> \o s
      [] op = "push_back"      -> Append(s, v)
      [] op = "pop_front"      -> Tail(s)
      [] op = "pop_back"       -> SubSeq(s, 1, Len(s) - 1)
      [] op = "clear"          -> <<>>
      [] op = "find_and_erase" -> EraseFirst(s, v)
      [] OTHER                 -> s

\* Mutant: size() is the index of the last element.
Answer_LastIndex(op, s, nothing) == IF op = "size" THEN Len(s) - 1 ELSE nothing

\* What op returns by value; nothing is returned by the void operations.
Answer(op, s, nothing) ==
    CASE op = "pop_front" -> s[1]
      [] op = "pop_back"  -> s[Len(s)]
      [] op = "size"      -> Len(s)
      [] op = "empty"     -> IF s = <<>> THEN 1 ELSE 0
      [] OTHER            -> nothing

\* The elements that the reference op returns may be to: operator[] is called
\* with any index there is.
ReferredTo(op, s) ==
    CASE op = "front" -> {s[1]}
      [] op = "back"  -> {s[Len(s)]}
      [] OTHER        -> {s[i] : i \in 1..Len(s)}
===============================================================================
