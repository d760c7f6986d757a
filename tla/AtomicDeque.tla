------------------------------ MODULE AtomicDeque ------------------------------
(***************************************************************************)
(* What lmqtt_tsqueue.h promises ("a thread-safe queue"): one deque that   *)
(* several threads operate on, every operation taking effect at one        *)
(* instant, with the answer that instant gives.  It promises so much of    *)
(* the operations that answer by value only.  TsQueue implements it.       *)
(***************************************************************************)
EXTENDS DequeOps

CONSTANTS Threads, Values, Nothing

VARIABLES items,    \* the elements, front first
          result    \* result[t]: what the last operation of thread t returned

avars == <<items, result>>

AInit == items = <<>> /\ result = [t \in Threads |-> Nothing]

Apply(t, op, v) ==
    /\ Defined(op, items)
    /\ items' = After(op, items, v)
    /\ result' = [result EXCEPT ![t] = Answer(op, items, Nothing)]

\* wait() returns without a value.
WaitReturns(t) ==
    /\ result' = [result EXCEPT ![t] = Nothing]
    /\ UNCHANGED items

\* front(), back() and operator[] return references, which are read outside of
\* any lock: nothing is promised of what is found there, only that reading it
\* leaves the deque alone.
Glance(t) ==
    /\ \E v \in Values \cup {Nothing} : result' = [result EXCEPT ![t] = v]
    /\ UNCHANGED items

ANext == \E t \in Threads : \/ \E op \in Locked, v \in Values : Apply(t, op, v)
                            \/ WaitReturns(t)
                            \/ Glance(t)

ASpec == AInit /\ [][ANext]_avars
===============================================================================
