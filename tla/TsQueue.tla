------------------------------- MODULE TsQueue -------------------------------
(***************************************************************************)
(* lmqtt::ts_queue<T> (lmqtt_tsqueue.h) at the grain of its two mutexes    *)
(* and its condition variable.  A locked operation takes _mxq, reads the   *)
(* deque and writes it back; a push then takes muxBlocking, while it still *)
(* holds _mxq, to notify one sleeper; wait() looks at the deque under      *)
(* _mxq, lets go of it and sleeps under muxBlocking.                       *)
(***************************************************************************)
EXTENDS DequeOps, FiniteSets

CONSTANTS Threads,     \* the threads that share the queue
          Consumers,   \* those that run the loop of lmqtt_server::deleter_job
          OpsOf,       \* OpsOf[t][o]: what any other thread t may call next,
                       \* having called o last
          Values,      \* the elements
          Nothing,     \* no thread (a free mutex), no element
          Cap          \* bound: no push is called when the deque has Cap elements

ASSUME ThreadsAssumption == Consumers \subseteq Threads /\ Nothing \notin Threads
ASSUME ValuesAssumption  == Nothing \notin Values /\ Values # {}

Ops == Locked \cup Referring \cup {"wait", "none"}

ASSUME OpsAssumption == OpsOf \in [Threads -> [Ops -> SUBSET (Ops \ {"none"})]]

VARIABLES deq,          \* _deq
          mxq,          \* the thread that holds _mxq, or Nothing
          muxBlocking,  \* the thread that holds muxBlocking, or Nothing
          pc,           \* pc[t]: where thread t is
          op,           \* op[t]: the operation t is in, or was last in
          arg,          \* arg[t]: its argument
          snap,         \* snap[t]: the deque as t read it, or as its reference
                        \* was taken, inside an operation
          result,       \* result[t]: what t's last operation returned
          crashed       \* an operation met a deque it is undefined on

vars == <<deq, mxq, muxBlocking, pc, op, arg, snap, result, crashed>>
Steps == {"idle", "lock", "access", "block", "notify", "read",
          "check", "gap", "asleep", "woken"}

TypeOK == /\ deq \in Seq(Values)
          /\ mxq \in Threads \cup {Nothing}
          /\ muxBlocking \in Threads \cup {Nothing}
          /\ pc \in [Threads -> Steps]
          /\ op \in [Threads -> Ops]
          /\ arg \in [Threads -> Values]
          /\ snap \in [Threads -> Seq(Values)]
          /\ result \in [Threads -> Values \cup {Nothing} \cup Nat]
          /\ crashed \in BOOLEAN

Init == /\ deq = <<>>
        /\ mxq = Nothing
        /\ muxBlocking = Nothing
        /\ pc = [t \in Threads |-> "idle"]
        /\ op = [t \in Threads |-> "none"]
        /\ arg \in {[t \in Threads |-> v] : v \in Values}
        /\ snap = [t \in Threads |-> <<>>]
        /\ result = [t \in Threads |-> Nothing]
        /\ crashed = FALSE

Goto(t, step) == pc' = [pc EXCEPT ![t] = step]

-------------------------------------------------------------------------------
(* The callers. *)

\* Mutant: deleter_job goes on popping without looking again.
ConsumerCalls_Drains(t, o) ==
    o = CASE op[t] = "wait"                    -> "empty"
          [] op[t] \in {"empty", "pop_front"} -> "pop_front"
          [] OTHER                             -> "wait"

\* Mutant: the test of empty() is inverted.
ConsumerCalls_Inverted(t, o) ==
    o = CASE op[t] = "wait"                      -> "empty"
          [] op[t] = "empty" /\ result[t] = 1    -> "pop_front"
          [] OTHER                               -> "wait"

\* deleter_job: wait(); if (!empty()) pop_front(); and again.
ConsumerCalls(t, o) ==
    o = CASE op[t] = "wait"                      -> "empty"
          [] op[t] = "empty" /\ result[t] = 0    -> "pop_front"
          [] OTHER                               -> "wait"

MayCall(t, o) == IF t \in Consumers THEN ConsumerCalls(t, o) ELSE o \in OpsOf[t][op[t]]

Pushing(t) == op[t] \in Pushes /\ pc[t] \in {"lock", "access"}

Call(t, o, v) ==
    /\ pc[t] = "idle"
    /\ MayCall(t, o)
    /\ o \in Pushes => Len(deq) + Cardinality({u \in Threads : Pushing(u)}) < Cap
    /\ op' = [op EXCEPT ![t] = o]
    /\ arg' = IF o \in Pushes \cup {"find_and_erase"} THEN [arg EXCEPT ![t] = v] ELSE arg
    /\ Goto(t, IF o = "wait" THEN "check" ELSE IF o \in Unlocked THEN "read" ELSE "lock")
    /\ snap' = IF o \in Unlocked THEN [snap EXCEPT ![t] = deq] ELSE snap
    /\ UNCHANGED <<deq, mxq, muxBlocking, result, crashed>>

-------------------------------------------------------------------------------
(* The operations under _mxq. *)

\* Mutant: "std::scoped_lock(_mxq);", as in back(), everywhere.
MxqFree_Unlocked == TRUE

\* std::scoped_lock lock(_mxq) gets past.
MxqFree == mxq = Nothing

Lock(t) ==
    /\ pc[t] = "lock"
    /\ MxqFree
    /\ mxq' = t
    /\ snap' = [snap EXCEPT ![t] = deq]
    /\ Goto(t, "access")
    /\ UNCHANGED <<deq, muxBlocking, op, arg, result, crashed>>

Access(t) ==
    /\ pc[t] = "access"
    /\ op[t] \in Locked
    /\ Defined(op[t], snap[t])
    /\ deq' = IF op[t] \in Writes THEN After(op[t], snap[t], arg[t]) ELSE deq
    /\ result' = [result EXCEPT ![t] = Answer(op[t], snap[t], Nothing)]
    /\ IF op[t] \in Pushes THEN Goto(t, "block") /\ UNCHANGED mxq
                           ELSE Goto(t, "idle") /\ mxq' = Nothing
    /\ snap' = [snap EXCEPT ![t] = <<>>]
    /\ UNCHANGED <<muxBlocking, op, arg, crashed>>

\* front() takes its reference and lets go of _mxq.
Refer(t) ==
    /\ pc[t] = "access"
    /\ op[t] = "front"
    /\ Defined(op[t], snap[t])
    /\ mxq' = Nothing
    /\ Goto(t, "read")
    /\ UNCHANGED <<deq, muxBlocking, op, arg, snap, result, crashed>>

\* front(), back() or a pop of an empty std::deque is undefined behaviour.
Undefined(t) ==
    /\ pc[t] \in {"access", "read"}
    /\ ~Defined(op[t], snap[t])
    /\ crashed' = TRUE
    /\ UNCHANGED <<deq, mxq, muxBlocking, pc, op, arg, snap, result>>

-------------------------------------------------------------------------------
(* push_front and push_back go on to notify. *)

LockBlocking(t) ==
    /\ pc[t] = "block"
    /\ muxBlocking = Nothing
    /\ muxBlocking' = t
    /\ Goto(t, "notify")
    /\ UNCHANGED <<deq, mxq, op, arg, snap, result, crashed>>

\* notify_one; then both locks go out of scope.
Notify(t) ==
    /\ pc[t] = "notify"
    /\ IF \E w \in Threads : pc[w] = "asleep"
       THEN \E w \in Threads : /\ pc[w] = "asleep"
                               /\ pc' = [pc EXCEPT ![t] = "idle", ![w] = "woken"]
       ELSE Goto(t, "idle")
    /\ mxq' = Nothing
    /\ muxBlocking' = Nothing
    /\ UNCHANGED <<deq, op, arg, snap, result, crashed>>

-------------------------------------------------------------------------------
(* The reads under no lock: the caller's through the reference it was given, *)
(* and before it those by which back() and operator[] come by theirs.        *)

Writing(t) == pc[t] = "access" /\ op[t] \in Writes

\* A push leaves the elements of a std::deque where they are, so it does not
\* disturb who has a reference already; back() and operator[] look for theirs.
Disturbs(u, t) == Writing(u) /\ ~(op[t] = "front" /\ op[u] \in Pushes)

\* What t's reference is to is still there, and no other thread is at it.
Intact(t) ==
    /\ \A u \in Threads : ~Disturbs(u, t)
    /\ IF op[t] = "front"
       THEN \E i \in 0..(Len(deq) - Len(snap[t])) : SubSeq(deq, i + 1, i + Len(snap[t])) = snap[t]
       ELSE snap[t] = deq

Read(t) ==
    /\ pc[t] = "read"
    /\ Defined(op[t], snap[t])
    /\ \E v \in IF Intact(t) THEN ReferredTo(op[t], snap[t]) ELSE Values \cup {Nothing} :
           result' = [result EXCEPT ![t] = v]
    /\ Goto(t, "idle")
    /\ snap' = [snap EXCEPT ![t] = <<>>]
    /\ UNCHANGED <<deq, mxq, muxBlocking, op, arg, crashed>>

-------------------------------------------------------------------------------
(* wait(): while (empty()) { lock muxBlocking; cv.wait }. *)

\* empty() takes and releases _mxq.
Check(t) ==
    /\ pc[t] = "check"
    /\ MxqFree
    /\ IF deq = <<>> THEN Goto(t, "gap") /\ UNCHANGED result
                     ELSE Goto(t, "idle") /\ result' = [result EXCEPT ![t] = Nothing]
    /\ UNCHANGED <<deq, mxq, muxBlocking, op, arg, snap, crashed>>

\* A push between Check and Sleep notifies nobody.
Sleep(t) ==
    /\ pc[t] = "gap"
    /\ muxBlocking = Nothing
    /\ Goto(t, "asleep")
    /\ UNCHANGED <<deq, mxq, muxBlocking, op, arg, snap, result, crashed>>

SpuriousWake(t) ==
    /\ pc[t] = "asleep"
    /\ Goto(t, "woken")
    /\ UNCHANGED <<deq, mxq, muxBlocking, op, arg, snap, result, crashed>>

\* Mutant: the unique_lock is declared outside the loop.
Reacquire_Keeps(t) ==
    /\ pc[t] = "woken"
    /\ muxBlocking = Nothing
    /\ muxBlocking' = t
    /\ Goto(t, "check")
    /\ UNCHANGED <<deq, mxq, op, arg, snap, result, crashed>>

\* cv.wait locks muxBlocking again; the loop body ends and unlocks it.
Reacquire(t) ==
    /\ pc[t] = "woken"
    /\ muxBlocking = Nothing
    /\ Goto(t, "check")
    /\ UNCHANGED <<deq, mxq, muxBlocking, op, arg, snap, result, crashed>>

-------------------------------------------------------------------------------

\* What the scheduler owes a thread that is inside an operation.
Proceed(t) == \/ Lock(t) \/ Access(t) \/ Refer(t) \/ Undefined(t)
              \/ LockBlocking(t) \/ Notify(t) \/ Read(t)
              \/ Check(t) \/ Sleep(t) \/ Reacquire(t)

Step(t) == \/ \E o \in Ops, v \in Values : Call(t, o, v)
           \/ Proceed(t)
           \/ SpuriousWake(t)

Terminated == crashed /\ UNCHANGED vars

Next == \/ ~crashed /\ \E t \in Threads : Step(t)
        \/ Terminated

Spec == Init /\ [][Next]_vars

\* Every thread is scheduled, and one that keeps finding a mutex free gets it;
\* a consumer always makes its next call.  Producers need not call anything,
\* and no spurious wakeup is owed to anybody.
Fairness ==
    \A t \in Threads :
        /\ SF_vars(~crashed /\ Proceed(t))
        /\ t \in Consumers => WF_vars(~crashed /\ \E o \in Ops, v \in Values : Call(t, o, v))

FairSpec == Spec /\ Fairness

-------------------------------------------------------------------------------
(* Properties. *)

\* "At any given moment, the queue can be accessed by multiple resources":
\* while one thread writes the deque no other thread reads or writes it, be it
\* through a reference.
NoDataRace ==
    \A t, u \in Threads :
        (Writing(t) /\ pc[u] = "access") \/ (Disturbs(t, u) /\ pc[u] = "read") => t = u

\* deleter_job checks the queue and pops it in two separate calls, and no lock
\* spans both: it still never pops an empty deque.
NeverPopsEmpty == ~crashed

\* A push holds _mxq while it waits for muxBlocking, and wait() uses both
\* mutexes in the other order: no push stays blocked for ever.
PushReturns == \A t \in Threads : pc[t] = "block" ~> pc[t] = "idle"

\* A consumer that is awake when there is something in the queue, even if it
\* still has to look, goes on to pop it.
AwakeTakes ==
    \A t \in Consumers : (pc[t] = "check" /\ deq # <<>>)
                             ~> (op[t] = "pop_front" /\ pc[t] = "idle")

\* Every operation that answers by value appears to happen at one instant, with
\* the answer of that instant: the lock-level queue is an AtomicDeque, which
\* promises nothing of what a reference shows, however its callers interleave.
Abstract == INSTANCE AtomicDeque WITH items <- deq
Linearizable == Abstract!ASpec
===============================================================================
