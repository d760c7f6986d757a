----------------------------- MODULE TsQueueProofs -----------------------------
(***************************************************************************)
(* Theorems about TsQueue, for any threads, elements and usage of the      *)
(* queue: its type invariant, mutual exclusion on the deque for users that *)
(* keep away from the operations that return references, and that for the  *)
(* other operations it implements the atomic deque.                        *)
(***************************************************************************)
EXTENDS TsQueue, DequeOpsProofs

-------------------------------------------------------------------------------
(* The inductive invariant. *)

\* An operation is where operations of its kind can be.
Inside == \A t \in Threads :
              /\ pc[t] \in {"lock", "access"} => op[t] \in Locked \cup {"front"}
              /\ pc[t] \in {"block", "notify"} => op[t] \in Pushes
              /\ pc[t] = "read" => op[t] \in Referring

\* A thread between the lock and the unlock of _mxq is its holder.
Holder == \A t \in Threads : pc[t] \in {"access", "block", "notify"} => mxq = t

\* What a thread read under _mxq is still the deque when it writes it back.
Fresh == \A t \in Threads : pc[t] = "access" => snap[t] = deq

QInv == TypeOK /\ Inside /\ Holder /\ Fresh

LEMMA QInit == Init => QInv
<1> SUFFICES ASSUME Init PROVE QInv
  OBVIOUS
<1>1. arg \in [Threads -> Values]
  BY DEF Init
<1>2. deq \in Seq(Values) /\ snap \in [Threads -> Seq(Values)]
  <2>1. <<>> \in Seq(Values)
    OBVIOUS
  <2> QED BY <2>1 DEF Init
<1>3. TypeOK
  BY <1>1, <1>2 DEF Init, TypeOK, Steps, Ops
<1> QED BY <1>3 DEF Init, QInv, Inside, Holder, Fresh

\* A step of a thread keeps the types.
LEMMA TypeStep ==
    ASSUME QInv, NEW t \in Threads, Step(t)
    PROVE  TypeOK'
<1> USE DEF QInv, TypeOK, Goto
<1>1. ASSUME NEW o \in Ops, NEW v \in Values, Call(t, o, v) PROVE TypeOK'
  BY <1>1 DEF Call, Steps
<1>2. CASE Lock(t)
  BY <1>2 DEF Lock, Steps
<1>3. CASE Access(t)
  <2>1. op[t] \in Locked /\ Defined(op[t], snap[t])
    BY <1>3 DEF Access
  <2>2. deq' \in Seq(Values)
    BY <1>3, <2>1, AfterType DEF Access
  <2>3. Answer(op[t], snap[t], Nothing) \in Values \cup {Nothing} \cup Nat
    BY <2>1, AnswerType
  <2>4. result' \in [Threads -> Values \cup {Nothing} \cup Nat]
    BY <1>3, <2>3 DEF Access
  <2>5. pc' \in [Threads -> Steps] /\ mxq' \in Threads \cup {Nothing}
    BY <1>3 DEF Access, Steps
  <2>6. snap' \in [Threads -> Seq(Values)]
    BY <1>3 DEF Access
  <2> QED BY <1>3, <2>2, <2>4, <2>5, <2>6 DEF Access
<1>4. CASE Undefined(t)
  BY <1>4 DEF Undefined
<1>5. CASE LockBlocking(t)
  BY <1>5 DEF LockBlocking, Steps
<1>6. CASE Notify(t)
  BY <1>6 DEF Notify, Steps
<1>7. CASE Read(t)
  <2>1. ReferredTo(op[t], snap[t]) \subseteq Values
    BY <1>7, ReferredToType DEF Read, Inside
  <2>2. result' \in [Threads -> Values \cup {Nothing} \cup Nat]
    BY <1>7, <2>1 DEF Read
  <2> QED BY <1>7, <2>2 DEF Read, Steps
<1>8. CASE Check(t)
  BY <1>8 DEF Check, Steps
<1>9. CASE Refer(t) \/ Sleep(t) \/ SpuriousWake(t) \/ Reacquire(t)
  BY <1>9 DEF Refer, Sleep, SpuriousWake, Reacquire, Steps
<1> QED BY <1>1, <1>2, <1>3, <1>4, <1>5, <1>6, <1>7, <1>8, <1>9 DEF Step, Proceed

\* A thread calls an operation the queue has.
LEMMA CallsAnOperation ==
    ASSUME TypeOK, NEW t \in Threads, NEW o \in Ops, NEW v \in Values, Call(t, o, v)
    PROVE  o # "none"
<1>1. CASE t \in Consumers
  BY <1>1 DEF Call, MayCall, ConsumerCalls
<1>2. CASE t \notin Consumers
  BY <1>2, OpsAssumption DEF Call, MayCall, TypeOK
<1> QED BY <1>1, <1>2

\* A step of a thread keeps every operation, and _mxq, where it belongs.
LEMMA HolderStep ==
    ASSUME QInv, NEW t \in Threads, Step(t)
    PROVE  Inside' /\ Holder'
<1> USE ThreadsAssumption DEF QInv, TypeOK, Inside, Holder, Goto
<1>1. ASSUME NEW o \in Ops, NEW v \in Values, Call(t, o, v) PROVE Inside' /\ Holder'
  <2>1. o # "none"
    BY <1>1, CallsAnOperation
  <2> QED BY <1>1, <2>1 DEF Call, Ops, Referring
<1>2. CASE Lock(t)
  BY <1>2 DEF Lock, MxqFree
<1>3. CASE Access(t)
  BY <1>3 DEF Access
<1>4. CASE Undefined(t)
  BY <1>4 DEF Undefined
<1>5. CASE LockBlocking(t)
  BY <1>5 DEF LockBlocking
<1>6. CASE Notify(t)
  BY <1>6 DEF Notify
<1>7. CASE Read(t)
  BY <1>7 DEF Read
<1>8. CASE Check(t)
  BY <1>8 DEF Check
<1>9. CASE Refer(t) \/ Sleep(t) \/ SpuriousWake(t) \/ Reacquire(t)
  BY <1>9 DEF Refer, Sleep, SpuriousWake, Reacquire, Referring
<1> QED BY <1>1, <1>2, <1>3, <1>4, <1>5, <1>6, <1>7, <1>8, <1>9 DEF Step, Proceed

\* Nobody changes the deque under the thread that holds _mxq.
LEMMA FreshStep ==
    ASSUME QInv, NEW t \in Threads, Step(t)
    PROVE  Fresh'
<1> USE ThreadsAssumption DEF QInv, TypeOK, Holder, Fresh, Goto
<1>1. ASSUME NEW o \in Ops, NEW v \in Values, Call(t, o, v) PROVE Fresh'
  BY <1>1 DEF Call
<1>2. CASE Lock(t)
  BY <1>2 DEF Lock
<1>3. CASE Access(t)
  BY <1>3 DEF Access
<1>4. CASE Undefined(t)
  BY <1>4 DEF Undefined
<1>5. CASE LockBlocking(t)
  BY <1>5 DEF LockBlocking
<1>6. CASE Notify(t)
  BY <1>6 DEF Notify
<1>7. CASE Read(t)
  BY <1>7 DEF Read
<1>8. CASE Check(t)
  BY <1>8 DEF Check
<1>9. CASE Refer(t) \/ Sleep(t) \/ SpuriousWake(t) \/ Reacquire(t)
  BY <1>9 DEF Refer, Sleep, SpuriousWake, Reacquire
<1> QED BY <1>1, <1>2, <1>3, <1>4, <1>5, <1>6, <1>7, <1>8, <1>9 DEF Step, Proceed

LEMMA QInductive == QInv /\ [Next]_vars => QInv'
<1> SUFFICES ASSUME QInv, [Next]_vars PROVE QInv'
  OBVIOUS
<1>1. ASSUME NEW t \in Threads, Step(t) PROVE QInv'
  BY <1>1, TypeStep, HolderStep, FreshStep DEF QInv
<1>2. CASE UNCHANGED vars
  BY <1>2 DEF vars, QInv, TypeOK, Inside, Holder, Fresh
<1> QED BY <1>1, <1>2 DEF Next, Terminated

THEOREM QInvariant == Spec => []QInv
<1> QED BY QInit, QInductive, PTL DEF Spec

\* The types hold in every reachable state of every use of the queue.
THEOREM TypeCorrect == Spec => []TypeOK
<1>1. QInv => TypeOK
  BY DEF QInv
<1> QED BY <1>1, QInvariant, PTL

-------------------------------------------------------------------------------
(* Mutual exclusion. *)

\* How lmqtt_server uses _deletionQueue: nobody calls front(), back() or
\* operator[], so nobody holds a reference into the deque.
NoReferences == \A t \in Threads, o \in Ops : OpsOf[t][o] \cap Referring = {}

\* No thread is in an operation that returns a reference.
NoReader == \A t \in Threads : pc[t] # "read" /\ (pc[t] \in {"lock", "access"} => op[t] # "front")

LEMMA NoReaderStep ==
    ASSUME NoReferences, TypeOK, NoReader, [Next]_vars
    PROVE  NoReader'
<1> USE DEF NoReader, TypeOK, Goto
<1>1. ASSUME NEW t \in Threads, NEW o \in Ops, NEW v \in Values, Call(t, o, v)
      PROVE  NoReader'
  <2>1. o \notin Referring
    <3>1. CASE t \in Consumers
      BY <1>1, <3>1 DEF Call, MayCall, ConsumerCalls, Referring, Unlocked
    <3>2. CASE t \notin Consumers
      BY <1>1, <3>2 DEF Call, MayCall, NoReferences
    <3> QED BY <3>1, <3>2
  <2> QED BY <1>1, <2>1 DEF Call, Referring
<1>2. ASSUME NEW t \in Threads, Proceed(t) \/ SpuriousWake(t) PROVE NoReader'
  <2>1. CASE Lock(t) \/ Access(t) \/ Undefined(t) \/ LockBlocking(t)
    BY <2>1 DEF Lock, Access, Undefined, LockBlocking
  <2>2. CASE Notify(t)
    BY <2>2 DEF Notify
  <2>3. CASE Read(t) \/ Check(t)
    BY <2>3 DEF Read, Check
  <2>4. CASE Refer(t) \/ Sleep(t) \/ SpuriousWake(t) \/ Reacquire(t)
    BY <2>4 DEF Refer, Sleep, SpuriousWake, Reacquire
  <2> QED BY <1>2, <2>1, <2>2, <2>3, <2>4 DEF Proceed
<1>3. CASE UNCHANGED vars
  BY <1>3 DEF vars
<1> QED BY <1>1, <1>2, <1>3 DEF Next, Step, Terminated

\* Users that keep to the operations that answer by value never race on the deque.
THEOREM DataRaceFree == NoReferences => (Spec => []NoDataRace)
<1> SUFFICES ASSUME NoReferences PROVE Spec => []NoDataRace
  OBVIOUS
<1>1. Init => NoReader
  BY DEF Init, NoReader
<1>2. TypeOK /\ NoReader /\ [Next]_vars => NoReader'
  BY NoReaderStep
<1>3. QInv /\ NoReader => NoDataRace
  BY DEF QInv, Holder, NoReader, NoDataRace, Writing, Disturbs
<1>4. QInv => TypeOK
  BY DEF QInv
<1> QED BY <1>1, <1>2, <1>3, <1>4, QInvariant, PTL DEF Spec

-------------------------------------------------------------------------------
(* deleter_job: empty() and pop_front() are two calls. *)

\* How lmqtt_server uses _deletionQueue: one thread pops, the others push.
OneConsumer ==
    /\ \A t, u \in Consumers : t = u
    /\ \A t \in Threads \ Consumers, o \in Ops : OpsOf[t][o] \subseteq Pushes

\* A consumer that has been told that the queue is not empty is still right.
StillThere ==
    /\ \A t \in Threads \ Consumers : op[t] \in Pushes \cup {"none"}
    /\ \A t \in Consumers :
          /\ op[t] \in {"none", "wait", "empty", "pop_front"}
          /\ op[t] = "pop_front" /\ pc[t] \in {"lock", "access"} => deq # <<>>
          /\ op[t] = "empty" /\ pc[t] = "idle" /\ result[t] = 0 => deq # <<>>

LEMMA StillThereStep ==
    ASSUME OneConsumer, QInv, StillThere, NEW t \in Threads, Step(t)
    PROVE  StillThere'
<1> USE ThreadsAssumption DEF QInv, TypeOK, StillThere, Goto
<1>1. ASSUME NEW o \in Ops, NEW v \in Values, Call(t, o, v) PROVE StillThere'
  <2>1. CASE t \in Consumers
    <3>1. o \in {"wait", "empty", "pop_front"}
      BY <1>1, <2>1 DEF Call, MayCall, ConsumerCalls
    <3>2. o = "pop_front" => deq # <<>>
      BY <1>1, <2>1 DEF Call, MayCall, ConsumerCalls
    <3>3. /\ op' = [op EXCEPT ![t] = o] /\ UNCHANGED <<deq, result>>
          /\ \E s \in {"check", "read", "lock"} : pc' = [pc EXCEPT ![t] = s]
      BY <1>1 DEF Call
    <3> QED BY <2>1, <3>1, <3>2, <3>3
  <2>2. CASE t \notin Consumers
    <3>1. o \in Pushes
      BY <1>1, <2>2 DEF Call, MayCall, OneConsumer
    <3>2. /\ op' = [op EXCEPT ![t] = o] /\ UNCHANGED <<deq, result>>
          /\ \A u \in Threads : u # t => pc'[u] = pc[u]
      BY <1>1 DEF Call
    <3> QED BY <2>2, <3>1, <3>2
  <2> QED BY <2>1, <2>2
<1>2. CASE Access(t)
  <2>1. /\ op' = op /\ snap[t] = deq /\ \A u \in Threads : u # t => pc'[u] = pc[u]
        /\ pc'[t] \in {"block", "idle"}
        /\ result' = [result EXCEPT ![t] = Answer(op[t], deq, Nothing)]
        /\ deq' = IF op[t] \in Writes THEN After(op[t], deq, arg[t]) ELSE deq
    BY <1>2 DEF Access, Fresh
  <2>2. CASE t \in Consumers
    <3>1. \A u \in Consumers : u = t
      BY <2>2 DEF OneConsumer
    <3>2. op[t] = "empty" => deq' = deq /\ result'[t] = (IF deq = <<>> THEN 1 ELSE 0)
      BY <2>1 DEF Writes, Pushes, Pops, Answer
    <3> QED BY <2>1, <2>2, <3>1, <3>2
  <2>3. CASE t \notin Consumers
    <3>1. op[t] \in Pushes
      BY <1>2, <2>3 DEF Access, Locked, Writes, Pushes, Pops
    <3>2. deq' # <<>>
      <4>1. CASE op[t] = "push_front"
        <5>1. deq' = <<arg[t]>> \o deq
          BY <2>1, <4>1 DEF Writes, Pushes, After
        <5>2. Len(<<arg[t]>> \o deq) = 1 + Len(deq) /\ Len(deq) \in Nat
          BY ConcatProperties, LenProperties
        <5> QED BY <5>1, <5>2
      <4>2. CASE op[t] = "push_back"
        <5>1. deq' = Append(deq, arg[t])
          BY <2>1, <4>2 DEF Writes, Pushes, After
        <5>2. Len(Append(deq, arg[t])) = Len(deq) + 1 /\ Len(deq) \in Nat
          BY AppendProperties, LenProperties
        <5> QED BY <5>1, <5>2
      <4> QED BY <3>1, <4>1, <4>2 DEF Pushes
    <3> QED BY <2>1, <2>3, <3>2
  <2> QED BY <2>2, <2>3
<1>3. CASE Lock(t)
  BY <1>3 DEF Lock
<1>4. CASE Undefined(t)
  BY <1>4 DEF Undefined
<1>5. CASE LockBlocking(t)
  BY <1>5 DEF LockBlocking
<1>6. CASE Notify(t)
  <2>1. op[t] \in Pushes
    BY <1>6 DEF Notify, Inside
  <2>2. t \notin Consumers
    BY <2>1 DEF Pushes
  <2>3. \A w \in Threads : pc'[w] = "idle" => w = t \/ pc[w] = "idle"
    BY <1>6 DEF Notify
  <2>4. \A w \in Threads : pc'[w] \in {"lock", "access"} => pc[w] = pc'[w]
    BY <1>6 DEF Notify
  <2> QED BY <1>6, <2>2, <2>3, <2>4 DEF Notify
<1>7. CASE Read(t)
  <2>1. op[t] \in Referring
    BY <1>7 DEF Read, Inside
  <2> QED BY <2>1 DEF Referring, Unlocked, Pushes
<1>8. CASE Check(t)
  BY <1>8 DEF Check, Inside
<1>9. CASE Refer(t) \/ Sleep(t) \/ SpuriousWake(t) \/ Reacquire(t)
  BY <1>9 DEF Refer, Sleep, SpuriousWake, Reacquire
<1> QED BY <1>1, <1>2, <1>3, <1>4, <1>5, <1>6, <1>7, <1>8, <1>9 DEF Step, Proceed

\* What deleter_job checks in one call and pops in the next is still there: with
\* one consumer, and for any number of producers, no pop meets an empty deque.
THEOREM PopsWhatIsThere == OneConsumer => (Spec => []NeverPopsEmpty)
<1> SUFFICES ASSUME OneConsumer PROVE Spec => []NeverPopsEmpty
  OBVIOUS
<1>1. Init => StillThere /\ NeverPopsEmpty
  BY ThreadsAssumption DEF Init, StillThere, NeverPopsEmpty
<1>2. QInv /\ StillThere /\ [Next]_vars => StillThere'
  <2> SUFFICES ASSUME QInv, StillThere, [Next]_vars PROVE StillThere'
    OBVIOUS
  <2>1. CASE UNCHANGED vars
    BY <2>1 DEF vars, StillThere
  <2> QED BY <2>1, StillThereStep DEF Next, Terminated
<1>3. QInv /\ StillThere /\ NeverPopsEmpty /\ [Next]_vars => NeverPopsEmpty'
  <2> SUFFICES ASSUME QInv, StillThere, NeverPopsEmpty, [Next]_vars PROVE NeverPopsEmpty'
    OBVIOUS
  <2>1. ASSUME NEW t \in Threads PROVE ~Undefined(t)
    <3>1. SUFFICES ASSUME pc[t] \in {"access", "read"} PROVE Defined(op[t], snap[t])
      BY DEF Undefined
    <3>2. CASE pc[t] = "read"
      BY <3>2, ThreadsAssumption DEF QInv, Inside, StillThere, Referring, Unlocked, Pushes
    <3>3. CASE pc[t] = "access"
      <4>1. snap[t] = deq /\ op[t] \in Locked \cup {"front"}
        BY <3>3 DEF QInv, Inside, Fresh
      <4>2. op[t] = "pop_front" => deq # <<>>
        BY <3>3 DEF StillThere, Pushes
      <4>3. op[t] \in {"push_front", "push_back", "empty", "pop_front"}
        BY <4>1, ThreadsAssumption DEF StillThere, Locked, Writes, Pushes, Pops
      <4> QED BY <4>1, <4>2, <4>3 DEF Defined, Pops, Referring, Unlocked
    <3> QED BY <3>1, <3>2, <3>3
  <2>2. ASSUME NEW t \in Threads, Step(t) PROVE crashed' = crashed
    BY <2>1, <2>2
    DEF Step, Proceed, Call, Lock, Access, Refer, LockBlocking, Notify, Read, Check, Sleep,
        Reacquire, SpuriousWake
  <2> QED BY <2>2 DEF Next, Terminated, NeverPopsEmpty, vars
<1> QED BY <1>1, <1>2, <1>3, QInvariant, PTL DEF Spec

-------------------------------------------------------------------------------
(* Refinement. *)

\* Both modules mean the same by an operation.
LEMMA SameOperations ==
    ASSUME NEW o, NEW s, NEW v, NEW n
    PROVE  /\ Abstract!After(o, s, v) = After(o, s, v)
           /\ Abstract!Answer(o, s, n) = Answer(o, s, n)
           /\ Abstract!Defined(o, s) = Defined(o, s)
           /\ Abstract!Locked = Locked
<1>1. Abstract!EraseFirst(s, v) = EraseFirst(s, v)
  BY DEF Abstract!EraseFirst, EraseFirst, Abstract!FirstAt, FirstAt, Abstract!RemoveAt, RemoveAt
<1>2. Abstract!After(o, s, v) = After(o, s, v)
  BY <1>1 DEF Abstract!After, After
<1>3. Abstract!Answer(o, s, n) = Answer(o, s, n)
  BY DEF Abstract!Answer, Answer
<1>4. Abstract!Defined(o, s) = Defined(o, s)
  BY DEF Abstract!Defined, Defined, Abstract!Pops, Pops, Abstract!Referring, Referring,
         Abstract!Unlocked, Unlocked
<1>5. Abstract!Locked = Locked
  BY DEF Abstract!Locked, Locked, Abstract!Writes, Writes, Abstract!Pushes, Pushes,
         Abstract!Pops, Pops
<1> QED BY <1>2, <1>3, <1>4, <1>5

\* A thread's step is an operation of the atomic deque, or none at all.
LEMMA StepIsAtomic ==
    ASSUME QInv, NEW t \in Threads, Step(t)
    PROVE  [Abstract!ANext]_<<deq, result>>
<1> USE DEF QInv, TypeOK
<1>1. ASSUME NEW o \in Ops, NEW v \in Values, Call(t, o, v)
      PROVE  UNCHANGED <<deq, result>>
  BY <1>1 DEF Call
<1>2. CASE Access(t)
  <2>1. op[t] \in Locked /\ snap[t] = deq /\ arg[t] \in Values
    BY <1>2 DEF Access, Fresh
  <2>2. deq' = After(op[t], deq, arg[t])
    <3>1. CASE op[t] \in Writes
      BY <1>2, <2>1, <3>1 DEF Access
    <3>2. CASE op[t] \in {"empty", "size"}
      <4>1. After(op[t], deq, arg[t]) = deq
        BY <3>2 DEF After
      <4> QED BY <1>2, <3>2, <4>1 DEF Access, Writes, Pushes, Pops
    <3> QED BY <2>1, <3>1, <3>2 DEF Locked
  <2>3. Abstract!Apply(t, op[t], arg[t])
    BY <1>2, <2>1, <2>2, SameOperations DEF Access, Abstract!Apply
  <2> QED BY <2>1, <2>3, SameOperations DEF Abstract!ANext
<1>3. CASE Read(t)
  <2>1. PICK a \in Values \cup {Nothing} : result' = [result EXCEPT ![t] = a]
    <3>1. ReferredTo(op[t], snap[t]) \subseteq Values
      BY <1>3, ReferredToType DEF Read, Inside
    <3> QED BY <1>3, <3>1 DEF Read
  <2>2. Abstract!Glance(t)
    BY <1>3, <2>1 DEF Read, Abstract!Glance
  <2> QED BY <2>2 DEF Abstract!ANext
<1>4. CASE Check(t)
  <2>1. UNCHANGED <<deq, result>> \/ Abstract!WaitReturns(t)
    BY <1>4 DEF Check, Abstract!WaitReturns
  <2> QED BY <2>1 DEF Abstract!ANext
<1>5. CASE Lock(t) \/ Undefined(t) \/ LockBlocking(t) \/ Notify(t)
  BY <1>5 DEF Lock, Undefined, LockBlocking, Notify
<1>6. CASE Refer(t) \/ Sleep(t) \/ SpuriousWake(t) \/ Reacquire(t)
  BY <1>6 DEF Refer, Sleep, SpuriousWake, Reacquire
<1> QED BY <1>1, <1>2, <1>3, <1>4, <1>5, <1>6 DEF Step, Proceed

\* The queue of two mutexes and a condition variable implements the atomic one,
\* for the operations that answer by value and whoever calls the others besides.
THEOREM ImplementsAtomicDeque == Spec => Linearizable
<1>1. Init => Abstract!AInit
  BY DEF Init, Abstract!AInit
<1>2. QInv /\ [Next]_vars => [Abstract!ANext]_<<deq, result>>
  <2> SUFFICES ASSUME QInv, [Next]_vars PROVE [Abstract!ANext]_<<deq, result>>
    OBVIOUS
  <2>1. CASE UNCHANGED vars
    BY <2>1 DEF vars
  <2> QED BY <2>1, StepIsAtomic DEF Next, Terminated
<1> QED BY <1>1, <1>2, QInvariant, PTL DEF Spec, Linearizable, Abstract!ASpec, Abstract!avars
===============================================================================
