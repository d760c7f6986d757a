--------------------------- MODULE LmqttServerProofs ---------------------------
(***************************************************************************)
(* Theorems about LmqttServer, for any number of connections, any number   *)
(* of slots and any first bytes: types first, then one layer of invariants *)
(* after the other; each uses the ones before it.                          *)
(***************************************************************************)
EXTENDS LmqttServer, DequeOpsProofs, FiniteSetTheorems

-------------------------------------------------------------------------------
(* Types. *)

\* create_fixed_header gives a packet one of the types that are acted on.
LEMMA FixedHeaderType ==
    ASSUME NEW cf, NEW old \in PacketTypes
    PROVE  CreateFixedHeader(cf, old).type \in PacketTypes
<1>1. TypeOfNibble(TypeNibble(cf)) \in PacketTypes
  BY DEF TypeOfNibble, PacketTypes
<1> QED BY <1>1 DEF CreateFixedHeader

\* Scheduling a deletion keeps the queue a queue, and the cleaner on a step.
LEMMA PushDeletionType ==
    ASSUME TypeOK, NEW c \in Conns, PushDeletion(c)
    PROVE  /\ deletionQueue' \in Seq(Conns)
           /\ cleaner' \in [at : CleanerSteps, c : Conns \cup {NoConn}]
<1>1. deletionQueue' \in Seq(Conns)
  BY AppendProperties DEF PushDeletion, TypeOK
<1>2. [cleaner EXCEPT !.at = "wait"] \in [at : CleanerSteps, c : Conns \cup {NoConn}]
  BY DEF TypeOK, CleanerSteps
<1> QED BY <1>1, <1>2 DEF PushDeletion, TypeOK

\* Dropping a shared_ptr leaves every object in a phase of its life.
LEMMA UnownedType ==
    ASSUME TypeOK, NEW c \in Conns, NEW last, Unowned(c, last)
    PROVE  obj' \in [Conns -> {"none", "alive", "dying", "freed"}]
  BY DEF TypeOK, Unowned

\* So does the end of a destructor.
LEMMA DestroyedType ==
    ASSUME TypeOK, NEW c \in Conns, Destroyed(c)
    PROVE  /\ obj' \in [Conns -> {"none", "alive", "dying", "freed"}]
           /\ sock' \in [Conns -> {"open", "shut", "closed"}]
           /\ isFirstPacket' \in [Conns -> BOOLEAN]
           /\ receivedData' \in [Conns -> BOOLEAN]
           /\ type' \in [Conns -> PacketTypes]
           /\ UNCHANGED <<peer, op, timer, acked>>
  BY DEF TypeOK, Destroyed, PacketTypes

\* The handlers of the io thread keep the types.
LEMMA HandlerType ==
    ASSUME TypeOK, NEW c \in Conns,
           Handler(c) \/ HandlerReads(c) \/ HandlerProceeds(c) \/ PeerLeaves(c),
           UNCHANGED mainVars
    PROVE  TypeOK'
<1> USE DEF TypeOK, mainVars, connVars, queueVars, threadVars, Io, IoIdle, Pend, Closed, Fail,
            Runs, Completes, IoSteps, PendingOps, Faults
<1>1. ASSUME NEW cf \in ControlFields, HeaderRead(c, cf) PROVE TypeOK'
  <2>1. CreateFixedHeader(cf, type[c]).type \in PacketTypes
    BY FixedHeaderType
  <2>2. type' \in [Conns -> PacketTypes]
    BY <1>1, <2>1 DEF HeaderRead
  <2>3. sock' \in [Conns -> {"open", "shut", "closed"}] /\ isFirstPacket' \in [Conns -> BOOLEAN]
    BY <1>1 DEF HeaderRead
  <2>4. io' \in [at : IoSteps, c : Conns \cup {NoConn}]
    BY <1>1 DEF HeaderRead
  <2> QED BY <1>1, <2>2, <2>3, <2>4 DEF HeaderRead
<1>2. CASE HeaderFailed(c)
  BY <1>2 DEF HeaderFailed
<1>3. CASE ConnectDecoded(c) \/ PublishDecoded(c)
  BY <1>3 DEF ConnectDecoded, PublishDecoded, PacketTypes
<1>4. CASE BodyEndsSession(c) \/ BodyIgnored(c) \/ BodyFailed(c)
  <2>1. CASE BodyEndsSession(c)
    BY <2>1 DEF BodyEndsSession
  <2>2. CASE BodyIgnored(c)
    BY <2>2 DEF BodyIgnored
  <2>3. CASE BodyFailed(c)
    BY <2>3 DEF BodyFailed
  <2> QED BY <1>4, <2>1, <2>2, <2>3
<1>5. CASE SendPosted(c) \/ Written(c) \/ WriteFailed(c)
  BY <1>5 DEF SendPosted, Written, WriteFailed
<1>6. CASE StrayHandler(c) \/ LengthThrows(c) \/ LengthStray(c) \/ IoSchedulesDead(c)
  BY <1>6 DEF StrayHandler, LengthThrows, LengthStray, IoSchedulesDead
<1>7. CASE LengthRead(c) \/ LengthTooLong(c)
  <2>1. CASE LengthRead(c)
    BY <2>1 DEF LengthRead
  <2>2. CASE LengthTooLong(c)
    BY <2>2 DEF LengthTooLong
  <2> QED BY <1>7, <2>1, <2>2
<1>8. CASE IoSchedules(c)
  BY <1>8, PushDeletionType DEF IoSchedules
<1>9. CASE IoReleases(c)
  <2>1. io' \in [at : IoSteps, c : Conns \cup {NoConn}]
    BY <1>9 DEF IoReleases
  <2>2. obj' \in [Conns -> {"none", "alive", "dying", "freed"}]
    BY <1>9, UnownedType DEF IoReleases
  <2> QED BY <1>9, <2>1, <2>2 DEF IoReleases
<1>10. CASE IoDestroys(c)
  BY <1>10, DestroyedType DEF IoDestroys
<1>11. CASE PeerLeaves(c)
  BY <1>11 DEF PeerLeaves
<1> QED BY <1>1, <1>2, <1>3, <1>4, <1>5, <1>6, <1>7, <1>8, <1>9, <1>10, <1>11
        DEF Handler, HandlerReads, HandlerProceeds

\* The timer threads keep the types.
LEMMA TimerType ==
    ASSUME TypeOK, NEW c \in Conns, TimerStep(c), UNCHANGED mainVars
    PROVE  TypeOK'
<1> USE DEF TypeOK, mainVars, connVars, queueVars, threadVars, Timer, Fail, TimerSteps, Faults
<1>1. CASE TimerFires(c)
  BY <1>1 DEF TimerFires
<1>2. CASE TimerShutsDown(c)
  BY <1>2 DEF TimerShutsDown, Shutdown
<1>3. CASE TimerSchedules(c)
  BY <1>3, PushDeletionType DEF TimerSchedules
<1>4. CASE TimerReleases(c)
  BY <1>4 DEF TimerReleases
<1>5. CASE TimerSchedulesDead(c) \/ TimerJoinsItself(c)
  BY <1>5 DEF TimerSchedulesDead, TimerJoinsItself
<1> QED BY <1>1, <1>2, <1>3, <1>4, <1>5 DEF TimerStep

\* back() of a deque that is not empty is one of its elements.
LEMMA LastType ==
    ASSUME NEW V, NEW s \in Seq(V), s # <<>>
    PROVE  Last(s) \in V
<1>1. Len(s) \in Nat /\ Len(s) >= 1
  BY EmptySeq, LenProperties
<1> QED BY <1>1, ElementOfSeq DEF Last

\* The accept handler keeps the types.
LEMMA AcceptType ==
    ASSUME TypeOK, NEW c \in Conns, Accept(c) \/ AcceptProceeds(c), UNCHANGED mainVars
    PROVE  TypeOK'
<1> USE DEF TypeOK, mainVars, connVars, queueVars, threadVars, Io, Pend, Fail, IoSteps,
            PendingOps, Faults
<1>1. CASE Accept(c)
  BY <1>1 DEF Accept
<1>2. CASE Admit(c)
  BY <1>2 DEF Admit
<1>3. CASE PushSession(c)
  <2>1. activeSessions' \in Seq(Conns)
    BY <1>3, AppendProperties DEF PushSession
  <2> QED BY <1>3, <2>1 DEF PushSession
<1>4. CASE ConnectToClient(c)
  <2>1. Last(activeSessions) \in Conns
    BY <1>4, LastType DEF ConnectToClient
  <2> QED BY <1>4, <2>1 DEF ConnectToClient, TimerSteps
<1>5. CASE LogEndpoint(c)
  BY <1>5 DEF LogEndpoint
<1>6. CASE Deny(c)
  BY <1>6, PushDeletionType DEF Deny
<1>7. CASE EndpointThrows(c) \/ LogThrows(c) \/ BackOfNothing(c)
  BY <1>7 DEF EndpointThrows, LogThrows, BackOfNothing
<1> QED BY <1>1, <1>2, <1>3, <1>4, <1>5, <1>6, <1>7 DEF AcceptProceeds

\* The cleaner keeps the types.
LEMMA CleanerType ==
    ASSUME TypeOK, CleanerProceeds \/ CleanerWakesSpuriously, UNCHANGED mainVars
    PROVE  TypeOK'
<1> USE DEF TypeOK, mainVars, connVars, queueVars, threadVars, Cleaner, CleanerSteps
<1>1. CASE CleanerLoops \/ CleanerFindsNothing \/ CleanerSleeps \/ CleanerWakesSpuriously
  <2>1. CASE CleanerLoops
    BY <2>1 DEF CleanerLoops
  <2>2. CASE CleanerFindsNothing
    BY <2>2 DEF CleanerFindsNothing
  <2>3. CASE CleanerSleeps
    BY <2>3 DEF CleanerSleeps
  <2>4. CASE CleanerWakesSpuriously
    BY <2>4 DEF CleanerWakesSpuriously
  <2> QED BY <1>1, <2>1, <2>2, <2>3, <2>4
<1>2. CASE CleanerPops
  <2>1. Tail(deletionQueue) \in Seq(Conns) /\ Head(deletionQueue) \in Conns
    BY <1>2, TailMembers DEF CleanerPops
  <2> QED BY <1>2, <2>1 DEF CleanerPops
<1>3. ASSUME NEW c \in Conns, CleanerShutsDown(c) PROVE TypeOK'
  BY <1>3 DEF CleanerShutsDown, Shutdown
<1>4. ASSUME NEW c \in Conns, CleanerErases(c) PROVE TypeOK'
  <2>1. activeSessions' \in Seq(Conns)
    BY <1>4, EraseFirstType DEF CleanerErases
  <2> QED BY <1>4, <2>1 DEF CleanerErases
<1>5. ASSUME NEW c \in Conns, CleanerReleases(c) PROVE TypeOK'
  <2>1. cleaner' \in [at : CleanerSteps, c : Conns \cup {NoConn}]
    BY <1>5 DEF CleanerReleases
  <2>2. obj' \in [Conns -> {"none", "alive", "dying", "freed"}]
    BY <1>5, UnownedType DEF CleanerReleases
  <2> QED BY <1>5, <2>1, <2>2 DEF CleanerReleases
<1>6. ASSUME NEW c \in Conns, CleanerDestroys(c) PROVE TypeOK'
  BY <1>6, DestroyedType DEF CleanerDestroys
<1> QED BY <1>1, <1>2, <1>3, <1>4, <1>5, <1>6 DEF CleanerProceeds

\* stop() keeps the types.
LEMMA StopType == ASSUME TypeOK, Stop \/ StopProceeds PROVE TypeOK'
<1> USE DEF TypeOK, mainVars, connVars, queueVars, threadVars, MainSteps
<1>1. CASE Stop
  BY <1>1 DEF Stop
<1>2. CASE IoExits
  BY <1>2 DEF IoExits, Io, IoSteps
<1>3. CASE IoJoined
  BY <1>3 DEF IoJoined
<1>4. CASE CleanerJoined
  BY <1>4 DEF CleanerJoined
<1>5. CASE ContextDestroyed
  BY <1>5 DEF ContextDestroyed
<1> QED BY <1>1, <1>2, <1>3, <1>4, <1>5 DEF StopProceeds

LEMMA TypeInit == ServerInit => TypeOK
<1> SUFFICES ASSUME ServerInit PROVE TypeOK
  OBVIOUS
<1>1. activeSessions \in Seq(Conns) /\ deletionQueue \in Seq(Conns)
  BY EmptySeq DEF ServerInit, Init
<1>2. io \in [at : IoSteps, c : Conns \cup {NoConn}]
  BY DEF ServerInit, Init, IoSteps
<1>3. cleaner \in [at : CleanerSteps, c : Conns \cup {NoConn}]
  BY DEF ServerInit, Init, CleanerSteps
<1>4. /\ main \in MainSteps
      /\ contextStopped \in BOOLEAN
      /\ exitCleanupThread \in BOOLEAN
  BY InitialExitAssumption DEF ServerInit, MainSteps
<1> QED BY <1>1, <1>2, <1>3, <1>4
        DEF ServerInit, Init, TypeOK, PendingOps, PacketTypes, TimerSteps, Faults

LEMMA TypeStep == TypeOK /\ [Next]_vars => TypeOK'
<1> SUFFICES ASSUME TypeOK, [Next]_vars PROVE TypeOK'
  OBVIOUS
<1>1. CASE ServerStep
  BY <1>1, HandlerType, TimerType, AcceptType, CleanerType, StopType
  DEF ServerStep, IoProceeds, Client
<1>2. CASE UNCHANGED vars
  BY <1>2 DEF vars, mainVars, connVars, queueVars, threadVars, TypeOK
<1> QED BY <1>1, <1>2 DEF Next, Terminated

\* Whatever the clients send and however the threads interleave, the state is
\* one the declarations allow.
THEOREM TypeCorrect == Spec => []TypeOK
<1> QED BY TypeInit, TypeStep, PTL DEF Spec

-------------------------------------------------------------------------------
(* The slots: on_client_connection counts, and the push comes later. *)

\* What HasRoom found is still true when the session is pushed: only the io
\* thread pushes, and the cleaner only erases.
RoomHeld == io.at = "push" => Len(activeSessions) < MaxSessions

SlotInv == SessionLimit /\ RoomHeld

\* find_and_erase makes no deque longer.
LEMMA EraseLength ==
    ASSUME NEW V, NEW s \in Seq(V), NEW v
    PROVE  Len(EraseFirst(s, v)) <= Len(s)
<1>0. Len(s) \in Nat
  BY LenProperties
<1>1. CASE \E i \in 1..Len(s) : FirstAt(s, v, i)
  <2>1. PICK i \in 1..Len(s) : EraseFirst(s, v) = RemoveAt(s, i)
    BY <1>1 DEF EraseFirst
  <2> QED BY <1>0, <2>1, RemoveAtElements
<1>2. CASE ~\E i \in 1..Len(s) : FirstAt(s, v, i)
  BY <1>0, <1>2 DEF EraseFirst
<1> QED BY <1>1, <1>2

\* Only the accept handler takes the io thread to its push.
LEMMA SlotStep == TypeOK /\ SlotInv /\ [Next]_vars => SlotInv'
<1> SUFFICES ASSUME TypeOK, SlotInv, [Next]_vars PROVE SlotInv'
  OBVIOUS
<1> USE MaxSessionsAssumption DEF SlotInv, SessionLimit, RoomHeld
<1>0. Len(activeSessions) \in Nat
  BY LenProperties DEF TypeOK
<1>1. CASE UNCHANGED activeSessions /\ (io' = io \/ io'.at # "push")
  BY <1>0, <1>1
<1>2. ASSUME NEW c \in Conns, Admit(c) PROVE SlotInv'
  BY <1>0, <1>2 DEF Admit, HasRoom, Io, queueVars
<1>3. ASSUME NEW c \in Conns, PushSession(c) PROVE SlotInv'
  <2>1. Len(activeSessions') = Len(activeSessions) + 1
    BY <1>3, AppendProperties DEF PushSession, TypeOK
  <2> QED BY <1>0, <1>3, <2>1 DEF PushSession, Io
<1>4. ASSUME NEW c \in Conns, CleanerErases(c) PROVE SlotInv'
  <2>1. Len(activeSessions') <= Len(activeSessions) /\ Len(activeSessions') \in Nat
    BY <1>4, EraseLength, EraseFirstType, LenProperties DEF CleanerErases, TypeOK
  <2> QED BY <1>0, <1>4, <2>1 DEF CleanerErases
<1> USE DEF queueVars, threadVars, connVars, Io, IoIdle, Fail
<1>5. ASSUME NEW c \in Conns, AcceptProceeds(c) PROVE SlotInv'
  BY <1>1, <1>2, <1>3, <1>5
  DEF AcceptProceeds, EndpointThrows, ConnectToClient, LogEndpoint, LogThrows, BackOfNothing, Deny
<1>6. ASSUME NEW c \in Conns, HandlerProceeds(c) PROVE SlotInv'
  BY <1>1, <1>6
  DEF HandlerProceeds, LengthThrows, LengthStray, IoSchedules, IoSchedulesDead, IoReleases, IoDestroys
<1>7. ASSUME NEW c \in Conns, Handler(c) PROVE SlotInv'
  BY <1>1, <1>7
  DEF Handler, HeaderRead, HeaderFailed, ConnectDecoded, PublishDecoded, BodyEndsSession,
      BodyIgnored, BodyFailed, SendPosted, Written, WriteFailed, StrayHandler
<1>8. ASSUME NEW c \in Conns, Client(c) PROVE SlotInv'
  BY <1>1, <1>7, <1>8 DEF Client, Accept, HandlerReads, LengthRead, LengthTooLong, PeerLeaves
<1>9. ASSUME NEW c \in Conns, TimerStep(c) PROVE SlotInv'
  BY <1>1, <1>9
  DEF TimerStep, TimerFires, TimerShutsDown, TimerSchedules, TimerSchedulesDead, TimerReleases,
      TimerJoinsItself
<1>10. CASE CleanerProceeds \/ CleanerWakesSpuriously
  BY <1>1, <1>4, <1>10
  DEF CleanerProceeds, CleanerLoops, CleanerFindsNothing, CleanerSleeps, CleanerPops,
      CleanerShutsDown, CleanerReleases, CleanerDestroys, CleanerWakesSpuriously
<1>11. CASE Stop \/ StopProceeds
  BY <1>1, <1>11 DEF Stop, StopProceeds, IoExits, IoJoined, CleanerJoined, ContextDestroyed
<1>12. CASE UNCHANGED vars
  BY <1>1, <1>12 DEF vars
<1> QED BY <1>5, <1>6, <1>8, <1>9, <1>10, <1>11, <1>12
        DEF Next, ServerStep, IoProceeds, Terminated

\* However accepts, expiries and the cleaner interleave, the slots suffice.
THEOREM SlotsSuffice == Spec => []SessionLimit
<1>1. ServerInit => SlotInv
  BY MaxSessionsAssumption, EmptySeq DEF ServerInit, Init, SlotInv, SessionLimit, RoomHeld
<1>2. SlotInv => SessionLimit
  BY DEF SlotInv
<1> QED BY <1>1, <1>2, TypeCorrect, SlotStep, PTL DEF Spec

-------------------------------------------------------------------------------
(* The lives of the objects. *)

\* A thread in a destructor is alone there, and the destructor has begun.
Joining ==
    \A c \in Conns :
        /\ io.at = "join" /\ io.c = c =>
               obj[c] = "dying" /\ ~(cleaner.at = "join" /\ cleaner.c = c)
        /\ cleaner.at = "join" /\ cleaner.c = c => obj[c] = "dying"

\* A connection that is not made yet has no past.
Unborn ==
    \A c \in Conns :
        /\ peer[c] = "absent" \/ (io.at = "admit" /\ io.c = c) =>
               obj[c] = "none" /\ timer[c] = "none"
        /\ io.at = "admit" /\ io.c = c => peer[c] # "absent"

LifeInv == RefSound /\ Joining /\ Unborn /\ TimerJoined

\* What is left by find_and_erase was there.
LEMMA EraseContains ==
    ASSUME NEW V, NEW s \in Seq(V), NEW v, NEW w, Contains(EraseFirst(s, v), w)
    PROVE  Contains(s, w)
<1>0. Len(s) \in Nat
  BY LenProperties
<1>1. CASE \E i \in 1..Len(s) : FirstAt(s, v, i)
  <2>1. PICK i \in 1..Len(s) : EraseFirst(s, v) = RemoveAt(s, i)
    BY <1>1 DEF EraseFirst
  <2>2. /\ Len(EraseFirst(s, v)) = Len(s) - 1
        /\ \A k \in 1..(Len(s) - 1) :
               EraseFirst(s, v)[k] = IF k < i THEN s[k] ELSE s[k + 1]
    BY <2>1, RemoveAtElements
  <2>3. PICK k \in 1..(Len(s) - 1) : EraseFirst(s, v)[k] = w
    BY <2>2 DEF Contains
  <2> QED BY <1>0, <2>2, <2>3 DEF Contains
<1>2. CASE ~\E i \in 1..Len(s) : FirstAt(s, v, i)
  BY <1>2 DEF EraseFirst
<1> QED BY <1>1, <1>2

\* back() is one of the elements.
LEMMA LastMember ==
    ASSUME NEW V, NEW s \in Seq(V), s # <<>>
    PROVE  Contains(s, Last(s))
<1>1. Len(s) \in Nat /\ Len(s) >= 1
  BY EmptySeq, LenProperties
<1> QED BY <1>1 DEF Contains, Last

\* Scheduling c adds c to the queue, and moves the cleaner at most out of its sleep.
LEMMA PushDeletionMembers ==
    ASSUME TypeOK, NEW c \in Conns, PushDeletion(c)
    PROVE  /\ \A d : Contains(deletionQueue', d) <=> Contains(deletionQueue, d) \/ d = c
           /\ cleaner'.c = cleaner.c
           /\ cleaner'.at = IF cleaner.at = "asleep" THEN "wait" ELSE cleaner.at
<1>1. \A d : Contains(Append(deletionQueue, c), d) <=> Contains(deletionQueue, d) \/ d = c
  BY AppendMembers DEF TypeOK
<1> QED BY <1>1 DEF PushDeletion, TypeOK

\* An action that leaves objects, clients, timers, containers and the cleaner
\* alone, and takes the io thread somewhere where it holds nothing.
LEMMA LifeFrame ==
    ASSUME LifeInv, UNCHANGED <<obj, peer, timer, activeSessions, deletionQueue, cleaner>>,
           io' = io \/ io'.at \in {"idle", "length", "schedule", "exited"}
    PROVE  LifeInv'
  BY DEF LifeInv, RefSound, Joining, Unborn, TimerJoined, Referenced, InQueues, IoHolds,
         CleanerHolds, TimerHolds, IoHolding

\* The handlers take care of the lives of the objects.
LEMMA LifeHandler ==
    ASSUME TypeOK, LifeInv, NEW c \in Conns,
           Handler(c) \/ HandlerReads(c) \/ HandlerProceeds(c) \/ PeerLeaves(c)
    PROVE  LifeInv'
<1> USE DEF connVars, queueVars, threadVars, Io, IoIdle, Fail
<1>1. CASE Handler(c) \/ HandlerReads(c)
  BY <1>1, LifeFrame
  DEF Handler, HeaderRead, HeaderFailed, ConnectDecoded, PublishDecoded, BodyEndsSession,
      BodyIgnored, BodyFailed, SendPosted, Written, WriteFailed, StrayHandler,
      HandlerReads, LengthRead, LengthTooLong
<1>2. CASE LengthThrows(c) \/ LengthStray(c) \/ IoSchedulesDead(c)
  BY <1>2, LifeFrame DEF LengthThrows, LengthStray, IoSchedulesDead
<1> USE DEF LifeInv, RefSound, Joining, Unborn, TimerJoined, Referenced, InQueues, IoHolds,
            CleanerHolds, TimerHolds, IoHolding, CleanerHolding
<1>3. CASE IoSchedules(c)
  BY <1>3, PushDeletionMembers DEF IoSchedules
<1>4. CASE IoReleases(c)
  BY <1>4 DEF IoReleases, Unowned, TypeOK
<1>5. CASE IoDestroys(c)
  BY <1>5 DEF IoDestroys, Destroyed, TypeOK
<1>6. CASE PeerLeaves(c)
  BY <1>6 DEF PeerLeaves, TypeOK
<1> QED BY <1>1, <1>2, <1>3, <1>4, <1>5, <1>6 DEF HandlerProceeds

\* So do the timers.
LEMMA LifeTimer ==
    ASSUME TypeOK, LifeInv, NEW c \in Conns, TimerStep(c)
    PROVE  LifeInv'
<1> USE DEF connVars, queueVars, threadVars, Fail, Timer, LifeInv, RefSound, Joining, Unborn,
            TimerJoined, Referenced, InQueues, IoHolds, CleanerHolds, TimerHolds, IoHolding,
            CleanerHolding, TimerEnded
<1>1. CASE TimerFires(c)
  BY <1>1 DEF TimerFires, TypeOK
<1>2. CASE TimerShutsDown(c)
  BY <1>2 DEF TimerShutsDown, TypeOK
<1>3. CASE TimerSchedules(c)
  BY <1>3, PushDeletionMembers DEF TimerSchedules, TypeOK
<1>4. CASE TimerReleases(c)
  BY <1>4 DEF TimerReleases, TypeOK
<1>5. CASE TimerSchedulesDead(c) \/ TimerJoinsItself(c)
  BY <1>5 DEF TimerSchedulesDead, TimerJoinsItself
<1> QED BY <1>1, <1>2, <1>3, <1>4, <1>5 DEF TimerStep

\* So does the accept handler.
LEMMA LifeAccept ==
    ASSUME TypeOK, LifeInv, NEW c \in Conns, Accept(c) \/ AcceptProceeds(c)
    PROVE  LifeInv'
<1> USE DEF connVars, queueVars, threadVars, Fail, Io, LifeInv, RefSound, Joining, Unborn,
            TimerJoined, Referenced, InQueues, IoHolds, CleanerHolds, TimerHolds, IoHolding,
            CleanerHolding, TimerEnded
<1>1. CASE Accept(c)
  BY <1>1 DEF Accept, TypeOK
<1>2. CASE Admit(c)
  <2>1. io'.at \in {"push", "deny"} /\ io'.c = c /\ obj[c] = "none" /\ timer[c] = "none"
    BY <1>2 DEF Admit
  <2>2. \A d \in Conns : obj'[d] = IF d = c THEN "alive" ELSE obj[d]
    BY <1>2 DEF Admit, TypeOK
  <2>3. UNCHANGED <<peer, timer, activeSessions, deletionQueue, cleaner>> /\ io.at = "admit" /\ io.c = c
    BY <1>2 DEF Admit
  <2>4. RefSound'
    BY <2>1, <2>2, <2>3
  <2>5. Joining' /\ Unborn' /\ TimerJoined'
    BY <2>1, <2>2, <2>3
  <2> QED BY <2>4, <2>5
<1>3. CASE PushSession(c)
  <2>1. \A d : Contains(activeSessions', d) <=> Contains(activeSessions, d) \/ d = c
    BY <1>3, AppendMembers DEF PushSession, TypeOK
  <2> QED BY <1>3, <2>1 DEF PushSession
<1>4. CASE ConnectToClient(c)
  <2>1. Contains(activeSessions, Last(activeSessions)) /\ Last(activeSessions) \in Conns
    BY <1>4, LastMember, LastType DEF ConnectToClient, TypeOK
  <2>2. obj[Last(activeSessions)] = "alive"
    BY <2>1
  <2> QED BY <1>4, <2>1, <2>2 DEF ConnectToClient, TypeOK
<1>5. CASE LogEndpoint(c)
  BY <1>5 DEF LogEndpoint
<1>6. CASE Deny(c)
  BY <1>6, PushDeletionMembers DEF Deny
<1>7. CASE EndpointThrows(c) \/ LogThrows(c) \/ BackOfNothing(c)
  BY <1>7 DEF EndpointThrows, LogThrows, BackOfNothing
<1> QED BY <1>1, <1>2, <1>3, <1>4, <1>5, <1>6, <1>7 DEF AcceptProceeds

\* So does the cleaner.
LEMMA LifeCleaner ==
    ASSUME TypeOK, LifeInv, CleanerProceeds \/ CleanerWakesSpuriously
    PROVE  LifeInv'
<1> USE DEF connVars, queueVars, threadVars, Cleaner, LifeInv, RefSound, Joining, Unborn,
            TimerJoined, Referenced, InQueues, IoHolds, CleanerHolds, TimerHolds, IoHolding,
            CleanerHolding, TimerEnded
<1>1. CASE CleanerLoops \/ CleanerFindsNothing \/ CleanerSleeps \/ CleanerWakesSpuriously
  BY <1>1 DEF CleanerLoops, CleanerFindsNothing, CleanerSleeps, CleanerWakesSpuriously
<1>2. CASE CleanerPops
  <2>1. /\ Head(deletionQueue) \in Conns /\ Contains(deletionQueue, Head(deletionQueue))
        /\ \A d : Contains(Tail(deletionQueue), d) => Contains(deletionQueue, d)
    BY <1>2, TailMembers DEF CleanerPops, TypeOK
  <2> QED BY <1>2, <2>1 DEF CleanerPops
<1>3. ASSUME NEW c \in Conns, CleanerShutsDown(c) PROVE LifeInv'
  BY <1>3 DEF CleanerShutsDown
<1>4. ASSUME NEW c \in Conns, CleanerErases(c) PROVE LifeInv'
  <2>1. \A d : Contains(activeSessions', d) => Contains(activeSessions, d)
    BY <1>4, EraseContains DEF CleanerErases, TypeOK
  <2> QED BY <1>4, <2>1 DEF CleanerErases
<1>5. ASSUME NEW c \in Conns, CleanerReleases(c) PROVE LifeInv'
  BY <1>5 DEF CleanerReleases, Unowned, TypeOK
<1>6. ASSUME NEW c \in Conns, CleanerDestroys(c) PROVE LifeInv'
  BY <1>6 DEF CleanerDestroys, Destroyed, TypeOK
<1> QED BY <1>1, <1>2, <1>3, <1>4, <1>5, <1>6 DEF CleanerProceeds

LEMMA LifeStep == TypeOK /\ LifeInv /\ [Next]_vars => LifeInv'
<1> SUFFICES ASSUME TypeOK, LifeInv, [Next]_vars PROVE LifeInv'
  OBVIOUS
<1>1. CASE Stop \/ StopProceeds
  BY <1>1, LifeFrame
  DEF Stop, StopProceeds, IoExits, IoJoined, CleanerJoined, ContextDestroyed, connVars,
      queueVars, threadVars, Io
<1>2. CASE UNCHANGED vars
  BY <1>2, LifeFrame DEF vars, connVars, queueVars, threadVars
<1> QED BY <1>1, <1>2, LifeHandler, LifeTimer, LifeAccept, LifeCleaner
        DEF Next, ServerStep, IoProceeds, Client, Terminated

LEMMA LifeInit == ServerInit => LifeInv
<1> SUFFICES ASSUME ServerInit PROVE LifeInv
  OBVIOUS
<1>1. \A c : ~Contains(activeSessions, c) /\ ~Contains(deletionQueue, c)
  BY EmptySeq DEF ServerInit, Init, Contains
<1> QED BY <1>1
        DEF ServerInit, Init, LifeInv, RefSound, Joining, Unborn, TimerJoined, Referenced,
            InQueues, IoHolds, CleanerHolds, TimerHolds, IoHolding, CleanerHolding

\* Whatever a container or a local variable refers to is alive, though handlers
\* and timers hold a raw this and three kinds of threads drop references.
THEOREM ReferencesSound == Spec => []RefSound
<1>1. LifeInv => RefSound
  BY DEF LifeInv
<1> QED BY <1>1, LifeInit, LifeStep, TypeCorrect, PTL DEF Spec

\* The destructor's join is enough: no timer thread outlives its connection.
THEOREM TimersJoined == Spec => []TimerJoined
<1>1. LifeInv => TimerJoined
  BY DEF LifeInv
<1> QED BY <1>1, LifeInit, LifeStep, TypeCorrect, PTL DEF Spec

-------------------------------------------------------------------------------
(* The newest session: back() is called after push_back has unlocked the queue. *)

Fresh(c)    == peer[c] = "absent" \/ (io.at \in {"admit", "push", "deny"} /\ io.c = c)
Starting(c) == Fresh(c) \/ (io.at = "connect" /\ io.c = c)

\* Until connect_to_client, or until it is denied, nothing can schedule a connection
\* or drop it.
NotStarted ==
    \A c \in Conns :
        /\ Starting(c) => /\ timer[c] = "none" /\ op[c] = "none" /\ isFirstPacket[c]
                          /\ ~Contains(deletionQueue, c)
                          /\ ~CleanerHolds(c)
        /\ Fresh(c) => ~Contains(activeSessions, c)
        /\ peer[c] = "absent" => io.c # c

OnceActive == Unique(activeSessions)

NewestInv == NotStarted /\ OnceActive /\ BackIsNew

\* What leaves the connections alone that are not started yet, and starts none,
\* is harmless.
LEMMA NewestFrame ==
    ASSUME NewestInv, UNCHANGED activeSessions,
           \A d \in Conns : Starting(d) =>
               /\ timer'[d] = timer[d] /\ op'[d] = op[d]
               /\ isFirstPacket[d] => isFirstPacket'[d]
               /\ ~Contains(deletionQueue', d) /\ ~CleanerHolds(d)',
           \A d \in Conns : peer'[d] = "absent" => peer[d] = "absent",
           \/ io' = io
           \/ /\ io'.at \notin {"admit", "push", "connect", "deny"}
              /\ \A d \in Conns : io'.c = d => peer[d] # "absent"
    PROVE  NewestInv'
  BY DEF NewestInv, NotStarted, OnceActive, BackIsNew, Starting, Fresh

\* No handler runs on a connection that was not started.
LEMMA NewestHandler ==
    ASSUME TypeOK, NewestInv, NEW c \in Conns,
           Handler(c) \/ HandlerReads(c) \/ HandlerProceeds(c) \/ PeerLeaves(c)
    PROVE  NewestInv'
<1> USE ConnsAssumption
    DEF connVars, queueVars, threadVars, Io, IoIdle, Fail, Pend, Runs, Completes, TypeOK,
        Closed, CleanerHolds, CleanerHolding, Starting, Fresh, NewestInv, NotStarted
<1>1. ASSUME NEW cf \in ControlFields, HeaderRead(c, cf) PROVE NewestInv'
  BY <1>1, NewestFrame DEF HeaderRead
<1>2. CASE HeaderFailed(c)
  BY <1>2, NewestFrame DEF HeaderFailed
<1>3. CASE ConnectDecoded(c)
  BY <1>3, NewestFrame DEF ConnectDecoded
<1>4. CASE PublishDecoded(c)
  BY <1>4, NewestFrame DEF PublishDecoded
<1>5. CASE BodyEndsSession(c)
  BY <1>5, NewestFrame DEF BodyEndsSession
<1>6. CASE BodyIgnored(c)
  BY <1>6, NewestFrame DEF BodyIgnored
<1>7. CASE BodyFailed(c)
  BY <1>7, NewestFrame DEF BodyFailed
<1>8. CASE SendPosted(c)
  BY <1>8, NewestFrame DEF SendPosted
<1>9. CASE Written(c)
  BY <1>9, NewestFrame DEF Written
<1>10. CASE WriteFailed(c)
  BY <1>10, NewestFrame DEF WriteFailed
<1>11. CASE StrayHandler(c) \/ LengthThrows(c) \/ LengthStray(c) \/ IoSchedulesDead(c)
  BY <1>11, NewestFrame DEF StrayHandler, LengthThrows, LengthStray, IoSchedulesDead
<1>12. CASE LengthRead(c)
  BY <1>12, NewestFrame DEF LengthRead
<1>13. CASE LengthTooLong(c)
  BY <1>13, NewestFrame DEF LengthTooLong
<1>14. CASE IoSchedules(c)
  BY <1>14, PushDeletionMembers, NewestFrame DEF IoSchedules
<1>15. CASE IoReleases(c)
  BY <1>15, NewestFrame DEF IoReleases
<1>16. CASE IoDestroys(c)
  BY <1>16, NewestFrame DEF IoDestroys, Destroyed
<1>17. CASE PeerLeaves(c)
  BY <1>17, NewestFrame DEF PeerLeaves
<1> QED BY <1>1, <1>2, <1>3, <1>4, <1>5, <1>6, <1>7, <1>8, <1>9, <1>10, <1>11, <1>12, <1>13,
           <1>14, <1>15, <1>16, <1>17
        DEF Handler, HandlerReads, HandlerProceeds

\* Nor has it a timer yet.
LEMMA NewestTimer ==
    ASSUME TypeOK, NewestInv, NEW c \in Conns, TimerStep(c)
    PROVE  NewestInv'
<1> USE DEF connVars, queueVars, threadVars, Fail, Timer, TypeOK,
            CleanerHolds, CleanerHolding, Starting, Fresh, NewestInv, NotStarted
<1>1. CASE TimerFires(c)
  BY <1>1, NewestFrame DEF TimerFires
<1>2. CASE TimerShutsDown(c)
  BY <1>2, NewestFrame DEF TimerShutsDown
<1>3. CASE TimerSchedules(c)
  BY <1>3, PushDeletionMembers, NewestFrame DEF TimerSchedules
<1>4. CASE TimerReleases(c)
  BY <1>4, NewestFrame DEF TimerReleases
<1>5. CASE TimerSchedulesDead(c) \/ TimerJoinsItself(c)
  BY <1>5, NewestFrame DEF TimerSchedulesDead, TimerJoinsItself
<1> QED BY <1>1, <1>2, <1>3, <1>4, <1>5 DEF TimerStep

\* The accept handler pushes a connection once, and starts the one it pushed.
LEMMA NewestAccept ==
    ASSUME TypeOK, NewestInv, NEW c \in Conns, Accept(c) \/ AcceptProceeds(c)
    PROVE  NewestInv'
<1> USE DEF connVars, queueVars, threadVars, Fail, Io, Pend, TypeOK,
            CleanerHolds, CleanerHolding, Starting, Fresh, NewestInv, NotStarted
<1>1. CASE Accept(c)
  BY <1>1 DEF Accept, BackIsNew, OnceActive
<1>2. CASE Admit(c)
  BY <1>2 DEF Admit, BackIsNew, OnceActive
<1>3. CASE PushSession(c)
  <2>1. \A d : Contains(activeSessions', d) <=> Contains(activeSessions, d) \/ d = c
    BY <1>3, AppendMembers DEF PushSession
  <2>2. ~Contains(activeSessions, c)
    BY <1>3 DEF PushSession
  <2>3. Unique(activeSessions') /\ activeSessions' # <<>> /\ Last(activeSessions') = c
    BY <1>3, <2>2, AppendUnique DEF PushSession, OnceActive
  <2> QED BY <1>3, <2>1, <2>3 DEF PushSession, BackIsNew, OnceActive
<1>4. CASE ConnectToClient(c)
  <2>1. Last(activeSessions) = c
    BY <1>4 DEF ConnectToClient, BackIsNew
  <2> QED BY <1>4, <2>1 DEF ConnectToClient, BackIsNew, OnceActive
<1>5. CASE LogEndpoint(c)
  BY <1>5, NewestFrame DEF LogEndpoint
<1>6. CASE Deny(c)
  <2>1. io.at = "deny" /\ io.c = c /\ io' = [at |-> "release", c |-> c]
        /\ UNCHANGED <<peer, timer, op, isFirstPacket, activeSessions>>
    BY <1>6 DEF Deny
  <2>2. \A d \in Conns : Starting(d)' => d # c /\ Starting(d)
    BY <2>1
  <2> QED BY <1>6, <2>1, <2>2, PushDeletionMembers DEF Deny, BackIsNew, OnceActive
<1>7. CASE EndpointThrows(c) \/ LogThrows(c) \/ BackOfNothing(c)
  BY <1>7, NewestFrame DEF EndpointThrows, LogThrows, BackOfNothing
<1> QED BY <1>1, <1>2, <1>3, <1>4, <1>5, <1>6, <1>7 DEF AcceptProceeds

\* The cleaner holds what was scheduled, and erases only that.
LEMMA NewestCleaner ==
    ASSUME TypeOK, NewestInv, CleanerProceeds \/ CleanerWakesSpuriously
    PROVE  NewestInv'
<1> USE DEF connVars, queueVars, threadVars, Cleaner, TypeOK,
            CleanerHolds, CleanerHolding, Starting, Fresh, NewestInv, NotStarted
<1>1. CASE CleanerLoops \/ CleanerFindsNothing \/ CleanerSleeps \/ CleanerWakesSpuriously
  BY <1>1, NewestFrame
  DEF CleanerLoops, CleanerFindsNothing, CleanerSleeps, CleanerWakesSpuriously
<1>2. CASE CleanerPops
  <2>1. /\ Contains(deletionQueue, Head(deletionQueue))
        /\ \A d : Contains(Tail(deletionQueue), d) => Contains(deletionQueue, d)
    BY <1>2, TailMembers DEF CleanerPops
  <2> QED BY <1>2, <2>1, NewestFrame DEF CleanerPops
<1>3. ASSUME NEW c \in Conns, CleanerShutsDown(c) PROVE NewestInv'
  BY <1>3, NewestFrame DEF CleanerShutsDown
<1>4. ASSUME NEW c \in Conns, CleanerErases(c) PROVE NewestInv'
  <2>1. /\ Unique(activeSessions')
        /\ \A d : Contains(activeSessions', d) => Contains(activeSessions, d)
        /\ activeSessions # <<>> /\ Last(activeSessions) # c =>
               activeSessions' # <<>> /\ Last(activeSessions') = Last(activeSessions)
    BY <1>4, EraseMembers DEF CleanerErases, OnceActive
  <2>2. io.at = "connect" => io.c # c
    BY <1>4 DEF CleanerErases
  <2> QED BY <1>4, <2>1, <2>2 DEF CleanerErases, BackIsNew, OnceActive
<1>5. ASSUME NEW c \in Conns, CleanerReleases(c) PROVE NewestInv'
  BY <1>5, NewestFrame DEF CleanerReleases
<1>6. ASSUME NEW c \in Conns, CleanerDestroys(c) PROVE NewestInv'
  BY <1>6, NewestFrame DEF CleanerDestroys, Destroyed
<1> QED BY <1>1, <1>2, <1>3, <1>4, <1>5, <1>6 DEF CleanerProceeds

LEMMA NewestStep == TypeOK /\ NewestInv /\ [Next]_vars => NewestInv'
<1> SUFFICES ASSUME TypeOK, NewestInv, [Next]_vars PROVE NewestInv'
  OBVIOUS
<1> USE ConnsAssumption
    DEF connVars, queueVars, threadVars, Io, CleanerHolds, Starting, NewestInv, NotStarted
<1>1. CASE Stop \/ StopProceeds
  BY <1>1, NewestFrame
  DEF Stop, StopProceeds, IoExits, IoJoined, CleanerJoined, ContextDestroyed
<1>2. CASE UNCHANGED vars
  BY <1>2, NewestFrame DEF vars
<1> QED BY <1>1, <1>2, NewestHandler, NewestTimer, NewestAccept, NewestCleaner
        DEF Next, ServerStep, IoProceeds, Client, Terminated

LEMMA NewestInit == ServerInit => NewestInv
<1> SUFFICES ASSUME ServerInit PROVE NewestInv
  OBVIOUS
<1>1. \A c : ~Contains(activeSessions, c) /\ ~Contains(deletionQueue, c)
  BY EmptySeq DEF ServerInit, Init, Contains
<1>2. Unique(activeSessions)
  BY EmptySeq DEF ServerInit, Init, Unique
<1> QED BY <1>1, <1>2, ConnsAssumption
        DEF ServerInit, Init, NewestInv, NotStarted, OnceActive, BackIsNew, Fresh, Starting,
            CleanerHolds, CleanerHolding

\* The session that connect_to_client starts is the one just accepted, and it is
\* there, though back() is called after the queue was unlocked.
THEOREM NewestIsBack == Spec => []BackIsNew
<1>1. NewestInv => BackIsNew
  BY DEF NewestInv
<1> QED BY <1>1, NewestInit, NewestStep, TypeCorrect, PTL DEF Spec

-------------------------------------------------------------------------------
(* "Closing a socket before deleting": who drops the last reference. *)

\* An open connection that is alive is in a container, or with a thread that
\* will put it into one or shut it down.
OpenIsKept ==
    \A c \in Conns : obj[c] = "alive" /\ sock[c] = "open" =>
        \/ InQueues(c)
        \/ io.at \in {"push", "deny"} /\ io.c = c
        \/ cleaner.at = "shutdown" /\ cleaner.c = c

\* Past its shutdown() the cleaner holds a connection that is not open.
CleanerCut ==
    \A c \in Conns : cleaner.at \in {"erase", "release"} /\ cleaner.c = c => sock[c] # "open"

CutInv == OpenIsKept /\ CleanerCut /\ DestroyedIsShut

\* An action that opens no socket and moves no connection.
LEMMA CutFrame ==
    ASSUME CutInv, UNCHANGED <<obj, activeSessions, deletionQueue, cleaner>>,
           \A d \in Conns : sock'[d] = "open" => sock[d] = "open",
           io' = io \/ io.at \notin {"push", "deny"}
    PROVE  CutInv'
  BY DEF CutInv, OpenIsKept, CleanerCut, DestroyedIsShut, InQueues

\* The handlers drop the last reference only to what is shut.
LEMMA CutHandler ==
    ASSUME TypeOK, LifeInv, CutInv, NEW c \in Conns,
           Handler(c) \/ HandlerReads(c) \/ HandlerProceeds(c) \/ PeerLeaves(c)
    PROVE  CutInv'
<1> USE DEF connVars, queueVars, threadVars, Io, IoIdle, Fail, Runs, Completes, TypeOK, Closed
<1>1. ASSUME NEW cf \in ControlFields, HeaderRead(c, cf) PROVE CutInv'
  BY <1>1, CutFrame DEF HeaderRead
<1>2. CASE HeaderFailed(c)
  BY <1>2, CutFrame DEF HeaderFailed
<1>3. CASE ConnectDecoded(c) \/ PublishDecoded(c) \/ BodyIgnored(c) \/ SendPosted(c) \/ Written(c)
  BY <1>3, CutFrame DEF ConnectDecoded, PublishDecoded, BodyIgnored, SendPosted, Written
<1>4. CASE BodyEndsSession(c)
  BY <1>4, CutFrame DEF BodyEndsSession
<1>5. CASE BodyFailed(c)
  BY <1>5, CutFrame DEF BodyFailed
<1>6. CASE WriteFailed(c)
  BY <1>6, CutFrame DEF WriteFailed
<1>7. CASE StrayHandler(c) \/ LengthThrows(c) \/ LengthStray(c) \/ IoSchedulesDead(c)
  BY <1>7, CutFrame DEF StrayHandler, LengthThrows, LengthStray, IoSchedulesDead
<1>8. CASE LengthRead(c)
  BY <1>8, CutFrame DEF LengthRead
<1>9. CASE LengthTooLong(c)
  BY <1>9, CutFrame DEF LengthTooLong
<1> USE DEF CutInv, OpenIsKept, CleanerCut, DestroyedIsShut, InQueues
<1>10. CASE IoSchedules(c)
  BY <1>10, PushDeletionMembers DEF IoSchedules
<1>11. CASE IoReleases(c)
  <2>1. obj[c] = "alive"
    BY <1>11 DEF IoReleases, LifeInv, RefSound, Referenced, IoHolds, IoHolding
  <2>2. ~(InQueues(c) \/ CleanerHolds(c)) => sock[c] # "open"
    BY <1>11, <2>1 DEF IoReleases, CleanerHolds, CleanerHolding
  <2>3. obj' = obj \/ (obj' = [obj EXCEPT ![c] = "dying"] /\ ~(InQueues(c) \/ CleanerHolds(c)))
    BY <1>11 DEF IoReleases, Unowned
  <2>4. UNCHANGED <<sock, activeSessions, deletionQueue, cleaner>> /\ io.at = "release"
    BY <1>11 DEF IoReleases
  <2> QED BY <2>2, <2>3, <2>4
<1>12. CASE IoDestroys(c)
  BY <1>12 DEF IoDestroys, Destroyed
<1>13. CASE PeerLeaves(c)
  BY <1>13, CutFrame DEF PeerLeaves
<1> QED BY <1>1, <1>2, <1>3, <1>4, <1>5, <1>6, <1>7, <1>8, <1>9, <1>10, <1>11, <1>12, <1>13
        DEF Handler, HandlerReads, HandlerProceeds

\* The timers drop a reference only while there is another one.
LEMMA CutTimer ==
    ASSUME TypeOK, CutInv, NEW c \in Conns, TimerStep(c)
    PROVE  CutInv'
<1> USE DEF connVars, queueVars, threadVars, Fail, Timer, TypeOK
<1>1. CASE TimerFires(c) \/ TimerReleases(c) \/ TimerSchedulesDead(c) \/ TimerJoinsItself(c)
  BY <1>1, CutFrame DEF TimerFires, TimerReleases, TimerSchedulesDead, TimerJoinsItself
<1>2. CASE TimerShutsDown(c)
  BY <1>2, CutFrame DEF TimerShutsDown, Shutdown
<1>3. CASE TimerSchedules(c)
  BY <1>3, PushDeletionMembers
  DEF TimerSchedules, CutInv, OpenIsKept, CleanerCut, DestroyedIsShut, InQueues
<1> QED BY <1>1, <1>2, <1>3 DEF TimerStep

\* The accept handler puts every connection it makes into a container.
LEMMA CutAccept ==
    ASSUME TypeOK, LifeInv, NewestInv, CutInv, NEW c \in Conns, Accept(c) \/ AcceptProceeds(c)
    PROVE  CutInv'
<1> USE DEF connVars, queueVars, threadVars, Fail, Io, TypeOK, CutInv, OpenIsKept, CleanerCut,
            DestroyedIsShut, InQueues
<1>1. CASE Accept(c)
  <2>1. obj[c] = "none" /\ ~CleanerHolds(c)
    BY <1>1 DEF Accept, LifeInv, Unborn, NewestInv, NotStarted, Starting, Fresh
  <2> QED BY <1>1, <2>1 DEF Accept, CleanerHolds, CleanerHolding
<1>2. CASE Admit(c)
  <2>1. io'.at \in {"push", "deny"} /\ io'.c = c
    BY <1>2 DEF Admit
  <2>2. /\ obj' = [obj EXCEPT ![c] = "alive"] /\ io.at = "admit"
        /\ UNCHANGED <<sock, activeSessions, deletionQueue, cleaner>>
    BY <1>2 DEF Admit
  <2> QED BY <2>1, <2>2
<1>3. CASE PushSession(c)
  <2>1. \A d : Contains(activeSessions', d) <=> Contains(activeSessions, d) \/ d = c
    BY <1>3, AppendMembers DEF PushSession
  <2> QED BY <1>3, <2>1 DEF PushSession
<1>4. CASE ConnectToClient(c) \/ LogEndpoint(c) \/ EndpointThrows(c) \/ LogThrows(c) \/ BackOfNothing(c)
  BY <1>4, CutFrame DEF ConnectToClient, LogEndpoint, EndpointThrows, LogThrows, BackOfNothing
<1>5. CASE Deny(c)
  BY <1>5, PushDeletionMembers DEF Deny
<1> QED BY <1>1, <1>2, <1>3, <1>4, <1>5 DEF AcceptProceeds

\* The cleaner shuts a connection down before it erases it.
LEMMA CutCleaner ==
    ASSUME TypeOK, LifeInv, NewestInv, CutInv, CleanerProceeds \/ CleanerWakesSpuriously
    PROVE  CutInv'
<1> USE DEF connVars, queueVars, threadVars, Cleaner, TypeOK, CutInv, OpenIsKept, CleanerCut,
            DestroyedIsShut, InQueues
<1>1. CASE CleanerLoops \/ CleanerFindsNothing \/ CleanerSleeps \/ CleanerWakesSpuriously
  BY <1>1 DEF CleanerLoops, CleanerFindsNothing, CleanerSleeps, CleanerWakesSpuriously
<1>2. CASE CleanerPops
  <2>1. \A d : Contains(deletionQueue, d) <=>
                   Contains(Tail(deletionQueue), d) \/ d = Head(deletionQueue)
    BY <1>2, TailMembers DEF CleanerPops
  <2> QED BY <1>2, <2>1 DEF CleanerPops
<1>3. ASSUME NEW c \in Conns, CleanerShutsDown(c) PROVE CutInv'
  BY <1>3 DEF CleanerShutsDown, Shutdown
<1>4. ASSUME NEW c \in Conns, CleanerErases(c) PROVE CutInv'
  <2>1. \A d : Contains(activeSessions', d) <=> Contains(activeSessions, d) /\ d # c
    BY <1>4, EraseMembers DEF CleanerErases, NewestInv, OnceActive
  <2> QED BY <1>4, <2>1 DEF CleanerErases
<1>5. ASSUME NEW c \in Conns, CleanerReleases(c) PROVE CutInv'
  <2>1. /\ obj' = obj \/ obj' = [obj EXCEPT ![c] = "dying"]
        /\ cleaner'.at \in {"join", "loop"} /\ cleaner.at = "release" /\ cleaner.c = c
        /\ UNCHANGED <<sock, activeSessions, deletionQueue, io>>
    BY <1>5 DEF CleanerReleases, Unowned
  <2> QED BY <2>1
<1>6. ASSUME NEW c \in Conns, CleanerDestroys(c) PROVE CutInv'
  BY <1>6 DEF CleanerDestroys, Destroyed
<1> QED BY <1>1, <1>2, <1>3, <1>4, <1>5, <1>6 DEF CleanerProceeds

LEMMA CutStep == TypeOK /\ LifeInv /\ NewestInv /\ CutInv /\ [Next]_vars => CutInv'
<1> SUFFICES ASSUME TypeOK, LifeInv, NewestInv, CutInv, [Next]_vars PROVE CutInv'
  OBVIOUS
<1> USE DEF connVars, queueVars, threadVars, Io
<1>1. CASE Stop \/ StopProceeds
  BY <1>1, CutFrame
  DEF Stop, StopProceeds, IoExits, IoJoined, CleanerJoined, ContextDestroyed
<1>2. CASE UNCHANGED vars
  BY <1>2, CutFrame DEF vars
<1> QED BY <1>1, <1>2, CutHandler, CutTimer, CutAccept, CutCleaner
        DEF Next, ServerStep, IoProceeds, Client, Terminated

LEMMA CutInit == ServerInit => CutInv
  BY DEF ServerInit, Init, CutInv, OpenIsKept, CleanerCut, DestroyedIsShut

\* Whichever thread drops the last shared_ptr, the socket was shut down before.
THEOREM ShutBeforeDestroyed == Spec => []DestroyedIsShut
<1>1. CutInv => DestroyedIsShut
  BY DEF CutInv
<1> QED BY <1>1, CutInit, CutStep, LifeInit, LifeStep, NewestInit, NewestStep, TypeCorrect,
           PTL DEF Spec

-------------------------------------------------------------------------------
(* Identification: what is pending on a connection before its CONNACK. *)

Unidentified(c) == obj[c] # "freed" /\ ~acked[c]

\* Before the CONNACK is out a header is awaited only as the first one, and a
\* length or a body only of a CONNECT.
ConnectFirst ==
    \A c \in Conns : Unidentified(c) =>
        /\ op[c] = "header" => isFirstPacket[c]
        /\ op[c] = "body" => type[c] = "CONNECT"
        /\ io.at = "length" /\ io.c = c => type[c] = "CONNECT"

\* An action that forgets nothing a connection still needs.
LEMMA IdentFrame ==
    ASSUME ConnectFirst, UNCHANGED <<op, isFirstPacket, type, acked>>,
           \A d \in Conns : obj'[d] # "freed" => obj[d] # "freed",
           io' = io \/ io'.at # "length"
    PROVE  ConnectFirst'
  BY DEF ConnectFirst, Unidentified

\* The handlers identify a client before anything else.
LEMMA IdentHandler ==
    ASSUME TypeOK, LifeInv, ConnectFirst, NEW c \in Conns,
           Handler(c) \/ HandlerReads(c) \/ HandlerProceeds(c) \/ PeerLeaves(c)
    PROVE  ConnectFirst'
<1> USE DEF connVars, queueVars, threadVars, Io, IoIdle, Fail, Runs, Completes, Pend, TypeOK,
            ConnectFirst, Unidentified
<1>1. ASSUME NEW cf \in ControlFields, HeaderRead(c, cf) PROVE ConnectFirst'
  <2> DEFINE h == CreateFixedHeader(cf, type[c]).type
             refused == isFirstPacket[c] /\ h # "CONNECT"
  <2>1. /\ type' = [type EXCEPT ![c] = h] /\ op' = [op EXCEPT ![c] = "none"]
        /\ io'.at = (IF refused THEN "schedule" ELSE "length") /\ io'.c = c
        /\ isFirstPacket' = IF refused THEN isFirstPacket ELSE [isFirstPacket EXCEPT ![c] = FALSE]
        /\ op[c] = "header" /\ obj[c] # "freed" /\ UNCHANGED <<obj, acked>>
    BY <1>1 DEF HeaderRead
  <2>2. ASSUME ~acked[c] PROVE isFirstPacket[c]
    BY <2>1, <2>2
  <2> HIDE DEF h
  <2>3. ASSUME NEW d \in Conns, d # c PROVE op'[d] = op[d] /\ type'[d] = type[d]
                                            /\ isFirstPacket'[d] = isFirstPacket[d]
    BY <2>1, <2>3
  <2>4. type'[c] = h /\ op'[c] = "none"
    BY <2>1
  <2> QED BY <2>1, <2>2, <2>3, <2>4
<1>2. CASE HeaderFailed(c)
  BY <1>2 DEF HeaderFailed
<1>3. CASE ConnectDecoded(c)
  BY <1>3 DEF ConnectDecoded
<1>4. CASE PublishDecoded(c)
  BY <1>4 DEF PublishDecoded
<1>5. CASE BodyEndsSession(c)
  BY <1>5 DEF BodyEndsSession
<1>6. CASE BodyIgnored(c)
  BY <1>6 DEF BodyIgnored
<1>7. CASE BodyFailed(c)
  BY <1>7 DEF BodyFailed
<1>8. CASE SendPosted(c)
  BY <1>8 DEF SendPosted
<1>9. CASE Written(c)
  BY <1>9 DEF Written
<1>10. CASE WriteFailed(c)
  BY <1>10 DEF WriteFailed
<1>11. CASE StrayHandler(c) \/ LengthThrows(c) \/ LengthStray(c) \/ IoSchedulesDead(c)
  BY <1>11 DEF StrayHandler, LengthThrows, LengthStray, IoSchedulesDead
<1>12. CASE LengthRead(c)
  BY <1>12 DEF LengthRead
<1>13. CASE LengthTooLong(c)
  BY <1>13 DEF LengthTooLong
<1>14. CASE IoSchedules(c)
  BY <1>14 DEF IoSchedules
<1>15. CASE IoReleases(c)
  <2>1. obj[c] = "alive"
    BY <1>15 DEF IoReleases, LifeInv, RefSound, Referenced, IoHolds, IoHolding
  <2>2. \A d \in Conns : obj'[d] # "freed" => obj[d] # "freed"
    BY <1>15, <2>1 DEF IoReleases, Unowned
  <2>3. UNCHANGED <<op, isFirstPacket, type, acked>> /\ io'.at # "length"
    BY <1>15 DEF IoReleases
  <2> QED BY <2>2, <2>3, IdentFrame
<1>16. CASE IoDestroys(c)
  BY <1>16 DEF IoDestroys, Destroyed
<1>17. CASE PeerLeaves(c)
  BY <1>17 DEF PeerLeaves
<1> QED BY <1>1, <1>2, <1>3, <1>4, <1>5, <1>6, <1>7, <1>8, <1>9, <1>10, <1>11, <1>12, <1>13,
           <1>14, <1>15, <1>16, <1>17
        DEF Handler, HandlerReads, HandlerProceeds

\* connect_to_client awaits the first header of a connection, and only of the
\* one just accepted.
LEMMA IdentAccept ==
    ASSUME TypeOK, LifeInv, NewestInv, ConnectFirst, NEW c \in Conns, Accept(c) \/ AcceptProceeds(c)
    PROVE  ConnectFirst'
<1> USE DEF connVars, queueVars, threadVars, Io, Fail, TypeOK
<1>1. CASE ConnectToClient(c)
  <2>1. Last(activeSessions) = c /\ isFirstPacket[c] /\ op[c] = "none"
    BY <1>1 DEF ConnectToClient, NewestInv, BackIsNew, NotStarted, Starting
  <2> QED BY <1>1, <2>1 DEF ConnectToClient, Pend, ConnectFirst, Unidentified
<1>2. CASE Admit(c)
  <2>1. obj[c] = "none" /\ obj' = [obj EXCEPT ![c] = "alive"] /\ io'.at # "length"
        /\ UNCHANGED <<op, isFirstPacket, type, acked>>
    BY <1>2 DEF Admit, LifeInv, Unborn
  <2> QED BY <2>1, IdentFrame
<1>3. CASE Accept(c) \/ PushSession(c) \/ LogEndpoint(c) \/ Deny(c)
  BY <1>3, IdentFrame DEF Accept, PushSession, LogEndpoint, Deny
<1>4. CASE EndpointThrows(c) \/ LogThrows(c) \/ BackOfNothing(c)
  BY <1>4, IdentFrame DEF EndpointThrows, LogThrows, BackOfNothing
<1> QED BY <1>1, <1>2, <1>3, <1>4 DEF AcceptProceeds

\* The timers read _receivedData and nothing else of this.
LEMMA IdentTimer ==
    ASSUME ConnectFirst, NEW c \in Conns, TimerStep(c)
    PROVE  ConnectFirst'
  BY IdentFrame
  DEF TimerStep, TimerFires, TimerShutsDown, TimerSchedules, TimerSchedulesDead, TimerReleases,
      TimerJoinsItself, connVars, queueVars, threadVars, Fail

\* The cleaner destroys, and brings nothing back.
LEMMA IdentCleaner ==
    ASSUME TypeOK, LifeInv, ConnectFirst, CleanerProceeds \/ CleanerWakesSpuriously
    PROVE  ConnectFirst'
<1> USE DEF connVars, queueVars, threadVars, TypeOK
<1>1. CASE CleanerLoops \/ CleanerFindsNothing \/ CleanerSleeps \/ CleanerWakesSpuriously \/ CleanerPops
  BY <1>1, IdentFrame
  DEF CleanerLoops, CleanerFindsNothing, CleanerSleeps, CleanerWakesSpuriously, CleanerPops
<1>2. ASSUME NEW c \in Conns, CleanerShutsDown(c) \/ CleanerErases(c) PROVE ConnectFirst'
  BY <1>2, IdentFrame DEF CleanerShutsDown, CleanerErases
<1>3. ASSUME NEW c \in Conns, CleanerReleases(c) PROVE ConnectFirst'
  <2>1. obj[c] = "alive"
    BY <1>3 DEF CleanerReleases, LifeInv, RefSound, Referenced, CleanerHolds, CleanerHolding
  <2>2. \A d \in Conns : obj'[d] # "freed" => obj[d] # "freed"
    BY <1>3, <2>1 DEF CleanerReleases, Unowned
  <2> QED BY <1>3, <2>2, IdentFrame DEF CleanerReleases
<1>4. ASSUME NEW c \in Conns, CleanerDestroys(c) PROVE ConnectFirst'
  BY <1>4 DEF CleanerDestroys, Destroyed, ConnectFirst, Unidentified
<1> QED BY <1>1, <1>2, <1>3, <1>4 DEF CleanerProceeds

LEMMA IdentStep == TypeOK /\ LifeInv /\ NewestInv /\ ConnectFirst /\ [Next]_vars => ConnectFirst'
<1> SUFFICES ASSUME TypeOK, LifeInv, NewestInv, ConnectFirst, [Next]_vars PROVE ConnectFirst'
  OBVIOUS
<1> USE DEF connVars, queueVars, threadVars, Io
<1>1. CASE Stop \/ StopProceeds
  BY <1>1, IdentFrame
  DEF Stop, StopProceeds, IoExits, IoJoined, CleanerJoined, ContextDestroyed
<1>2. CASE UNCHANGED vars
  BY <1>2, IdentFrame DEF vars
<1> QED BY <1>1, <1>2, IdentHandler, IdentTimer, IdentAccept, IdentCleaner
        DEF Next, ServerStep, IoProceeds, Client, Terminated

\* Whatever a client sends, and whenever it is expired, only a connection whose
\* CONNECT was answered gets to the body of another packet.
THEOREM IdentifiedBeforePublish == Spec => []PublishOnlyIdentified
<1>1. ServerInit => ConnectFirst
  BY DEF ServerInit, Init, ConnectFirst, Unidentified
<1>2. ConnectFirst => PublishOnlyIdentified
  BY DEF ConnectFirst, PublishOnlyIdentified, Unidentified
<1> QED BY <1>1, <1>2, IdentStep, LifeInit, LifeStep, NewestInit, NewestStep, TypeCorrect,
           PTL DEF Spec

-------------------------------------------------------------------------------
(* What is pending when a connection goes, and how often it is scheduled. *)

\* Something will still run on the io thread for c.
Busy(c) == op[c] # "none" \/ (io.at = "length" /\ io.c = c)

\* c is scheduled, or not among the sessions.
Unhitched(c) ==
    \/ Contains(deletionQueue, c) \/ ~Contains(activeSessions, c)
    \/ io.at = "schedule" /\ io.c = c
    \/ cleaner.at \in CleanerHolding /\ cleaner.c = c

\* Its timer thread has scheduled c.
Expired(c) == timer[c] \in {"release", "cut"}

\* A handler that schedules a connection leaves nothing to run on it, so that what
\* still runs on one that is scheduled was expired.
BusyIsExpired == \A c \in Conns : Busy(c) /\ Unhitched(c) => Expired(c)

\* An action that takes no connection out of anywhere, and makes none busy.
LEMMA BusyFrame ==
    ASSUME BusyIsExpired,
           \A d \in Conns : Busy(d)' => Busy(d),
           \A d \in Conns : Unhitched(d)' => Unhitched(d),
           \A d \in Conns : Expired(d) => Expired(d)'
    PROVE  BusyIsExpired'
  BY DEF BusyIsExpired

LEMMA BusyHandler ==
    ASSUME TypeOK, BusyIsExpired, NEW c \in Conns,
           Handler(c) \/ HandlerReads(c) \/ HandlerProceeds(c) \/ PeerLeaves(c)
    PROVE  BusyIsExpired'
<1> USE DEF connVars, queueVars, threadVars, Io, IoIdle, Fail, Runs, Completes, Pend, TypeOK,
            Busy, Unhitched, Expired
<1>1. ASSUME NEW cf \in ControlFields, HeaderRead(c, cf) PROVE BusyIsExpired'
  <2>1. /\ op' = [op EXCEPT ![c] = "none"] /\ op[c] = "header" /\ io.at = "idle"
        /\ io'.at \in {"schedule", "length"} /\ io'.c = c
        /\ UNCHANGED <<timer, activeSessions, deletionQueue, cleaner>>
    BY <1>1 DEF HeaderRead
  <2> QED BY <2>1 DEF BusyIsExpired
<1>2. CASE HeaderFailed(c)
  BY <1>2 DEF HeaderFailed, BusyIsExpired
<1>3. CASE ConnectDecoded(c) \/ PublishDecoded(c) \/ BodyIgnored(c) \/ SendPosted(c) \/ Written(c)
  BY <1>3, BusyFrame DEF ConnectDecoded, PublishDecoded, BodyIgnored, SendPosted, Written
<1>4. CASE BodyEndsSession(c)
  BY <1>4 DEF BodyEndsSession, BusyIsExpired
<1>5. CASE BodyFailed(c) \/ WriteFailed(c)
  BY <1>5, BusyFrame DEF BodyFailed, WriteFailed
<1>6. CASE StrayHandler(c) \/ LengthThrows(c) \/ LengthStray(c) \/ IoSchedulesDead(c)
  BY <1>6, BusyFrame DEF StrayHandler, LengthThrows, LengthStray, IoSchedulesDead
<1>7. CASE LengthRead(c) \/ LengthTooLong(c)
  BY <1>7, BusyFrame DEF LengthRead, LengthTooLong
<1>8. CASE IoSchedules(c)
  BY <1>8, PushDeletionMembers DEF IoSchedules, BusyIsExpired, CleanerHolding
<1>9. CASE IoReleases(c) \/ IoDestroys(c)
  BY <1>9, BusyFrame DEF IoReleases, IoDestroys, Destroyed
<1>10. CASE PeerLeaves(c)
  BY <1>10, BusyFrame DEF PeerLeaves
<1> QED BY <1>1, <1>2, <1>3, <1>4, <1>5, <1>6, <1>7, <1>8, <1>9, <1>10
        DEF Handler, HandlerReads, HandlerProceeds

LEMMA BusyTimer ==
    ASSUME TypeOK, BusyIsExpired, NEW c \in Conns, TimerStep(c)
    PROVE  BusyIsExpired'
<1> USE DEF connVars, queueVars, threadVars, Fail, Timer, TypeOK, Busy, Unhitched, Expired
<1>1. CASE TimerFires(c)
  BY <1>1, BusyFrame DEF TimerFires
<1>2. CASE TimerShutsDown(c)
  BY <1>2, BusyFrame DEF TimerShutsDown
<1>3. CASE TimerSchedules(c)
  BY <1>3, PushDeletionMembers DEF TimerSchedules, BusyIsExpired, CleanerHolding
<1>4. CASE TimerReleases(c)
  BY <1>4, BusyFrame DEF TimerReleases
<1>5. CASE TimerSchedulesDead(c) \/ TimerJoinsItself(c)
  BY <1>5, BusyFrame DEF TimerSchedulesDead, TimerJoinsItself
<1> QED BY <1>1, <1>2, <1>3, <1>4, <1>5 DEF TimerStep

\* connect_to_client makes a session busy that nothing has scheduled yet.
LEMMA BusyAccept ==
    ASSUME TypeOK, NewestInv, BusyIsExpired, NEW c \in Conns, Accept(c) \/ AcceptProceeds(c)
    PROVE  BusyIsExpired'
<1> USE DEF connVars, queueVars, threadVars, Fail, Io, Pend, TypeOK, Busy, Unhitched, Expired
<1>1. CASE ConnectToClient(c)
  <2>1. Last(activeSessions) = c /\ Contains(activeSessions, c)
    BY <1>1, LastMember DEF ConnectToClient, NewestInv, BackIsNew
  <2>2. ~Contains(deletionQueue, c) /\ ~(cleaner.at \in CleanerHolding /\ cleaner.c = c)
    BY <1>1 DEF ConnectToClient, NewestInv, NotStarted, Starting, CleanerHolds
  <2>3. timer[c] = "none"
    BY <1>1 DEF ConnectToClient, NewestInv, NotStarted, Starting
  <2> QED BY <1>1, <2>1, <2>2, <2>3 DEF ConnectToClient, BusyIsExpired
<1>2. CASE PushSession(c)
  <2>1. \A d : Contains(activeSessions', d) <=> Contains(activeSessions, d) \/ d = c
    BY <1>2, AppendMembers DEF PushSession
  <2> QED BY <1>2, <2>1, BusyFrame DEF PushSession
<1>3. CASE Accept(c) \/ Admit(c) \/ LogEndpoint(c)
  BY <1>3, BusyFrame DEF Accept, Admit, LogEndpoint
<1>4. CASE Deny(c)
  <2>1. io.at = "deny" /\ io.c = c /\ op[c] = "none"
    BY <1>4 DEF Deny, NewestInv, NotStarted, Starting, Fresh
  <2> QED BY <1>4, <2>1, PushDeletionMembers DEF Deny, BusyIsExpired, CleanerHolding
<1>5. CASE EndpointThrows(c) \/ LogThrows(c) \/ BackOfNothing(c)
  BY <1>5, BusyFrame DEF EndpointThrows, LogThrows, BackOfNothing
<1> QED BY <1>1, <1>2, <1>3, <1>4, <1>5 DEF AcceptProceeds

LEMMA BusyCleaner ==
    ASSUME TypeOK, NewestInv, BusyIsExpired, CleanerProceeds \/ CleanerWakesSpuriously
    PROVE  BusyIsExpired'
<1> USE DEF connVars, queueVars, threadVars, Cleaner, TypeOK, Busy, Unhitched, Expired,
            CleanerHolding
<1>1. CASE CleanerLoops \/ CleanerFindsNothing \/ CleanerSleeps \/ CleanerWakesSpuriously
  BY <1>1, BusyFrame
  DEF CleanerLoops, CleanerFindsNothing, CleanerSleeps, CleanerWakesSpuriously
<1>2. CASE CleanerPops
  <2>1. \A d : Contains(deletionQueue, d) <=>
                   Contains(Tail(deletionQueue), d) \/ d = Head(deletionQueue)
    BY <1>2, TailMembers DEF CleanerPops
  <2> QED BY <1>2, <2>1, BusyFrame DEF CleanerPops
<1>3. ASSUME NEW c \in Conns, CleanerShutsDown(c) PROVE BusyIsExpired'
  BY <1>3, BusyFrame DEF CleanerShutsDown
<1>4. ASSUME NEW c \in Conns, CleanerErases(c) PROVE BusyIsExpired'
  <2>1. \A d : Contains(activeSessions', d) <=> Contains(activeSessions, d) /\ d # c
    BY <1>4, EraseMembers DEF CleanerErases, NewestInv, OnceActive
  <2> QED BY <1>4, <2>1, BusyFrame DEF CleanerErases
<1>5. ASSUME NEW c \in Conns, CleanerReleases(c) PROVE BusyIsExpired'
  BY <1>5, BusyFrame DEF CleanerReleases
<1>6. ASSUME NEW c \in Conns, CleanerDestroys(c) PROVE BusyIsExpired'
  BY <1>6, BusyFrame DEF CleanerDestroys, Destroyed
<1> QED BY <1>1, <1>2, <1>3, <1>4, <1>5, <1>6 DEF CleanerProceeds

LEMMA BusyStep == TypeOK /\ NewestInv /\ BusyIsExpired /\ [Next]_vars => BusyIsExpired'
<1> SUFFICES ASSUME TypeOK, NewestInv, BusyIsExpired, [Next]_vars PROVE BusyIsExpired'
  OBVIOUS
<1> USE DEF connVars, queueVars, threadVars, Io, Busy, Unhitched, Expired
<1>1. CASE Stop \/ StopProceeds
  BY <1>1, BusyFrame
  DEF Stop, StopProceeds, IoExits, IoJoined, CleanerJoined, ContextDestroyed
<1>2. CASE UNCHANGED vars
  BY <1>2, BusyFrame DEF vars
<1> QED BY <1>1, <1>2, BusyHandler, BusyTimer, BusyAccept, BusyCleaner
        DEF Next, ServerStep, IoProceeds, Client, Terminated

LEMMA BusyInit == ServerInit => BusyIsExpired
  BY DEF ServerInit, Init, BusyIsExpired, Busy

\* A connection is destroyed with an operation pending on it only if its timer
\* has expired it: no handler leaves one behind (schedule_for_deletion).
THEOREM PendingOnlyIfCut == Spec => []OnlyTimerCutsPending
<1>1. LifeInv /\ BusyIsExpired => OnlyTimerCutsPending
  <2> SUFFICES ASSUME LifeInv, BusyIsExpired, NEW c \in Conns,
                      obj[c] \in {"dying", "freed"}, op[c] # "none"
               PROVE  timer[c] = "cut"
    BY DEF OnlyTimerCutsPending
  <2>1. ~Contains(activeSessions, c) /\ timer[c] # "release"
    BY DEF LifeInv, RefSound, Referenced, InQueues, TimerHolds
  <2> QED BY <2>1 DEF BusyIsExpired, Busy, Unhitched, Expired
<1> QED BY <1>1, BusyInit, BusyStep, LifeInit, LifeStep, NewestInit, NewestStep, TypeCorrect,
           PTL DEF Spec

\* The io thread may still schedule c: it has not made it, or is on the way.
IoMay(c) == \/ obj[c] = "none" \/ Busy(c)
            \/ io.at \in {"push", "connect", "deny", "schedule"} /\ io.c = c

Once(S)  == \A i, j \in S : i = j
Twice(S) == \A i, j, k \in S : i = j \/ j = k \/ i = k

\* Each of the two threads that may schedule a connection does it once.
ScheduleInv ==
    \A c \in Conns :
        /\ IoMay(c) /\ ~Expired(c) => Scheduled(c) = {}
        /\ IoMay(c) \/ ~Expired(c) => Once(Scheduled(c))
        /\ Twice(Scheduled(c))
        /\ io.at = "schedule" /\ io.c = c => op[c] = "none"

\* An action that leaves the queue alone, and revives nothing.
LEMMA ScheduleFrame ==
    ASSUME ScheduleInv, UNCHANGED deletionQueue,
           \A d \in Conns : IoMay(d)' => IoMay(d),
           \A d \in Conns : Expired(d) => Expired(d)',
           \A d \in Conns : io'.at = "schedule" /\ io'.c = d =>
               op'[d] = "none" \/ (io' = io /\ op' = op)
    PROVE  ScheduleInv'
<1>1. \A d \in Conns : Scheduled(d)' = Scheduled(d)
  BY DEF Scheduled
<1> QED BY <1>1, Zenon DEF ScheduleInv

\* Another position for c, and none for others.
LEMMA ScheduledAgain ==
    ASSUME TypeOK, NEW c \in Conns, PushDeletion(c)
    PROVE  /\ Scheduled(c)' = Scheduled(c) \cup {Len(deletionQueue) + 1}
           /\ \A d \in Conns \ {c} : Scheduled(d)' = Scheduled(d)
<1>1. /\ Len(deletionQueue) \in Nat
      /\ Len(deletionQueue') = Len(deletionQueue) + 1
      /\ \A i \in 1..Len(deletionQueue) : deletionQueue'[i] = deletionQueue[i]
      /\ deletionQueue'[Len(deletionQueue) + 1] = c
  BY AppendProperties, LenProperties DEF PushDeletion, TypeOK
<1> QED BY <1>1 DEF Scheduled

\* A push is right if only the thread that pushes has been missing.
LEMMA SchedulePush ==
    ASSUME TypeOK, ScheduleInv, NEW c \in Conns, PushDeletion(c),
           \A d \in Conns : IoMay(d)' => IoMay(d),
           \A d \in Conns : Expired(d) => Expired(d)',
           \/ IoMay(c) /\ ~IoMay(c)'
           \/ ~Expired(c) /\ Expired(c)',
           \A d \in Conns : io'.at = "schedule" /\ io'.c = d => io' = io /\ op' = op
    PROVE  ScheduleInv'
<1>1. ASSUME NEW d \in Conns, d # c
      PROVE  /\ IoMay(d)' /\ ~Expired(d)' => Scheduled(d)' = {}
             /\ IoMay(d)' \/ ~Expired(d)' => Once(Scheduled(d)')
             /\ Twice(Scheduled(d)')
  <2>1. Scheduled(d)' = Scheduled(d)
    BY <1>1, ScheduledAgain
  <2> QED BY <2>1, Zenon DEF ScheduleInv
<1>2. /\ ~(IoMay(c)' /\ ~Expired(c)')
      /\ IoMay(c)' \/ ~Expired(c)' => Once(Scheduled(c)')
      /\ Twice(Scheduled(c)')
  <2>1. Scheduled(c)' = Scheduled(c) \cup {Len(deletionQueue) + 1}
    BY ScheduledAgain
  <2>2. ASSUME Scheduled(c) = {} PROVE Once(Scheduled(c)') /\ Twice(Scheduled(c)')
    BY <2>1, <2>2 DEF Once, Twice
  <2>3. ASSUME Once(Scheduled(c)) PROVE Twice(Scheduled(c)')
    BY <2>1, <2>3 DEF Once, Twice
  <2>4. CASE IoMay(c) /\ ~Expired(c)
    <3>1. Scheduled(c) = {} /\ ~(IoMay(c)' /\ ~Expired(c)')
      BY <2>4 DEF ScheduleInv
    <3> QED BY <2>2, <3>1
  <2>5. CASE ~(IoMay(c) /\ ~Expired(c))
    <3>1. Once(Scheduled(c))
      BY <2>5, Zenon DEF ScheduleInv
    <3>2. ~IoMay(c)' /\ Expired(c)'
      BY <2>5
    <3> QED BY <2>3, <3>1, <3>2
  <2> QED BY <2>4, <2>5
<1>3. \A d \in Conns : io'.at = "schedule" /\ io'.c = d => op'[d] = "none"
  BY DEF ScheduleInv
<1>4. ASSUME NEW d \in Conns
      PROVE  /\ IoMay(d)' /\ ~Expired(d)' => Scheduled(d)' = {}
             /\ IoMay(d)' \/ ~Expired(d)' => Once(Scheduled(d)')
             /\ Twice(Scheduled(d)')
  BY <1>1, <1>2, Zenon
<1> QED BY <1>3, <1>4, Zenon DEF ScheduleInv

LEMMA ScheduleHandler ==
    ASSUME TypeOK, ScheduleInv, NEW c \in Conns,
           Handler(c) \/ HandlerReads(c) \/ HandlerProceeds(c) \/ PeerLeaves(c)
    PROVE  ScheduleInv'
<1> USE DEF connVars, queueVars, threadVars, Io, IoIdle, Fail, Runs, Completes, Pend, TypeOK,
            Busy, IoMay, Expired
<1>1. ASSUME NEW cf \in ControlFields, HeaderRead(c, cf) PROVE ScheduleInv'
  <2>1. /\ op' = [op EXCEPT ![c] = "none"] /\ op[c] = "header" /\ io.at = "idle"
        /\ io'.at \in {"schedule", "length"} /\ io'.c = c
        /\ UNCHANGED <<obj, timer, deletionQueue>>
    BY <1>1 DEF HeaderRead
  <2> QED BY <2>1, ScheduleFrame
<1>2. CASE HeaderFailed(c)
  BY <1>2, ScheduleFrame DEF HeaderFailed
<1>3. CASE ConnectDecoded(c) \/ PublishDecoded(c) \/ BodyIgnored(c) \/ SendPosted(c) \/ Written(c)
  BY <1>3, ScheduleFrame DEF ConnectDecoded, PublishDecoded, BodyIgnored, SendPosted, Written
<1>4. CASE BodyEndsSession(c)
  BY <1>4, ScheduleFrame DEF BodyEndsSession
<1>5. CASE BodyFailed(c) \/ WriteFailed(c)
  BY <1>5, ScheduleFrame DEF BodyFailed, WriteFailed
<1>6. CASE StrayHandler(c) \/ LengthThrows(c) \/ LengthStray(c) \/ IoSchedulesDead(c)
  BY <1>6, ScheduleFrame DEF StrayHandler, LengthThrows, LengthStray, IoSchedulesDead
<1>7. CASE LengthRead(c) \/ LengthTooLong(c)
  BY <1>7, ScheduleFrame DEF LengthRead, LengthTooLong
<1>8. CASE IoSchedules(c)
  <2>1. /\ io.at = "schedule" /\ io.c = c /\ io'.at = "release" /\ io'.c = c
        /\ obj[c] = "alive" /\ PushDeletion(c) /\ UNCHANGED <<obj, op, timer>>
    BY <1>8 DEF IoSchedules
  <2>2. op[c] = "none"
    BY <2>1 DEF ScheduleInv
  <2>3. IoMay(c) /\ ~IoMay(c)'
    BY <2>1, <2>2
  <2>4. /\ \A d \in Conns : IoMay(d)' => IoMay(d)
        /\ \A d \in Conns : Expired(d) => Expired(d)'
        /\ \A d \in Conns : io'.at = "schedule" /\ io'.c = d => io' = io /\ op' = op
    BY <2>1
  <2> HIDE DEF IoMay, Expired
  <2> QED BY <2>1, <2>3, <2>4, SchedulePush
<1>9. CASE IoReleases(c) \/ IoDestroys(c)
  BY <1>9, ScheduleFrame DEF IoReleases, Unowned, IoDestroys, Destroyed
<1>10. CASE PeerLeaves(c)
  BY <1>10, ScheduleFrame DEF PeerLeaves
<1> QED BY <1>1, <1>2, <1>3, <1>4, <1>5, <1>6, <1>7, <1>8, <1>9, <1>10
        DEF Handler, HandlerReads, HandlerProceeds

LEMMA ScheduleTimer ==
    ASSUME TypeOK, ScheduleInv, NEW c \in Conns, TimerStep(c)
    PROVE  ScheduleInv'
<1> USE DEF connVars, queueVars, threadVars, Fail, Timer, TypeOK, Busy, IoMay, Expired
<1>1. CASE TimerFires(c)
  BY <1>1, ScheduleFrame DEF TimerFires
<1>2. CASE TimerShutsDown(c)
  BY <1>2, ScheduleFrame DEF TimerShutsDown
<1>3. CASE TimerSchedules(c)
  <2>1. /\ timer[c] = "schedule" /\ timer' = [timer EXCEPT ![c] = "release"]
        /\ PushDeletion(c) /\ UNCHANGED <<obj, op, io>>
    BY <1>3 DEF TimerSchedules
  <2>2. ~Expired(c) /\ Expired(c)'
    BY <2>1
  <2>3. /\ \A d \in Conns : IoMay(d)' => IoMay(d)
        /\ \A d \in Conns : Expired(d) => Expired(d)'
    BY <2>1
  <2> HIDE DEF IoMay, Expired
  <2> QED BY <2>1, <2>2, <2>3, SchedulePush
<1>4. CASE TimerReleases(c)
  BY <1>4, ScheduleFrame DEF TimerReleases
<1>5. CASE TimerSchedulesDead(c) \/ TimerJoinsItself(c)
  BY <1>5, ScheduleFrame DEF TimerSchedulesDead, TimerJoinsItself
<1> QED BY <1>1, <1>2, <1>3, <1>4, <1>5 DEF TimerStep

LEMMA ScheduleAccept ==
    ASSUME TypeOK, LifeInv, NewestInv, ScheduleInv, NEW c \in Conns,
           Accept(c) \/ AcceptProceeds(c)
    PROVE  ScheduleInv'
<1> USE DEF connVars, queueVars, threadVars, Fail, Io, Pend, TypeOK, Busy, IoMay, Expired
<1>1. CASE ConnectToClient(c)
  <2>1. Last(activeSessions) = c
    BY <1>1 DEF ConnectToClient, NewestInv, BackIsNew
  <2>2. timer[c] = "none"
    BY <1>1 DEF ConnectToClient, NewestInv, NotStarted, Starting
  <2> QED BY <1>1, <2>1, <2>2, ScheduleFrame DEF ConnectToClient
<1>2. CASE PushSession(c)
  BY <1>2, ScheduleFrame DEF PushSession
<1>3. CASE Accept(c)
  BY <1>3, ScheduleFrame DEF Accept
<1>4. CASE Admit(c)
  <2>1. /\ io.at = "admit" /\ io.c = c /\ io'.at \in {"push", "deny"} /\ io'.c = c
        /\ obj' = [obj EXCEPT ![c] = "alive"] /\ UNCHANGED <<op, timer, deletionQueue>>
    BY <1>4 DEF Admit
  <2>2. obj[c] = "none"
    BY <2>1 DEF LifeInv, Unborn
  <2> QED BY <2>1, <2>2, ScheduleFrame
<1>5. CASE LogEndpoint(c)
  BY <1>5, ScheduleFrame DEF LogEndpoint
<1>6. CASE Deny(c)
  <2>1. /\ io.at = "deny" /\ io.c = c /\ io'.at = "release" /\ io'.c = c
        /\ PushDeletion(c) /\ UNCHANGED <<obj, op, timer>>
    BY <1>6 DEF Deny
  <2>2. op[c] = "none" /\ obj[c] = "alive"
    BY <2>1 DEF NewestInv, NotStarted, Starting, Fresh, LifeInv, RefSound, Referenced, IoHolds,
                IoHolding
  <2>3. IoMay(c) /\ ~IoMay(c)'
    BY <2>1, <2>2
  <2>4. /\ \A d \in Conns : IoMay(d)' => IoMay(d)
        /\ \A d \in Conns : Expired(d) => Expired(d)'
        /\ \A d \in Conns : io'.at = "schedule" /\ io'.c = d => io' = io /\ op' = op
    BY <2>1
  <2> HIDE DEF IoMay, Expired
  <2> QED BY <2>1, <2>3, <2>4, SchedulePush
<1>7. CASE EndpointThrows(c) \/ LogThrows(c) \/ BackOfNothing(c)
  BY <1>7, ScheduleFrame DEF EndpointThrows, LogThrows, BackOfNothing
<1> QED BY <1>1, <1>2, <1>3, <1>4, <1>5, <1>6, <1>7 DEF AcceptProceeds

LEMMA ScheduleCleaner ==
    ASSUME TypeOK, ScheduleInv, CleanerProceeds \/ CleanerWakesSpuriously
    PROVE  ScheduleInv'
<1> USE DEF connVars, queueVars, threadVars, Cleaner, TypeOK, Busy, IoMay, Expired
<1>1. CASE CleanerLoops \/ CleanerFindsNothing \/ CleanerSleeps \/ CleanerWakesSpuriously
  BY <1>1, ScheduleFrame
  DEF CleanerLoops, CleanerFindsNothing, CleanerSleeps, CleanerWakesSpuriously
<1>2. CASE CleanerPops
  <2>1. /\ Len(deletionQueue) \in Nat /\ Len(deletionQueue') = Len(deletionQueue) - 1
        /\ \A i \in 1..(Len(deletionQueue) - 1) : deletionQueue'[i] = deletionQueue[i + 1]
        /\ UNCHANGED <<connVars, io>>
    BY <1>2, HeadTailProperties, LenProperties DEF CleanerPops
  <2>2. ASSUME NEW d \in Conns, NEW i \in Scheduled(d)' PROVE i \in Nat /\ i + 1 \in Scheduled(d)
    BY <2>1, <2>2 DEF Scheduled
  <2>3. ASSUME NEW d \in Conns
        PROVE  /\ Scheduled(d) = {} => Scheduled(d)' = {}
               /\ Once(Scheduled(d)) => Once(Scheduled(d)')
               /\ Twice(Scheduled(d)) => Twice(Scheduled(d)')
    BY <2>2, <2>3 DEF Once, Twice
  <2>4. \A d \in Conns : (IoMay(d)' <=> IoMay(d)) /\ (Expired(d)' <=> Expired(d))
    BY <2>1
  <2>5. UNCHANGED <<io, op>>
    BY <2>1
  <2> HIDE DEF IoMay, Expired, Busy
  <2> QED BY <2>3, <2>4, <2>5, Zenon DEF ScheduleInv
<1>3. ASSUME NEW c \in Conns, CleanerShutsDown(c) \/ CleanerErases(c) PROVE ScheduleInv'
  BY <1>3, ScheduleFrame DEF CleanerShutsDown, CleanerErases
<1>4. ASSUME NEW c \in Conns, CleanerReleases(c) PROVE ScheduleInv'
  BY <1>4, ScheduleFrame DEF CleanerReleases, Unowned
<1>5. ASSUME NEW c \in Conns, CleanerDestroys(c) PROVE ScheduleInv'
  BY <1>5, ScheduleFrame DEF CleanerDestroys, Destroyed
<1> QED BY <1>1, <1>2, <1>3, <1>4, <1>5 DEF CleanerProceeds

LEMMA ScheduleStep ==
    TypeOK /\ LifeInv /\ NewestInv /\ ScheduleInv /\ [Next]_vars => ScheduleInv'
<1> SUFFICES ASSUME TypeOK, LifeInv, NewestInv, ScheduleInv, [Next]_vars PROVE ScheduleInv'
  OBVIOUS
<1> USE DEF connVars, queueVars, threadVars, Io, Busy, IoMay, Expired
<1>1. CASE Stop \/ StopProceeds
  BY <1>1, ScheduleFrame
  DEF Stop, StopProceeds, IoExits, IoJoined, CleanerJoined, ContextDestroyed
<1>2. CASE UNCHANGED vars
  BY <1>2, ScheduleFrame DEF vars
<1> QED BY <1>1, <1>2, ScheduleHandler, ScheduleTimer, ScheduleAccept, ScheduleCleaner
        DEF Next, ServerStep, IoProceeds, Client, Terminated

LEMMA ScheduleInit == ServerInit => ScheduleInv
<1> SUFFICES ASSUME ServerInit PROVE ScheduleInv
  OBVIOUS
<1>1. \A c \in Conns : Scheduled(c) = {}
  BY EmptySeq DEF ServerInit, Init, Scheduled
<1> QED BY <1>1 DEF ServerInit, Init, ScheduleInv, Once, Twice

\* A set whose elements are all the same, or that has at most two.
LEMMA AtMostTwo ==
    ASSUME NEW S
    PROVE  /\ Once(S) => Cardinality(S) <= 1
           /\ Twice(S) => Cardinality(S) <= 2
<1>1. ASSUME Once(S) PROVE Cardinality(S) \in 0..1
  <2>1. CASE S = {}
    BY <2>1, FS_EmptySet
  <2>2. CASE S # {}
    <3>1. PICK x \in S : TRUE
      BY <2>2
    <3>2. S = {x}
      BY <1>1, <3>1 DEF Once
    <3> QED BY <3>2, FS_Singleton
  <2> QED BY <2>1, <2>2
<1>2. ASSUME Twice(S) PROVE Cardinality(S) \in 0..2
  <2>1. CASE Once(S)
    BY <1>1, <2>1
  <2>2. CASE ~Once(S)
    <3>1. PICK x, y \in S : x # y
      BY <2>2 DEF Once
    <3>2. S = {x} \cup {y}
      BY <1>2, <3>1 DEF Twice
    <3>3. IsFiniteSet({x}) /\ Cardinality({x}) = 1
      BY FS_Singleton
    <3>4. Cardinality({x} \cup {y}) = 2
      BY <3>1, <3>3, FS_AddElement
    <3> QED BY <3>2, <3>4
  <2> QED BY <2>1, <2>2
<1> QED BY <1>1, <1>2

\* A client that answers at the last moment is scheduled by its timer and by a
\* handler, and by nobody again (schedule_for_deletion, connect_to_client).
THEOREM ScheduledByEachOnce == Spec => []ScheduledAtMostTwice
<1>1. ScheduleInv => ScheduledAtMostTwice
  <2> SUFFICES ASSUME ScheduleInv, NEW c \in Conns
               PROVE  Cardinality(Scheduled(c)) <= (IF Expired(c) THEN 2 ELSE 1)
    BY DEF ScheduledAtMostTwice, Expired
  <2>1. CASE Expired(c)
    BY <2>1, AtMostTwo DEF ScheduleInv
  <2>2. CASE ~Expired(c)
    BY <2>2, AtMostTwo DEF ScheduleInv
  <2> QED BY <2>1, <2>2
<1> QED BY <1>1, ScheduleInit, ScheduleStep, LifeInit, LifeStep, NewestInit, NewestStep,
           TypeCorrect, PTL DEF Spec

-------------------------------------------------------------------------------
(* The sessions are slots. *)

\* A connection is open until connect_to_client has started it, and every session
\* but the one that is being accepted was started.
StartsOpen ==
    \A c \in Conns : io.at \in {"admit", "push", "connect"} /\ io.c = c => sock[c] = "open"
SessionsStarted ==
    \A c \in Conns : Contains(activeSessions, c) =>
                         timer[c] # "none" \/ (io.at = "connect" /\ io.c = c)

StartInv == StartsOpen /\ SessionsStarted

\* What cuts no connection that is being accepted, adds no session and stops no timer.
LEMMA StartFrame ==
    ASSUME StartInv,
           io' = io \/ (io.at # "connect" /\ io'.at \notin {"admit", "push", "connect"}),
           \A d \in Conns : io.at \in {"admit", "push", "connect"} /\ io.c = d =>
                                sock'[d] = sock[d],
           \A d \in Conns : Contains(activeSessions', d) => Contains(activeSessions, d),
           \A d \in Conns : timer'[d] = "none" => timer[d] = "none"
    PROVE  StartInv'
  BY DEF StartInv, StartsOpen, SessionsStarted

LEMMA StartHandler ==
    ASSUME TypeOK, StartInv, NEW c \in Conns,
           Handler(c) \/ HandlerReads(c) \/ HandlerProceeds(c) \/ PeerLeaves(c)
    PROVE  StartInv'
<1> USE DEF connVars, queueVars, threadVars, Io, IoIdle, Fail, Runs, Completes, TypeOK
<1>1. ASSUME NEW cf \in ControlFields, HeaderRead(c, cf) PROVE StartInv'
  BY <1>1, StartFrame DEF HeaderRead
<1>2. CASE \/ HeaderFailed(c) \/ ConnectDecoded(c) \/ PublishDecoded(c) \/ BodyEndsSession(c)
           \/ BodyIgnored(c) \/ BodyFailed(c)
  BY <1>2, StartFrame
  DEF HeaderFailed, ConnectDecoded, PublishDecoded, BodyEndsSession, BodyIgnored, BodyFailed
<1>3. CASE SendPosted(c) \/ Written(c) \/ WriteFailed(c) \/ LengthRead(c) \/ LengthTooLong(c)
  BY <1>3, StartFrame DEF SendPosted, Written, WriteFailed, LengthRead, LengthTooLong
<1>4. CASE StrayHandler(c) \/ LengthThrows(c) \/ LengthStray(c) \/ IoSchedulesDead(c)
  BY <1>4, StartFrame DEF StrayHandler, LengthThrows, LengthStray, IoSchedulesDead
<1>5. CASE IoSchedules(c) \/ IoReleases(c) \/ IoDestroys(c)
  BY <1>5, StartFrame DEF IoSchedules, IoReleases, IoDestroys, Destroyed
<1>6. CASE PeerLeaves(c)
  BY <1>6, StartFrame DEF PeerLeaves
<1> QED BY <1>1, <1>2, <1>3, <1>4, <1>5, <1>6 DEF Handler, HandlerReads, HandlerProceeds

LEMMA StartTimer ==
    ASSUME TypeOK, NewestInv, StartInv, NEW c \in Conns, TimerStep(c)
    PROVE  StartInv'
<1> USE DEF connVars, queueVars, threadVars, Fail, Timer, TypeOK
<1>1. ASSUME NEW d \in Conns, io.at \in {"admit", "push", "connect"} /\ io.c = d
      PROVE  timer[d] = "none"
  BY <1>1 DEF NewestInv, NotStarted, Starting, Fresh
<1>2. CASE TimerFires(c)
  BY <1>2, StartFrame DEF TimerFires
<1>3. CASE TimerShutsDown(c)
  BY <1>1, <1>3, StartFrame DEF TimerShutsDown, Shutdown
<1>4. CASE TimerSchedules(c) \/ TimerReleases(c)
  BY <1>4, StartFrame DEF TimerSchedules, TimerReleases
<1>5. CASE TimerSchedulesDead(c) \/ TimerJoinsItself(c)
  BY <1>5, StartFrame DEF TimerSchedulesDead, TimerJoinsItself
<1> QED BY <1>2, <1>3, <1>4, <1>5 DEF TimerStep

LEMMA StartAccept ==
    ASSUME TypeOK, NewestInv, StartInv, NEW c \in Conns, Accept(c) \/ AcceptProceeds(c)
    PROVE  StartInv'
<1> USE DEF connVars, queueVars, threadVars, Fail, Io, TypeOK
<1>1. CASE Accept(c)
  BY <1>1 DEF Accept, StartInv, StartsOpen, SessionsStarted
<1>2. CASE Admit(c)
  BY <1>2 DEF Admit, StartInv, StartsOpen, SessionsStarted
<1>3. CASE PushSession(c)
  <2>1. \A d : Contains(activeSessions', d) <=> Contains(activeSessions, d) \/ d = c
    BY <1>3, AppendMembers DEF PushSession
  <2> QED BY <1>3, <2>1 DEF PushSession, StartInv, StartsOpen, SessionsStarted
<1>4. CASE ConnectToClient(c)
  <2>1. Last(activeSessions) = c /\ sock[c] = "open"
    BY <1>4 DEF ConnectToClient, NewestInv, BackIsNew, StartInv, StartsOpen
  <2> QED BY <1>4, <2>1 DEF ConnectToClient, StartInv, StartsOpen, SessionsStarted
<1>5. CASE LogEndpoint(c) \/ Deny(c)
  BY <1>5, StartFrame DEF LogEndpoint, Deny
<1>6. CASE EndpointThrows(c) \/ LogThrows(c) \/ BackOfNothing(c)
  BY <1>6, StartFrame DEF EndpointThrows, LogThrows, BackOfNothing
<1> QED BY <1>1, <1>2, <1>3, <1>4, <1>5, <1>6 DEF AcceptProceeds

LEMMA StartCleaner ==
    ASSUME TypeOK, LifeInv, NewestInv, StartInv, CleanerProceeds \/ CleanerWakesSpuriously
    PROVE  StartInv'
<1> USE DEF connVars, queueVars, threadVars, Cleaner, TypeOK
<1>1. CASE CleanerLoops \/ CleanerFindsNothing \/ CleanerSleeps \/ CleanerWakesSpuriously \/ CleanerPops
  BY <1>1, StartFrame
  DEF CleanerLoops, CleanerFindsNothing, CleanerSleeps, CleanerWakesSpuriously, CleanerPops
<1>2. ASSUME NEW c \in Conns, CleanerShutsDown(c) PROVE StartInv'
  <2>1. ~(io.at \in {"admit", "push", "connect"} /\ io.c = c)
    BY <1>2 DEF CleanerShutsDown, NewestInv, NotStarted, Starting, Fresh, CleanerHolds,
                CleanerHolding
  <2> QED BY <1>2, <2>1, StartFrame DEF CleanerShutsDown, Shutdown
<1>3. ASSUME NEW c \in Conns, CleanerErases(c) PROVE StartInv'
  <2>1. \A d : Contains(activeSessions', d) => Contains(activeSessions, d)
    BY <1>3, EraseContains DEF CleanerErases
  <2> QED BY <1>3, <2>1, StartFrame DEF CleanerErases
<1>4. ASSUME NEW c \in Conns, CleanerReleases(c) PROVE StartInv'
  BY <1>4, StartFrame DEF CleanerReleases
<1>5. ASSUME NEW c \in Conns, CleanerDestroys(c) PROVE StartInv'
  <2>1. obj[c] = "dying"
    BY <1>5 DEF CleanerDestroys, LifeInv, Joining
  <2>2. ~(io.at \in {"push", "connect"} /\ io.c = c)
    BY <2>1 DEF LifeInv, RefSound, Referenced, IoHolds, IoHolding
  <2>3. ~(io.at = "admit" /\ io.c = c)
    BY <2>1 DEF LifeInv, Unborn
  <2> QED BY <1>5, <2>2, <2>3, StartFrame DEF CleanerDestroys, Destroyed
<1> QED BY <1>1, <1>2, <1>3, <1>4, <1>5 DEF CleanerProceeds

LEMMA StartStep ==
    TypeOK /\ LifeInv /\ NewestInv /\ StartInv /\ [Next]_vars => StartInv'
<1> SUFFICES ASSUME TypeOK, LifeInv, NewestInv, StartInv, [Next]_vars PROVE StartInv'
  OBVIOUS
<1> USE DEF connVars, queueVars, threadVars, Io
<1>1. CASE Stop \/ StopProceeds
  BY <1>1, StartFrame
  DEF Stop, StopProceeds, IoExits, IoJoined, CleanerJoined, ContextDestroyed
<1>2. CASE UNCHANGED vars
  BY <1>2, StartFrame DEF vars
<1> QED BY <1>1, <1>2, StartHandler, StartTimer, StartAccept, StartCleaner
        DEF Next, ServerStep, IoProceeds, Client, Terminated

LEMMA StartInit == ServerInit => StartInv
<1> SUFFICES ASSUME ServerInit PROVE StartInv
  OBVIOUS
<1>1. \A c : ~Contains(activeSessions, c)
  BY EmptySeq DEF ServerInit, Init, Contains
<1> QED BY <1>1 DEF ServerInit, Init, StartInv, StartsOpen, SessionsStarted

\* A deque without duplicates has as many elements as places.
LEMMA MembersCounted ==
    ASSUME NEW V, NEW s \in Seq(V), Unique(s)
    PROVE  LET R == {v \in V : Contains(s, v)}
           IN IsFiniteSet(R) /\ Cardinality(R) = Len(s)
<1> DEFINE R == {v \in V : Contains(s, v)}
           f == [i \in 1..Len(s) |-> s[i]]
<1>1. Len(s) \in Nat
  BY LenProperties
<1>2. \A i \in 1..Len(s) : s[i] \in R
  BY ElementOfSeq DEF Contains
<1>3. f \in [1..Len(s) -> R]
  BY <1>2
<1>4. f \in Injection(1..Len(s), R)
  BY <1>3 DEF Injection, IsInjective, Unique
<1>5. f \in Surjection(1..Len(s), R)
  BY <1>3 DEF Surjection, Contains
<1>6. ExistsBijection(1..Len(s), R)
  BY <1>4, <1>5 DEF ExistsBijection, Bijection
<1>7. IsFiniteSet(1..Len(s)) /\ Cardinality(1..Len(s)) = Len(s)
  BY <1>1, FS_Interval
<1> HIDE DEF R
<1>8. IsFiniteSet(R) /\ Cardinality(R) = Cardinality(1..Len(s))
  BY <1>6, <1>7, FS_Bijection
<1> QED BY <1>7, <1>8 DEF R

ServerInv == TypeOK /\ SlotInv /\ LifeInv /\ NewestInv /\ CutInv /\ StartInv

IsCut(c) == obj[c] # "none" /\ sock[c] # "open"
SlotOf   == [c \in Conns |-> Slot(c)]
CutSet   == {c \in Conns : IsCut(c)}

\* The active slots are the sessions.
LEMMA ActiveAreSessions ==
    ASSUME ServerInv
    PROVE  /\ \A c \in Conns : Slot(c) = "active" <=> Contains(activeSessions, c)
           /\ Cardinality(Slots!Active) = Len(activeSessions)
<1>1. ASSUME NEW c \in Conns PROVE Slot(c) = "active" <=> Contains(activeSessions, c)
  <2>1. Contains(activeSessions, c) => obj[c] = "alive" /\ ~(io.at = "push" /\ io.c = c)
    BY DEF ServerInv, LifeInv, RefSound, Referenced, InQueues, NewestInv, NotStarted, Fresh
  <2> QED BY <2>1 DEF Slot
<1>2. Slots!Active = {c \in Conns : Contains(activeSessions, c)}
  BY <1>1 DEF Slots!Active
<1>3. Cardinality(Slots!Active) = Len(activeSessions)
  BY <1>2, MembersCounted DEF ServerInv, TypeOK, NewestInv, OnceActive
<1> QED BY <1>1, <1>3

\* SessionSlots counts as this module does.
LEMMA SlotsCount == \A S : Slots!Cardinality(S) = Cardinality(S)
  BY Zenon DEF Slots!Cardinality, Cardinality

\* A step that takes no slot and gives none back, and cuts at most c, which has one.
LEMMA SlotsFrame ==
    ASSUME NEW c \in Conns,
           \A d \in Conns : Slot(d)' = Slot(d),
           \A d \in Conns : d # c => (IsCut(d)' <=> IsCut(d)),
           IsCut(c) => IsCut(c)',
           IsCut(c)' => IsCut(c) \/ Slot(c) # "new"
    PROVE  [Slots!SNext]_Slots!svars
<1>1. SlotOf' = SlotOf
  BY DEF SlotOf
<1>2. CASE IsCut(c)' <=> IsCut(c)
  <2>1. CutSet' = CutSet
    BY <1>2 DEF CutSet
  <2> QED BY <1>1, <2>1 DEF Slots!svars, SlotOf, CutSet, IsCut
<1>3. CASE ~(IsCut(c)' <=> IsCut(c))
  <2>1. ~IsCut(c) /\ IsCut(c)' /\ Slot(c) # "new"
    BY <1>3
  <2>2. CutSet' = CutSet \cup {c} /\ c \notin CutSet
    BY <2>1 DEF CutSet
  <2>3. SlotOf[c] # "new"
    BY <2>1 DEF SlotOf
  <2>4. Slots!Cut(c)
    BY <1>1, <2>2, <2>3 DEF Slots!Cut, SlotOf, CutSet, IsCut
  <2> QED BY <2>4 DEF Slots!SNext
<1> QED BY <1>2, <1>3

\* A step that leaves the state of all connections as it is.
LEMMA SlotsStutter ==
    ASSUME UNCHANGED <<obj, sock, activeSessions>>,
           \A d \in Conns : timer'[d] = "none" <=> timer[d] = "none",
           io' = io \/ (io.at # "push" /\ io'.at # "push")
    PROVE  [Slots!SNext]_Slots!svars
<1>1. \A d \in Conns : Slot(d)' = Slot(d) /\ (IsCut(d)' <=> IsCut(d))
  BY DEF Slot, IsCut
<1>2. SlotOf' = SlotOf /\ CutSet' = CutSet
  BY <1>1 DEF SlotOf, CutSet
<1> QED BY <1>2 DEF Slots!svars, SlotOf, CutSet, IsCut

\* The handlers take no slot, and may cut the connection they run on.
LEMMA SlotsHandler ==
    ASSUME ServerInv, NEW c \in Conns,
           Handler(c) \/ HandlerReads(c) \/ HandlerProceeds(c) \/ PeerLeaves(c)
    PROVE  [Slots!SNext]_Slots!svars
<1> USE DEF connVars, queueVars, threadVars, Io, IoIdle, Fail, Runs, Completes, TypeOK, ServerInv
<1>1. ASSUME UNCHANGED <<obj, timer, activeSessions>>, io.at # "push", io'.at # "push",
             sock' = sock \/ Closed(c)
      PROVE  [Slots!SNext]_Slots!svars
  <2>1. \A d \in Conns : Slot(d)' = Slot(d)
    BY <1>1 DEF Slot
  <2>2. /\ \A d \in Conns : d # c => (IsCut(d)' <=> IsCut(d))
        /\ IsCut(c) => IsCut(c)'
        /\ IsCut(c)' => Slot(c) # "new"
    BY <1>1 DEF IsCut, Closed, Slot
  <2> QED BY <2>1, <2>2, SlotsFrame
<1>2. ASSUME NEW cf \in ControlFields, HeaderRead(c, cf) PROVE [Slots!SNext]_Slots!svars
  BY <1>1, <1>2 DEF HeaderRead
<1>3. CASE \/ HeaderFailed(c) \/ ConnectDecoded(c) \/ PublishDecoded(c) \/ BodyEndsSession(c)
           \/ BodyIgnored(c) \/ BodyFailed(c)
  BY <1>1, <1>3
  DEF HeaderFailed, ConnectDecoded, PublishDecoded, BodyEndsSession, BodyIgnored, BodyFailed
<1>4. CASE SendPosted(c) \/ Written(c) \/ WriteFailed(c) \/ LengthRead(c) \/ LengthTooLong(c)
  BY <1>1, <1>4 DEF SendPosted, Written, WriteFailed, LengthRead, LengthTooLong
<1>5. CASE StrayHandler(c) \/ LengthThrows(c) \/ LengthStray(c) \/ IoSchedulesDead(c)
  BY <1>5, SlotsStutter DEF StrayHandler, LengthThrows, LengthStray, IoSchedulesDead
<1>6. CASE IoSchedules(c)
  BY <1>6, SlotsStutter DEF IoSchedules
<1>7. CASE IoReleases(c)
  <2>1. obj[c] = "alive" /\ io.at = "release" /\ io'.at \in {"join", "idle"}
        /\ UNCHANGED <<sock, timer, activeSessions>>
        /\ (obj' = obj \/ obj' = [obj EXCEPT ![c] = "dying"])
    BY <1>7 DEF IoReleases, Unowned, LifeInv, RefSound, Referenced, IoHolds, IoHolding
  <2>2. \A d \in Conns : Slot(d)' = Slot(d) /\ (IsCut(d)' <=> IsCut(d))
    BY <2>1 DEF Slot, IsCut
  <2> QED BY <2>2, SlotsFrame
<1>8. CASE IoDestroys(c)
  <2>1. obj[c] = "dying" /\ io.at = "join" /\ io'.at = "idle"
        /\ UNCHANGED <<timer, activeSessions>> /\ sock[c] # "open"
        /\ obj' = [obj EXCEPT ![c] = "freed"] /\ sock' = [sock EXCEPT ![c] = "closed"]
    BY <1>8 DEF IoDestroys, Destroyed, LifeInv, Joining, CutInv, DestroyedIsShut
  <2>2. \A d \in Conns : Slot(d)' = Slot(d) /\ (IsCut(d)' <=> IsCut(d))
    BY <2>1 DEF Slot, IsCut
  <2> QED BY <2>2, SlotsFrame
<1>9. CASE PeerLeaves(c)
  BY <1>9, SlotsStutter DEF PeerLeaves
<1> QED BY <1>2, <1>3, <1>4, <1>5, <1>6, <1>7, <1>8, <1>9
        DEF Handler, HandlerReads, HandlerProceeds

\* A timer cuts the connection it expires.
LEMMA SlotsTimer ==
    ASSUME ServerInv, NEW c \in Conns, TimerStep(c)
    PROVE  [Slots!SNext]_Slots!svars
<1> USE DEF connVars, queueVars, threadVars, Fail, Timer, TypeOK, ServerInv
<1>1. CASE TimerFires(c) \/ TimerReleases(c)
  BY <1>1, SlotsStutter DEF TimerFires, TimerReleases
<1>2. CASE TimerSchedules(c)
  BY <1>2, SlotsStutter DEF TimerSchedules
<1>3. CASE TimerSchedulesDead(c) \/ TimerJoinsItself(c)
  BY <1>3, SlotsStutter DEF TimerSchedulesDead, TimerJoinsItself
<1>4. CASE TimerShutsDown(c)
  <2>1. ~(io.at = "push" /\ io.c = c)
    BY <1>4 DEF TimerShutsDown, NewestInv, NotStarted, Starting, Fresh
  <2>2. \A d \in Conns : Slot(d)' = Slot(d)
    BY <1>4 DEF TimerShutsDown, Slot
  <2>3. /\ \A d \in Conns : d # c => (IsCut(d)' <=> IsCut(d))
        /\ IsCut(c) => IsCut(c)'
        /\ IsCut(c)' => Slot(c) # "new"
    BY <1>4, <2>1 DEF TimerShutsDown, Shutdown, IsCut, Slot
  <2> QED BY <2>2, <2>3, SlotsFrame
<1> QED BY <1>1, <1>2, <1>3, <1>4 DEF TimerStep

\* The accept handler takes a slot where the session is pushed, and denies one
\* where it counts the sessions.
LEMMA SlotsAccept ==
    ASSUME ServerInv, NEW c \in Conns, Accept(c) \/ AcceptProceeds(c)
    PROVE  [Slots!SNext]_Slots!svars
<1> USE DEF connVars, queueVars, threadVars, Fail, Io, TypeOK, ServerInv
<1>1. CASE Accept(c)
  <2>1. obj[c] = "none"
    BY <1>1 DEF Accept, LifeInv, Unborn
  <2>2. \A d \in Conns : Slot(d)' = Slot(d) /\ (IsCut(d)' <=> IsCut(d))
    BY <1>1, <2>1 DEF Accept, Slot, IsCut
  <2> QED BY <2>2, SlotsFrame
<1>2. CASE Admit(c)
  <2>1. /\ io.at = "admit" /\ io.c = c /\ io'.c = c
        /\ io'.at = (IF HasRoom THEN "push" ELSE "deny")
        /\ obj' = [obj EXCEPT ![c] = "alive"] /\ UNCHANGED <<sock, timer, activeSessions>>
    BY <1>2 DEF Admit
  <2>2. /\ obj[c] = "none" /\ sock[c] = "open" /\ timer[c] = "none"
        /\ ~Contains(activeSessions, c)
    BY <2>1 DEF LifeInv, Unborn, StartInv, StartsOpen, NewestInv, NotStarted, Fresh
  <2>3. /\ \A d \in Conns : d # c => Slot(d)' = Slot(d)
        /\ \A d \in Conns : IsCut(d)' <=> IsCut(d)
    BY <2>1, <2>2 DEF Slot, IsCut
  <2>4. CASE HasRoom
    <3>1. Slot(c)' = Slot(c)
      BY <2>1, <2>2, <2>4 DEF Slot
    <3> QED BY <2>3, <3>1, SlotsFrame
  <2>5. CASE ~HasRoom
    <3>1. Slot(c) = "new" /\ Slot(c)' = "denied"
      BY <2>1, <2>2, <2>5 DEF Slot
    <3>2. SlotOf' = [SlotOf EXCEPT ![c] = "denied"] /\ CutSet' = CutSet /\ SlotOf[c] = "new"
      BY <2>3, <3>1 DEF SlotOf, CutSet
    <3>3. Cardinality(Slots!Active) >= MaxSessions
      <4>1. Len(activeSessions) \in Nat
        BY LenProperties
      <4> QED BY <2>5, <4>1, ActiveAreSessions, MaxSessionsAssumption DEF HasRoom
    <3>4. Slots!Refuse(c)
      BY <3>2, <3>3, SlotsCount DEF Slots!Refuse, SlotOf, CutSet, IsCut
    <3> QED BY <3>4 DEF Slots!SNext
  <2> QED BY <2>4, <2>5
<1>3. CASE PushSession(c)
  <2>1. \A d : Contains(activeSessions', d) <=> Contains(activeSessions, d) \/ d = c
    BY <1>3, AppendMembers DEF PushSession
  <2>2. /\ io.at = "push" /\ io.c = c /\ io'.at = "connect" /\ io'.c = c
        /\ UNCHANGED <<obj, sock, timer>>
    BY <1>3 DEF PushSession
  <2>3. obj[c] = "alive" /\ sock[c] = "open"
    BY <2>2 DEF LifeInv, RefSound, Referenced, IoHolds, IoHolding, StartInv, StartsOpen
  <2>4. /\ \A d \in Conns : d # c => Slot(d)' = Slot(d)
        /\ \A d \in Conns : IsCut(d)' <=> IsCut(d)
        /\ Slot(c) = "new" /\ Slot(c)' = "active" /\ ~IsCut(c)
    BY <2>1, <2>2, <2>3 DEF Slot, IsCut
  <2>5. /\ SlotOf' = [SlotOf EXCEPT ![c] = "active"] /\ CutSet' = CutSet
        /\ SlotOf[c] = "new" /\ c \notin CutSet
    BY <2>4 DEF SlotOf, CutSet
  <2>6. Cardinality(Slots!Active) < MaxSessions
    BY <2>2, ActiveAreSessions DEF SlotInv, RoomHeld
  <2>7. Slots!Take(c)
    BY <2>5, <2>6, SlotsCount DEF Slots!Take, SlotOf, CutSet, IsCut
  <2> QED BY <2>7 DEF Slots!SNext
<1>4. CASE ConnectToClient(c)
  <2>1. Last(activeSessions) = c /\ Contains(activeSessions, c)
    BY <1>4, LastMember DEF ConnectToClient, NewestInv, BackIsNew
  <2>2. obj[c] = "alive" /\ io.at = "connect" /\ io'.at = "log"
        /\ UNCHANGED <<obj, sock, activeSessions>>
        /\ \A d \in Conns : d # c => timer'[d] = timer[d]
    BY <1>4, <2>1 DEF ConnectToClient, LifeInv, RefSound, Referenced, InQueues
  <2>3. \A d \in Conns : Slot(d)' = Slot(d) /\ (IsCut(d)' <=> IsCut(d))
    BY <2>1, <2>2 DEF Slot, IsCut
  <2> QED BY <2>3, SlotsFrame
<1>5. CASE LogEndpoint(c) \/ Deny(c)
  BY <1>5, SlotsStutter DEF LogEndpoint, Deny
<1>6. CASE EndpointThrows(c) \/ LogThrows(c) \/ BackOfNothing(c)
  BY <1>6, SlotsStutter DEF EndpointThrows, LogThrows, BackOfNothing
<1> QED BY <1>1, <1>2, <1>3, <1>4, <1>5, <1>6 DEF AcceptProceeds

\* The cleaner cuts a connection, and gives its slot back.
LEMMA SlotsCleaner ==
    ASSUME ServerInv, CleanerProceeds \/ CleanerWakesSpuriously
    PROVE  [Slots!SNext]_Slots!svars
<1> USE DEF connVars, queueVars, threadVars, Cleaner, TypeOK, ServerInv
<1>1. CASE CleanerLoops \/ CleanerFindsNothing \/ CleanerSleeps \/ CleanerWakesSpuriously \/ CleanerPops
  BY <1>1, SlotsStutter
  DEF CleanerLoops, CleanerFindsNothing, CleanerSleeps, CleanerWakesSpuriously, CleanerPops
<1>2. ASSUME NEW c \in Conns, CleanerShutsDown(c) PROVE [Slots!SNext]_Slots!svars
  <2>1. ~(io.at = "push" /\ io.c = c)
    BY <1>2 DEF CleanerShutsDown, NewestInv, NotStarted, Starting, Fresh, CleanerHolds,
                CleanerHolding
  <2>2. \A d \in Conns : Slot(d)' = Slot(d)
    BY <1>2 DEF CleanerShutsDown, Slot
  <2>3. /\ \A d \in Conns : d # c => (IsCut(d)' <=> IsCut(d))
        /\ IsCut(c) => IsCut(c)'
        /\ IsCut(c)' => Slot(c) # "new"
    BY <1>2, <2>1 DEF CleanerShutsDown, Shutdown, IsCut, Slot
  <2> QED BY <2>2, <2>3, SlotsFrame
<1>3. ASSUME NEW c \in Conns, CleanerErases(c) PROVE [Slots!SNext]_Slots!svars
  <2>1. /\ cleaner.at = "erase" /\ cleaner.c = c /\ UNCHANGED <<obj, sock, timer, io>>
        /\ \A d : Contains(activeSessions', d) <=> Contains(activeSessions, d) /\ d # c
    BY <1>3, EraseMembers DEF CleanerErases, NewestInv, OnceActive
  <2>2. /\ \A d \in Conns : d # c => Slot(d)' = Slot(d)
        /\ \A d \in Conns : IsCut(d)' <=> IsCut(d)
    BY <2>1 DEF Slot, IsCut
  <2>3. CASE ~Contains(activeSessions, c)
    <3>1. Slot(c)' = Slot(c)
      BY <2>1, <2>3 DEF Slot
    <3> QED BY <2>2, <3>1, SlotsFrame
  <2>4. CASE Contains(activeSessions, c)
    <3>1. ~Starting(c) /\ obj[c] = "alive"
      BY <2>1 DEF NewestInv, NotStarted, CleanerHolds, CleanerHolding, LifeInv, RefSound,
                  Referenced
    <3>2. timer[c] # "none" /\ sock[c] # "open"
      BY <2>1, <2>4, <3>1 DEF StartInv, SessionsStarted, Starting, CutInv, CleanerCut
    <3>3. Slot(c) = "active" /\ Slot(c)' = "retired" /\ IsCut(c)
      BY <2>1, <2>4, <3>1, <3>2 DEF Slot, IsCut, Starting, Fresh
    <3>4. /\ SlotOf' = [SlotOf EXCEPT ![c] = "retired"] /\ CutSet' = CutSet
          /\ SlotOf[c] = "active" /\ c \in CutSet
      BY <2>2, <3>3 DEF SlotOf, CutSet
    <3>5. Slots!Retire(c)
      BY <3>4 DEF Slots!Retire, SlotOf, CutSet, IsCut
    <3> QED BY <3>5 DEF Slots!SNext
  <2> QED BY <2>3, <2>4
<1>4. ASSUME NEW c \in Conns, CleanerReleases(c) PROVE [Slots!SNext]_Slots!svars
  <2>1. /\ obj[c] = "alive" /\ UNCHANGED <<sock, timer, activeSessions, io>>
        /\ (obj' = obj \/ obj' = [obj EXCEPT ![c] = "dying"])
    BY <1>4 DEF CleanerReleases, Unowned, LifeInv, RefSound, Referenced, CleanerHolds,
                CleanerHolding
  <2>2. \A d \in Conns : Slot(d)' = Slot(d) /\ (IsCut(d)' <=> IsCut(d))
    BY <2>1 DEF Slot, IsCut
  <2> QED BY <2>2, SlotsFrame
<1>5. ASSUME NEW c \in Conns, CleanerDestroys(c) PROVE [Slots!SNext]_Slots!svars
  <2>1. /\ obj[c] = "dying" /\ UNCHANGED <<timer, activeSessions, io>> /\ sock[c] # "open"
        /\ obj' = [obj EXCEPT ![c] = "freed"] /\ sock' = [sock EXCEPT ![c] = "closed"]
    BY <1>5 DEF CleanerDestroys, Destroyed, LifeInv, Joining, CutInv, DestroyedIsShut
  <2>2. \A d \in Conns : Slot(d)' = Slot(d) /\ (IsCut(d)' <=> IsCut(d))
    BY <2>1 DEF Slot, IsCut
  <2> QED BY <2>2, SlotsFrame
<1> QED BY <1>1, <1>2, <1>3, <1>4, <1>5 DEF CleanerProceeds

LEMMA SlotsStep == ServerInv /\ [Next]_vars => [Slots!SNext]_Slots!svars
<1> SUFFICES ASSUME ServerInv, [Next]_vars PROVE [Slots!SNext]_Slots!svars
  OBVIOUS
<1> USE DEF connVars, queueVars, threadVars, Io
<1>1. CASE Stop \/ StopProceeds
  BY <1>1, SlotsStutter
  DEF Stop, StopProceeds, IoExits, IoJoined, CleanerJoined, ContextDestroyed
<1>2. CASE UNCHANGED vars
  BY <1>2, SlotsStutter DEF vars
<1> QED BY <1>1, <1>2, SlotsHandler, SlotsTimer, SlotsAccept, SlotsCleaner
        DEF Next, ServerStep, IoProceeds, Client, Terminated

\* Accepting, expiring, disconnecting and cleaning up take and give back slots, as
\* SessionSlots allows, for any number of slots, connections and first bytes.
THEOREM SessionsAreSlots == Spec => ImplementsSlots
<1>1. ServerInit => SlotInv
  BY MaxSessionsAssumption, EmptySeq DEF ServerInit, Init, SlotInv, SessionLimit, RoomHeld
<1>2. ServerInit => Slots!SInit
  BY DEF ServerInit, Init, Slots!SInit, Slot
<1>3. TypeOK /\ SlotInv /\ LifeInv /\ NewestInv /\ CutInv /\ StartInv => ServerInv
  BY DEF ServerInv
<1> QED BY <1>1, <1>2, <1>3, TypeCorrect, SlotStep, LifeInit, LifeStep, NewestInit, NewestStep,
           CutInit, CutStep, StartInit, StartStep, SlotsStep,
           PTL DEF Spec, ImplementsSlots, Slots!SSpec
===============================================================================
