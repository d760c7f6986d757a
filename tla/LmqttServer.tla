------------------------------ MODULE LmqttServer ------------------------------
(***************************************************************************)
(* class lmqtt_server (lmqtt_server.h), and the whole program: the io      *)
(* thread with the accept handler and the connections' handlers, the timer *)
(* thread of every connection, the cleaner thread (deleter_job) and the    *)
(* thread that stops and destroys the server.                              *)
(***************************************************************************)
EXTENDS Connection, LmqttTimer

CONSTANTS MaxSessions,    \* on_client_connection: size() > 1, so 2
          InitialExit,    \* what the uninitialised _exitCleanupThread may hold
          MayStop         \* bound: whether the server is ever stopped

ASSUME MaxSessionsAssumption == MaxSessions \in Nat \ {0}
ASSUME InitialExitAssumption == InitialExit \subseteq BOOLEAN /\ InitialExit # {}
ASSUME MayStopAssumption     == MayStop \in BOOLEAN

VARIABLES main,                \* where the thread that owns the server is
          contextStopped,      \* _context.stop() was called
          exitCleanupThread    \* _exitCleanupThread

mainVars == <<main, contextStopped, exitCleanupThread>>
vars     == <<connVars, queueVars, threadVars, mainVars>>

MainSteps == {"running", "joinIo", "joinCleaner", "stopped", "contextGone"}

TypeOK == /\ obj \in [Conns -> {"none", "alive", "dying", "freed"}]
          /\ sock \in [Conns -> {"open", "shut", "closed"}]
          /\ peer \in [Conns -> {"absent", "up", "gone"}]
          /\ op \in [Conns -> PendingOps]
          /\ isFirstPacket \in [Conns -> BOOLEAN]
          /\ receivedData \in [Conns -> BOOLEAN]
          /\ type \in [Conns -> PacketTypes]
          /\ timer \in [Conns -> TimerSteps]
          /\ acked \in [Conns -> BOOLEAN]
          /\ activeSessions \in Seq(Conns)
          /\ deletionQueue \in Seq(Conns)
          /\ io \in [at : IoSteps, c : Conns \cup {NoConn}]
          /\ cleaner \in [at : CleanerSteps, c : Conns \cup {NoConn}]
          /\ fault \in Faults
          /\ main \in MainSteps
          /\ contextStopped \in BOOLEAN
          /\ exitCleanupThread \in BOOLEAN

ServerInit == /\ Init
              /\ main = "running"
              /\ contextStopped = FALSE
              /\ exitCleanupThread \in InitialExit

-------------------------------------------------------------------------------
(* wait_for_clients: the accept handler *)

Accept(c) ==
    /\ io.at = "idle"
    /\ peer[c] = "absent"
    /\ peer' = [peer EXCEPT ![c] = "up"]
    /\ sock' = [sock EXCEPT ![c] = "open"]
    /\ Io("admit", c)
    /\ UNCHANGED <<obj, op, isFirstPacket, receivedData, type, timer, acked,
                   queueVars, cleaner, fault>>

\* remote_endpoint() of a client that is gone throws.
EndpointThrows(c) ==
    /\ io \in [at : {"admit", "deny"}, c : {c}]
    /\ peer[c] = "gone"
    /\ Fail("uncaught_exception")

\* Mutant: off by one.
HasRoom_OffByOne == Len(activeSessions) <= MaxSessions

\* on_client_connection.
HasRoom == Len(activeSessions) < MaxSessions

\* make_shared, and the decision.
Admit(c) ==
    /\ io = [at |-> "admit", c |-> c]
    /\ obj' = [obj EXCEPT ![c] = "alive"]
    /\ Io(IF HasRoom THEN "push" ELSE "deny", c)
    /\ UNCHANGED <<sock, peer, op, isFirstPacket, receivedData, type, timer, acked,
                   queueVars, cleaner, fault>>

PushSession(c) ==
    /\ io = [at |-> "push", c |-> c]
    /\ activeSessions' = Append(activeSessions, c)
    /\ Io("connect", c)
    /\ UNCHANGED <<connVars, deletionQueue, cleaner, fault>>

\* _activeSessions.back()->connect_to_client(100): the timer thread starts and
\* the first header is awaited, on whichever connection is the newest one.
ConnectToClient(c) ==
    /\ io = [at |-> "connect", c |-> c]
    /\ activeSessions # <<>>
    /\ LET b == Last(activeSessions)
       IN IF sock[b] # "closed"
          THEN timer' = [timer EXCEPT ![b] = "waiting"] /\ Pend(b, "header")
          ELSE UNCHANGED <<timer, op>>
    /\ Io("log", c)
    /\ UNCHANGED <<obj, sock, peer, isFirstPacket, receivedData, type, acked,
                   queueVars, cleaner, fault>>

\* _activeSessions.back()->get_remote_endpoint(), for the log.
LogEndpoint(c) ==
    /\ io = [at |-> "log", c |-> c]
    /\ activeSessions # <<>>
    /\ MaySucceed(Last(activeSessions))
    /\ Io("release", c)
    /\ UNCHANGED <<connVars, queueVars, cleaner, fault>>

LogThrows(c) ==
    /\ io = [at |-> "log", c |-> c]
    /\ activeSessions # <<>>
    /\ MayFail(Last(activeSessions))
    /\ Fail("uncaught_exception")

\* back() of an empty deque.
BackOfNothing(c) ==
    /\ io \in [at : {"connect", "log"}, c : {c}]
    /\ activeSessions = <<>>
    /\ Fail("empty_back")

Deny(c) ==
    /\ io = [at |-> "deny", c |-> c]
    /\ PushDeletion(c)
    /\ Io("release", c)
    /\ UNCHANGED <<connVars, activeSessions, fault>>

AcceptProceeds(c) ==
    \/ Admit(c) \/ EndpointThrows(c) \/ PushSession(c) \/ ConnectToClient(c)
    \/ LogEndpoint(c) \/ LogThrows(c) \/ BackOfNothing(c) \/ Deny(c)

-------------------------------------------------------------------------------
(* deleter_job: while (!_exitCleanupThread) { _deletionQueue.wait(); ... } *)

CleanerLoops ==
    /\ cleaner.at = "loop"
    /\ Cleaner(IF exitCleanupThread THEN "exited" ELSE "wait", NoConn)
    /\ UNCHANGED <<connVars, queueVars, io, fault>>

\* Mutant: the cleaner waits on another queue, as the line commented out does.
CleanerFindsNothing_Elsewhere ==
    /\ cleaner.at = "wait"
    /\ Cleaner("gap", NoConn)
    /\ UNCHANGED <<connVars, queueVars, io, fault>>

\* The queue is empty: between this look and the sleep nobody wakes the cleaner.
CleanerFindsNothing ==
    /\ cleaner.at = "wait"
    /\ deletionQueue = <<>>
    /\ Cleaner("gap", NoConn)
    /\ UNCHANGED <<connVars, queueVars, io, fault>>

CleanerSleeps ==
    /\ cleaner.at = "gap"
    /\ Cleaner("asleep", NoConn)
    /\ UNCHANGED <<connVars, queueVars, io, fault>>

CleanerWakesSpuriously ==
    /\ cleaner.at = "asleep"
    /\ Cleaner("wait", NoConn)
    /\ UNCHANGED <<connVars, queueVars, io, fault>>

\* Mutant: the cleaner does not shut the connection down.
CleanerPops_NoShutdown ==
    /\ cleaner.at = "wait"
    /\ deletionQueue # <<>>
    /\ Cleaner("erase", Head(deletionQueue))
    /\ deletionQueue' = Tail(deletionQueue)
    /\ UNCHANGED <<connVars, activeSessions, io, fault>>

\* wait() returns, empty() says no again and pop_front takes the front: nobody
\* else pops, so this is one step.
CleanerPops ==
    /\ cleaner.at = "wait"
    /\ deletionQueue # <<>>
    /\ Cleaner("shutdown", Head(deletionQueue))
    /\ deletionQueue' = Tail(deletionQueue)
    /\ UNCHANGED <<connVars, activeSessions, io, fault>>

CleanerShutsDown(c) ==
    /\ cleaner = [at |-> "shutdown", c |-> c]
    /\ Shutdown(c)
    /\ Cleaner("erase", c)
    /\ UNCHANGED <<obj, peer, op, isFirstPacket, receivedData, type, timer, acked,
                   queueVars, io, fault>>

\* Mutant: without a match the last session is taken, as erase(--end()) would.
CleanerErases_Back(c) ==
    /\ cleaner = [at |-> "erase", c |-> c]
    /\ activeSessions' = IF Contains(activeSessions, c) \/ activeSessions = <<>>
                         THEN EraseFirst(activeSessions, c)
                         ELSE SubSeq(activeSessions, 1, Len(activeSessions) - 1)
    /\ Cleaner("release", c)
    /\ UNCHANGED <<connVars, deletionQueue, io, fault>>

CleanerErases(c) ==
    /\ cleaner = [at |-> "erase", c |-> c]
    /\ activeSessions' = EraseFirst(activeSessions, c)
    /\ Cleaner("release", c)
    /\ UNCHANGED <<connVars, deletionQueue, io, fault>>

CleanerReleases(c) ==
    LET last == ~(InQueues(c) \/ IoHolds(c) \/ TimerHolds(c))
    IN /\ cleaner = [at |-> "release", c |-> c]
       /\ Unowned(c, last)
       /\ IF last THEN Cleaner("join", c) ELSE Cleaner("loop", NoConn)
       /\ UNCHANGED <<sock, peer, op, isFirstPacket, receivedData, type, timer, acked,
                      queueVars, io, fault>>

CleanerDestroys(c) ==
    /\ cleaner = [at |-> "join", c |-> c]
    /\ Destroyed(c)
    /\ Cleaner("loop", NoConn)
    /\ UNCHANGED <<queueVars, io, fault>>

CleanerProceeds ==
    \/ CleanerLoops \/ CleanerFindsNothing \/ CleanerSleeps \/ CleanerPops
    \/ \E c \in Conns : \/ CleanerShutsDown(c) \/ CleanerErases(c)
                        \/ CleanerReleases(c) \/ CleanerDestroys(c)

-------------------------------------------------------------------------------
(* stop(), and the end of the destructor *)

Stop ==
    /\ main = "running" /\ MayStop
    /\ contextStopped' = TRUE
    /\ main' = "joinIo"
    /\ UNCHANGED <<connVars, queueVars, threadVars, exitCleanupThread>>

\* _context.run() returns between two handlers.
IoExits ==
    /\ contextStopped
    /\ io.at = "idle"
    /\ Io("exited", NoConn)
    /\ UNCHANGED <<connVars, queueVars, cleaner, fault, mainVars>>

\* _thContext.join(), then _exitCleanupThread = true: nobody notifies the cleaner.
IoJoined ==
    /\ main = "joinIo"
    /\ io.at = "exited"
    /\ exitCleanupThread' = TRUE
    /\ main' = "joinCleaner"
    /\ UNCHANGED <<connVars, queueVars, threadVars, contextStopped>>

CleanerJoined ==
    /\ main = "joinCleaner"
    /\ cleaner.at = "exited"
    /\ main' = "stopped"
    /\ UNCHANGED <<connVars, queueVars, threadVars, contextStopped, exitCleanupThread>>

\* ~lmqtt_server destroys _context before the containers of connections.  The
\* model ends here.
ContextDestroyed ==
    /\ main = "stopped"
    /\ main' = "contextGone"
    /\ UNCHANGED <<connVars, queueVars, threadVars, contextStopped, exitCleanupThread>>

StopProceeds == IoExits \/ IoJoined \/ CleanerJoined \/ ContextDestroyed

-------------------------------------------------------------------------------

Running == fault = "none" /\ main # "contextGone"

\* What the threads do by themselves, as long as they are scheduled.
IoProceeds == \E c \in Conns : AcceptProceeds(c) \/ HandlerProceeds(c)

\* What depends on the clients: fairness is never assumed of it.
Client(c) == \/ ~contextStopped /\ (Accept(c) \/ Handler(c))
             \/ HandlerReads(c)
             \/ PeerLeaves(c)

ServerStep ==
    \/ /\ \/ IoProceeds
          \/ CleanerProceeds \/ CleanerWakesSpuriously
          \/ \E c \in Conns : Client(c) \/ TimerStep(c)
       /\ UNCHANGED mainVars
    \/ Stop \/ StopProceeds

Terminated == ~Running /\ UNCHANGED vars

Next == (Running /\ ServerStep) \/ Terminated

Spec == ServerInit /\ [][Next]_vars

\* The threads are scheduled.  Clients owe nothing, nobody must stop the server,
\* no spurious wakeup is promised.
Fairness == /\ WF_vars(Running /\ IoProceeds /\ UNCHANGED mainVars)
            /\ WF_vars(Running /\ CleanerProceeds /\ UNCHANGED mainVars)
            /\ WF_vars(Running /\ StopProceeds)
            /\ \A c \in Conns : WF_vars(Running /\ TimerStep(c) /\ UNCHANGED mainVars)

FairSpec == Spec /\ Fairness

-------------------------------------------------------------------------------
(* Safety. *)

\* on_client_connection counts before the push, the cleaner erases meanwhile:
\* there are never more sessions than slots.
SessionLimit == Len(activeSessions) <= MaxSessions

\* Whatever a container or a thread's local variable refers to is an object
\* whose destructor has not begun, though handlers and timers hold a raw this.
RefSound == \A c \in Conns : Referenced(c) => obj[c] = "alive"

\* connect_to_client goes to the newest session through back(), after the push
\* has released the queue: it is still the connection that was just accepted.
BackIsNew == io.at = "connect" =>
                 activeSessions # <<>> /\ Last(activeSessions) = io.c

\* A packet that is no CONNECT gets as far as its body only on a connection
\* whose CONNECT was answered: the CONNACK is out before the next header is read.
PublishOnlyIdentified ==
    \A c \in Conns :
        op[c] = "body" /\ obj[c] # "freed" /\ type[c] # "CONNECT" => acked[c]

\* "closing a socket before deleting" the connection: whichever thread drops the
\* last shared_ptr, the socket has been shut down or closed before.
DestroyedIsShut == \A c \in Conns : obj[c] \in {"dying", "freed"} => sock[c] # "open"

\* No timer thread outlives the object whose members its callback uses.
TimerJoined == \A c \in Conns : obj[c] = "freed" => timer[c] \in TimerEnded

\* A handler that schedules the deletion leaves nothing pending.  So an object
\* that goes while an operation is pending was expired by its timer.
OnlyTimerCutsPending ==
    \A c \in Conns : obj[c] \in {"dying", "freed"} /\ op[c] # "none" => timer[c] = "cut"

\* The io thread schedules a connection at most once and its timer at most once.
Scheduled(c) == {i \in 1..Len(deletionQueue) : deletionQueue[i] = c}
ScheduledAtMostTwice ==
    \A c \in Conns : Cardinality(Scheduled(c)) <= (IF timer[c] \in {"release", "cut"} THEN 2 ELSE 1)

-------------------------------------------------------------------------------
(* Liveness. *)

\* A destructor that has begun gets to its end, whichever thread runs it.
DestructionEnds == \A c \in Conns : obj[c] = "dying" ~> obj[c] = "freed" \/ ~Running

\* The accept handler returns to the context, so the server accepts again.
Accepting == io.at \in {"admit", "push", "connect", "log", "deny", "release", "join"}
AcceptReturns == Accepting ~> ~Accepting \/ ~Running

\* A cleaner that is awake goes on until it has taken what is in the queue.
AwakeDrains ==
    \A c \in Conns : (cleaner.at = "wait" /\ Contains(deletionQueue, c))
                         ~> (cleaner.c = c \/ cleaner.at = "exited" \/ ~Running)

-------------------------------------------------------------------------------
(* The sessions are slots: an abstract state for SessionSlots. *)

Slot(c) == IF obj[c] = "none" \/ (io.at = "push" /\ io.c = c) THEN "new"
           ELSE IF Contains(activeSessions, c) THEN "active"
           ELSE IF timer[c] = "none" THEN "denied"
           ELSE "retired"

Slots == INSTANCE SessionSlots WITH
            Limit <- MaxSessions,
            slot  <- [c \in Conns |-> Slot(c)],
            cut   <- {c \in Conns : obj[c] # "none" /\ sock[c] # "open"}

\* Accepting, expiring, disconnecting and cleaning up, on three kinds of threads,
\* amount to taking and giving back slots.
ImplementsSlots == Slots!SSpec

-------------------------------------------------------------------------------
(* What the repository says of the program, and the program does not do. *)

\* lmqtt_connection.h:12: there is always "a shared this pointer other than a raw
\* pointer".  But every handler and the timer's callback capture the raw one.
NoDeadThis == fault \notin {"bad_weak_ptr", "use_after_free", "self_join"}

\* lmqtt_connection.h:19: _activeSessions is "all active connections": a closed
\* one is on its way out of it.
Leaving(c) == \/ Contains(deletionQueue, c)
              \/ cleaner.at \in {"shutdown", "erase"} /\ cleaner.c = c
              \/ io.at = "schedule" /\ io.c = c
              \/ timer[c] \in {"cutoff", "schedule"}
NoLeakedSession ==
    \A c \in Conns : Contains(activeSessions, c) /\ sock[c] = "closed" /\ io.at = "idle" => Leaving(c)

\* lmqtt_connection.h:20: _deletionQueue is "connections scheduled for deletion".
ScheduledIsDeleted ==
    \A c \in Conns : Contains(deletionQueue, c) ~> ~Contains(deletionQueue, c) \/ ~Running

\* lmqtt_server.h:62: stop() waits for the threads to finish.
StopReturns == main = "joinCleaner" ~> main = "stopped" \/ ~Running

\* lmqtt_connection.h:76: "the socket should never outlive its context, so closing
\* a socket before deleting the context is mendatory".  When ~lmqtt_server gets
\* to the context, no connection that is left has an open socket.
SocketInsideContext ==
    main = "contextGone" => \A c \in Conns : obj[c] \in {"alive", "dying"} => sock[c] # "open"
===============================================================================
