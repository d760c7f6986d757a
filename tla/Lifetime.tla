------------------------------- MODULE Lifetime -------------------------------
(***************************************************************************)
(* The connection objects of the server, what keeps them alive, and the    *)
(* two containers they move through.                                       *)
(*                                                                         *)
(* A connection is owned by std::shared_ptrs: the ones stored in           *)
(* _activeSessions and _deletionQueue, and the ones a thread has in a      *)
(* local variable.  They are not counted here: which exist follows from    *)
(* the containers and from where each thread is.  The handlers of asio and *)
(* the timer hold a raw this and keep nothing alive.                       *)
(*                                                                         *)
(* ts_queue operations are atomic (TsQueue shows why they may be), but the *)
(* gap between the two halves of ts_queue::wait is kept.                   *)
(***************************************************************************)
EXTENDS Naturals, FiniteSets, DequeOps

CONSTANTS Conns,     \* bound: the connections clients ever make
          NoConn     \* no connection

ASSUME ConnsAssumption == NoConn \notin Conns

VARIABLES
    \* of each connection
    obj,             \* "none" (not made yet), "alive", "dying" (its destructor
                     \* runs and waits for the timer thread), "freed"
    sock,            \* _socket: "open", "shut" (both directions), "closed"
    peer,            \* the client: "absent", "up", "gone"
    op,              \* the asio operation that is pending on it, or "none"
    isFirstPacket,   \* _isFirstPacket
    receivedData,    \* _receivedData
    type,            \* _inPacket._type
    timer,           \* where the thread of _connTimer is
    acked,           \* history: its CONNACK has been written
    \* shared
    activeSessions,  \* _activeSessions
    deletionQueue,   \* _deletionQueue
    \* the threads, and what ends the process
    io,              \* the thread that runs _context: [at, c]
    cleaner,         \* the thread that runs deleter_job: [at, c]
    fault            \* "none", or the error nothing recovers from

connVars   == <<obj, sock, peer, op, isFirstPacket, receivedData, type, timer, acked>>
queueVars  == <<activeSessions, deletionQueue>>
threadVars == <<io, cleaner, fault>>

IoSteps == {"idle", "admit", "push", "connect", "log", "deny",     \* accept handler
            "length",                                              \* header handler
            "schedule",                                            \* schedule_for_deletion
            "release", "join", "exited"}
\* The io thread has a shared_ptr to io.c in a local variable.
IoHolding == {"push", "connect", "log", "deny", "release"}

CleanerSteps == {"loop", "wait", "gap", "asleep",                  \* ts_queue::wait
                 "shutdown", "erase", "release", "join", "exited"}
CleanerHolding == {"shutdown", "erase", "release"}

\* "done": the data came in time; "cut": the timer expired the connection.
TimerSteps == {"none", "waiting", "cutoff", "schedule", "release", "done", "cut"}
TimerEnded == {"none", "done", "cut"}

Faults == {"none", "use_after_free", "bad_weak_ptr", "self_join", "empty_back",
           "uncaught_exception"}

Init == /\ obj = [c \in Conns |-> "none"]
        /\ sock = [c \in Conns |-> "closed"]
        /\ peer = [c \in Conns |-> "absent"]
        /\ op = [c \in Conns |-> "none"]
        /\ isFirstPacket = [c \in Conns |-> TRUE]
        /\ receivedData = [c \in Conns |-> FALSE]
        /\ type = [c \in Conns |-> "UNKNOWN"]
        /\ timer = [c \in Conns |-> "none"]
        /\ acked = [c \in Conns |-> FALSE]
        /\ activeSessions = <<>>
        /\ deletionQueue = <<>>
        /\ io = [at |-> "idle", c |-> NoConn]
        /\ cleaner = [at |-> "loop", c |-> NoConn]
        /\ fault = "none"

Io(at, c)      == io' = [at |-> at, c |-> c]
IoIdle         == Io("idle", NoConn)
Cleaner(at, c) == cleaner' = [at |-> at, c |-> c]

\* An error that ends the process where it happens.
Fail(f) == /\ fault' = f
           /\ UNCHANGED <<connVars, queueVars, io, cleaner>>

-------------------------------------------------------------------------------
(* Ownership. *)

InQueues(c)     == Contains(activeSessions, c) \/ Contains(deletionQueue, c)
IoHolds(c)      == io.at \in IoHolding /\ io.c = c
CleanerHolds(c) == cleaner.at \in CleanerHolding /\ cleaner.c = c
TimerHolds(c)   == timer[c] = "release"

Referenced(c) == InQueues(c) \/ IoHolds(c) \/ CleanerHolds(c) \/ TimerHolds(c)

\* Mutant: the object is deleted by hand.
Unowned_Deleted(c, last) == obj' = [obj EXCEPT ![c] = "dying"]

\* The destructor of c begins if the shared_ptr that goes was the last one.
Unowned(c, last) == obj' = IF last THEN [obj EXCEPT ![c] = "dying"] ELSE obj

\* Mutant: the timer thread is detached instead of joined.
Destroyed_Detached(c) == /\ obj' = [obj EXCEPT ![c] = "freed"]
                         /\ sock' = [sock EXCEPT ![c] = "closed"]
                         /\ UNCHANGED <<isFirstPacket, receivedData, type>>
                         /\ UNCHANGED <<peer, op, timer, acked>>

\* ~lmqtt_timer joins the timer thread; then the members go, the socket last.
\* What they held is of no interest any more.
Destroyed(c) == /\ timer[c] \in TimerEnded
                /\ obj' = [obj EXCEPT ![c] = "freed"]
                /\ sock' = [sock EXCEPT ![c] = "closed"]
                /\ isFirstPacket' = [isFirstPacket EXCEPT ![c] = TRUE]
                /\ receivedData' = [receivedData EXCEPT ![c] = FALSE]
                /\ type' = [type EXCEPT ![c] = "UNKNOWN"]
                /\ UNCHANGED <<peer, op, timer, acked>>

-------------------------------------------------------------------------------
(* The socket and the deletion queue. *)

Closed(c) == sock' = [sock EXCEPT ![c] = "closed"]

\* Mutant: the test of is_connected() is inverted.
Shutdown_Inverted(c) == UNCHANGED sock

\* connection::shutdown.
Shutdown(c) == sock' = IF sock[c] = "open" THEN [sock EXCEPT ![c] = "shut"] ELSE sock

\* What is read from the socket, or written to it, may fail; and on a socket
\* that is closed it must.
MayFail(c)    == peer[c] = "gone" \/ sock[c] # "open"
MaySucceed(c) == sock[c] # "closed"

\* Mutant: shutdown() schedules the deletion as well.
PushDeletion_Twice(c) ==
    /\ deletionQueue' = deletionQueue \o <<c, c>>
    /\ cleaner' = IF cleaner.at = "asleep" THEN [cleaner EXCEPT !.at = "wait"] ELSE cleaner

\* push_back on _deletionQueue: notify_one wakes a cleaner that sleeps, and
\* nothing else.
PushDeletion(c) ==
    /\ deletionQueue' = Append(deletionQueue, c)
    /\ cleaner' = IF cleaner.at = "asleep" THEN [cleaner EXCEPT !.at = "wait"] ELSE cleaner
===============================================================================
