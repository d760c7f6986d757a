------------------------------ MODULE LmqttTimer ------------------------------
(***************************************************************************)
(* class lmqtt_timer (lmqtt_timer.h) and the callback connect_to_client    *)
(* gives it: a thread of its own sleeps once, without a predicate, and     *)
(* then expires a connection that has sent nothing yet.                    *)
(***************************************************************************)
EXTENDS Lifetime

Timer(c, step) == timer' = [timer EXCEPT ![c] = step]

\* Mutant: the worker runs run(), which waits again, instead of run_once().
TimerFires_Periodic(c) ==
    /\ timer[c] = "waiting"
    /\ ~receivedData[c]
    /\ Timer(c, "cutoff")
    /\ UNCHANGED <<obj, sock, peer, op, isFirstPacket, receivedData, type, acked,
                   queueVars, threadVars>>

\* wait_for returns, on the timeout or spuriously before it, and the callback
\* reads _receivedData.
TimerFires(c) ==
    /\ timer[c] = "waiting"
    /\ Timer(c, IF receivedData[c] THEN "done" ELSE "cutoff")
    /\ UNCHANGED <<obj, sock, peer, op, isFirstPacket, receivedData, type, acked,
                   queueVars, threadVars>>

TimerShutsDown(c) ==
    /\ timer[c] = "cutoff"
    /\ Shutdown(c)
    /\ Timer(c, "schedule")
    /\ UNCHANGED <<obj, peer, op, isFirstPacket, receivedData, type, acked,
                   queueVars, threadVars>>

TimerSchedules(c) ==
    /\ timer[c] = "schedule"
    /\ obj[c] = "alive"
    /\ PushDeletion(c)
    /\ Timer(c, "release")
    /\ UNCHANGED <<obj, sock, peer, op, isFirstPacket, receivedData, type, acked,
                   activeSessions, io, fault>>

\* The destructor is waiting for this thread: no shared_ptr is left.
TimerSchedulesDead(c) ==
    /\ timer[c] = "schedule"
    /\ obj[c] = "dying"
    /\ Fail("bad_weak_ptr")

\* If the last shared_ptr is this thread's, it runs the destructor of the
\* timer it is the worker of, which joins itself.
TimerReleases(c) ==
    /\ timer[c] = "release"
    /\ InQueues(c) \/ IoHolds(c) \/ CleanerHolds(c)
    /\ Timer(c, "cut")
    /\ UNCHANGED <<obj, sock, peer, op, isFirstPacket, receivedData, type, acked,
                   queueVars, threadVars>>

TimerJoinsItself(c) ==
    /\ timer[c] = "release"
    /\ ~(InQueues(c) \/ IoHolds(c) \/ CleanerHolds(c))
    /\ Fail("self_join")

TimerStep(c) ==
    \/ TimerFires(c) \/ TimerShutsDown(c)
    \/ TimerSchedules(c) \/ TimerSchedulesDead(c)
    \/ TimerReleases(c) \/ TimerJoinsItself(c)
===============================================================================
