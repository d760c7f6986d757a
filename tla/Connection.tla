------------------------------ MODULE Connection ------------------------------
(***************************************************************************)
(* class connection (lmqtt_connection.h) as the io thread runs it: the     *)
(* completion handlers of read_fixed_header, read_packet_body, send_packet *)
(* and write_packet, each of which ends in another asynchronous operation, *)
(* in schedule_for_deletion, or in neither.                                *)
(***************************************************************************)
EXTENDS Lifetime, FixedHeader

CONSTANTS ControlFields   \* bound: the first bytes clients send

ASSUME ControlFieldsAssumption == ControlFields \subseteq 0..255

PendingOps == {"none", "header", "body", "send", "write"}

\* io picks up the completion of the operation that is pending on c.
Completes(c, o) ==
    /\ io.at = "idle"
    /\ op[c] = o

\* The handler runs on an object that still exists.
Runs(c, o) == Completes(c, o) /\ obj[c] # "freed"

\* A socket that is destroyed completes what is pending on it, and the handler
\* is called with the this of an object that is gone.
StrayHandler(c) ==
    /\ io.at = "idle" /\ op[c] # "none"
    /\ obj[c] = "freed"
    /\ Fail("use_after_free")

Pend(c, o) == op' = [op EXCEPT ![c] = o]

-------------------------------------------------------------------------------
(* read_fixed_header *)

\* The control field arrived.  A malformed one closes the socket and goes on;
\* a first packet that is no CONNECT ends here.
HeaderRead(c, cf) ==
    LET header    == CreateFixedHeader(cf, type[c])
        malformed == header.rcode # "SUCCESS"
        refused   == isFirstPacket[c] /\ header.type # "CONNECT"
    IN /\ Runs(c, "header") /\ MaySucceed(c)
       /\ receivedData' = [receivedData EXCEPT ![c] = TRUE]
       /\ type' = [type EXCEPT ![c] = header.type]
       /\ IF malformed \/ refused THEN Closed(c) ELSE UNCHANGED sock
       /\ isFirstPacket' = IF refused THEN isFirstPacket ELSE [isFirstPacket EXCEPT ![c] = FALSE]
       /\ Io(IF refused THEN "schedule" ELSE "length", c)
       /\ Pend(c, "none")
       /\ UNCHANGED <<obj, peer, timer, acked, queueVars, cleaner, fault>>

HeaderFailed(c) ==
    /\ Runs(c, "header") /\ MayFail(c)
    /\ Closed(c)
    /\ Io("schedule", c)
    /\ Pend(c, "none")
    /\ UNCHANGED <<obj, peer, isFirstPacket, receivedData, type, timer, acked,
                   queueVars, cleaner, fault>>

\* The rest of that handler blocks the io thread in read_some, once for each
\* byte of the length.  Its object may be gone by the time a byte comes.
LengthRead(c) ==
    /\ io = [at |-> "length", c |-> c]
    /\ obj[c] # "freed" /\ MaySucceed(c)
    /\ Pend(c, "body")
    /\ IoIdle
    /\ UNCHANGED <<obj, sock, peer, isFirstPacket, receivedData, type, timer, acked,
                   queueVars, cleaner, fault>>

\* A length over PACKET_SIZE_LIMIT closes the socket, and that is all.
LengthTooLong(c) ==
    /\ io = [at |-> "length", c |-> c]
    /\ obj[c] # "freed" /\ MaySucceed(c)
    /\ Closed(c)
    /\ IoIdle
    /\ UNCHANGED <<obj, peer, op, isFirstPacket, receivedData, type, timer, acked,
                   queueVars, cleaner, fault>>

\* read_some throws, through the handler and through _context.run().
LengthThrows(c) ==
    /\ io = [at |-> "length", c |-> c]
    /\ obj[c] # "freed" /\ MayFail(c)
    /\ Fail("uncaught_exception")

LengthStray(c) ==
    /\ io = [at |-> "length", c |-> c]
    /\ obj[c] = "freed"
    /\ Fail("use_after_free")

-------------------------------------------------------------------------------
(* read_packet_body *)

\* Mutant: the next header is awaited before the CONNACK is out.
ConnectDecoded_ReadsOn(c) ==
    /\ Runs(c, "body") /\ MaySucceed(c)
    /\ type[c] = "CONNECT"
    /\ type' = [type EXCEPT ![c] = "UNKNOWN"]
    /\ Pend(c, "header")
    /\ UNCHANGED <<obj, sock, peer, isFirstPacket, receivedData, timer, acked,
                   queueVars, threadVars>>

\* decode_connect_packet_body and create_connack_packet succeeded.
ConnectDecoded(c) ==
    /\ Runs(c, "body") /\ MaySucceed(c)
    /\ type[c] = "CONNECT"
    /\ type' = [type EXCEPT ![c] = "UNKNOWN"]
    /\ Pend(c, "send")
    /\ UNCHANGED <<obj, sock, peer, isFirstPacket, receivedData, timer, acked,
                   queueVars, threadVars>>

PublishDecoded(c) ==
    /\ Runs(c, "body") /\ MaySucceed(c)
    /\ type[c] = "PUBLISH"
    /\ type' = [type EXCEPT ![c] = "UNKNOWN"]
    /\ Pend(c, "header")
    /\ UNCHANGED <<obj, sock, peer, isFirstPacket, receivedData, timer, acked,
                   queueVars, threadVars>>

\* Mutant: a return is missing, and the next header is read.
BodyEndsSession_ReadsOn(c) ==
    /\ Runs(c, "body") /\ MaySucceed(c)
    /\ type[c] \in {"CONNECT", "PUBLISH", "DISCONNECT"}
    /\ Closed(c)
    /\ Io("schedule", c)
    /\ Pend(c, "header")
    /\ UNCHANGED <<obj, peer, isFirstPacket, receivedData, type, timer, acked,
                   queueVars, cleaner, fault>>

\* A body that does not decode, and every DISCONNECT.
BodyEndsSession(c) ==
    /\ Runs(c, "body") /\ MaySucceed(c)
    /\ type[c] \in {"CONNECT", "PUBLISH", "DISCONNECT"}
    /\ Closed(c)
    /\ Io("schedule", c)
    /\ Pend(c, "none")
    /\ UNCHANGED <<obj, peer, isFirstPacket, receivedData, type, timer, acked,
                   queueVars, cleaner, fault>>

\* The switch has no case for any other type: nothing is read again.
BodyIgnored(c) ==
    /\ Runs(c, "body") /\ MaySucceed(c)
    /\ type[c] \notin {"CONNECT", "PUBLISH", "DISCONNECT"}
    /\ Pend(c, "none")
    /\ UNCHANGED <<obj, sock, peer, isFirstPacket, receivedData, type, timer, acked,
                   queueVars, threadVars>>

\* Closes the socket without scheduling the deletion.
BodyFailed(c) ==
    /\ Runs(c, "body") /\ MayFail(c)
    /\ Closed(c)
    /\ Pend(c, "none")
    /\ UNCHANGED <<obj, peer, isFirstPacket, receivedData, type, timer, acked,
                   queueVars, threadVars>>

-------------------------------------------------------------------------------
(* send_packet, write_packet *)

SendPosted(c) ==
    /\ Runs(c, "send")
    /\ Pend(c, "write")
    /\ UNCHANGED <<obj, sock, peer, isFirstPacket, receivedData, type, timer, acked,
                   queueVars, threadVars>>

Written(c) ==
    /\ Runs(c, "write") /\ MaySucceed(c)
    /\ acked' = [acked EXCEPT ![c] = TRUE]
    /\ Pend(c, "header")
    /\ UNCHANGED <<obj, sock, peer, isFirstPacket, receivedData, type, timer,
                   queueVars, threadVars>>

WriteFailed(c) ==
    /\ Runs(c, "write") /\ MayFail(c)
    /\ Closed(c)
    /\ Pend(c, "none")
    /\ UNCHANGED <<obj, peer, isFirstPacket, receivedData, type, timer, acked,
                   queueVars, threadVars>>

-------------------------------------------------------------------------------
(* schedule_for_deletion, called by a handler *)

IoSchedules(c) ==
    /\ io = [at |-> "schedule", c |-> c]
    /\ obj[c] = "alive"
    /\ PushDeletion(c)
    /\ Io("release", c)
    /\ UNCHANGED <<connVars, activeSessions, fault>>

\* shared_from_this when no shared_ptr is left.
IoSchedulesDead(c) ==
    /\ io = [at |-> "schedule", c |-> c]
    /\ obj[c] # "alive"
    /\ Fail(IF obj[c] = "dying" THEN "bad_weak_ptr" ELSE "use_after_free")

\* The io thread drops the shared_ptr in its local variable.
IoReleases(c) ==
    LET last == ~(InQueues(c) \/ CleanerHolds(c) \/ TimerHolds(c))
    IN /\ io = [at |-> "release", c |-> c]
       /\ Unowned(c, last)
       /\ IF last THEN Io("join", c) ELSE IoIdle
       /\ UNCHANGED <<sock, peer, op, isFirstPacket, receivedData, type, timer, acked,
                      queueVars, cleaner, fault>>

IoDestroys(c) ==
    /\ io = [at |-> "join", c |-> c]
    /\ Destroyed(c)
    /\ IoIdle
    /\ UNCHANGED <<queueVars, cleaner, fault>>

-------------------------------------------------------------------------------

\* A handler begins, which depends on the client.
Handler(c) ==
    \/ \E cf \in ControlFields : HeaderRead(c, cf)
    \/ HeaderFailed(c)
    \/ ConnectDecoded(c) \/ PublishDecoded(c) \/ BodyEndsSession(c) \/ BodyIgnored(c)
    \/ BodyFailed(c)
    \/ SendPosted(c) \/ Written(c) \/ WriteFailed(c)
    \/ StrayHandler(c)

\* A handler waits for the client in read_some.
HandlerReads(c) == LengthRead(c) \/ LengthTooLong(c)

\* A handler goes on by itself.
HandlerProceeds(c) ==
    \/ LengthThrows(c) \/ LengthStray(c)
    \/ IoSchedules(c) \/ IoSchedulesDead(c) \/ IoReleases(c) \/ IoDestroys(c)

\* The client goes away, which shows as long as the socket is not closed.
PeerLeaves(c) ==
    /\ peer[c] = "up" /\ sock[c] # "closed"
    /\ peer' = [peer EXCEPT ![c] = "gone"]
    /\ UNCHANGED <<obj, sock, op, isFirstPacket, receivedData, type, timer, acked,
                   queueVars, threadVars>>
===============================================================================
