------------------------------ MODULE PacketStream ------------------------------
(***************************************************************************)
(* What a connection makes of the bytes a client sends (connection.h, from *)
(* read_fixed_header to read_packet_body): it reads a control field, the   *)
(* bytes of a length and a body, and hands the body to the decoders of     *)
(* PacketCodec, which it implements.  The io thread reads the length one   *)
(* byte after the other in the handler of the control field.               *)
(***************************************************************************)
EXTENDS PacketCodec

CONSTANTS Frames,     \* for each n, what a client may send for its n-th packet
          Pipelined,  \* what it may send before its last packet has been read
          Limit       \* PACKET_SIZE_LIMIT

ASSUME FramesAssumption ==
    Frames \in [1..MaxPackets -> SUBSET Strings] /\ Pipelined \subseteq Strings
ASSUME LimitAssumption == Limit \in Nat

Header == INSTANCE FixedHeader

VARIABLES stage,   \* what the connection reads next, or how it ended
          open,    \* _socket.is_open()
          inbox,   \* bytes sent and not read yet
          sent,    \* how many frames the client has sent
          first,   \* _isFirstPacket
          htype,   \* _inPacket._type
          len,     \* _inPacket._header._packetLen
          offset,  \* bytes of the length that are read
          head     \* history: the control field and the length, as read

framing == <<stage, open, inbox, sent, first, htype, len, offset, head>>
streamVars == <<vars, framing>>

\* In "deaf" the connection is open and reads no more; "thrown" is an exception
\* that leaves _context.run(), "crashed" the end of the process in a decoder.
Stages == {"control", "length", "body", "decode", "deaf", "closed", "thrown", "crashed"}

StreamInit == /\ Init
              /\ stage = "control" /\ open = TRUE /\ inbox = <<>> /\ sent = 0
              /\ first = TRUE /\ htype = "UNKNOWN" /\ len = 0 /\ offset = 0 /\ head = <<>>

\* The decoders do not look at what arrives while they run.
Send == /\ sent < MaxPackets /\ open /\ stage # "decode"
        /\ \E f \in IF stage = "control" /\ inbox = <<>> THEN Frames[sent + 1] ELSE Pipelined :
              inbox' = inbox \o f
        /\ sent' = sent + 1
        /\ UNCHANGED <<vars, stage, open, first, htype, len, offset, head>>

-------------------------------------------------------------------------------
(* read_fixed_header *)

AtControl == stage = "control" /\ inbox # <<>>
Control == Header!CreateFixedHeader(Head(inbox), htype)
Refused == first /\ Control.type # "CONNECT"

\* Mutant: the socket stays open after a malformed control field.
ReadControl_StaysOpen ==
    /\ AtControl /\ ~Refused
    /\ stage' = "length" /\ first' = FALSE /\ htype' = Control.type /\ offset' = 0
    /\ inbox' = Tail(inbox) /\ head' = <<Head(inbox)>>
    /\ UNCHANGED <<vars, open, sent, len>>

\* Mutant: the first packet may be any.
ReadControl_AnyFirst ==
    /\ AtControl
    /\ stage' = "length" /\ first' = FALSE /\ htype' = Control.type /\ offset' = 0
    /\ open' = (Control.rcode = "SUCCESS")
    /\ inbox' = Tail(inbox) /\ head' = <<Head(inbox)>>
    /\ UNCHANGED <<vars, sent, len>>

\* After a malformed control field the socket is closed, and the length is read
\* all the same.
ReadControl ==
    /\ AtControl /\ ~Refused
    /\ stage' = "length" /\ first' = FALSE /\ htype' = Control.type /\ offset' = 0
    /\ open' = (Control.rcode = "SUCCESS")
    /\ inbox' = Tail(inbox) /\ head' = <<Head(inbox)>>
    /\ UNCHANGED <<vars, sent, len>>

RefuseFirst ==
    /\ AtControl /\ Refused
    /\ stage' = "closed" /\ open' = FALSE /\ htype' = Control.type /\ inbox' = Tail(inbox)
    /\ UNCHANGED <<vars, sent, first, len, offset, head>>

\* One round of the loop.  _packetLen is added to, and nothing sets it to 0 but
\* the reset of the packet before.
LastLengthByte == Head(inbox) < 128 \/ offset = 3
ReadLengthByte ==
    /\ stage = "length" /\ open /\ inbox # <<>>
    /\ len' = len + (Head(inbox) % 128) * Mul[offset + 1]
    /\ offset' = offset + 1 /\ inbox' = Tail(inbox) /\ head' = Append(head, Head(inbox))
    /\ \/ ~LastLengthByte /\ UNCHANGED <<stage, open>>
       \/ LastLengthByte /\ len' <= Limit /\ stage' = "body" /\ UNCHANGED open
       \/ LastLengthByte /\ len' > Limit /\ stage' = "closed" /\ open' = FALSE
    /\ UNCHANGED <<vars, sent, first, htype>>

\* read_some of a closed socket throws.
ReadLengthThrows == /\ stage = "length" /\ ~open /\ stage' = "thrown"
                    /\ UNCHANGED <<vars, open, inbox, sent, first, htype, len, offset, head>>

-------------------------------------------------------------------------------
(* read_packet_body *)

Arrived == stage = "body" /\ Len(inbox) >= len

ReadBody ==
    /\ Arrived /\ htype \in DecodedTypes /\ received < MaxPackets
    /\ stage' = "decode" /\ phase' = "header" /\ received' = received + 1
    /\ type' = htype /\ body' = SubSeq(inbox, 1, len)
    /\ inbox' = SubSeq(inbox, len + 1, Len(inbox))
    /\ UNCHANGED <<cursor, wanted, cfg, out, rcode, open, sent, first, htype, len, offset, head>>

\* The switch has no case for a CONNACK, and nothing is read after it.
IgnoreBody ==
    /\ Arrived /\ htype \notin DecodedTypes /\ stage' = "deaf"
    /\ inbox' = SubSeq(inbox, len + 1, Len(inbox))
    /\ UNCHANGED <<vars, open, sent, first, htype, len, offset, head>>

\* Mutant: the fixed header is left as it is.
ResetPacket_KeepsHeader == htype' = "UNKNOWN" /\ UNCHANGED len

ResetPacket == htype' = "UNKNOWN" /\ len' = 0

\* A step of the decoders or of the answer.  The packet is reset when its body
\* is decoded; the next control field is read once the answer is written.
Handle ==
    /\ stage = "decode" /\ (Decode \/ Answer)
    /\ \/ /\ phase' = "idle" /\ stage' = "control" /\ head' = <<>> /\ offset' = 0
          /\ ResetPacket /\ UNCHANGED open
       \/ /\ phase' = "closed" /\ stage' = "closed" /\ open' = FALSE
          /\ UNCHANGED <<head, offset, htype, len>>
       \/ /\ phase' = "crashed" /\ stage' = "crashed" /\ open' = FALSE
          /\ UNCHANGED <<head, offset, htype, len>>
       \/ /\ phase' \notin {"idle", "closed", "crashed"} /\ UNCHANGED <<stage, open, head, offset>>
          /\ IF phase' = "connack" THEN ResetPacket ELSE UNCHANGED <<htype, len>>
    /\ UNCHANGED <<inbox, sent, first>>

-------------------------------------------------------------------------------
Read == \/ ReadControl \/ RefuseFirst \/ ReadLengthByte \/ ReadLengthThrows
        \/ ReadBody \/ IgnoreBody

StreamNext == Send \/ Read \/ Handle

\* asio hands over what has arrived, and a handler runs to its end; what a
\* client sends, and when, is its own affair.
StreamSpec == /\ StreamInit /\ [][StreamNext]_streamVars
              /\ WF_streamVars(Read) /\ WF_streamVars(Handle)

-------------------------------------------------------------------------------
FramingTypeOK ==
    /\ stage \in Stages /\ open \in BOOLEAN /\ inbox \in Strings /\ sent \in 0..MaxPackets
    /\ first \in BOOLEAN /\ htype \in Header!PacketTypes /\ len \in Nat /\ offset \in 0..4
    /\ head \in Strings
StreamTypeOK == TypeOK /\ FramingTypeOK

\* The length that the bytes of a head stand for in MQTT.
Announced128(bytes) ==
    LET digit(i) == IF i \in DOMAIN bytes THEN bytes[i] % 128 ELSE 0
    IN digit(2) + 128 * digit(3) + 16384 * digit(4) + 2097152 * digit(5)

\* The body that is decoded is as long as the client has announced, in however
\* many bytes it did, and no length is added to that of the packet before
\* (read_fixed_header, lmqtt_packet::reset).  Of lengths from 16384 on, which
\* should be refused, it says nothing.
BodyAsAnnounced ==
    stage = "decode" /\ phase = "header" /\ Announced128(head) < 16384
        => Len(body) = Announced128(head)

\* The control fields of a packet by the table packet_flag: no flags, but for a
\* PUBLISH, which may have any that MQTT knows (no QoS of 3, no DUP with QoS 0).
LegalControls(t) ==
    CASE t = "CONNECT"    -> {16}
      [] t = "PUBLISH"    -> {48 + flags : flags \in (0..15) \ {6, 7, 8, 9, 14, 15}}
      [] t = "DISCONNECT" -> {224}

\* Nothing is decoded as a CONNECT or a PUBLISH that is none by its control
\* field, or whose control field is malformed, although the handler goes on
\* after it has closed the socket, and although the type is stored before the
\* flags are looked at (read_fixed_header, create_fixed_header).  Of what is
\* decoded as a DISCONNECT that is not true.
MalformedNeverDecoded ==
    stage = "decode" /\ phase = "header" /\ type # "DISCONNECT"
        => head[1] \in LegalControls(type)

\* Whatever the client sends, in whatever pieces, the decoders of PacketCodec are
\* run one packet after the other, a CONNECT first, and none is left half way:
\* the stream implements the decoder that is given whole packets.
ImplementsCodec == Spec
===============================================================================
