------------------------------ MODULE PacketCodec ------------------------------
(***************************************************************************)
(* The packets of one connection, one after the other (lmqtt_packet.h):    *)
(* the bodies of CONNECT, PUBLISH and DISCONNECT are decoded, and each     *)
(* CONNECT that is accepted is answered with a CONNACK.  The state is the  *)
(* body being decoded, the decoder's cursor, and what lasts from packet to *)
(* packet: the configuration of the client and the payloads it announced.  *)
(***************************************************************************)
EXTENDS ClientConfig, VarInt, Integers

CONSTANTS Packets,        \* the packets a client may send
          Leftover,       \* what may be found behind a body, over and over
          MaxPackets,     \* bound: how many packets are decoded
          WellFormed(_)   \* utf8_utils::is_valid_content is WELL_FORMED

DecodedTypes == {"CONNECT", "PUBLISH", "DISCONNECT"}

ASSUME PacketsAssumption == Packets \subseteq [type : DecodedTypes, body : Strings]
ASSUME LeftoverAssumption == Leftover \subseteq Strings \ {<<>>} /\ Leftover # {}
ASSUME MaxPacketsAssumption == MaxPackets \in Nat

VARIABLES phase,     \* what the decoder does next
          type,      \* _type
          body,      \* _body of the packet received
          pos,       \* the cursor: how many bytes of body are behind it
          stop,      \* buffEnd of decode_properties
          resume,    \* where the caller of decode_properties goes on
          will,      \* isWillProperties
          seen,      \* propertySet
          slot,      \* the round of decode_payload
          wanted,    \* the entries of _payloadFlags that are not UNKNOWN
          cfg,       \* _clientCfg
          index,     \* the next property of CONNACK
          left,      \* remainingSize of CONNACK
          reply,     \* _body of the packet that is sent
          rcode,     \* the last reason code
          received   \* packets received

packet == <<type, body>>
cursor == <<pos, stop, resume, will, seen, slot>>
out == <<index, left, reply>>
vars == <<phase, packet, cursor, wanted, cfg, out, rcode, received>>

Phases == {"idle", "header", "properties", "payload", "message", "connack", "fill", "closed",
           "crashed"}
ReasonCodes == {"SUCCESS", "MALFORMED_PACKET", "PROTOCOL_ERROR",
                "UNSUPPORTED_PROTOCOL_VERSION"}

Init == /\ phase = "idle" /\ type = "UNKNOWN" /\ body = <<>>
        /\ pos = 0 /\ stop = 0 /\ resume = 0 /\ will = FALSE /\ seen = {} /\ slot = 1
        /\ wanted = {"CLIENT_ID"} /\ cfg = DefaultConfig
        /\ index = 1 /\ left = 0 /\ reply = <<>> /\ rcode = "SUCCESS" /\ received = 0

\* The bytes of the body from the n-th on, and those up to another.
From(n) == SubSeq(body, n + 1, Len(body))
Between(n, m) == SubSeq(body, n + 1, m)

\* The connection is closed, and scheduled for deletion.
Refuse(code) == /\ phase' = "closed" /\ rcode' = code
                /\ UNCHANGED <<packet, cursor, wanted, out, received>>

\* The first packet of a connection has to be a CONNECT.
Receive == /\ phase = "idle" /\ received < MaxPackets
           /\ \E p \in Packets : /\ received = 0 => p.type = "CONNECT"
                                 /\ type' = p.type /\ body' = p.body
           /\ phase' = "header" /\ received' = received + 1
           /\ UNCHANGED <<cursor, wanted, cfg, out, rcode>>

-------------------------------------------------------------------------------
(* decode_properties *)

\* Its call with a length, which fails if the body does not hold as much.
Holds(start, size) == start + size <= Len(body)
EnterProperties(start, size, next, isWill) ==
    /\ phase' = "properties" /\ seen' = {} /\ will' = isWill
    /\ pos' = start /\ stop' = start + size /\ resume' = next

Length(s) == s[1] * 256 + s[2]
HoldsString(s) == Len(s) >= 2 /\ Len(s) >= 2 + Length(s)
StringOf(s) == SubSeq(s, 3, 2 + Length(s))
Behind(s) == SubSeq(s, 3 + Length(s), Len(s))
IsString(s) == HoldsString(s) /\ WellFormed(StringOf(s))

\* get_property_data on the bytes that remain: whether they hold the property,
\* its data, and how far the cursor moves.
Present(p, s) ==
    CASE IsPropertyFixed(p)               -> Len(s) >= FixedSize(p)
      [] DataType(p) = "UTF8_STRING"      -> IsString(s)
      [] DataType(p) = "UTF8_STRING_PAIR" -> IsString(s) /\ IsString(Behind(s))
      [] DataType(p) = "BINARY"           -> HoldsString(s)
      [] OTHER                            -> FALSE

\* Mutant: of a pair only the first string is kept.
DataOf_First(p, s) == IF IsPropertyFixed(p) THEN SubSeq(s, 1, FixedSize(p)) ELSE StringOf(s)

DataOf(p, s) ==
    CASE IsPropertyFixed(p)               -> SubSeq(s, 1, FixedSize(p))
      [] DataType(p) = "UTF8_STRING_PAIR" -> <<StringOf(s), StringOf(Behind(s))>>
      [] OTHER                            -> StringOf(s)

\* Mutant: the length bytes of the second string are forgotten.
SizeOf_OneLength(p, s) ==
    CASE IsPropertyFixed(p)               -> FixedSize(p)
      [] DataType(p) = "UTF8_STRING_PAIR" -> 2 + Length(s) + Length(Behind(s))
      [] OTHER                            -> 2 + Length(s)

\* Mutant: the identifier is passed once more.
SizeOf_Identifier(p, s) ==
    CASE IsPropertyFixed(p)               -> 1 + FixedSize(p)
      [] DataType(p) = "UTF8_STRING_PAIR" -> 5 + Length(s) + Length(Behind(s))
      [] OTHER                            -> 3 + Length(s)

SizeOf(p, s) ==
    CASE IsPropertyFixed(p)               -> FixedSize(p)
      [] DataType(p) = "UTF8_STRING_PAIR" -> 4 + Length(s) + Length(Behind(s))
      [] OTHER                            -> 2 + Length(s)

\* Mutant: propertySet is not looked at.
PropertyCode_NoSet(p, s) ==
    IF ValidatePacketPropertyType(p, type) /\ s # <<>> /\ Present(p, s)
    THEN "SUCCESS" ELSE "MALFORMED_PACKET"

\* What a property is refused for before it is configured.
PropertyCode(p, s) ==
    CASE ~ValidatePacketPropertyType(p, type) -> "MALFORMED_PACKET"
      [] ValidatePacketPropertyType(p, type) /\ p \in seen -> "PROTOCOL_ERROR"
      [] OTHER -> IF s # <<>> /\ Present(p, s) THEN "SUCCESS" ELSE "MALFORMED_PACKET"

Configured(p, s) == IF will THEN ConfigureWillPropriety(cfg, p, DataOf(p, s))
                            ELSE ConfigurePropriety(cfg, p, DataOf(p, s))

\* One round of the loop: a property that is configured.  Only a USER_PROPERTY
\* may come twice.
ReadProperty ==
    /\ phase = "properties" /\ pos # stop
    /\ LET p == PropertyOf(body[pos + 1])
           s == Between(pos + 1, stop)
       IN /\ PropertyCode(p, s) = "SUCCESS"
          /\ Configured(p, s).rcode = "SUCCESS"
          /\ cfg' = Configured(p, s).cfg
          /\ pos' = pos + 1 + SizeOf(p, s)
          /\ seen' = IF IsPropertyUnique(p) THEN seen \union {p} ELSE seen
    /\ UNCHANGED <<phase, packet, stop, resume, will, slot, wanted, out, rcode, received>>

\* decode_publish_packet_body does not look at what decode_properties returns.
RefuseProperty ==
    /\ phase = "properties" /\ pos # stop
    /\ LET p    == PropertyOf(body[pos + 1])
           s    == Between(pos + 1, stop)
           code == PropertyCode(p, s)
       IN /\ \/ code # "SUCCESS" /\ cfg' = cfg /\ rcode' = code
             \/ /\ code = "SUCCESS" /\ Configured(p, s).rcode # "SUCCESS"
                /\ cfg' = Configured(p, s).cfg /\ rcode' = Configured(p, s).rcode
    /\ IF type = "PUBLISH"
       THEN phase' = "message" /\ pos' = resume
       ELSE phase' = "closed" /\ UNCHANGED pos
    /\ UNCHANGED <<packet, stop, resume, will, seen, slot, wanted, out, received>>

EndProperties ==
    /\ phase = "properties" /\ pos = stop
    /\ phase' = IF type = "PUBLISH" THEN "message" ELSE "payload"
    /\ pos' = resume
    /\ slot' = IF will THEN slot + 1 ELSE 1
    /\ UNCHANGED <<packet, stop, resume, will, seen, wanted, cfg, out, rcode, received>>

-------------------------------------------------------------------------------
(* decode_connect_packet_body *)

\* The n-th byte, or, where the body is shorter, what g has behind it: the fields
\* in front of the size check are read unchecked.
Beyond(n, g) == g[(n % Len(g)) + 1]
ByteAt(n, g) == IF n < Len(body) THEN body[n + 1] ELSE Beyond(n - Len(body), g)
Bit(b, n) == (b \div 2^n) % 2 = 1

\* protocolNameLen is a uint8_t.
NameOk(g) == (ByteAt(0, g) + ByteAt(1, g)) % 256 = 4
ProtocolOk(g) == [i \in 1..5 |-> ByteAt(i + 1, g)] = <<77, 81, 84, 84, 5>>
FlagsOk(f) == ~Bit(f, 0) /\ ~(Bit(f, 2) /\ Bit(f, 3) /\ Bit(f, 4))

\* Mutant: the cursor is left on the last byte of the length.
PropertiesStart_OnLength == 10 + DecodeVariableInt(From(10)).offset

PropertiesStart == 10 + DecodeVariableInt(From(10)).offset + 1

ConnectCode(g) ==
    CASE ~NameOk(g) -> "MALFORMED_PACKET"
      [] NameOk(g) /\ ~ProtocolOk(g) -> "UNSUPPORTED_PROTOCOL_VERSION"
      [] OTHER -> IF /\ FlagsOk(ByteAt(7, g)) /\ Len(body) >= 13
                     /\ DecodeVariableInt(From(10)).ok
                     /\ Holds(PropertiesStart, DecodeVariableInt(From(10)).value)
                  THEN "SUCCESS" ELSE "MALFORMED_PACKET"

\* What is stored of the flags.  Entries of _payloadFlags are only ever added.
Announced(f) == (IF Bit(f, 2) THEN {"WILL_PROPERTIES", "WILL_TOPIC", "WILL_PAYLOAD"} ELSE {})
                \union (IF Bit(f, 6) THEN {"PASSWORD"} ELSE {})
                \union (IF Bit(f, 7) THEN {"USER_NAME"} ELSE {})
WithFlags(f) ==
    [cfg EXCEPT !.willFlag = Bit(f, 2), !.passwordFlag = Bit(f, 6), !.userNameFlag = Bit(f, 7),
                !.will = IF Bit(f, 2) THEN FreshWill(TRUE) ELSE @,
                !.payload = IF Bit(f, 2) THEN [@ EXCEPT !["WILL_TOPIC"] = <<>>,
                                                       !["WILL_PAYLOAD"] = <<>>]
                            ELSE @]

DecodeConnect ==
    /\ phase = "header" /\ type = "CONNECT" /\ Len(body) >= 13 /\ ConnectCode(0) = "SUCCESS"
    /\ LET len == DecodeVariableInt(From(10)).value
       IN EnterProperties(PropertiesStart, len, PropertiesStart + len, FALSE)
    /\ wanted' = wanted \union Announced(body[8]) /\ cfg' = WithFlags(body[8])
    /\ UNCHANGED <<packet, slot, out, rcode, received>>

\* The first body of a connection has no bytes, nor has _body ever had any: its
\* data() is null.
NoMemory == received = 1 /\ body = <<>>

\* The flags that a refused packet leaves in cfg die with the connection.
RefuseConnect ==
    /\ phase = "header" /\ type = "CONNECT" /\ ~NoMemory
    /\ \E g \in Leftover : ConnectCode(g) # "SUCCESS" /\ Refuse(ConnectCode(g))
    /\ UNCHANGED cfg

-------------------------------------------------------------------------------
(* decode_payload: one round for each entry of _payloadFlags *)

Payload == PayloadTypes[slot]
AtPayload == phase = "payload" /\ slot <= 6 /\ pos # Len(body)

\* Nothing is left to read, or no entry to read it for.
EndPayload == /\ phase = "payload" /\ (slot = 7 \/ pos = Len(body))
              /\ phase' = "connack"
              /\ UNCHANGED <<packet, cursor, wanted, cfg, out, rcode, received>>

\* Mutant: the round does not end.
SkipPayload_Stays == /\ AtPayload /\ pos < Len(body) /\ Payload \notin wanted
                     /\ UNCHANGED vars

SkipPayload == /\ AtPayload /\ pos < Len(body) /\ Payload \notin wanted
               /\ slot' = slot + 1
               /\ UNCHANGED <<phase, packet, pos, stop, resume, will, seen, wanted, cfg, out,
                              rcode, received>>

\* The cursor passes the length of the will properties by varSize, the index of
\* its last byte.
WillStart == pos + DecodeVariableInt(From(pos)).offset
WillCode == IF /\ DecodeVariableInt(From(pos)).ok
               /\ Holds(WillStart, DecodeVariableInt(From(pos)).value)
            THEN "SUCCESS" ELSE "MALFORMED_PACKET"
EnterWillProperties ==
    /\ AtPayload /\ pos < Len(body) /\ Payload = "WILL_PROPERTIES" /\ Payload \in wanted
    /\ WillCode = "SUCCESS"
    /\ LET len == DecodeVariableInt(From(pos)).value
       IN EnterProperties(WillStart, len, WillStart + len, TRUE)
    /\ UNCHANGED <<packet, slot, wanted, cfg, out, rcode, received>>

\* get_payload
PayloadPresent(t, s) == IF IsBinaryPayload(t) THEN HoldsString(s) ELSE IsString(s)
PayloadCode == IF PayloadPresent(Payload, From(pos))
               THEN ConfigurePayload(cfg, Payload, StringOf(From(pos))).rcode
               ELSE "MALFORMED_PACKET"
ReadPayload ==
    /\ AtPayload /\ pos < Len(body) /\ Payload # "WILL_PROPERTIES" /\ Payload \in wanted
    /\ PayloadCode = "SUCCESS"
    /\ cfg' = ConfigurePayload(cfg, Payload, StringOf(From(pos))).cfg
    /\ pos' = pos + 2 + Length(From(pos)) /\ slot' = slot + 1
    /\ UNCHANGED <<phase, packet, stop, resume, will, seen, wanted, out, rcode, received>>

RoundCode == CASE pos > Len(body) -> "MALFORMED_PACKET"
               [] pos < Len(body) /\ Payload \notin wanted -> "SUCCESS"
               [] OTHER -> IF Payload = "WILL_PROPERTIES" THEN WillCode ELSE PayloadCode
RefusePayload ==
    /\ AtPayload /\ RoundCode # "SUCCESS" /\ Refuse(RoundCode)
    /\ UNCHANGED cfg

-------------------------------------------------------------------------------
(* decode_publish_packet_body, decode_disconnect_packet_body *)

\* The topic as decode_utf8_str reads it, which does not ask how long the body
\* is and takes what is behind it for the rest of the topic.
Topic(g) == LET end == 2 + ByteAt(0, g) * 256 + ByteAt(1, g)
            IN SubSeq(body \o [i \in 1..end |-> Beyond(i - 1, g)], 3, end)
Topics == {Topic(g) : g \in Leftover}

\* Its result is not looked at; where it fails it leaves its offset at 0, and the
\* topic's own length is read as that of the properties.
TopicSize(topic) == IF WellFormed(topic) THEN 2 + Len(topic) ELSE 0

\* The topic is kept, whatever it is.
KeepTopic(topic) == cfg' = [cfg EXCEPT !.lastTopic = topic]

\* The cursor stays on the last byte of the length, passes it with it++, and
\* never passes the properties.
ReadLength(size) ==
    LET length == DecodeVariableInt(From(size))
        start  == size + length.offset
    IN \/ ~length.ok /\ Refuse("MALFORMED_PACKET")
       \/ /\ length.ok /\ Holds(start, length.value)
          /\ EnterProperties(start, length.value, start + 1, FALSE)
          /\ UNCHANGED <<packet, slot, wanted, out, rcode, received>>
       \/ /\ length.ok /\ ~Holds(start, length.value)
          /\ phase' = "message" /\ pos' = start + 1 /\ rcode' = "MALFORMED_PACKET"
          /\ UNCHANGED <<packet, stop, resume, will, seen, slot, wanted, out, received>>

DecodePublish ==
    /\ phase = "header" /\ type = "PUBLISH"
    /\ \E topic \in Topics : /\ TopicSize(topic) <= Len(body)
                             /\ KeepTopic(topic) /\ ReadLength(TopicSize(topic))

\* Behind a topic that is well-formed past the end of the body the cursor is
\* past the end as well: no properties are decoded, since the body does not
\* hold them, and the length of the message, which is negative, is too large.
DecodePublishOverrun ==
    /\ phase = "header" /\ type = "PUBLISH"
    /\ \E topic \in Topics : /\ TopicSize(topic) > Len(body)
                             /\ KeepTopic(topic) /\ Refuse("MALFORMED_PACKET")

Wildcard == 35
MessageOk(s) == /\ Len(s) \in 1..255 /\ WellFormed(s)
                /\ \A i \in 1..Len(s) : s[i] # Wildcard
ReadMessage ==
    /\ phase = "message" /\ UNCHANGED cfg
    /\ \/ /\ MessageOk(From(pos)) /\ phase' = "idle" /\ rcode' = "SUCCESS"
          /\ UNCHANGED <<packet, cursor, wanted, out, received>>
       \/ ~MessageOk(From(pos)) /\ Refuse("MALFORMED_PACKET")

DecodeDisconnect == /\ phase = "header" /\ type = "DISCONNECT"
                    /\ Refuse("SUCCESS") /\ UNCHANGED cfg

\* What is read is not the process's own: behind a null pointer, or up to 64K
\* behind a body that is shorter than its topic.
ReadsAstray == \/ type = "CONNECT" /\ NoMemory
               \/ type = "PUBLISH" /\ ~HoldsString(body)
DecodeCrashes == /\ phase = "header" /\ ReadsAstray
                 /\ phase' = "crashed"
                 /\ UNCHANGED <<packet, cursor, wanted, cfg, out, rcode, received>>

-------------------------------------------------------------------------------
(* create_connack_packet *)

\* The size of the first n properties.
SizeUpTo[n \in 0..17] ==
    IF n = 0 THEN 0 ELSE SizeUpTo[n - 1] + GetPropertySize(cfg, ConnackProperties[n])
PropertiesSize == SizeUpTo[17]
VariablePacketSize == 2 + PropertiesSize + GetVariableIntSize(PropertiesSize)

\* Both lengths have to take as many bytes as were computed.
LengthFits(v) == ~EncodeFails(v) /\ EncodedSize(v) = GetVariableIntSize(v)

\* The packet up to its properties: type, length, flags, reason code, length.
ConnackHead == <<32>> \o EncodeVariableInt(VariablePacketSize) \o <<0, 0>>
               \o EncodeVariableInt(PropertiesSize)

\* resize keeps what an earlier CONNACK has left behind and adds zeros; the head
\* is written over it.
Resized(bytes, head, size) ==
    SubSeq(head \o SubSeq(bytes, Len(head) + 1, Len(bytes)) \o Zeros(size), 1, size)

CreateConnack ==
    /\ phase = "connack" /\ UNCHANGED cfg
    /\ \/ /\ LengthFits(VariablePacketSize) /\ LengthFits(PropertiesSize)
          /\ phase' = "fill" /\ index' = 1 /\ left' = PropertiesSize
          /\ reply' = Resized(reply, ConnackHead, Len(ConnackHead) + PropertiesSize)
          /\ UNCHANGED <<packet, cursor, wanted, rcode, received>>
       \/ ~(LengthFits(VariablePacketSize) /\ LengthFits(PropertiesSize)) /\ Refuse(rcode)

\* _keepAlive, which has just been read from the CONNECT.
KeepAlive == SubSeq(body, 9, 10)
BytesOf(p) == PropertyBytes(cfg, KeepAlive, p)

\* The bytes from the n-th on are written over.
Overwritten(bytes, n, new) ==
    SubSeq(SubSeq(bytes, 1, n) \o new \o SubSeq(bytes, n + Len(new) + 1, Len(bytes)),
           1, Len(bytes))

\* One round of the loop.
FillProperty ==
    /\ phase = "fill" /\ left # 0
    /\ LET p == ConnackProperties[index]
       IN IF Fills(cfg, p, left)
          THEN /\ left' = left - GetPropertySize(cfg, p) /\ index' = index + 1
               /\ reply' = Overwritten(reply, Len(reply) - left, BytesOf(p))
               /\ UNCHANGED <<phase, packet, cursor, wanted, rcode, received>>
          ELSE Refuse(rcode)
    /\ UNCHANGED cfg

SendConnack == /\ phase = "fill" /\ left = 0 /\ phase' = "idle" /\ rcode' = "SUCCESS"
               /\ UNCHANGED <<packet, cursor, wanted, cfg, out, received>>

-------------------------------------------------------------------------------
Decode == \/ DecodeConnect \/ RefuseConnect
          \/ ReadProperty \/ RefuseProperty \/ EndProperties
          \/ EndPayload \/ SkipPayload \/ EnterWillProperties \/ ReadPayload \/ RefusePayload
          \/ DecodePublish \/ DecodePublishOverrun \/ ReadMessage \/ DecodeDisconnect
          \/ DecodeCrashes
Answer == CreateConnack \/ FillProperty \/ SendConnack

Next == Receive \/ Decode \/ Answer

\* The io thread runs a handler to its end; the next packet is the client's.
Spec == Init /\ [][Next]_vars /\ WF_vars(Decode \/ Answer)

-------------------------------------------------------------------------------
DecoderTypeOK ==
    /\ phase \in Phases /\ type \in DecodedTypes \union {"UNKNOWN"} /\ body \in Strings
    /\ pos \in Nat /\ stop \in Nat /\ resume \in Nat /\ will \in BOOLEAN
    /\ seen \subseteq PropertyTypes /\ slot \in 1..7
    /\ wanted \subseteq PayloadTypeSet /\ cfg \in ClientConfigs
    /\ rcode \in ReasonCodes /\ received \in 0..MaxPackets
TypeOK == DecoderTypeOK /\ index \in 1..18 /\ left \in Nat /\ reply \in Strings

\* The cursor of the loops over properties and payloads never passes the end of
\* the properties or of the body, so that the loops that stop at buff ==
\* buffEnd, and not at buff >= buffEnd, do stop (decode_properties,
\* decode_payload).
CursorInside ==
    /\ phase = "properties" => pos <= stop /\ stop <= Len(body) /\ resume <= Len(body) + 1
    /\ phase = "payload" => pos <= Len(body)

\* Between packets, the limits of a client are legal, although they are stored
\* before they are checked, and although what decode_properties answers of a
\* PUBLISH is thrown away (configure_propriety, decode_publish_packet_body).
LiveLimits == phase # "closed" => \A p \in ConfigProperties : ~BadNumber(p, cfg.property[p])

\* A PUBLISH changes nothing that CONNECT has negotiated, only the last topic
\* and the list of user properties (decode_publish_packet_body).
PublishNegotiatesNothing ==
    [][type = "PUBLISH" /\ phase # "idle" =>
        cfg' = [cfg EXCEPT !.lastTopic = cfg'.lastTopic,
                           !.userProperties = cfg'.userProperties]]_vars

\* No property of the CONNACK is written over the place of the next one:
\* fill_property writes no more bytes than get_property_size counts, the two
\* properties of size 0 for which it would being the last (fill_property,
\* create_connack_packet).
FillKeepsPlace ==
    [][phase = "fill" /\ index' # index =>
        Len(BytesOf(ConnackProperties[index])) <= GetPropertySize(cfg, ConnackProperties[index])]_vars

\* Decoding ends, and so does writing the CONNACK, whatever the packet: the
\* connection waits for the next packet, or is closed.  Only a first CONNECT
\* without a body, or a PUBLISH that is shorter than its topic, may end the
\* process instead (read_packet_body and all it calls).
HandlerEnds ==
    phase = "header" ~> phase \in {"idle", "closed"} \/ (phase = "crashed" /\ ReadsAstray)

\* The comment of decode_variable_int: "The offset will be used to know from
\* where to start the next reading after decoding the variable".  The will
\* properties start behind the bytes of their length.
NextReadAfterLength ==
    [][phase = "payload" /\ phase' = "properties" =>
        \E n \in 1..4 : /\ pos' = pos + n /\ (n = 4 \/ body[pos + n] < 128)
                        /\ \A i \in 1..(n - 1) : body[pos + i] >= 128]_vars
===============================================================================
