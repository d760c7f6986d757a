----------------------------- MODULE ConnectMeaning -----------------------------
(***************************************************************************)
(* What a client means by a CONNECT, how the MQTT 5 standard lays it out   *)
(* (Wire...), and what the decoder and the CONNACK have to make of it.  It *)
(* is no model of code: it is what PacketCodec is compared with.           *)
(***************************************************************************)
EXTENDS PacketCodec, UnicodeTable, SequencesExt

\* Properties and the payloads that are announced.
CONSTANT Meanings

WireString(s) == <<Len(s) \div 256, Len(s) % 256>> \o s
WireVarInt(n) == IF n < 128 THEN <<n>> ELSE <<128 + (n % 128), n \div 128>>
WireData(q) ==
    CASE q.type = "USER_PROPERTY" -> WireString(q.data[1]) \o WireString(q.data[2])
      [] IsPropertyFixed(q.type)  -> q.data
      [] OTHER                    -> WireString(q.data)
WireProperty(q) == <<Identifier[q.type]>> \o WireData(q)
WirePropertyBytes(qs) == FlattenSeq([i \in 1..Len(qs) |-> WireProperty(qs[i])])
WireProperties(qs) == WireVarInt(Len(WirePropertyBytes(qs))) \o WirePropertyBytes(qs)

HasWill(m) == "WILL_TOPIC" \in DOMAIN m.payload
WireFlags(m) == (IF HasWill(m) THEN 4 ELSE 0)
                + (IF "PASSWORD" \in DOMAIN m.payload THEN 64 ELSE 0)
                + (IF "USER_NAME" \in DOMAIN m.payload THEN 128 ELSE 0)
WirePayload(m, t) ==
    CASE t = "WILL_PROPERTIES" -> IF HasWill(m) THEN WireProperties(<<>>) ELSE <<>>
      [] OTHER -> IF t \in DOMAIN m.payload THEN WireString(m.payload[t]) ELSE <<>>
ConnectHeader(flags) == <<0, 4, 77, 81, 84, 84, 5, flags, 0, 60>>
WireConnect(m) == ConnectHeader(WireFlags(m)) \o WireProperties(m.properties)
                  \o FlattenSeq([i \in 1..6 |-> WirePayload(m, PayloadTypes[i])])

\* What can be laid out so: a number has its width, the length of a string two
\* bytes, and so has that of the properties.
IsProperty(q) ==
    /\ q.type \in PropertyTypes
    /\ q.data \in (IF q.type = "USER_PROPERTY" THEN ShortPairs ELSE ShortStrings)
    /\ IsPropertyFixed(q.type) => Len(q.data) = FixedSize(q.type)
IsMeaning(m) ==
    /\ m.properties \in Seq(Range(m.properties))
    /\ \A i \in DOMAIN m.properties : IsProperty(m.properties[i])
    /\ Len(WirePropertyBytes(m.properties)) < 16384
    /\ "CLIENT_ID" \in DOMAIN m.payload /\ DOMAIN m.payload \subseteq ConfigPayloads
    /\ \A t \in DOMAIN m.payload : m.payload[t] \in ShortStrings
    /\ HasWill(m) <=> "WILL_PAYLOAD" \in DOMAIN m.payload

ASSUME MeaningsAssumption == \A m \in Meanings : IsMeaning(m)

-------------------------------------------------------------------------------
Accepted == phase = "connack" /\ type = "CONNECT"

NoUniqueTwice(qs) == \A i, j \in DOMAIN qs :
                        i # j /\ qs[i].type = qs[j].type => ~IsPropertyUnique(qs[i].type)

\* The pairs of strings of its user properties.
Users(qs) ==
    LET upTo[n \in 0..Len(qs)] ==
            IF n = 0 THEN <<>>
            ELSE IF qs[n].type = "USER_PROPERTY" THEN Append(upTo[n - 1], qs[n].data)
                                                 ELSE upTo[n - 1]
    IN upTo[Len(qs)]

\* A CONNECT without a will that is accepted configures what the client meant:
\* every property, every payload it announced, and its user properties behind
\* those of earlier packets, in order (decode_connect_packet_body and all it
\* calls).  With a will the cursor goes astray: see NextReadAfterLength.
AcceptedAsMeant ==
    \A m \in Meanings : Accepted /\ body = WireConnect(m) /\ ~HasWill(m) =>
        LET users == Users(m.properties)
            n     == Len(cfg.userProperties) - Len(users)
        IN /\ \A t \in DOMAIN m.payload : cfg.payload[t] = m.payload[t]
           /\ \A i \in DOMAIN m.properties :
                 m.properties[i].type = "USER_PROPERTY"
                 \/ cfg.property[m.properties[i].type] = m.properties[i].data
           /\ n >= 0
           /\ \A i \in DOMAIN users : cfg.userProperties[n + i] = users[i]

\* No CONNECT is accepted in which a property that may come once comes twice
\* (propertySet in decode_properties).
DuplicatesRefused ==
    \A m \in Meanings : Accepted /\ body = WireConnect(m) => NoUniqueTwice(m.properties)

\* The first CONNECT of a client is not refused, nor the end of the process, if
\* all of it is as it should be, it has neither will nor password, and the
\* CONNACK stays below 127 bytes, where the encoder of lengths is right.
\* Authentication data have to come behind the method, which the standard does
\* not ask (decode_connect_packet_body, configure_propriety,
\* create_connack_packet).
IsText(s) == StandardText(s) /\ ~HasControl(s) /\ ~HasNonCharacter(s)
SoundProperty(qs, i) ==
    LET q == qs[i]
    IN /\ q.type \in InConnect /\ ~BadNumber(q.type, q.data)
       /\ q.type = "AUTHENTICATION_METHOD" => IsText(q.data)
       /\ q.type = "USER_PROPERTY" => IsText(q.data[1]) /\ IsText(q.data[2])
       /\ q.type = "AUTHENTICATION_DATA" =>
             \E j \in 1..(i - 1) : qs[j].type = "AUTHENTICATION_METHOD" /\ qs[j].data # <<>>
Sound(m) ==
    /\ DOMAIN m.payload \subseteq {"CLIENT_ID", "USER_NAME"}
    /\ \A t \in DOMAIN m.payload : IsText(m.payload[t])
    /\ NoUniqueTwice(m.properties)
    /\ \A i \in DOMAIN m.properties : SoundProperty(m.properties, i)
    /\ PairBytes(Users(m.properties)) <= 70
FirstConnectAccepted ==
    phase \in {"closed", "crashed"} /\ received = 1 =>
        \A m \in Meanings : body = WireConnect(m) => ~Sound(m)

\* What a client sends as text is kept only if it is UTF-8 by the Unicode
\* standard, without U+0000 (is_valid_content, asked by decode_utf8_str,
\* get_property_data and get_payload).  The topic of a PUBLISH is kept unasked.
TextIsWellFormed ==
    /\ \A t \in ConfigPayloads : ~IsBinaryPayload(t) => StandardText(cfg.payload[t])
    /\ StandardText(cfg.property["AUTHENTICATION_METHOD"])
    /\ \A p \in {"CONTENT_TYPE", "RESPONSE_TOPIC"} : StandardText(cfg.will.property[p])
    /\ \A users \in {cfg.userProperties, cfg.will.userProperties} :
          \A i \in DOMAIN users : StandardText(users[i][1]) /\ StandardText(users[i][2])

\* The CONNACK is, byte for byte, the standard's encoding of what has been
\* negotiated and of what the server can do, in the order of connack_properties,
\* whatever an earlier CONNACK has left in the buffer: if the client has a name
\* and one user property, and its lengths stay below 127
\* (create_connack_packet, fill_property, encode_variable_int).
Property(p, d) == [type |-> p, data |-> d]
One == <<1>>
Negotiated ==
    <<Property("SESSION_EXPIRY_INTERVAL", cfg.property["SESSION_EXPIRY_INTERVAL"]),
      Property("RECEIVE_MAXIMUM", cfg.property["RECEIVE_MAXIMUM"]),
      Property("MAXIMUM_QOS", One), Property("RETAIN_AVAILABLE", One),
      Property("MAXIMUM_PACKET_SIZE", cfg.property["MAXIMUM_PACKET_SIZE"]),
      Property("TOPIC_ALIAS_MAXIMUM", cfg.property["TOPIC_ALIAS_MAXIMUM"]),
      Property("REASON_STRING", ReasonString),
      Property("USER_PROPERTY", cfg.userProperties[1]),
      Property("WILDCARD_SUBSCRIPTION_AVAILABLE", One),
      Property("SUBSCRIPTION_ID_AVAILABLE", One),
      Property("SHARED_SUBSCRIPTION_AVAILABLE", One),
      Property("SERVER_KEEP_ALIVE", <<body[9], body[10]>>)>>
ConnackAsConfigured ==
    phase = "fill" /\ left = 0 /\ cfg.payload["CLIENT_ID"] # <<>> /\ Len(cfg.userProperties) = 1 =>
        LET fields == <<0, 0>> \o WireProperties(Negotiated)
        IN Len(fields) < 127 => reply = <<32, Len(fields)>> \o fields
===============================================================================
