----------------------------- MODULE ClientConfig -----------------------------
(***************************************************************************)
(* client_config and will_config (lmqtt_client_config.h,                   *)
(* lmqtt_will_config.h): what a connection knows of its client, how the    *)
(* decoded properties and payloads change it, and what CONNACK makes of    *)
(* it.  A number is kept as the bytes it was read from.                    *)
(***************************************************************************)
EXTENDS PropertyTypes, Sequences

Strings == Seq(Byte)
Pairs == Strings \X Strings

\* The ones whose lengths two bytes announce.
ShortStrings == {s \in Strings : Len(s) <= 65535}
ShortPairs == ShortStrings \X ShortStrings

ConfigProperties == InConnect \ {"USER_PROPERTY"}
WillProperties == {"WILL_DELAY_INTERVAL", "PAYLOAD_FORMAT_INDICATOR",
                   "MESSAGE_EXPIRY_INTERVAL", "CONTENT_TYPE", "RESPONSE_TOPIC",
                   "CORRELATION_DATA"}
ConfigPayloads == PayloadTypeSet \ {"WILL_PROPERTIES"}

WillConfigs == [made : BOOLEAN, property : [WillProperties -> Strings],
                userProperties : Seq(Pairs)]
ClientConfigs ==
    [property : [ConfigProperties -> Strings], userProperties : Seq(Pairs),
     payload : [ConfigPayloads -> Strings], lastTopic : Strings, will : WillConfigs,
     willFlag : BOOLEAN, passwordFlag : BOOLEAN, userNameFlag : BOOLEAN]

Zeros(n) == [i \in 1..n |-> 0]

\* _willCfg is null until init_will_cfg.
FreshWill(made) ==
    [made |-> made, userProperties |-> <<>>,
     property |-> [p \in WillProperties |->
                      IF IsPropertyFixed(p) THEN Zeros(FixedSize(p)) ELSE <<>>]]

DefaultConfig ==
    [property |-> [p \in ConfigProperties |->
                      CASE p = "SESSION_EXPIRY_INTERVAL" -> <<170, 187, 204, 221>>
                        [] p = "RECEIVE_MAXIMUM"         -> <<255, 255>>
                        [] p = "MAXIMUM_PACKET_SIZE"     -> <<255, 255, 255, 255>>
                        [] p = "TOPIC_ALIAS_MAXIMUM"     -> <<0, 0>>
                        [] p \in ByteProperties          -> <<0>>
                        [] OTHER                         -> <<>>],
     userProperties |-> <<>>, payload |-> [t \in ConfigPayloads |-> <<>>],
     lastTopic |-> <<>>, will |-> FreshWill(FALSE),
     willFlag |-> FALSE, passwordFlag |-> FALSE, userNameFlag |-> FALSE]

-------------------------------------------------------------------------------
(* What the decoders configure: the configuration left and the reason code. *)

\* A number that the code refuses, after it has stored it.
BadNumber(p, data) ==
    \/ p \in {"RECEIVE_MAXIMUM", "MAXIMUM_PACKET_SIZE"} /\ data = Zeros(FixedSize(p))
    \/ /\ p \in {"REQUEST_RESPONSE_INFORMATION", "REQUEST_PROBLEM_INFORMATION",
                 "PAYLOAD_FORMAT_INDICATOR"}
       /\ data[1] > 1

\* Mutant: a receive maximum of zero is accepted.
ConfigurePropriety_Zero(cfg, p, data) ==
    IF p = "USER_PROPERTY"
    THEN [cfg |-> [cfg EXCEPT !.userProperties = Append(@, data)], rcode |-> "SUCCESS"]
    ELSE IF p \in ConfigProperties
    THEN [cfg |-> [cfg EXCEPT !.property[p] = data], rcode |-> "SUCCESS"]
    ELSE [cfg |-> cfg, rcode |-> "PROTOCOL_ERROR"]

ConfigurePropriety(cfg, p, data) ==
    CASE p = "USER_PROPERTY" ->
            [cfg |-> [cfg EXCEPT !.userProperties = Append(@, data)], rcode |-> "SUCCESS"]
      [] p \in ConfigProperties /\ ~(p = "AUTHENTICATION_DATA"
                                     /\ cfg.property["AUTHENTICATION_METHOD"] = <<>>) ->
            [cfg   |-> [cfg EXCEPT !.property[p] = data],
             rcode |-> IF BadNumber(p, data) THEN "PROTOCOL_ERROR" ELSE "SUCCESS"]
      [] OTHER -> [cfg |-> cfg, rcode |-> "PROTOCOL_ERROR"]

ConfigureWillPropriety(cfg, p, data) ==
    CASE ~cfg.will.made -> [cfg |-> cfg, rcode |-> "MALFORMED_PACKET"]
      [] cfg.will.made /\ p = "USER_PROPERTY" ->
            [cfg   |-> [cfg EXCEPT !.will.userProperties = Append(@, data)],
             rcode |-> "SUCCESS"]
      [] cfg.will.made /\ p \in WillProperties ->
            [cfg   |-> [cfg EXCEPT !.will.property[p] = data],
             rcode |-> IF BadNumber(p, data) THEN "PROTOCOL_ERROR" ELSE "SUCCESS"]
      [] OTHER -> [cfg |-> cfg, rcode |-> "PROTOCOL_ERROR"]

\* A password asks for the will flag, not for the password flag.
PayloadExpected(cfg, t) ==
    CASE t \in {"WILL_TOPIC", "WILL_PAYLOAD", "PASSWORD"} -> cfg.willFlag
      [] t = "USER_NAME" -> cfg.userNameFlag
      [] OTHER           -> t = "CLIENT_ID"

ConfigurePayload(cfg, t, data) ==
    IF PayloadExpected(cfg, t)
    THEN [cfg |-> [cfg EXCEPT !.payload[t] = data], rcode |-> "SUCCESS"]
    ELSE [cfg |-> cfg, rcode |-> "PROTOCOL_ERROR"]

-------------------------------------------------------------------------------
(* What CONNACK carries. *)

\* Mutant: in the order of their identifiers.
ConnackProperties_Sorted ==
    <<"SESSION_EXPIRY_INTERVAL", "ASSIGNED_CLIENT_ID", "SERVER_KEEP_ALIVE",
      "AUTHENTICATION_METHOD", "AUTHENTICATION_DATA", "RESPONSE_INFORMATION",
      "SERVER_REFERENCE", "REASON_STRING", "RECEIVE_MAXIMUM", "TOPIC_ALIAS_MAXIMUM",
      "MAXIMUM_QOS", "RETAIN_AVAILABLE", "USER_PROPERTY", "MAXIMUM_PACKET_SIZE",
      "WILDCARD_SUBSCRIPTION_AVAILABLE", "SUBSCRIPTION_ID_AVAILABLE",
      "SHARED_SUBSCRIPTION_AVAILABLE">>

ConnackProperties ==
    <<"SESSION_EXPIRY_INTERVAL", "RECEIVE_MAXIMUM", "MAXIMUM_QOS", "RETAIN_AVAILABLE",
      "MAXIMUM_PACKET_SIZE", "ASSIGNED_CLIENT_ID", "TOPIC_ALIAS_MAXIMUM",
      "REASON_STRING", "USER_PROPERTY", "WILDCARD_SUBSCRIPTION_AVAILABLE",
      "SUBSCRIPTION_ID_AVAILABLE", "SHARED_SUBSCRIPTION_AVAILABLE",
      "SERVER_KEEP_ALIVE", "RESPONSE_INFORMATION", "SERVER_REFERENCE",
      "AUTHENTICATION_METHOD", "AUTHENTICATION_DATA">>

\* _reasonString is "Unspecified Error".
ReasonStringSize == 17

\* The bytes of the user properties up to the n-th, each string with its length.
PairBytes(pairs) ==
    LET upTo[n \in 0..Len(pairs)] ==
            IF n = 0 THEN 0
            ELSE upTo[n - 1] + Len(pairs[n][1]) + Len(pairs[n][2]) + 4
    IN upTo[Len(pairs)]

\* One identifier for all the user properties, also when there are none.
GetPropertySize(cfg, p) ==
    CASE IsPropertyFixed(p)       -> 1 + FixedSize(p)
      [] p = "ASSIGNED_CLIENT_ID" -> IF cfg.payload["CLIENT_ID"] = <<>> THEN 3 ELSE 0
      [] p = "REASON_STRING"      -> 3 + ReasonStringSize
      [] p = "USER_PROPERTY"      -> 1 + PairBytes(cfg.userProperties)
      [] OTHER                    -> 0

\* _reasonString is "Unspecified Error"; its letters tell nothing apart.
ReasonString == [i \in 1..ReasonStringSize |-> 69]

\* write_property_to_buffer for a string, and for a pair.
LengthBytes(s) == <<Len(s) \div 256, Len(s) % 256>>
StringBytes(s) == LengthBytes(s) \o s

\* Mutant: both lengths in front of both strings.
UserBytes_LengthsFirst(pairs) ==
    LET upTo[n \in 0..Len(pairs)] ==
            IF n = 0 THEN <<>>
            ELSE upTo[n - 1] \o LengthBytes(pairs[n][1]) \o LengthBytes(pairs[n][2])
                             \o pairs[n][1] \o pairs[n][2]
    IN upTo[Len(pairs)]

UserBytes(pairs) ==
    LET upTo[n \in 0..Len(pairs)] ==
            IF n = 0 THEN <<>>
            ELSE upTo[n - 1] \o StringBytes(pairs[n][1]) \o StringBytes(pairs[n][2])
    IN upTo[Len(pairs)]

\* What fill_property writes behind the identifier.  The last two properties are
\* given the byte of another one.
PropertyValue(cfg, keepAlive, p) ==
    CASE p \in {"SESSION_EXPIRY_INTERVAL", "RECEIVE_MAXIMUM", "MAXIMUM_PACKET_SIZE",
                "TOPIC_ALIAS_MAXIMUM"}     -> cfg.property[p]
      [] p = "SERVER_KEEP_ALIVE"           -> keepAlive
      [] p = "REASON_STRING"               -> StringBytes(ReasonString)
      [] p = "USER_PROPERTY"               -> UserBytes(cfg.userProperties)
      [] p \in {"RESPONSE_INFORMATION", "SERVER_REFERENCE"} ->
            cfg.property["REQUEST_RESPONSE_INFORMATION"]
      [] OTHER                             -> <<1>>

\* Nothing is written for a client id, as _assignedClientId is never set, nor for
\* authentication.  User properties share one identifier, also when there are none.
PropertyBytes(cfg, keepAlive, p) ==
    IF p \in {"ASSIGNED_CLIENT_ID", "AUTHENTICATION_METHOD", "AUTHENTICATION_DATA"} THEN <<>>
    ELSE <<Identifier[p]>> \o PropertyValue(cfg, keepAlive, p)

\* fill_property succeeds with left bytes to go.  Where the size is 0, left - 1
\* bytes, an unsigned number, have to hold one.
Fills(cfg, p, left) == /\ left >= GetPropertySize(cfg, p)
                       /\ p \in {"RESPONSE_INFORMATION", "SERVER_REFERENCE"} => left # 1
===============================================================================
