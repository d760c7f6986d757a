----------------------------- MODULE PropertyTypes -----------------------------
(***************************************************************************)
(* The properties and payloads of MQTT packets: their identifiers, the     *)
(* type of their data and the packets that may carry them (lmqtt_types.h). *)
(***************************************************************************)
EXTENDS Naturals

Byte == 0..255

ByteProperties ==
    {"PAYLOAD_FORMAT_INDICATOR", "REQUEST_PROBLEM_INFORMATION",
     "REQUEST_RESPONSE_INFORMATION", "MAXIMUM_QOS", "RETAIN_AVAILABLE",
     "WILDCARD_SUBSCRIPTION_AVAILABLE", "SUBSCRIPTION_ID_AVAILABLE",
     "SHARED_SUBSCRIPTION_AVAILABLE"}
TwoByteProperties ==
    {"SERVER_KEEP_ALIVE", "RECEIVE_MAXIMUM", "TOPIC_ALIAS_MAXIMUM", "TOPIC_ALIAS"}
FourByteProperties ==
    {"MESSAGE_EXPIRY_INTERVAL", "SESSION_EXPIRY_INTERVAL", "WILL_DELAY_INTERVAL",
     "MAXIMUM_PACKET_SIZE"}
StringProperties ==
    {"CONTENT_TYPE", "RESPONSE_TOPIC", "ASSIGNED_CLIENT_ID", "AUTHENTICATION_METHOD",
     "RESPONSE_INFORMATION", "SERVER_REFERENCE", "REASON_STRING"}
BinaryProperties == {"CORRELATION_DATA", "AUTHENTICATION_DATA"}

PropertyTypes == ByteProperties \union TwoByteProperties \union FourByteProperties
                 \union StringProperties \union BinaryProperties
                 \union {"SUBSCRIPTION_ID", "USER_PROPERTY"}

\* get_property_data_type
DataType(p) == CASE p \in ByteProperties     -> "BYTE"
                 [] p \in TwoByteProperties  -> "TWO_BYTES_INT"
                 [] p \in FourByteProperties -> "FOUR_BYTES_INT"
                 [] p \in StringProperties   -> "UTF8_STRING"
                 [] p \in BinaryProperties   -> "BINARY"
                 [] p = "SUBSCRIPTION_ID"    -> "VARIABLE_BYTE_INT"
                 [] p = "USER_PROPERTY"      -> "UTF8_STRING_PAIR"
                 [] OTHER                    -> "UNKNOWN"

\* is_property_fixed, and the width the enumerator of the data type stands for.
IsPropertyFixed(p) == p \in ByteProperties \union TwoByteProperties \union FourByteProperties
FixedSize(p) == IF p \in ByteProperties THEN 1 ELSE IF p \in TwoByteProperties THEN 2 ELSE 4

IsPropertyUnique(p) == p # "USER_PROPERTY"

Identifier ==
    [p \in PropertyTypes |->
        CASE p = "PAYLOAD_FORMAT_INDICATOR"        -> 1
          [] p = "MESSAGE_EXPIRY_INTERVAL"         -> 2
          [] p = "CONTENT_TYPE"                    -> 3
          [] p = "RESPONSE_TOPIC"                  -> 8
          [] p = "CORRELATION_DATA"                -> 9
          [] p = "SUBSCRIPTION_ID"                 -> 11
          [] p = "SESSION_EXPIRY_INTERVAL"         -> 17
          [] p = "ASSIGNED_CLIENT_ID"              -> 18
          [] p = "SERVER_KEEP_ALIVE"               -> 19
          [] p = "AUTHENTICATION_METHOD"           -> 21
          [] p = "AUTHENTICATION_DATA"             -> 22
          [] p = "REQUEST_PROBLEM_INFORMATION"     -> 23
          [] p = "WILL_DELAY_INTERVAL"             -> 24
          [] p = "REQUEST_RESPONSE_INFORMATION"    -> 25
          [] p = "RESPONSE_INFORMATION"            -> 26
          [] p = "SERVER_REFERENCE"                -> 28
          [] p = "REASON_STRING"                   -> 31
          [] p = "RECEIVE_MAXIMUM"                 -> 33
          [] p = "TOPIC_ALIAS_MAXIMUM"             -> 34
          [] p = "TOPIC_ALIAS"                     -> 35
          [] p = "MAXIMUM_QOS"                     -> 36
          [] p = "RETAIN_AVAILABLE"                -> 37
          [] p = "USER_PROPERTY"                   -> 38
          [] p = "MAXIMUM_PACKET_SIZE"             -> 39
          [] p = "WILDCARD_SUBSCRIPTION_AVAILABLE" -> 40
          [] p = "SUBSCRIPTION_ID_AVAILABLE"       -> 41
          [] p = "SHARED_SUBSCRIPTION_AVAILABLE"   -> 42]

\* The type a byte is cast to; a byte that names none is as good as UNKNOWN.
PropertyOf(b) == IF \E p \in PropertyTypes : Identifier[p] = b
                 THEN CHOOSE p \in PropertyTypes : Identifier[p] = b
                 ELSE "UNKNOWN"

InConnect == {"SESSION_EXPIRY_INTERVAL", "AUTHENTICATION_METHOD", "AUTHENTICATION_DATA",
              "REQUEST_PROBLEM_INFORMATION", "REQUEST_RESPONSE_INFORMATION",
              "RECEIVE_MAXIMUM", "TOPIC_ALIAS_MAXIMUM", "USER_PROPERTY",
              "MAXIMUM_PACKET_SIZE"}
InPublish == {"PAYLOAD_FORMAT_INDICATOR", "MESSAGE_EXPIRY_INTERVAL", "CONTENT_TYPE",
              "RESPONSE_TOPIC", "CORRELATION_DATA", "SUBSCRIPTION_ID", "TOPIC_ALIAS",
              "USER_PROPERTY"}

\* Mutant: the packet's type is not asked for.
ValidatePacketPropertyType_Any(p, type) == p \in InConnect \union InPublish

\* For the two packets whose properties are decoded.
ValidatePacketPropertyType(p, type) ==
    p \in (CASE type = "CONNECT" -> InConnect [] type = "PUBLISH" -> InPublish [] OTHER -> {})

PayloadTypes == <<"CLIENT_ID", "WILL_PROPERTIES", "WILL_TOPIC", "WILL_PAYLOAD",
                  "USER_NAME", "PASSWORD">>
PayloadTypeSet == {PayloadTypes[i] : i \in 1..6}
IsBinaryPayload(t) == t \in {"PASSWORD", "WILL_PAYLOAD"}
===============================================================================
