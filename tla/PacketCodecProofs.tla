--------------------------- MODULE PacketCodecProofs ---------------------------
(***************************************************************************)
(* Theorems about PacketCodec, for any packets, however long, and any      *)
(* notion of a well-formed string.                                         *)
(***************************************************************************)
EXTENDS PacketCodec, SetInduction, SequenceTheorems, TLAPS

-------------------------------------------------------------------------------
(* What the helpers return. *)

\* A slice of a body that does not reach behind its end is a string.
LEMMA Slice ==
    ASSUME NEW s \in Strings, NEW m \in Nat \ {0}, NEW n \in Int, n <= Len(s)
    PROVE  /\ SubSeq(s, m, n) \in Strings
           /\ Len(SubSeq(s, m, n)) = IF m <= n THEN n - m + 1 ELSE 0
<1>1. \A i \in m..n : s[i] \in Byte
  BY DEF Strings
<1> QED BY <1>1, SubSeqProperties DEF Strings

\* A length of two bytes, the string it announces and what is behind it.
LEMMA StringFits ==
    ASSUME NEW s \in Strings, HoldsString(s)
    PROVE  /\ Length(s) \in Nat /\ 2 + Length(s) <= Len(s)
           /\ StringOf(s) \in Strings
           /\ Behind(s) \in Strings /\ Len(Behind(s)) = Len(s) - 2 - Length(s)
<1>1. Len(s) \in Nat /\ Len(s) >= 2 /\ Len(s) >= 2 + Length(s)
  BY DEF HoldsString, Strings
<1>2. Length(s) \in Nat
  <2>1. \A i \in 1..Len(s) : s[i] \in Byte
    BY DEF Strings
  <2>2. s[1] \in 0..255 /\ s[2] \in 0..255
    BY <1>1, <2>1 DEF Byte
  <2> HIDE DEF Byte
  <2> DEFINE a == s[1]
             b == s[2]
  <2>3. a \in 0..255 /\ b \in 0..255 => a * 256 + b \in Nat
    <3> HIDE DEF a, b
    <3> QED OBVIOUS
  <2> QED BY <2>2, <2>3 DEF Length
<1>3. StringOf(s) \in Strings
  BY <1>2, Slice DEF HoldsString, StringOf
<1>4. Behind(s) \in Strings /\ Len(Behind(s)) = Len(s) - 2 - Length(s)
  BY <1>1, <1>2, Slice DEF HoldsString, Behind
<1> QED BY <1>2, <1>3, <1>4 DEF HoldsString

\* get_property_data moves the cursor over no more than what remains, and
\* returns data of the type of the property.
LEMMA PresentFits ==
    ASSUME NEW p, NEW s \in Strings, Present(p, s)
    PROVE  /\ SizeOf(p, s) \in Nat /\ SizeOf(p, s) <= Len(s)
           /\ DataOf(p, s) \in IF p = "USER_PROPERTY" THEN Pairs ELSE Strings
<1>1. CASE IsPropertyFixed(p)
  <2>0. DataType(p) \in {"BYTE", "TWO_BYTES_INT", "FOUR_BYTES_INT"}
    BY <1>1, Zenon DEF IsPropertyFixed, DataType, ByteProperties, TwoByteProperties,
                FourByteProperties, StringProperties, BinaryProperties
  <2>1. FixedSize(p) \in {1, 2, 4} /\ FixedSize(p) <= Len(s)
    <3>1. FixedSize(p) \in {1, 2, 4}
      BY DEF FixedSize
    <3>2. Present(p, s) <=> Len(s) >= FixedSize(p)
      BY <1>1, <2>0 DEF Present
    <3>3. Len(s) \in Nat
      BY DEF Strings
    <3> QED BY <3>1, <3>2, <3>3
  <2>2. SubSeq(s, 1, FixedSize(p)) \in Strings
    BY <2>1, Slice
  <2>3. p # "USER_PROPERTY"
    BY <1>1 DEF IsPropertyFixed, ByteProperties, TwoByteProperties, FourByteProperties
  <2>4. SizeOf(p, s) = FixedSize(p) /\ DataOf(p, s) = SubSeq(s, 1, FixedSize(p))
    BY <1>1, <2>0 DEF SizeOf, DataOf
  <2> QED BY <2>1, <2>2, <2>3, <2>4
<1>2. CASE p = "USER_PROPERTY"
  <2>1. ~IsPropertyFixed(p) /\ DataType(p) = "UTF8_STRING_PAIR"
    BY <1>2 DEF IsPropertyFixed, DataType, ByteProperties, TwoByteProperties,
                FourByteProperties, StringProperties, BinaryProperties
  <2>2. HoldsString(s) /\ HoldsString(Behind(s))
    BY <2>1 DEF Present, IsString
  <2>3. Behind(s) \in Strings /\ Len(Behind(s)) = Len(s) - 2 - Length(s)
        /\ Length(s) \in Nat /\ StringOf(s) \in Strings
    BY <2>2, StringFits
  <2>4. Length(Behind(s)) \in Nat /\ 2 + Length(Behind(s)) <= Len(Behind(s))
        /\ StringOf(Behind(s)) \in Strings
    BY <2>2, <2>3, StringFits
  <2>5. Len(s) \in Nat
    BY DEF Strings
  <2> QED BY <1>2, <2>1, <2>3, <2>4, <2>5 DEF SizeOf, DataOf, Pairs
<1>3. CASE ~IsPropertyFixed(p) /\ p # "USER_PROPERTY"
  <2>1. DataType(p) # "UTF8_STRING_PAIR"
    BY <1>3 DEF DataType, IsPropertyFixed
  <2>2. HoldsString(s)
    BY <1>3, <2>1 DEF Present, IsString
  <2> QED BY <1>3, <2>1, <2>2, StringFits DEF SizeOf, DataOf
<1> QED BY <1>1, <1>2, <1>3

\* The loop of decode_variable_int has a last round.
LEMMA OffsetFits ==
    ASSUME NEW buf \in Strings
    PROVE  /\ Offset(buf) \in 0..4
           /\ \A i \in 1..Offset(buf) : Continues(buf, i)
           /\ Offset(buf) < 4 => ~Continues(buf, Offset(buf) + 1)
<1> DEFINE Last(n) == (\A i \in 1..n : Continues(buf, i)) /\ (n < 4 => ~Continues(buf, n + 1))
<1>1. \E n \in 0..4 : Last(n)
  <2>1. CASE ~Continues(buf, 1)
    <3> SUFFICES Last(0) OBVIOUS
    <3> QED BY <2>1
  <2>2. CASE Continues(buf, 1) /\ ~Continues(buf, 2)
    <3> SUFFICES Last(1) OBVIOUS
    <3> QED BY <2>2
  <2>3. CASE Continues(buf, 1) /\ Continues(buf, 2) /\ ~Continues(buf, 3)
    <3> SUFFICES Last(2) OBVIOUS
    <3> QED BY <2>3
  <2>4. CASE Continues(buf, 1) /\ Continues(buf, 2) /\ Continues(buf, 3) /\ ~Continues(buf, 4)
    <3> SUFFICES Last(3) OBVIOUS
    <3> QED BY <2>4
  <2>5. CASE \A i \in 1..4 : Continues(buf, i)
    <3> SUFFICES Last(4) OBVIOUS
    <3> QED BY <2>5
  <2> QED BY <2>1, <2>2, <2>3, <2>4, <2>5
<1>2. Offset(buf) = CHOOSE n \in 0..4 : Last(n)
  BY DEF Offset
<1>3. Offset(buf) \in 0..4 /\ Last(Offset(buf))
  BY <1>1, <1>2
<1> QED BY <1>3

\* A variable-length integer is a number, and the cursor stays in the buffer.
LEMMA VariableIntFits ==
    ASSUME NEW buf \in Strings
    PROVE  /\ DecodeVariableInt(buf).offset \in 0..4
           /\ DecodeVariableInt(buf).value \in Nat
           /\ DecodeVariableInt(buf).ok => DecodeVariableInt(buf).offset <= Len(buf)
<1> DEFINE n == Offset(buf)
           Term(i) == IF i <= n + 1 THEN (buf[i] % 128) * Mul[i] ELSE 0
           ok == n = 4 \/ n < Len(buf)
<1>1. n \in 0..4 /\ (\A i \in 1..n : Continues(buf, i)) /\ Len(buf) \in Nat
  BY OffsetFits DEF Strings
<1>2. n <= Len(buf)
  BY <1>1 DEF Continues
<1>3. ASSUME ok, NEW i \in 1..4 PROVE Term(i) \in Nat
  <2>1. CASE i <= n + 1
    <3>1. i \in 1..Len(buf)
      BY <1>1, <1>2, <1>3, <2>1
    <3>2. buf[i] \in 0..255
      <4>1. \A j \in 1..Len(buf) : buf[j] \in Byte
        BY DEF Strings
      <4> QED BY <3>1, <4>1 DEF Byte
    <3>3. Mul = <<1, 128, 0, 0>>
      BY DEF Mul, Times128
    <3>4. Mul[i] \in {0, 1, 128}
      BY <3>3
    <3> QED BY <2>1, <3>2, <3>4
  <2> QED BY <2>1
<1>4. DecodeVariableInt(buf) =
        [ok |-> ok, offset |-> n,
         value |-> IF ok THEN Term(1) + Term(2) + Term(3) + Term(4) ELSE 0]
  BY DEF DecodeVariableInt
<1>5. ok => Term(1) \in Nat /\ Term(2) \in Nat /\ Term(3) \in Nat /\ Term(4) \in Nat
  BY <1>3
<1> HIDE DEF Term, n
<1> QED BY <1>1, <1>2, <1>4, <1>5

-------------------------------------------------------------------------------
(* The invariant. *)

\* The caller of decode_properties goes on behind the properties, but for
\* decode_publish_packet_body, which has neither payloads nor a will.
Callers == /\ phase = "properties" /\ type # "PUBLISH" => resume = stop
           /\ phase = "payload" => type = "CONNECT"
           /\ phase = "properties" /\ type = "PUBLISH" => ~will
           /\ phase = "properties" => type \in {"CONNECT", "PUBLISH"}
           /\ phase = "properties" /\ will => slot <= 6

DecoderInv == DecoderTypeOK /\ CursorInside /\ Callers /\ LiveLimits

\* The bytes that remain in the body, or up to the end of the properties.
LEMMA Remaining ==
    ASSUME DecoderInv
    PROVE  /\ Len(body) \in Nat
           /\ \A n \in Nat : /\ From(n) \in Strings
                             /\ n <= Len(body) => Len(From(n)) = Len(body) - n
           /\ phase = "properties" /\ pos # stop =>
                 /\ Between(pos + 1, stop) \in Strings
                 /\ Len(Between(pos + 1, stop)) = stop - pos - 1
<1>1. body \in Strings /\ Len(body) \in Nat /\ pos \in Nat /\ stop \in Nat
  BY DEF DecoderInv, DecoderTypeOK, Strings
<1>2. ASSUME NEW n \in Nat
      PROVE  From(n) \in Strings /\ (n <= Len(body) => Len(From(n)) = Len(body) - n)
  BY <1>1, Slice DEF From
<1>3. ASSUME phase = "properties", pos # stop
      PROVE  /\ Between(pos + 1, stop) \in Strings
             /\ Len(Between(pos + 1, stop)) = stop - pos - 1
  <2>1. pos < stop /\ stop <= Len(body)
    BY <1>1, <1>3 DEF DecoderInv, CursorInside
  <2> QED BY <1>1, <2>1, Slice DEF Between
<1> QED BY <1>1, <1>2, <1>3

\* Configuring a property keeps the types, and stores no illegal number unless
\* it says so.
LEMMA Configures ==
    ASSUME NEW c \in ClientConfigs, NEW p,
           NEW data \in IF p = "USER_PROPERTY" THEN Pairs ELSE Strings
    PROVE  /\ ConfigurePropriety(c, p, data).cfg \in ClientConfigs
           /\ ConfigurePropriety(c, p, data).rcode \in ReasonCodes
           /\ ConfigurePropriety(c, p, data).rcode = "SUCCESS" =>
                 \A q \in ConfigProperties :
                    BadNumber(q, ConfigurePropriety(c, p, data).cfg.property[q])
                    => BadNumber(q, c.property[q])
           /\ p \in InPublish =>
                 ConfigurePropriety(c, p, data).cfg
                    = [c EXCEPT !.userProperties =
                          ConfigurePropriety(c, p, data).cfg.userProperties]
<1>1. CASE p = "USER_PROPERTY"
  <2>1. Append(c.userProperties, data) \in Seq(Pairs)
    BY <1>1, AppendProperties DEF ClientConfigs
  <2>2. ConfigurePropriety(c, p, data)
          = [cfg |-> [c EXCEPT !.userProperties = Append(@, data)], rcode |-> "SUCCESS"]
    BY <1>1 DEF ConfigurePropriety, ConfigProperties
  <2>3. [c EXCEPT !.userProperties = Append(@, data)] \in ClientConfigs
    BY <2>1 DEF ClientConfigs
  <2>4. /\ [c EXCEPT !.userProperties = Append(@, data)].property = c.property
        /\ [c EXCEPT !.userProperties = Append(@, data)].userProperties
              = Append(c.userProperties, data)
    BY DEF ClientConfigs
  <2>5. /\ ConfigurePropriety(c, p, data).cfg = [c EXCEPT !.userProperties = Append(@, data)]
        /\ ConfigurePropriety(c, p, data).rcode = "SUCCESS"
    BY <2>2
  <2> QED BY <2>3, <2>4, <2>5 DEF ReasonCodes
<1>2. CASE p \in ConfigProperties /\ ~(p = "AUTHENTICATION_DATA"
                                      /\ c.property["AUTHENTICATION_METHOD"] = <<>>)
  <2>1. p # "USER_PROPERTY" /\ p \notin InPublish
    BY <1>2 DEF ConfigProperties, InConnect, InPublish
  <2>2. ConfigurePropriety(c, p, data)
          = [cfg   |-> [c EXCEPT !.property[p] = data],
             rcode |-> IF BadNumber(p, data) THEN "PROTOCOL_ERROR" ELSE "SUCCESS"]
    BY <1>2, <2>1 DEF ConfigurePropriety
  <2>3. [c EXCEPT !.property[p] = data] \in ClientConfigs
    BY <1>2, <2>1 DEF ClientConfigs
  <2>4. \A q \in ConfigProperties :
           [c EXCEPT !.property[p] = data].property[q] = IF q = p THEN data ELSE c.property[q]
    BY <1>2 DEF ClientConfigs
  <2>5. /\ ConfigurePropriety(c, p, data).cfg = [c EXCEPT !.property[p] = data]
        /\ ConfigurePropriety(c, p, data).rcode
              = IF BadNumber(p, data) THEN "PROTOCOL_ERROR" ELSE "SUCCESS"
    BY <2>2
  <2> QED BY <2>1, <2>3, <2>4, <2>5 DEF ReasonCodes
<1>3. CASE p # "USER_PROPERTY" /\ ~(p \in ConfigProperties
                                   /\ ~(p = "AUTHENTICATION_DATA"
                                        /\ c.property["AUTHENTICATION_METHOD"] = <<>>))
  <2>1. ConfigurePropriety(c, p, data) = [cfg |-> c, rcode |-> "PROTOCOL_ERROR"]
    BY <1>3 DEF ConfigurePropriety
  <2> QED BY <2>1 DEF ReasonCodes, ClientConfigs
<1> QED BY <1>1, <1>2, <1>3

\* A change of the will is no change of the properties.
LEMMA OnlyWill ==
    ASSUME NEW c \in ClientConfigs, NEW w \in WillConfigs
    PROVE  [c EXCEPT !.will = w] \in ClientConfigs /\ [c EXCEPT !.will = w].property = c.property
  BY DEF ClientConfigs

\* Configuring a property of the will touches nothing but the will.
LEMMA ConfiguresWill ==
    ASSUME NEW c \in ClientConfigs, NEW p,
           NEW data \in IF p = "USER_PROPERTY" THEN Pairs ELSE Strings
    PROVE  /\ ConfigureWillPropriety(c, p, data).cfg \in ClientConfigs
           /\ ConfigureWillPropriety(c, p, data).rcode \in ReasonCodes
           /\ ConfigureWillPropriety(c, p, data).cfg.property = c.property
<1>1. CASE ~c.will.made
  <2>1. ConfigureWillPropriety(c, p, data) = [cfg |-> c, rcode |-> "MALFORMED_PACKET"]
    BY <1>1 DEF ConfigureWillPropriety
  <2> QED BY <2>1 DEF ReasonCodes
<1>2. CASE c.will.made /\ p = "USER_PROPERTY"
  <2>1. Append(c.will.userProperties, data) \in Seq(Pairs)
    BY <1>2, AppendProperties DEF ClientConfigs, WillConfigs
  <2>2. ConfigureWillPropriety(c, p, data)
          = [cfg |-> [c EXCEPT !.will.userProperties = Append(@, data)], rcode |-> "SUCCESS"]
    BY <1>2 DEF ConfigureWillPropriety, WillProperties
  <2>3. [c.will EXCEPT !.userProperties = Append(@, data)] \in WillConfigs
    BY <2>1 DEF ClientConfigs, WillConfigs
  <2>4. /\ ConfigureWillPropriety(c, p, data).cfg
              = [c EXCEPT !.will = [c.will EXCEPT !.userProperties = Append(@, data)]]
        /\ ConfigureWillPropriety(c, p, data).rcode = "SUCCESS"
    BY <2>2 DEF ClientConfigs
  <2> QED BY <2>3, <2>4, OnlyWill DEF ReasonCodes
<1>3. CASE c.will.made /\ p \in WillProperties
  <2>1. p # "USER_PROPERTY"
    BY <1>3 DEF WillProperties
  <2>2. ConfigureWillPropriety(c, p, data)
          = [cfg   |-> [c EXCEPT !.will.property[p] = data],
             rcode |-> IF BadNumber(p, data) THEN "PROTOCOL_ERROR" ELSE "SUCCESS"]
    BY <1>3, <2>1 DEF ConfigureWillPropriety
  <2>3. [c.will EXCEPT !.property[p] = data] \in WillConfigs
    BY <1>3, <2>1 DEF ClientConfigs, WillConfigs
  <2>4. /\ ConfigureWillPropriety(c, p, data).cfg
              = [c EXCEPT !.will = [c.will EXCEPT !.property[p] = data]]
        /\ ConfigureWillPropriety(c, p, data).rcode
              = IF BadNumber(p, data) THEN "PROTOCOL_ERROR" ELSE "SUCCESS"
    BY <2>2 DEF ClientConfigs
  <2> QED BY <2>3, <2>4, OnlyWill DEF ReasonCodes
<1>4. CASE c.will.made /\ p # "USER_PROPERTY" /\ p \notin WillProperties
  <2>1. ConfigureWillPropriety(c, p, data) = [cfg |-> c, rcode |-> "PROTOCOL_ERROR"]
    BY <1>4 DEF ConfigureWillPropriety
  <2> QED BY <2>1 DEF ReasonCodes
<1> QED BY <1>1, <1>2, <1>3, <1>4

-------------------------------------------------------------------------------
(* The initial state, and one step for each action. *)

LEMMA DefaultIsLegal ==
    /\ DefaultConfig \in ClientConfigs
    /\ \A p \in ConfigProperties : ~BadNumber(p, DefaultConfig.property[p])
    /\ FreshWill(TRUE) \in WillConfigs
<1>1. \A n \in {1, 2, 4} : Zeros(n) \in Strings
  BY DEF Zeros, Strings, Byte
<1>2. /\ <<>> \in Strings /\ <<>> \in Seq(Pairs) /\ <<0>> \in Strings /\ <<0, 0>> \in Strings
      /\ <<255, 255>> \in Strings /\ <<255, 255, 255, 255>> \in Strings
      /\ <<170, 187, 204, 221>> \in Strings
  BY DEF Strings, Byte
<1>3. ASSUME NEW b \in BOOLEAN PROVE FreshWill(b) \in WillConfigs
  <2>1. \A p : FixedSize(p) \in {1, 2, 4}
    BY DEF FixedSize
  <2>2. \A p : (IF IsPropertyFixed(p) THEN Zeros(FixedSize(p)) ELSE <<>>) \in Strings
    BY <1>1, <1>2, <2>1
  <2> QED BY <1>2, <2>2 DEF FreshWill, WillConfigs
<1> DEFINE f(p) == CASE p = "SESSION_EXPIRY_INTERVAL" -> <<170, 187, 204, 221>>
                     [] p = "RECEIVE_MAXIMUM"         -> <<255, 255>>
                     [] p = "MAXIMUM_PACKET_SIZE"     -> <<255, 255, 255, 255>>
                     [] p = "TOPIC_ALIAS_MAXIMUM"     -> <<0, 0>>
                     [] p \in ByteProperties          -> <<0>>
                     [] OTHER                         -> <<>>
<1>4. \A p \in ConfigProperties : f(p) \in Strings
  <2>1. TAKE p \in ConfigProperties
  <2> QED BY <1>2 DEF ByteProperties
<1>5. DefaultConfig.property = [p \in ConfigProperties |-> f(p)]
  BY DEF DefaultConfig
<1>6. DefaultConfig \in ClientConfigs
  <2> HIDE DEF f
  <2>1. [p \in ConfigProperties |-> f(p)] \in [ConfigProperties -> Strings]
    BY <1>4
  <2>2. [t \in ConfigPayloads |-> <<>>] \in [ConfigPayloads -> Strings]
    BY <1>2
  <2> QED BY <1>2, <1>3, <2>1, <2>2 DEF f, DefaultConfig, ClientConfigs
<1>7. ASSUME NEW p \in ConfigProperties PROVE ~BadNumber(p, DefaultConfig.property[p])
  <2>1. DefaultConfig.property[p] = f(p)
    BY <1>5
  <2>2. f("RECEIVE_MAXIMUM") = <<255, 255>> /\ f("MAXIMUM_PACKET_SIZE") = <<255, 255, 255, 255>>
    BY DEF ByteProperties
  <2>3. p \in {"REQUEST_RESPONSE_INFORMATION", "REQUEST_PROBLEM_INFORMATION"} => f(p) = <<0>>
    BY DEF ByteProperties
  <2>4. p # "PAYLOAD_FORMAT_INDICATOR"
    BY DEF ConfigProperties, InConnect
  <2>5. f(p) # Zeros(FixedSize(p)) \/ p \notin {"RECEIVE_MAXIMUM", "MAXIMUM_PACKET_SIZE"}
    <3>1. \A n \in {1, 2, 4} : Zeros(n)[1] = 0
      BY DEF Zeros
    <3>2. FixedSize(p) \in {1, 2, 4}
      BY DEF FixedSize
    <3>3. <<255, 255>>[1] = 255 /\ <<255, 255, 255, 255>>[1] = 255
      OBVIOUS
    <3> HIDE DEF f
    <3> QED BY <2>2, <3>1, <3>2, <3>3
  <2> HIDE DEF f
  <2> QED BY <2>1, <2>3, <2>4, <2>5 DEF BadNumber
<1> QED BY <1>3, <1>6, <1>7

LEMMA InitHolds == Init => DecoderInv
<1> SUFFICES ASSUME Init PROVE DecoderInv
  OBVIOUS
<1>1. DecoderTypeOK
  <2>1. <<>> \in Strings
    BY DEF Strings
  <2>2. {"CLIENT_ID"} \subseteq PayloadTypeSet
    BY DEF PayloadTypeSet, PayloadTypes
  <2>3. will \in BOOLEAN
    BY DEF Init
  <2>4. received \in 0..MaxPackets
    BY MaxPacketsAssumption DEF Init
  <2> QED BY <2>1, <2>2, <2>3, <2>4, DefaultIsLegal
          DEF Init, DecoderTypeOK, Phases, DecodedTypes, ReasonCodes
<1>2. CursorInside /\ Callers
  BY DEF Init, CursorInside, Callers
<1>3. LiveLimits
  BY DefaultIsLegal DEF Init, LiveLimits
<1> QED BY <1>1, <1>2, <1>3 DEF DecoderInv

\* Steps that leave the configuration alone and do not enter a loop.
LEMMA ReceiveKeeps == ASSUME DecoderInv, Receive PROVE DecoderInv'
<1>1. DecoderTypeOK'
  BY PacketsAssumption, MaxPacketsAssumption
  DEF DecoderInv, Receive, DecoderTypeOK, Phases, cursor, out
<1>2. CursorInside' /\ Callers'
  BY DEF Receive, CursorInside, Callers
<1>3. LiveLimits'
  BY DEF DecoderInv, Receive, LiveLimits
<1> QED BY <1>1, <1>2, <1>3 DEF DecoderInv

\* A refusal keeps whatever configuration of the right types it leaves.
LEMMA RefuseKeeps ==
    ASSUME DecoderInv, NEW code \in ReasonCodes, Refuse(code), cfg' \in ClientConfigs
    PROVE  DecoderInv'
<1>1. DecoderTypeOK'
  BY DEF DecoderInv, Refuse, DecoderTypeOK, Phases, packet, cursor
<1>2. CursorInside' /\ Callers' /\ LiveLimits'
  BY DEF Refuse, CursorInside, Callers, LiveLimits
<1> QED BY <1>1, <1>2 DEF DecoderInv

LEMMA DecodeConnectKeeps == ASSUME DecoderInv, DecodeConnect PROVE DecoderInv'
<1> DEFINE d == DecodeVariableInt(From(10))
           w == WithFlags(body[8])
<1>1. Len(body) >= 13 /\ d.ok /\ Holds(PropertiesStart, d.value)
  BY DEF DecodeConnect, ConnectCode
<1>2. From(10) \in Strings /\ Len(body) \in Nat
  BY Remaining
<1>3. d.offset \in 0..4 /\ d.value \in Nat
  BY <1>2, VariableIntFits
<1>4. PropertiesStart \in Nat /\ PropertiesStart = 11 + d.offset
  BY <1>3 DEF PropertiesStart
<1>5. w \in ClientConfigs /\ w.property = cfg.property
  <2>1. cfg \in ClientConfigs
    BY DEF DecoderInv, DecoderTypeOK
  <2>2. \A n : Bit(body[8], n) \in BOOLEAN
    BY DEF Bit
  <2>3. <<>> \in Strings
    BY DEF Strings
  <2>4. [cfg.payload EXCEPT !["WILL_TOPIC"] = <<>>, !["WILL_PAYLOAD"] = <<>>]
           \in [ConfigPayloads -> Strings]
    BY <2>1, <2>3 DEF ClientConfigs
  <2> HIDE DEF w
  <2> QED BY <2>1, <2>2, <2>4, DefaultIsLegal DEF w, WithFlags, ClientConfigs
<1>6. Announced(body[8]) \subseteq PayloadTypeSet
  <2>1. {"WILL_PROPERTIES", "WILL_TOPIC", "WILL_PAYLOAD", "PASSWORD", "USER_NAME"}
           \subseteq PayloadTypeSet
    BY DEF PayloadTypeSet, PayloadTypes
  <2> QED BY <2>1 DEF Announced
<1>7. /\ phase = "header" /\ type = "CONNECT" /\ phase' = "properties" /\ seen' = {}
      /\ will' = FALSE /\ pos' = PropertiesStart /\ stop' = PropertiesStart + d.value
      /\ resume' = PropertiesStart + d.value
      /\ wanted' = wanted \union Announced(body[8]) /\ cfg' = w
      /\ UNCHANGED <<type, body, slot, rcode, received>>
  BY DEF DecodeConnect, EnterProperties, packet
<1> HIDE DEF d, w
<1>8. DecoderTypeOK'
  <2>1. will' \in BOOLEAN /\ phase' \in Phases
    BY <1>7 DEF Phases
  <2>2. pos' \in Nat /\ stop' \in Nat /\ resume' \in Nat /\ seen' \subseteq PropertyTypes
    BY <1>3, <1>4, <1>7
  <2>3. wanted' \subseteq PayloadTypeSet
    BY <1>6, <1>7 DEF DecoderInv, DecoderTypeOK
  <2> QED BY <1>5, <1>7, <2>1, <2>2, <2>3 DEF DecoderInv, DecoderTypeOK
<1>9. CursorInside' /\ Callers'
  BY <1>1, <1>2, <1>3, <1>4, <1>7 DEF Holds, CursorInside, Callers
<1>10. LiveLimits'
  BY <1>5, <1>7 DEF DecoderInv, LiveLimits
<1> QED BY <1>8, <1>9, <1>10 DEF DecoderInv

LEMMA RefuseConnectKeeps == ASSUME DecoderInv, RefuseConnect PROVE DecoderInv'
<1>1. PICK g \in Leftover : Refuse(ConnectCode(g)) /\ cfg' = cfg
  BY DEF RefuseConnect
<1>2. ConnectCode(g) \in ReasonCodes
  BY DEF ConnectCode, ReasonCodes
<1> QED BY <1>1, <1>2, RefuseKeeps DEF DecoderInv, DecoderTypeOK

\* A property that is not refused lies in front of stop, and what is configured
\* of it has the right types.
LEMMA DecodedProperty ==
    ASSUME DecoderInv, phase = "properties", pos # stop, NEW p,
           PropertyCode(p, Between(pos + 1, stop)) = "SUCCESS"
    PROVE  LET s == Between(pos + 1, stop)
               c == Configured(p, s)
           IN /\ SizeOf(p, s) \in Nat /\ pos + 1 + SizeOf(p, s) <= stop
              /\ p \in PropertyTypes
              /\ c.cfg \in ClientConfigs /\ c.rcode \in ReasonCodes
              /\ c.rcode = "SUCCESS" =>
                    \A q \in ConfigProperties :
                       BadNumber(q, c.cfg.property[q]) => BadNumber(q, cfg.property[q])
              /\ type = "PUBLISH" =>
                    c.cfg = [cfg EXCEPT !.userProperties = c.cfg.userProperties]
<1> DEFINE s == Between(pos + 1, stop)
           data == DataOf(p, s)
           c == Configured(p, s)
<1>1. s \in Strings /\ Len(s) = stop - pos - 1
  BY Remaining
<1>2. ValidatePacketPropertyType(p, type) /\ Present(p, s)
  BY DEF PropertyCode
<1>3. SizeOf(p, s) \in Nat /\ SizeOf(p, s) <= Len(s)
      /\ data \in IF p = "USER_PROPERTY" THEN Pairs ELSE Strings
  BY <1>1, <1>2, PresentFits
<1>4. pos + 1 + SizeOf(p, s) <= stop
  <2>1. pos \in Nat /\ stop \in Nat
    BY DEF DecoderInv, DecoderTypeOK
  <2> HIDE DEF s
  <2> QED BY <1>1, <1>3, <2>1
<1>5. p \in PropertyTypes
  BY <1>2 DEF ValidatePacketPropertyType, InConnect, InPublish, PropertyTypes,
              ByteProperties, TwoByteProperties, FourByteProperties, StringProperties,
              BinaryProperties
<1>6. cfg \in ClientConfigs /\ (type = "PUBLISH" => ~will)
  BY DEF DecoderInv, DecoderTypeOK, Callers
<1>7. type = "PUBLISH" => p \in InPublish
  BY <1>2 DEF ValidatePacketPropertyType
<1> HIDE DEF s, data
<1>8. CASE will
  <2>1. c = ConfigureWillPropriety(cfg, p, data)
    BY <1>8 DEF Configured, data
  <2> HIDE DEF c
  <2>2. c.cfg \in ClientConfigs /\ c.rcode \in ReasonCodes /\ c.cfg.property = cfg.property
    BY <1>3, <1>6, <2>1, ConfiguresWill
  <2> QED BY <1>3, <1>4, <1>5, <1>6, <1>8, <2>2 DEF c, s
<1>9. CASE ~will
  <2>1. c = ConfigurePropriety(cfg, p, data)
    BY <1>9 DEF Configured, data
  <2> HIDE DEF c
  <2>2. /\ c.cfg \in ClientConfigs /\ c.rcode \in ReasonCodes
        /\ c.rcode = "SUCCESS" =>
              \A q \in ConfigProperties :
                 BadNumber(q, c.cfg.property[q]) => BadNumber(q, cfg.property[q])
        /\ p \in InPublish => c.cfg = [cfg EXCEPT !.userProperties = c.cfg.userProperties]
    BY <1>3, <1>6, <2>1, Configures
  <2> QED BY <1>3, <1>4, <1>5, <1>7, <2>2 DEF c, s
<1> QED BY <1>8, <1>9

LEMMA ReadPropertyKeeps == ASSUME DecoderInv, ReadProperty PROVE DecoderInv'
<1> DEFINE p == PropertyOf(body[pos + 1])
           s == Between(pos + 1, stop)
           c == Configured(p, s)
<1>1. /\ phase = "properties" /\ pos # stop /\ PropertyCode(p, s) = "SUCCESS"
      /\ c.rcode = "SUCCESS" /\ cfg' = c.cfg /\ pos' = pos + 1 + SizeOf(p, s)
      /\ seen' = IF IsPropertyUnique(p) THEN seen \union {p} ELSE seen
      /\ UNCHANGED <<phase, type, body, stop, resume, will, slot, wanted, rcode, received>>
  BY DEF ReadProperty, packet
<1>2. /\ SizeOf(p, s) \in Nat /\ pos + 1 + SizeOf(p, s) <= stop /\ p \in PropertyTypes
      /\ c.cfg \in ClientConfigs
      /\ \A q \in ConfigProperties :
            BadNumber(q, c.cfg.property[q]) => BadNumber(q, cfg.property[q])
  BY <1>1, DecodedProperty
<1> HIDE DEF p, s, c
<1>3. DecoderTypeOK'
  <2>1. seen' \subseteq PropertyTypes
    BY <1>1, <1>2 DEF DecoderInv, DecoderTypeOK
  <2>2. pos' \in Nat /\ cfg' \in ClientConfigs
    BY <1>1, <1>2 DEF DecoderInv, DecoderTypeOK
  <2> QED BY <1>1, <2>1, <2>2 DEF DecoderInv, DecoderTypeOK
<1>4. CursorInside' /\ Callers'
  BY <1>1, <1>2 DEF DecoderInv, CursorInside, Callers
<1>5. LiveLimits'
  BY <1>1, <1>2 DEF DecoderInv, LiveLimits
<1> QED BY <1>3, <1>4, <1>5 DEF DecoderInv

LEMMA RefusePropertyKeeps == ASSUME DecoderInv, RefuseProperty PROVE DecoderInv'
<1> DEFINE p == PropertyOf(body[pos + 1])
           s == Between(pos + 1, stop)
           c == Configured(p, s)
           code == PropertyCode(p, s)
<1>1. /\ phase = "properties" /\ pos # stop
      /\ \/ code # "SUCCESS" /\ cfg' = cfg /\ rcode' = code
         \/ code = "SUCCESS" /\ cfg' = c.cfg /\ rcode' = c.rcode
      /\ IF type = "PUBLISH" THEN phase' = "message" /\ pos' = resume
                             ELSE phase' = "closed" /\ pos' = pos
      /\ UNCHANGED <<type, body, stop, resume, will, seen, slot, wanted, received>>
  BY DEF RefuseProperty, packet
<1>2. code \in ReasonCodes
  BY DEF PropertyCode, ReasonCodes
<1>3. code = "SUCCESS" =>
         /\ c.cfg \in ClientConfigs /\ c.rcode \in ReasonCodes
         /\ type = "PUBLISH" => c.cfg = [cfg EXCEPT !.userProperties = c.cfg.userProperties]
  BY <1>1, DecodedProperty
<1> HIDE DEF p, s, c, code
<1>4. DecoderTypeOK'
  <2>1. cfg' \in ClientConfigs /\ rcode' \in ReasonCodes
    BY <1>1, <1>2, <1>3 DEF DecoderInv, DecoderTypeOK
  <2>2. phase' \in Phases /\ pos' \in Nat
    BY <1>1 DEF DecoderInv, DecoderTypeOK, Phases
  <2> QED BY <1>1, <2>1, <2>2 DEF DecoderInv, DecoderTypeOK
<1>5. CursorInside' /\ Callers'
  BY <1>1 DEF CursorInside, Callers
<1>6. LiveLimits'
  <2>1. type = "PUBLISH" => cfg'.property = cfg.property
    BY <1>1, <1>3 DEF DecoderInv, DecoderTypeOK, ClientConfigs
  <2> QED BY <1>1, <2>1 DEF DecoderInv, LiveLimits
<1> QED BY <1>4, <1>5, <1>6 DEF DecoderInv

LEMMA EndPropertiesKeeps == ASSUME DecoderInv, EndProperties PROVE DecoderInv'
<1>1. /\ phase = "properties" /\ pos = stop /\ pos' = resume
      /\ phase' = IF type = "PUBLISH" THEN "message" ELSE "payload"
      /\ slot' = IF will THEN slot + 1 ELSE 1
      /\ UNCHANGED <<type, body, stop, resume, will, seen, wanted, cfg, rcode, received>>
  BY DEF EndProperties, packet
<1>2. DecoderTypeOK'
  <2>1. phase' \in Phases /\ pos' \in Nat
    BY <1>1 DEF DecoderInv, DecoderTypeOK, Phases
  <2>2. slot' \in 1..7
    BY <1>1 DEF DecoderInv, DecoderTypeOK, Callers
  <2> QED BY <1>1, <2>1, <2>2 DEF DecoderInv, DecoderTypeOK
<1>3. CursorInside' /\ Callers'
  BY <1>1 DEF DecoderInv, CursorInside, Callers
<1>4. LiveLimits'
  BY <1>1 DEF DecoderInv, LiveLimits
<1> QED BY <1>2, <1>3, <1>4 DEF DecoderInv

\* Steps from one phase to another that neither move the cursor into a loop nor
\* touch the configuration.
LEMMA PhaseKeeps ==
    ASSUME DecoderInv, phase # "closed", phase' \in Phases \ {"properties", "payload"},
           rcode' \in ReasonCodes,
           UNCHANGED <<packet, cursor, wanted, cfg, received>>
    PROVE  DecoderInv'
<1>1. DecoderTypeOK'
  BY DEF DecoderInv, DecoderTypeOK, packet, cursor
<1>2. CursorInside' /\ Callers' /\ LiveLimits'
  BY DEF DecoderInv, CursorInside, Callers, LiveLimits
<1> QED BY <1>1, <1>2 DEF DecoderInv

LEMMA EndPayloadKeeps == ASSUME DecoderInv, EndPayload PROVE DecoderInv'
<1>1. rcode' \in ReasonCodes
  BY DEF EndPayload, DecoderInv, DecoderTypeOK
<1> QED BY <1>1, PhaseKeeps DEF EndPayload, Phases

LEMMA SkipPayloadKeeps == ASSUME DecoderInv, SkipPayload PROVE DecoderInv'
<1>1. /\ phase = "payload" /\ slot <= 6 /\ slot' = slot + 1
      /\ UNCHANGED <<phase, type, body, pos, stop, resume, will, seen, wanted, cfg, rcode,
                     received>>
  BY DEF SkipPayload, AtPayload, packet
<1>2. DecoderTypeOK'
  BY <1>1 DEF DecoderInv, DecoderTypeOK
<1>3. CursorInside' /\ Callers' /\ LiveLimits'
  BY <1>1 DEF DecoderInv, CursorInside, Callers, LiveLimits
<1> QED BY <1>2, <1>3 DEF DecoderInv

\* The length of the will properties, read in front of the end of the body.
LEMMA EnterWillPropertiesKeeps == ASSUME DecoderInv, EnterWillProperties PROVE DecoderInv'
<1> DEFINE d == DecodeVariableInt(From(pos))
<1>1. /\ phase = "payload" /\ slot <= 6 /\ pos < Len(body) /\ Holds(WillStart, d.value)
      /\ phase' = "properties" /\ seen' = {} /\ will' = TRUE
      /\ pos' = WillStart /\ stop' = WillStart + d.value /\ resume' = WillStart + d.value
      /\ UNCHANGED <<type, body, slot, wanted, cfg, rcode, received>>
  BY DEF EnterWillProperties, AtPayload, WillCode, EnterProperties, packet
<1>2. pos \in Nat /\ Len(body) \in Nat
  BY Remaining DEF DecoderInv, DecoderTypeOK
<1>3. d.offset \in 0..4 /\ d.value \in Nat
  BY <1>2, Remaining, VariableIntFits
<1>4. WillStart \in Nat
  BY <1>2, <1>3 DEF WillStart
<1> HIDE DEF d
<1>5. DecoderTypeOK'
  <2>1. will' \in BOOLEAN /\ phase' \in Phases
    BY <1>1 DEF Phases
  <2>2. pos' \in Nat /\ stop' \in Nat /\ resume' \in Nat /\ seen' \subseteq PropertyTypes
    BY <1>1, <1>3, <1>4
  <2> QED BY <1>1, <2>1, <2>2 DEF DecoderInv, DecoderTypeOK
<1>6. CursorInside' /\ Callers'
  BY <1>1, <1>2, <1>3, <1>4 DEF DecoderInv, Holds, CursorInside, Callers
<1>7. LiveLimits'
  BY <1>1 DEF DecoderInv, LiveLimits
<1> QED BY <1>5, <1>6, <1>7 DEF DecoderInv

LEMMA ReadPayloadKeeps == ASSUME DecoderInv, ReadPayload PROVE DecoderInv'
<1> DEFINE s == From(pos)
           c == ConfigurePayload(cfg, Payload, StringOf(s))
<1>1. /\ phase = "payload" /\ slot <= 6 /\ pos < Len(body) /\ Payload # "WILL_PROPERTIES"
      /\ PayloadPresent(Payload, s)
      /\ cfg' = c.cfg /\ pos' = pos + 2 + Length(s) /\ slot' = slot + 1
      /\ UNCHANGED <<phase, type, body, stop, resume, will, seen, wanted, rcode, received>>
  BY DEF ReadPayload, AtPayload, PayloadCode, packet
<1>2. pos \in Nat /\ Len(body) \in Nat /\ slot \in 1..7 /\ cfg \in ClientConfigs
  BY Remaining DEF DecoderInv, DecoderTypeOK
<1>3. s \in Strings /\ Len(s) = Len(body) - pos
  BY <1>1, <1>2, Remaining
<1>4. Length(s) \in Nat /\ 2 + Length(s) <= Len(s) /\ StringOf(s) \in Strings
  <2>1. HoldsString(s)
    BY <1>1 DEF PayloadPresent, IsString
  <2> QED BY <1>3, <2>1, StringFits
<1>5. Payload \in ConfigPayloads
  BY <1>1, <1>2 DEF Payload, ConfigPayloads, PayloadTypeSet
<1>6. c.cfg \in ClientConfigs /\ c.cfg.property = cfg.property
  <2> DEFINE t == Payload
             d == StringOf(s)
  <2>1. [cfg EXCEPT !.payload[t] = d] \in ClientConfigs
    BY <1>2, <1>4, <1>5 DEF ClientConfigs
  <2>2. [cfg EXCEPT !.payload[t] = d].property = cfg.property
    BY <1>2 DEF ClientConfigs
  <2>3. c.cfg = IF PayloadExpected(cfg, t) THEN [cfg EXCEPT !.payload[t] = d] ELSE cfg
    BY DEF ConfigurePayload
  <2> HIDE DEF t, d, c
  <2> QED BY <1>2, <2>1, <2>2, <2>3
<1> HIDE DEF s, c
<1>7. pos' \in Nat /\ pos' <= Len(body)
  BY <1>1, <1>2, <1>3, <1>4
<1>8. DecoderTypeOK'
  BY <1>1, <1>2, <1>6, <1>7 DEF DecoderInv, DecoderTypeOK
<1>9. CursorInside' /\ Callers' /\ LiveLimits'
  BY <1>1, <1>6, <1>7 DEF DecoderInv, CursorInside, Callers, LiveLimits
<1> QED BY <1>8, <1>9 DEF DecoderInv

LEMMA RefusePayloadKeeps == ASSUME DecoderInv, RefusePayload PROVE DecoderInv'
<1>1. PayloadCode \in ReasonCodes /\ WillCode \in ReasonCodes
  BY DEF PayloadCode, ConfigurePayload, WillCode, ReasonCodes
<1>2. RoundCode \in ReasonCodes
  BY <1>1 DEF RoundCode, ReasonCodes
<1> QED BY <1>2, RefuseKeeps DEF RefusePayload, DecoderInv, DecoderTypeOK

\* What is taken for a topic is a string, and the cursor passes it or stays.
LEMMA BeyondIsByte ==
    ASSUME NEW g \in Leftover, NEW n \in Nat
    PROVE  Beyond(n, g) \in Byte
<1>1. g \in Seq(Byte) /\ g # <<>>
  BY LeftoverAssumption DEF Strings
<1>2. Len(g) \in Nat /\ Len(g) # 0
  BY <1>1, EmptySeq
<1>3. PICK l \in Nat \ {0} : l = Len(g)
  BY <1>2
<1>4. n % l \in 0..(l - 1)
  BY <1>3
<1>5. (n % l) + 1 \in 1..l
  <2>1. \A r \in 0..(l - 1) : r + 1 \in 1..l
    BY <1>3
  <2> QED BY <1>4, <2>1
<1>6. g[(n % l) + 1] \in Byte
  BY <1>1, <1>3, <1>5
<1> QED BY <1>3, <1>6 DEF Beyond

LEMMA ByteAtIsByte ==
    ASSUME DecoderInv, NEW g \in Leftover, NEW n \in Nat
    PROVE  ByteAt(n, g) \in Byte
<1>1. body \in Seq(Byte) /\ Len(body) \in Nat
  BY Remaining DEF DecoderInv, DecoderTypeOK, Strings
<1>2. CASE n < Len(body)
  <2>1. body[n + 1] \in Byte
    BY <1>1, <1>2
  <2> QED BY <1>2, <2>1 DEF ByteAt
<1>3. CASE ~(n < Len(body))
  <2>1. n - Len(body) \in Nat
    BY <1>1, <1>3
  <2> QED BY <1>3, <2>1, BeyondIsByte DEF ByteAt
<1> QED BY <1>2, <1>3

LEMMA TopicFits ==
    ASSUME DecoderInv, NEW topic \in Topics
    PROVE  topic \in Strings /\ TopicSize(topic) \in Nat
<1>1. PICK g \in Leftover : topic = Topic(g)
  BY DEF Topics
<1>2. PICK end \in Nat : end = 2 + ByteAt(0, g) * 256 + ByteAt(1, g) /\ end >= 2
  <2>1. PICK a \in 0..255, b \in 0..255 : a = ByteAt(0, g) /\ b = ByteAt(1, g)
    BY ByteAtIsByte DEF Byte
  <2> QED BY <2>1
<1> DEFINE filler == [i \in 1..end |-> Beyond(i - 1, g)]
<1>3. filler \in Strings /\ Len(filler) = end
  <2>1. \A i \in 1..end : Beyond(i - 1, g) \in Byte
    BY BeyondIsByte
  <2> QED BY <2>1 DEF Strings
<1> HIDE DEF filler
<1>4. body \in Strings /\ Len(body) \in Nat
  BY Remaining DEF DecoderInv, DecoderTypeOK
<1>5. body \o filler \in Strings /\ Len(body \o filler) = Len(body) + end
  BY <1>3, <1>4 DEF Strings
<1>6. topic = SubSeq(body \o filler, 3, end)
  BY <1>1, <1>2 DEF Topic, filler
<1>7. topic \in Strings
  <2>1. end <= Len(body \o filler)
    BY <1>4, <1>5
  <2>2. PICK bytes \in Strings : bytes = body \o filler
    BY <1>5
  <2>3. 3 \in Nat \ {0} /\ end \in Int
    OBVIOUS
  <2>4. SubSeq(bytes, 3, end) \in Strings
    BY <2>1, <2>2, <2>3, Slice
  <2> QED BY <1>6, <2>2, <2>4
<1>8. TopicSize(topic) \in Nat
  <2>1. Len(topic) \in Nat
    BY <1>7 DEF Strings
  <2> QED BY <2>1 DEF TopicSize
<1> QED BY <1>7, <1>8

LEMMA KeepTopicKeeps ==
    ASSUME DecoderInv, NEW topic \in Topics, KeepTopic(topic)
    PROVE  /\ cfg' \in ClientConfigs /\ cfg'.property = cfg.property
           /\ cfg'.userProperties = cfg.userProperties
<1>1. topic \in Strings /\ cfg \in ClientConfigs
  BY TopicFits DEF DecoderInv, DecoderTypeOK
<1> QED BY <1>1 DEF KeepTopic, ClientConfigs

\* The properties of a PUBLISH, whose cursor is left one byte behind their start.
LEMMA DecodePublishKeeps == ASSUME DecoderInv, DecodePublish PROVE DecoderInv'
<1>0. PICK topic \in Topics : KeepTopic(topic) /\ ReadLength(TopicSize(topic))
  BY DEF DecodePublish
<1> DEFINE size == TopicSize(topic)
           d == DecodeVariableInt(From(size))
           start == size + d.offset
<1>1. body \in Strings /\ Len(body) \in Nat
  BY Remaining DEF DecoderInv, DecoderTypeOK
<1>3. cfg' \in ClientConfigs /\ cfg'.property = cfg.property
  BY <1>0, KeepTopicKeeps
<1>4. size \in Nat
  BY TopicFits
<1>5. d.offset \in 0..4 /\ d.value \in Nat /\ start \in Nat
  <2>1. d.offset \in 0..4 /\ d.value \in Nat
    <3>1. From(size) \in Strings
      <4> HIDE DEF size
      <4> QED BY <1>4, Remaining
    <3> QED BY <3>1, VariableIntFits
  <2> HIDE DEF d, size
  <2> QED BY <1>4, <2>1
<1>6. CASE Refuse("MALFORMED_PACKET")
  BY <1>3, <1>6, RefuseKeeps DEF ReasonCodes
<1>7. CASE /\ Holds(start, d.value) /\ EnterProperties(start, d.value, start + 1, FALSE)
           /\ UNCHANGED <<packet, slot, wanted, out, rcode, received>>
  <2> HIDE DEF d, start, size
  <2>1. /\ type = "PUBLISH" /\ phase' = "properties" /\ seen' = {} /\ will' = FALSE
        /\ pos' = start /\ stop' = start + d.value /\ resume' = start + 1
        /\ UNCHANGED <<type, body, slot, wanted, rcode, received>>
    BY <1>7 DEF DecodePublish, EnterProperties, packet
  <2>2. DecoderTypeOK'
    <3>1. will' \in BOOLEAN /\ phase' \in Phases
      BY <2>1 DEF Phases
    <3>2. pos' \in Nat /\ stop' \in Nat /\ resume' \in Nat /\ seen' \subseteq PropertyTypes
      BY <1>5, <2>1
    <3> QED BY <1>3, <2>1, <3>1, <3>2 DEF DecoderInv, DecoderTypeOK
  <2>3. CursorInside' /\ Callers'
    BY <1>1, <1>5, <1>7, <2>1 DEF Holds, CursorInside, Callers
  <2>4. LiveLimits'
    BY <1>3 DEF DecoderInv, LiveLimits, DecodePublish
  <2> QED BY <2>2, <2>3, <2>4 DEF DecoderInv
<1>8. CASE /\ phase' = "message" /\ pos' = start + 1 /\ rcode' = "MALFORMED_PACKET"
           /\ UNCHANGED <<packet, stop, resume, will, seen, slot, wanted, out, received>>
  <2> HIDE DEF d, start, size
  <2>1. DecoderTypeOK'
    <3>1. phase' \in Phases /\ rcode' \in ReasonCodes /\ pos' \in Nat
      BY <1>5, <1>8 DEF Phases, ReasonCodes
    <3> QED BY <1>3, <1>8, <3>1 DEF DecoderInv, DecoderTypeOK, packet
  <2>2. CursorInside' /\ Callers'
    BY <1>8 DEF CursorInside, Callers
  <2>3. LiveLimits'
    BY <1>3 DEF DecoderInv, LiveLimits, DecodePublish
  <2> QED BY <2>1, <2>2, <2>3 DEF DecoderInv
<1> QED BY <1>0, <1>6, <1>7, <1>8 DEF ReadLength

LEMMA DecodePublishOverrunKeeps == ASSUME DecoderInv, DecodePublishOverrun PROVE DecoderInv'
<1>1. PICK topic \in Topics : KeepTopic(topic) /\ Refuse("MALFORMED_PACKET")
  BY DEF DecodePublishOverrun
<1>2. cfg' \in ClientConfigs
  BY <1>1, KeepTopicKeeps
<1> QED BY <1>1, <1>2, RefuseKeeps DEF ReasonCodes

LEMMA DecodeCrashesKeeps == ASSUME DecoderInv, DecodeCrashes PROVE DecoderInv'
<1>1. rcode' \in ReasonCodes /\ phase' = "crashed" /\ phase # "closed"
  BY DEF DecodeCrashes, DecoderInv, DecoderTypeOK
<1> QED BY <1>1, PhaseKeeps DEF DecodeCrashes, Phases

LEMMA ReadMessageKeeps == ASSUME DecoderInv, ReadMessage PROVE DecoderInv'
<1>1. cfg' \in ClientConfigs /\ phase # "closed"
  BY DEF ReadMessage, DecoderInv, DecoderTypeOK
<1>2. CASE Refuse("MALFORMED_PACKET")
  BY <1>1, <1>2, RefuseKeeps DEF ReasonCodes
<1>3. CASE /\ phase' = "idle" /\ rcode' = "SUCCESS"
           /\ UNCHANGED <<packet, cursor, wanted, out, received>>
  <2>1. phase' \in Phases \ {"properties", "payload"} /\ rcode' \in ReasonCodes
    BY <1>3 DEF Phases, ReasonCodes
  <2> QED BY <1>1, <1>3, <2>1, PhaseKeeps DEF ReadMessage
<1> QED BY <1>2, <1>3 DEF ReadMessage

LEMMA DecodeDisconnectKeeps == ASSUME DecoderInv, DecodeDisconnect PROVE DecoderInv'
  BY RefuseKeeps DEF DecodeDisconnect, DecoderInv, DecoderTypeOK, ReasonCodes

\* The CONNACK is written from the configuration, which it does not change.
LEMMA AnswerKeeps == ASSUME DecoderInv, Answer PROVE DecoderInv'
<1>1. rcode \in ReasonCodes /\ cfg' \in ClientConfigs /\ cfg' = cfg /\ phase # "closed"
  BY DEF DecoderInv, DecoderTypeOK, Answer, CreateConnack, FillProperty, SendConnack
<1>2. CASE Refuse(rcode)
  BY <1>1, <1>2, RefuseKeeps
<1>3. CASE /\ phase' \in {"fill", "idle"} /\ rcode' \in {rcode, "SUCCESS"}
           /\ UNCHANGED <<packet, cursor, wanted, received>>
  <2>1. phase' \in Phases \ {"properties", "payload"} /\ rcode' \in ReasonCodes
    BY <1>1, <1>3 DEF Phases, ReasonCodes
  <2> QED BY <1>1, <1>3, <2>1, PhaseKeeps
<1>4. \/ Refuse(rcode)
      \/ /\ phase' \in {"fill", "idle"} /\ rcode' \in {rcode, "SUCCESS"}
         /\ UNCHANGED <<packet, cursor, wanted, received>>
  <2>1. CASE CreateConnack
    BY <2>1 DEF CreateConnack
  <2>2. CASE FillProperty
    BY <2>2 DEF FillProperty
  <2>3. CASE SendConnack
    BY <2>3 DEF SendConnack
  <2> QED BY <2>1, <2>2, <2>3 DEF Answer
<1> QED BY <1>2, <1>3, <1>4

LEMMA StutterKeeps == ASSUME DecoderInv, UNCHANGED vars PROVE DecoderInv'
<1>1. DecoderTypeOK'
  BY DEF DecoderInv, DecoderTypeOK, vars, packet, cursor, out
<1>2. CursorInside' /\ Callers' /\ LiveLimits'
  BY DEF DecoderInv, CursorInside, Callers, LiveLimits, vars, packet, cursor, out
<1> QED BY <1>1, <1>2 DEF DecoderInv

LEMMA StepKeeps == DecoderInv /\ [Next]_vars => DecoderInv'
<1> SUFFICES ASSUME DecoderInv, [Next]_vars PROVE DecoderInv'
  OBVIOUS
<1>1. CASE Receive
  BY <1>1, ReceiveKeeps
<1>2. CASE Decode
  BY <1>2, DecodeConnectKeeps, RefuseConnectKeeps, ReadPropertyKeeps, RefusePropertyKeeps,
     EndPropertiesKeeps, EndPayloadKeeps, SkipPayloadKeeps, EnterWillPropertiesKeeps,
     ReadPayloadKeeps, RefusePayloadKeeps, DecodePublishKeeps, DecodePublishOverrunKeeps,
     ReadMessageKeeps, DecodeDisconnectKeeps, DecodeCrashesKeeps
  DEF Decode
<1>3. CASE Answer
  BY <1>3, AnswerKeeps
<1>4. CASE UNCHANGED vars
  BY <1>4, StutterKeeps
<1> QED BY <1>1, <1>2, <1>3, <1>4 DEF Next

LEMMA DecoderInvHolds == Spec => []DecoderInv
<1> QED BY InitHolds, StepKeeps, PTL DEF Spec

-------------------------------------------------------------------------------
(* The theorems. *)

\* The decoder's variables keep their types (the variables of packet and
\* connection in lmqtt_packet.h).
THEOREM DecoderTypes == Spec => []DecoderTypeOK
<1>1. DecoderInv => DecoderTypeOK
  BY DEF DecoderInv
<1> QED BY <1>1, DecoderInvHolds, PTL

\* Whatever bytes a client sends, the loops of decode_properties and
\* decode_payload, which stop only when the cursor equals their end, never carry
\* it past that end.
THEOREM CursorStaysInside == Spec => []CursorInside
<1>1. DecoderInv => CursorInside
  BY DEF DecoderInv
<1> QED BY <1>1, DecoderInvHolds, PTL

\* No connection that lives on has a limit that configure_propriety refuses.
THEOREM LimitsStayLegal == Spec => []LiveLimits
<1>1. DecoderInv => LiveLimits
  BY DEF DecoderInv
<1> QED BY <1>1, DecoderInvHolds, PTL

\* A step of decode_publish_packet_body changes what the last topic and the user
\* properties are, and nothing else of the configuration.
LEMMA PublishStep ==
    ASSUME DecoderInv, [Next]_vars, type = "PUBLISH", phase # "idle"
    PROVE  cfg' = [cfg EXCEPT !.lastTopic = cfg'.lastTopic,
                              !.userProperties = cfg'.userProperties]
<1>1. cfg \in ClientConfigs
  BY DEF DecoderInv, DecoderTypeOK
<1>2. CASE cfg' = cfg
  BY <1>1, <1>2 DEF ClientConfigs
<1>3. ASSUME NEW topic, KeepTopic(topic)
      PROVE  cfg' = [cfg EXCEPT !.lastTopic = cfg'.lastTopic,
                                !.userProperties = cfg'.userProperties]
  BY <1>1, <1>3 DEF KeepTopic, ClientConfigs
<1>4. CASE cfg' = [cfg EXCEPT !.userProperties = cfg'.userProperties]
  BY <1>1, <1>4 DEF ClientConfigs
<1>5. phase = "payload" => type = "CONNECT"
  BY DEF DecoderInv, Callers
<1>6. CASE ReadProperty \/ RefuseProperty
  <2> DEFINE p == PropertyOf(body[pos + 1])
             c == Configured(p, Between(pos + 1, stop))
  <2>1. phase = "properties" /\ pos # stop
        /\ (cfg' = cfg \/ (/\ PropertyCode(p, Between(pos + 1, stop)) = "SUCCESS"
                           /\ cfg' = c.cfg))
    BY <1>6 DEF ReadProperty, RefuseProperty
  <2>2. PropertyCode(p, Between(pos + 1, stop)) = "SUCCESS" =>
           c.cfg = [cfg EXCEPT !.userProperties = c.cfg.userProperties]
    BY <2>1, DecodedProperty
  <2> HIDE DEF p, c
  <2> QED BY <1>2, <1>4, <2>1, <2>2
<1>7. CASE DecodePublish \/ DecodePublishOverrun
  BY <1>3, <1>7 DEF DecodePublish, DecodePublishOverrun
<1>8. CASE ~(ReadProperty \/ RefuseProperty \/ DecodePublish \/ DecodePublishOverrun)
  <2>1. cfg' = cfg
    BY <1>5, <1>8
    DEF Next, Decode, Answer, Receive, DecodeConnect, RefuseConnect, EndProperties,
        EndPayload, SkipPayload, EnterWillProperties, ReadPayload, RefusePayload, AtPayload,
        ReadMessage, DecodeDisconnect, DecodeCrashes, CreateConnack, FillProperty,
        SendConnack, vars
  <2> QED BY <1>2, <2>1
<1> QED BY <1>6, <1>7, <1>8

\* The session that CONNECT negotiated is not touched by any PUBLISH that
\* follows, not even by one whose properties are refused halfway and go
\* unnoticed (decode_publish_packet_body).
THEOREM PublishIsHarmless == Spec => PublishNegotiatesNothing
<1>1. DecoderInv /\ [Next]_vars =>
         [type = "PUBLISH" /\ phase # "idle" =>
            cfg' = [cfg EXCEPT !.lastTopic = cfg'.lastTopic,
                               !.userProperties = cfg'.userProperties]]_vars
  BY PublishStep
<1> QED BY <1>1, DecoderInvHolds, PTL DEF Spec, PublishNegotiatesNothing

-------------------------------------------------------------------------------
(* What a CONNACK is written with. *)

LEMMA PairBytesCount ==
    ASSUME NEW pairs \in Seq(Pairs)
    PROVE  \E f \in [0..Len(pairs) -> Nat] :
              /\ f[0] = 0 /\ f[Len(pairs)] = PairBytes(pairs)
              /\ \A n \in 1..Len(pairs) :
                    f[n] = f[n - 1] + Len(pairs[n][1]) + Len(pairs[n][2]) + 4
<1> DEFINE N == Len(pairs)
           size(n) == Len(pairs[n][1]) + Len(pairs[n][2]) + 4
           step == [x \in (1..N) \X Nat |-> x[2] + Len(pairs[x[1]][1]) + Len(pairs[x[1]][2]) + 4]
           upTo[n \in 0..N] == IF n = 0 THEN 0
                               ELSE upTo[n - 1] + Len(pairs[n][1]) + Len(pairs[n][2]) + 4
<1>1. N \in Nat
  OBVIOUS
<1>2. \A n \in 1..N : Len(pairs[n][1]) \in Nat /\ Len(pairs[n][2]) \in Nat
  BY DEF Pairs, Strings
<1>3. step \in [(1..N) \X Nat -> Nat]
  BY <1>2
<1>4. PICK f : f \in Recursive(Nat, 0, N, step)
  <2>1. 0 \in Nat
    OBVIOUS
  <2> HIDE DEF N, step
  <2> QED BY <1>1, <1>3, <2>1, Recursion
<1>5. f = [n \in 0..N |-> IF n = 0 THEN 0
                          ELSE f[n - 1] + Len(pairs[n][1]) + Len(pairs[n][2]) + 4]
  <2>1. /\ f \in [0..N -> Nat]
        /\ \A n \in 0..N : f[n] = IF n = 0 THEN 0 ELSE step[<<n, f[n - 1]>>]
    BY <1>4 DEF Recursive
  <2>2. \A n \in 0..N : n # 0 => n \in 1..N /\ n - 1 \in 0..N /\ f[n - 1] \in Nat
    BY <1>1, <2>1
  <2>3. \A n \in 1..N : step[<<n, f[n - 1]>>]
                           = f[n - 1] + Len(pairs[n][1]) + Len(pairs[n][2]) + 4
    BY <2>2
  <2> QED BY <2>1, <2>2, <2>3
<1>6. upTo = [n \in 0..N |-> IF n = 0 THEN 0
                             ELSE upTo[n - 1] + Len(pairs[n][1]) + Len(pairs[n][2]) + 4]
  <2> HIDE DEF N
  <2> QED BY <1>5, Zenon DEF upTo
<1> HIDE DEF upTo
<1>7. /\ upTo[0] = 0
      /\ \A n \in 1..N : upTo[n] = upTo[n - 1] + Len(pairs[n][1]) + Len(pairs[n][2]) + 4
  BY <1>1, <1>6
<1>8. \A n \in 0..N : upTo[n] \in Nat
  <2> DEFINE S == {n \in 0..N : upTo[n] \in Nat}
  <2>1. 0 \in S
    BY <1>1, <1>7
  <2>2. ASSUME NEW n \in 1..N, n - 1 \in S PROVE n \in S
    <3> DEFINE a == Len(pairs[n][1])
               b == Len(pairs[n][2])
    <3>1. upTo[n] = upTo[n - 1] + a + b + 4 /\ upTo[n - 1] \in Nat
      BY <1>7, <2>2
    <3>2. a \in Nat /\ b \in Nat /\ n \in 0..N
      BY <1>1, <1>2
    <3> HIDE DEF a, b
    <3> QED BY <3>1, <3>2
  <2>3. 0..N \subseteq S
    <3> HIDE DEF S, N
    <3> QED BY <1>1, <2>1, <2>2, UpToInduction
  <2> QED BY <2>3
<1>9. PairBytes(pairs) = upTo[N]
  BY DEF PairBytes, upTo
<1>10. upTo \in [0..N -> Nat]
  BY <1>6, <1>8
<1> QED BY <1>7, <1>9, <1>10

\* A string of at most 65535 bytes is announced in two.
LEMMA StringBytesFit ==
    ASSUME NEW s \in ShortStrings
    PROVE  StringBytes(s) \in Strings /\ Len(StringBytes(s)) = 2 + Len(s)
<1>1. LengthBytes(s) \in Strings /\ Len(LengthBytes(s)) = 2
  <2>1. ASSUME NEW l \in Nat, l <= 65535 PROVE l \div 256 \in Byte /\ l % 256 \in Byte
    <3>1. l % 256 \in 0..255
      OBVIOUS
    <3>2. l \div 256 \in 0..255
      BY <2>1
    <3> QED BY <3>1, <3>2 DEF Byte
  <2>2. Len(s) \in Nat /\ Len(s) <= 65535
    BY LenProperties DEF ShortStrings, Strings
  <2>3. Len(s) \div 256 \in Byte /\ Len(s) % 256 \in Byte
    BY <2>1, <2>2
  <2> QED BY <2>3 DEF LengthBytes, Strings
<1>2. s \in Strings
  BY DEF ShortStrings
<1>3. \A u, v \in Strings : u \o v \in Strings /\ Len(u \o v) = Len(u) + Len(v)
  BY ConcatProperties DEF Strings
<1> QED BY <1>1, <1>2, <1>3 DEF StringBytes

\* The user properties are written in as many bytes as are counted.
LEMMA UserBytesCount ==
    ASSUME NEW pairs \in Seq(ShortPairs)
    PROVE  /\ UserBytes(pairs) \in Strings
           /\ PairBytes(pairs) \in Nat /\ Len(UserBytes(pairs)) = PairBytes(pairs)
<1> DEFINE N == Len(pairs)
           both(n) == StringBytes(pairs[n][1]) \o StringBytes(pairs[n][2])
           step == [x \in (1..N) \X Strings |-> x[2] \o StringBytes(pairs[x[1]][1])
                                                   \o StringBytes(pairs[x[1]][2])]
           upTo[n \in 0..N] == IF n = 0 THEN <<>>
                               ELSE upTo[n - 1] \o StringBytes(pairs[n][1])
                                                \o StringBytes(pairs[n][2])
<1>1. N \in Nat /\ pairs \in Seq(Pairs)
  <2>1. ShortPairs \subseteq Pairs
    BY DEF ShortPairs, ShortStrings, Pairs
  <2> QED BY <2>1
<1>2. ASSUME NEW n \in 1..N
      PROVE  /\ StringBytes(pairs[n][1]) \in Strings /\ StringBytes(pairs[n][2]) \in Strings
             /\ Len(pairs[n][1]) \in Nat /\ Len(pairs[n][2]) \in Nat
             /\ Len(StringBytes(pairs[n][1])) = 2 + Len(pairs[n][1])
             /\ Len(StringBytes(pairs[n][2])) = 2 + Len(pairs[n][2])
  <2>1. pairs[n][1] \in ShortStrings /\ pairs[n][2] \in ShortStrings
    BY DEF ShortPairs
  <2>2. Len(pairs[n][1]) \in Nat /\ Len(pairs[n][2]) \in Nat
    BY <2>1 DEF ShortStrings, Strings
  <2> QED BY <2>1, <2>2, StringBytesFit
<1>3. \A u, v, w \in Strings : /\ u \o v \o w \in Strings
                               /\ Len(u \o v \o w) = Len(u) + Len(v) + Len(w)
  BY ConcatProperties DEF Strings
<1>4. step \in [(1..N) \X Strings -> Strings]
  BY <1>2, <1>3
<1>5. PICK f : f \in Recursive(Strings, <<>>, N, step)
  <2>1. <<>> \in Strings
    BY DEF Strings
  <2> HIDE DEF N, step
  <2> QED BY <1>1, <1>4, <2>1, Recursion
<1>6. f = [n \in 0..N |-> IF n = 0 THEN <<>>
                          ELSE f[n - 1] \o StringBytes(pairs[n][1])
                                        \o StringBytes(pairs[n][2])]
  <2>1. /\ f \in [0..N -> Strings]
        /\ \A n \in 0..N : f[n] = IF n = 0 THEN <<>> ELSE step[<<n, f[n - 1]>>]
    BY <1>5 DEF Recursive
  <2>2. \A n \in 0..N : n # 0 => n \in 1..N /\ n - 1 \in 0..N /\ f[n - 1] \in Strings
    BY <1>1, <2>1
  <2>3. ASSUME NEW n \in 1..N
        PROVE  step[<<n, f[n - 1]>>]
                  = f[n - 1] \o StringBytes(pairs[n][1]) \o StringBytes(pairs[n][2])
    <3>1. <<n, f[n - 1]>> \in (1..N) \X Strings
      BY <1>1, <2>2
    <3> HIDE DEF N
    <3> QED BY <3>1
  <2> QED BY <2>1, <2>2, <2>3
<1>7. upTo = [n \in 0..N |-> IF n = 0 THEN <<>>
                             ELSE upTo[n - 1] \o StringBytes(pairs[n][1])
                                              \o StringBytes(pairs[n][2])]
  <2> HIDE DEF N
  <2> QED BY <1>6, Zenon DEF upTo
<1> HIDE DEF upTo
<1>8. /\ upTo[0] = <<>>
      /\ \A n \in 1..N : upTo[n] = upTo[n - 1] \o StringBytes(pairs[n][1])
                                               \o StringBytes(pairs[n][2])
  BY <1>1, <1>7
<1>9. PICK b \in [0..N -> Nat] :
         /\ b[0] = 0 /\ b[N] = PairBytes(pairs)
         /\ \A n \in 1..N : b[n] = b[n - 1] + Len(pairs[n][1]) + Len(pairs[n][2]) + 4
  BY <1>1, PairBytesCount
<1>10. \A n \in 0..N : upTo[n] \in Strings /\ Len(upTo[n]) = b[n]
  <2> DEFINE S == {n \in 0..N : upTo[n] \in Strings /\ Len(upTo[n]) = b[n]}
  <2>1. 0 \in S
    <3>1. <<>> \in Strings /\ Len(<<>>) = 0
      BY EmptySeq DEF Strings
    <3> QED BY <1>1, <1>8, <1>9, <3>1
  <2>2. ASSUME NEW n \in 1..N, n - 1 \in S PROVE n \in S
    <3> DEFINE u == upTo[n - 1]
               v == StringBytes(pairs[n][1])
               w == StringBytes(pairs[n][2])
    <3>1. upTo[n] = u \o v \o w /\ u \in Strings /\ Len(u) = b[n - 1]
      BY <1>8, <2>2
    <3>2. v \in Strings /\ w \in Strings /\ n \in 0..N /\ n - 1 \in 0..N
      BY <1>1, <1>2
    <3>3. b[n] = b[n - 1] + Len(v) + Len(w)
      <4>1. /\ Len(v) = 2 + Len(pairs[n][1]) /\ Len(w) = 2 + Len(pairs[n][2])
            /\ Len(pairs[n][1]) \in Nat /\ Len(pairs[n][2]) \in Nat
        BY <1>2
      <4>2. b[n - 1] \in Nat /\ b[n] = b[n - 1] + Len(pairs[n][1]) + Len(pairs[n][2]) + 4
        BY <1>9, <3>2
      <4> DEFINE i == Len(pairs[n][1])
                 j == Len(pairs[n][2])
      <4>3. Len(v) = 2 + i /\ Len(w) = 2 + j /\ i \in Nat /\ j \in Nat
        BY <4>1
      <4>4. b[n] = b[n - 1] + i + j + 4
        BY <4>2
      <4>5. \A x, y, z \in Nat : x + y + z + 4 = x + (2 + y) + (2 + z)
        OBVIOUS
      <4>6. b[n - 1] + i + j + 4 = b[n - 1] + (2 + i) + (2 + j)
        BY <4>2, <4>3, <4>5
      <4> QED BY <4>3, <4>4, <4>6, Zenon
    <3> HIDE DEF u, v, w
    <3>4. u \o v \o w \in Strings /\ Len(u \o v \o w) = Len(u) + Len(v) + Len(w)
      BY <1>3, <3>1, <3>2
    <3>5. Len(v) \in Nat /\ Len(w) \in Nat /\ b[n - 1] \in Nat
      BY <1>9, <3>2, LenProperties DEF Strings
    <3>6. upTo[n] \in Strings /\ Len(upTo[n]) = b[n]
      BY <3>1, <3>3, <3>4, <3>5
    <3> QED BY <3>2, <3>6
  <2>3. 0..N \subseteq S
    <3> HIDE DEF S, N
    <3> QED BY <1>1, <2>1, <2>2, UpToInduction
  <2> QED BY <2>3
<1>11. UserBytes(pairs) = upTo[N]
  BY DEF UserBytes, upTo
<1>12. N \in 0..N
  BY <1>1
<1> HIDE DEF N
<1> QED BY <1>9, <1>10, <1>11, <1>12

\* Four bytes at most are encoded, whatever the number.
LEMMA EncodedFits ==
    ASSUME NEW v \in Nat, EncodedSize(v) \in 1..4
    PROVE  /\ EncodeVariableInt(v) \in Seq(0..255)
           /\ Len(EncodeVariableInt(v)) = EncodedSize(v)
<1> DEFINE n == EncodedSize(v)
           last == (v \div 127^(n - 1)) % 127
           e == [i \in 1..n |-> IF i < n THEN 127 ELSE last]
<1>1. 127^(n - 1) \in {1, 127, 16129, 2048383}
  <2>1. 127^0 = 1 /\ 127^1 = 127 /\ 127^2 = 16129 /\ 127^3 = 2048383
    OBVIOUS
  <2>2. CASE n = 1
    BY <2>1, <2>2
  <2>3. CASE n = 2
    BY <2>1, <2>3
  <2>4. CASE n = 3
    BY <2>1, <2>4
  <2>5. CASE n = 4
    BY <2>1, <2>5
  <2> QED BY <2>2, <2>3, <2>4, <2>5
<1>2. \A x \in {1, 127, 16129, 2048383} : (v \div x) % 127 \in 0..255
  OBVIOUS
<1>3. last \in 0..255
  BY <1>1, <1>2
<1> HIDE DEF last
<1>4. e \in Seq(0..255) /\ Len(e) = n
  <2>1. n \in Nat
    OBVIOUS
  <2> HIDE DEF n
  <2>2. \A i \in 1..n : (IF i < n THEN 127 ELSE last) \in 0..255
    BY <1>3
  <2> QED BY <2>1, <2>2
<1> QED BY <1>4 DEF EncodeVariableInt, last

\* What a configuration keeps besides its types: numbers of their width, and user
\* properties whose strings came with a length of two bytes.
Widths(c) == \A p \in ConfigProperties : IsPropertyFixed(p) => Len(c.property[p]) = FixedSize(p)
Shaped(c) == Widths(c) /\ c.userProperties \in Seq(ShortPairs)

\* Where fill_property has something to write.
Sizes(n) == GetPropertySize(cfg, ConnackProperties[n])

LEMMA SizesAre ==
    ASSUME cfg \in ClientConfigs, Shaped(cfg)
    PROVE  /\ Sizes(1) = 5 /\ Sizes(2) = 3 /\ Sizes(3) = 2 /\ Sizes(4) = 2 /\ Sizes(5) = 5
           /\ Sizes(6) \in {0, 3} /\ Sizes(7) = 3 /\ Sizes(8) = 20
           /\ Sizes(9) = 1 + PairBytes(cfg.userProperties)
           /\ Sizes(10) = 2 /\ Sizes(11) = 2 /\ Sizes(12) = 2 /\ Sizes(13) = 3
           /\ Sizes(14) = 0 /\ Sizes(15) = 0 /\ Sizes(16) = 0 /\ Sizes(17) = 0
  BY DEF Sizes, GetPropertySize, ConnackProperties, IsPropertyFixed, FixedSize, ByteProperties,
         TwoByteProperties, FourByteProperties, ReasonStringSize

LEMMA SizesCount ==
    ASSUME cfg \in ClientConfigs, Shaped(cfg)
    PROVE  /\ \A n \in 1..17 : Sizes(n) \in Nat
           /\ \A n \in 14..17 : Sizes(n) = 0
<1>1. PairBytes(cfg.userProperties) \in Nat
  BY UserBytesCount DEF Shaped
<1>2. 1 + PairBytes(cfg.userProperties) \in Nat
  BY <1>1
<1>3. ASSUME NEW n \in 1..17 PROVE Sizes(n) \in Nat
  <2>1. \/ n = 1 \/ n = 2 \/ n = 3 \/ n = 4 \/ n = 5 \/ n = 6 \/ n = 7 \/ n = 8 \/ n = 9
        \/ n = 10 \/ n = 11 \/ n = 12 \/ n = 13 \/ n = 14 \/ n = 15 \/ n = 16 \/ n = 17
    OBVIOUS
  <2>2. \A i \in {0, 2, 3, 5, 20} : i \in Nat
    OBVIOUS
  <2> QED BY <1>2, <2>1, <2>2, SizesAre
<1>4. ASSUME NEW n \in 14..17 PROVE Sizes(n) = 0
  <2>1. n = 14 \/ n = 15 \/ n = 16 \/ n = 17
    OBVIOUS
  <2> QED BY <2>1, SizesAre
<1> QED BY <1>3, <1>4

\* The sizes, added up.
LEMMA SizesAddUp ==
    ASSUME cfg \in ClientConfigs, Shaped(cfg)
    PROVE  /\ SizeUpTo[0] = 0
           /\ \A n \in 0..17 : SizeUpTo[n] \in Nat /\ SizeUpTo[n] <= SizeUpTo[17]
           /\ \A n \in 1..17 : SizeUpTo[n] = SizeUpTo[n - 1] + Sizes(n)
           /\ \A n \in 13..17 : SizeUpTo[n] = SizeUpTo[17]
<1> DEFINE step == [x \in (1..17) \X Nat |-> x[2] + Sizes(x[1])]
<1>1. step \in [(1..17) \X Nat -> Nat]
  BY SizesCount
<1>2. PICK f : f \in Recursive(Nat, 0, 17, step)
  <2>1. 0 \in Nat /\ 17 \in Nat
    OBVIOUS
  <2> HIDE DEF step
  <2> QED BY <1>1, <2>1, Recursion
<1>3. f = [n \in 0..17 |-> IF n = 0 THEN 0
                           ELSE f[n - 1] + GetPropertySize(cfg, ConnackProperties[n])]
  <2>1. /\ f \in [0..17 -> Nat]
        /\ \A n \in 0..17 : f[n] = IF n = 0 THEN 0 ELSE step[<<n, f[n - 1]>>]
    BY <1>2, Zenon DEF Recursive
  <2>2. \A n \in 0..17 : n # 0 => n \in 1..17 /\ n - 1 \in 0..17 /\ f[n - 1] \in Nat
    BY <2>1
  <2>3. ASSUME NEW n \in 1..17 PROVE step[<<n, f[n - 1]>>] = f[n - 1] + Sizes(n)
    <3>1. <<n, f[n - 1]>> \in (1..17) \X Nat
      BY <2>2
    <3> QED BY <3>1
  <2> HIDE DEF step
  <2> QED BY <2>1, <2>2, <2>3 DEF Sizes
<1>4. SizeUpTo = [n \in 0..17 |-> IF n = 0 THEN 0
                                  ELSE SizeUpTo[n - 1] + GetPropertySize(cfg, ConnackProperties[n])]
  BY <1>3, Zenon DEF SizeUpTo
<1>5. SizeUpTo[0] = 0 /\ \A n \in 1..17 : SizeUpTo[n] = SizeUpTo[n - 1] + Sizes(n)
  BY <1>4 DEF Sizes
<1>6. \A n \in 0..17 : SizeUpTo[n] \in Nat
  <2> DEFINE S == {n \in 0..17 : SizeUpTo[n] \in Nat}
  <2>1. 0 \in S
    BY <1>5
  <2>2. ASSUME NEW n \in 1..17, n - 1 \in S PROVE n \in S
    BY <1>5, <2>2, SizesCount
  <2>3. 0..17 \subseteq S
    <3> HIDE DEF S
    <3> QED BY <2>1, <2>2, UpToInduction
  <2> QED BY <2>3
<1>7. \A n \in 1..17 : SizeUpTo[n - 1] <= SizeUpTo[n]
  <2> SUFFICES ASSUME NEW n \in 1..17 PROVE SizeUpTo[n - 1] <= SizeUpTo[n]
    OBVIOUS
  <2>1. SizeUpTo[n - 1] \in Nat /\ Sizes(n) \in Nat
    BY <1>6, SizesCount
  <2> QED BY <1>5, <2>1
<1>8. \A n \in 0..17 : SizeUpTo[n] <= SizeUpTo[17]
  <2> DEFINE S == {k \in 0..17 : SizeUpTo[17 - k] <= SizeUpTo[17]}
  <2>1. 0 \in S
    BY <1>6
  <2>2. ASSUME NEW k \in 1..17, k - 1 \in S PROVE k \in S
    <3> DEFINE n == 17 - (k - 1)
    <3>1. n \in 1..17 /\ n - 1 = 17 - k /\ k \in 0..17
      OBVIOUS
    <3>2. SizeUpTo[n] <= SizeUpTo[17]
      BY <2>2
    <3>3. SizeUpTo[n - 1] <= SizeUpTo[n]
      BY <1>7, <3>1
    <3>4. SizeUpTo[n - 1] \in Nat /\ SizeUpTo[n] \in Nat /\ SizeUpTo[17] \in Nat
      BY <1>6, <3>1
    <3>5. SizeUpTo[n - 1] <= SizeUpTo[17]
      <4> HIDE DEF n
      <4> QED BY <3>2, <3>3, <3>4
    <3>6. SizeUpTo[17 - k] <= SizeUpTo[17]
      BY <3>1, <3>5
    <3> HIDE DEF n
    <3> QED BY <3>1, <3>6
  <2>3. 0..17 \subseteq S
    <3> HIDE DEF S
    <3> QED BY <2>1, <2>2, UpToInduction
  <2>4. \A n \in 0..17 : 17 - n \in 0..17 /\ 17 - (17 - n) = n
    OBVIOUS
  <2> QED BY <2>3, <2>4
<1>9. \A n \in 13..17 : SizeUpTo[n] = SizeUpTo[17]
  <2>1. /\ SizeUpTo[17] = SizeUpTo[16] + 0 /\ SizeUpTo[16] = SizeUpTo[15] + 0
        /\ SizeUpTo[15] = SizeUpTo[14] + 0 /\ SizeUpTo[14] = SizeUpTo[13] + 0
    <3>1. /\ SizeUpTo[17] = SizeUpTo[17 - 1] + Sizes(17)
          /\ SizeUpTo[16] = SizeUpTo[16 - 1] + Sizes(16)
          /\ SizeUpTo[15] = SizeUpTo[15 - 1] + Sizes(15)
          /\ SizeUpTo[14] = SizeUpTo[14 - 1] + Sizes(14)
      BY <1>5
    <3> QED BY <3>1, SizesCount
  <2> QED BY <1>6, <2>1
<1> QED BY <1>5, <1>6, <1>8, <1>9

\* One byte in front of a string.
LEMMA Prefixed ==
    ASSUME NEW b \in Byte, NEW s \in Strings
    PROVE  <<b>> \o s \in Strings /\ Len(<<b>> \o s) = 1 + Len(s)
<1>1. <<b>> \in Strings /\ Len(<<b>>) = 1
  BY DEF Strings
<1> QED BY <1>1, ConcatProperties DEF Strings

LEMMA IdentifierIsByte == \A p \in PropertyTypes : Identifier[p] \in Byte
<1>1. /\ Identifier["PAYLOAD_FORMAT_INDICATOR"] = 1
      /\ Identifier["REQUEST_PROBLEM_INFORMATION"] = 23
      /\ Identifier["REQUEST_RESPONSE_INFORMATION"] = 25
      /\ Identifier["MAXIMUM_QOS"] = 36
      /\ Identifier["RETAIN_AVAILABLE"] = 37
      /\ Identifier["WILDCARD_SUBSCRIPTION_AVAILABLE"] = 40
      /\ Identifier["SUBSCRIPTION_ID_AVAILABLE"] = 41
      /\ Identifier["SHARED_SUBSCRIPTION_AVAILABLE"] = 42
  BY DEF Identifier, PropertyTypes, ByteProperties
<1>2. /\ Identifier["SERVER_KEEP_ALIVE"] = 19
      /\ Identifier["RECEIVE_MAXIMUM"] = 33
      /\ Identifier["TOPIC_ALIAS_MAXIMUM"] = 34
      /\ Identifier["TOPIC_ALIAS"] = 35
  BY DEF Identifier, PropertyTypes, TwoByteProperties
<1>3. /\ Identifier["MESSAGE_EXPIRY_INTERVAL"] = 2
      /\ Identifier["SESSION_EXPIRY_INTERVAL"] = 17
      /\ Identifier["WILL_DELAY_INTERVAL"] = 24
      /\ Identifier["MAXIMUM_PACKET_SIZE"] = 39
  BY DEF Identifier, PropertyTypes, FourByteProperties
<1>4. /\ Identifier["CONTENT_TYPE"] = 3
      /\ Identifier["RESPONSE_TOPIC"] = 8
      /\ Identifier["ASSIGNED_CLIENT_ID"] = 18
      /\ Identifier["AUTHENTICATION_METHOD"] = 21
      /\ Identifier["RESPONSE_INFORMATION"] = 26
      /\ Identifier["SERVER_REFERENCE"] = 28
      /\ Identifier["REASON_STRING"] = 31
  BY DEF Identifier, PropertyTypes, StringProperties
<1>5. /\ Identifier["CORRELATION_DATA"] = 9
      /\ Identifier["AUTHENTICATION_DATA"] = 22
  BY DEF Identifier, PropertyTypes, BinaryProperties
<1>6. /\ Identifier["SUBSCRIPTION_ID"] = 11
      /\ Identifier["USER_PROPERTY"] = 38
  BY DEF Identifier, PropertyTypes
<1>7. {1, 2, 3, 8, 9, 11, 17, 18, 19, 21, 22, 23, 24, 25, 26, 28, 31, 33, 34, 35,
       36, 37, 38, 39, 40, 41, 42} \subseteq Byte
  BY DEF Byte
<1> QED BY <1>1, <1>2, <1>3, <1>4, <1>5, <1>6, <1>7
        DEF PropertyTypes, ByteProperties, TwoByteProperties, FourByteProperties,
            StringProperties, BinaryProperties

\* fill_property writes no more bytes of a property than get_property_size counts,
\* but for the last four.
LEMMA BytesFit ==
    ASSUME cfg \in ClientConfigs, Shaped(cfg), body \in Strings, Len(body) >= 10, NEW n \in 1..17
    PROVE  /\ BytesOf(ConnackProperties[n]) \in Strings
           /\ n <= 13 => Len(BytesOf(ConnackProperties[n])) <= Sizes(n)
<1> DEFINE p == ConnackProperties[n]
           value == PropertyValue(cfg, KeepAlive, p)
<1>1. p \in PropertyTypes
  BY DEF ConnackProperties, PropertyTypes, ByteProperties, TwoByteProperties,
         FourByteProperties, StringProperties, BinaryProperties
<1>2. KeepAlive \in Strings /\ Len(KeepAlive) = 2
  <2>1. 9 \in Nat \ {0} /\ 10 \in Int /\ Len(body) \in Nat
    BY LenProperties DEF Strings
  <2> QED BY <2>1, Slice DEF KeepAlive
<1>3. \A q \in ConfigProperties : cfg.property[q] \in Strings
  BY DEF ClientConfigs
<1>4. cfg.userProperties \in Seq(ShortPairs)
  BY DEF Shaped
<1>5. UserBytes(cfg.userProperties) \in Strings
      /\ Len(UserBytes(cfg.userProperties)) = PairBytes(cfg.userProperties)
      /\ PairBytes(cfg.userProperties) \in Nat
  BY <1>4, UserBytesCount
<1>6. StringBytes(ReasonString) \in Strings /\ Len(StringBytes(ReasonString)) = 19
  <2>1. ReasonString \in Seq(Byte) /\ Len(ReasonString) = 17
    <3>1. 69 \in Byte
      BY DEF Byte
    <3> QED BY <3>1 DEF ReasonString, ReasonStringSize
  <2>2. ReasonString \in ShortStrings
    <3>1. ReasonString \in Strings /\ Len(ReasonString) <= 65535
      BY <2>1 DEF Strings
    <3> QED BY <3>1 DEF ShortStrings
  <2>3. Len(StringBytes(ReasonString)) = 2 + 17
    BY <2>1, <2>2, StringBytesFit
  <2> QED BY <2>2, <2>3, StringBytesFit
<1>7. <<1>> \in Strings /\ Len(<<1>>) = 1
  <2>1. 1 \in Byte
    BY DEF Byte
  <2> QED BY <2>1 DEF Strings
<1>8. value \in Strings
  <2>1. p \in {"SESSION_EXPIRY_INTERVAL", "RECEIVE_MAXIMUM", "MAXIMUM_PACKET_SIZE",
               "TOPIC_ALIAS_MAXIMUM"} => p \in ConfigProperties
    BY DEF ConfigProperties, InConnect
  <2>2. "REQUEST_RESPONSE_INFORMATION" \in ConfigProperties
    BY DEF ConfigProperties, InConnect
  <2> HIDE DEF p
  <2> QED BY <1>2, <1>3, <1>5, <1>6, <1>7, <2>1, <2>2 DEF PropertyValue
<1>9. ASSUME p \notin {"ASSIGNED_CLIENT_ID", "AUTHENTICATION_METHOD", "AUTHENTICATION_DATA"}
      PROVE  BytesOf(p) \in Strings /\ Len(BytesOf(p)) = 1 + Len(value)
  <2>1. BytesOf(p) = <<Identifier[p]>> \o value
    BY <1>9 DEF BytesOf, PropertyBytes
  <2> HIDE DEF p, value
  <2> QED BY <1>1, <1>8, <2>1, Prefixed, IdentifierIsByte
<1>10. ASSUME p \in {"ASSIGNED_CLIENT_ID", "AUTHENTICATION_METHOD", "AUTHENTICATION_DATA"}
       PROVE  BytesOf(p) \in Strings /\ Len(BytesOf(p)) = 0
  <2>1. BytesOf(p) = <<>>
    BY <1>10 DEF BytesOf, PropertyBytes
  <2> HIDE DEF p
  <2> QED BY <2>1, EmptySeq DEF Strings
<1>11. ASSUME n <= 13 PROVE Len(BytesOf(p)) <= Sizes(n)
  <2>1. CASE n \in {1, 2, 5, 7}
    <3>1. /\ p \in {"SESSION_EXPIRY_INTERVAL", "RECEIVE_MAXIMUM", "MAXIMUM_PACKET_SIZE",
                    "TOPIC_ALIAS_MAXIMUM"}
          /\ p \in ConfigProperties /\ IsPropertyFixed(p) /\ Sizes(n) = 1 + FixedSize(p)
          /\ FixedSize(p) \in Nat
      BY <2>1 DEF ConnackProperties, ConfigProperties, InConnect, IsPropertyFixed, FixedSize,
                  ByteProperties, TwoByteProperties, FourByteProperties, Sizes, GetPropertySize
    <3>2. value = cfg.property[p] /\ Len(cfg.property[p]) = FixedSize(p)
      <4> HIDE DEF p
      <4> QED BY <3>1 DEF PropertyValue, Shaped, Widths
    <3> HIDE DEF p, value
    <3> QED BY <1>9, <3>1, <3>2
  <2>2. CASE n \in {3, 4, 10, 11, 12}
    <3>1. p \in {"MAXIMUM_QOS", "RETAIN_AVAILABLE", "WILDCARD_SUBSCRIPTION_AVAILABLE",
                 "SUBSCRIPTION_ID_AVAILABLE", "SHARED_SUBSCRIPTION_AVAILABLE"}
      BY <2>2 DEF ConnackProperties
    <3>2. value = <<1>> /\ Sizes(n) = 2
      <4>1. Sizes(n) = 2
        BY <2>2, SizesAre
      <4> HIDE DEF p
      <4> QED BY <3>1, <4>1 DEF PropertyValue
    <3>3. Len(BytesOf(p)) = 1 + Len(value)
      BY <1>9, <3>1
    <3>4. Len(value) = 1
      BY <1>7, <3>2
    <3> HIDE DEF p, value
    <3> QED BY <3>1, <3>2, <3>3, <3>4
  <2>3. CASE n = 6
    <3>1. p = "ASSIGNED_CLIENT_ID" /\ Sizes(n) \in {0, 3}
      BY <2>3, SizesAre DEF ConnackProperties
    <3> HIDE DEF p
    <3> QED BY <1>10, <3>1
  <2>4. CASE n = 8
    <3>1. p = "REASON_STRING" /\ Sizes(n) = 20
      BY <2>4, SizesAre DEF ConnackProperties
    <3>2. value = StringBytes(ReasonString)
      BY <3>1 DEF PropertyValue
    <3>3. Len(BytesOf(p)) = 1 + Len(value)
      BY <1>9, <3>1
    <3>4. Len(value) = 19
      BY <1>6, <3>2
    <3>5. Sizes(n) = 20
      BY <3>1
    <3> HIDE DEF p, value
    <3> QED BY <3>3, <3>4, <3>5
  <2>5. CASE n = 9
    <3>1. p = "USER_PROPERTY" /\ Sizes(n) = 1 + PairBytes(cfg.userProperties)
      BY <2>5, SizesAre DEF ConnackProperties
    <3>2. value = UserBytes(cfg.userProperties)
      BY <3>1 DEF PropertyValue
    <3> HIDE DEF p, value
    <3> QED BY <1>5, <1>9, <3>1, <3>2
  <2>6. CASE n = 13
    <3>1. p = "SERVER_KEEP_ALIVE" /\ Sizes(n) = 3
      BY <2>6, SizesAre DEF ConnackProperties
    <3>2. value = KeepAlive
      BY <3>1 DEF PropertyValue
    <3>3. Len(BytesOf(p)) = 1 + Len(value)
      BY <1>9, <3>1
    <3>4. Len(value) = 2
      BY <1>2, <3>2
    <3>5. Sizes(n) = 3
      BY <3>1
    <3> HIDE DEF p, value
    <3> QED BY <3>3, <3>4, <3>5
  <2>7. n \in {1, 2, 5, 7} \/ n \in {3, 4, 10, 11, 12} \/ n \in {6, 8, 9, 13}
    BY <1>11
  <2> QED BY <2>1, <2>2, <2>3, <2>4, <2>5, <2>6, <2>7
<1> HIDE DEF p
<1> QED BY <1>9, <1>10, <1>11 DEF p

\* The string behind a length of two bytes.
LEMMA AnnouncedIsShort ==
    ASSUME NEW s \in Strings, HoldsString(s)
    PROVE  StringOf(s) \in ShortStrings
<1>1. Len(s) \in Nat /\ Len(s) >= 2 /\ Len(s) >= 2 + Length(s)
  BY LenProperties DEF HoldsString, Strings
<1>2. Length(s) \in Nat /\ Length(s) <= 65535
  <2>1. s[1] \in Byte /\ s[2] \in Byte
    <3>1. \A i \in 1..Len(s) : s[i] \in Byte
      BY DEF Strings
    <3> QED BY <1>1, <3>1
  <2>2. \A a, b \in Byte : a * 256 + b \in Nat /\ a * 256 + b <= 65535
    BY DEF Byte
  <2> DEFINE x == s[1]
             y == s[2]
  <2>3. Length(s) = x * 256 + y
    BY DEF Length
  <2> HIDE DEF x, y
  <2> QED BY <2>1, <2>2, <2>3 DEF x, y
<1>3. StringOf(s) \in Strings /\ Len(StringOf(s)) <= 65535
  BY <1>1, <1>2, Slice DEF StringOf
<1> QED BY <1>3 DEF ShortStrings

\* What get_property_data returns is as wide as the property is, and a pair was
\* announced in two bytes twice.
LEMMA DataFits ==
    ASSUME NEW p, NEW s \in Strings, Present(p, s)
    PROVE  /\ IsPropertyFixed(p) => Len(DataOf(p, s)) = FixedSize(p)
           /\ p = "USER_PROPERTY" => DataOf(p, s) \in ShortPairs
<1>1. ASSUME IsPropertyFixed(p) PROVE Len(DataOf(p, s)) = FixedSize(p)
  <2>0. DataType(p) \in {"BYTE", "TWO_BYTES_INT", "FOUR_BYTES_INT"}
    BY <1>1, Zenon DEF IsPropertyFixed, DataType, ByteProperties, TwoByteProperties,
                FourByteProperties, StringProperties, BinaryProperties
  <2>1. FixedSize(p) \in {1, 2, 4}
    BY DEF FixedSize
  <2>2. FixedSize(p) <= Len(s)
    BY <1>1, <2>0 DEF Present
  <2>3. DataOf(p, s) = SubSeq(s, 1, FixedSize(p))
    BY <1>1, <2>0 DEF DataOf
  <2> HIDE DEF FixedSize
  <2> QED BY <2>1, <2>2, <2>3, Slice
<1>2. ASSUME p = "USER_PROPERTY" PROVE DataOf(p, s) \in ShortPairs
  <2>1. ~IsPropertyFixed(p) /\ DataType(p) = "UTF8_STRING_PAIR"
    BY <1>2, Zenon DEF IsPropertyFixed, DataType, ByteProperties, TwoByteProperties,
                FourByteProperties, StringProperties, BinaryProperties
  <2>2. HoldsString(s) /\ HoldsString(Behind(s))
    BY <2>1 DEF Present, IsString
  <2>3. DataOf(p, s) = <<StringOf(s), StringOf(Behind(s))>>
    BY <2>1 DEF DataOf
  <2>4. Behind(s) \in Strings
    BY <2>2, StringFits
  <2> QED BY <2>2, <2>3, <2>4, AnnouncedIsShort DEF ShortPairs
<1> QED BY <1>1, <1>2

\* A configuration with the same properties is shaped alike.
LEMMA SameShape ==
    ASSUME NEW c, NEW d, Shaped(c), d.property = c.property, d.userProperties = c.userProperties
    PROVE  Shaped(d)
  BY DEF Shaped, Widths

LEMMA ConfiguresShaped ==
    ASSUME NEW c \in ClientConfigs, Shaped(c), NEW p, NEW data,
           IsPropertyFixed(p) => Len(data) = FixedSize(p),
           p = "USER_PROPERTY" => data \in ShortPairs
    PROVE  Shaped(ConfigurePropriety(c, p, data).cfg)
<1> DEFINE d == ConfigurePropriety(c, p, data).cfg
<1>1. CASE p = "USER_PROPERTY"
  <2>1. d = [c EXCEPT !.userProperties = Append(@, data)]
    BY <1>1 DEF ConfigurePropriety, ConfigProperties
  <2>2. d.property = c.property /\ d.userProperties = Append(c.userProperties, data)
    BY <2>1 DEF ClientConfigs
  <2>3. Append(c.userProperties, data) \in Seq(ShortPairs)
    BY <1>1, AppendProperties DEF Shaped
  <2> HIDE DEF d
  <2>4. Widths(d)
    BY <2>2 DEF Shaped, Widths
  <2> QED BY <2>2, <2>3, <2>4 DEF Shaped, d
<1>2. CASE p # "USER_PROPERTY" /\ d # c
  <2>1. p \in ConfigProperties /\ d = [c EXCEPT !.property[p] = data]
    BY <1>2 DEF ConfigurePropriety
  <2>2. /\ d.userProperties = c.userProperties
        /\ \A q \in ConfigProperties : d.property[q] = IF q = p THEN data ELSE c.property[q]
    BY <2>1 DEF ClientConfigs
  <2> HIDE DEF d
  <2>3. Widths(d)
    BY <2>2 DEF Shaped, Widths
  <2> QED BY <2>2, <2>3 DEF Shaped, d
<1>3. CASE d = c
  BY <1>3
<1> QED BY <1>1, <1>2, <1>3

LEMMA ConfiguresWillShaped ==
    ASSUME NEW c \in ClientConfigs, Shaped(c), NEW p, NEW data
    PROVE  Shaped(ConfigureWillPropriety(c, p, data).cfg)
<1> DEFINE d == ConfigureWillPropriety(c, p, data).cfg
<1>1. \/ d = c
      \/ d = [c EXCEPT !.will.userProperties = Append(@, data)]
      \/ d = [c EXCEPT !.will.property[p] = data]
  BY DEF ConfigureWillPropriety
<1>2. d.property = c.property /\ d.userProperties = c.userProperties
  BY <1>1 DEF ClientConfigs
<1> HIDE DEF d
<1> QED BY <1>2, SameShape DEF d

\* What is configured of a property that is not refused.
LEMMA ConfiguredIsShaped ==
    ASSUME DecoderInv, Shaped(cfg), phase = "properties", pos # stop, NEW p,
           PropertyCode(p, Between(pos + 1, stop)) = "SUCCESS"
    PROVE  Shaped(Configured(p, Between(pos + 1, stop)).cfg)
<1> DEFINE s == Between(pos + 1, stop)
           data == DataOf(p, s)
<1>1. s \in Strings /\ cfg \in ClientConfigs
  BY Remaining DEF DecoderInv, DecoderTypeOK
<1>2. Present(p, s)
  BY DEF PropertyCode
<1> HIDE DEF s
<1>3. /\ IsPropertyFixed(p) => Len(data) = FixedSize(p)
      /\ p = "USER_PROPERTY" => data \in ShortPairs
  BY <1>1, <1>2, DataFits
<1>4. Configured(p, s).cfg = IF will THEN ConfigureWillPropriety(cfg, p, data).cfg
                                     ELSE ConfigurePropriety(cfg, p, data).cfg
  BY DEF Configured
<1> HIDE DEF data
<1>5. Shaped(Configured(p, s).cfg)
  BY <1>1, <1>3, <1>4, ConfiguresShaped, ConfiguresWillShaped
<1> QED BY <1>5 DEF s

LEMMA Joined == \A u, v \in Strings : u \o v \in Strings /\ Len(u \o v) = Len(u) + Len(v)
  BY ConcatProperties DEF Strings

LEMMA ResizedFits ==
    ASSUME NEW bytes \in Strings, NEW head \in Strings, NEW size \in Nat
    PROVE  Resized(bytes, head, size) \in Strings /\ Len(Resized(bytes, head, size)) = size
<1> DEFINE kept == SubSeq(bytes, Len(head) + 1, Len(bytes))
           all == head \o kept \o Zeros(size)
<1>1. Len(head) \in Nat /\ Len(bytes) \in Nat
  BY LenProperties DEF Strings
<1>2. kept \in Strings
  BY <1>1, Slice
<1>3. Zeros(size) \in Strings /\ Len(Zeros(size)) = size
  BY DEF Zeros, Strings, Byte
<1> HIDE DEF kept
<1>4. all \in Strings /\ Len(all) >= size
  <2>1. head \o kept \in Strings /\ Len(head \o kept) \in Nat
    BY <1>2, Joined, LenProperties DEF Strings
  <2>2. all \in Strings /\ Len(all) = Len(head \o kept) + size
    BY <1>3, <2>1, Joined
  <2> HIDE DEF all
  <2> QED BY <2>1, <2>2
<1>5. Resized(bytes, head, size) = SubSeq(all, 1, size)
  BY DEF Resized, kept
<1>6. Len(all) \in Nat
  BY <1>4, LenProperties DEF Strings
<1> HIDE DEF all
<1> QED BY <1>4, <1>5, <1>6, Slice

LEMMA OverwrittenFits ==
    ASSUME NEW bytes \in Strings, NEW new \in Strings, NEW n \in Nat, n <= Len(bytes)
    PROVE  /\ Overwritten(bytes, n, new) \in Strings
           /\ Len(Overwritten(bytes, n, new)) = Len(bytes)
<1> DEFINE front == SubSeq(bytes, 1, n)
           back == SubSeq(bytes, n + Len(new) + 1, Len(bytes))
           all == front \o new \o back
<1>1. Len(bytes) \in Nat /\ Len(new) \in Nat
  BY LenProperties DEF Strings
<1>2. front \in Strings /\ Len(front) = n
  BY Slice
<1>3. back \in Strings /\ Len(back) >= Len(bytes) - n - Len(new) /\ Len(back) \in Nat
  <2>1. back \in Strings /\ Len(back) = IF n + Len(new) + 1 <= Len(bytes)
                                        THEN Len(bytes) - (n + Len(new) + 1) + 1 ELSE 0
    BY <1>1, Slice
  <2> HIDE DEF back
  <2> QED BY <1>1, <2>1
<1> HIDE DEF front, back
<1>4. all \in Strings /\ Len(all) >= Len(bytes)
  <2>1. front \o new \in Strings /\ Len(front \o new) = n + Len(new)
    BY <1>2, Joined
  <2>2. all \in Strings /\ Len(all) = Len(front \o new) + Len(back)
    BY <1>3, <2>1, Joined
  <2> HIDE DEF all
  <2> QED BY <1>1, <1>3, <2>1, <2>2
<1>5. Overwritten(bytes, n, new) = SubSeq(all, 1, Len(bytes))
  BY DEF Overwritten, front, back
<1>6. Len(all) \in Nat
  BY <1>4, LenProperties DEF Strings
<1> HIDE DEF all
<1> QED BY <1>1, <1>4, <1>5, <1>6, Slice

LEMMA HeadFits ==
    ASSUME PropertiesSize \in Nat, LengthFits(VariablePacketSize), LengthFits(PropertiesSize)
    PROVE  ConnackHead \in Strings
<1>1. \A v : GetVariableIntSize(v) \in 1..4
  BY DEF GetVariableIntSize
<1>2. VariablePacketSize \in Nat
  <2>1. GetVariableIntSize(PropertiesSize) \in Nat
    BY <1>1
  <2> QED BY <2>1 DEF VariablePacketSize
<1>3. /\ EncodeVariableInt(VariablePacketSize) \in Strings
      /\ EncodeVariableInt(PropertiesSize) \in Strings
  BY <1>1, <1>2, EncodedFits DEF LengthFits, Strings, Byte
<1>4. <<32>> \in Strings /\ <<0, 0>> \in Strings
  BY DEF Strings, Byte
<1>5. \A u, v, w, x \in Strings : u \o v \o w \o x \in Strings
  BY Joined
<1> QED BY <1>3, <1>4, <1>5 DEF ConnackHead

-------------------------------------------------------------------------------
(* The CONNACK: the invariant of what writes it. *)

WriterTypeOK == index \in 1..18 /\ left \in Nat /\ reply \in Strings

\* The keep alive is there to be sent back.
HasKeepAlive ==
    /\ phase \in {"payload", "connack", "fill"} => Len(body) >= 10
    /\ phase = "properties" /\ type = "CONNECT" => Len(body) >= 10

\* What is left is the size of the properties that are still to be written.
LeftIsRest == phase = "fill" => /\ left = SizeUpTo[17] - SizeUpTo[index - 1]
                                /\ left <= Len(reply)

WriterInv == DecoderInv /\ WriterTypeOK /\ Shaped(cfg) /\ HasKeepAlive /\ LeftIsRest

LEMMA WriterInit == Init => WriterInv
<1> SUFFICES ASSUME Init PROVE WriterInv
  OBVIOUS
<1>1. WriterTypeOK /\ HasKeepAlive /\ LeftIsRest
  BY EmptySeq DEF Init, WriterTypeOK, HasKeepAlive, LeftIsRest, Strings
<1>2. DefaultConfig.userProperties \in Seq(ShortPairs)
  BY EmptySeq DEF DefaultConfig
<1>3. Widths(DefaultConfig)
  <2>1. /\ DefaultConfig.property["SESSION_EXPIRY_INTERVAL"] = <<170, 187, 204, 221>>
        /\ DefaultConfig.property["RECEIVE_MAXIMUM"] = <<255, 255>>
        /\ DefaultConfig.property["MAXIMUM_PACKET_SIZE"] = <<255, 255, 255, 255>>
        /\ DefaultConfig.property["TOPIC_ALIAS_MAXIMUM"] = <<0, 0>>
        /\ DefaultConfig.property["REQUEST_PROBLEM_INFORMATION"] = <<0>>
        /\ DefaultConfig.property["REQUEST_RESPONSE_INFORMATION"] = <<0>>
    BY DEF DefaultConfig, ConfigProperties, InConnect, ByteProperties
  <2>2. \A p \in ConfigProperties : IsPropertyFixed(p) =>
           p \in {"SESSION_EXPIRY_INTERVAL", "RECEIVE_MAXIMUM", "MAXIMUM_PACKET_SIZE",
                  "TOPIC_ALIAS_MAXIMUM", "REQUEST_PROBLEM_INFORMATION",
                  "REQUEST_RESPONSE_INFORMATION"}
    BY DEF ConfigProperties, InConnect, IsPropertyFixed, ByteProperties, TwoByteProperties,
           FourByteProperties
  <2>3. /\ FixedSize("SESSION_EXPIRY_INTERVAL") = 4 /\ FixedSize("RECEIVE_MAXIMUM") = 2
        /\ FixedSize("MAXIMUM_PACKET_SIZE") = 4 /\ FixedSize("TOPIC_ALIAS_MAXIMUM") = 2
        /\ FixedSize("REQUEST_PROBLEM_INFORMATION") = 1
        /\ FixedSize("REQUEST_RESPONSE_INFORMATION") = 1
    BY DEF FixedSize, ByteProperties, TwoByteProperties
  <2>4. /\ Len(<<170, 187, 204, 221>>) = 4 /\ Len(<<255, 255>>) = 2
        /\ Len(<<255, 255, 255, 255>>) = 4 /\ Len(<<0, 0>>) = 2 /\ Len(<<0>>) = 1
    OBVIOUS
  <2> DEFINE width(p) == Len(DefaultConfig.property[p]) = FixedSize(p)
  <2>5. /\ width("SESSION_EXPIRY_INTERVAL")
        /\ width("RECEIVE_MAXIMUM")
        /\ width("MAXIMUM_PACKET_SIZE")
        /\ width("TOPIC_ALIAS_MAXIMUM")
        /\ width("REQUEST_PROBLEM_INFORMATION")
        /\ width("REQUEST_RESPONSE_INFORMATION")
    BY <2>1, <2>3, <2>4
  <2>6. ASSUME NEW p \in ConfigProperties, IsPropertyFixed(p)
        PROVE  Len(DefaultConfig.property[p]) = FixedSize(p)
    <3>1. p \in {"SESSION_EXPIRY_INTERVAL", "RECEIVE_MAXIMUM", "MAXIMUM_PACKET_SIZE",
                 "TOPIC_ALIAS_MAXIMUM", "REQUEST_PROBLEM_INFORMATION",
                 "REQUEST_RESPONSE_INFORMATION"}
      BY <2>2, <2>6
    <3> HIDE DEF width
    <3>2. width(p)
      BY <2>5, <3>1, Zenon
    <3> QED BY <3>2 DEF width
  <2> QED BY <2>6 DEF Widths
<1>4. Shaped(cfg)
  BY <1>2, <1>3 DEF Init, Shaped
<1> QED BY <1>1, <1>4, InitHolds DEF WriterInv

\* A step that writes nothing of a CONNACK.
LEMMA WriterFrame ==
    ASSUME WriterInv, UNCHANGED out, phase' # "fill", Shaped(cfg'), HasKeepAlive'
    PROVE  WriterTypeOK' /\ Shaped(cfg)' /\ HasKeepAlive' /\ LeftIsRest'
<1>1. WriterTypeOK' /\ LeftIsRest'
  BY DEF WriterInv, WriterTypeOK, LeftIsRest, out
<1> QED BY <1>1 DEF Shaped, Widths

\* decode_connect_packet_body, decode_publish_packet_body and what they call.
LEMMA DecodeWrites ==
    ASSUME WriterInv, Receive \/ Decode
    PROVE  UNCHANGED out /\ phase' # "fill" /\ Shaped(cfg') /\ HasKeepAlive'
<1> USE DEF WriterInv, HasKeepAlive, packet, cursor
<1>1. CASE Receive
  BY <1>1 DEF Receive
<1>2. ASSUME NEW code, Refuse(code), Shaped(cfg')
      PROVE  UNCHANGED out /\ phase' # "fill" /\ Shaped(cfg') /\ HasKeepAlive'
  BY <1>2 DEF Refuse
<1>3. CASE DecodeConnect
  <2>1. /\ Len(body) >= 10 /\ phase' = "properties" /\ UNCHANGED <<body, out>>
        /\ cfg' = WithFlags(body[8])
    <3>1. Len(body) >= 13 /\ Len(body) \in Nat
      BY <1>3, Remaining DEF DecodeConnect
    <3> QED BY <1>3, <3>1 DEF DecodeConnect, EnterProperties
  <2>2. /\ WithFlags(body[8]).property = cfg.property
        /\ WithFlags(body[8]).userProperties = cfg.userProperties
    BY DEF WithFlags, DecoderInv, DecoderTypeOK, ClientConfigs
  <2>3. Shaped(cfg')
    BY <2>1, <2>2, SameShape
  <2> QED BY <2>1, <2>3
<1>4. CASE RefuseConnect
  BY <1>2, <1>4 DEF RefuseConnect
<1>5. CASE ReadProperty
  <2> DEFINE p == PropertyOf(body[pos + 1])
             s == Between(pos + 1, stop)
  <2>1. /\ phase = "properties" /\ pos # stop /\ PropertyCode(p, s) = "SUCCESS"
        /\ cfg' = Configured(p, s).cfg /\ UNCHANGED <<phase, type, body, out>>
    BY <1>5 DEF ReadProperty
  <2>2. Shaped(cfg')
    BY <2>1, ConfiguredIsShaped
  <2> QED BY <2>1, <2>2
<1>6. CASE RefuseProperty
  <2> DEFINE p == PropertyOf(body[pos + 1])
             s == Between(pos + 1, stop)
  <2>1. /\ phase = "properties" /\ pos # stop
        /\ cfg' = cfg \/ (PropertyCode(p, s) = "SUCCESS" /\ cfg' = Configured(p, s).cfg)
        /\ phase' \in {"message", "closed"} /\ UNCHANGED <<type, body, out>>
    BY <1>6 DEF RefuseProperty
  <2>2. Shaped(cfg')
    BY <2>1, ConfiguredIsShaped
  <2> QED BY <2>1, <2>2
<1>7. CASE EndProperties
  <2>1. phase = "properties" => type \in {"CONNECT", "PUBLISH"}
    BY DEF DecoderInv, Callers
  <2> QED BY <1>7, <2>1 DEF EndProperties
<1>8. CASE EndPayload \/ SkipPayload
  BY <1>8 DEF EndPayload, SkipPayload, AtPayload
<1>9. CASE EnterWillProperties
  BY <1>9 DEF EnterWillProperties, AtPayload, EnterProperties
<1>10. CASE ReadPayload
  <2> DEFINE c == ConfigurePayload(cfg, Payload, StringOf(From(pos)))
  <2>1. cfg' = c.cfg /\ UNCHANGED <<phase, type, body, out>> /\ phase = "payload"
    BY <1>10 DEF ReadPayload, AtPayload
  <2>2. c.cfg.property = cfg.property /\ c.cfg.userProperties = cfg.userProperties
    BY DEF ConfigurePayload, DecoderInv, DecoderTypeOK, ClientConfigs
  <2>3. Shaped(cfg')
    <3> HIDE DEF c
    <3> QED BY <2>1, <2>2, SameShape
  <2> QED BY <2>1, <2>3
<1>11. CASE RefusePayload
  BY <1>2, <1>11 DEF RefusePayload
<1>12. CASE DecodePublish
  <2>1. PICK topic \in Topics : KeepTopic(topic) /\ ReadLength(TopicSize(topic))
    BY <1>12 DEF DecodePublish
  <2>2. /\ type = "PUBLISH"
        /\ phase' \in {"closed", "properties", "message"} /\ UNCHANGED <<type, body, out>>
    BY <1>12, <2>1 DEF DecodePublish, ReadLength, EnterProperties, Refuse
  <2>3. Shaped(cfg')
    BY <2>1, KeepTopicKeeps, SameShape
  <2> QED BY <2>2, <2>3
<1>13. CASE DecodePublishOverrun
  <2>1. PICK topic \in Topics : KeepTopic(topic) /\ Refuse("MALFORMED_PACKET")
    BY <1>13 DEF DecodePublishOverrun
  <2>2. Shaped(cfg')
    BY <2>1, KeepTopicKeeps, SameShape
  <2> QED BY <1>2, <2>1, <2>2
<1>14. CASE ReadMessage
  BY <1>2, <1>14 DEF ReadMessage
<1>15. CASE DecodeDisconnect
  BY <1>2, <1>15 DEF DecodeDisconnect
<1>16. CASE DecodeCrashes
  BY <1>16 DEF DecodeCrashes
<1> QED BY <1>1, <1>3, <1>4, <1>5, <1>6, <1>7, <1>8, <1>9, <1>10, <1>11, <1>12, <1>13,
           <1>14, <1>15, <1>16 DEF Decode

\* In the loop of create_connack_packet.
LEMMA LeftToFill ==
    ASSUME WriterInv, phase = "fill", left # 0
    PROVE  index \in 1..13 /\ left = SizeUpTo[17] - SizeUpTo[index - 1]
<1>1. index \in 1..18 /\ left = SizeUpTo[17] - SizeUpTo[index - 1]
  BY DEF WriterInv, WriterTypeOK, LeftIsRest
<1>2. cfg \in ClientConfigs /\ Shaped(cfg)
  BY DEF WriterInv, DecoderInv, DecoderTypeOK
<1>3. ASSUME index >= 14 PROVE FALSE
  <2>1. index - 1 \in 13..17
    BY <1>1, <1>3
  <2>2. SizeUpTo[index - 1] = SizeUpTo[17] /\ SizeUpTo[17] \in Nat
    BY <1>2, <2>1, SizesAddUp
  <2> QED BY <1>1, <2>2
<1> QED BY <1>1, <1>3

LEMMA AnswerWrites ==
    ASSUME WriterInv, Answer
    PROVE  WriterTypeOK' /\ Shaped(cfg)' /\ HasKeepAlive' /\ LeftIsRest'
<1> USE DEF WriterInv, packet
<1>1. cfg \in ClientConfigs /\ cfg' = cfg /\ body \in Strings /\ Len(body) >= 10 /\ body' = body
  BY DEF DecoderInv, DecoderTypeOK, Answer, CreateConnack, FillProperty, SendConnack,
         HasKeepAlive, Refuse
<1>2. /\ SizeUpTo' = SizeUpTo /\ Shaped(cfg)'
      /\ SizeUpTo[0] = 0 /\ SizeUpTo[17] \in Nat
  <2>1. SizeUpTo' = SizeUpTo
    BY <1>1 DEF SizeUpTo
  <2>2. Shaped(cfg)'
    BY <1>1 DEF Shaped, Widths
  <2> QED BY <1>1, <2>1, <2>2, SizesAddUp
<1>3. ASSUME Refuse(rcode) PROVE WriterTypeOK' /\ HasKeepAlive' /\ LeftIsRest'
  BY <1>3 DEF Refuse, WriterTypeOK, HasKeepAlive, LeftIsRest, out
<1>4. CASE CreateConnack /\ ~Refuse(rcode)
  <2>1. /\ phase' = "fill" /\ index' = 1 /\ left' = SizeUpTo[17]
        /\ reply' = Resized(reply, ConnackHead, Len(ConnackHead) + SizeUpTo[17])
        /\ ConnackHead \in Strings
    BY <1>2, <1>4, HeadFits DEF CreateConnack, PropertiesSize
  <2>2. reply' \in Strings /\ Len(reply') = Len(ConnackHead) + SizeUpTo[17]
        /\ Len(ConnackHead) \in Nat
    <3>1. Len(ConnackHead) \in Nat /\ reply \in Strings
      BY <2>1, LenProperties DEF Strings, WriterTypeOK
    <3>2. Len(ConnackHead) + SizeUpTo[17] \in Nat
      BY <1>2, <3>1
    <3> QED BY <2>1, <3>1, <3>2, ResizedFits
  <2>3. index' - 1 = 0 /\ left' <= Len(reply') /\ SizeUpTo[17] - SizeUpTo[0] = SizeUpTo[17]
    BY <1>2, <2>1, <2>2
  <2>4. LeftIsRest'
    BY <1>2, <2>1, <2>3 DEF LeftIsRest
  <2> QED BY <1>1, <1>2, <2>1, <2>2, <2>4 DEF WriterTypeOK, HasKeepAlive
<1>5. CASE FillProperty /\ ~Refuse(rcode)
  <2> DEFINE p == ConnackProperties[index]
  <2>1. /\ phase = "fill" /\ left # 0 /\ left >= Sizes(index) /\ phase' = phase
        /\ left' = left - Sizes(index) /\ index' = index + 1
        /\ reply' = Overwritten(reply, Len(reply) - left, BytesOf(p))
    BY <1>5 DEF FillProperty, Fills, Sizes
  <2>2. index \in 1..13 /\ left = SizeUpTo[17] - SizeUpTo[index - 1]
    BY <2>1, LeftToFill
  <2>3. index \in 1..17
    BY <2>2
  <2>4. /\ Sizes(index) \in Nat /\ SizeUpTo[index] = SizeUpTo[index - 1] + Sizes(index)
        /\ SizeUpTo[index - 1] \in Nat /\ SizeUpTo[index] \in Nat
    <3>1. index - 1 \in 0..17 /\ index \in 0..17
      BY <2>2
    <3> QED BY <1>1, <2>3, <3>1, SizesAddUp, SizesCount
  <2>5. /\ left \in Nat /\ Len(reply) \in Nat /\ left <= Len(reply)
        /\ Len(reply) - left \in Nat /\ Len(reply) - left <= Len(reply)
    BY <2>1, LenProperties DEF WriterTypeOK, LeftIsRest, Strings
  <2>6. reply' \in Strings /\ Len(reply') = Len(reply)
    <3>1. BytesOf(p) \in Strings /\ reply \in Strings
      BY <1>1, <2>3, BytesFit DEF WriterTypeOK
    <3> HIDE DEF p
    <3> QED BY <2>1, <2>5, <3>1, OverwrittenFits
  <2>7. /\ left' \in Nat /\ left' = SizeUpTo[17] - SizeUpTo[index] /\ left' <= Len(reply)
        /\ index' \in 1..18 /\ index' - 1 = index
    <3>1. index' \in 1..18 /\ index' - 1 = index
      BY <2>1, <2>2
    <3>2. left' \in Nat /\ left' <= Len(reply)
      BY <2>1, <2>4, <2>5
    <3>3. left' = SizeUpTo[17] - SizeUpTo[index]
      BY <1>2, <2>1, <2>2, <2>4
    <3> QED BY <3>1, <3>2, <3>3
  <2>8. LeftIsRest'
    BY <1>2, <2>6, <2>7 DEF LeftIsRest
  <2> QED BY <1>1, <2>1, <2>6, <2>7, <2>8 DEF WriterTypeOK, HasKeepAlive
<1>6. CASE SendConnack
  BY <1>6 DEF SendConnack, WriterTypeOK, HasKeepAlive, LeftIsRest, out
<1> QED BY <1>2, <1>3, <1>4, <1>5, <1>6 DEF Answer

LEMMA WriterStep == WriterInv /\ [Next]_vars => WriterInv'
<1> SUFFICES ASSUME WriterInv, [Next]_vars PROVE WriterInv'
  OBVIOUS
<1>1. DecoderInv'
  BY StepKeeps DEF WriterInv
<1>2. CASE Receive \/ Decode
  BY <1>1, <1>2, DecodeWrites, WriterFrame DEF WriterInv
<1>3. CASE Answer
  BY <1>1, <1>3, AnswerWrites DEF WriterInv
<1>4. CASE UNCHANGED vars
  <2>1. SizeUpTo' = SizeUpTo
    BY <1>4 DEF SizeUpTo, vars
  <2> QED BY <1>1, <1>4, <2>1
          DEF WriterInv, WriterTypeOK, Shaped, Widths, HasKeepAlive, LeftIsRest, vars, packet, out
<1> QED BY <1>2, <1>3, <1>4 DEF Next

\* Everything of a connection keeps its type, the CONNACK that is written included:
\* the loop of create_connack_packet does not go past the last property.
THEOREM TypeCorrect == Spec => []TypeOK
<1>1. WriterInv => TypeOK
  BY DEF WriterInv, DecoderInv, WriterTypeOK, TypeOK
<1> QED BY <1>1, WriterInit, WriterStep, PTL DEF Spec

\* When the properties that are counted as 0 are reached, nothing is left.
LEMMA FillStep ==
    ASSUME WriterInv, [Next]_vars, phase = "fill", index' # index
    PROVE  Len(BytesOf(ConnackProperties[index]))
              <= GetPropertySize(cfg, ConnackProperties[index])
<1>1. left # 0
  <2>1. UNCHANGED out \/ Answer
    BY DecodeWrites DEF Next, vars
  <2> QED BY <2>1 DEF out, Answer, CreateConnack, FillProperty, SendConnack
<1>2. index \in 1..13 /\ index \in 1..17
  BY <1>1, LeftToFill
<1>3. cfg \in ClientConfigs /\ Shaped(cfg) /\ body \in Strings /\ Len(body) >= 10
  BY DEF WriterInv, DecoderInv, DecoderTypeOK, HasKeepAlive
<1>4. index <= 13 => Len(BytesOf(ConnackProperties[index])) <= Sizes(index)
  BY <1>2, <1>3, BytesFit
<1> QED BY <1>2, <1>4 DEF Sizes

\* No property of the CONNACK is written over the place of the next one, whatever
\* the client has configured (fill_property, create_connack_packet).
THEOREM FillsInPlace == Spec => FillKeepsPlace
<1>1. WriterInv /\ [Next]_vars =>
         [phase = "fill" /\ index' # index =>
             Len(BytesOf(ConnackProperties[index]))
                <= GetPropertySize(cfg, ConnackProperties[index])]_vars
  BY FillStep
<1> QED BY <1>1, WriterInit, WriterStep, PTL DEF Spec, FillKeepsPlace

-------------------------------------------------------------------------------
(* Decoding ends. *)

\* How many rounds a handler has left, at most: each round of decode_properties
\* moves the cursor, and each round of decode_payload, which may be one of the
\* will properties, takes a slot.
Span == Len(body) + 2
Level(n) == n * (2 * Span)
RoundsLeft ==
    CASE phase = "header"               -> 21 + Level(8)
      [] phase = "properties" /\ ~will  -> 21 + Level(7) + (stop - pos)
      [] phase = "properties" /\ will   -> 21 + Level(7 - slot) + (stop - pos)
      [] phase = "payload"              -> 21 + Level(7 - slot) + Span
      [] phase = "connack"              -> 20
      [] phase = "fill"                 -> 19 - index
      [] phase = "message"              -> 1
      [] phase \in {"idle", "closed", "crashed"} -> 0

LEMMA LevelsAre ==
    ASSUME DecoderInv
    PROVE  /\ Span \in Nat /\ Span >= 2 /\ Len(body) + 2 = Span
           /\ \A n \in 0..8 : Level(n) \in Nat
           /\ \A n \in 0..7 : Level(n + 1) = Level(n) + 2 * Span /\ Level(n) <= Level(7)
<1>1. Span \in Nat /\ Span >= 2 /\ Len(body) + 2 = Span
  BY Remaining DEF Span
<1>2. \A r \in Nat : \A n \in 0..8 : n * (2 * r) \in Nat
  OBVIOUS
<1>3. \A r \in Nat : \A n \in 0..7 : (n + 1) * (2 * r) = n * (2 * r) + 2 * r
  OBVIOUS
<1>4. \A r \in Nat : \A n \in 0..7 : n * (2 * r) <= 7 * (2 * r)
  <2> TAKE r \in Nat
  <2> TAKE n \in 0..7
  <2>1. n \in {0, 1, 2, 3, 4, 5, 6, 7}
    OBVIOUS
  <2> QED BY <2>1
<1> QED BY <1>1, <1>2, <1>3, <1>4 DEF Level

\* The same, phase by phase.
RoundsByPhase ==
    /\ phase = "header" => RoundsLeft = 21 + Level(8)
    /\ phase = "properties" /\ ~will => RoundsLeft = 21 + Level(7) + (stop - pos)
    /\ phase = "properties" /\ will => RoundsLeft = 21 + Level(7 - slot) + (stop - pos)
    /\ phase = "payload" => RoundsLeft = 21 + Level(7 - slot) + Span
    /\ phase = "connack" => RoundsLeft = 20
    /\ phase = "fill" => RoundsLeft = 19 - index
    /\ phase = "message" => RoundsLeft = 1
    /\ phase \in {"idle", "closed", "crashed"} => RoundsLeft = 0

LEMMA RoundsAre == RoundsByPhase
<1> HIDE DEF Level
<1> QED BY Zenon DEF RoundsLeft, RoundsByPhase

LEMMA RoundsAreNext == RoundsByPhase'
  BY RoundsAre, PTL

RoundsBounded ==
    /\ RoundsLeft \in Nat /\ RoundsLeft <= 21 + Level(8)
    /\ phase \in {"header", "properties", "payload"} => RoundsLeft >= 21
    /\ phase \notin {"idle", "closed", "crashed"} => RoundsLeft >= 1

LEMMA RoundsCount == WriterInv => RoundsBounded
<1> SUFFICES ASSUME WriterInv PROVE RoundsBounded
  OBVIOUS
<1>0. DecoderInv /\ phase \in Phases /\ slot \in 1..7 /\ index \in 1..18 /\ will \in BOOLEAN
      /\ pos \in Nat /\ stop \in Nat /\ Len(body) \in Nat
  BY Remaining DEF WriterInv, WriterTypeOK, DecoderInv, DecoderTypeOK
<1>1. /\ Span \in Nat /\ Span >= 2 /\ Len(body) + 2 = Span
      /\ \A n \in 0..8 : Level(n) \in Nat
      /\ \A n \in 0..7 : Level(n + 1) = Level(n) + 2 * Span
  BY <1>0, LevelsAre
<1>2. phase = "properties" => pos <= stop /\ stop <= Len(body)
  BY <1>0 DEF DecoderInv, CursorInside
<1>3. \A n \in 0..7 : Level(n) <= Level(7)
  BY <1>0, LevelsAre
<1> HIDE DEF Level, Span
<1>4. Level(8) = Level(7) + 2 * Span /\ Level(7) \in Nat /\ Level(8) \in Nat
  <2>1. 7 + 1 = 8 /\ 7 \in 0..7 /\ 7 \in 0..8 /\ 8 \in 0..8
    OBVIOUS
  <2>2. Level(7 + 1) = Level(7) + 2 * Span
    BY <1>1, <2>1
  <2> QED BY <1>1, <2>1, <2>2
<1>5. 7 - slot \in 0..7 /\ Level(7 - slot) \in Nat /\ Level(7 - slot) <= Level(7)
  <2>1. 7 - slot \in 0..7 /\ 7 - slot \in 0..8
    BY <1>0
  <2> QED BY <1>1, <1>3, <2>1
<1>6. CASE phase \in {"header", "connack", "fill", "message", "idle", "closed", "crashed"}
  BY <1>0, <1>4, <1>6, RoundsAre DEF RoundsByPhase, RoundsBounded
<1>7. CASE phase = "payload"
  <2>1. RoundsLeft = 21 + Level(7 - slot) + Span
    BY <1>7, RoundsAre DEF RoundsByPhase
  <2>2. \A a, b, c, s \in Nat : a <= b /\ c = b + 2 * s => /\ 21 + a + s \in Nat
                                                        /\ 21 + a + s <= 21 + c
                                                        /\ 21 + a + s >= 21
    OBVIOUS
  <2>3. RoundsLeft \in Nat /\ RoundsLeft <= 21 + Level(8) /\ RoundsLeft >= 21
    BY <1>1, <1>4, <1>5, <2>1, <2>2
  <2> QED BY <2>3, <1>7 DEF RoundsBounded
<1>8. CASE phase = "properties"
  <2>1. PICK a \in Nat : a <= Level(7) /\ RoundsLeft = 21 + a + (stop - pos)
    BY <1>0, <1>4, <1>5, <1>8, RoundsAre DEF RoundsByPhase
  <2>2. stop - pos \in Nat /\ stop - pos <= Span
    BY <1>0, <1>1, <1>2, <1>8
  <2>3. \A b, c, s, x \in Nat :
           b <= c /\ x <= s => /\ 21 + b + x \in Nat /\ 21 + b + x <= 21 + (c + 2 * s)
                              /\ 21 + b + x >= 21
    OBVIOUS
  <2>4. RoundsLeft \in Nat /\ RoundsLeft <= 21 + Level(8) /\ RoundsLeft >= 21
    <3> DEFINE x == stop - pos
    <3>1. x \in Nat /\ x <= Span /\ RoundsLeft = 21 + a + x
      BY <2>1, <2>2
    <3> HIDE DEF x
    <3>2. /\ 21 + a + x \in Nat /\ 21 + a + x <= 21 + (Level(7) + 2 * Span)
          /\ 21 + a + x >= 21
      BY <1>1, <1>4, <2>1, <2>3, <3>1
    <3> QED BY <1>4, <3>1, <3>2
  <2> QED BY <2>4, <1>8 DEF RoundsBounded
<1> QED BY <1>0, <1>6, <1>7, <1>8 DEF Phases, RoundsBounded

LEMMA RoundsCountNext == WriterInv' => RoundsBounded'
  BY RoundsCount, PTL

\* Every step of a handler is a round less.
LEMMA RoundsFall ==
    ASSUME WriterInv, [Next]_vars, Decode \/ Answer
    PROVE  RoundsLeft' < RoundsLeft
<1>0. DecoderInv /\ WriterInv' /\ DecoderInv'
  BY WriterStep DEF WriterInv
<1>1. /\ phase \in Phases /\ slot \in 1..7 /\ index \in 1..18 /\ will \in BOOLEAN
      /\ pos \in Nat /\ stop \in Nat /\ Len(body) \in Nat /\ pos' \in Nat /\ stop' \in Nat
      /\ phase = "properties" => pos <= stop /\ stop <= Len(body)
      /\ phase' = "properties" => pos' <= stop' /\ stop' <= Len(body')
      /\ phase = "properties" /\ will => slot <= 6
      /\ phase = "payload" => type = "CONNECT"
  BY <1>0, Remaining DEF WriterInv, WriterTypeOK, DecoderInv, DecoderTypeOK, CursorInside, Callers
<1>2. body' = body
  BY DEF Decode, Answer, DecodeConnect, RefuseConnect, ReadProperty, RefuseProperty,
     EndProperties, EndPayload, SkipPayload, EnterWillProperties, ReadPayload, RefusePayload,
     DecodePublish, ReadLength, EnterProperties, DecodePublishOverrun, ReadMessage,
     DecodeDisconnect, DecodeCrashes, CreateConnack, FillProperty, SendConnack, Refuse, packet
<1>3. PICK L, W, r, s :
         /\ r = RoundsLeft /\ s = RoundsLeft'
         /\ W \in Nat /\ W >= 2 /\ Len(body) + 2 = W /\ Span = W /\ Span' = W
         /\ \A n \in 0..8 : Level(n) = L[n] /\ Level(n)' = L[n] /\ L[n] \in Nat
         /\ \A n \in 0..7 : L[n + 1] = L[n] + 2 * W
  <2> DEFINE K == [n \in 0..8 |-> Level(n)]
  <2>1. /\ Span \in Nat /\ Span >= 2 /\ Len(body) + 2 = Span
        /\ \A n \in 0..8 : Level(n) \in Nat
        /\ \A n \in 0..7 : Level(n + 1) = Level(n) + 2 * Span
    BY <1>0, LevelsAre
  <2>2. Span' = Span /\ \A n \in 0..8 : Level(n)' = Level(n)
    BY <1>2 DEF Span, Level
  <2>3. \A n \in 0..7 : n \in 0..8 /\ n + 1 \in 0..8
    OBVIOUS
  <2> HIDE DEF Level, Span
  <2>4. /\ \A n \in 0..8 : Level(n) = K[n] /\ Level(n)' = K[n] /\ K[n] \in Nat
        /\ \A n \in 0..7 : K[n + 1] = K[n] + 2 * Span
    BY <2>1, <2>2, <2>3
  <2> HIDE DEF K
  <2> QED BY <2>1, <2>2, <2>4
<1>4. /\ phase = "header" => r = 21 + L[8]
      /\ phase = "properties" /\ ~will => r = 21 + L[7] + (stop - pos)
      /\ phase = "properties" /\ will => r = 21 + L[7 - slot] + (stop - pos)
      /\ phase = "payload" => r = 21 + L[7 - slot] + W
      /\ phase = "connack" => r = 20
      /\ phase = "fill" => r = 19 - index
      /\ phase = "message" => r = 1
  <2>1. 7 - slot \in 0..8 /\ 7 \in 0..8 /\ 8 \in 0..8
    BY <1>1
  <2> HIDE DEF Level, Span
  <2> QED BY <1>3, <2>1, RoundsAre DEF RoundsByPhase
<1>5. /\ phase' = "properties" /\ ~will' => s = 21 + L[7] + (stop' - pos')
      /\ phase' = "properties" /\ will' => s = 21 + L[7 - slot'] + (stop' - pos')
      /\ phase' = "payload" => s = 21 + L[7 - slot'] + W
      /\ phase' = "connack" => s = 20
      /\ phase' = "fill" => s = 19 - index'
      /\ phase' = "message" => s = 1
      /\ phase' \in {"idle", "closed", "crashed"} => s = 0
  <2>1. slot' \in 1..7
    BY <1>0 DEF DecoderInv, DecoderTypeOK
  <2>2. 7 - slot' \in 0..8 /\ 7 \in 0..8
    <3>1. PICK n \in 1..7 : n = slot'
      BY <2>1
    <3>2. 7 - n \in 0..8 /\ 7 \in 0..8
      OBVIOUS
    <3> QED BY <3>1, <3>2
  <2>3. /\ Level(7)' = L[7] /\ Level(7 - slot)' = L[7 - slot'] /\ Span' = W
    <3>1. \A n \in 0..8 : n * (2 * Span') = L[n]
      BY <1>3 DEF Level
    <3>2. Level(7)' = 7 * (2 * Span') /\ Level(7 - slot)' = (7 - slot') * (2 * Span')
      BY DEF Level
    <3> HIDE DEF Level, Span
    <3> QED BY <1>3, <2>2, <3>1, <3>2
  <2> HIDE DEF Level, Span
  <2> QED BY <1>3, <2>3, RoundsAreNext DEF RoundsByPhase
<1>6. /\ r \in Nat /\ s \in Nat
      /\ phase \in {"header", "properties", "payload"} => r >= 21
      /\ phase \notin {"idle", "closed", "crashed"} => r >= 1
  BY <1>0, <1>3, RoundsCount, RoundsCountNext DEF RoundsBounded
<1>7. L[8] = L[7] + 2 * W /\ L[7] \in Nat /\ L[7] = L[6] + 2 * W /\ L[6] \in Nat
  <2>1. 7 + 1 = 8 /\ 7 \in 0..7 /\ 7 \in 0..8 /\ 6 + 1 = 7 /\ 6 \in 0..7 /\ 6 \in 0..8
    OBVIOUS
  <2>2. L[7 + 1] = L[7] + 2 * W /\ L[6 + 1] = L[6] + 2 * W
    BY <1>3, <2>1
  <2> QED BY <1>3, <2>1, <2>2
<1>8. \A n \in 1..6 : /\ L[7 - n] = L[7 - (n + 1)] + 2 * W
                      /\ L[7 - n] \in Nat /\ L[7 - (n + 1)] \in Nat
  <2> TAKE n \in 1..6
  <2>1. (7 - (n + 1)) + 1 = 7 - n /\ 7 - (n + 1) \in 0..7 /\ 7 - (n + 1) \in 0..8 /\ 7 - n \in 0..8
    OBVIOUS
  <2>2. L[(7 - (n + 1)) + 1] = L[7 - (n + 1)] + 2 * W
    BY <1>3, <2>1
  <2> QED BY <1>3, <2>1, <2>2
<1> SUFFICES s < r
  BY <1>3
<1> HIDE DEF Level, Span
\* What is left of the properties is a part of the body.
<1>s. phase' = "properties" => \E x \in Nat : x = stop' - pos' /\ x < W
  <2> SUFFICES ASSUME phase' = "properties" PROVE \E x \in Nat : x = stop' - pos' /\ x < W
    OBVIOUS
  <2>1. pos' <= stop' /\ stop' <= Len(body) /\ pos' \in Nat /\ stop' \in Nat
    BY <1>1, <1>2
  <2>2. \A a, b, l \in Nat : a <= b /\ b <= l => b - a \in Nat /\ b - a < l + 2
    OBVIOUS
  <2>3. stop' - pos' \in Nat /\ stop' - pos' < Len(body) + 2
    BY <1>1, <2>1, <2>2
  <2> QED BY <1>3, <2>3
\* The handler ends.
<1>9. ASSUME phase' \in {"idle", "closed", "crashed"}, phase \notin {"idle", "closed", "crashed"} PROVE s < r
  BY <1>5, <1>6, <1>9
\* Nothing is left of it but the message.
<1>10. ASSUME phase' = "message", phase \in {"header", "properties", "payload"} PROVE s < r
  BY <1>5, <1>6, <1>10
\* The properties are entered.
<1>11. ASSUME phase = "header", phase' = "properties", will' = FALSE PROVE s < r
  <2>1. PICK x \in Nat : x = stop' - pos' /\ x < W
    BY <1>s, <1>11
  <2>2. s = 21 + L[7] + x /\ r = 21 + (L[7] + 2 * W)
    BY <1>4, <1>5, <1>7, <1>11, <2>1
  <2> QED BY <1>3, <1>7, <2>1, <2>2
\* One of the properties is read.
<1>12. ASSUME phase = "properties", phase' = "properties", will' = will, slot' = slot,
              stop' = stop, pos' > pos
       PROVE  s < r
  <2>1. pos' <= stop /\ (stop - pos') < (stop - pos) /\ stop - pos' \in Nat /\ stop - pos \in Nat
    <3>1. \A a, b, c \in Nat : a <= c /\ b <= c /\ b > a =>
             (c - b) < (c - a) /\ c - b \in Nat /\ c - a \in Nat
      OBVIOUS
    <3>2. pos <= stop /\ pos' <= stop /\ pos' > pos
      BY <1>1, <1>12
    <3> QED BY <1>1, <3>1, <3>2
  <2>2. L[7 - slot] \in Nat
    <3>1. 7 - slot \in 0..8
      BY <1>1
    <3> QED BY <1>3, <3>1
  <2>3. CASE will
    <3>1. s = 21 + L[7 - slot] + (stop - pos') /\ r = 21 + L[7 - slot] + (stop - pos)
      BY <1>4, <1>5, <1>12, <2>3
    <3> QED BY <2>1, <2>2, <3>1
  <2>4. CASE ~will
    <3>1. s = 21 + L[7] + (stop - pos') /\ r = 21 + L[7] + (stop - pos)
      BY <1>4, <1>5, <1>12, <2>4
    <3> QED BY <1>7, <2>1, <3>1
  <2> QED BY <2>3, <2>4
\* The payloads are entered, or gone on with behind the will properties.
<1>13. ASSUME phase = "properties", pos = stop, phase' = "payload",
              slot' = IF will THEN slot + 1 ELSE 1
       PROVE  s < r
  <2>1. s = 21 + L[7 - slot'] + W
    BY <1>5, <1>13
  <2>2. stop - pos = 0
    BY <1>1, <1>13
  <2>3. CASE will
    <3>1. slot \in 1..6 /\ slot' = slot + 1
      BY <1>1, <1>13, <2>3
    <3>2. r = 21 + L[7 - slot] + 0
      BY <1>4, <1>13, <2>2, <2>3
    <3>3. L[7 - slot'] = L[7 - (slot + 1)] /\ L[7 - slot] = L[7 - (slot + 1)] + 2 * W
          /\ L[7 - (slot + 1)] \in Nat
      BY <1>8, <3>1
    <3> QED BY <1>3, <2>1, <3>2, <3>3
  <2>4. CASE ~will
    <3>1. r = 21 + L[7] + 0
      BY <1>4, <1>13, <2>2, <2>4
    <3>2. L[7 - slot'] = L[6] /\ L[7] = L[6] + 2 * W /\ L[6] \in Nat
      <4>1. 7 - slot' = 6 /\ 6 + 1 = 7 /\ 6 \in 0..7 /\ 6 \in 0..8
        BY <1>13, <2>4
      <4>2. L[6 + 1] = L[6] + 2 * W
        BY <1>3, <4>1
      <4> QED BY <1>3, <4>1, <4>2
    <3> QED BY <1>3, <2>1, <3>1, <3>2
  <2> QED BY <2>3, <2>4
\* A slot is passed, or taken by the will properties.
<1>14. ASSUME phase = "payload", phase' = "payload", slot \in 1..6, slot' = slot + 1
       PROVE  s < r
  <2>1. L[7 - slot'] = L[7 - (slot + 1)] /\ L[7 - slot] = L[7 - (slot + 1)] + 2 * W
        /\ L[7 - (slot + 1)] \in Nat
    BY <1>8, <1>14
  <2>2. s = 21 + L[7 - slot'] + W /\ r = 21 + L[7 - slot] + W
    BY <1>4, <1>5, <1>14
  <2> QED BY <1>3, <2>1, <2>2
<1>15. ASSUME phase = "payload", phase' = "properties", will' = TRUE, slot' = slot
       PROVE  s < r
  <2>1. PICK x \in Nat : x = stop' - pos' /\ x < W
    BY <1>s, <1>15
  <2>2. L[7 - slot] \in Nat
    <3>1. 7 - slot \in 0..8
      BY <1>1
    <3> QED BY <1>3, <3>1
  <2>3. s = 21 + L[7 - slot] + x /\ r = 21 + L[7 - slot] + W
    BY <1>4, <1>5, <1>15, <2>1
  <2> QED BY <1>3, <2>1, <2>2, <2>3
\* The CONNACK.
<1>16. ASSUME phase = "payload", phase' = "connack" PROVE s < r
  BY <1>5, <1>6, <1>16
<1>17. ASSUME phase = "connack", phase' = "fill", index' = 1 PROVE s < r
  BY <1>4, <1>5, <1>17
<1>18. ASSUME phase = "fill", phase' = "fill", index' = index + 1 PROVE s < r
  BY <1>1, <1>4, <1>5, <1>18
<1>19. CASE DecodeConnect
  BY <1>11, <1>19 DEF DecodeConnect, EnterProperties
<1>20. CASE \/ RefuseConnect \/ RefusePayload \/ DecodeDisconnect \/ DecodePublishOverrun
                \/ DecodeCrashes \/ SendConnack
  BY <1>9, <1>20 DEF RefuseConnect, RefusePayload, AtPayload, DecodeDisconnect,
     DecodePublishOverrun, DecodeCrashes, SendConnack, Refuse
<1>21. CASE ReadProperty
  <2> DEFINE p == PropertyOf(body[pos + 1])
             t == Between(pos + 1, stop)
  <2>1. /\ phase = "properties" /\ pos # stop /\ pos' = pos + 1 + SizeOf(p, t)
        /\ PropertyCode(p, t) = "SUCCESS" /\ UNCHANGED <<phase, stop, will, slot>>
    BY <1>21 DEF ReadProperty
  <2> HIDE DEF p
  <2>2. t \in Strings
    BY <1>0, <2>1, Remaining
  <2> HIDE DEF t
  <2>3. SizeOf(p, t) \in Nat
    <3>1. Present(p, t)
      BY <2>1 DEF PropertyCode
    <3> QED BY <2>2, <3>1, PresentFits
  <2>4. pos' > pos
    BY <1>1, <2>1, <2>3
  <2> QED BY <1>12, <2>1, <2>4
<1>22. CASE RefuseProperty
  <2>1. phase = "properties" /\ phase' \in {"message", "closed"}
    BY <1>22 DEF RefuseProperty
  <2> QED BY <1>9, <1>10, <2>1
<1>23. CASE EndProperties
  <2>1. /\ phase = "properties" /\ pos = stop /\ phase' \in {"message", "payload"}
        /\ slot' = IF will THEN slot + 1 ELSE 1
    BY <1>23 DEF EndProperties
  <2> QED BY <1>10, <1>13, <2>1
<1>24. CASE EndPayload
  BY <1>16, <1>24 DEF EndPayload
<1>25. CASE SkipPayload \/ ReadPayload
  <2>1. /\ phase = "payload" /\ phase' = "payload" /\ slot <= 6 /\ slot' = slot + 1
    BY <1>25 DEF SkipPayload, ReadPayload, AtPayload
  <2>2. slot \in 1..6
    BY <1>1, <2>1
  <2> QED BY <1>14, <2>1, <2>2
<1>26. CASE EnterWillProperties
  BY <1>15, <1>26 DEF EnterWillProperties, AtPayload, EnterProperties
<1>27. CASE DecodePublish
  <2>1. phase = "header" /\ \/ phase' \in {"closed", "message"}
                            \/ phase' = "properties" /\ will' = FALSE
    BY <1>27 DEF DecodePublish, ReadLength, EnterProperties, Refuse
  <2> QED BY <1>9, <1>10, <1>11, <2>1
<1>28. CASE ReadMessage
  <2>1. phase = "message" /\ phase' \in {"idle", "closed"}
    BY <1>28 DEF ReadMessage, Refuse
  <2> QED BY <1>9, <2>1
<1>29. CASE CreateConnack
  <2>1. phase = "connack" /\ (phase' = "closed" \/ (phase' = "fill" /\ index' = 1))
    BY <1>29 DEF CreateConnack, Refuse
  <2> QED BY <1>9, <1>17, <2>1
<1>30. CASE FillProperty
  <2>1. phase = "fill" /\ (phase' = "closed" \/ (phase' = "fill" /\ index' = index + 1))
    BY <1>30 DEF FillProperty, Refuse
  <2> QED BY <1>9, <1>18, <2>1
<1> QED
  BY <1>19, <1>20, <1>21, <1>22, <1>23, <1>24, <1>25, <1>26, <1>27, <1>28, <1>29, <1>30
  DEF Decode, Answer

\* No packet keeps the decoder busy: a handler has ended after as many rounds as
\* sixteen times the length of the body and 53, whatever its bytes are.  It is
\* what HandlerEnds rests on besides fairness (decode_properties,
\* decode_payload, create_connack_packet).
THEOREM HandlersShrink ==
    Spec => [][Decode \/ Answer => /\ RoundsLeft' < RoundsLeft
                                   /\ RoundsLeft' \in Nat
                                   /\ RoundsLeft \in 1..(53 + 16 * Len(body))]_vars
<1>1. WriterInv /\ [Next]_vars => [Decode \/ Answer =>
          /\ RoundsLeft' < RoundsLeft /\ RoundsLeft' \in Nat
          /\ RoundsLeft \in 1..(53 + 16 * Len(body))]_vars
  <2> SUFFICES ASSUME WriterInv, [Next]_vars, Decode \/ Answer
               PROVE  /\ RoundsLeft' < RoundsLeft /\ RoundsLeft' \in Nat
                      /\ RoundsLeft \in 1..(53 + 16 * Len(body))
    OBVIOUS
  <2>1. RoundsLeft' < RoundsLeft
    BY RoundsFall
  <2>2. WriterInv'
    BY WriterStep
  <2>3. RoundsLeft' \in Nat /\ RoundsLeft \in Nat /\ RoundsLeft <= 21 + Level(8)
    BY <2>2, RoundsCount, RoundsCountNext DEF RoundsBounded
  <2>4. Level(8) = 16 * Len(body) + 32 /\ Len(body) \in Nat
    BY Remaining DEF Level, Span, WriterInv
  <2> QED BY <2>1, <2>3, <2>4
<1> QED BY <1>1, WriterInit, WriterStep, PTL DEF Spec
===============================================================================
