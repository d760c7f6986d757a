--------------------------- MODULE PacketStreamProofs ---------------------------
(***************************************************************************)
(* What a connection reads is framed as the client announced it, nothing   *)
(* malformed is decoded as a CONNECT or a PUBLISH, and the decoders see    *)
(* packets, whole and in order, whatever bytes arrive and in whatever      *)
(* pieces.                                                                 *)
(***************************************************************************)
EXTENDS PacketStream, ConnectMeaningProofs

\* What is left of a length when the third byte and the fourth count for nothing.
Digit(h, i) == IF i \in DOMAIN h THEN h[i] % 128 ELSE 0
Low(h) == Digit(h, 2) + 128 * Digit(h, 3)

\* A header whose body may be decoded.
Sane(h) == htype \in {"CONNECT", "PUBLISH"} => h[1] \in LegalControls(htype)

\* The length is counted up from 0.
LengthSoFar ==
    /\ stage = "control" => len = 0
    /\ stage = "length" => Len(head) = offset + 1 /\ offset <= 3 /\ len = Low(head)
    /\ stage = "body" => len = Low(head)
    /\ stage = "decode" /\ phase = "header" => Len(body) = Low(head)

\* A malformed control field closes the socket, and a closed socket is not read.
HeadIsSane ==
    /\ stage = "length" /\ open => Sane(head)
    /\ stage = "body" => Sane(head)
    /\ stage = "decode" => /\ type \in DecodedTypes
                           /\ type # "DISCONNECT" => head[1] \in LegalControls(type)

\* The decoders are at rest while bytes are read, and the first packet is a CONNECT.
InTurn ==
    /\ received \in Nat
    /\ stage \notin {"decode", "closed", "crashed"} => phase = "idle"
    /\ stage = "control" /\ received = 0 => first
    /\ stage \in {"length", "body"} /\ received = 0 => htype = "CONNECT"
    /\ stage = "decode" => received # 0

FramingInv == FramingTypeOK /\ LengthSoFar /\ HeadIsSane /\ InTurn

-------------------------------------------------------------------------------
(* What the helpers return. *)

\* A byte of a sequence of bytes, and what is behind it.
LEMMA FirstOfInbox ==
    ASSUME NEW s \in Strings, s # <<>>
    PROVE  Head(s) \in 0..255 /\ Tail(s) \in Strings
<1>1. Head(s) \in Byte /\ Tail(s) \in Seq(Byte)
  BY HeadTailProperties DEF Strings
<1> QED BY <1>1 DEF Strings, Byte

\* create_fixed_header stores one of its types, and is content with a CONNECT or a
\* PUBLISH only if its control field is legal.
Allows(h, cf) == h.rcode = "SUCCESS" /\ h.type \in {"CONNECT", "PUBLISH"}
                    => cf \in LegalControls(h.type)

LEMMA ControlFieldMeans ==
    ASSUME NEW cf \in 0..255, NEW old \in Header!PacketTypes
    PROVE  LET h == Header!CreateFixedHeader(cf, old)
           IN h.type \in Header!PacketTypes /\ Allows(h, cf)
<1> DEFINE n == Header!TypeNibble(cf)
           flags == Header!FlagNibble(cf)
           h == Header!CreateFixedHeader(cf, old)
<1>1. n \in 0..15 /\ flags \in 0..15 /\ cf = 16 * n + flags
  BY DEF Header!TypeNibble, Header!FlagNibble
<1>2. h.type \in Header!PacketTypes
  <2>1. Header!TypeOfNibble(n) \in Header!PacketTypes
    BY DEF Header!TypeOfNibble, Header!PacketTypes
  <2> QED BY <2>1 DEF Header!CreateFixedHeader
<1>3. ASSUME h.rcode = "SUCCESS", h.type \in {"CONNECT", "PUBLISH"}
      PROVE  cf \in LegalControls(h.type)
  <2>1. n \in 1..14 /\ Header!FlagsOk(n, flags)
    BY <1>3 DEF Header!CreateFixedHeader
  <2>2. h.type = Header!TypeOfNibble(n)
    BY <1>3, <2>1 DEF Header!CreateFixedHeader
  <2>3. CASE n = 3
    <3>1. flags \div 2 = 0 /\ h.type = "PUBLISH"
      BY <2>1, <2>2, <2>3 DEF Header!FlagsOk, Header!PublishFlagsOk, Header!TypeOfNibble
    <3>2. flags \in (0..15) \ {6, 7, 8, 9, 14, 15} /\ cf = 48 + flags
      BY <1>1, <2>3, <3>1
    <3> QED BY <3>1, <3>2 DEF LegalControls
  <2>4. CASE n # 3
    <3>1. flags = 0
      BY <2>1, <2>4 DEF Header!FlagsOk
    <3>2. n = 1
      BY <1>3, <2>1, <2>2, <2>4 DEF Header!TypeOfNibble
    <3>3. h.type = "CONNECT" /\ cf = 16
      BY <1>1, <2>2, <3>1, <3>2 DEF Header!TypeOfNibble
    <3> QED BY <3>3 DEF LegalControls
  <2> QED BY <2>3, <2>4
<1> QED BY <1>2, <1>3 DEF Allows

\* The multipliers of the four bytes of a length.
LEMMA Multipliers == Mul[1] = 1 /\ Mul[2] = 128 /\ Mul[3] = 0 /\ Mul[4] = 0
  BY DEF Mul, Times128

LEMMA DigitRange == ASSUME NEW h \in Strings, NEW i \in 1..5 PROVE Digit(h, i) \in 0..127
<1>1. i \in DOMAIN h => h[i] \in Byte
  BY DEF Strings
<1> QED BY <1>1 DEF Digit, Byte

LEMMA LowIsNat == ASSUME NEW h \in Strings PROVE Low(h) \in Nat
<1>1. \A a, b \in 0..127 : a + 128 * b \in Nat
  BY SMT
<1>2. Digit(h, 2) \in 0..127 /\ Digit(h, 3) \in 0..127
  BY DigitRange
<1> QED BY <1>1, <1>2 DEF Low

\* One byte more of a length.
LEMMA OneMore ==
    ASSUME NEW h \in Strings, NEW b \in 0..255, NEW n \in 0..3, Len(h) = n + 1
    PROVE  Low(Append(h, b)) = Low(h) + (b % 128) * Mul[n + 1]
<1> DEFINE g == Append(h, b)
<1>1. Len(g) = n + 2 /\ g[n + 2] = b /\ \A i \in 1..(n + 1) : g[i] = h[i]
  BY DEF Strings
<1>2. DOMAIN g = 1..(n + 2) /\ DOMAIN h = 1..(n + 1)
  BY <1>1 DEF Strings
<1> HIDE DEF g
<1>3. CASE n = 0
  <2>1. Digit(h, 2) = 0 /\ Digit(h, 3) = 0 /\ Digit(g, 2) = b % 128 /\ Digit(g, 3) = 0
    BY <1>1, <1>2, <1>3 DEF Digit
  <2> QED BY <1>3, <2>1, Multipliers DEF Low, g
<1>4. CASE n = 1
  <2>1. Digit(h, 3) = 0 /\ Digit(g, 2) = Digit(h, 2) /\ Digit(g, 3) = b % 128
    BY <1>1, <1>2, <1>4 DEF Digit
  <2> QED BY <1>4, <2>1, DigitRange, Multipliers DEF Low, g
<1>5. CASE n \in {2, 3}
  <2>1. Digit(g, 2) = Digit(h, 2) /\ Digit(g, 3) = Digit(h, 3)
    BY <1>1, <1>2, <1>5 DEF Digit
  <2>2. (b % 128) * Mul[n + 1] = 0
    BY <1>5, Multipliers
  <2>3. Digit(h, 2) \in 0..127 /\ Digit(h, 3) \in 0..127
    BY DigitRange
  <2>4. Low(g) = Low(h)
    BY <2>1, Zenon DEF Low
  <2>5. Low(h) \in Nat
    BY LowIsNat
  <2> QED BY <2>2, <2>4, <2>5 DEF g
<1> QED BY <1>3, <1>4, <1>5

\* The two high bytes of a length below 16384 count for nothing.
LEMMA LowOfAnnounced ==
    ASSUME NEW h \in Strings, Announced128(h) < 16384
    PROVE  Low(h) = Announced128(h)
<1>1. Announced128(h) = Digit(h, 2) + 128 * Digit(h, 3) + 16384 * Digit(h, 4)
                        + 2097152 * Digit(h, 5)
  BY SMT DEF Announced128, Digit
<1>2. /\ Digit(h, 2) \in 0..127 /\ Digit(h, 3) \in 0..127
      /\ Digit(h, 4) \in 0..127 /\ Digit(h, 5) \in 0..127
  BY DigitRange
<1> DEFINE a == Digit(h, 2)
           b == Digit(h, 3)
           c == Digit(h, 4)
           d == Digit(h, 5)
<1>3. Low(h) = a + 128 * b
  BY SMT DEF Low
<1> HIDE DEF a, b, c, d
<1>4. a \in 0..127 /\ b \in 0..127 /\ c \in 0..127 /\ d \in 0..127
  BY <1>2, SMT DEF a, b, c, d
<1>5. Announced128(h) = a + 128 * b + 16384 * c + 2097152 * d
  BY <1>1, SMT DEF a, b, c, d
<1>6. c = 0 /\ d = 0
  BY <1>4, <1>5, SMT
<1> QED BY <1>3, <1>4, <1>5, <1>6, SMT

\* No step of the decoders, or of the answer, begins a packet.
LEMMA HandlerShape ==
    ASSUME Decode \/ Answer
    PROVE  phase # "idle" /\ phase' # "header" /\ UNCHANGED <<type, body, received>>
<1> USE DEF Refuse, EnterProperties, AtPayload, packet
<1>1. CASE DecodeConnect
  BY <1>1 DEF DecodeConnect
<1>2. CASE RefuseConnect
  BY <1>2 DEF RefuseConnect
<1>3. CASE ReadProperty
  BY <1>3 DEF ReadProperty
<1>4. CASE RefuseProperty
  BY <1>4 DEF RefuseProperty
<1>5. CASE EndProperties
  BY <1>5 DEF EndProperties
<1>6. CASE EndPayload
  BY <1>6 DEF EndPayload
<1>7. CASE SkipPayload
  BY <1>7 DEF SkipPayload
<1>8. CASE EnterWillProperties
  BY <1>8 DEF EnterWillProperties
<1>9. CASE ReadPayload
  BY <1>9 DEF ReadPayload
<1>10. CASE RefusePayload
  BY <1>10 DEF RefusePayload
<1>11. CASE DecodePublish
  BY <1>11 DEF DecodePublish, ReadLength
<1>12. CASE DecodePublishOverrun
  BY <1>12 DEF DecodePublishOverrun
<1>13. CASE ReadMessage
  BY <1>13 DEF ReadMessage
<1>14. CASE DecodeDisconnect
  BY <1>14 DEF DecodeDisconnect
<1>15. CASE CreateConnack
  BY <1>15 DEF CreateConnack
<1>16. CASE FillProperty
  BY <1>16 DEF FillProperty
<1>17. CASE SendConnack
  BY <1>17 DEF SendConnack
<1>18. CASE DecodeCrashes
  BY <1>18 DEF DecodeCrashes
<1> QED BY <1>1, <1>2, <1>3, <1>4, <1>5, <1>6, <1>7, <1>8, <1>9, <1>10, <1>11, <1>12, <1>13,
           <1>14, <1>15, <1>16, <1>17, <1>18 DEF Decode, Answer

-------------------------------------------------------------------------------
(* Each step keeps the invariant. *)

LEMMA StreamInitHolds == StreamInit => FramingInv
<1> SUFFICES ASSUME StreamInit PROVE FramingInv
  OBVIOUS
<1>1. <<>> \in Strings /\ 0 \in 0..MaxPackets
  BY MaxPacketsAssumption DEF Strings
<1>2. FramingTypeOK
  BY <1>1 DEF StreamInit, FramingTypeOK, Stages, Header!PacketTypes
<1>3. LengthSoFar /\ HeadIsSane /\ InTurn
  BY DEF StreamInit, Init, LengthSoFar, HeadIsSane, InTurn
<1> QED BY <1>2, <1>3 DEF FramingInv

LEMMA SendKeeps == ASSUME FramingInv, Send PROVE FramingInv'
<1> USE DEF FramingInv
<1>1. FramingTypeOK'
  <2>1. \A f \in Frames[sent + 1] \union Pipelined : f \in Strings
    <3>1. sent + 1 \in 1..MaxPackets
      BY MaxPacketsAssumption DEF Send, FramingTypeOK
    <3>2. Frames[sent + 1] \subseteq Strings /\ Pipelined \subseteq Strings
      BY <3>1, FramesAssumption
    <3> QED BY <3>2
  <2>2. inbox' \in Strings
    BY <2>1 DEF Send, FramingTypeOK, Strings
  <2> QED BY <2>2, MaxPacketsAssumption DEF Send, FramingTypeOK
<1>2. /\ UNCHANGED <<stage, open, first, htype, len, offset, head>>
      /\ UNCHANGED <<phase, type, body, received>>
  BY DEF Send, vars, packet
<1>3. LengthSoFar' /\ HeadIsSane' /\ InTurn'
  BY <1>2 DEF LengthSoFar, HeadIsSane, Sane, InTurn, Low, Digit
<1> QED BY <1>1, <1>3

\* A control field that is read.
LEMMA ControlRead ==
    ASSUME FramingInv, AtControl
    PROVE  /\ Head(inbox) \in 0..255 /\ Tail(inbox) \in Strings
           /\ Control.type \in Header!PacketTypes
           /\ Allows(Control, Head(inbox))
<1>1. Head(inbox) \in 0..255 /\ Tail(inbox) \in Strings
  BY FirstOfInbox DEF FramingInv, FramingTypeOK, AtControl
<1>2. htype \in Header!PacketTypes
  BY DEF FramingInv, FramingTypeOK
<1> QED BY <1>1, <1>2, ControlFieldMeans DEF Control

LEMMA ReadControlKeeps == ASSUME FramingInv, ReadControl PROVE FramingInv'
<1> USE DEF FramingInv
<1>1. /\ stage = "control" /\ stage' = "length" /\ offset' = 0 /\ len' = len /\ len = 0
      /\ head' = <<Head(inbox)>> /\ htype' = Control.type
      /\ inbox' = Tail(inbox) /\ first' = FALSE
      /\ open' = (Control.rcode = "SUCCESS") /\ sent' = sent
      /\ UNCHANGED <<phase, body, received>> /\ phase = "idle"
      /\ received = 0 => Control.type = "CONNECT"
  BY DEF ReadControl, AtControl, Refused, LengthSoFar, InTurn, vars, packet
<1>2. /\ Head(inbox) \in 0..255 /\ Tail(inbox) \in Strings
      /\ Control.type \in Header!PacketTypes
      /\ Allows(Control, Head(inbox))
  BY ControlRead DEF ReadControl
<1>3. head' \in Strings /\ Len(head') = 1 /\ head'[1] = Head(inbox)
  BY <1>1, <1>2 DEF Strings, Byte
<1>4. FramingTypeOK'
  <2>1. open' \in BOOLEAN /\ first' \in BOOLEAN
    BY <1>1, Zenon
  <2>2. stage' \in Stages /\ offset' \in 0..4 /\ len' \in Nat
    BY <1>1 DEF FramingTypeOK, Stages
  <2>3. inbox' \in Strings /\ htype' \in Header!PacketTypes /\ sent' \in 0..MaxPackets
    BY <1>1, <1>2, Zenon DEF FramingTypeOK
  <2> QED BY <1>3, <2>1, <2>2, <2>3, Zenon DEF FramingTypeOK
<1>5. Low(head)' = 0
  BY <1>3 DEF Low, Digit, Strings
<1>6. LengthSoFar'
  BY <1>1, <1>3, <1>5 DEF LengthSoFar
<1>7. HeadIsSane'
  <2>1. open' => Control.rcode = "SUCCESS"
    BY <1>1, Zenon
  <2>2. open' => Sane(head)'
    BY <1>1, <1>2, <1>3, <2>1 DEF Sane, Allows
  <2> QED BY <1>1, <2>2 DEF HeadIsSane
<1>8. InTurn'
  BY <1>1 DEF InTurn
<1> QED BY <1>4, <1>6, <1>7, <1>8

LEMMA RefuseFirstKeeps == ASSUME FramingInv, RefuseFirst PROVE FramingInv'
<1> USE DEF FramingInv
<1>1. /\ stage' = "closed" /\ open' = FALSE /\ htype' = Control.type
      /\ inbox' = Tail(inbox) /\ UNCHANGED <<phase, body, received>>
      /\ UNCHANGED <<sent, first, len, offset, head>> /\ AtControl
  BY DEF RefuseFirst, vars, packet
<1>2. Tail(inbox) \in Strings /\ Control.type \in Header!PacketTypes
  BY <1>1, ControlRead
<1>3. FramingTypeOK'
  BY <1>1, <1>2 DEF FramingTypeOK, Stages
<1>4. LengthSoFar' /\ HeadIsSane' /\ InTurn'
  BY <1>1 DEF LengthSoFar, HeadIsSane, InTurn
<1> QED BY <1>3, <1>4

LEMMA ReadLengthByteKeeps == ASSUME FramingInv, ReadLengthByte PROVE FramingInv'
<1> USE DEF FramingInv
<1> DEFINE b == Head(inbox)
<1>1. /\ stage = "length" /\ open /\ offset' = offset + 1 /\ inbox' = Tail(inbox)
      /\ head' = Append(head, b) /\ len' = len + (b % 128) * Mul[offset + 1]
      /\ UNCHANGED <<sent, first, htype>>
      /\ UNCHANGED <<phase, body, received>> /\ phase = "idle"
  BY DEF ReadLengthByte, InTurn, vars, packet, FramingTypeOK
<1>11. \/ stage' = "length" /\ offset # 3
       \/ stage' = "body" \/ stage' = "closed"
  BY <1>1 DEF ReadLengthByte, LastLengthByte
<1>12. open' \in BOOLEAN
  BY DEF ReadLengthByte, FramingTypeOK
<1>2. b \in 0..255 /\ Tail(inbox) \in Strings
  BY FirstOfInbox DEF ReadLengthByte, FramingTypeOK
<1>3. head \in Strings /\ Len(head) = offset + 1 /\ offset \in 0..3 /\ len = Low(head)
  BY <1>1 DEF FramingTypeOK, LengthSoFar
<1>4. /\ head' \in Strings /\ Len(head') = offset' + 1 /\ head'[1] = head[1]
      /\ offset' \in 1..4 /\ (stage' = "length" => offset' <= 3)
  <2>1. b \in Byte /\ head \in Seq(Byte)
    BY <1>2, <1>3 DEF Strings, Byte
  <2> HIDE DEF b
  <2>2. /\ Append(head, b) \in Seq(Byte) /\ Len(Append(head, b)) = Len(head) + 1
        /\ Append(head, b)[1] = head[1]
    BY <1>3, <2>1
  <2>3. head' \in Strings /\ Len(head') = offset' + 1 /\ head'[1] = head[1]
    BY <1>1, <1>3, <2>2 DEF Strings
  <2>4. offset' = offset + 1
    BY <1>1
  <2>5. offset' \in 1..4
    BY <1>3, <2>4
  <2>6. stage' = "length" => offset' <= 3
    <3>1. stage' = "length" => offset # 3
      BY <1>11
    <3> QED BY <1>3, <2>4, <3>1
  <2> QED BY <2>3, <2>5, <2>6
<1>5. len' = Low(head')
  <2>1. Low(Append(head, b)) = Low(head) + (b % 128) * Mul[offset + 1]
    BY <1>2, <1>3, OneMore
  <2> QED BY <1>1, <1>3, <2>1
<1>6. len' \in Nat
  BY <1>4, <1>5, LowIsNat
<1> HIDE DEF b
<1>7. FramingTypeOK'
  <2>1. inbox' \in Strings /\ stage' \in Stages /\ offset' \in 0..4
    BY <1>1, <1>2, <1>4, <1>11 DEF Stages
  <2>2. first' \in BOOLEAN /\ htype' \in Header!PacketTypes /\ sent' \in 0..MaxPackets
    BY <1>1, Zenon DEF FramingTypeOK
  <2> QED BY <1>4, <1>6, <1>12, <2>1, <2>2, Zenon DEF FramingTypeOK
<1>8. LengthSoFar'
  BY <1>4, <1>5, <1>11 DEF LengthSoFar
<1>9. HeadIsSane'
  <2>1. Sane(head) /\ head'[1] = head[1] /\ htype' = htype
    BY <1>1, <1>4 DEF HeadIsSane
  <2>2. Sane(head)'
    BY <2>1, Zenon DEF Sane
  <2> QED BY <1>11, <2>2 DEF HeadIsSane
<1>10. InTurn'
  BY <1>1, <1>11 DEF InTurn
<1> QED BY <1>7, <1>8, <1>9, <1>10

LEMMA ReadLengthThrowsKeeps == ASSUME FramingInv, ReadLengthThrows PROVE FramingInv'
  BY DEF FramingInv, ReadLengthThrows, FramingTypeOK, Stages, LengthSoFar, HeadIsSane, InTurn,
     vars, packet

\* A body that has arrived, and what is behind it.
LEMMA BodyArrives ==
    ASSUME FramingInv, Arrived
    PROVE  /\ SubSeq(inbox, 1, len) \in Strings /\ Len(SubSeq(inbox, 1, len)) = len
           /\ SubSeq(inbox, len + 1, Len(inbox)) \in Strings
<1>1. len \in Nat /\ inbox \in Seq(Byte) /\ len <= Len(inbox)
  BY DEF FramingInv, FramingTypeOK, Arrived, Strings
<1>2. \A i \in 1..Len(inbox) : inbox[i] \in Byte
  BY <1>1
<1>3. SubSeq(inbox, 1, len) \in Seq(Byte) /\ Len(SubSeq(inbox, 1, len)) = len
  BY <1>1, <1>2
<1>4. SubSeq(inbox, len + 1, Len(inbox)) \in Seq(Byte)
  BY <1>1, <1>2
<1> QED BY <1>3, <1>4 DEF Strings

LEMMA ReadBodyKeeps == ASSUME FramingInv, ReadBody PROVE FramingInv'
<1> USE DEF FramingInv
<1>1. /\ stage = "body" /\ stage' = "decode" /\ phase' = "header"
      /\ received' = received + 1 /\ htype \in DecodedTypes /\ type' = htype
      /\ body' = SubSeq(inbox, 1, len) /\ inbox' = SubSeq(inbox, len + 1, Len(inbox))
      /\ UNCHANGED <<open, sent, first, htype, len, offset, head>> /\ Arrived
  BY DEF ReadBody, Arrived
<1>2. inbox' \in Strings /\ Len(body') = len
  BY <1>1, BodyArrives
<1>3. FramingTypeOK'
  BY <1>1, <1>2 DEF FramingTypeOK, Stages
<1>4. LengthSoFar'
  <2>1. Low(head)' = Low(head) /\ len = Low(head)
    BY <1>1 DEF LengthSoFar, Low, Digit
  <2> QED BY <1>1, <1>2, <2>1 DEF LengthSoFar
<1>5. HeadIsSane' /\ InTurn'
  BY <1>1 DEF HeadIsSane, Sane, InTurn, DecodedTypes
<1> QED BY <1>3, <1>4, <1>5

LEMMA IgnoreBodyKeeps == ASSUME FramingInv, IgnoreBody PROVE FramingInv'
<1> USE DEF FramingInv
<1>1. /\ stage = "body" /\ stage' = "deaf" /\ Arrived
      /\ UNCHANGED <<phase, body, received>>
      /\ UNCHANGED <<open, sent, first, htype, len, offset, head>>
      /\ inbox' = SubSeq(inbox, len + 1, Len(inbox))
  BY DEF IgnoreBody, Arrived, vars, packet
<1>2. FramingTypeOK'
  BY <1>1, BodyArrives DEF FramingTypeOK, Stages
<1>3. LengthSoFar' /\ HeadIsSane' /\ InTurn'
  BY <1>1 DEF LengthSoFar, HeadIsSane, InTurn
<1> QED BY <1>2, <1>3

LEMMA HandleKeeps == ASSUME FramingInv, Handle PROVE FramingInv'
<1> USE DEF FramingInv
<1>1. /\ stage = "decode" /\ phase' # "header" /\ UNCHANGED <<type, body, received>>
      /\ UNCHANGED <<inbox, sent, first>>
      /\ received # 0
  BY HandlerShape DEF Handle, InTurn
<1>2. CASE phase' = "idle" /\ stage' = "control" /\ head' = <<>> /\ offset' = 0
           /\ ResetPacket /\ UNCHANGED open
  BY <1>1, <1>2 DEF ResetPacket, FramingTypeOK, Stages, Header!PacketTypes, Strings,
     LengthSoFar, HeadIsSane, InTurn
<1>3. CASE phase' = "closed" /\ stage' = "closed" /\ open' = FALSE
           /\ UNCHANGED <<head, offset, htype, len>>
  BY <1>1, <1>3 DEF FramingTypeOK, Stages, LengthSoFar, HeadIsSane, InTurn
<1>4. CASE phase' = "crashed" /\ stage' = "crashed" /\ open' = FALSE
           /\ UNCHANGED <<head, offset, htype, len>>
  BY <1>1, <1>4 DEF FramingTypeOK, Stages, LengthSoFar, HeadIsSane, InTurn
<1>5. CASE /\ phase' \notin {"idle", "closed", "crashed"} /\ UNCHANGED <<stage, open, head, offset>>
           /\ IF phase' = "connack" THEN ResetPacket ELSE UNCHANGED <<htype, len>>
  <2>1. htype' \in Header!PacketTypes /\ len' \in Nat
    BY <1>5 DEF ResetPacket, Header!PacketTypes, FramingTypeOK
  <2> QED BY <1>1, <1>5, <2>1 DEF FramingTypeOK, LengthSoFar, HeadIsSane, InTurn
<1> QED BY <1>2, <1>3, <1>4, <1>5 DEF Handle

LEMMA StreamStepKeeps == FramingInv /\ [StreamNext]_streamVars => FramingInv'
<1> SUFFICES ASSUME FramingInv, [StreamNext]_streamVars PROVE FramingInv'
  OBVIOUS
<1>1. CASE UNCHANGED streamVars
  BY <1>1 DEF streamVars, framing, vars, packet, FramingInv, FramingTypeOK, LengthSoFar,
     HeadIsSane, Sane, InTurn, Low, Digit
<1>2. CASE Read
  BY <1>2, ReadControlKeeps, RefuseFirstKeeps, ReadLengthByteKeeps, ReadLengthThrowsKeeps,
     ReadBodyKeeps, IgnoreBodyKeeps
  DEF Read
<1> QED BY <1>1, <1>2, SendKeeps, HandleKeeps DEF StreamNext

LEMMA FramingInvHolds == StreamSpec => []FramingInv
  BY StreamInitHolds, StreamStepKeeps, PTL DEF StreamSpec

-------------------------------------------------------------------------------
(* What a connection reads. *)

\* The bytes that wait, the header and the length of a connection keep their
\* types, whatever a client sends (read_fixed_header, read_packet_body).
THEOREM FramingTypes == StreamSpec => []FramingTypeOK
<1>1. FramingInv => FramingTypeOK
  BY DEF FramingInv
<1> QED BY <1>1, FramingInvHolds, PTL

\* Nothing with a malformed control field is decoded as a CONNECT or a PUBLISH,
\* although the handler reads its length after it has closed the socket
\* (read_fixed_header, create_fixed_header).
THEOREM NothingMalformedIsDecoded == StreamSpec => []MalformedNeverDecoded
<1>1. FramingInv => MalformedNeverDecoded
  BY DEF FramingInv, HeadIsSane, MalformedNeverDecoded
<1> QED BY <1>1, FramingInvHolds, PTL

\* A body is as long as the client has announced, if that is less than 16384, for
\* every limit and every packet that came before (read_fixed_header,
\* lmqtt_packet::reset).
THEOREM BodiesAsAnnounced == StreamSpec => []BodyAsAnnounced
<1>1. ASSUME FramingInv PROVE BodyAsAnnounced
  <2>1. Announced128(head) < 16384 => Low(head) = Announced128(head)
    BY <1>1, LowOfAnnounced DEF FramingInv, FramingTypeOK
  <2> QED BY <1>1, <2>1 DEF BodyAsAnnounced, FramingInv, LengthSoFar
<1> QED BY <1>1, FramingInvHolds, PTL

-------------------------------------------------------------------------------
(* The stream implements the decoder that is given whole packets. *)

\* The decoder of PacketCodec, when it may be given any packet.
AnyPacket == Packets = [type : DecodedTypes, body : Strings]

LEMMA ReadBodyIsReceive ==
    ASSUME AnyPacket, FramingInv, ReadBody
    PROVE  Receive
<1>1. /\ phase = "idle" /\ received < MaxPackets /\ htype \in DecodedTypes
      /\ received = 0 => htype = "CONNECT"
  BY DEF ReadBody, Arrived, FramingInv, InTurn
<1>2. SubSeq(inbox, 1, len) \in Strings
  BY BodyArrives DEF ReadBody
<1>3. [type |-> htype, body |-> SubSeq(inbox, 1, len)] \in Packets
  BY <1>1, <1>2 DEF AnyPacket
<1>4. \E p \in Packets : /\ received = 0 => p.type = "CONNECT"
                         /\ type' = p.type /\ body' = p.body
  <2> DEFINE p == [type |-> htype, body |-> SubSeq(inbox, 1, len)]
  <2>1. p.type = htype /\ p.body = SubSeq(inbox, 1, len)
    OBVIOUS
  <2>2. type' = p.type /\ body' = p.body
    BY <2>1 DEF ReadBody
  <2> QED BY <1>1, <1>3, <2>1, <2>2
<1> QED BY <1>1, <1>4 DEF ReadBody, Receive, cursor, out

LEMMA StreamStepIsStep ==
    ASSUME AnyPacket, FramingInv, [StreamNext]_streamVars
    PROVE  [Next]_vars
<1>1. CASE ReadBody
  BY <1>1, ReadBodyIsReceive DEF Next
<1>2. CASE Handle
  BY <1>2 DEF Handle, Next
<1>3. CASE UNCHANGED vars
  BY <1>3
<1>4. Read => ReadBody \/ UNCHANGED vars
  BY DEF Read, ReadControl, RefuseFirst, ReadLengthByte, ReadLengthThrows, IgnoreBody
<1>5. Send \/ UNCHANGED streamVars => UNCHANGED vars
  BY DEF Send, streamVars
<1> QED BY <1>1, <1>2, <1>3, <1>4, <1>5 DEF StreamNext

\* Whatever a client sends, and in whatever pieces it arrives, every behaviour of
\* a connection is one of the decoder that is given whole packets, a CONNECT
\* first (read_fixed_header, read_packet_body): the safety of ImplementsCodec.
THEOREM StreamRefinesCodec == AnyPacket /\ StreamSpec => Init /\ [][Next]_vars
<1> SUFFICES ASSUME AnyPacket PROVE StreamSpec => Init /\ [][Next]_vars
  OBVIOUS
<1>1. StreamInit => Init
  BY DEF StreamInit
<1>2. FramingInv /\ [StreamNext]_streamVars => [Next]_vars
  BY StreamStepIsStep
<1> QED BY <1>1, <1>2, FramingInvHolds, PTL DEF StreamSpec

\* What is proved of the decoders holds of the bytes of a connection: the cursor
\* is inside the body (decode_properties, decode_payload).
THEOREM StreamCursorInside == AnyPacket /\ StreamSpec => []CursorInside
<1> SUFFICES ASSUME AnyPacket PROVE StreamSpec => []CursorInside
  OBVIOUS
<1>1. StreamSpec => Init /\ [][Next]_vars
  BY StreamRefinesCodec
<1>2. DecoderInv => CursorInside
  BY DEF DecoderInv
<1> QED BY <1>1, <1>2, InitHolds, StepKeeps, PTL

\* Every variable of a connection that reads bytes keeps its type.
THEOREM StreamTypeCorrect == AnyPacket /\ StreamSpec => []StreamTypeOK
<1> SUFFICES ASSUME AnyPacket PROVE StreamSpec => []StreamTypeOK
  OBVIOUS
<1>1. StreamSpec => Init /\ [][Next]_vars
  BY StreamRefinesCodec
<1>2. WriterInv /\ FramingTypeOK => StreamTypeOK
  BY DEF WriterInv, DecoderInv, WriterTypeOK, TypeOK, StreamTypeOK
<1> QED BY <1>1, <1>2, FramingTypes, WriterInit, WriterStep, PTL

\* And the CONNACK that answers bytes is filled as it was counted (fill_property).
THEOREM StreamFillsInPlace == AnyPacket /\ StreamSpec => FillKeepsPlace
<1> SUFFICES ASSUME AnyPacket PROVE StreamSpec => FillKeepsPlace
  OBVIOUS
<1>1. StreamSpec => Init /\ [][Next]_vars
  BY StreamRefinesCodec
<1>2. WriterInv /\ [Next]_vars =>
         [phase = "fill" /\ index' # index =>
             Len(BytesOf(ConnackProperties[index]))
                <= GetPropertySize(cfg, ConnackProperties[index])]_vars
  BY FillStep
<1> QED BY <1>1, <1>2, WriterInit, WriterStep, PTL DEF FillKeepsPlace

\* A limit that is not legal never survives the CONNECT, whatever bytes it came in
\* (configure_propriety).
THEOREM StreamLimitsLegal == AnyPacket /\ StreamSpec => []LiveLimits
<1> SUFFICES ASSUME AnyPacket PROVE StreamSpec => []LiveLimits
  OBVIOUS
<1>1. StreamSpec => Init /\ [][Next]_vars
  BY StreamRefinesCodec
<1>2. DecoderInv => LiveLimits
  BY DEF DecoderInv
<1> QED BY <1>1, <1>2, InitHolds, StepKeeps, PTL

\* No PUBLISH that comes behind a CONNECT, in the same bytes or later ones, changes
\* what was negotiated (decode_publish_packet_body).
THEOREM StreamPublishHarmless == AnyPacket /\ StreamSpec => PublishNegotiatesNothing
<1> SUFFICES ASSUME AnyPacket PROVE StreamSpec => PublishNegotiatesNothing
  OBVIOUS
<1>1. StreamSpec => Init /\ [][Next]_vars
  BY StreamRefinesCodec
<1>2. DecoderInv /\ [Next]_vars =>
         [type = "PUBLISH" /\ phase # "idle" =>
            cfg' = [cfg EXCEPT !.lastTopic = cfg'.lastTopic,
                               !.userProperties = cfg'.userProperties]]_vars
  BY PublishStep
<1> QED BY <1>1, <1>2, InitHolds, StepKeeps, PTL DEF PublishNegotiatesNothing

\* What a client means arrives: read from bytes as they come, a CONNECT configures
\* what it says, nothing that comes twice is accepted, and the CONNACK says what
\* was configured (read_fixed_header, read_packet_body and all they call).
THEOREM StreamKeepsMeaning ==
    AnyPacket /\ StreamSpec => [](AcceptedAsMeant /\ DuplicatesRefused /\ ConnackAsConfigured)
<1> SUFFICES ASSUME AnyPacket
             PROVE  StreamSpec => [](AcceptedAsMeant /\ DuplicatesRefused /\ ConnackAsConfigured)
  OBVIOUS
<1>1. StreamSpec => Init /\ [][Next]_vars
  BY StreamRefinesCodec
<1>2. WriterInv => DecoderInv
  BY DEF WriterInv
<1>3. Init => Written
  BY DEF Init, Written
<1>4. WriterInv /\ Written /\ [Next]_vars => Written'
  BY WrittenStep
<1>5. WriterInv /\ Written => ConnackAsConfigured
  BY ConnackWritten
<1> QED BY <1>1, <1>2, <1>3, <1>4, <1>5, MeantRefuses, MeantIsKept, WriterInit, WriterStep,
           MeantInit, MeantStep, AnnouncingInit, AnnouncingStep, PTL

\* And with is_valid_content for WELL_FORMED, what is stored of the bytes as text is
\* text, and a first CONNECT that is as the standard asks is answered.
THEOREM StreamTakesText ==
    AnyPacket /\ AsksIsValidContent /\ StreamSpec => [](TextIsWellFormed /\ FirstConnectAccepted)
<1> SUFFICES ASSUME AnyPacket, AsksIsValidContent
             PROVE  StreamSpec => [](TextIsWellFormed /\ FirstConnectAccepted)
  OBVIOUS
<1>1. StreamSpec => Init /\ [][Next]_vars
  BY StreamRefinesCodec
<1>2. WriterInv => DecoderInv
  BY DEF WriterInv
<1>3. \A s \in Strings : WellFormed(s) => StandardText(s)
  BY AcceptsStandardText DEF AsksIsValidContent, Strings, Byte, B
<1>4. DecoderInv /\ TextIn(cfg) /\ [Next]_vars => TextIn(cfg)'
  BY <1>3, TextStep
<1>5. WriterInv /\ Meant /\ Announcing /\ Going /\ [Next]_vars => Going'
  BY GoingStep
<1> QED BY <1>1, <1>2, <1>4, <1>5, TextInit, TextNamed, GoingInit, GoingAccepts,
           WriterInit, WriterStep, MeantInit, MeantStep, AnnouncingInit, AnnouncingStep, PTL
===============================================================================
