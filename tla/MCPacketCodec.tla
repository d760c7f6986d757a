----------------------------- MODULE MCPacketCodec -----------------------------
(***************************************************************************)
(* Packets for PacketCodec: CONNECTs and PUBLISHes as the MQTT 5 standard  *)
(* lays them out, whole, cut short and with wrong fields.                  *)
(***************************************************************************)
EXTENDS ConnectMeaning, Utf8

A == 97
Text(n) == [i \in 1..n |-> A]

\* The first and the last characters of each row of the Unicode table, and what
\* is one byte away from them, or cut short.
Characters == <<194, 128>> \o <<223, 191>> \o <<224, 160, 128>> \o <<236, 191, 191>>
              \o <<237, 128, 128>> \o <<237, 159, 191>> \o <<238, 128, 128>>
              \o <<239, 191, 189>> \o <<240, 144, 128, 128>> \o <<243, 191, 191, 189>>
              \o <<244, 143, 191, 189>>
NoText == {<<0>>, <<128>>, <<193, 191>>, <<194, 127>>, <<194, 192>>, <<194>>, <<A, 225>>,
           <<224, 159, 191>>, <<225, 128>>, <<225, 128, A>>, <<237, 160, 128>>, <<237, 191, 191>>,
           <<239, 191, 191>>, <<240, 143, 191, 191>>, <<241, 128, 128>>, <<244, 143, 191, 190>>,
           <<244, 144, 128, 128>>, <<245, 128, 128, 128>>, <<248, 128, 128, 128>>, <<255>>}

User(n) == Property("USER_PROPERTY", <<Text(1), Text(n)>>)
ConnectPropertyLists ==
    {<<>>, <<Property("RECEIVE_MAXIMUM", <<0, 9>>)>>,
     <<Property("RECEIVE_MAXIMUM", <<0, 0>>)>>,
     <<Property("RECEIVE_MAXIMUM", <<0, 9>>), Property("RECEIVE_MAXIMUM", <<0, 8>>)>>,
     <<User(1)>>, <<User(1), User(2)>>,
     <<User(72)>>,   \* 127 bytes of properties in the CONNACK
     <<User(130)>>,  \* a length of two bytes
     <<Property("AUTHENTICATION_METHOD", Text(1)), Property("AUTHENTICATION_DATA", Text(2))>>,
     <<Property("AUTHENTICATION_DATA", Text(2)), Property("AUTHENTICATION_METHOD", Text(1))>>,
     <<Property("AUTHENTICATION_DATA", Text(2))>>,
     <<Property("REQUEST_PROBLEM_INFORMATION", <<2>>)>>,
     <<Property("SERVER_KEEP_ALIVE", <<0, 9>>)>>}
PayloadLists ==
    {"CLIENT_ID" :> Text(1), "CLIENT_ID" :> <<>>, "CLIENT_ID" :> <<1>>,
     "CLIENT_ID" :> Text(1) @@ "USER_NAME" :> Text(2),
     "CLIENT_ID" :> Text(1) @@ "USER_NAME" :> Text(2) @@ "PASSWORD" :> Text(3),
     "CLIENT_ID" :> Text(1) @@ "WILL_TOPIC" :> Text(1) @@ "WILL_PAYLOAD" :> Text(1),
     "CLIENT_ID" :> Characters}
    \union {"CLIENT_ID" :> t : t \in NoText}
Plain == [properties |-> <<>>, payload |-> "CLIENT_ID" :> Text(1)]
MCMeanings == {[Plain EXCEPT !.properties = qs] : qs \in ConnectPropertyLists}
              \union {[Plain EXCEPT !.payload = f] : f \in PayloadLists}

\* Cut short, a wrong field, a length of four bytes, will properties where the
\* decoder looks for them.
OddConnects ==
    {SubSeq(WireConnect(Plain), 1, n) : n \in {1, 9, 12, 13}}
    \union {[WireConnect(Plain) EXCEPT ![i] = 9] : i \in {2, 3, 7, 8, 11}}
    \union {ConnectHeader(28) \o <<0>> \o WireString(Text(1)),
            ConnectHeader(0) \o <<128, 128, 128, 128>>,
            ConnectHeader(0) \o <<2, 33, 0>> \o WireString(Text(1)),
            ConnectHeader(0) \o <<1, 33>> \o WireString(Text(1)),
            ConnectHeader(4) \o <<0>> \o WireString(Text(1))
                \o <<38>> \o WireString(Text(1)) \o WireString(Text(32))
                \o WireString(Text(1)) \o WireString(Text(1)),
            ConnectHeader(68) \o <<0>> \o WireString(Text(1))
                \o <<38>> \o WireString(Text(1)) \o WireString(Text(32))
                \o WireString(Text(1)) \o WireString(Text(1)) \o WireString(Text(2)),
            ConnectHeader(4) \o <<0>> \o WireString(Text(1))
                \o <<17, 0>> \o WireString(Text(14))}

\* What is behind a body: zeros, or text.
MCLeftover == {<<0>>, <<A>>}

WirePublish(topic, qs, message) == WireString(topic) \o WireProperties(qs) \o message
Publishes ==
    {WirePublish(Text(1), qs, m) :
        qs \in {<<>>, <<Property("CONTENT_TYPE", Text(30))>>}, m \in {<<>>, Text(1), <<Wildcard>>}}
    \union {WirePublish(<<1>>, <<>>, Text(1)), WireString(Text(1)),
            \* shorter than their topics: no properties and a message, if the topic
            \* is refused; a CONTENT_TYPE and a USER_PROPERTY that begin with the topic
            <<0>>, <<0, 9, A>>, <<3, 0, 0>>,
            <<38>> \o WireString(Text(1)) \o WireString(Text(32)),
            WireString(Text(1)) \o <<38>> \o WireString(Text(1)) \o WireString(Text(32)) \o Text(1),
            WireString(Text(1)) \o <<9, A>>}

MCPackets ==
    {[type |-> "CONNECT", body |-> b] : b \in {WireConnect(m) : m \in MCMeanings} \union OddConnects}
    \union {[type |-> "PUBLISH", body |-> b] : b \in Publishes}
    \union {[type |-> "DISCONNECT", body |-> <<>>]}
===============================================================================
