----------------------------- MODULE MCPacketStream -----------------------------
(***************************************************************************)
(* Frames for PacketStream: the packets of MCPacketCodec behind a header,  *)
(* and headers with odd control fields, odd lengths, and lengths that are  *)
(* not those of the body.                                                  *)
(***************************************************************************)
EXTENDS MCPacketCodec, PacketStream

ControlOf == [CONNECT |-> 16, PUBLISH |-> 48, DISCONNECT |-> 224]
Frame(control, bytes) == <<control>> \o WireVarInt(Len(bytes)) \o bytes

SmallConnect == WireConnect(Plain)
SmallPublish == WirePublish(Text(1), <<>>, Text(1))

\* A CONNECT whose body takes n bytes.
ConnectOf(n) == WireConnect([Plain EXCEPT !.properties =
                    <<Property("AUTHENTICATION_METHOD", Text(1)),
                      Property("AUTHENTICATION_DATA", Text(n - 22))>>])

OddFrames ==
    {Frame(c, SmallConnect) : c \in {0, 17, 32, 192, 240}}
    \* PUBREL, SUBSCRIBE and UNSUBSCRIBE, without their flags and with them
    \union {<<c, 0>> : c \in {96, 98, 128, 130, 160, 162}}
    \union {Frame(c, SmallPublish) : c \in {49, 50, 56}}
    \union {<<193, 0>>, <<16, 128, 128, 128, 128, 0>>}
    \* 16, with the length in more bytes than it needs, and the same bytes for more
    \union {<<16, 128 + Len(SmallConnect)>> \o tail \o SmallConnect :
               tail \in {<<0>>, <<128, 0>>, <<128, 128, 0>>, <<128, 1>>, <<128, 128, 1>>}}
    \union {Frame(16, ConnectOf(1024)), Frame(16, ConnectOf(1025))}
    \* announced longer and shorter than it is
    \union {<<16, Len(SmallConnect) + 2>> \o SmallConnect,
            Frame(16, SmallConnect) \o <<48>>, Frame(16, SmallConnect) \o <<224, 0>>}

MCPipelined == {Frame(48, SmallPublish), <<224, 0>>}
AnyFrame == {Frame(ControlOf[p.type], p.body) : p \in MCPackets} \union OddFrames \union MCPipelined
LastFrames == MCPipelined \union
              {Frame(16, WireConnect([Plain EXCEPT !.properties = qs])) : qs \in {<<>>, <<User(1)>>}}
MCFrames == <<AnyFrame, AnyFrame, LastFrames>>

\* Everything the frames can be read as.
StreamPackets ==
    MCPackets
    \union {[type |-> "CONNECT", body |-> b] :
               b \in {<<>>, SmallConnect, ConnectOf(1024), SmallConnect \o <<48, 5>>,
                      SmallConnect \o <<224, 0>>}}
    \union {[type |-> "DISCONNECT", body |-> SmallConnect],
            [type |-> "PUBLISH", body |-> <<0>> \o SmallPublish]}
===============================================================================
