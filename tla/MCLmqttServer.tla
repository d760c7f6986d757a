----------------------------- MODULE MCLmqttServer -----------------------------
(* Small instances of LmqttServer. *)
EXTENDS LmqttServer

\* The first bytes that tell the branches of create_fixed_header apart: CONNECT,
\* CONNACK, PUBLISH and PINGREQ; a CONNECT with flags, AUTH.
SixPackets == {16, 32, 48, 192, 17, 240}

\* CONNECT, PUBLISH, DISCONNECT and a CONNECT with flags.
FourPackets == {16, 48, 224, 17}

ConnSymmetry == Permutations(Conns)
===============================================================================
