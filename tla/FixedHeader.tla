------------------------------ MODULE FixedHeader ------------------------------
(***************************************************************************)
(* lmqtt_packet::create_fixed_header (lmqtt_packet.h): what the control    *)
(* field, the first byte of a packet, makes of the packet's _type, and     *)
(* whether it is malformed.                                                *)
(***************************************************************************)
EXTENDS Naturals

PacketTypes == {"CONNECT", "CONNACK", "PUBLISH", "DISCONNECT", "UNKNOWN"}
ReasonCodes == {"SUCCESS", "MALFORMED_PACKET"}

TypeNibble(cf) == cf \div 16
FlagNibble(cf) == cf % 16

\* PUBLISH: any retain bit, but no dup and no QoS.
PublishFlagsOk(flags) == flags \div 2 = 0

\* Mutant: the branch of nibbles 4 to 14 stores a type of its own.
TypeOfNibble_Own(n) == IF n = 1 THEN "CONNECT" ELSE "PINGREQ"

\* Nibbles 4 to 14 share one branch, which makes a DISCONNECT of each of them.
TypeOfNibble(n) == CASE n = 1       -> "CONNECT"
                     [] n = 2       -> "CONNACK"
                     [] n = 3       -> "PUBLISH"
                     [] n \in 4..14 -> "DISCONNECT"
                     [] OTHER       -> "UNKNOWN"

FlagsOk(n, flags) == IF n = 3 THEN PublishFlagsOk(flags) ELSE flags = 0

\* [type, rcode] after create_fixed_header, when _type was old.  The three
\* first types are stored before the flags are checked, DISCONNECT after, and
\* RESERVED and AUTH store nothing.
CreateFixedHeader(cf, old) ==
    LET n  == TypeNibble(cf)
        ok == n \in 1..14 /\ FlagsOk(n, FlagNibble(cf))
    IN [type  |-> IF n \in 1..3 \/ (n \in 4..14 /\ ok) THEN TypeOfNibble(n) ELSE old,
        rcode |-> IF ok THEN "SUCCESS" ELSE "MALFORMED_PACKET"]
===============================================================================
