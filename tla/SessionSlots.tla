------------------------------ MODULE SessionSlots ------------------------------
(***************************************************************************)
(* What the server promises of its sessions: a new connection gets one of  *)
(* Limit slots while one is free and is denied otherwise; a slot is given  *)
(* back only by a connection whose socket was cut, and a connection never  *)
(* gets a second slot.  LmqttServer implements it.                         *)
(***************************************************************************)
EXTENDS Naturals, FiniteSets

CONSTANTS Conns, Limit

VARIABLES slot,   \* slot[c]: "new", "active", "denied", "retired"
          cut     \* the connections whose socket was shut down or closed

svars == <<slot, cut>>

Active == {c \in Conns : slot[c] = "active"}

SInit == slot = [c \in Conns |-> "new"] /\ cut = {}

Take(c) == /\ slot[c] = "new" /\ c \notin cut
           /\ Cardinality(Active) < Limit
           /\ slot' = [slot EXCEPT ![c] = "active"]
           /\ UNCHANGED cut

Refuse(c) == /\ slot[c] = "new"
             /\ Cardinality(Active) >= Limit
             /\ slot' = [slot EXCEPT ![c] = "denied"]
             /\ UNCHANGED cut

Cut(c) == /\ slot[c] # "new" /\ c \notin cut
          /\ cut' = cut \cup {c}
          /\ UNCHANGED slot

Retire(c) == /\ slot[c] = "active" /\ c \in cut
             /\ slot' = [slot EXCEPT ![c] = "retired"]
             /\ UNCHANGED cut

SNext == \E c \in Conns : Take(c) \/ Refuse(c) \/ Cut(c) \/ Retire(c)

SSpec == SInit /\ [][SNext]_svars
===============================================================================
