------------------------------ MODULE MCTsQueue ------------------------------
(* Small instances of TsQueue: who calls what in lmqtt_server.h. *)
EXTENDS TsQueue

CONSTANTS io, timer, cleaner   \* the threads

\* _deletionQueue: the io thread and the timer threads push, the cleaner pops.
DeletionQueueOps ==
    [t \in Threads |-> [o \in Ops |-> IF t \in Consumers THEN {} ELSE {"push_back"}]]

\* _activeSessions: the accept handler counts, pushes and looks at the newest
\* entry twice, the cleaner erases.
AcceptHandler(last) == CASE last = "none" -> {"size"}
                         [] last = "size" -> {"size", "push_back"}
                         [] last = "back" -> {"size", "back"}
                         [] OTHER         -> {"back"}

ActiveSessionsOps ==
    [t \in Threads |-> [o \in Ops |->
        IF t = cleaner THEN {"find_and_erase"} ELSE AcceptHandler(o)]]

\* Any thread calls any operation at any time.
EveryOp == [t \in Threads |-> [o \in Ops |-> Ops \ {"none"}]]

MCSymmetry == Permutations(Values) \cup Permutations(Threads)
===============================================================================
