------------------------------ MODULE FifoLock ------------------------------
(***************************************************************************)
(* What the global LLM semaphore of src/src/scheduler/scheduler.ts         *)
(* promises, with nothing of how its chain of promises delivers it: one    *)
(* client is served at a time, and nobody is served before a client that   *)
(* asked earlier and is still there.                                       *)
(***************************************************************************)
CONSTANT Clients

VARIABLES
    waiting,  \* the clients that asked and are not served yet
    holder,   \* the clients being served
    ahead     \* for a waiting client: who asked before it and is still there

lockVars == <<waiting, holder, ahead>>

Init ==
    /\ waiting = {}
    /\ holder = {}
    /\ ahead = [c \in Clients |-> {}]

Request(c) ==
    /\ c \notin waiting \cup holder
    /\ waiting' = waiting \cup {c}
    /\ ahead' = [ahead EXCEPT ![c] = waiting \cup holder]
    /\ UNCHANGED holder

Grant(c) ==
    /\ c \in waiting
    /\ holder = {}
    /\ ahead[c] = {}
    /\ waiting' = waiting \ {c}
    /\ holder' = {c}
    /\ UNCHANGED ahead

\* A client that waited too long leaves from wherever it stands.
Leave(c) ==
    /\ c \in waiting
    /\ waiting' = waiting \ {c}
    /\ ahead' = [d \in Clients |-> IF d = c THEN {} ELSE ahead[d] \ {c}]
    /\ UNCHANGED holder

Release(c) ==
    /\ c \in holder
    /\ holder' = holder \ {c}
    /\ ahead' = [d \in Clients |-> ahead[d] \ {c}]
    /\ UNCHANGED waiting

Next == \E c \in Clients : Request(c) \/ Grant(c) \/ Leave(c) \/ Release(c)

Spec == Init /\ [][Next]_lockVars

=============================================================================
