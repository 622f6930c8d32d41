------------------------------ MODULE WakeLock ------------------------------
(***************************************************************************)
(* The power assertion of src/src/util/power.ts: a reference count and one *)
(* caffeinate child process, started with the first holder and killed with *)
(* the last one.  The process lives and dies outside the program's control *)
(* (failure to start, expiry of -t, an external kill), and its "exit" or   *)
(* "error" event reaches the program later than the death itself.          *)
(***************************************************************************)
EXTENDS Naturals

CONSTANTS
    Procs,   \* the caffeinate processes that may exist or be remembered at once
    NoProc

ASSUME NoProcAssumption == NoProc \notin Procs

VARIABLES
    refCount,  \* how many holders there are
    child,     \* the process the module remembers, or NoProc
    procs,     \* the processes that run in the operating system
    killed,    \* those of them that were sent SIGTERM
    events     \* exit or error events not delivered yet

wakeVars == <<refCount, child, procs, killed, events>>

WakeInit ==
    /\ refCount = 0
    /\ child = NoProc
    /\ procs = {}
    /\ killed = {}
    /\ events = {}

\* spawn() returns a new object; it may fail later, through an "error" event.
\* On another platform, or when spawn() throws, there is no child at all.
Spawn ==
    \/ \E p \in Procs \ (procs \cup events \cup {child}) :
           /\ child' = p
           /\ \/ procs' = procs \cup {p} /\ UNCHANGED events
              \/ events' = events \cup {p} /\ UNCHANGED procs
    \/ UNCHANGED <<child, procs, events>>

Acquire ==
    /\ refCount' = refCount + 1
    /\ IF refCount > 0 THEN UNCHANGED <<child, procs, events>> ELSE Spawn
    /\ UNCHANGED killed

\* The child is forgotten and killed with the last holder.
Release ==
    /\ refCount' = IF refCount > 0 THEN refCount - 1 ELSE 0
    /\ child' = IF refCount' > 0 THEN child ELSE NoProc
    /\ killed' = IF refCount' > 0 THEN killed ELSE killed \cup ({child} \cap procs)
    /\ UNCHANGED <<procs, events>>

\* A process ends by itself or because it was killed.
ProcEnds(p) ==
    /\ p \in procs
    /\ procs' = procs \ {p}
    /\ killed' = killed \ {p}
    /\ events' = events \cup {p}
    /\ UNCHANGED <<refCount, child>>

\* Mutant: a late event of an old process makes the module forget the new one.
ForgetAnyChild(p) ==
    /\ p \in events
    /\ events' = events \ {p}
    /\ child' = NoProc
    /\ UNCHANGED <<refCount, procs, killed>>

\* The handlers of "exit" and "error" forget the child only if it is still
\* the remembered one.
ForgetChild(p) ==
    /\ p \in events
    /\ events' = events \ {p}
    /\ child' = IF child = p THEN NoProc ELSE child
    /\ UNCHANGED <<refCount, procs, killed>>

-----------------------------------------------------------------------------
WakeTypeOK ==
    /\ refCount \in Nat
    /\ child \in Procs \cup {NoProc}
    /\ procs \subseteq Procs
    /\ killed \subseteq procs
    /\ events \subseteq Procs

(***************************************************************************)
(* "refCount 0 means no assertion": a process that was not sent SIGTERM is *)
(* the one the module remembers, and somebody holds it.  An event of an    *)
(* earlier process that arrives late must not make the module forget the   *)
(* present one, which would then never be killed and keep the Mac awake.   *)
(***************************************************************************)
NoLeakedAssertion == \A p \in procs \ killed : child = p /\ refCount > 0

=============================================================================
