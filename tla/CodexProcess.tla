---------------------------- MODULE CodexProcess ----------------------------
(***************************************************************************)
(* One call of runCaptured (src/src/util/codex-query.ts): a child process, *)
(* its pipes, the watchdog, and the promise that the call returns.  The    *)
(* child may leave descendants behind that hold the pipes open, and then   *)
(* its "exit" event comes without the "close" event.                       *)
(***************************************************************************)
VARIABLES
    cli,       \* "none", "running" or "exited" (the exit event was handled)
    held,      \* a descendant of the child holds its pipes
    stop,      \* stopReason: "none", "timeout" or "idle"
    overflow,  \* the output exceeded its limit
    killing,   \* terminate() was called: SIGTERM, and SIGKILL 5 seconds later
    call       \* the promise: "none" (no call), "pending", or how it settled

procVars == <<cli, held, stop, overflow, killing, call>>

Settled == {"done", "timeout", "overflow", "spawn-failed"}

ProcInit ==
    /\ cli = "none"
    /\ held = FALSE
    /\ stop = "none"
    /\ overflow = FALSE
    /\ killing = FALSE
    /\ call = "none"

\* spawn(): the process starts, or an "error" event rejects the call.
Launch ==
    /\ held' = FALSE
    /\ stop' = "none"
    /\ overflow' = FALSE
    /\ killing' = FALSE
    /\ \/ cli' = "running" /\ call' = "pending"
       \/ cli' = "none" /\ call' = "spawn-failed"

\* The caller has its result; what is left of the processes does not matter.
Forget ==
    /\ cli' = "none"
    /\ held' = FALSE
    /\ stop' = "none"
    /\ overflow' = FALSE
    /\ killing' = FALSE
    /\ call' = "none"

\* The child starts a descendant that inherits its pipes.
Fork ==
    /\ cli = "running" /\ ~held
    /\ held' = TRUE
    /\ UNCHANGED <<cli, stop, overflow, killing, call>>

OrphanEnds ==
    /\ held
    /\ held' = FALSE
    /\ UNCHANGED <<cli, stop, overflow, killing, call>>

\* Output beyond the limit terminates the child but sets no stopReason.
Overflows ==
    /\ call = "pending" /\ ~overflow
    /\ cli = "running" \/ held
    /\ overflow' = TRUE
    /\ killing' = TRUE
    /\ UNCHANGED <<cli, held, stop, call>>

\* Mutant: the watchdog notes why, but terminates nothing.
WatchdogNotes(reason) ==
    /\ call = "pending" /\ stop = "none"
    /\ stop' = reason
    /\ UNCHANGED <<cli, held, overflow, killing, call>>

\* The watchdog finds the budget spent ("timeout") or no output for ten
\* minutes ("idle").
Watchdog(reason) ==
    /\ call = "pending" /\ stop = "none"
    /\ stop' = reason
    /\ killing' = TRUE
    /\ UNCHANGED <<cli, held, overflow, call>>

\* The "exit" event settles the call only when it was stopped before.
ChildExits ==
    /\ cli = "running"
    /\ cli' = "exited"
    /\ call' = IF stop # "none" THEN "timeout" ELSE call
    /\ UNCHANGED <<held, stop, overflow, killing>>

\* The "close" event: the child has exited and its pipes are closed.
Close ==
    /\ cli = "exited" /\ ~held
    /\ call = "pending"
    /\ call' = IF stop # "none" THEN "timeout" ELSE IF overflow THEN "overflow" ELSE "done"
    /\ UNCHANGED <<cli, held, stop, overflow, killing>>

-----------------------------------------------------------------------------
ProcTypeOK ==
    /\ cli \in {"none", "running", "exited"}
    /\ stop \in {"none", "timeout", "idle"}
    /\ {held, overflow, killing} \subseteq BOOLEAN
    /\ call \in {"none", "pending"} \cup Settled

(***************************************************************************)
(* "When we stopped it, we do not wait for the end of its pipes" (comment  *)
(* on the exit handler).                                                   *)
(***************************************************************************)
StoppedCallSettles == call = "pending" /\ stop # "none" ~> call # "pending"

=============================================================================
