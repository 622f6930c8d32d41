------------------------------ MODULE Scheduler -----------------------------
(***************************************************************************)
(* The scheduler of src/src/scheduler/scheduler.ts around the LLM queue:   *)
(* the cron callbacks, the catch-up sweep, the per-tab running flags and   *)
(* the failure backoff, together with the manual "refresh now" requests of *)
(* src/src/api/routes.ts that share the queue.                             *)
(*                                                                         *)
(* A tab is uncovered when its latest due occurrence has no good result    *)
(* yet.  Whether it is covered survives a restart; all the rest is memory. *)
(* Catch-up makes up for an occurrence of an earlier day only if the tab   *)
(* has none today; else it waits for that of today.                        *)
(***************************************************************************)
EXTENDS LlmQueue, FiniteSets

CONSTANTS
    Order,        \* the tabs in the order in which the sweep visits them
    Guarded,      \* tabs with a running flag in the scheduler (all but lotto)
    BackedOff,    \* tabs with a failure backoff (not lotto, not the briefings)
    Looking,      \* tabs whose check asks if they collect (lotto, skills)
    Overwriting,  \* tabs where a failed run may replace a good result (events)
    MaxFaults,    \* bound: restarts, runs that give up waiting and midnights together
    None

Tabs == {Order[i] : i \in DOMAIN Order}

ASSUME SchedulerAssumption ==
    /\ Order \in Seq(Tabs) /\ Order # <<>>
    /\ BackedOff \subseteq Guarded /\ Guarded \subseteq Tabs
    /\ Looking \subseteq Tabs /\ Overwriting \subseteq Tabs
    /\ MaxFaults \in Nat
    /\ None \notin Tickets

VARIABLES
    job,         \* what the call of each ticket is for
    running,     \* the flag xRunning of each tab, set before queueing
    collecting,  \* the ticket whose call of refreshX is in progress, or None
    uncovered,   \* the latest due occurrence has no good result
    blocked,     \* the backoff holds the tab's catch-up off
    sweep,       \* the active sweep: its step (0: none) and the ticket it awaits
    waits,       \* tabs whose latest due occurrence is of an earlier day, with one of today to come
    faults

vars == <<queueVars, job, running, collecting, uncovered, blocked, sweep, waits, faults>>

Vias == {"schedule", "sweep", "manual"}

(***************************************************************************)
(* The phase of a scheduled or sweep job is its TabRunOutcome; that of a   *)
(* manual job is the phase variable of startManualLlmJob.                  *)
(***************************************************************************)
Phases == {"skipped-queue", "skipped-duplicate", "attempted", "nothing-to-do",
           "waiting", "running", "dropped"}

NoJob == [tab |-> Order[1], via |-> "schedule", phase |-> "skipped-queue"]
NoSweep == [step |-> 0, ticket |-> None]

Init ==
    /\ QueueInit
    /\ job = [t \in Tickets |-> NoJob]
    /\ running = [tab \in Tabs |-> FALSE]
    /\ collecting = [tab \in Tabs |-> None]
    /\ uncovered \in [Tabs -> BOOLEAN]
    /\ blocked = [tab \in Tabs |-> FALSE]
    /\ sweep = NoSweep
    /\ waits = {}
    /\ faults = 0

InFlight == Waiting \cup Running

\* safeRefreshX up to its first await, for a tab that is not running.
Submit(t, tab, via) ==
    /\ Enqueue(t, TRUE)
    /\ job' = [job EXCEPT ![t] = [tab |-> tab, via |-> via, phase |-> "skipped-queue"]]
    /\ running' = [running EXCEPT ![tab] = tab \in Guarded]

-----------------------------------------------------------------------------
\* An occurrence is due and cron fires: the run is queued unless one is
\* queued or running already.
CronFires(tab) ==
    /\ uncovered' = [uncovered EXCEPT ![tab] = TRUE]
    /\ waits' = waits \ {tab}
    /\ IF running[tab]
          THEN UNCHANGED <<queueVars, job, running>>
          ELSE \E t \in Tickets : Submit(t, tab, "schedule")
    /\ UNCHANGED <<collecting, blocked, sweep, faults>>

\* An occurrence is due while the machine sleeps or the process is down.
CronMissed(tab) ==
    /\ uncovered' = [uncovered EXCEPT ![tab] = TRUE]
    /\ waits' = waits \ {tab}
    /\ UNCHANGED <<queueVars, job, running, collecting, blocked, sweep, faults>>

\* The day changes: what is due again today has an occurrence of yesterday behind it.
Midnight ==
    /\ faults < MaxFaults
    /\ faults' = faults + 1
    /\ \E again \in SUBSET Guarded : waits' = waits \cup again
    /\ UNCHANGED <<queueVars, job, running, collecting, uncovered, blocked, sweep>>

\* Mutant: the route calls refreshX itself, beside the queue.
ManualRequestBesideQueue(tab) ==
    /\ collecting[tab] = None
    /\ \E t \in Tickets :
           /\ stage[t] = "idle"
           /\ stage' = [stage EXCEPT ![t] = "running"]
           /\ job' = [job EXCEPT ![t] = [tab |-> tab, via |-> "manual", phase |-> "running"]]
           /\ collecting' = [collecting EXCEPT ![tab] = t]
    /\ UNCHANGED <<chain, capped, running, uncovered, blocked, sweep, waits, faults>>

\* A request to refresh now.  It is refused at once while the tab collects.
ManualRequest(tab) ==
    /\ collecting[tab] = None
    /\ \E t \in Tickets :
           /\ Enqueue(t, FALSE)
           /\ job' = [job EXCEPT ![t] = [tab |-> tab, via |-> "manual", phase |-> "waiting"]]
    /\ UNCHANGED <<running, collecting, uncovered, blocked, sweep, waits, faults>>

\* Two turns of the event loop later the request has not got the slot: it is
\* answered 409 and its place in the queue is left to lapse.
ManualRefused(t) ==
    /\ stage[t] = "waiting" /\ Blocked(t)
    /\ job[t].phase = "waiting"
    /\ job' = [job EXCEPT ![t].phase = "dropped"]
    /\ UNCHANGED <<queueVars, running, collecting, uncovered, blocked, sweep, waits, faults>>

-----------------------------------------------------------------------------
\* Mutant: the callback of a manual job does not look at "dropped".
PhaseInSlotUnchecked(j) ==
    IF j.via = "manual" THEN "running"
    ELSE IF collecting[j.tab] # None THEN "skipped-duplicate"
    ELSE IF j.via = "sweep" /\ j.tab \notin Guarded /\ ~uncovered[j.tab] THEN "nothing-to-do"
    ELSE "attempted"

\* The slot is granted: what the callback passed to runLlmJob does first.
PhaseInSlot(j) ==
    IF j.via = "manual"
    THEN IF j.phase = "dropped" THEN "dropped" ELSE "running"
    ELSE IF collecting[j.tab] # None THEN "skipped-duplicate"
    ELSE IF j.via = "sweep" /\ j.tab \notin Guarded /\ ~uncovered[j.tab] THEN "nothing-to-do"
    ELSE "attempted"

GetSlot(t) ==
    /\ Start(t)
    /\ LET j == job[t]
           phase == PhaseInSlot(j)
           calls == phase \in {"running", "attempted"}
       IN  /\ job' = [job EXCEPT ![t].phase = phase]
           /\ collecting' = IF calls /\ collecting[j.tab] = None
                            THEN [collecting EXCEPT ![j.tab] = t]
                            ELSE collecting
    /\ UNCHANGED <<running, uncovered, blocked, sweep, waits, faults>>

\* Mutant: a run that gave up leaves the sweep waiting.
SweepAfterHanging(t, gaveUp) ==
    IF sweep.ticket # t \/ gaveUp THEN sweep
    ELSE IF sweep.step = Len(Order) THEN NoSweep
    ELSE [step |-> sweep.step + 1, ticket |-> None]

\* The sweep goes on with the next step when the job it awaits is over, and
\* stops when that job gave up.
SweepAfter(t, gaveUp) ==
    IF sweep.ticket # t THEN sweep
    ELSE IF gaveUp \/ sweep.step = Len(Order) THEN NoSweep
    ELSE [step |-> sweep.step + 1, ticket |-> None]

\* Mutant: a job that gave up does not clear the flag.
FlagAfterRun(j) ==
    IF j.via = "manual" \/ j.phase = "skipped-queue"
    THEN running
    ELSE [running EXCEPT ![j.tab] = FALSE]

\* The flag is cleared in the finally of safeRefreshX.
FlagAfter(j) ==
    IF j.via = "manual" THEN running ELSE [running EXCEPT ![j.tab] = FALSE]

\* noteTabOutcome: the backoff hears only of runs that called refreshX.
BackoffAfter(j, ok) ==
    IF j.phase = "attempted" /\ j.tab \in BackedOff
    THEN [blocked EXCEPT ![j.tab] = ~ok]
    ELSE blocked

\* The job ends, with a good result or without one; a failed collection of
\* events stores what it has over the good result of the day.
JobEnds(t, ok) ==
    /\ Finish(t)
    /\ LET j == job[t]
           mine == collecting[j.tab] = t
           lose == {FALSE} \cup {mine /\ ~ok /\ j.tab \in Overwriting}
       IN  /\ ok => mine
           /\ collecting' = IF mine THEN [collecting EXCEPT ![j.tab] = None] ELSE collecting
           /\ \E lost \in lose :
                  uncovered' = [uncovered EXCEPT ![j.tab] = ~ok /\ (@ \/ lost)]
           /\ running' = FlagAfter(j)
           /\ blocked' = BackoffAfter(j, ok)
    /\ job' = [job EXCEPT ![t] = NoJob]
    /\ sweep' = SweepAfter(t, FALSE)
    /\ UNCHANGED <<waits, faults>>

\* The wait for the queue exceeds its limit: the run is dropped.
RunGivesUp(t) ==
    /\ faults < MaxFaults
    /\ faults' = faults + 1
    /\ GiveUp(t)
    /\ running' = FlagAfter(job[t])
    /\ blocked' = BackoffAfter(job[t], FALSE)
    /\ job' = [job EXCEPT ![t] = NoJob]
    /\ sweep' = SweepAfter(t, TRUE)
    /\ UNCHANGED <<collecting, uncovered, waits>>

QueueMoves ==
    /\ LinkResolves
    /\ UNCHANGED <<job, running, collecting, uncovered, blocked, sweep, waits, faults>>

-----------------------------------------------------------------------------
\* The 30-minute tick, and the start of the process; a tick during an active
\* sweep does nothing.
SweepBegins ==
    /\ sweep = NoSweep
    /\ sweep' = [step |-> 1, ticket |-> None]
    /\ UNCHANGED <<queueVars, job, running, collecting, uncovered, blocked, waits, faults>>

\* The gate of the catch-up check of a tab: decideCatchup and, before it, catchupTarget.
NeedsCatchup(tab) ==
    /\ uncovered[tab]
    /\ tab \notin waits
    /\ ~blocked[tab]
    /\ ~running[tab]
    /\ tab \in Looking => collecting[tab] = None

\* One step of the sweep: queue the run and await it, or go on.
SweepStep ==
    /\ sweep.step > 0 /\ sweep.ticket = None
    /\ LET tab == Order[sweep.step]
       IN  IF NeedsCatchup(tab)
           THEN \E t \in Tickets :
                    /\ Submit(t, tab, "sweep")
                    /\ sweep' = [sweep EXCEPT !.ticket = t]
           ELSE /\ sweep' = SweepAfter(None, FALSE)
                /\ UNCHANGED <<queueVars, job, running>>
    /\ UNCHANGED <<collecting, uncovered, blocked, waits, faults>>

\* The time until which the backoff holds catch-up off has passed.
BackoffExpires(tab) ==
    /\ blocked[tab]
    /\ blocked' = [blocked EXCEPT ![tab] = FALSE]
    /\ UNCHANGED <<queueVars, job, running, collecting, uncovered, sweep, waits, faults>>

\* The process dies and launchd starts it again: only coverage is on disk.
Restart ==
    /\ faults < MaxFaults
    /\ faults' = faults + 1
    /\ chain' = <<>>
    /\ stage' = [t \in Tickets |-> "idle"]
    /\ capped' = [t \in Tickets |-> FALSE]
    /\ job' = [t \in Tickets |-> NoJob]
    /\ running' = [tab \in Tabs |-> FALSE]
    /\ collecting' = [tab \in Tabs |-> None]
    /\ blocked' = [tab \in Tabs |-> FALSE]
    /\ sweep' = NoSweep
    /\ UNCHANGED <<uncovered, waits>>

Next ==
    \/ \E tab \in Tabs : CronFires(tab)
    \/ \E tab \in Tabs : CronMissed(tab)
    \/ Midnight
    \/ \E tab \in Tabs : ManualRequest(tab)
    \/ \E t \in Tickets : ManualRefused(t)
    \/ \E t \in Tickets : GetSlot(t)
    \/ \E t \in Tickets, ok \in BOOLEAN : JobEnds(t, ok)
    \/ \E t \in Tickets : RunGivesUp(t)
    \/ QueueMoves
    \/ SweepBegins
    \/ SweepStep
    \/ \E tab \in Tabs : BackoffExpires(tab)
    \/ Restart

(***************************************************************************)
(* Promise reactions run.  setInterval starts a sweep as long as none is   *)
(* active, and a sweep goes on (strongly fair only because the model has   *)
(* finitely many tickets: the queue itself is never full).  Time passes,   *)
(* so a backoff expires, a job ends by its budget at the latest, and the   *)
(* occurrence of today that a tab waits for is due at last, whether cron   *)
(* fires or not.  No collection has to succeed; cron, requests, giving up  *)
(* and restarts need not happen.                                           *)
(***************************************************************************)
Fairness ==
    /\ WF_vars(QueueMoves)
    /\ WF_vars(SweepBegins)
    /\ SF_vars(SweepStep)
    /\ \A t \in Tickets :
           /\ WF_vars(GetSlot(t))
           /\ WF_vars(\E ok \in BOOLEAN : JobEnds(t, ok))
    /\ \A tab \in Tabs :
           /\ WF_vars(BackoffExpires(tab))
           /\ WF_vars(tab \in waits /\ (CronFires(tab) \/ CronMissed(tab)))

Spec == Init /\ [][Next]_vars /\ Fairness

-----------------------------------------------------------------------------
TypeOK ==
    /\ QueueTypeOK
    /\ job \in [Tickets -> [tab : Tabs, via : Vias, phase : Phases]]
    /\ running \in [Tabs -> BOOLEAN]
    /\ collecting \in [Tabs -> Tickets \cup {None}]
    /\ uncovered \in [Tabs -> BOOLEAN]
    /\ blocked \in [Tabs -> BOOLEAN]
    /\ sweep \in [step : 0 .. Len(Order), ticket : Tickets \cup {None}]
    /\ waits \subseteq Tabs
    /\ faults \in 0 .. MaxFaults

(***************************************************************************)
(* One collection at a time over all tabs, manual requests included: the   *)
(* routes used to call refreshX beside the queue and two LLM sessions ran  *)
(* at once.                                                                *)
(***************************************************************************)
OneCollectionAtATime ==
    \A a, b \in Tabs : collecting[a] # None /\ collecting[b] # None => a = b

(***************************************************************************)
(* A job that gets the slot never finds its own tab collecting.  It would  *)
(* return with nothing done, after a wait that kept the tab's flag set.    *)
(***************************************************************************)
NoEmptyHandedRun == \A t \in Tickets : job[t].phase # "skipped-duplicate"

(***************************************************************************)
(* The running flag of a tab is set exactly while one call of its          *)
(* safeRefresh is in flight.  A flag left behind would silence cron and    *)
(* catch-up of the tab for good; a flag lost would queue it twice.         *)
(***************************************************************************)
OwnCalls(tab) == {t \in InFlight : job[t].tab = tab /\ job[t].via # "manual"}
FlagMatchesCalls ==
    \A tab \in Guarded :
        /\ running[tab] <=> OwnCalls(tab) # {}
        /\ \A t, u \in OwnCalls(tab) : t = u

(***************************************************************************)
(* A request that was answered 409 never collects later, when its place in *)
(* the queue comes up and nobody expects it any more.                      *)
(***************************************************************************)
RefusedNeverRuns ==
    [][\A t \in Tickets, tab \in Tabs :
          job[t].phase = "dropped" => collecting[tab] # t /\ collecting'[tab] # t]_vars

(***************************************************************************)
(* A sweep that waits, waits for its own call, which is in flight.  A      *)
(* sweep that waited for anything else would never end, and with it all    *)
(* catch-up.                                                               *)
(***************************************************************************)
SweepAwaitsItsCall ==
    \A t \in Tickets : sweep.ticket = t <=> t \in InFlight /\ job[t].via = "sweep"

(***************************************************************************)
(* The backoff of a tab starts only when a run that really collected ends  *)
(* without a good result; a run that skipped or gave up, or a manual run,  *)
(* never holds catch-up off.                                               *)
(***************************************************************************)
OnlyAttemptsBackOff ==
    [][\A tab \in Tabs : ~blocked[tab] /\ blocked'[tab] =>
          /\ collecting[tab] # None /\ collecting'[tab] = None
          /\ job[collecting[tab]].via # "manual"
          /\ uncovered[tab] => uncovered'[tab]]_vars

\* A sweep ends: an active one that hung would stop every later tick.
SweepEnds == sweep.step > 0 ~> sweep = NoSweep

(***************************************************************************)
(* What was missed is made up for: a tab whose collection does not fail    *)
(* for ever is covered again, even if cron never fires, runs give up, the  *)
(* process restarts, midnight passes before catch-up comes and the tabs    *)
(* before it in the sweep always fail.                                     *)
(***************************************************************************)
Succeeds(tab) == \E t \in Tickets : job[t].tab = tab /\ JobEnds(t, TRUE)
MissedIsCovered ==
    \A tab \in Tabs : SF_vars(Succeeds(tab)) => (uncovered[tab] ~> ~uncovered[tab])

=============================================================================
