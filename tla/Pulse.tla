------------------------------- MODULE Pulse -------------------------------
(***************************************************************************)
(* The hourly pulse: runPulse and flushPulseQueue (src/src/stock/pulse.ts),*)
(* the gate (src/src/stock/pulse-gate.ts), the table of alerts             *)
(* (src/src/db/repo.ts), the text messages                                 *)
(* (src/src/notify/pulse-imessage.ts) and the morning digest, which cron   *)
(* and the start of the process send (src/src/scheduler/scheduler.ts).     *)
(*                                                                         *)
(* A day has three stretches: the quiet hours after midnight, the day, and *)
(* the quiet hours before midnight.  A backoff lasts at most six hours and *)
(* is over when the next stretch comes.  Two alerts with equal fingerprint *)
(* or similar headline are alerts of the same issue.  Two digests may be   *)
(* on their way at once: nothing keeps cron from sending one while that of *)
(* the start, or one the Mac slept over, is not through.  Rows that are    *)
(* inserted as below, dup, capped, muted or failed are never read again    *)
(* but by the daily briefing, and are left out of the table.               *)
(***************************************************************************)
EXTENDS Naturals, Sequences, FiniteSets, FiniteSetsExt

CONSTANTS
    Issues,        \* fingerprints
    Scope,         \* the symbol of an issue, or "macro"
    PerSymbolCap, DailyCap, MacroCap,
    Severities,    \* of 0, 1, 2 for info, important and urgent
    DedupWindow,   \* dedupHours, in stretches
    Days,          \* bound: days
    MaxAlerts,     \* bound: rows of the table
    MaxDigests,    \* bound: digests on their way together
    MaxFaults      \* bound: crashes, missed digests and switchings together

ASSUME PulseAssumption ==
    /\ {PerSymbolCap, DailyCap, MacroCap, DedupWindow, Days, MaxAlerts, MaxDigests, MaxFaults} \subseteq Nat
    /\ Days # 0 /\ MaxDigests # 0
    /\ Scope \in [Issues -> STRING]
    /\ Severities \subseteq 0 .. 2

VARIABLES
    time,     \* the stretch that is now
    due,      \* it is the second in which the quiet hours end: cron is about to fire
    up,       \* the process runs
    on,       \* isPulseTextEnabled
    alerts,   \* stock_pulse_alerts, oldest first
    backoff,  \* now < retryAfter
    run,      \* the call of runPulse in progress
    digest,   \* the rows that each call of flushPulseQueue is sending
    faults

clock == <<time, due>>
process == <<up, on, faults>>
vars == <<clock, process, alerts, backoff, run, digest>>

Day(t) == t \div 3
Night(t) == t % 3 # 1
End == 3 * Days - 2               \* the last day's quiet hours are over
Flushes == 1 .. MaxDigests
Symbols == {Scope[i] : i \in Issues} \ {"macro"}

Threshold == 1                    \* important
Candidates == [issue : Issues, sev : Severities]
NoCounts == [total |-> 0, macro |-> 0, bySymbol |-> [s \in Symbols |-> 0]]
NoRun == [stage |-> "none", started |-> 0, dry |-> FALSE, textOn |-> FALSE,
          recent |-> {}, counts |-> NoCounts, todo |-> <<>>]
NoDigests == [f \in Flushes |-> {}]

Init ==
    /\ time = 1 /\ due = FALSE
    /\ up = TRUE /\ on = TRUE /\ faults = 0
    /\ alerts = <<>>
    /\ backoff = FALSE
    /\ run = NoRun /\ digest = NoDigests

Ids == DOMAIN alerts
Live(a) == a.status \in {"sent", "queued"}
Of(s) == {i \in Ids : Live(alerts[i]) /\ alerts[i].day = Day(run.started) /\ Scope[alerts[i].issue] = s}

recentPulseAlerts == {i \in Ids : Live(alerts[i]) /\ alerts[i].at + DedupWindow >= time}

\* Mutant: alerts put off to the morning do not count.
CountSentOnly ==
    LET Sent(s) == {i \in Of(s) : alerts[i].status = "sent"}
    IN [total |-> Cardinality(UNION {Sent(s) : s \in Symbols \cup {"macro"}}),
        macro |-> Cardinality(Sent("macro")),
        bySymbol |-> [s \in Symbols |-> Cardinality(Sent(s))]]

\* total counts all rows, those without a symbol, too.
countPulseSentToday ==
    [total |-> Cardinality(UNION {Of(s) : s \in Symbols \cup {"macro"}}),
     macro |-> Cardinality(Of("macro")),
     bySymbol |-> [s \in Symbols |-> Cardinality(Of(s))]]

\* Mutant: only what was put off last night.
ListOfLastNight == {i \in Ids : alerts[i].status = "queued" /\ Day(time) <= alerts[i].day + 1}

listQueuedPulseAlerts == {i \in Ids : alerts[i].status = "queued"}

bump(counts, issue, status) ==
    LET s == Scope[issue]
    IN IF ~Live([status |-> status]) THEN counts
       ELSE IF s = "macro" THEN [counts EXCEPT !.macro = @ + 1]
       ELSE [counts EXCEPT !.total = @ + 1, !.bySymbol = [counts.bySymbol EXCEPT ![s] = @ + 1]]

\* The latest alert of the issue was at least as severe.
findDuplicate(c) ==
    LET same == {i \in run.recent : alerts[i].issue = c.issue}
    IN same # {} /\ c.sev <= alerts[Max(same)].sev

Capped(c) ==
    LET s == Scope[c.issue]
    IN IF s = "macro" THEN run.counts.macro >= MacroCap
       ELSE run.counts.bySymbol[s] >= PerSymbolCap \/ run.counts.total >= DailyCap

isQuietHour == Night(run.started)

decide(c) ==
    CASE c.sev < Threshold -> "below"
      [] c.sev >= Threshold /\ findDuplicate(c) -> "dup"
      [] c.sev >= Threshold /\ ~findDuplicate(c) /\ Capped(c) -> "capped"
      [] OTHER -> IF isQuietHour /\ c.sev < 2 THEN "queued" ELSE "sent"

\* What is recorded of a candidate that is not sent now.
recordedStatus(decision) ==
    IF decision \notin {"sent", "queued"} THEN decision
    ELSE IF run.dry THEN "below"
    ELSE IF ~run.textOn THEN "muted" ELSE decision

-----------------------------------------------------------------------------
(* runPulse.                                                                 *)

judging == run.stage = "judge"
Steady == UNCHANGED <<clock, process, digest>>

\* A scheduled run waits for the backoff; a manual one does not, and may be a dry run.
runPulse(force, dry) ==
    /\ up /\ run.stage = "none"
    /\ force \/ ~backoff
    /\ run' = [NoRun EXCEPT !.stage = "news", !.started = time, !.dry = dry]
    /\ Steady /\ UNCHANGED <<alerts, backoff>>

\* There are no holdings.
NoHoldings ==
    /\ run.stage = "news"
    /\ run' = NoRun
    /\ Steady /\ UNCHANGED <<alerts, backoff>>

\* The news are there; the alerts of late are read for the question to the agent.
AskAgent ==
    /\ run.stage = "news"
    /\ run' = [run EXCEPT !.stage = "agent", !.recent = recentPulseAlerts]
    /\ Steady /\ UNCHANGED <<alerts, backoff>>

\* The agent failed, or its answer cannot be read.
RunFails ==
    /\ run.stage = "agent"
    /\ run' = NoRun /\ backoff' = TRUE
    /\ Steady /\ UNCHANGED alerts

\* prioritize: the most severe first, and those on a symbol before the others.
Before(c, d) ==
    c.sev > d.sev \/ (c.sev = d.sev /\ (Scope[c.issue] = "macro" => Scope[d.issue] = "macro"))

AgentAnswers ==
    /\ run.stage = "agent"
    /\ \E n \in 0 .. 2 : \E todo \in [1 .. n -> Candidates] :
          /\ Len(alerts) + n <= MaxAlerts
          /\ \A k \in 2 .. n : Before(todo[k - 1], todo[k])
          /\ run' = [run EXCEPT !.stage = "judge", !.textOn = on, !.todo = todo,
                                !.counts = countPulseSentToday]
    /\ Steady /\ UNCHANGED <<alerts, backoff>>

\* insertPulseAlert, and what the rest of the run counts with.
Insert(status, told) ==
    LET c == Head(run.todo)
        row == [issue |-> c.issue, sev |-> c.sev, day |-> Day(run.started), at |-> time,
                status |-> status, dry |-> run.dry, told |-> told, cut |-> 0, met |-> 0]
    IN /\ alerts' = IF Live(row) THEN Append(alerts, row) ELSE alerts
       /\ run' = [run EXCEPT !.stage = "judge", !.todo = Tail(@),
                             !.counts = bump(@, c.issue, status),
                             !.recent = IF Live(row) THEN @ \cup {Len(alerts) + 1} ELSE @]

ToSend == decide(Head(run.todo)) = "sent" /\ ~run.dry /\ run.textOn

\* The switch is asked again when the message is sent: one that was turned off fails it.
Judge ==
    /\ judging /\ run.todo # <<>>
    /\ \/ ToSend /\ on /\ run' = [run EXCEPT !.stage = "send"] /\ UNCHANGED alerts
       \/ ToSend /\ ~on /\ Insert("failed", 0)
       \/ ~ToSend /\ Insert(recordedStatus(decide(Head(run.todo))), 0)
    /\ Steady /\ UNCHANGED backoff

\* A message that ran into its time limit may have been delivered.
SendEnds ==
    /\ run.stage = "send"
    /\ Insert("sent", 1) \/ Insert("failed", 0) \/ Insert("failed", 1)
    /\ Steady /\ UNCHANGED backoff

RunEnds ==
    /\ judging /\ run.todo = <<>>
    /\ run' = NoRun /\ backoff' = FALSE
    /\ Steady /\ UNCHANGED alerts

-----------------------------------------------------------------------------
(* flushPulseQueue: cron calls it as the quiet hours end, and so does the    *)
(* start of the process.                                                     *)

Mark(ids, status, told) ==
    [i \in Ids |-> IF i \in ids THEN [alerts[i] EXCEPT !.status = status, !.told = @ + told]
                   ELSE alerts[i]]

\* The digests that have a row on its way.
Flying(i) == {f \in Flushes : i \in digest[f]}

\* A flush takes the queue along; met counts that it met a row on its way with another.
Take(ids, status) ==
    [i \in Ids |-> IF i \notin ids THEN alerts[i]
                   ELSE IF Flying(i) = {} THEN [alerts[i] EXCEPT !.status = status]
                   ELSE [alerts[i] EXCEPT !.status = status, !.met = @ + 1]]

Idle == {f \in Flushes : digest[f] = {}}

\* With the texts turned off the queue is cleared without a digest.
flushPulseQueue ==
    \/ /\ on
       /\ \E f \in Idle :
              /\ \A g \in Idle : f <= g
              /\ digest' = [digest EXCEPT ![f] = listQueuedPulseAlerts]
       /\ alerts' = Take(listQueuedPulseAlerts, "queued")
    \/ /\ ~on
       /\ alerts' = Take(listQueuedPulseAlerts, "muted")
       /\ UNCHANGED digest

\* Mutant: a digest that failed stays in the queue for the next morning.
DigestEndsKeeping(f) ==
    /\ digest[f] # {} /\ ~judging
    /\ digest' = [digest EXCEPT ![f] = {}]
    /\ \/ alerts' = Mark(digest[f], "sent", 1)
       \/ \E told \in {0, 1} : alerts' = Mark(digest[f], "queued", told)
    /\ UNCHANGED <<clock, process, backoff, run>>

\* A digest that ran into its time limit may have been delivered.
DigestEnds(f) ==
    /\ digest[f] # {} /\ ~judging
    /\ digest' = [digest EXCEPT ![f] = {}]
    /\ \/ alerts' = Mark(digest[f], "sent", 1)
       \/ \E told \in {0, 1} : alerts' = Mark(digest[f], "failed", told)
    /\ UNCHANGED <<clock, process, backoff, run>>

Tick ==
    /\ time < End /\ ~due /\ ~judging
    /\ time' = time + 1
    /\ due' = (Night(time) /\ ~Night(time'))
    /\ backoff' = FALSE
    /\ UNCHANGED <<process, alerts, run, digest>>

CronFires ==
    /\ due /\ up /\ ~judging
    /\ due' = FALSE
    /\ flushPulseQueue
    /\ UNCHANGED <<time, process, backoff, run>>

\* The second passes while the Mac sleeps or the process is down.
CronMissed ==
    /\ due /\ ~judging
    /\ due' = FALSE
    /\ \/ ~up /\ UNCHANGED faults
       \/ up /\ faults < MaxFaults /\ faults' = faults + 1
    /\ UNCHANGED <<time, up, on, alerts, backoff, run, digest>>

Toggle ==
    /\ up /\ faults < MaxFaults /\ ~judging
    /\ faults' = faults + 1
    /\ on' = ~on
    /\ UNCHANGED <<clock, up, alerts, backoff, run, digest>>

\* Digests on their way arrive or do not; cut counts that the mark of a row was cut off.
Crash ==
    /\ up /\ faults < MaxFaults
    /\ faults' = faults + 1
    /\ up' = FALSE
    /\ run' = NoRun /\ backoff' = FALSE /\ digest' = NoDigests
    /\ \E arrived \in SUBSET (Flushes \ Idle) :
          alerts' = [i \in Ids |->
                        IF Flying(i) = {} THEN alerts[i]
                        ELSE [alerts[i] EXCEPT !.told = @ + Cardinality(Flying(i) \cap arrived),
                                               !.cut = @ + 1]]
    /\ UNCHANGED <<clock, on>>

\* launchd starts the process; by night the queue waits for cron.
Restart ==
    /\ ~up
    /\ up' = TRUE
    /\ \/ Night(time) /\ UNCHANGED <<alerts, digest>>
       \/ ~Night(time) /\ flushPulseQueue
    /\ UNCHANGED <<clock, on, faults, backoff, run>>

Next ==
    \/ runPulse(FALSE, FALSE) \/ (\E dry \in BOOLEAN : runPulse(TRUE, dry))
    \/ NoHoldings \/ AskAgent \/ RunFails \/ AgentAnswers
    \/ Judge \/ SendEnds \/ RunEnds
    \/ (\E f \in Flushes : DigestEnds(f))
    \/ Tick \/ CronFires \/ CronMissed \/ Toggle \/ Crash \/ Restart

\* Every await ends, since the agent and the script that sends have time limits; launchd
\* starts the process again; cron fires unless its second is missed.
Fairness ==
    /\ WF_vars(Judge) /\ WF_vars(SendEnds) /\ WF_vars(RunEnds)
    /\ \A f \in Flushes : SF_vars(DigestEnds(f))
    /\ SF_vars(Tick) /\ SF_vars(CronFires) /\ WF_vars(Restart)

Spec == Init /\ [][Next]_vars /\ Fairness

-----------------------------------------------------------------------------
Statuses == {"sent", "queued", "muted", "failed"}

TypeOK ==
    /\ time \in 0 .. End /\ due \in BOOLEAN
    /\ up \in BOOLEAN /\ on \in BOOLEAN /\ backoff \in BOOLEAN /\ faults \in 0 .. MaxFaults
    /\ \A i \in Ids : alerts[i].status \in Statuses /\ alerts[i].issue \in Issues
    /\ run.stage \in {"none", "news", "agent", "judge", "send"}
    /\ digest \in [Flushes -> SUBSET Ids] /\ run.recent \subseteq Ids

\* Rows that no flush met on their way with another: a digest that arrives for a row which
\* another flush has muted or given up brings it back beyond the budget it had left.
LiveOn(day, scope) ==
    {i \in Ids : /\ Live(alerts[i]) /\ alerts[i].met = 0
                 /\ alerts[i].day = day /\ Scope[alerts[i].issue] = scope}

\* The caps bound what reaches the user of one date, at once or with the morning digest, however
\* runs, digests and restarts fall together (src/src/db/repo.ts:703).
CapsHold ==
    \A d \in 0 .. Days :
        /\ \A s \in Symbols : Cardinality(LiveOn(d, s)) <= PerSymbolCap
        /\ Cardinality(UNION {LiveOn(d, s) : s \in Symbols}) <= DailyCap
        /\ Cardinality(LiveOn(d, "macro")) <= MacroCap

\* A row is delivered once, and again only where the code cannot know that it was: once more at
\* most for each crash that came between its digest and its mark, and for each flush that met
\* it on its way, of cron or of a start.  In particular a failed digest leaves the queue for
\* good, although its message may have arrived (src/src/stock/pulse.ts:329, 351).
DeliveredOnce == \A i \in Ids : alerts[i].told <= 1 + alerts[i].cut + alerts[i].met

\* A dry run stays silent: nothing it judged is delivered, not even by a digest hours later
\* (src/src/stock/pulse.ts:234).
DryRunSilent == \A i \in Ids : alerts[i].dry => alerts[i].told = 0

\* The mornings to come, as far as the run goes.
MorningsLeft == Cardinality({t \in time + 1 .. End : ~Night(t)})

\* What was put off to the morning leaves the queue: with the digest of the first morning that
\* cron does not miss, or with the start of a process that was down in its second
\* (src/src/scheduler/scheduler.ts:1269, 1093).
QueuedLeaves ==
    \A k \in 1 .. MaxAlerts :
        LET queued == k \in Ids /\ alerts[k].status = "queued"
        IN (queued /\ MaxFaults - faults < MorningsLeft) ~> ~queued

\* What GateCounts says of total, and decide of macro alerts: they have a budget of their own,
\* and an alert on a symbol is capped only by alerts on symbols (src/src/stock/pulse-gate.ts:29).
SeparateBudgets ==
    (judging /\ run.todo # <<>> /\ decide(Head(run.todo)) = "capped") =>
        LET s == Scope[Head(run.todo).issue]
        IN \/ s = "macro"
           \/ run.counts.bySymbol[s] >= PerSymbolCap
           \/ Cardinality({i \in Ids : alerts[i].day = Day(run.started)
                                       /\ Scope[alerts[i].issue] # "macro"}) >= DailyCap
=============================================================================
