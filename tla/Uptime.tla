------------------------------- MODULE Uptime -------------------------------
(***************************************************************************)
(* The after-the-fact report of downtime (src/uptime).  A beacon file is   *)
(* rewritten on every beat; a process that finds it too old - at a start   *)
(* (the autopsy) or at its own next beat (the machine slept) - judges the  *)
(* gap, records an event in the ledger with the collections it swallowed,  *)
(* looks again later whether they were made up for, and texts the user     *)
(* about an incident.                                                      *)
(*                                                                         *)
(* Everything but the beat, the timers and the user's acknowledgement runs *)
(* on one promise chain, task after task.  A task gives way at two places: *)
(* while it asks which collections were missed and while a text is being   *)
(* sent.  There the user, the scheduler, a crash or the machine's sleep    *)
(* come in between.                                                        *)
(*                                                                         *)
(* One unit of time is one beat.  Wording, the journal, the reasons given  *)
(* for a verdict and its confidence are left out; quiet hours are a set of *)
(* times; the ledger's limit of a hundred events is not reached.           *)
(***************************************************************************)
EXTENDS Naturals, Sequences, FiniteSets, FiniteSetsExt, SequencesExt

CONSTANTS
    MaxTime,        \* bound: the run ends here
    DayLength,      \* beats of a day
    Slots,          \* the times of day a collection is planned at
    CaughtUp,       \* those the scheduler makes up for on later days too
    QuietTimes,     \* when no text is sent
    Records,        \* what the machine's records may show of a reboot
    MaxFaults,      \* bound: crashes, stops, sleeps and failed lookups
    MaxEdits,       \* bound: acknowledgements and changes of the schedule
    MaxTries        \* MAX_SEND_ATTEMPTS_PER_PROCESS

MinGap == 2
MergeWindow == 1
ReevalDelays == <<1, 2, 3>>
NotifyAfterRound == 2
Grace == ReevalDelays[Len(ReevalDelays)]

Time == 0 .. MaxTime
None == [mode |-> "none"]
Day(t) == t \div DayLength

VARIABLES
    now,        \* the wall clock
    phase,      \* "down", "boot" (no beat yet) or "up"
    beacon,     \* the beacon file
    rebooted,   \* the machine restarted since the beacon was written
    lastTick,   \* the last beat, in memory
    chain,      \* tasks waiting their turn
    work,       \* the task that runs, at the place it gave way
    timers,     \* re-evaluations to come
    sweeping,   \* the sweep of unsent texts is armed
    attempts,   \* per event, sends this process tried
    sent,       \* events this process has sent a text for
    ledger,     \* the events on disk
    schedule,   \* the collections the user has planned
    covered,    \* the collections that took place
    faults, edits

disk == <<beacon, ledger>>
memory == <<lastTick, chain, work, timers, sweeping, attempts, sent>>
world == <<schedule, covered, rebooted>>
uptimeVars == <<now, phase, disk, memory, world, faults, edits>>

-----------------------------------------------------------------------------
(* Events *)

Incident(e) == \E s \in DOMAIN e.missed : e.missed[s].evaluated
EventOf(id) == CHOOSE e \in ledger : e.id = id
Known(id) == \E e \in ledger : e.id = id
Put(e) == {x \in ledger : x.id # e.id} \cup {e}

(* describeMissedSlots: the planned times inside a gap that nothing shows to
   have been served.  Of a past day only the time the scheduler would still
   make up for can be checked; the others are listed unchecked.            *)
CatchupTarget(s) == s \in CaughtUp /\ \A x \in CaughtUp \cap schedule : x <= now => x <= s
Checkable(s) == Day(s) = Day(now) \/ CatchupTarget(s)
Missed(start, end) ==
    LET open == {s \in schedule : /\ start < s /\ s <= end
                                  /\ s \notin covered \/ (~Checkable(s) /\ s \in CaughtUp)}
    IN  [s \in open |-> [evaluated |-> Checkable(s), recovered |-> FALSE]]

(* A lookup that fails answers that nothing was missed. *)
Lookups(start, end) ==
    {Missed(start, end)} \cup (IF faults < MaxFaults THEN {<<>>} ELSE {})
Cost(seen, start, end) == IF seen = Missed(start, end) THEN 0 ELSE 1

(* classifyRebooted, over what the machine's records show of a gap with a
   reboot inside: a panic report, the entry of an orderly shutdown, the state of
   the battery.                                                            *)
ClassifyRebooted(ev) ==
    IF ev.panic THEN "panic"
    ELSE IF ev.shutdown = "unread" THEN "unknown"
    ELSE IF ev.shutdown = "found" THEN "reboot-clean"
    ELSE IF ev.drained THEN "battery-dead" ELSE "power-cut"

(* classifySameBoot: a gap of one process is sleep; between two it is a stop
   that was asked for, sleep the power log shows, or an unexplained absence. *)
ClassifySameBoot(t, asleep) ==
    IF t.source = "tick" THEN "sleep"
    ELSE IF t.mode = "stopping" THEN "restart-intended"
    ELSE IF asleep THEN "sleep" ELSE "app-gap"

(* Evidence that cannot be collected makes the cause unknown. *)
Verdicts(t) ==
    {"unknown"} \cup IF t.rebooted THEN {ClassifyRebooted(ev) : ev \in Records}
                     ELSE {ClassifySameBoot(t, asleep) : asleep \in BOOLEAN}

(* findDowntimeMergeTarget: only the event that began last is extended, when
   the new gap has its cause and begins soon after it, or when one window of
   the power log covers both.                                              *)
Latest == {e \in ledger : \A x \in ledger : x.start <= e.start}
MergeTargets(t, cause, window) ==
    {e \in Latest : /\ t.start + MergeWindow >= e.start
                    /\ (e.cause = cause /\ t.start <= e.end + MergeWindow) \/ window}

(* A slot found recovered before stays so; otherwise the later look counts. *)
MergeMissed(old, new) ==
    [s \in DOMAIN old \cup DOMAIN new |->
        IF s \notin DOMAIN new THEN old[s]
        ELSE IF s \in DOMAIN old /\ old[s].recovered
             THEN [new[s] EXCEPT !.recovered = TRUE]
             ELSE new[s]]

FirstState(missed) ==
    IF \E s \in DOMAIN missed : missed[s].evaluated THEN "recovering" ELSE "recovered"

NewEvent(t, cause, missed) ==
    [id |-> t.start, start |-> t.start, end |-> t.end, cause |-> cause,
     missed |-> missed, state |-> FirstState(missed), rounds |-> 0,
     imessage |-> FALSE, acked |-> FALSE]

(* Slip: the event keeps the end it had. *)
ExtendedKeepsEnd(e, t, cause, missed) ==
    [e EXCEPT !.cause = cause, !.missed = MergeMissed(@, missed), !.state = FirstState(missed)]

Extended(e, t, cause, missed) ==
    [e EXCEPT !.end = Max({@, t.end}), !.cause = cause,
              !.missed = MergeMissed(@, missed), !.state = FirstState(missed)]

(* recoveryStateFor *)
StateAfter(missed, round) ==
    LET checked == {s \in DOMAIN missed : missed[s].evaluated}
        back == {s \in checked : missed[s].recovered}
    IN  IF back = checked THEN "recovered"
        ELSE IF round < Len(ReevalDelays) THEN "recovering"
        ELSE IF back # {} THEN "partly" ELSE "lost"

(* Slip: what a later look says replaces what was found first. *)
ReviewedAnew(old, seen) ==
    [s \in DOMAIN old \cup DOMAIN seen |->
        IF s \in DOMAIN seen THEN seen[s] ELSE [old[s] EXCEPT !.recovered = TRUE]]

(* reevaluate: what is no longer missing was recovered; a slot that is still
   missing keeps what was first found of it; new ones are added.           *)
Reviewed(old, seen) ==
    [s \in DOMAIN old \cup DOMAIN seen |->
        IF s \notin DOMAIN old THEN seen[s]
        ELSE IF s \in DOMAIN seen THEN old[s] ELSE [old[s] EXCEPT !.recovered = TRUE]]

(* decideDowntimeNotify: the wait for the second round, and its limit. *)
Waits(e) == /\ e.rounds < NotifyAfterRound /\ e.state = "recovering"
            /\ now <= e.end + Grace
Decision(e) ==
    IF ~Incident(e) \/ e.acked \/ e.imessage THEN "skip"
    ELSE IF Waits(e) THEN "wait"
    ELSE IF now \in QuietTimes THEN "queue"
    ELSE IF e.id \in sent \/ attempts[e.id] >= MaxTries THEN "skip"
    ELSE "send"

-----------------------------------------------------------------------------
(* The chain *)

Idle == [step |-> "idle"]

(* A task that has events to text about: `list` are the copies it read, `arm`
   says whether re-evaluations are to follow.                              *)
Texting(kind, list, arm) == [step |-> "notify", kind |-> kind, list |-> list, arm |-> arm]

InitialMemory ==
    /\ lastTick = 0 /\ chain = <<>> /\ work = Idle /\ timers = {}
    /\ sweeping = FALSE /\ attempts = [t \in Time |-> 0] /\ sent = {}

UptimeInit ==
    /\ now = 0 /\ phase = "down" /\ beacon = None /\ rebooted = FALSE
    /\ InitialMemory
    /\ ledger = {} /\ schedule = Slots /\ covered = {}
    /\ faults = 0 /\ edits = 0

TakeGap(t) ==
    /\ t.kind = "gap"
    /\ work' = IF t.end - t.start < MinGap THEN Idle ELSE [step |-> "lookup", task |-> t]
    /\ UNCHANGED sweeping

TakeReeval(t) ==
    /\ t.kind = "reeval"
    /\ work' = IF ~Known(t.id) THEN Idle
               ELSE IF EventOf(t.id).rounds >= t.round \/ EventOf(t.id).acked THEN Idle
               ELSE [step |-> "lookup", task |-> t]
    /\ UNCHANGED sweeping

\* A set of events from the newest to the oldest.
Newest(S) == {list \in [1 .. Cardinality(S) -> S] :
                 \A i, j \in 1 .. Cardinality(S) : i < j => list[i].start > list[j].start}

(* runNotifySweep reads its list once; an empty one disarms the sweep. *)
Pending == {e \in ledger : Incident(e) /\ ~e.imessage /\ ~e.acked}
TakeSweep(t) ==
    /\ t.kind = "sweep"
    /\ IF Pending = {} THEN sweeping' = FALSE /\ work' = Idle
       ELSE /\ UNCHANGED sweeping
            /\ \E list \in Newest(Pending) : work' = Texting("sweep", list, FALSE)

Take ==
    /\ work = Idle /\ chain # <<>>
    /\ UNCHANGED <<now, phase, disk, lastTick, timers, attempts, sent, world, faults, edits>>
    /\ chain' = Tail(chain)
    /\ TakeGap(Head(chain)) \/ TakeReeval(Head(chain)) \/ TakeSweep(Head(chain))

(* handleGap after its lookup: recordDowntimeEvent. *)
Record ==
    /\ work.step = "lookup" /\ work.task.kind = "gap"
    /\ UNCHANGED <<now, phase, beacon, lastTick, chain, timers, sweeping, attempts, sent, world, edits>>
    /\ LET t == work.task
       IN \E seen \in Lookups(t.start, t.end), cause \in Verdicts(t), window \in BOOLEAN :
            /\ window => cause = "sleep"
            /\ faults' = faults + Cost(seen, t.start, t.end)
            /\ LET into == MergeTargets(t, cause, window)
                   event == IF into = {} THEN NewEvent(t, cause, seen)
                            ELSE Extended(CHOOSE e \in into : TRUE, t, cause, seen)
               IN  /\ ledger' = Put(event)
                   /\ work' = Texting("gap", <<event>>, into = {})

(* reevaluate after its lookup: patchDowntimeEvent reads the ledger again. *)
Review ==
    /\ work.step = "lookup" /\ work.task.kind = "reeval"
    /\ UNCHANGED <<now, phase, beacon, lastTick, chain, timers, sweeping, attempts, sent, world, edits>>
    /\ LET t == work.task
           cur == EventOf(t.id)
       IN \E seen \in Lookups(cur.start, cur.end) :
            LET missed == Reviewed(cur.missed, seen)
                event == [cur EXCEPT !.missed = missed, !.rounds = t.round,
                                     !.state = StateAfter(missed, t.round)]
            IN  /\ faults' = faults + Cost(seen, cur.start, cur.end)
                /\ ledger' = Put(event)
                /\ work' = Texting("reeval", <<event>>, FALSE)

Armed(id) == {[id |-> id, round |-> i, due |-> now + ReevalDelays[i]] : i \in 1 .. Len(ReevalDelays)}

(* What a task does when its current event needs no further attention. *)
Advance ==
    LET rest == Tail(work.list)
    IN  /\ work' = IF rest = <<>> THEN Idle ELSE [work EXCEPT !.list = rest, !.step = "notify"]
        /\ timers' = IF work.arm THEN timers \cup Armed(Head(work.list).id) ELSE timers

(* notifyDowntimeEvent without a text: a wait or a quiet hour arms the sweep. *)
Withhold ==
    /\ work.step = "notify"
    /\ LET what == Decision(Head(work.list))
       IN  /\ what # "send"
           /\ sweeping' = (sweeping \/ (what \in {"wait", "queue"} /\ work.kind # "sweep"))
    /\ Advance
    /\ UNCHANGED <<now, phase, disk, lastTick, chain, attempts, sent, world, faults, edits>>

Send ==
    /\ work.step = "notify" /\ Decision(Head(work.list)) = "send"
    /\ attempts' = [attempts EXCEPT ![Head(work.list).id] = @ + 1]
    /\ work' = [work EXCEPT !.step = "sending"]
    /\ UNCHANGED <<now, phase, disk, lastTick, chain, timers, sweeping, sent, world, faults, edits>>

(* markDowntimeNotified reads the event again and patches the one field. *)
Noted(copy) == [EventOf(copy.id) EXCEPT !.imessage = TRUE]

Sent ==
    /\ work.step = "sending"
    /\ sent' = sent \cup {Head(work.list).id}
    /\ ledger' = Put(Noted(Head(work.list)))
    /\ Advance
    /\ UNCHANGED <<now, phase, beacon, lastTick, chain, sweeping, attempts, world, faults, edits>>


SendFails ==
    /\ work.step = "sending"
    /\ Advance
    /\ UNCHANGED <<now, phase, disk, lastTick, chain, sweeping, attempts, sent, world, faults, edits>>

Worker == Take \/ Record \/ Review \/ Withhold \/ Send \/ Sent \/ SendFails

-----------------------------------------------------------------------------
(* The beat, the timers, the life of the process *)

(* The code gives way during a lookup and a send, and when it has nothing to
   do; elsewhere only a crash comes between.                               *)
GivenWay == work.step \in {"lookup", "sending"} \/ (work = Idle /\ chain = <<>>)

(* tick: the beat is noted in memory and on disk before its gap is judged. *)
BeatAt(t) ==
    /\ now' = t
    /\ beacon' = [at |-> t, mode |-> "alive"]
    /\ lastTick' = t
    /\ UNCHANGED <<phase, ledger, work, sweeping, attempts, sent, world, edits>>

(* A task takes seconds: an undisturbed beat finds the chain empty and the
   timers run.                                                             *)
Beat ==
    /\ phase = "up" /\ now < MaxTime /\ work = Idle /\ chain = <<>>
    /\ \A t \in timers : t.due > now
    /\ BeatAt(now + 1)
    /\ UNCHANGED <<chain, timers, faults>>

(* The machine sleeps through a beat, whatever the process is at;
   the first beat after it finds the gap.  The clock of the timers may stand
   still meanwhile.                                                        *)
Sleep ==
    /\ phase = "up" /\ GivenWay /\ faults < MaxFaults
    /\ LET t == now + MinGap IN
        /\ t <= MaxTime
        /\ BeatAt(t)
        /\ timers' \in {timers, {[x EXCEPT !.due = @ + (t - now)] : x \in timers}}
        /\ chain' = Append(chain, [kind |-> "gap", source |-> "tick", start |-> lastTick,
                                   end |-> t, mode |-> "alive", rebooted |-> FALSE])
    /\ faults' = faults + 1

TimerFires ==
    /\ phase # "down" /\ GivenWay
    /\ \E t \in timers :
        /\ t.due <= now
        /\ timers' = timers \ {t}
        /\ chain' = Append(chain, [kind |-> "reeval", id |-> t.id, round |-> t.round])
    /\ UNCHANGED <<now, phase, disk, lastTick, work, sweeping, attempts, sent, world, faults, edits>>

(* Every beat while armed; one that falls into a task follows it. *)
SweepFires ==
    /\ phase # "down" /\ sweeping /\ work = Idle /\ chain = <<>>
    /\ chain' = <<[kind |-> "sweep"]>>
    /\ UNCHANGED <<now, phase, disk, lastTick, work, timers, sweeping, attempts, sent, world, faults, edits>>

Gone ==
    /\ phase' = "down"
    /\ lastTick' = 0 /\ chain' = <<>> /\ work' = Idle /\ timers' = {}
    /\ sweeping' = FALSE /\ attempts' = [t \in Time |-> 0] /\ sent' = {}
    /\ faults' = faults + 1

(* The process dies, alone or with the machine; so does one that is asked to
   stop before its first beat.                                             *)
Crash ==
    /\ phase # "down" /\ faults < MaxFaults
    /\ Gone
    /\ rebooted' \in {rebooted, TRUE}
    /\ UNCHANGED <<now, disk, schedule, covered, edits>>

(* onStop *)
Stop ==
    /\ phase = "up" /\ GivenWay /\ faults < MaxFaults
    /\ Gone
    /\ beacon' = [at |-> now, mode |-> "stopping"]
    /\ UNCHANGED <<now, ledger, world, edits>>

StaysDown ==
    /\ phase = "down" /\ beacon # None /\ now < MaxTime
    /\ now' = now + 1
    /\ UNCHANGED <<phase, disk, memory, world, faults, edits>>

(* startUptimeWatch: the autopsy is queued before the first beat. *)
Boot ==
    /\ phase = "down"
    /\ phase' = "boot"
    /\ chain' = IF beacon = None THEN <<>>
                ELSE <<[kind |-> "gap", source |-> "boot", start |-> beacon.at, end |-> now,
                        mode |-> beacon.mode, rebooted |-> rebooted]>>
    /\ UNCHANGED <<now, disk, lastTick, work, timers, sweeping, attempts, sent, world, faults, edits>>

(* The first beat waits for the autopsy, or for its budget to run out. *)
StartBeacon ==
    /\ phase = "boot" /\ GivenWay
    /\ phase' = "up"
    /\ sweeping' = TRUE
    /\ beacon' = [at |-> now, mode |-> "alive"] /\ lastTick' = now
    /\ rebooted' = FALSE
    /\ UNCHANGED <<now, ledger, chain, work, timers, attempts, sent, schedule, covered, faults, edits>>

-----------------------------------------------------------------------------
(* The scheduler and the user *)

Collect ==
    /\ phase = "up" /\ GivenWay
    /\ \E s \in schedule \ covered : s <= now /\ Checkable(s) /\ covered' = covered \cup {s}
    /\ UNCHANGED <<now, phase, disk, memory, schedule, rebooted, faults, edits>>

(* ackDowntimeEvent, from a request: it does not pass through the chain. *)
Ack ==
    /\ phase = "up" /\ GivenWay /\ edits < MaxEdits
    /\ \E e \in ledger : ~e.acked /\ ledger' = Put([e EXCEPT !.acked = TRUE])
    /\ edits' = edits + 1
    /\ UNCHANGED <<now, phase, beacon, memory, world, faults>>

(* The user takes a time out of the schedule. *)
Reschedule ==
    /\ phase = "up" /\ GivenWay /\ edits < MaxEdits
    /\ \E s \in schedule : schedule' = schedule \ {s}
    /\ edits' = edits + 1
    /\ UNCHANGED <<now, phase, disk, memory, covered, rebooted, faults>>

UptimeNext ==
    \/ Worker \/ Beat \/ Sleep \/ TimerFires \/ SweepFires
    \/ Crash \/ Stop \/ StaysDown \/ Boot \/ StartBeacon
    \/ Collect \/ Ack \/ Reschedule

(* A repeated sweep starves no other timer and no pending start. *)
Fairness ==
    /\ WF_uptimeVars(Worker)
    /\ SF_uptimeVars(Beat) /\ SF_uptimeVars(TimerFires) /\ SF_uptimeVars(SweepFires)
    /\ WF_uptimeVars(Boot) /\ SF_uptimeVars(StartBeacon)

UptimeSpec == UptimeInit /\ [][UptimeNext]_uptimeVars /\ Fairness

-----------------------------------------------------------------------------
(* Properties *)

TypeOK ==
    /\ now \in Time /\ phase \in {"down", "boot", "up"}
    /\ beacon = None \/ beacon \in [at : Time, mode : {"alive", "stopping"}]
    /\ work.step \in {"idle", "lookup", "notify", "sending"}
    /\ sent \subseteq Time /\ schedule \subseteq Slots /\ covered \subseteq Slots
    /\ attempts \in [Time -> 0 .. MaxTries]
    /\ \A e \in ledger : e.id \in Time /\ e.id = e.start /\ e.end \in Time

\* Two events of a ledger that tell of one moment.
Overlap(events, e, f) == e \in events /\ f \in events /\ e.start < f.start /\ f.start < e.end

(* Every gap a process judges is told of in one event, and no later step cuts
   an event short, however often an autopsy is repeated and gaps are merged
   (recordDowntimeEvent).  A moment is told of twice only where a process died
   after its autopsy had extended an event, and the next one finds another
   cause: it does not extend that event again.                             *)
OutagesRecorded ==
    [][/\ work.step = "lookup" /\ work'.step = "notify" /\ work.task.kind = "gap"
            => \E e \in ledger' : e.start <= work.task.start /\ work.task.end <= e.end
       /\ \A e \in ledger : \E f \in ledger' : f.start <= e.start /\ e.end <= f.end
       /\ \A e, f \in ledger' : e.start < f.start => e.end <= f.end
       /\ \A e, f \in ledger' : Overlap(ledger', e, f) =>
             \/ \E g, h \in ledger : g.id = e.id /\ h.id = f.id /\ Overlap(ledger, g, h)
             \/ work.task.source = "boot" /\ f.start = work.task.start /\ f.cause # e.cause]_uptimeVars

(* No later look at an event takes its loss back: an incident does not become
   a trifle because the clock passed midnight (reevaluate).                *)
LossStands ==
    [][\A e \in ledger : Incident(e) /\ work.step = "lookup" /\ work.task.kind = "reeval"
            => \E f \in ledger' : f.id = e.id /\ Incident(f)]_uptimeVars

(* What the ledger notes of an event - that the user was told, that he has seen
   it, that a slot was made up for - no task takes back, whatever it read before
   it gave way; only a second autopsy that finds another cause begins anew. *)
NotesStand ==
    [][\A e \in ledger, f \in ledger' : f.id = e.id /\ f.cause = e.cause =>
        /\ e.imessage => f.imessage
        /\ e.acked => f.acked
        /\ \A s \in DOMAIN e.missed :
              s \in DOMAIN f.missed /\ (e.missed[s].recovered => f.missed[s].recovered)]_uptimeVars

(* A text is not begun for an event the user has acknowledged. *)
AckCancels ==
    [][attempts' # attempts /\ phase' # "down" =>
        \A t \in Time : attempts'[t] > attempts[t] => ~EventOf(t).acked]_uptimeVars

(* A slot said to be recovered was collected. *)
RecoveredWasCollected ==
    \A e \in ledger : \A s \in DOMAIN e.missed : e.missed[s].recovered => s \in covered

(* An incident whose grace ends in time is texted, unless the user has seen it
   or the sends of this process are used up, also over restarts.           *)
IncidentTold ==
    \A t \in 0 .. MaxTime - Grace - MinGap - 1 :
        (Known(t) /\ LET e == EventOf(t) IN Incident(e) /\ e.end + Grace < MaxTime)
            ~> (\/ ~Known(t) \/ attempts[t] = MaxTries
                \/ LET e == EventOf(t) IN e.imessage \/ e.acked \/ ~Incident(e) \/ e.end + Grace >= MaxTime)
=============================================================================
