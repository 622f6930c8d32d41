---------------------------- MODULE Collections -----------------------------
(***************************************************************************)
(* One of the tabs that collect with the LLM on a schedule: news, events   *)
(* or YouTube.  A collection replaces the tab's snapshot, or keeps the one *)
(* there is, and leaves a record of the attempt; from the two the          *)
(* scheduler decides whether a scheduled time has been served (is covered) *)
(* or has to be caught up, and how long to back off after a failure.       *)
(*                                                                         *)
(* src/src/news/news.ts, src/src/events/events.ts,                         *)
(* src/src/youtube/youtube.ts and their part of                            *)
(* src/src/scheduler/scheduler.ts.  The queue between the scheduler and    *)
(* the collection is that of module Scheduler: here a call waits, then     *)
(* gets the slot or gives up, and no two collections of a tab overlap.     *)
(***************************************************************************)
EXTENDS Integers, FiniteSets, FiniteSetsExt

CONSTANTS
    DayLength,    \* ticks in a day
    MaxTime,      \* bound: the last tick
    Schedules,    \* schedules the user may choose: [enabled, days, times]
    BackoffBase,  \* ticks of the first backoff
    BackoffMax,   \* its limit
    MaxFaults,    \* bound: crashes
    MaxEdits,     \* bound: requests to refresh, cards moved and schedules saved
    None

ASSUME CollectionsAssumption ==
    /\ DayLength \in Nat \ {0} /\ MaxTime \in Nat /\ MaxFaults \in Nat /\ MaxEdits \in Nat
    /\ BackoffBase \in Nat \ {0} /\ BackoffMax >= BackoffBase
    /\ \A s \in Schedules : /\ s.enabled \in BOOLEAN
                            /\ s.days \subseteq Nat
                            /\ s.times \subseteq 0 .. DayLength - 1

\* What the file of snapshots and that of attempts may hold.
Snapshots == [source : {"llm", "fallback"}, items : BOOLEAN, moved : BOOLEAN, date : Nat, at : Nat]
Attempts == [ok : BOOLEAN, at : Nat]

ASSUME NoneAssumption == None \notin Snapshots \cup Attempts

Tabs == {"news", "events", "youtube"}
Time == 0 .. MaxTime
Day(t) == t \div DayLength

VARIABLES
    tab,       \* the tab this instance is
    now,
    sched,     \* the tab's schedule
    memo,      \* the snapshot, in memory and on disk (getXSnapshot), or None
    tried,     \* the attempt record, in memory and but for YouTube on disk, or None
    queued,    \* the scheduler's call that waits for the slot, or None
    refresh,   \* the call of refreshX in progress, or None
    backoff,   \* the consecutive failures and the end of the wait
    faults,
    edits,
    \* History, read by the properties alone:
    mailed,    \* how often the digest of each scheduled time was sent
    goodAt,    \* when the latest good result was collected and saved, or -1
    excused,   \* a collection of events failed
    last       \* how the scheduler's last attempted run went

collector == <<memo, tried, refresh>>
history == <<mailed, goodAt, excused, last>>
vars == <<tab, now, sched, collector, queued, backoff, faults, edits, history>>

-----------------------------------------------------------------------------
\* isDueDate and lastOccurrence of shared/schedule.ts on the schedule sched.
IsDue(t) == sched.enabled /\ Day(t) \in sched.days
Occurrences == {t \in Time : IsDue(t) /\ t % DayLength \in sched.times}
Passed == {s \in Occurrences : s <= now}

\* catchupTarget: the last occurrence, unless it is of an earlier day and
\* today has its own.
Target ==
    LET s == Max(Passed)
    IN IF Passed = {} \/ (Day(s) # Day(now) /\ IsDue(now)) THEN None ELSE s

Good(snap) == snap # None /\ snap.source = "llm" /\ snap.items

\* getXLastAttempt.  YouTube keeps its record in memory only.
LastAttempt ==
    IF tried # None \/ tab = "youtube" THEN tried
    ELSE IF memo = None THEN None
    ELSE [ok |-> IF tab = "news" THEN Good(memo) ELSE memo.source = "llm", at |-> memo.at]

\* Mutant: newsCoveredAt as it was, by the day and the time alone.
CoveredByTime(s) == memo # None /\ memo.date >= Day(s) /\ memo.at >= s

\* Mutant: a snapshot counts on the day it was collected only.
CoveredToday(s) ==
    memo # None /\ memo.date = Day(now) /\ memo.source = "llm" /\ memo.at >= s

\* newsCoveredAt, youtubeCoveredAt.
CoveredAt(s) ==
    /\ memo # None
    /\ memo.date >= Day(s)
    /\ memo.source = "llm"
    /\ memo.at >= s

\* eventsCoveredOn: by the day, and by the attempt record where it is as new.
CoveredOn(d) ==
    /\ memo # None /\ memo.date >= d /\ memo.source = "llm"
    /\ LastAttempt # None /\ Day(LastAttempt.at) >= d => LastAttempt.ok

Covered(s) == IF tab = "events" THEN CoveredOn(Day(s)) ELSE CoveredAt(s)

Blocked == now < backoff.until
Flag == queued # None \/ (refresh # None /\ refresh.by # "manual")   \* xRunning

-----------------------------------------------------------------------------
Init ==
    /\ tab \in Tabs
    /\ sched \in {s \in Schedules : s.enabled}
    /\ now = 0
    /\ memo = None /\ tried = None
    /\ queued = None /\ refresh = None
    /\ backoff = [streak |-> 0, until |-> 0]
    /\ faults = 0
    /\ mailed = [s \in Time |-> 0]
    /\ edits = 0
    /\ goodAt = -1 /\ excused = FALSE /\ last = "none"

\* From the answer of the LLM to the attempt record nothing is awaited, so
\* time passes only before and after.
Synchronous == refresh # None /\ refresh.stage = "saved"

Call(by, slot) == [by |-> by, slot |-> slot, since |-> now]

\* Time passes.  A cron job whose day is due calls the scheduler's wrapper,
\* which does nothing while its flag is set.
Tick ==
    /\ ~Synchronous
    /\ now < MaxTime
    /\ now' = now + 1
    /\ IF (now + 1) \in Occurrences /\ ~Flag
          THEN queued' = [Call("schedule", now + 1) EXCEPT !.since = now + 1]
          ELSE UNCHANGED queued
    /\ UNCHANGED <<tab, sched, collector, backoff, faults, edits, history>>

\* Time passes while the machine sleeps: nothing fires.
Sleep ==
    /\ ~Synchronous
    /\ now < MaxTime
    /\ now' = now + 1
    /\ UNCHANGED <<tab, sched, collector, queued, backoff, faults, edits, history>>

\* checkXCatchup, every half hour.
CatchUp ==
    /\ ~Synchronous /\ ~Flag /\ ~Blocked
    /\ Target # None /\ ~Covered(Target)
    /\ queued' = Call("catchup", Target)
    /\ UNCHANGED <<tab, now, sched, collector, backoff, faults, edits, history>>

\* The call gave up waiting for the slot: not a failure.
GiveUp ==
    /\ queued # None /\ ~Synchronous
    /\ queued' = None
    /\ UNCHANGED <<tab, now, sched, collector, backoff, faults, edits, history>>

Begin(call) ==
    refresh' = [by |-> call.by, slot |-> call.slot, since |-> call.since,
                began |-> now, stage |-> "asking", result |-> "none"]

\* The call gets the slot.
GetSlot ==
    /\ queued # None /\ refresh = None
    /\ Begin(queued)
    /\ queued' = None
    /\ UNCHANGED <<tab, now, sched, memo, tried, backoff, faults, edits, history>>

\* A request to refresh now gets the slot.
Manual ==
    /\ refresh = None
    /\ Begin(Call("manual", None))
    /\ edits < MaxEdits
    /\ edits' = edits + 1
    /\ UNCHANGED <<tab, now, sched, memo, tried, queued, backoff, faults, history>>

-----------------------------------------------------------------------------
\* What the collection may come to: items, an answer without any, no answer
\* (an empty or raw snapshot), or an exception.
Results == {"good", "hollow", "fallback", "thrown"}

Fresh(result) ==
    [source |-> IF result = "fallback" THEN "fallback" ELSE "llm",
     items |-> result = "good", moved |-> FALSE, date |-> Day(refresh.began), at |-> now]

\* Whether the result replaces the snapshot there is: decideNewsSnapshot,
\* refreshYoutube, refreshEvents.
Replaces(result) ==
    CASE tab = "news"    -> result = "good" \/ ~Good(memo)
      [] tab = "youtube" -> result # "fallback" \/ memo = None \/ memo.source # "llm"
      [] tab = "events"  -> TRUE

\* The collection comes to its result.  The snapshot is replaced, in memory
\* and by a rename on disk; one that is kept is written again with a note, its
\* time as it was.
Save(result) ==
    /\ refresh # None /\ refresh.stage = "asking"
    /\ refresh' = [refresh EXCEPT !.result = result, !.stage = "saved"]
    /\ IF result # "thrown" /\ Replaces(result)
          THEN /\ memo' = Fresh(result)
               /\ goodAt' = IF result = "good" THEN now ELSE goodAt
               /\ excused' = (excused \/ (tab = "events" /\ result = "fallback"))
          ELSE UNCHANGED <<memo, goodAt, excused>>
    /\ UNCHANGED <<tab, now, sched, tried, queued, backoff, faults, edits, mailed, last>>

Succeeded ==
    IF tab = "news" THEN refresh.result = "good" ELSE refresh.result \in {"good", "hollow"}

\* sendXEmail is called: by a scheduled or caught-up run, and by a request,
\* but not of events, when there is something to send.
Sends ==
    IF tab = "events" THEN Succeeded /\ refresh.by # "manual" ELSE refresh.result = "good"

-----------------------------------------------------------------------------
\* Mutant: a good snapshot is taken for a good run.
NotedBySnapshot == Good(memo)

\* What noteTabOutcome takes for success: the record of this very run, or for
\* events that today is covered.
NotedAsSuccess ==
    IF tab = "events" THEN CoveredOn(Day(now))' 
    ELSE tried'.ok /\ tried'.at >= refresh.since

Longer(streak) == Min({BackoffBase * 2 ^ (streak - 1), BackoffMax})

\* refreshX returns.  A run of the scheduler clears its flag and notes how
\* it went.
End ==
    /\ refresh' = None
    /\ IF refresh.by = "manual"
          THEN UNCHANGED <<backoff, last>>
          ELSE /\ backoff' = IF NotedAsSuccess THEN [streak |-> 0, until |-> 0]
                             ELSE [streak |-> backoff.streak + 1,
                                   until |-> now + Longer(backoff.streak + 1)]
               /\ last' = IF ~Succeeded THEN "failure"
                          ELSE IF Day(refresh.began) # Day(now) THEN "overnight" ELSE "success"

\* The attempt is recorded (YouTube does so after the mail, but a crash in
\* between loses the record anyway), and the run ends or goes on to the mail.
Record ==
    /\ refresh # None /\ refresh.stage = "saved"
    /\ UNCHANGED <<tab, now, sched, memo, queued, faults, edits, mailed, goodAt>>
    /\ tried' = [ok |-> Succeeded, at |-> refresh.began]
    /\ excused' = (excused \/ (tab = "events" /\ refresh.result = "thrown"))
    /\ IF refresh.result # "thrown" /\ Sends
          THEN refresh' = [refresh EXCEPT !.stage = "sending"] /\ UNCHANGED <<backoff, last>>
          ELSE End

Send ==
    /\ refresh # None /\ refresh.stage = "sending"
    /\ UNCHANGED <<tab, now, sched, memo, tried, queued, faults, edits, goodAt, excused>>
    /\ mailed' = IF refresh.by = "manual" THEN mailed
                 ELSE [mailed EXCEPT ![refresh.slot] = @ + 1]
    /\ End

-----------------------------------------------------------------------------
\* moveYoutubeVideo: a card goes to another category.  The route refuses
\* while the tab collects.  The snapshot gets the time of the move.
MoveCard ==
    /\ tab = "youtube" /\ refresh = None
    /\ memo # None /\ memo.items
    /\ memo' = [memo EXCEPT !.at = now, !.moved = TRUE]
    /\ edits < MaxEdits
    /\ edits' = edits + 1
    /\ UNCHANGED <<tab, now, sched, tried, queued, refresh, backoff, faults, history>>

\* The user saves another schedule: rescheduleAll.
Reschedule(s) ==
    /\ ~Synchronous /\ s # sched
    /\ edits < MaxEdits
    /\ edits' = edits + 1
    /\ sched' = s
    /\ UNCHANGED <<tab, now, collector, queued, backoff, faults, history>>

\* The process dies and is started again: what is on disk is what there is.
Crash ==
    /\ faults < MaxFaults
    /\ faults' = faults + 1
    /\ tried' = IF tab = "youtube" THEN None ELSE tried
    /\ queued' = None /\ refresh' = None
    /\ backoff' = [streak |-> 0, until |-> 0]
    /\ last' = "none"
    /\ UNCHANGED <<tab, now, sched, memo, edits, mailed, goodAt, excused>>

Next ==
    \/ Tick \/ Sleep \/ CatchUp \/ GiveUp \/ GetSlot \/ Manual
    \/ \E r \in Results : Save(r)
    \/ Record \/ Send
    \/ MoveCard \/ Crash
    \/ \E s \in Schedules : Reschedule(s)

Spec == Init /\ [][Next]_vars

-----------------------------------------------------------------------------
TypeOK ==
    /\ tab \in Tabs /\ now \in Time /\ sched \in Schedules
    /\ \A s \in {memo} \ {None} :
           /\ s.source \in {"llm", "fallback"} /\ s.items \in BOOLEAN
           /\ s.at \in Time /\ s.date \in 0 .. Day(s.at)
    /\ \A r \in {tried} \ {None} : r.ok \in BOOLEAN /\ r.at \in Time
    /\ refresh # None => refresh.began >= refresh.since
    /\ faults \in 0 .. MaxFaults

Hollow == memo.source = "llm" /\ ~memo.items

\* A scheduled time counts as served only when something was collected for
\* it: a good result since; an answer without items, which counts for news
\* only as long as there never was a good result to keep; for events a
\* result of its day.  The exception is the card of YouTube: moving one
\* after a missed time marks that time served, though nothing was collected.
CoveredMeansCollected ==
    \A s \in Passed : Covered(s) =>
        CASE tab = "news"    -> goodAt >= s \/ (Hollow /\ goodAt = -1)
          [] tab = "youtube" -> goodAt >= s \/ Hollow \/ memo.moved
          [] tab = "events"  -> Day(goodAt) >= Day(s) \/ Hollow

\* What was served once stays served, over failed collections, new schedules
\* and restarts (catchupTarget looks at the latest time only and relies on
\* it).  The exceptions: a failed collection of events, which overwrites the
\* good result of the day; and news without a single item, which
\* anything overwrites.
CoverageIsStable ==
    [][\A s \in 0 .. now :
           Covered(s) /\ ~Covered(s)' =>
               \/ /\ tab = "events" /\ refresh # None
                  /\ \/ memo' = Fresh("fallback")
                     \/ tried' = [ok |-> FALSE, at |-> refresh.began]
               \/ tab = "news" /\ ~Good(memo)]_vars

\* The digest of a scheduled time is sent once at most, whether its run, a
\* catch-up or both collected it, over restarts at any point.  The exception:
\* a failed collection of events (a request to refresh, say) undoes the day's
\* coverage, and the catch-up mails the day again.
MailedOnce ==
    \A s \in Time : mailed[s] > 1 => excused

\* The backoff says how the last run of the scheduler went: a request of the
\* user never moves it, a run that gave up waiting neither, and a kept
\* snapshot of yesterday is no success.  The exception: a good collection of
\* events that goes on past midnight is noted as a failure, because it is
\* judged by whether the new day is covered.
BackoffTellsTruth ==
    backoff.streak > 0 <=> last = "failure" \/ (tab = "events" /\ last = "overnight")
=============================================================================
