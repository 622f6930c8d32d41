-------------------------- MODULE CollectionsProofs --------------------------
(***************************************************************************)
(* Theorems about Collections, for every schedule, length of the day and   *)
(* number of runs: when a scheduled time counts as served, and what the    *)
(* backoff says.  One about EventTracker, for every set of events and      *)
(* every length of an absence: which badges there are.  One about          *)
(* EventCuration, for every set of halls and titles: what the board shows. *)
(*                                                                         *)
(* Both of the first speak of two records that are written at different    *)
(* moments, so that neither is inductive.  What carries them is how the    *)
(* snapshot, the attempt record and the run in progress are dated: days do *)
(* not run backwards (DayGrows), a snapshot is no younger than its         *)
(* collection, and no run starts before the one that made the snapshot     *)
(* there is.  What carries the third is what the ledger's entries say of   *)
(* the history that nobody keeps (TrackInv).  The fourth needs that of the *)
(* entries that can be shown under one title there is a first.             *)
(***************************************************************************)
EXTENDS Collections, EventTracker, EventCuration, FiniteSetTheorems, WellFoundedInduction, TLAPS

\* Dividing by the length of a day, which no prover knows about a parameter.
LEMMA DivFacts ==
    ASSUME NEW D \in Nat \ {0}, NEW a \in Nat
    PROVE  a \div D \in Nat /\ D * (a \div D) <= a /\ a < D * ((a \div D) + 1)
  OBVIOUS

\* A later time is not of an earlier day.
LEMMA DayGrows ==
    ASSUME NEW a \in Nat, NEW b \in Nat, a <= b
    PROVE  Day(a) \in Nat /\ Day(b) \in Nat /\ Day(a) <= Day(b)
<1>1. DayLength \in Nat \ {0} BY CollectionsAssumption
<1>2. Day(a) \in Nat /\ Day(b) \in Nat BY <1>1, DivFacts DEF Day
<1>3. DayLength * Day(a) <= a /\ b < DayLength * (Day(b) + 1) BY <1>1, DivFacts DEF Day
<1>4. DayLength * Day(a) < DayLength * (Day(b) + 1) BY <1>1, <1>2, <1>3
<1>5. Day(a) < Day(b) + 1 BY <1>1, <1>2, <1>4
<1> QED BY <1>2, <1>5

-----------------------------------------------------------------------------
(* The invariant.                                                          *)

Types ==
    /\ tab \in Tabs /\ now \in Time /\ sched \in Schedules /\ faults \in 0 .. MaxFaults
    /\ memo \in Snapshots \cup {None}
    /\ tried \in Attempts \cup {None}
    /\ goodAt \in Int /\ backoff.streak \in Nat

\* Calls and runs were made in the past, and begin after they were called.
CallsAreDated ==
    /\ queued # None => queued.since \in 0 .. now
    /\ refresh # None =>
           /\ refresh.since \in 0 .. now /\ refresh.began \in refresh.since .. now
           /\ refresh.result \in Results \cup {"none"}
           /\ refresh.stage \in {"asking", "saved", "sending"}

RecordsAreDated ==
    /\ memo # None => memo.at <= now /\ memo.date <= Day(memo.at)
    /\ tried # None => tried.at <= now

\* The snapshot there is was made by a run that began no later than this one.
RunsFollow == refresh # None /\ memo # None => memo.date <= Day(refresh.began)

\* goodAt is what the snapshot says of itself, if no card of it was moved.
SnapshotTellsGood ==
    /\ memo # None /\ memo.source = "llm" /\ memo.items /\ ~memo.moved => goodAt = memo.at
    /\ memo # None /\ tab # "youtube" => ~memo.moved
    /\ tab = "news" /\ goodAt # -1 => Good(memo)

\* What the run has left when it comes to be noted.
RunTellsOutcome ==
    refresh # None =>
        /\ refresh.stage = "saved" => refresh.result \in Results
        /\ refresh.stage \in {"saved", "sending"} /\ tab = "events"
               /\ refresh.result \in {"good", "hollow"} =>
                  memo # None /\ memo.source = "llm" /\ memo.date = Day(refresh.began)
        /\ refresh.stage = "sending" =>
               Succeeded /\ tried # None /\ tried.ok /\ tried.at = refresh.began

IInv ==
    /\ Types /\ CallsAreDated /\ RecordsAreDated /\ RunsFollow
    /\ SnapshotTellsGood /\ RunTellsOutcome /\ BackoffTellsTruth

LEMMA InitInv == Init => IInv
<1> SUFFICES ASSUME Init PROVE IInv
    OBVIOUS
<1>1. now = 0 /\ now \in Time BY CollectionsAssumption DEF Init, Time
<1>2. Types BY <1>1, CollectionsAssumption DEF Init, Types, Time
<1>3. BackoffTellsTruth BY DEF Init, BackoffTellsTruth
<1> QED
    BY <1>1, <1>2, <1>3 DEF Init, IInv, CallsAreDated, RecordsAreDated, RunsFollow,
       SnapshotTellsGood, RunTellsOutcome, Good

-----------------------------------------------------------------------------
(* Steps that leave the records alone.                                     *)

\* Time passes, and cron may call.
LEMMA TimePasses ==
    ASSUME IInv, ~Synchronous, now < MaxTime, now' = now + 1,
           \/ queued' = queued
           \/ queued' = [Call("schedule", now + 1) EXCEPT !.since = now + 1],
           UNCHANGED <<tab, sched, collector, backoff, faults, edits, history>>
    PROVE  IInv'
<1> USE DEF IInv, collector, history
<1>1. now \in Nat /\ now' \in Time BY CollectionsAssumption DEF Types, Time
<1>2. Types' BY <1>1 DEF Types
<1>3. CallsAreDated' BY <1>1 DEF CallsAreDated, Call
<1>4. RecordsAreDated' BY <1>1 DEF RecordsAreDated, Types, Snapshots, Attempts, Day
<1>5. RunsFollow' BY DEF RunsFollow, Day
<1>6. SnapshotTellsGood' BY DEF SnapshotTellsGood, Good
<1>7. RunTellsOutcome' BY DEF RunTellsOutcome, Succeeded, Day
<1>8. BackoffTellsTruth' BY DEF BackoffTellsTruth
<1> QED BY <1>2, <1>3, <1>4, <1>5, <1>6, <1>7, <1>8

\* A call is made or given up, or another schedule saved.
LEMMA CallsChange ==
    ASSUME IInv,
           \/ queued' \in {queued, None}
           \/ queued' = Call("catchup", Target),
           sched' \in Schedules,
           UNCHANGED <<tab, now, collector, backoff, faults, history>>
    PROVE  IInv'
<1> USE DEF IInv, collector, history
<1>1. now \in Nat BY CollectionsAssumption DEF Types, Time
<1>2. Types' BY DEF Types
<1>3. CallsAreDated' BY <1>1 DEF CallsAreDated, Call
<1>4. RecordsAreDated' BY DEF RecordsAreDated, Day
<1>5. RunsFollow' BY DEF RunsFollow, Day
<1>6. SnapshotTellsGood' BY DEF SnapshotTellsGood, Good
<1>7. RunTellsOutcome' BY DEF RunTellsOutcome, Succeeded, Day
<1>8. BackoffTellsTruth' BY DEF BackoffTellsTruth
<1> QED BY <1>2, <1>3, <1>4, <1>5, <1>6, <1>7, <1>8

\* A call gets the slot.
LEMMA RunBegins ==
    ASSUME IInv, refresh = None, NEW call, call.since \in 0 .. now, Begin(call),
           queued' \in {queued, None},
           UNCHANGED <<tab, now, sched, memo, tried, backoff, faults, history>>
    PROVE  IInv'
<1> USE DEF IInv, history
<1>1. now \in Nat /\ call.since \in Nat BY CollectionsAssumption DEF Types, Time
<1> DEFINE run == [by |-> call.by, slot |-> call.slot, since |-> call.since,
                   began |-> now, stage |-> "asking", result |-> "none"]
<1>2. refresh' = run BY DEF Begin
<1>3. Types' BY DEF Types
<1>4. CallsAreDated' BY <1>1, <1>2 DEF CallsAreDated
<1>5. RecordsAreDated' BY DEF RecordsAreDated, Day
<1>6. RunsFollow'
  <2> SUFFICES ASSUME memo # None PROVE memo.date <= Day(now)
    BY <1>2 DEF RunsFollow, Day
  <2>1. memo.at \in Nat /\ memo.date \in Nat /\ memo.at <= now /\ memo.date <= Day(memo.at)
    BY DEF Types, Snapshots, RecordsAreDated
  <2>2. Day(memo.at) \in Nat /\ Day(now) \in Nat /\ Day(memo.at) <= Day(now)
    BY <1>1, <2>1, DayGrows
  <2> QED BY <2>1, <2>2
<1>7. SnapshotTellsGood' BY DEF SnapshotTellsGood, Good
<1>8. RunTellsOutcome' BY <1>2 DEF RunTellsOutcome
<1>9. BackoffTellsTruth' BY DEF BackoffTellsTruth
<1> QED BY <1>3, <1>4, <1>5, <1>6, <1>7, <1>8, <1>9

-----------------------------------------------------------------------------
(* Steps that write a record.                                              *)

LEMMA SaveKeeps == ASSUME IInv, NEW r \in Results, Save(r) PROVE IInv'
<1> USE DEF IInv
<1>1. now \in Nat /\ now \in Time BY CollectionsAssumption DEF Types, Time
<1>2. /\ refresh # None /\ refresh.since \in 0 .. now /\ refresh.began \in refresh.since .. now
      /\ refresh.began \in Nat
      BY <1>1 DEF Save, CallsAreDated
<1>3. /\ refresh'.since = refresh.since /\ refresh'.began = refresh.began
      /\ refresh'.result = r /\ refresh'.stage = "saved"
      BY DEF Save
<1>4. Day(refresh.began) \in Nat /\ Day(refresh.began) <= Day(now) /\ Day(now) \in Nat
      BY <1>1, <1>2, DayGrows
<1>5. CallsAreDated' BY <1>2, <1>3 DEF Save, CallsAreDated
<1>6. BackoffTellsTruth' BY DEF Save, BackoffTellsTruth
<1>7. CASE r # "thrown" /\ Replaces(r)
  <2>1. memo' = Fresh(r) /\ goodAt' = IF r = "good" THEN now ELSE goodAt
    BY <1>7 DEF Save
  <2>2. Fresh(r) \in Snapshots BY <1>1, <1>4 DEF Fresh, Snapshots
  <2>3. memo' # None BY <2>1, <2>2, NoneAssumption
  <2>4. /\ memo'.at = now /\ memo'.date = Day(refresh.began) /\ memo'.moved = FALSE
        /\ memo'.items <=> r = "good"
        /\ memo'.source = "llm" <=> r # "fallback"
    BY <2>1 DEF Fresh
  <2>5. Types' BY <1>1, <2>1, <2>2 DEF Types, Save, Time
  <2>6. RecordsAreDated' BY <1>1, <1>4, <2>4 DEF RecordsAreDated, Save, Day
  <2>7. RunsFollow' BY <1>3, <1>4, <2>4 DEF RunsFollow, Day
  <2>8. SnapshotTellsGood' BY <1>7, <2>1, <2>3, <2>4 DEF SnapshotTellsGood, Good, Replaces, Save
  <2>9. RunTellsOutcome' BY <1>3, <2>3, <2>4 DEF RunTellsOutcome, Save, Day, Results
  <2> QED BY <1>5, <1>6, <2>5, <2>6, <2>7, <2>8, <2>9
<1>8. CASE ~(r # "thrown" /\ Replaces(r))
  <2>1. memo' = memo /\ goodAt' = goodAt /\ tab' = tab /\ now' = now /\ tried' = tried
    BY <1>8 DEF Save
  <2>2. Types' BY <1>1, <2>1 DEF Types, Save
  <2>3. RecordsAreDated' BY <2>1 DEF RecordsAreDated, Save, Day
  <2>4. RunsFollow' BY <1>2, <1>3, <2>1 DEF RunsFollow, Day
  <2>5. SnapshotTellsGood' BY <2>1 DEF SnapshotTellsGood, Good, Save
  <2>6. tab = "events" => r = "thrown" BY <1>8 DEF Replaces
  <2>7. RunTellsOutcome' BY <1>3, <2>1, <2>6 DEF RunTellsOutcome, Results
  <2> QED BY <1>5, <1>6, <2>2, <2>3, <2>4, <2>5, <2>7
<1> QED BY <1>7, <1>8

LEMMA SucceededIsBoolean == Succeeded \in BOOLEAN
<1>1. CASE tab = "news" BY <1>1 DEF Succeeded
<1>2. CASE tab # "news" BY <1>2 DEF Succeeded
<1> QED BY <1>1, <1>2

\* What End decides is what happened: the heart of BackoffTellsTruth.
LEMMA NotedTruly ==
    ASSUME IInv, refresh # None, End, refresh.by # "manual",
           UNCHANGED <<tab, now, memo>>,
           refresh.result \in Results,
           refresh.stage \in {"saved", "sending"},
           tried' = [ok |-> Succeeded, at |-> refresh.began]
    PROVE  BackoffTellsTruth' /\ backoff'.streak \in Nat
<1> USE DEF IInv
<1>1. /\ now \in Nat /\ refresh.since \in Nat /\ refresh.began \in Nat
      /\ refresh.since <= refresh.began /\ refresh.began <= now
  BY CollectionsAssumption DEF Types, Time, CallsAreDated
<1>2. /\ Day(refresh.began) \in Nat /\ Day(now) \in Nat
      /\ Day(refresh.began) <= Day(now)
  BY <1>1, DayGrows
<1>3. Succeeded \in BOOLEAN BY SucceededIsBoolean
<1>4. tried' # None /\ tried'.ok = Succeeded /\ tried'.at = refresh.began
  BY <1>1, <1>3, NoneAssumption DEF Attempts
<1>5. /\ backoff'.streak = IF NotedAsSuccess THEN 0 ELSE backoff.streak + 1
      /\ last' = IF ~Succeeded THEN "failure"
                 ELSE IF Day(refresh.began) # Day(now) THEN "overnight" ELSE "success"
  BY DEF End
<1>6. backoff.streak \in Nat BY DEF Types
<1>7. backoff'.streak \in Nat /\ (backoff'.streak > 0 <=> ~NotedAsSuccess)
  BY <1>5, <1>6
<1>8. CASE tab # "events"
  <2>1. NotedAsSuccess <=> Succeeded BY <1>1, <1>4, <1>8 DEF NotedAsSuccess
  <2> QED BY <1>5, <1>7, <1>8, <2>1 DEF BackoffTellsTruth
<1>9. CASE tab = "events"
  <2>1. LastAttempt' = tried' BY <1>4 DEF LastAttempt
  <2>2. Day(tried'.at) = Day(refresh.began) BY <1>4
  <2>3. NotedAsSuccess <=>
            /\ memo # None /\ memo.date >= Day(now) /\ memo.source = "llm"
            /\ Day(refresh.began) >= Day(now) => Succeeded
    BY <1>4, <1>9, <2>1, <2>2 DEF NotedAsSuccess, CoveredOn, Day
  <2>4. memo # None => memo.date \in Nat /\ memo.date <= Day(refresh.began)
    BY DEF Types, Snapshots, RunsFollow
  <2>5. CASE ~Succeeded
    <3>1. ~NotedAsSuccess BY <1>2, <2>3, <2>4, <2>5
    <3> QED BY <1>5, <1>7, <2>5, <3>1 DEF BackoffTellsTruth
  <2>6. CASE Succeeded
    <3>1. memo # None /\ memo.source = "llm" /\ memo.date = Day(refresh.began)
      BY <1>9, <2>6 DEF RunTellsOutcome, Succeeded
    <3>2. NotedAsSuccess <=> Day(refresh.began) = Day(now)
      BY <1>2, <2>3, <2>6, <3>1
    <3> QED BY <1>5, <1>7, <1>9, <2>6, <3>2 DEF BackoffTellsTruth
  <2> QED BY <2>5, <2>6
<1> QED BY <1>7, <1>8, <1>9

\* A run ends: what remains to be shown of the records.
LEMMA RunEnds ==
    ASSUME IInv, refresh # None, End, UNCHANGED <<tab, now, sched, memo, queued, faults, goodAt>>,
           refresh.result \in Results, refresh.stage \in {"saved", "sending"},
           tried' = [ok |-> Succeeded, at |-> refresh.began]
    PROVE  IInv'
<1> USE DEF IInv
<1>1. refresh.began \in 0 .. now /\ now \in Nat
  BY CollectionsAssumption DEF CallsAreDated, Types, Time
<1>2. Succeeded \in BOOLEAN BY SucceededIsBoolean
<1>3. tried' \in Attempts /\ tried'.at = refresh.began BY <1>1, <1>2 DEF Attempts
<1>4. refresh' = None BY DEF End
<1>5. BackoffTellsTruth' /\ backoff'.streak \in Nat
  <2>1. CASE refresh.by = "manual" BY <2>1 DEF End, BackoffTellsTruth, Types
  <2>2. CASE refresh.by # "manual" BY <2>2, NotedTruly
  <2> QED BY <2>1, <2>2
<1>6. Types' BY <1>3, <1>5 DEF Types
<1>7. CallsAreDated' BY <1>4 DEF CallsAreDated
<1>8. RecordsAreDated' BY <1>1, <1>3 DEF RecordsAreDated, Day
<1>9. RunsFollow' /\ RunTellsOutcome' BY <1>4 DEF RunsFollow, RunTellsOutcome
<1>10. SnapshotTellsGood' BY DEF SnapshotTellsGood, Good
<1> QED BY <1>5, <1>6, <1>7, <1>8, <1>9, <1>10

LEMMA RecordKeeps == ASSUME IInv, Record PROVE IInv'
<1> USE DEF IInv
<1>1. /\ refresh # None /\ refresh.stage = "saved" /\ refresh.result \in Results
      /\ tried' = [ok |-> Succeeded, at |-> refresh.began]
      /\ UNCHANGED <<tab, now, sched, memo, queued, faults, goodAt>>
  BY DEF Record, RunTellsOutcome
<1>2. CASE refresh.result # "thrown" /\ Sends
  <2>1. refresh' = [refresh EXCEPT !.stage = "sending"] /\ UNCHANGED <<backoff, last>>
    BY <1>2 DEF Record
  <2>2. refresh.began \in 0 .. now /\ now \in Nat
    BY <1>1, CollectionsAssumption DEF CallsAreDated, Types, Time
  <2>3. Succeeded /\ Succeeded \in BOOLEAN BY <1>2 DEF Sends, Succeeded
  <2>4. tried' \in Attempts /\ tried'.at = refresh.began /\ tried'.ok BY <1>1, <2>2, <2>3 DEF Attempts
  <2>5. tried' # None BY <2>4, NoneAssumption
  <2>6. refresh' # None => /\ refresh'.since = refresh.since /\ refresh'.began = refresh.began
                           /\ refresh'.result = refresh.result /\ refresh'.stage = "sending"
    BY <2>1
  <2>7. Types' BY <1>1, <2>1, <2>4 DEF Types
  <2>8. CallsAreDated' BY <1>1, <2>6 DEF CallsAreDated
  <2>9. RecordsAreDated'
    <3>1. memo' = memo /\ now' = now BY <1>1
    <3>2. tried'.at <= now' BY <2>2, <2>4, <3>1
    <3> QED BY <3>1, <3>2 DEF RecordsAreDated, Day
  <2>10. RunsFollow' BY <1>1, <2>6 DEF RunsFollow, Day
  <2>11. SnapshotTellsGood' BY <1>1 DEF SnapshotTellsGood, Good
  <2>12. RunTellsOutcome' BY <1>1, <2>3, <2>4, <2>5, <2>6 DEF RunTellsOutcome, Succeeded, Day
  <2>13. BackoffTellsTruth' BY <1>1, <2>1 DEF BackoffTellsTruth
  <2> QED BY <2>7, <2>8, <2>9, <2>10, <2>11, <2>12, <2>13
<1>3. CASE ~(refresh.result # "thrown" /\ Sends)
  <2>1. End BY <1>3 DEF Record
  <2> QED BY <1>1, <2>1, RunEnds
<1> QED BY <1>2, <1>3

LEMMA SendKeeps == ASSUME IInv, Send PROVE IInv'
<1> USE DEF IInv
<1>1. /\ refresh # None /\ refresh.stage = "sending" /\ End
      /\ UNCHANGED <<tab, now, sched, memo, tried, queued, faults, goodAt>>
  BY DEF Send
<1>2. Succeeded /\ tried # None /\ tried.ok /\ tried.at = refresh.began
  BY <1>1 DEF RunTellsOutcome
<1>3. refresh.result \in Results BY <1>2 DEF Succeeded, Results
<1>4. tried' = [ok |-> Succeeded, at |-> refresh.began]
  <2>1. tried \in Attempts BY <1>2 DEF Types
  <2>2. tried.ok = TRUE /\ Succeeded = TRUE BY <1>2, <2>1 DEF Attempts, Succeeded
  <2>3. tried = [ok |-> tried.ok, at |-> tried.at] BY <2>1 DEF Attempts
  <2> QED BY <1>1, <1>2, <2>2, <2>3
<1> QED BY <1>1, <1>3, <1>4, RunEnds

LEMMA MoveKeeps == ASSUME IInv, MoveCard PROVE IInv'
<1> USE DEF IInv
<1>1. /\ memo # None /\ memo \in Snapshots /\ now \in Nat /\ now \in Time
  BY CollectionsAssumption DEF MoveCard, Types, Time
<1>2. /\ memo' \in Snapshots /\ memo'.at = now /\ memo'.moved /\ memo'.date = memo.date
  BY <1>1 DEF MoveCard, Snapshots
<1>3. memo.date <= Day(now)
  <2>1. memo.at \in Nat /\ memo.date \in Nat /\ memo.at <= now /\ memo.date <= Day(memo.at)
    BY <1>1 DEF Snapshots, RecordsAreDated
  <2>2. Day(memo.at) \in Nat /\ Day(now) \in Nat /\ Day(memo.at) <= Day(now)
    BY <1>1, <2>1, DayGrows
  <2> QED BY <2>1, <2>2
<1>4. Types' BY <1>1, <1>2 DEF Types, MoveCard, history
<1>5. RecordsAreDated' BY <1>1, <1>2, <1>3 DEF RecordsAreDated, MoveCard, Day
<1>6. CallsAreDated' /\ RunsFollow' /\ RunTellsOutcome'
  BY DEF MoveCard, CallsAreDated, RunsFollow, RunTellsOutcome
<1>7. SnapshotTellsGood' BY <1>2 DEF MoveCard, SnapshotTellsGood
<1>8. BackoffTellsTruth' BY DEF MoveCard, BackoffTellsTruth, history
<1> QED BY <1>4, <1>5, <1>6, <1>7, <1>8

LEMMA CrashKeeps == ASSUME IInv, Crash PROVE IInv'
<1> USE DEF IInv
<1>1. tried' \in {tried, None} /\ memo' = memo /\ now' = now /\ goodAt' = goodAt /\ tab' = tab
  BY DEF Crash
<1>2. Types'
  <2>1. faults' \in 0 .. MaxFaults BY CollectionsAssumption DEF Crash, Types
  <2>2. backoff'.streak = 0 BY DEF Crash
  <2> QED BY <1>1, <2>1, <2>2 DEF Crash, Types
<1>3. CallsAreDated' /\ RunsFollow' /\ RunTellsOutcome'
  BY DEF Crash, CallsAreDated, RunsFollow, RunTellsOutcome
<1>4. RecordsAreDated' BY <1>1 DEF RecordsAreDated, Day
<1>5. SnapshotTellsGood' BY <1>1 DEF SnapshotTellsGood, Good
<1>6. BackoffTellsTruth' BY <1>1 DEF Crash, BackoffTellsTruth
<1> QED BY <1>2, <1>3, <1>4, <1>5, <1>6

-----------------------------------------------------------------------------
LEMMA NextInv == IInv /\ [Next]_vars => IInv'
<1> SUFFICES ASSUME IInv, [Next]_vars PROVE IInv'
  OBVIOUS
<1>1. sched \in Schedules BY DEF IInv, Types
<1>2. now \in Nat BY CollectionsAssumption DEF IInv, Types, Time
<1>3. CASE Tick BY <1>3, TimePasses DEF Tick
<1>4. CASE Sleep BY <1>4, TimePasses DEF Sleep
<1>5. CASE CatchUp BY <1>1, <1>5, CallsChange DEF CatchUp
<1>6. CASE GiveUp BY <1>1, <1>6, CallsChange DEF GiveUp
<1>7. CASE GetSlot
  <2>1. queued.since \in 0 .. now BY <1>7 DEF GetSlot, IInv, CallsAreDated
  <2> QED BY <1>7, <2>1, RunBegins DEF GetSlot
<1>8. CASE Manual
  <2>1. Call("manual", None).since \in 0 .. now BY <1>2 DEF Call
  <2> QED BY <1>8, <2>1, RunBegins DEF Manual
<1>9. CASE \E r \in Results : Save(r) BY <1>9, SaveKeeps
<1>10. CASE Record BY <1>10, RecordKeeps
<1>11. CASE Send BY <1>11, SendKeeps
<1>12. CASE MoveCard BY <1>12, MoveKeeps
<1>13. CASE Crash BY <1>13, CrashKeeps
<1>14. CASE \E s \in Schedules : Reschedule(s) BY <1>14, CallsChange DEF Reschedule
<1>15. CASE UNCHANGED vars BY <1>1, <1>15, CallsChange DEF vars
<1> QED
  BY <1>3, <1>4, <1>5, <1>6, <1>7, <1>8, <1>9, <1>10, <1>11, <1>12, <1>13, <1>14, <1>15 DEF Next

LEMMA Invariance == Spec => []IInv
<1> QED BY InitInv, NextInv, PTL DEF Spec

(***************************************************************************)
(* The types of schedule, snapshot, attempt record and run, and that none  *)
(* of them is dated ahead of the clock.                                    *)
(***************************************************************************)
THEOREM TypeCorrect == Spec => []TypeOK
<1>1. IInv => TypeOK
  <2> SUFFICES ASSUME IInv PROVE TypeOK
    OBVIOUS
  <2> USE DEF IInv
  <2>1. now \in Nat /\ now <= MaxTime /\ MaxTime \in Nat
    BY CollectionsAssumption DEF Types, Time
  <2>2. ASSUME NEW s \in {memo} \ {None}
        PROVE  /\ s.source \in {"llm", "fallback"} /\ s.items \in BOOLEAN
               /\ s.at \in Time /\ s.date \in 0 .. Day(s.at)
    <3>1. s = memo /\ s \in Snapshots /\ s.at <= now /\ s.date <= Day(s.at)
      BY <2>2 DEF Types, RecordsAreDated
    <3>2. s.at \in Nat /\ Day(s.at) \in Nat BY <3>1, DayGrows DEF Snapshots
    <3> QED BY <2>1, <3>1, <3>2 DEF Snapshots, Time
  <2>3. ASSUME NEW r \in {tried} \ {None} PROVE r.ok \in BOOLEAN /\ r.at \in Time
    BY <2>1, <2>3 DEF Types, RecordsAreDated, Attempts, Time
  <2>4. refresh # None => refresh.began >= refresh.since
    BY <2>1 DEF CallsAreDated
  <2> QED BY <2>2, <2>3, <2>4 DEF TypeOK, Types
<1> QED BY <1>1, Invariance, PTL

(***************************************************************************)
(* No scheduled time counts as served unless something was collected for   *)
(* it, or the answer held nothing, or a card of YouTube was moved since    *)
(* (newsCoveredAt, youtubeCoveredAt, eventsCoveredOn).                     *)
(***************************************************************************)
THEOREM ServedMeansCollected == Spec => []CoveredMeansCollected
<1>1. IInv => CoveredMeansCollected
  <2> SUFFICES ASSUME IInv, NEW s \in Passed, Covered(s)
               PROVE  CASE tab = "news"    -> goodAt >= s \/ (Hollow /\ goodAt = -1)
                        [] tab = "youtube" -> goodAt >= s \/ Hollow \/ memo.moved
                        [] tab = "events"  -> Day(goodAt) >= Day(s) \/ Hollow
    BY DEF CoveredMeansCollected
  <2> USE DEF IInv
  <2>1. s \in Nat BY CollectionsAssumption DEF Passed, Occurrences, Time
  <2>2. memo # None /\ memo \in Snapshots /\ memo.source = "llm"
    BY DEF Covered, CoveredAt, CoveredOn, Types
  <2>3. memo.at \in Nat /\ memo.date \in Nat /\ memo.date <= Day(memo.at)
    BY <2>2 DEF Snapshots, RecordsAreDated
  <2>4. memo.items /\ ~memo.moved => goodAt = memo.at BY <2>2 DEF SnapshotTellsGood
  <2>5. tab # "youtube" => ~memo.moved BY <2>2 DEF SnapshotTellsGood
  <2>6. CASE tab = "news"
    <3>1. memo.at >= s BY <2>6 DEF Covered, CoveredAt
    <3>2. ~memo.items => goodAt = -1 BY <2>6 DEF SnapshotTellsGood, Good
    <3>3. goodAt >= s \/ (Hollow /\ goodAt = -1)
      BY <2>2, <2>4, <2>5, <2>6, <3>1, <3>2 DEF Hollow
    <3> QED BY <2>6, <3>3
  <2>7. CASE tab = "youtube"
    <3>1. memo.at >= s BY <2>7 DEF Covered, CoveredAt
    <3>2. goodAt >= s \/ Hollow \/ memo.moved BY <2>2, <2>4, <3>1 DEF Hollow
    <3> QED BY <2>7, <3>2
  <2>8. CASE tab = "events"
    <3>1. memo.date >= Day(s) BY <2>8 DEF Covered, CoveredOn
    <3>2. Day(s) \in Nat /\ Day(memo.at) \in Nat BY <2>1, <2>3, DayGrows
    <3>3. Day(memo.at) >= Day(s) BY <2>3, <3>1, <3>2
    <3>4. Day(goodAt) >= Day(s) \/ Hollow BY <2>2, <2>4, <2>5, <2>8, <3>3 DEF Hollow
    <3> QED BY <2>8, <3>4
  <2> QED BY <2>6, <2>7, <2>8 DEF Types, Tabs
<1> QED BY <1>1, Invariance, PTL

(***************************************************************************)
(* The scheduler backs off exactly when its last run failed, but for a     *)
(* good run of events that went on past midnight (noteTabOutcome).         *)
(***************************************************************************)
THEOREM BackoffIsTrue == Spec => []BackoffTellsTruth
<1>1. IInv => BackoffTellsTruth BY DEF IInv
<1> QED BY <1>1, Invariance, PTL

-----------------------------------------------------------------------------
(***************************************************************************)
(* The badge "new".  The ledger keeps of the history, for every event that *)
(* was listed lately, when it was listed last and when it came back last;  *)
(* what it forgot was not listed for longer than anything it is asked of.  *)
(***************************************************************************)
Rounds == [day : Nat \ {0}, listed : SUBSET Events, marked : SUBSET Events]
Appearances == [lastSeen : Nat, newSince : Nat]
Ledgers == [since : Nat, lastRun : Nat, items : UNION {[D -> Appearances] : D \in SUBSET Events}]

\* The i-th of the rounds lists e after an absence (CameBack of any history).
Back(rounds, i, e) ==
    LET day == rounds[i].day
    IN  /\ e \in rounds[i].listed
        /\ day - rounds[1].day >= GapDays
        /\ i > 1 /\ day - rounds[i - 1].day < GapDays
        /\ \A j \in 1 .. i - 1 : e \in rounds[j].listed => day - rounds[j].day >= GapDays

InOrder(rounds, day) ==
    /\ \A i, j \in DOMAIN rounds : i <= j => rounds[i].day <= rounds[j].day
    /\ \A i \in DOMAIN rounds : rounds[i].day <= day

\* What the entry of an event says of the rounds, and what it means to have none.
EntryTells(rounds, items, e) ==
    IF e \in DOMAIN items
    THEN /\ \A j \in DOMAIN rounds : e \in rounds[j].listed => rounds[j].day <= items[e].lastSeen
         /\ \E j \in DOMAIN rounds : e \in rounds[j].listed /\ rounds[j].day = items[e].lastSeen
         /\ items[e].newSince # 0 =>
               \E i \in DOMAIN rounds : Back(rounds, i, e) /\ rounds[i].day = items[e].newSince
         /\ \A i \in DOMAIN rounds : Back(rounds, i, e) =>
               rounds[i].day <= items[e].newSince \/ rounds[Len(rounds)].day - rounds[i].day > Retention
    ELSE \A j \in DOMAIN rounds : e \in rounds[j].listed =>
               rounds[Len(rounds)].day - rounds[j].day > Retention

\* When tracking began, and when it last ran.
LedgerDated(rounds, book) ==
    /\ rounds = <<>> => book.since = 0 /\ book.lastRun = 0 /\ DOMAIN book.items = {}
    /\ rounds # <<>> => book.since = rounds[1].day /\ book.lastRun = rounds[Len(rounds)].day

TrackInv ==
    /\ today \in Nat \ {0}
    /\ collected \in Seq(Rounds) /\ ledger \in Ledgers
    /\ InOrder(collected, today)
    /\ LedgerDated(collected, ledger)
    /\ \A e \in Events : EntryTells(collected, ledger.items, e)
    /\ NewMeansNew

LEMMA EmptyLedger ==
    NoLedger \in Ledgers /\ NoLedger.since = 0 /\ NoLedger.lastRun = 0 /\ DOMAIN NoLedger.items = {}
<1> DEFINE none == [e \in {} |-> [lastSeen |-> 0, newSince |-> 0]]
<1>1. none \in [{} -> Appearances] /\ {} \in SUBSET Events /\ DOMAIN none = {}
  OBVIOUS
<1>2. NoLedger = [since |-> 0, lastRun |-> 0, items |-> none]
  BY DEF NoLedger
<1> HIDE DEF none
<1>3. none \in UNION {[D -> Appearances] : D \in SUBSET Events}
  BY <1>1
<1>4. QED
  BY <1>1, <1>2, <1>3 DEF Ledgers

LEMMA Appended ==
    ASSUME NEW rounds \in Seq(Rounds), NEW c \in Rounds
    PROVE  LET more == Append(rounds, c)
           IN  /\ more \in Seq(Rounds) /\ more # <<>> /\ Len(more) = Len(rounds) + 1
               /\ DOMAIN rounds = 1 .. Len(rounds) /\ DOMAIN more = 1 .. Len(rounds) + 1
               /\ \A i \in DOMAIN rounds : more[i] = rounds[i] /\ more[i] \in Rounds
               /\ more[Len(rounds) + 1] = c
OBVIOUS

\* A later round takes nothing from an earlier one.
LEMMA BackStays ==
    ASSUME NEW rounds \in Seq(Rounds), NEW c \in Rounds, NEW e, NEW i \in DOMAIN rounds
    PROVE  Back(Append(rounds, c), i, e) <=> Back(rounds, i, e)
<1> DEFINE more == Append(rounds, c)
<1>1. i \in 1 .. Len(rounds) /\ \A j \in 1 .. i : more[j] = rounds[j]
  BY Appended
<1>2. more[1] = rounds[1] /\ more[i] = rounds[i] /\ (i > 1 => more[i - 1] = rounds[i - 1])
  BY <1>1
<1> HIDE DEF more
<1>3. Back(more, i, e) <=> Back(rounds, i, e)
  BY <1>1, <1>2 DEF Back
<1>4. QED
  BY <1>3 DEF more

\* The ledger judges of an event as the history does.
LEMMA LedgerKnows ==
    ASSUME TrackInv, NEW e \in Events, NEW c \in Rounds, c.day = today, e \in c.listed
    PROVE  Reappeared(e) <=> Back(Append(collected, c), Len(collected) + 1, e)
<1> DEFINE n == Len(collected)
           more == Append(collected, c)
<1>1. n \in Nat /\ DOMAIN collected = 1 .. n /\ more[n + 1] = c
      /\ \A i \in 1 .. n : more[i] = collected[i] /\ collected[i] \in Rounds
  BY Appended DEF TrackInv
<1>2. today \in Nat \ {0} /\ GapDays \in Nat \ {0} /\ Retention \in Nat /\ GapDays <= Retention
  BY TrackerSizes DEF TrackInv
<1>3. Back(more, n + 1, e) <=>
         /\ today - more[1].day >= GapDays
         /\ n + 1 > 1 /\ today - more[n].day < GapDays
         /\ \A j \in 1 .. n : e \in more[j].listed => today - more[j].day >= GapDays
  <2>1. n \in Nat /\ more[n + 1] = c /\ (n + 1) - 1 = n
    BY <1>1
  <2> HIDE DEF more, n
  <2>2. more[(n + 1) - 1] = more[n] /\ 1 .. (n + 1) - 1 = 1 .. n /\ more[n + 1].day = today
    BY <2>1
  <2>3. QED
    BY <2>1, <2>2 DEF Back
<1>4. CASE n = 0
  <2>1. collected = <<>>
    BY <1>1, <1>4 DEF TrackInv
  <2>2. Since = today
    BY <2>1 DEF Since, TrackInv, LedgerDated
  <2>3. ~Reappeared(e)
    BY <1>2, <2>2 DEF Reappeared, SuppressNew
  <2>4. QED
    BY <1>3, <1>4, <2>3
<1>5. CASE n > 0
  <2>1. collected # <<>>
    BY <1>1, <1>5
  <2>2. /\ ledger.since = collected[1].day /\ ledger.lastRun = collected[n].day
        /\ collected[1].day \in Nat \ {0} /\ collected[n].day \in Nat \ {0}
        /\ collected[n].day <= today
    BY <1>1, <1>5, <2>1 DEF TrackInv, LedgerDated, Rounds, InOrder
  <2>3. SuppressNew <=> (today - collected[1].day < GapDays \/ today - collected[n].day >= GapDays)
    BY <2>2 DEF SuppressNew, Since
  <2>4. ASSUME NEW j \in 1 .. n
        PROVE  collected[j].day \in Nat /\ collected[j].day <= collected[n].day /\ collected[j].day <= today
    BY <1>1, <1>5 DEF TrackInv, Rounds, InOrder
  <2>5. (e \in DOMAIN ledger.items => today - ledger.items[e].lastSeen >= GapDays)
        <=> (\A j \in 1 .. n : e \in collected[j].listed => today - collected[j].day >= GapDays)
    <3>1. EntryTells(collected, ledger.items, e)
      BY DEF TrackInv
    <3>2. CASE e \in DOMAIN ledger.items
      <4>1. ledger.items[e].lastSeen \in Nat
        BY <3>2 DEF TrackInv, Ledgers, Appearances
      <4>2. \A j \in 1 .. n : e \in collected[j].listed => collected[j].day <= ledger.items[e].lastSeen
        BY <1>1, <3>1, <3>2 DEF EntryTells
      <4>3. \E j \in 1 .. n : e \in collected[j].listed /\ collected[j].day = ledger.items[e].lastSeen
        BY <1>1, <3>1, <3>2 DEF EntryTells
      <4>4. (today - ledger.items[e].lastSeen >= GapDays)
            <=> (\A j \in 1 .. n : e \in collected[j].listed => today - collected[j].day >= GapDays)
        <5> DEFINE seenOn == ledger.items[e].lastSeen
        <5>1. seenOn \in Nat
          BY <4>1
        <5>2. PICK k \in 1 .. n : e \in collected[k].listed /\ collected[k].day = seenOn
          BY <4>3
        <5>3. \A j \in 1 .. n : e \in collected[j].listed => collected[j].day <= seenOn
          BY <4>2
        <5> HIDE DEF seenOn
        <5>4. ASSUME today - seenOn >= GapDays, NEW j \in 1 .. n, e \in collected[j].listed
              PROVE  today - collected[j].day >= GapDays
          BY <1>2, <2>4, <5>1, <5>3, <5>4
        <5>5. QED
          BY <5>2, <5>4 DEF seenOn
      <4>5. QED
        BY <3>2, <4>4
    <3>3. CASE e \notin DOMAIN ledger.items
      <4>1. \A j \in 1 .. n : e \in collected[j].listed => collected[n].day - collected[j].day > Retention
        BY <1>1, <3>1, <3>3 DEF EntryTells
      <4>2. QED
        BY <1>2, <2>2, <2>4, <3>3, <4>1
    <3>4. QED
      BY <3>2, <3>3
  <2>6. 1 \in 1 .. n /\ n \in 1 .. n
    BY <1>1, <1>5
  <2>7. n \in Nat /\ \A j \in 1 .. n : more[j] = collected[j]
    BY <1>1
  <2> HIDE DEF more, n
  <2>8. QED
    <3>1. Back(more, n + 1, e) <=>
             /\ today - collected[1].day >= GapDays
             /\ today - collected[n].day < GapDays
             /\ \A j \in 1 .. n : e \in collected[j].listed => today - collected[j].day >= GapDays
      BY <1>3, <1>5, <2>6, <2>7
    <3>2. ~SuppressNew <=> (today - collected[1].day >= GapDays /\ today - collected[n].day < GapDays)
      BY <1>2, <2>2, <2>3
    <3>3. QED
      BY <2>5, <3>1, <3>2 DEF Reappeared, more, n
<1>6. QED
  BY <1>1, <1>4, <1>5

\* A collection at today leaves a ledger that tells of the longer history, and marks by it.
LEMMA CollectTracks ==
    ASSUME TrackInv, NEW listed \in SUBSET Events, Collect(listed)
    PROVE  TrackInv'
<1> DEFINE n == Len(collected)
           items == ledger.items
           kept == (DOMAIN items \cup listed) \ Forgotten(listed)
           after == [e \in kept |-> IF e \in listed THEN Seen(e) ELSE items[e]]
           c == [day |-> today, listed |-> listed, marked |-> badges']
<1>1. /\ ledger' = [since |-> Since, lastRun |-> today, items |-> after]
      /\ badges' = {e \in listed : after[e].newSince # 0 /\ today - after[e].newSince <= ShowDays}
      /\ collected' = Append(collected, c) /\ today' = today
  BY DEF Collect
<1>2. /\ today \in Nat \ {0} /\ GapDays \in Nat \ {0} /\ Retention \in Nat /\ GapDays <= Retention
      /\ ShowDays \in Nat /\ ShowDays <= Retention
  BY TrackerSizes DEF TrackInv
<1>3. c \in Rounds /\ c.day = today /\ c.listed = listed /\ c.marked = badges'
  BY <1>1, <1>2 DEF Rounds
<1> HIDE DEF c
<1>4. /\ n \in Nat /\ DOMAIN collected = 1 .. n /\ DOMAIN collected' = 1 .. n + 1
      /\ collected' \in Seq(Rounds) /\ collected' # <<>> /\ Len(collected') = n + 1
      /\ collected'[n + 1] = c
      /\ \A i \in 1 .. n : collected'[i] = collected[i] /\ collected[i] \in Rounds
  BY <1>1, <1>3, Appended DEF TrackInv
<1>5. \A i \in 1 .. n : collected[i].day \in Nat \ {0} /\ collected[i].day <= today
                        /\ collected[i].day <= collected[n].day /\ collected[n].day <= today
  BY <1>4 DEF TrackInv, Rounds, InOrder
<1>6. InOrder(collected', today')
  <2>1. ASSUME NEW i \in 1 .. n + 1 PROVE collected'[i].day \in Nat /\ collected'[i].day <= today
    BY <1>2, <1>3, <1>4, <1>5
  <2>2. ASSUME NEW i \in 1 .. n + 1, NEW j \in 1 .. n + 1, i <= j
        PROVE  collected'[i].day <= collected'[j].day
    <3>1. CASE j = n + 1
      BY <1>3, <1>4, <2>1, <3>1
    <3>2. CASE j # n + 1
      <4>1. i \in 1 .. n /\ j \in 1 .. n
        BY <1>4, <2>2, <3>2
      <4>2. QED
        BY <1>4, <2>2, <4>1 DEF TrackInv, InOrder
    <3>3. QED
      BY <3>1, <3>2
  <2>3. QED
    BY <1>1, <1>4, <2>1, <2>2 DEF InOrder
<1>7. LedgerDated(collected', ledger')
  <2>1. collected'[1].day = Since
    <3>1. CASE n = 0
      <4>1. collected = <<>>
        BY <3>1 DEF TrackInv
      <4>2. QED
        BY <1>3, <1>4, <3>1, <4>1 DEF TrackInv, LedgerDated, Since
    <3>2. CASE n > 0
      <4>1. 1 \in 1 .. n /\ collected # <<>>
        BY <1>4, <3>2
      <4>2. collected'[1] = collected[1] /\ collected[1].day # 0 /\ ledger.since = collected[1].day
        BY <1>4, <1>5, <4>1 DEF TrackInv, LedgerDated
      <4>3. QED
        BY <4>2 DEF Since
    <3>3. QED
      BY <1>4, <3>1, <3>2
  <2>2. QED
    BY <1>1, <1>3, <1>4, <2>1 DEF LedgerDated
<1>8. ASSUME NEW e \in Events
      PROVE  /\ \A i \in 1 .. n : Back(collected', i, e) <=> Back(collected, i, e)
             /\ e \in listed => (Reappeared(e) <=> Back(collected', n + 1, e))
             /\ e \notin listed => ~Back(collected', n + 1, e)
  <2>1. \A i \in 1 .. n : Back(collected', i, e) <=> Back(collected, i, e)
    BY <1>1, <1>3, <1>4, BackStays DEF TrackInv
  <2>2. e \in listed => (Reappeared(e) <=> Back(collected', n + 1, e))
    BY <1>1, <1>3, LedgerKnows
  <2>3. e \notin listed => ~Back(collected', n + 1, e)
    BY <1>3, <1>4 DEF Back
  <2>4. QED
    BY <2>1, <2>2, <2>3
<1>9. items \in UNION {[D -> Appearances] : D \in SUBSET Events}
  BY DEF TrackInv, Ledgers
<1>10. ASSUME NEW e \in Events
       PROVE  EntryTells(collected, items, e)
  BY DEF TrackInv
<1>11. \A e \in DOMAIN items : e \in Events /\ items[e] \in Appearances
                               /\ items[e].lastSeen \in Nat /\ items[e].newSince \in Nat
  BY <1>9 DEF Appearances
<1>12. ASSUME NEW e \in listed
       PROVE  /\ e \in kept /\ after[e].lastSeen = today
              /\ after[e].newSince = IF Reappeared(e) THEN today
                                     ELSE IF e \in DOMAIN items THEN items[e].newSince ELSE 0
  <2>1. e \in kept
    BY DEF Forgotten
  <2>2. after[e] = Seen(e)
    BY <2>1
  <2>3. QED
    BY <2>1, <2>2 DEF Seen
<1>13. kept \subseteq DOMAIN items \cup listed /\ DOMAIN after = kept
  OBVIOUS
<1>14. ledger' \in Ledgers
  <2>1. \A e \in kept : after[e] \in Appearances
    <3>1. SUFFICES ASSUME NEW e \in kept PROVE (IF e \in listed THEN Seen(e) ELSE items[e]) \in Appearances
      OBVIOUS
    <3>2. Seen(e) \in Appearances
      BY <1>2, <1>11 DEF Seen, Appearances
    <3>3. QED
      BY <1>11, <1>13, <3>2
  <2>2. kept \in SUBSET Events
    BY <1>11, <1>13
  <2>3. after \in [kept -> Appearances]
    BY <2>1
  <2>4. Since \in Nat
    BY <1>2 DEF Since, TrackInv, Ledgers
  <2> HIDE DEF kept, after
  <2>5. QED
    BY <1>1, <1>2, <2>2, <2>3, <2>4 DEF Ledgers
<1>15. ASSUME NEW e \in Events
       PROVE  EntryTells(collected', after, e)
  <2>1. CASE e \in listed
    <3>1. e \in DOMAIN after /\ after[e].lastSeen = today
      BY <1>12, <1>13, <2>1
    <3>2. \A j \in 1 .. n + 1 : collected'[j].day <= today
      BY <1>1, <1>4, <1>6 DEF InOrder
    <3>3. e \in collected'[n + 1].listed /\ collected'[n + 1].day = today
      BY <1>3, <1>4, <2>1
    <3> DEFINE new == after[e].newSince
    <3>4. /\ new # 0 => \E i \in 1 .. n + 1 : Back(collected', i, e) /\ collected'[i].day = new
          /\ \A i \in 1 .. n + 1 : Back(collected', i, e) =>
                collected'[i].day <= new \/ today - collected'[i].day > Retention
      <4>1. CASE Reappeared(e)
        <5>1. new = today /\ Back(collected', n + 1, e)
          BY <1>8, <1>12, <2>1, <4>1
        <5> HIDE DEF new
        <5>2. n + 1 \in 1 .. n + 1
          BY <1>4
        <5>3. QED
          BY <3>2, <3>3, <5>1, <5>2
      <4>2. CASE ~Reappeared(e) /\ e \in DOMAIN items
        <5>1. new = items[e].newSince /\ ~Back(collected', n + 1, e)
          BY <1>8, <1>12, <2>1, <4>2
        <5>2. new # 0 => \E i \in 1 .. n : Back(collected, i, e) /\ collected[i].day = new
          BY <1>4, <1>10, <4>2, <5>1 DEF EntryTells
        <5>3. \A i \in 1 .. n : Back(collected, i, e) =>
                 collected[i].day <= new \/ collected[n].day - collected[i].day > Retention
          BY <1>4, <1>10, <4>2, <5>1 DEF EntryTells
        <5>4. new \in Nat
          BY <1>11, <4>2, <5>1
        <5> HIDE DEF new
        <5>5. new # 0 => \E i \in 1 .. n + 1 : Back(collected', i, e) /\ collected'[i].day = new
          BY <1>4, <1>8, <5>2
        <5>6. ASSUME NEW i \in 1 .. n + 1, Back(collected', i, e)
              PROVE  collected'[i].day <= new \/ today - collected'[i].day > Retention
          <6>1. i \in 1 .. n
            BY <1>4, <5>1, <5>6
          <6>2. Back(collected, i, e) /\ collected'[i].day = collected[i].day
            BY <1>4, <1>8, <5>6, <6>1
          <6>3. QED
            BY <1>2, <1>5, <5>3, <5>4, <6>1, <6>2
        <5>7. QED
          BY <5>5, <5>6
      <4>3. CASE ~Reappeared(e) /\ e \notin DOMAIN items
        <5>1. new = 0 /\ ~Back(collected', n + 1, e)
          BY <1>8, <1>12, <2>1, <4>3
        <5>2. \A i \in 1 .. n : e \in collected[i].listed => collected[n].day - collected[i].day > Retention
          BY <1>4, <1>10, <4>3 DEF EntryTells
        <5>3. ASSUME NEW i \in 1 .. n + 1, Back(collected', i, e)
              PROVE  today - collected'[i].day > Retention
          <6>1. i \in 1 .. n
            BY <1>4, <5>1, <5>3
          <6>2. e \in collected[i].listed /\ collected'[i].day = collected[i].day
            BY <1>4, <5>3, <6>1 DEF Back
          <6>3. QED
            BY <1>2, <1>5, <5>2, <6>1, <6>2
        <5>4. QED
          BY <5>1, <5>3
      <4>4. QED
        BY <4>1, <4>2, <4>3
    <3> HIDE DEF new, after
    <3>5. QED
      BY <1>3, <1>4, <3>1, <3>2, <3>3, <3>4 DEF EntryTells, new
  <2>2. CASE e \notin listed /\ e \in DOMAIN items /\ ~(today - items[e].lastSeen > Retention)
    <3>1. e \in DOMAIN after /\ after[e] = items[e]
      BY <2>2 DEF Forgotten
    <3>2. ~Back(collected', n + 1, e) /\ e \notin collected'[n + 1].listed
      BY <1>3, <1>4, <1>8, <2>2
    <3>3. /\ \A j \in 1 .. n : e \in collected[j].listed => collected[j].day <= items[e].lastSeen
          /\ \E j \in 1 .. n : e \in collected[j].listed /\ collected[j].day = items[e].lastSeen
          /\ items[e].newSince # 0 =>
               \E i \in 1 .. n : Back(collected, i, e) /\ collected[i].day = items[e].newSince
          /\ \A i \in 1 .. n : Back(collected, i, e) =>
               collected[i].day <= items[e].newSince \/ collected[n].day - collected[i].day > Retention
      BY <1>4, <1>10, <2>2 DEF EntryTells
    <3>4. \A j \in 1 .. n + 1 : e \in collected'[j].listed => j \in 1 .. n
      BY <1>4, <3>2
    <3>5. \A i \in 1 .. n + 1 : Back(collected', i, e) => i \in 1 .. n /\ Back(collected, i, e)
      BY <1>4, <1>8, <3>2
    <3>6. \A i \in 1 .. n : Back(collected, i, e) =>
               collected[i].day <= items[e].newSince \/ today - collected[i].day > Retention
      BY <1>2, <1>5, <3>3
    <3> HIDE DEF after
    <3>7. /\ \A j \in 1 .. n + 1 : e \in collected'[j].listed => collected'[j].day <= items[e].lastSeen
          /\ \E j \in 1 .. n + 1 : e \in collected'[j].listed /\ collected'[j].day = items[e].lastSeen
      BY <1>4, <3>3, <3>4
    <3>8. /\ items[e].newSince # 0 =>
               \E i \in 1 .. n + 1 : Back(collected', i, e) /\ collected'[i].day = items[e].newSince
          /\ \A i \in 1 .. n + 1 : Back(collected', i, e) =>
               collected'[i].day <= items[e].newSince \/ today - collected'[i].day > Retention
      BY <1>4, <1>8, <3>3, <3>5, <3>6
    <3>9. QED
      BY <1>3, <1>4, <3>1, <3>7, <3>8 DEF EntryTells
  <2>3. CASE e \notin listed /\ (e \in DOMAIN items => today - items[e].lastSeen > Retention)
    <3>1. e \notin DOMAIN after
      BY <1>13, <2>3 DEF Forgotten
    <3>2. \A j \in 1 .. n : e \in collected[j].listed => today - collected[j].day > Retention
      <4>1. CASE e \in DOMAIN items
        <5>1. \A j \in 1 .. n : e \in collected[j].listed => collected[j].day <= items[e].lastSeen
          BY <1>4, <1>10, <4>1 DEF EntryTells
        <5>2. items[e].lastSeen \in Nat /\ today - items[e].lastSeen > Retention
          BY <1>11, <2>3, <4>1
        <5>3. QED
          BY <1>2, <1>5, <5>1, <5>2
      <4>2. CASE e \notin DOMAIN items
        <5>1. \A j \in 1 .. n : e \in collected[j].listed => collected[n].day - collected[j].day > Retention
          BY <1>4, <1>10, <4>2 DEF EntryTells
        <5>2. QED
          BY <1>2, <1>5, <5>1
      <4>3. QED
        BY <4>1, <4>2
    <3>3. e \notin collected'[n + 1].listed
      BY <1>3, <1>4, <2>3
    <3>4. \A j \in 1 .. n + 1 : e \in collected'[j].listed => today - collected'[j].day > Retention
      BY <1>4, <3>2, <3>3
    <3> HIDE DEF after
    <3>5. QED
      BY <1>3, <1>4, <3>1, <3>4 DEF EntryTells
  <2>4. QED
    BY <2>1, <2>2, <2>3
<1>16. NewMeansNew'
  <2>1. Marked' = {e \in listed : \E i \in 1 .. n + 1 :
                        Back(collected', i, e) /\ today - collected'[i].day <= ShowDays}
    BY <1>3, <1>4 DEF Marked, CameBack, Back
  <2>2. ASSUME NEW e \in listed
        PROVE  (after[e].newSince # 0 /\ today - after[e].newSince <= ShowDays)
               <=> \E i \in 1 .. n + 1 : Back(collected', i, e) /\ today - collected'[i].day <= ShowDays
    <3> DEFINE new == after[e].newSince
    <3>1. EntryTells(collected', after, e) /\ e \in DOMAIN after
      BY <1>12, <1>13, <1>15
    <3>2. new \in Nat
      <4>1. new = IF Reappeared(e) THEN today
                  ELSE IF e \in DOMAIN items THEN items[e].newSince ELSE 0
        BY <1>12
      <4> HIDE DEF new
      <4>2. CASE Reappeared(e)
        BY <1>2, <4>1, <4>2
      <4>3. CASE ~Reappeared(e) /\ e \in DOMAIN items
        BY <1>11, <4>1, <4>3
      <4>4. CASE ~Reappeared(e) /\ e \notin DOMAIN items
        BY <4>1, <4>4
      <4>5. QED
        BY <4>2, <4>3, <4>4
    <3>3. new # 0 => \E i \in 1 .. n + 1 : Back(collected', i, e) /\ collected'[i].day = new
      BY <1>4, <3>1 DEF EntryTells
    <3>4. \A i \in 1 .. n + 1 : Back(collected', i, e) =>
             collected'[i].day <= new \/ today - collected'[i].day > Retention
      BY <1>3, <1>4, <3>1 DEF EntryTells
    <3>5. \A i \in 1 .. n + 1 : collected'[i].day \in Nat \ {0} /\ collected'[i].day <= today
      BY <1>2, <1>3, <1>4, <1>5
    <3> HIDE DEF new
    <3>6. (new # 0 /\ today - new <= ShowDays)
               <=> \E i \in 1 .. n + 1 : Back(collected', i, e) /\ today - collected'[i].day <= ShowDays
      BY <1>2, <3>2, <3>3, <3>4, <3>5
    <3>7. QED
      BY <3>6 DEF new
  <2>3. badges' = Marked'
    BY <1>1, <2>1, <2>2
  <2>4. collected'[Len(collected')].marked = badges'
    BY <1>3, <1>4
  <2>5. QED
    BY <2>3, <2>4 DEF NewMeansNew
<1>17. QED
  <2>1. ledger'.items = after
    BY <1>1
  <2>2. \A e \in Events : EntryTells(collected', ledger'.items, e)
    BY <1>15, <2>1
  <2>3. today' \in Nat \ {0}
    BY <1>1, <1>2
  <2> HIDE DEF after, kept
  <2>4. QED
    BY <1>4, <1>6, <1>7, <1>14, <1>16, <2>2, <2>3 DEF TrackInv

\* After each collection those events are marked as new, and those alone, that
\* came back, or came, after an absence of GapDays and at most ShowDays ago, by
\* the whole history: what the ledger keeps of it is enough (detectNew).
THEOREM BadgesMeanNew == TrackerSpec => []NewMeansNew
<1>1. TrackerInit => TrackInv
  <2> SUFFICES ASSUME TrackerInit PROVE TrackInv
    OBVIOUS
  <2>1. today = 1 /\ collected = <<>> /\ ledger.since = 0 /\ ledger.lastRun = 0
        /\ DOMAIN ledger.items = {} /\ ledger \in Ledgers
    BY EmptyLedger DEF TrackerInit
  <2>2. QED
    BY <2>1 DEF TrackInv, InOrder, LedgerDated, EntryTells, NewMeansNew
<1>2. TrackInv /\ [TrackerNext]_trackerVars => TrackInv'
  <2> SUFFICES ASSUME TrackInv, [TrackerNext]_trackerVars PROVE TrackInv'
    OBVIOUS
  <2>1. CASE \E listed \in SUBSET Events : Collect(listed)
    BY <2>1, CollectTracks
  <2>2. CASE FallsBack \/ UNCHANGED trackerVars
    BY <2>2 DEF FallsBack, trackerVars, TrackInv, NewMeansNew, Marked, CameBack
  <2>3. CASE NextDay
    <3>1. UNCHANGED <<collected, ledger>> /\ today' = today + 1 /\ today' \in Nat \ {0}
      BY <2>3 DEF NextDay, TrackInv
    <3>2. InOrder(collected, today')
      <4>1. \A i \in DOMAIN collected : collected[i] \in Rounds /\ collected[i].day <= today
        BY DEF TrackInv, InOrder
      <4>2. \A i \in DOMAIN collected : collected[i].day \in Nat
        BY <4>1 DEF Rounds
      <4>3. today \in Nat
        BY DEF TrackInv
      <4>4. \A i \in DOMAIN collected : collected[i].day <= today + 1
        BY <4>1, <4>2, <4>3
      <4>5. QED
        BY <3>1, <4>4 DEF TrackInv, InOrder
    <3>3. QED
      BY <3>1, <3>2 DEF TrackInv, NewMeansNew, Marked, CameBack
  <2>4. CASE LoseLedger
    <3>1. today' = today /\ collected' = <<>> /\ ledger' = NoLedger
      BY <2>4 DEF LoseLedger
    <3>2. NoLedger \in Ledgers /\ NoLedger.since = 0 /\ NoLedger.lastRun = 0 /\ DOMAIN NoLedger.items = {}
      BY EmptyLedger
    <3>3. QED
      BY <3>1, <3>2 DEF TrackInv, InOrder, LedgerDated, EntryTells, NewMeansNew
  <2>5. QED
    BY <2>1, <2>2, <2>3, <2>4 DEF TrackerNext
<1>3. TrackInv => NewMeansNew
  BY DEF TrackInv
<1>4. QED
  BY <1>1, <1>2, <1>3, PTL DEF TrackerSpec

-----------------------------------------------------------------------------
(***************************************************************************)
(* The board of events.  What a section shows and what it never shows is   *)
(* proved of lists of any length (SectionStands).                          *)
(***************************************************************************)
LEMMA LeastOf ==
    ASSUME NEW n \in Nat, NEW S \in SUBSET (1 .. n), S # {}
    PROVE  \E x \in S : \A y \in S : x <= y
<1> DEFINE upto(x) == {y \in S : y <= x}
           family == {upto(x) : x \in S}
<1>1. IsFiniteSet(S) /\ S \subseteq Nat
  <2>1. 1 \in Int /\ n \in Int /\ S \subseteq 1 .. n /\ S \subseteq Nat
    OBVIOUS
  <2>2. IsFiniteSet(1 .. n)
    BY <2>1, FS_Interval
  <2>3. QED
    BY <2>1, <2>2, FS_Subset
<1>2. family \subseteq FiniteSubsetsOf(S) /\ family # {}
  <2>1. ASSUME NEW x \in S PROVE upto(x) \in FiniteSubsetsOf(S)
    <3>1. upto(x) \in SUBSET S
      OBVIOUS
    <3>2. IsFiniteSet(upto(x))
      BY <1>1, <3>1, FS_Subset
    <3>3. QED
      BY <3>1, <3>2 DEF FiniteSubsetsOf
  <2>2. QED
    BY <2>1
<1>3. PICK x \in S : \A y \in S : <<upto(y), upto(x)>> \notin StrictSubsetOrdering(S)
  <2> HIDE DEF upto
  <2>1. \E F \in family : \A G \in family : ~ (<<G, F>> \in StrictSubsetOrdering(S))
    <3> HIDE DEF family
    <3> QED
      BY <1>2, FS_StrictSubsetOrderingWellFounded, WFMin
  <2>2. QED
    BY <2>1
<1>4. ASSUME NEW y \in S PROVE x <= y
  <2> SUFFICES ASSUME y < x PROVE FALSE
    BY <1>1
  <2>a. x \in Nat /\ y \in Nat /\ ~ (x <= y) /\ x <= x /\ \A z \in S : z <= y => z <= x
    BY <1>1
  <2>1. upto(y) \subseteq upto(x) /\ x \in upto(x) /\ x \notin upto(y)
    BY <2>a, Zenon
  <2>2. upto(y) \in SUBSET S /\ upto(x) \in SUBSET S /\ upto(y) # upto(x)
    BY <2>1
  <2>3. <<upto(y), upto(x)>> \in StrictSubsetOrdering(S)
    <3> HIDE DEF upto
    <3> QED
      BY <2>1, <2>2 DEF StrictSubsetOrdering
  <2>4. QED
    BY <1>3, <2>3
<1>5. QED
  BY <1>4

\* A link that is shown is one of the search or of an official page.
LEMMA LinksAreReal ==
    ASSUME NEW e
    PROVE  resolveLink(e) \in {"official", "found", "none"}
BY DEF resolveLink, acceptableLink, matchCorpusLink

\* What a section holds of the entries S, and what it never holds.
LEMMA SectionStands ==
    ASSUME NEW list, NEW n \in Nat, DOMAIN list = 1 .. n, NEW S \in SUBSET DOMAIN list
    PROVE  /\ \A x \in Section(list, S) :
                 /\ x.link \in {"official", "found"} /\ x.title # NoTitle
                 /\ x.until = 0 \/ ~(x.until < date)
                 /\ \E i \in S : x = Item(list[i])
                 /\ \A y \in Section(list, S) : x.title = y.title => x = y
           /\ \A i \in S : Showable(list[i]) /\ list[i].title # NoTitle => list[i].title \in Listed(Section(list, S))
<1> DEFINE shown == {k \in S : Showable(list[k])}
           first == dedupeByTitle(list, shown)
<1>1. \A i \in first : /\ i \in shown /\ i \in Nat /\ list[i].title # NoTitle
                       /\ \A j \in shown : list[j].title = list[i].title => i <= j
  BY DEF dedupeByTitle
<1>2. Section(list, S) = {Item(list[i]) : i \in first}
  BY DEF Section
<1>3. \A i : /\ Item(list[i]).title = list[i].title /\ Item(list[i]).link = resolveLink(list[i])
             /\ Item(list[i]).until = Until(list[i])
  BY DEF Item
<1>4. ASSUME NEW i \in first, NEW j \in first, list[i].title = list[j].title
      PROVE  i = j
  <2>1. i <= j /\ j <= i /\ i \in Nat /\ j \in Nat
    BY <1>1, <1>4
  <2>2. QED
    BY <2>1
<1>5. ASSUME NEW x \in Section(list, S)
      PROVE  /\ x.link \in {"official", "found"} /\ x.title # NoTitle
             /\ x.until = 0 \/ ~(x.until < date)
             /\ \E i \in S : x = Item(list[i])
             /\ \A y \in Section(list, S) : x.title = y.title => x = y
  <2>1. PICK i \in first : x = Item(list[i])
    BY <1>2
  <2>2. Showable(list[i]) /\ i \in S /\ list[i].title # NoTitle
    BY <1>1
  <2>3. \A y \in Section(list, S) : x.title = y.title => x = y
    <3> HIDE DEF first
    <3> QED
      BY <1>2, <1>3, <1>4, <2>1
  <2>4. x.link \in {"official", "found"}
    BY <1>3, <2>1, <2>2, LinksAreReal DEF Showable
  <2>5. x.until = 0 \/ ~(x.until < date)
    BY <1>3, <2>1, <2>2 DEF Showable, isEnded
  <2>6. QED
    BY <1>3, <2>1, <2>2, <2>3, <2>4, <2>5
<1>6. ASSUME NEW i \in S, Showable(list[i]), list[i].title # NoTitle
      PROVE  list[i].title \in Listed(Section(list, S))
  <2> DEFINE same == {j \in shown : list[j].title = list[i].title}
  <2>1. i \in same /\ same \in SUBSET (1 .. n)
    BY <1>6
  <2>2. PICK k \in same : \A j \in same : k <= j
    <3> HIDE DEF same
    <3> QED
      BY <2>1, LeastOf
  <2>3. k \in first /\ list[k].title = list[i].title
    BY <1>6, <2>2 DEF dedupeByTitle
  <2>4. Item(list[k]) \in Section(list, S)
    BY <1>2, <2>3
  <2>5. QED
    BY <1>3, <2>3, <2>4 DEF Listed
<1>7. QED
  BY <1>5, <1>6

\* A day is told by its year and its place in it.
LEMMA SameYear ==
    ASSUME NEW d \in Nat \ {0}, YearOf(d) = YearOf(date)
    PROVE  ThisYear(d) = d
<1>1. YearLength \in Nat \ {0} /\ d - 1 \in Nat
  BY CurationDays
<1>2. \A D \in Nat \ {0}, a \in Nat : (a \div D) * D + (a % D) = a
  OBVIOUS
<1>3. YearOf(d) * YearLength + (DayOfYear(d) - 1) = d - 1 /\ YearOf(d) \in Nat /\ DayOfYear(d) \in Nat
  <2>1. ((d - 1) \div YearLength) * YearLength + ((d - 1) % YearLength) = d - 1
    BY <1>1, <1>2
  <2>2. (d - 1) \div YearLength \in Nat /\ (d - 1) % YearLength \in Nat
    BY <1>1
  <2>3. QED
    BY <2>1, <2>2 DEF YearOf, DayOfYear
<1>4. YearOf(d) * YearLength \in Nat
  BY <1>1, <1>3
<1>5. QED
  BY <1>3, <1>4 DEF ThisYear

\* What belongs on the board can be shown.
LEMMA BelongingIsShowable ==
    ASSUME date \in Nat \ 0 .. 2, NEW e \in Entries, Belongs(e)
    PROVE  Showable(e)
<1>1. resolveLink(e) # "none"
  BY DEF Belongs, resolveLink, acceptableLink, matchCorpusLink
<1>2. e.form \in {"dates", "period", "none"} /\ e.span[2] \in Nat \ {0}
  BY DEF Entries, Forms, Spans
<1>3. ~(Until(e) < date /\ Until(e) # 0)
  <2>1. CASE e.form = "none"
    BY <2>1 DEF Until
  <2>2. CASE e.form = "dates"
    BY <1>2, <2>2 DEF Until, Belongs
  <2>3. CASE e.form = "period"
    <3>1. Until(e) = e.span[2]
      BY <1>2, <2>3, SameYear DEF Until, Belongs
    <3>2. QED
      BY <1>2, <2>3, <3>1 DEF Belongs
  <2>4. QED
    BY <1>2, <2>1, <2>2, <2>3
<1>4. QED
  BY <1>1, <1>3 DEF Showable, isEnded

\* The last day of an event is a day, or not known.
LEMMA UntilIsDay ==
    ASSUME date \in Nat \ 0 .. 2, NEW e \in Entries
    PROVE  Until(e) \in Nat
<1>1. e.span[2] \in Nat \ {0}
  BY DEF Entries, Spans
<1>2. ThisYear(e.span[2]) \in Nat
  <2>1. \A D \in Nat \ {0}, a \in Nat : a \div D \in Nat /\ a % D \in Nat
    OBVIOUS
  <2>2. YearOf(date) \in Nat /\ DayOfYear(e.span[2]) \in Nat
    <3>1. date - 1 \in Nat /\ e.span[2] - 1 \in Nat
      BY <1>1
    <3>2. (date - 1) \div YearLength \in Nat /\ (e.span[2] - 1) % YearLength \in Nat
      BY <2>1, <3>1, CurationDays
    <3>3. QED
      BY <3>2 DEF YearOf, DayOfYear
  <2>3. YearOf(date) * YearLength \in Nat
    BY <2>2, CurationDays
  <2>4. QED
    BY <2>2, <2>3 DEF ThisYear
<1>3. QED
  BY <1>1, <1>2 DEF Until

\* The board is made of the answer that is kept beside it.
CurationInv ==
    /\ date \in Nat \ 0 .. 2
    /\ answer \in Seq(Entries)
    /\ board.source = "llm" =>
          board = [source |-> "llm",
                   popups |-> Section(answer, Popups(answer)),
                   venues |-> [v \in Venues |-> Section(answer, AtVenue(answer, v))],
                   festivals |-> Section(answer, OfKind(answer, "festival"))]

LEMMA AnswersAreLists == ASSUME NEW a \in Answers PROVE a \in Seq(Entries)
<1>1. CASE a \in {<<e>> : e \in Entries}
  <2>1. PICK e \in Entries : a = <<e>>
    BY <1>1
  <2> HIDE DEF Entries
  <2>2. QED
    BY <2>1
<1>2. CASE a \in {<<[e EXCEPT !.link = l], e>> :
                     e \in {x \in Entries : x.form = "dates"}, l \in {"none", "found"}}
  <2>1. PICK e \in Entries, l \in {"none", "found"} : a = <<[e EXCEPT !.link = l], e>>
    BY <1>2
  <2>2. [e EXCEPT !.link = l] \in Entries
    BY DEF Entries, Links
  <2>3. QED
    BY <2>1, <2>2
<1>3. QED
  BY <1>1, <1>2 DEF Answers

LEMMA BoardFollows == CurationInv => BoardStandsUp
<1> SUFFICES ASSUME CurationInv, board.source = "llm" PROVE BoardStandsUp
  BY DEF BoardStandsUp
<1>1. PICK n \in Nat : DOMAIN answer = 1 .. n
  BY DEF CurationInv
<1>2. /\ board.popups = Section(answer, Popups(answer))
      /\ board.festivals = Section(answer, OfKind(answer, "festival"))
      /\ \A v \in Venues : board.venues[v] = Section(answer, AtVenue(answer, v))
  BY DEF CurationInv
<1>3. /\ Popups(answer) \in SUBSET DOMAIN answer
      /\ \A kind : OfKind(answer, kind) \in SUBSET DOMAIN answer
      /\ \A v : AtVenue(answer, v) \in SUBSET DOMAIN answer
  BY DEF Popups, OfKind, AtVenue
<1> DEFINE sections == {board.popups, board.festivals} \cup {board.venues[v] : v \in Venues}
<1>4. ASSUME NEW s \in sections
      PROVE  \E S \in SUBSET DOMAIN answer : s = Section(answer, S)
  BY <1>2, <1>3
<1>5. ASSUME NEW s \in sections, NEW x \in s
      PROVE  /\ x.link \in {"official", "found"} /\ x.title # NoTitle
             /\ x.until = 0 \/ x.until >= date
             /\ \A y \in s : x.title = y.title => x = y
  <2>1. PICK S \in SUBSET DOMAIN answer : s = Section(answer, S)
    BY <1>4
  <2>2. /\ x.link \in {"official", "found"} /\ x.title # NoTitle
        /\ x.until = 0 \/ ~(x.until < date)
        /\ \E i \in S : x = Item(answer[i])
        /\ \A y \in s : x.title = y.title => x = y
    BY <1>1, <2>1, SectionStands
  <2>3. PICK i \in S : x = Item(answer[i])
    BY <2>2
  <2>4. answer[i] \in Entries
    BY DEF CurationInv
  <2>5. x.until \in Nat
    BY <2>3, <2>4, UntilIsDay DEF Item, CurationInv
  <2>6. QED
    BY <2>2, <2>5 DEF CurationInv
<1>6. \A x \in board.popups : x.capital
  <2> SUFFICES ASSUME NEW x \in board.popups PROVE x.capital
    OBVIOUS
  <2>1. PICK i \in Popups(answer) : x = Item(answer[i])
    BY <1>1, <1>2, <1>3, SectionStands
  <2>2. QED
    BY <2>1 DEF Popups, Item
<1>7. ASSUME NEW i \in DOMAIN answer, Belongs(answer[i])
      PROVE  CASE answer[i].kind = "popup" -> answer[i].title \in Listed(board.popups)
               [] answer[i].kind = "festival" -> answer[i].title \in Listed(board.festivals)
               [] OTHER -> \A v \in answer[i].at : answer[i].title \in Listed(board.venues[v])
  <2>1. answer[i] \in Entries
    BY DEF CurationInv
  <2>2. Showable(answer[i]) /\ answer[i].title # NoTitle /\ answer[i].capital
    BY <1>7, <2>1, BelongingIsShowable DEF CurationInv, Belongs
  <2>3. \A S \in SUBSET DOMAIN answer : i \in S => answer[i].title \in Listed(Section(answer, S))
    BY <1>1, <2>2, SectionStands
  <2>4. answer[i].kind \in {"popup", "exhibition", "festival"} /\ answer[i].at \subseteq Venues
    BY <2>1 DEF Entries, Kinds
  <2>5. CASE answer[i].kind = "popup"
    <3>1. i \in Popups(answer)
      BY <2>2, <2>5 DEF Popups, OfKind
    <3>2. QED
      BY <1>2, <1>3, <2>3, <2>5, <3>1
  <2>6. CASE answer[i].kind = "festival"
    <3>1. i \in OfKind(answer, "festival")
      BY <2>6 DEF OfKind
    <3>2. QED
      BY <1>2, <1>3, <2>3, <2>6, <3>1
  <2>7. CASE answer[i].kind = "exhibition"
    <3>1. ASSUME NEW v \in answer[i].at PROVE answer[i].title \in Listed(board.venues[v])
      <4>1. i \in AtVenue(answer, v) /\ v \in Venues
        BY <2>4, <2>7 DEF AtVenue, OfKind
      <4>2. QED
        BY <1>2, <1>3, <2>3, <4>1
    <3>2. QED
      BY <2>7, <3>1
  <2>8. QED
    BY <2>4, <2>5, <2>6, <2>7
<1>8. QED
  BY <1>5, <1>6, <1>7 DEF BoardStandsUp

\* Whatever the agent answers, the board shows each event that belongs on it,
\* and none that is over, elsewhere, unnamed, double or without a page (curate).
THEOREM BoardsStandUp == EventSpec => []BoardStandsUp
<1>1. EventInit => CurationInv
  BY CurationDays DEF EventInit, CurationInv, EmptyBoard
<1>2. CurationInv /\ [EventNext]_eventVars => CurationInv'
  <2> SUFFICES ASSUME CurationInv, [EventNext]_eventVars PROVE CurationInv'
    OBVIOUS
  <2>1. CASE AgentCurates
    <3>1. date' = date /\ corpus' = corpus /\ answer' \in Answers
      BY <2>1 DEF AgentCurates
    <3>2. Entries' = Entries
      BY <3>1 DEF Entries, Spans
    <3>3. answer' \in Seq(Entries)'
      BY <3>1, <3>2, AnswersAreLists
    <3>4. /\ Section(answer, Popups(answer))' = Section(answer', Popups(answer'))
          /\ Section(answer, OfKind(answer, "festival"))' = Section(answer', OfKind(answer', "festival"))
      BY <3>1 DEF Section, Popups, OfKind, dedupeByTitle, Showable, Item, resolveLink, acceptableLink,
                  matchCorpusLink, isEnded, computeTag, From, Until, ThisYear
    <3>5. \A v \in Venues : Section(answer, AtVenue(answer, v))' = Section(answer', AtVenue(answer', v))
      BY <3>1 DEF Section, AtVenue, OfKind, dedupeByTitle, Showable, Item, resolveLink, acceptableLink,
                  matchCorpusLink, isEnded, computeTag, From, Until, ThisYear
    <3>6. board' = [source |-> "llm",
                    popups |-> Section(answer', Popups(answer')),
                    venues |-> [v \in Venues |-> Section(answer', AtVenue(answer', v))],
                    festivals |-> Section(answer', OfKind(answer', "festival"))]
      BY <2>1 DEF AgentCurates
    <3>7. QED
      BY <3>1, <3>3, <3>4, <3>5, <3>6 DEF CurationInv
  <2>2. CASE FallsBackToRaw
    <3>1. date' = date /\ answer' = answer /\ board'.source = "naver-raw"
      BY <2>2 DEF FallsBackToRaw
    <3>2. QED
      BY <3>1 DEF CurationInv, Entries, Spans
  <2>3. CASE CollectAgain
    <3>1. date' \in Today /\ answer' = <<>> /\ board'.source = "none"
      BY <2>3 DEF CollectAgain, EmptyBoard
    <3>2. QED
      BY <3>1, CurationDays DEF CurationInv
  <2>4. CASE UNCHANGED eventVars
    BY <2>4 DEF eventVars, CurationInv, Entries, Spans, Section, Popups, AtVenue, OfKind, dedupeByTitle,
                Showable, Item, resolveLink, acceptableLink, matchCorpusLink, isEnded, computeTag, From, Until,
                ThisYear
  <2>5. QED
    BY <2>1, <2>2, <2>3, <2>4 DEF EventNext
<1>3. QED
  BY <1>1, <1>2, BoardFollows, PTL DEF EventSpec
=============================================================================
