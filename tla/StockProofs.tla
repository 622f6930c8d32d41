----------------------------- MODULE StockProofs -----------------------------
(***************************************************************************)
(* Proofs about StockLedger: its types, and that a briefing is sent once,  *)
(* that the ledger only grows, that a good briefing is kept and a handled  *)
(* slot left alone, for any number of slots, days and faults; and about    *)
(* StockCuration: that a briefing says nothing that has no ground, for any *)
(* companies and any answer of the agent.                                  *)
(***************************************************************************)
EXTENDS StockLedger, StockCuration, TLAPS

\* A run of today, and what it knows of the ledger.
OfToday == run.stage # "none" /\ run.day = day

\* A run never belongs to a day to come.
RunStarted == run.stage # "none" => run.day <= day

\* Until it sends, a run knows of its slot exactly what the ledger says; from
\* then on more.
FlagsMatchLedger ==
    OfToday => /\ notified[run.slot] \subseteq run.flags
               /\ run.stage \notin Channels => run.flags = notified[run.slot]

\* Until it stores its briefing, the snapshot a run found is still there.
PrevIsCurrent ==
    run.stage \notin {"none"} \cup Channels => run.prev = files[RoleOf(run.slot)]

\* What will be on record for a slot if no crash comes in between.
Held(k) == IF OfToday /\ run.slot = k THEN run.flags ELSE notified[k]

\* A channel that is not on record was sent to at most once per fault.
SentWithinRecord ==
    \A k \in Keys, c \in Channels :
        sent[k][c] <= crashes + doubts + (IF c \in Held(k) THEN 1 ELSE 0)

IInv == TypeOK /\ RunStarted /\ FlagsMatchLedger /\ PrevIsCurrent /\ SentWithinRecord

-----------------------------------------------------------------------------
LEMMA RoleType == \A slot : RoleOf(slot) \in Roles
BY DEF RoleOf, Roles

Runs == [day : Days, slot : Keys, scheduled : BOOLEAN, stage : Stages,
         prev : Snapshots, last : 0 .. MaxDays, flags : SUBSET Channels]

LEMMA NoRunType == NoRun \in Runs /\ NoRun.stage = "none" /\ NoFile \in Snapshots
<1>1. NoFile \in Snapshots
  BY StockAssumption DEF NoFile, Snapshots, Sources, Keys
<1>2. 1 \in Days /\ 0 \in Keys /\ 0 \in 0 .. MaxDays
  BY StockAssumption DEF Days, Keys
<1>3. NoRun \in Runs
  BY <1>1, <1>2 DEF NoRun, Runs, Stages
<1>4. QED
  BY <1>1, <1>3 DEF NoRun

\* The initial states.
LEMMA InitInvariant == Init => IInv
<1> SUFFICES ASSUME Init PROVE IInv
  OBVIOUS
<1>1. TypeOK
  <2>1. day \in Days /\ clock \in Keys /\ queued \in Keys
    BY StockAssumption DEF Init, Days, Keys
  <2>2. open \subseteq Days /\ on \subseteq Channels /\ split \in BOOLEAN
    BY DEF Init
  <2>3. files \in [Roles -> Snapshots]
    BY NoRunType DEF Init
  <2>4. notified \in [Keys -> SUBSET Channels] /\ recorded \in BOOLEAN /\ byCron \in BOOLEAN
    BY DEF Init, NothingNotified
  <2>5. run \in Runs /\ run = NoRun
    BY NoRunType DEF Init
  <2>6. sent \in [Keys -> [Channels -> Nat]]
    BY DEF Init, NothingSent
  <2>7. {crashes, doubts, toggles} \subseteq Nat /\ faults <= MaxFaults
    BY StockAssumption DEF Init, faults
  <2>8. QED
    BY <2>1, <2>2, <2>3, <2>4, <2>5, <2>6, <2>7 DEF TypeOK, Runs
<1>2. RunStarted /\ FlagsMatchLedger /\ PrevIsCurrent
  BY DEF Init, RunStarted, FlagsMatchLedger, PrevIsCurrent, OfToday, NoRun
<1>3. SentWithinRecord
  BY DEF Init, SentWithinRecord, Held, OfToday, NoRun, NothingSent, NothingNotified
<1>4. QED
  BY <1>1, <1>2, <1>3 DEF IInv

-----------------------------------------------------------------------------
\* What the shared parts of the actions write is of its type.
LEMMA BeginType ==
    ASSUME TypeOK, NEW slot \in Keys, NEW scheduled \in BOOLEAN, Begin(slot, scheduled)
    PROVE  /\ run' \in Runs
           /\ run'.stage = "session" /\ run'.day = day /\ run'.slot = slot
           /\ run'.flags = notified[slot] /\ run'.prev = files[RoleOf(slot)]
<1>1. PICK last \in 0 .. MaxDays :
        run' = [day |-> day, slot |-> slot, scheduled |-> scheduled, stage |-> "session",
                prev |-> files[RoleOf(slot)], last |-> last, flags |-> notified[slot]]
  BY DEF Begin, AlreadySent
<1>2. files[RoleOf(slot)] \in Snapshots /\ notified[slot] \in SUBSET Channels /\ day \in Days
  BY RoleType DEF TypeOK
<1>3. QED
  BY <1>1, <1>2 DEF Runs, Stages

LEMMA SnapshotType ==
    ASSUME TypeOK, NEW source \in Sources
    PROVE  Snapshot(source) \in Snapshots
<1>1. run.day \in 0 .. MaxDays /\ run.slot \in Keys /\ run.last \in 0 .. MaxDays
  BY StockAssumption DEF TypeOK, Days
<1>2. QED
  BY <1>1 DEF Snapshot, Snapshots

LEMMA MergedType ==
    ASSUME TypeOK, NEW flags \in SUBSET Channels
    PROVE  /\ Merged(flags) \in [Keys -> SUBSET Channels]
           /\ Merged(flags)[run.slot] = flags
           /\ \A k \in Keys : k # run.slot => Merged(flags)[k] = notified[k]
<1>1. run.slot \in Keys /\ notified \in [Keys -> SUBSET Channels]
  BY DEF TypeOK
<1>2. QED
  BY <1>1 DEF Merged

LEMMA FinishType ==
    ASSUME TypeOK, NEW map \in [Keys -> SUBSET Channels], Finish(map)
    PROVE  /\ run' = NoRun /\ run' \in Runs
           /\ recorded' \in BOOLEAN /\ notified' \in [Keys -> SUBSET Channels]
BY NoRunType DEF Finish, TypeOK

\* Types are preserved by every step.
LEMMA TypeStep == TypeOK /\ [Next]_vars => TypeOK'
<1> SUFFICES ASSUME TypeOK, [Next]_vars PROVE TypeOK'
  OBVIOUS
<1> DEFINE Env == /\ day' \in Days /\ clock' \in Keys
                  /\ open' \subseteq Days /\ on' \subseteq Channels /\ split' \in BOOLEAN
           Ledger == recorded' \in BOOLEAN /\ notified' \in [Keys -> SUBSET Channels]
           Queue == queued' \in Keys /\ byCron' \in BOOLEAN
           TheRun == run' \in Runs /\ (run'.stage = "none" => run' = NoRun)
           Files == files' \in [Roles -> Snapshots]
           Sent == sent' \in [Keys -> [Channels -> Nat]]
           Faults == {crashes', doubts', toggles'} \subseteq Nat /\ faults' <= MaxFaults
<1>a. ASSUME Env, Ledger, Queue, TheRun, Files, Sent, Faults PROVE TypeOK'
  BY <1>a DEF TypeOK, Runs, faults
<1>b. TypeOK /\ run \in Runs
  BY DEF TypeOK, Runs
<1>c. UNCHANGED <<recorded, notified>> => Ledger
  BY DEF TypeOK
<1>d. UNCHANGED <<queued, byCron>> => Queue
  BY DEF TypeOK
<1>e. UNCHANGED <<day, clock, on, envVars>> => Env
  BY DEF TypeOK, envVars
<1>f. UNCHANGED bounds => Faults
  BY DEF TypeOK, bounds, faults
<1>g. (UNCHANGED sent => Sent) /\ (UNCHANGED files => Files)
  BY DEF TypeOK
<1>h. UNCHANGED run => TheRun
  BY <1>b DEF TypeOK
<1>i. 0 \in Keys /\ NumSlots \in Nat /\ MaxDays \in Nat /\ MaxFaults \in Nat
  BY StockAssumption DEF Keys
<1>j. crashes \in Nat /\ doubts \in Nat /\ toggles \in Nat
  BY DEF TypeOK
<1> HIDE DEF Env, Ledger, Queue, TheRun, Files, Sent, Faults
<1>1. CASE UNCHANGED vars
  BY <1>1, <1>a, <1>c, <1>d, <1>e, <1>f, <1>g, <1>h DEF vars
<1>2. ASSUME NEW fires \in BOOLEAN, SlotTime(fires) PROVE TypeOK'
  <2>1. clock' \in Keys
    BY <1>2, <1>i DEF SlotTime, TypeOK, Keys
  <2>2. Env
    BY <2>1, <1>2 DEF SlotTime, TypeOK, Env, envVars
  <2>3. Queue
    BY <2>1, <1>2, <1>d DEF SlotTime, Queue
  <2>4. QED
    BY <2>2, <2>3, <1>2, <1>a, <1>c, <1>f, <1>g, <1>h DEF SlotTime
<1>3. CASE Midnight
  <2>1. Env
    BY <1>3, StockAssumption DEF Midnight, TypeOK, Env, Days, Keys, envVars
  <2>2. Ledger /\ Sent
    BY <1>3 DEF Midnight, Ledger, Sent, NothingNotified, NothingSent
  <2>3. QED
    BY <2>1, <2>2, <1>3, <1>a, <1>d, <1>f, <1>g, <1>h DEF Midnight
<1>4. CASE QueuedStarts
  <2>1. TheRun
    BY <1>4, BeginType, <1>b DEF QueuedStarts, TheRun, TypeOK
  <2>2. Queue
    BY <1>4, <1>i DEF QueuedStarts, Queue
  <2>3. QED
    BY <2>1, <2>2, <1>4, <1>a, <1>c, <1>e, <1>f, <1>g DEF QueuedStarts
<1>5. CASE QueuedGivesUp
  <2>1. Queue
    BY <1>5, <1>i DEF QueuedGivesUp, Queue
  <2>2. QED
    BY <2>1, <1>5, <1>a, <1>c, <1>e, <1>f, <1>g, <1>h DEF QueuedGivesUp
<1>6. CASE ManualStarts
  <2>1. TheRun
    BY <1>6, BeginType, <1>b DEF ManualStarts, LatestPastSlot, TheRun, TypeOK
  <2>2. QED
    BY <2>1, <1>6, <1>a, <1>c, <1>d, <1>e, <1>f, <1>g DEF ManualStarts
<1>7. CASE CatchUp
  <2>1. Queue
    BY <1>7 DEF CatchUp, Queue, TypeOK, Slots, Keys
  <2>2. QED
    BY <2>1, <1>7, <1>a, <1>c, <1>e, <1>f, <1>g, <1>h DEF CatchUp
<1>8. CASE SessionSettled
  <2>1. Ledger /\ TheRun
    BY <1>8, <1>b, MergedType, FinishType DEF SessionSettled, Ledger, TheRun
  <2>2. QED
    BY <2>1, <1>8, <1>a, <1>d, <1>e, <1>f, <1>g DEF SessionSettled
<1>9. CASE SessionResolved
  <2>1. TheRun
    BY <1>9, <1>b DEF SessionResolved, TheRun, Runs, Stages
  <2>2. QED
    BY <2>1, <1>9, <1>a, <1>c, <1>d, <1>e, <1>f, <1>g DEF SessionResolved
<1>10. ASSUME FinishHoliday PROVE Ledger /\ TheRun /\ Files
  <2>1. Ledger /\ TheRun
    BY <1>10, <1>b, MergedType, FinishType DEF FinishHoliday, Ledger, TheRun
  <2>2. Snapshot("holiday") \in Snapshots
    BY <1>b, SnapshotType DEF Sources
  <2>3. Files
    BY <1>10, <2>2 DEF FinishHoliday, Files, TypeOK
  <2>4. QED
    BY <2>1, <2>3
<1>11. CASE HolidayEnds
  BY <1>11, <1>10, <1>a, <1>d, <1>e, <1>f, <1>g DEF HolidayEnds
<1>12. ASSUME NEW missing \in BOOLEAN, QuotesGathered(missing) PROVE TypeOK'
  <2>1. Ledger /\ TheRun /\ Files
    <3>1. CASE missing
      BY <3>1, <1>12, <1>10 DEF QuotesGathered
    <3>2. CASE ~missing
      <4>1. TheRun
        BY <3>2, <1>12, <1>b DEF QuotesGathered, TheRun, Runs, Stages
      <4>2. QED
        BY <4>1, <3>2, <1>12, <1>c, <1>g DEF QuotesGathered
    <3>3. QED
      BY <3>1, <3>2
  <2>2. QED
    BY <2>1, <1>12, <1>a, <1>d, <1>e, <1>f, <1>g DEF QuotesGathered
<1>13. CASE AgentFails
  <2>1. Ledger /\ TheRun
    BY <1>13, <1>b, FinishType DEF AgentFails, Ledger, TheRun, TypeOK
  <2>2. Snapshot("empty") \in Snapshots
    BY <1>b, SnapshotType DEF Sources
  <2>3. Files
    BY <1>13, <2>2 DEF AgentFails, Files, TypeOK
  <2>4. QED
    BY <2>1, <2>3, <1>13, <1>a, <1>d, <1>e, <1>f, <1>g DEF AgentFails
<1>14. ASSUME NEW outcome \in Briefings, AgentAnswers(outcome) PROVE TypeOK'
  <2>1. Snapshot("llm") \in Snapshots
    BY <1>b, SnapshotType DEF Sources
  <2>2. Files
    BY <1>14, <2>1 DEF AgentAnswers, Files, TypeOK
  <2>3. Ledger /\ TheRun
    <3>1. CASE outcome = "good" /\ run.slot # 0 /\ run.flags # Channels
      <4>1. TheRun
        BY <3>1, <1>14, <1>b DEF AgentAnswers, TheRun, Runs, Stages, Channels
      <4>2. QED
        BY <4>1, <3>1, <1>14, <1>c DEF AgentAnswers
    <3>2. CASE ~(outcome = "good" /\ run.slot # 0 /\ run.flags # Channels)
      <4> DEFINE flags == IF outcome = "blank" /\ run.slot # 0 THEN Channels ELSE run.flags
      <4>1. flags \in SUBSET Channels
        BY <1>b DEF Runs
      <4>2. Finish(Merged(flags))
        BY <3>2, <1>14 DEF AgentAnswers
      <4>3. QED
        BY <4>1, <4>2, <1>b, MergedType, FinishType DEF Ledger, TheRun
    <3>3. QED
      BY <3>1, <3>2
  <2>4. QED
    BY <2>2, <2>3, <1>14, <1>a, <1>d, <1>e, <1>f, <1>g DEF AgentAnswers
<1>15. ASSUME NEW delivered \in BOOLEAN, NEW reported \in BOOLEAN, Notify(delivered, reported)
       PROVE  TypeOK'
  <2> DEFINE c == run.stage
             idle == c \in run.flags \/ c \notin on
             flags == IF idle \/ reported THEN run.flags \cup {c} ELSE run.flags
  <2>1. c \in Channels /\ flags \in SUBSET Channels
    BY <1>15, <1>b DEF Notify, Runs
  <2>2. Sent
    BY <1>15, <2>1, <1>b DEF Notify, Sent, TypeOK, Runs
  <2>3. Faults
    <3>1. crashes' = crashes /\ toggles' = toggles
      BY <1>15 DEF Notify
    <3>2. \/ doubts' = doubts
          \/ doubts' = doubts + 1 /\ faults < MaxFaults
      BY <1>15 DEF Notify
    <3>3. crashes' \in Nat /\ doubts' \in Nat /\ toggles' \in Nat
      BY <3>1, <3>2, <1>j
    <3>4. faults' <= MaxFaults
      BY <3>1, <3>2, <1>i, <1>j DEF faults, TypeOK
    <3>5. QED
      BY <3>3, <3>4 DEF Faults
  <2>4. Ledger /\ TheRun
    <3>1. CASE c = "email"
      <4>1. run' = [run EXCEPT !.stage = "imessage", !.flags = flags]
        BY <3>1, <1>15 DEF Notify
      <4>2. UNCHANGED <<recorded, notified>>
        BY <3>1, <1>15 DEF Notify
      <4>3. TheRun
        BY <4>1, <2>1, <1>b DEF TheRun, Runs, Stages, Channels
      <4>4. QED
        BY <4>2, <4>3, <1>c
    <3>2. CASE c # "email"
      <4>1. Finish(Merged(flags))
        BY <3>2, <1>15 DEF Notify
      <4>2. QED
        BY <4>1, <2>1, <1>b, MergedType, FinishType DEF Ledger, TheRun
    <3>3. QED
      BY <3>1, <3>2
  <2>5. QED
    BY <2>2, <2>3, <2>4, <1>15, <1>a, <1>d, <1>e, <1>g DEF Notify
<1>16. ASSUME NEW c \in Channels, Toggle(c) PROVE TypeOK'
  <2>1. Env
    BY <1>16 DEF Toggle, TypeOK, Env, envVars
  <2>2. Faults
    BY <1>16, <1>i, <1>j DEF Toggle, Faults, faults
  <2>3. QED
    BY <2>1, <2>2, <1>16, <1>a, <1>c, <1>d, <1>g, <1>h DEF Toggle
<1>17. CASE Crash
  <2>1. Queue
    BY <1>17, <1>i DEF Crash, Queue
  <2>2. Faults
    BY <1>17, <1>i, <1>j DEF Crash, Faults, faults
  <2>3. TheRun
    BY <1>17, NoRunType DEF Crash, TheRun
  <2>4. QED
    BY <2>1, <2>2, <2>3, <1>17, <1>a, <1>c, <1>e, <1>g DEF Crash
<1>18. QED
  BY <1>1, <1>2, <1>3, <1>4, <1>5, <1>6, <1>7, <1>8, <1>9, <1>11, <1>12, <1>13, <1>14,
     <1>15, <1>16, <1>17 DEF Next, RunStep

-----------------------------------------------------------------------------
\* A step of the run either goes on, knowing as much or more, or ends it with a
\* map that has all the run knows and the other entries as they were.
Continues ==
    /\ run'.stage # "none" /\ run'.day = run.day /\ run'.slot = run.slot
    /\ run.flags \subseteq run'.flags
    /\ UNCHANGED <<recorded, notified>>

EndsWith(map) ==
    /\ Finish(map)
    /\ OfToday => run.flags \subseteq map[run.slot]
    /\ \A k \in Keys : k # run.slot => map[k] = notified[k]

Ends == \E map \in [Keys -> SUBSET Channels] : EndsWith(map)

LEMMA MergedEnds ==
    ASSUME TypeOK, NEW flags \in SUBSET Channels, run.flags \subseteq flags,
           Finish(Merged(flags))
    PROVE  Ends
BY MergedType DEF Ends, EndsWith

LEMMA RunStepShape ==
    ASSUME IInv, RunStep
    PROVE  run.stage # "none" /\ UNCHANGED <<day, clock, on, envVars>> /\ (Continues \/ Ends)
<1>a. TypeOK /\ run \in Runs
  BY DEF IInv, TypeOK, Runs
<1>b. run.flags \in SUBSET Channels /\ Channels \in SUBSET Channels
  BY <1>a DEF Runs
<1>1. CASE SessionSettled
  <2>1. Ends
    BY <1>1, <1>a, <1>b, MergedEnds DEF SessionSettled
  <2>2. QED
    BY <2>1, <1>1 DEF SessionSettled
<1>2. CASE SessionResolved
  <2>1. Continues
    BY <1>2, <1>a DEF SessionResolved, Continues, Runs
  <2>2. QED
    BY <2>1, <1>2 DEF SessionResolved
<1>3. CASE HolidayEnds
  <2>1. Ends
    BY <1>3, <1>a, <1>b, MergedEnds DEF HolidayEnds, FinishHoliday
  <2>2. QED
    BY <2>1, <1>3 DEF HolidayEnds
<1>4. ASSUME NEW missing \in BOOLEAN, QuotesGathered(missing)
      PROVE  /\ run.stage # "none" /\ UNCHANGED <<day, clock, on, envVars>>
             /\ Continues \/ Ends
  <2>1. CASE missing
    <3>1. Ends
      BY <2>1, <1>4, <1>a, <1>b, MergedEnds DEF QuotesGathered, FinishHoliday
    <3>2. QED
      BY <3>1, <1>4 DEF QuotesGathered
  <2>2. CASE ~missing
    <3>1. Continues
      BY <2>2, <1>4, <1>a DEF QuotesGathered, Continues, Runs
    <3>2. QED
      BY <3>1, <1>4 DEF QuotesGathered
  <2>3. QED
    BY <2>1, <2>2
<1>5. CASE AgentFails
  <2>1. OfToday => run.flags = notified[run.slot]
    BY <1>5 DEF AgentFails, IInv, FlagsMatchLedger, Channels
  <2>2. notified \in [Keys -> SUBSET Channels]
    BY <1>a DEF TypeOK
  <2>3. Ends
    BY <2>1, <2>2, <1>5 DEF AgentFails, Ends, EndsWith
  <2>4. QED
    BY <2>3, <1>5 DEF AgentFails
<1>6. ASSUME NEW outcome \in Briefings, AgentAnswers(outcome)
      PROVE  /\ run.stage # "none" /\ UNCHANGED <<day, clock, on, envVars>>
             /\ Continues \/ Ends
  <2>1. CASE outcome = "good" /\ run.slot # 0 /\ run.flags # Channels
    <3>1. Continues
      BY <2>1, <1>6, <1>a DEF AgentAnswers, Continues, Runs
    <3>2. QED
      BY <3>1, <1>6 DEF AgentAnswers
  <2>2. CASE ~(outcome = "good" /\ run.slot # 0 /\ run.flags # Channels)
    <3> DEFINE flags == IF outcome = "blank" /\ run.slot # 0 THEN Channels ELSE run.flags
    <3>1. flags \in SUBSET Channels /\ run.flags \subseteq flags
      BY <1>b
    <3>2. Finish(Merged(flags))
      BY <2>2, <1>6 DEF AgentAnswers
    <3>3. Ends
      BY <3>1, <3>2, <1>a, MergedEnds
    <3>4. QED
      BY <3>3, <1>6 DEF AgentAnswers
  <2>3. QED
    BY <2>1, <2>2
<1>7. ASSUME NEW delivered \in BOOLEAN, NEW reported \in BOOLEAN, Notify(delivered, reported)
      PROVE  /\ run.stage # "none" /\ UNCHANGED <<day, clock, on, envVars>>
             /\ Continues \/ Ends
  <2> DEFINE c == run.stage
             idle == c \in run.flags \/ c \notin on
             flags == IF idle \/ reported THEN run.flags \cup {c} ELSE run.flags
  <2>1. c \in Channels /\ c # "none"
    BY <1>7 DEF Notify, Channels
  <2>2. flags \in SUBSET Channels /\ run.flags \subseteq flags
    BY <2>1, <1>b
  <2>3. CASE c = "email"
    <3>1. run' = [run EXCEPT !.stage = "imessage", !.flags = flags]
      BY <2>3, <1>7 DEF Notify
    <3>2. UNCHANGED <<recorded, notified>>
      BY <2>3, <1>7 DEF Notify
    <3>3. Continues
      BY <3>1, <3>2, <2>2, <1>a DEF Continues, Runs
    <3>4. QED
      BY <3>3, <2>1, <1>7 DEF Notify
  <2>4. CASE c # "email"
    <3>1. Finish(Merged(flags))
      BY <2>4, <1>7 DEF Notify
    <3>2. Ends
      BY <3>1, <2>2, <1>a, MergedEnds
    <3>3. QED
      BY <3>2, <2>1, <1>7 DEF Notify
  <2>5. QED
    BY <2>3, <2>4
<1>8. QED
  BY <1>1, <1>2, <1>3, <1>4, <1>5, <1>6, <1>7 DEF RunStep

\* What is on record, or will be, and the ledger itself only grow in a run.
LEMMA RunStepGrows ==
    ASSUME IInv, RunStep, NEW k \in Keys
    PROVE  /\ Held(k) \subseteq Held(k)'
           /\ notified[k] \subseteq notified'[k]
           /\ recorded => recorded'
<1>1. run.stage # "none" /\ day' = day
  BY RunStepShape
<1>2. OfToday => notified[run.slot] \subseteq run.flags
  BY DEF IInv, FlagsMatchLedger
<1>3. CASE Continues
  BY <1>1, <1>3 DEF Continues, Held, OfToday
<1>4. CASE Ends
  <2>1. PICK map \in [Keys -> SUBSET Channels] : EndsWith(map)
    BY <1>4 DEF Ends
  <2>2. OfToday' = FALSE
    BY <2>1 DEF EndsWith, Finish, NoRun, OfToday
  <2>3. CASE OfToday
    <3>1. notified' = map /\ recorded' = TRUE
      BY <2>1, <2>3 DEF EndsWith, Finish, OfToday
    <3>2. QED
      BY <3>1, <2>1, <2>2, <2>3, <1>2 DEF EndsWith, Held
  <2>4. CASE ~OfToday
    <3>1. notified' = notified /\ recorded' = recorded
      BY <2>1, <2>4, <1>1 DEF EndsWith, Finish, OfToday
    <3>2. QED
      BY <3>1, <2>2, <2>4 DEF Held
  <2>5. QED
    BY <2>3, <2>4
<1>5. QED
  BY <1>3, <1>4, RunStepShape

-----------------------------------------------------------------------------
LEMMA RoleUnchanged ==
    ASSUME UNCHANGED envVars PROVE \A slot : RoleOf(slot)' = RoleOf(slot)
BY DEF envVars, RoleOf

\* A run that starts knows what the ledger and the file say.
LEMMA StartKnows ==
    ASSUME IInv, NEW slot \in Keys, NEW scheduled \in BOOLEAN, run = NoRun,
           Begin(slot, scheduled),
           UNCHANGED <<day, envVars, files, notified, sent, crashes, doubts>>
    PROVE  (RunStarted /\ FlagsMatchLedger /\ PrevIsCurrent /\ SentWithinRecord)'
<1>1. /\ run'.stage = "session" /\ run'.day = day /\ run'.slot = slot
      /\ run'.flags = notified[slot] /\ run'.prev = files[RoleOf(slot)]
  BY BeginType DEF IInv
<1>2. RoleOf(slot)' = RoleOf(slot)
  BY RoleUnchanged
<1>3. (RunStarted /\ FlagsMatchLedger /\ PrevIsCurrent)'
  <2>1. day \in Nat
    BY DEF IInv, TypeOK, Days
  <2>2. QED
    BY <1>1, <1>2, <2>1 DEF RunStarted, FlagsMatchLedger, PrevIsCurrent, OfToday, Channels
<1>4. \A k \in Keys : Held(k)' = Held(k)
  BY <1>1, NoRunType DEF Held, OfToday
<1>5. SentWithinRecord'
  BY <1>4 DEF IInv, SentWithinRecord
<1>6. QED
  BY <1>3, <1>5

\* What a run knows of the ledger and of its file stays true.
LEMMA KnowledgeStep ==
    IInv /\ [Next]_vars => (RunStarted /\ FlagsMatchLedger /\ PrevIsCurrent)'
<1> DEFINE Known == RunStarted /\ FlagsMatchLedger /\ PrevIsCurrent
<1> SUFFICES ASSUME IInv, [Next]_vars PROVE Known'
  OBVIOUS
<1>a. TypeOK /\ Known /\ run \in Runs /\ day \in Nat /\ run.day \in Nat
  BY DEF IInv, TypeOK, Runs, Days
<1>b. NoRun.stage = "none"
  BY NoRunType
<1>1. ASSUME UNCHANGED <<day, envVars, files, notified, run>> PROVE Known'
  BY <1>1, <1>a, RoleUnchanged
  DEF RunStarted, FlagsMatchLedger, PrevIsCurrent, OfToday
<1>2. ASSUME run' = NoRun PROVE Known'
  BY <1>2, <1>b DEF RunStarted, FlagsMatchLedger, PrevIsCurrent, OfToday
<1>3. CASE UNCHANGED vars
  BY <1>3, <1>1 DEF vars
<1>4. ASSUME NEW fires \in BOOLEAN, SlotTime(fires) PROVE Known'
  BY <1>4, <1>1 DEF SlotTime
<1>5. CASE Midnight
  <2>1. day' = day + 1 /\ UNCHANGED <<envVars, files, run>>
    BY <1>5 DEF Midnight
  <2>2. ~OfToday'
    BY <2>1, <1>a DEF OfToday, RunStarted
  <2>3. RunStarted' /\ FlagsMatchLedger'
    BY <2>1, <2>2, <1>a DEF RunStarted, FlagsMatchLedger
  <2>4. PrevIsCurrent'
    BY <2>1, <1>a, RoleUnchanged DEF PrevIsCurrent
  <2>5. QED
    BY <2>3, <2>4
<1>6. CASE QueuedStarts
  <2>1. queued \in Keys
    BY <1>a DEF TypeOK
  <2>2. QED
    BY <1>6, <2>1, StartKnows DEF QueuedStarts, bounds
<1>7. CASE QueuedGivesUp
  BY <1>7, <1>1 DEF QueuedGivesUp
<1>8. CASE ManualStarts
  <2>1. clock \in Keys
    BY <1>a DEF TypeOK
  <2>2. QED
    BY <1>8, <2>1, StartKnows DEF ManualStarts, LatestPastSlot, bounds
<1>9. CASE CatchUp
  BY <1>9, <1>1 DEF CatchUp
<1>10. ASSUME NEW c \in Channels, Toggle(c) PROVE Known'
  BY <1>10, <1>1 DEF Toggle
<1>11. CASE Crash
  BY <1>11, <1>2 DEF Crash
<1>12. CASE SessionSettled
  BY <1>12, <1>2 DEF SessionSettled, Finish
<1>13. ASSUME NEW next \in {"indices", "quotes", "agent"},
              run.stage \notin {"none"} \cup Channels,
              run' = [run EXCEPT !.stage = next],
              UNCHANGED <<day, envVars, files, notified>>
       PROVE  Known'
  <2>1. /\ run'.stage = next /\ run'.day = run.day /\ run'.slot = run.slot
        /\ run'.prev = run.prev /\ run'.flags = run.flags
    BY <1>13, <1>a DEF Runs
  <2>2. RoleOf(run.slot)' = RoleOf(run.slot)
    BY <1>13, <2>1 DEF RoleOf, envVars
  <2>3. QED
    BY <2>1, <2>2, <1>13, <1>a
    DEF RunStarted, FlagsMatchLedger, PrevIsCurrent, OfToday, Channels
<1>14. CASE SessionResolved
  <2>1. PICK next \in {"indices", "quotes"} : run' = [run EXCEPT !.stage = next]
    BY <1>14 DEF SessionResolved
  <2>2. QED
    BY <2>1, <1>14, <1>13 DEF SessionResolved, Channels
<1>15. CASE HolidayEnds
  BY <1>15, <1>2 DEF HolidayEnds, FinishHoliday, Finish
<1>16. ASSUME NEW missing \in BOOLEAN, QuotesGathered(missing) PROVE Known'
  <2>1. CASE missing
    BY <2>1, <1>16, <1>2 DEF QuotesGathered, FinishHoliday, Finish
  <2>2. CASE ~missing
    BY <2>2, <1>16, <1>13 DEF QuotesGathered, Channels
  <2>3. QED
    BY <2>1, <2>2
<1>17. CASE AgentFails
  BY <1>17, <1>2 DEF AgentFails, Finish
<1>18. ASSUME NEW outcome \in Briefings, AgentAnswers(outcome) PROVE Known'
  <2>1. CASE outcome = "good" /\ run.slot # 0 /\ run.flags # Channels
    <3>1. run' = [run EXCEPT !.stage = "email"] /\ UNCHANGED <<day, notified>>
      BY <2>1, <1>18 DEF AgentAnswers
    <3>2. run'.stage = "email" /\ run'.day = run.day /\ run'.slot = run.slot
          /\ run'.flags = run.flags
      BY <3>1, <1>a DEF Runs
    <3>3. run.stage = "agent"
      BY <1>18 DEF AgentAnswers
    <3>4. QED
      BY <3>1, <3>2, <3>3, <1>a
      DEF RunStarted, FlagsMatchLedger, PrevIsCurrent, OfToday, Channels
  <2>2. CASE ~(outcome = "good" /\ run.slot # 0 /\ run.flags # Channels)
    BY <2>2, <1>18, <1>2 DEF AgentAnswers, Finish
  <2>3. QED
    BY <2>1, <2>2
<1>19. ASSUME NEW delivered \in BOOLEAN, NEW reported \in BOOLEAN,
              Notify(delivered, reported)
       PROVE  Known'
  <2>1. CASE run.stage = "email"
    <3>1. /\ run.flags \subseteq run'.flags /\ run'.stage = "imessage"
          /\ run'.day = run.day /\ run'.slot = run.slot
          /\ UNCHANGED <<day, notified>>
      BY <2>1, <1>19, <1>a DEF Notify, Runs
    <3>2. QED
      BY <3>1, <2>1, <1>a
      DEF RunStarted, FlagsMatchLedger, PrevIsCurrent, OfToday, Channels
  <2>2. CASE run.stage # "email"
    BY <2>2, <1>19, <1>2 DEF Notify, Finish
  <2>3. QED
    BY <2>1, <2>2
<1>20. QED
  BY <1>3, <1>4, <1>5, <1>6, <1>7, <1>8, <1>9, <1>10, <1>11, <1>12, <1>14, <1>15, <1>16,
     <1>17, <1>18, <1>19 DEF Next, RunStep

-----------------------------------------------------------------------------
\* While nothing is sent, no channel comes to have more than its record allows.
LEMMA NothingMoreSent ==
    ASSUME IInv, UNCHANGED <<sent, crashes, doubts>>,
           \A k \in Keys : Held(k) \subseteq Held(k)'
    PROVE  SentWithinRecord'
<1> SUFFICES ASSUME NEW k \in Keys, NEW c \in Channels
             PROVE  sent[k][c] <= crashes + doubts + (IF c \in Held(k)' THEN 1 ELSE 0)
  BY DEF SentWithinRecord
<1>1. sent[k][c] \in Nat /\ crashes \in Nat /\ doubts \in Nat
  BY DEF IInv, TypeOK
<1>2. sent[k][c] <= crashes + doubts + (IF c \in Held(k) THEN 1 ELSE 0)
  BY DEF IInv, SentWithinRecord
<1>3. c \in Held(k) => c \in Held(k)'
  OBVIOUS
<1>4. QED
  BY <1>1, <1>2, <1>3

(***************************************************************************)
(* A message goes only to a channel that the run does not hold; afterwards *)
(* either the run holds it, and its record will, or a doubt is counted.    *)
(***************************************************************************)
LEMMA NotifySends ==
    ASSUME IInv, NEW delivered \in BOOLEAN, NEW reported \in BOOLEAN,
           Notify(delivered, reported)
    PROVE  SentWithinRecord'
<1> DEFINE d == run.stage
           idle == d \in run.flags \/ d \notin on
           flags == IF idle \/ reported THEN run.flags \cup {d} ELSE run.flags
<1>a. RunStep
  BY DEF RunStep
<1>b. \A k \in Keys : Held(k) \subseteq Held(k)'
  BY <1>a, RunStepGrows
<1>c. d \in Channels /\ d # "none" /\ run \in Runs /\ run.slot \in Keys
  BY DEF Notify, Channels, IInv, TypeOK, Runs
<1>1. SUFFICES ASSUME NEW k \in Keys, NEW c \in Channels
               PROVE  sent'[k][c] <= crashes' + doubts' + (IF c \in Held(k)' THEN 1 ELSE 0)
  BY DEF SentWithinRecord
<1>2. sent[k][c] \in Nat /\ crashes \in Nat /\ doubts \in Nat
  BY DEF IInv, TypeOK
<1>3. sent[k][c] <= crashes + doubts + (IF c \in Held(k) THEN 1 ELSE 0)
  BY DEF IInv, SentWithinRecord
<1>4. /\ crashes' = crashes
      /\ doubts' = (IF delivered /\ ~reported THEN doubts + 1 ELSE doubts)
  BY DEF Notify
<1>5. c \in Held(k) => c \in Held(k)'
  BY <1>b
<1>6. CASE delivered /\ run.day = day /\ k = run.slot /\ c = d
  <2>1. sent'[k][c] = sent[k][c] + 1
    <3>1. sent' = [sent EXCEPT ![run.slot][d] = @ + 1]
      BY <1>6 DEF Notify
    <3>2. sent \in [Keys -> [Channels -> Nat]]
      BY DEF IInv, TypeOK
    <3>3. QED
      BY <3>1, <3>2, <1>6, <1>c
  <2>2. c \notin Held(k)
    <3>1. c \notin run.flags
      BY <1>6 DEF Notify
    <3>2. QED
      BY <3>1, <1>6, <1>c DEF Held, OfToday
  <2>3. sent[k][c] <= crashes + doubts
    BY <2>2, <1>2, <1>3
  <2>4. CASE ~reported
    BY <2>1, <2>3, <2>4, <1>2, <1>4, <1>6
  <2>5. CASE reported
    <3>1. c \in Held(k)'
      <4>1. CASE d = "email"
        <5>1. run' = [run EXCEPT !.stage = "imessage", !.flags = run.flags \cup {d}]
              /\ day' = day
          BY <4>1, <2>5 DEF Notify
        <5>2. run'.stage = "imessage" /\ run'.day = run.day /\ run'.slot = run.slot
              /\ c \in run'.flags
          BY <5>1, <1>6, <1>c DEF Runs
        <5>3. QED
          BY <5>1, <5>2, <1>6 DEF Held, OfToday
      <4>2. CASE d # "email"
        <5>1. Finish(Merged(run.flags \cup {d})) /\ day' = day
          BY <4>2, <2>5 DEF Notify
        <5>2. notified' = Merged(run.flags \cup {d}) /\ run' = NoRun
          BY <5>1, <1>6 DEF Finish
        <5>3. run.flags \cup {d} \in SUBSET Channels
          BY <1>c DEF Runs
        <5>4. notified'[k] = run.flags \cup {d}
          BY <5>2, <5>3, <1>6, MergedType DEF IInv
        <5>5. ~OfToday'
          BY <5>2, NoRunType DEF OfToday
        <5>6. QED
          BY <5>4, <5>5, <1>6 DEF Held
      <4>3. QED
        BY <4>1, <4>2
    <3>2. QED
      BY <3>1, <2>1, <2>3, <2>5, <1>2, <1>4
  <2>6. QED
    BY <2>4, <2>5
<1>7. CASE ~(delivered /\ run.day = day /\ k = run.slot /\ c = d)
  <2>1. sent'[k][c] = sent[k][c]
    <3>1. sent' = (IF delivered /\ run.day = day
                   THEN [sent EXCEPT ![run.slot][d] = @ + 1] ELSE sent)
      BY DEF Notify
    <3>2. sent \in [Keys -> [Channels -> Nat]]
      BY DEF IInv, TypeOK
    <3>3. QED
      BY <3>1, <3>2, <1>7, <1>c
  <2>2. doubts' \in Nat /\ doubts' >= doubts
    BY <1>2, <1>4
  <2>3. QED
    BY <2>1, <2>2, <1>2, <1>3, <1>4, <1>5
<1>8. QED
  BY <1>6, <1>7

LEMMA SentStep == IInv /\ [Next]_vars => SentWithinRecord'
<1> SUFFICES ASSUME IInv, [Next]_vars PROVE SentWithinRecord'
  OBVIOUS
<1>1. ASSUME UNCHANGED <<day, notified, run, sent, crashes, doubts>>
      PROVE  SentWithinRecord'
  BY <1>1, NothingMoreSent DEF Held, OfToday
<1>2. CASE UNCHANGED vars
  BY <1>2, <1>1 DEF vars, bounds
<1>3. ASSUME NEW fires \in BOOLEAN, SlotTime(fires) PROVE SentWithinRecord'
  BY <1>3, <1>1 DEF SlotTime, bounds
<1>4. CASE Midnight
  <2>1. sent' = NothingSent /\ crashes' = crashes /\ doubts' = doubts
    BY <1>4 DEF Midnight, bounds
  <2>2. crashes \in Nat /\ doubts \in Nat
    BY DEF IInv, TypeOK
  <2>3. QED
    BY <2>1, <2>2 DEF SentWithinRecord, NothingSent
<1>5. CASE QueuedStarts
  BY <1>5, StartKnows DEF QueuedStarts, bounds, IInv, TypeOK
<1>6. CASE QueuedGivesUp
  BY <1>6, <1>1 DEF QueuedGivesUp, bounds
<1>7. CASE ManualStarts
  BY <1>7, StartKnows DEF ManualStarts, LatestPastSlot, bounds, IInv, TypeOK
<1>8. CASE CatchUp
  BY <1>8, <1>1 DEF CatchUp, bounds
<1>9. ASSUME NEW c \in Channels, Toggle(c) PROVE SentWithinRecord'
  BY <1>9, <1>1 DEF Toggle
<1>10. CASE Crash
  <2>1. /\ run' = NoRun /\ crashes' = crashes + 1
        /\ UNCHANGED <<day, notified, sent, doubts>>
    BY <1>10 DEF Crash
  <2>2. SUFFICES ASSUME NEW k \in Keys, NEW c \in Channels
                 PROVE  sent[k][c] <= crashes + 1 + doubts
                                      + (IF c \in Held(k)' THEN 1 ELSE 0)
    BY <2>1 DEF SentWithinRecord
  <2>3. sent[k][c] \in Nat /\ crashes \in Nat /\ doubts \in Nat
    BY DEF IInv, TypeOK
  <2>4. sent[k][c] <= crashes + doubts + 1
    BY <2>3 DEF IInv, SentWithinRecord
  <2>5. QED
    BY <2>3, <2>4
<1>11. ASSUME RunStep, UNCHANGED <<sent, crashes, doubts>> PROVE SentWithinRecord'
  BY <1>11, RunStepGrows, NothingMoreSent
<1>12. CASE RunStep
  <2>1. ASSUME NEW delivered \in BOOLEAN, NEW reported \in BOOLEAN,
               Notify(delivered, reported)
        PROVE  SentWithinRecord'
    BY <2>1, NotifySends
  <2>2. CASE SessionSettled \/ SessionResolved \/ HolidayEnds \/ AgentFails
    BY <2>2, <1>11, <1>12
    DEF SessionSettled, SessionResolved, HolidayEnds, AgentFails, bounds
  <2>3. ASSUME NEW missing \in BOOLEAN, QuotesGathered(missing) PROVE SentWithinRecord'
    BY <2>3, <1>11, <1>12 DEF QuotesGathered, bounds
  <2>4. ASSUME NEW outcome \in Briefings, AgentAnswers(outcome) PROVE SentWithinRecord'
    BY <2>4, <1>11, <1>12 DEF AgentAnswers, bounds
  <2>5. QED
    BY <2>1, <2>2, <2>3, <2>4, <1>12 DEF RunStep
<1>13. QED
  BY <1>2, <1>3, <1>4, <1>5, <1>6, <1>7, <1>8, <1>9, <1>10, <1>12 DEF Next

-----------------------------------------------------------------------------
LEMMA Invariance == Spec => []IInv
<1>1. IInv /\ [Next]_vars => IInv'
  BY TypeStep, KnowledgeStep, SentStep DEF IInv
<1>2. QED
  BY InitInvariant, <1>1, PTL DEF Spec

\* Every variable keeps its type, and the faults their bound.
THEOREM TypeCorrect == Spec => []TypeOK
<1>1. IInv => TypeOK
  BY DEF IInv
<1>2. QED
  BY <1>1, Invariance, PTL

(***************************************************************************)
(* Once for every channel and slot, and once more for each crash and each  *)
(* message that arrived although its sender reported an error.             *)
(***************************************************************************)
THEOREM BriefingSentOnce == Spec => []SentOnce
<1>1. IInv => SentOnce
  <2> SUFFICES ASSUME IInv, NEW k \in Keys, NEW c \in Channels
               PROVE  sent[k][c] <= 1 + crashes + doubts
    BY DEF SentOnce
  <2>1. sent[k][c] \in Nat /\ crashes \in Nat /\ doubts \in Nat
    BY DEF IInv, TypeOK
  <2>2. sent[k][c] <= crashes + doubts + (IF c \in Held(k) THEN 1 ELSE 0)
    BY DEF IInv, SentWithinRecord
  <2>3. QED
    BY <2>1, <2>2
<1>2. QED
  BY <1>1, Invariance, PTL

\* Nothing that was recorded today is forgotten before the day is over.
THEOREM LedgerNeverForgets == Spec => LedgerOnlyGrows
<1> DEFINE Grows == day' = day => /\ recorded => recorded'
                                  /\ \A k \in Keys : notified[k] \subseteq notified'[k]
<1>1. IInv /\ [Next]_vars => [Grows]_vars
  <2> SUFFICES ASSUME IInv, [Next]_vars PROVE Grows
    OBVIOUS
  <2>1. CASE RunStep
    <3>1. 0 \in Keys
      BY StockAssumption DEF Keys
    <3>2. QED
      BY <2>1, <3>1, RunStepGrows
  <2>2. CASE Midnight
    <3>1. day \in Nat
      BY DEF IInv, TypeOK, Days
    <3>2. day' = day + 1
      BY <2>2 DEF Midnight
    <3>3. QED
      BY <3>1, <3>2
  <2>3. ASSUME UNCHANGED <<recorded, notified>> PROVE Grows
    BY <2>3
  <2>4. CASE UNCHANGED vars
    BY <2>4, <2>3 DEF vars
  <2>5. ASSUME NEW fires \in BOOLEAN, SlotTime(fires) PROVE Grows
    BY <2>5, <2>3 DEF SlotTime
  <2>6. CASE QueuedStarts \/ QueuedGivesUp \/ ManualStarts \/ CatchUp \/ Crash
    BY <2>6, <2>3 DEF QueuedStarts, QueuedGivesUp, ManualStarts, CatchUp, Crash
  <2>7. ASSUME NEW c \in Channels, Toggle(c) PROVE Grows
    BY <2>7, <2>3 DEF Toggle
  <2>8. QED
    BY <2>1, <2>2, <2>4, <2>5, <2>6, <2>7 DEF Next
<1>2. QED
  BY <1>1, Invariance, PTL DEF Spec, LedgerOnlyGrows

(***************************************************************************)
(* What protects a good briefing is read when the run begins and used when *)
(* it ends: it is the file of then because no other run comes in between.  *)
(***************************************************************************)
THEOREM BriefingNeverLost == Spec => GoodBriefingKept
<1> DEFINE Kept == \A r \in Roles : files[r].source = "llm" =>
                       \/ files'[r].source = "llm"
                       \/ r = "both" /\ files'[r].source = "holiday"
<1>1. IInv /\ [Next]_vars => [Kept]_vars
  <2> SUFFICES ASSUME IInv, [Next]_vars PROVE Kept
    OBVIOUS
  <2>1. ASSUME UNCHANGED files PROVE Kept
    BY <2>1
  <2>2. ASSUME NEW source \in Sources, NEW role \in Roles,
               files' = [files EXCEPT ![role] = Snapshot(source)],
               \/ source = "llm"
               \/ files[role].source # "llm"
               \/ role = "both" /\ source = "holiday"
        PROVE  Kept
    <3>1. files \in [Roles -> Snapshots] /\ Snapshot(source).source = source
      BY DEF IInv, TypeOK, Snapshot
    <3>2. QED
      BY <2>2, <3>1
  <2>3. ASSUME FinishHoliday PROVE Kept
    BY <2>3, <2>2 DEF FinishHoliday, HolidayFile, Sources, Roles
  <2>4. CASE UNCHANGED vars
    BY <2>4, <2>1 DEF vars
  <2>5. CASE Midnight \/ QueuedStarts \/ QueuedGivesUp \/ ManualStarts \/ CatchUp \/ Crash
    BY <2>5, <2>1 DEF Midnight, QueuedStarts, QueuedGivesUp, ManualStarts, CatchUp, Crash
  <2>6. CASE \/ \E fires \in BOOLEAN : SlotTime(fires)
             \/ \E c \in Channels : Toggle(c)
             \/ \E delivered, reported \in BOOLEAN : Notify(delivered, reported)
    BY <2>6, <2>1 DEF SlotTime, Toggle, Notify
  <2>7. CASE SessionSettled \/ SessionResolved
    BY <2>7, <2>1 DEF SessionSettled, SessionResolved
  <2>8. CASE HolidayEnds
    BY <2>8, <2>3 DEF HolidayEnds
  <2>9. ASSUME NEW missing \in BOOLEAN, QuotesGathered(missing) PROVE Kept
    BY <2>9, <2>1, <2>3 DEF QuotesGathered
  <2>10. CASE AgentFails
    <3>1. run.prev = files[RoleOf(run.slot)]
      BY <2>10 DEF AgentFails, IInv, PrevIsCurrent, Channels
    <3>2. CASE run.prev.source = "llm"
      BY <3>2, <2>10, <2>1 DEF AgentFails
    <3>3. CASE run.prev.source # "llm"
      <4>1. files' = [files EXCEPT ![RoleOf(run.slot)] = Snapshot("empty")]
        BY <3>3, <2>10 DEF AgentFails
      <4>2. RoleOf(run.slot) \in Roles /\ "empty" \in Sources
        BY RoleType DEF Sources
      <4>3. QED
        BY <4>1, <4>2, <3>1, <3>3, <2>2
    <3>4. QED
      BY <3>2, <3>3
  <2>11. ASSUME NEW outcome \in Briefings, AgentAnswers(outcome) PROVE Kept
    BY <2>11, <2>2, RoleType DEF AgentAnswers, Sources
  <2>12. QED
    BY <2>4, <2>5, <2>6, <2>7, <2>8, <2>9, <2>10, <2>11 DEF Next, RunStep
<1>2. QED
  BY <1>1, Invariance, PTL DEF Spec, GoodBriefingKept

\* Catch-up leaves a handled slot alone, but for a snapshot made ahead of the slot: only
\* checkStockCatchup asks for a slot within a stretch of time, and it asks for none that is
\* handled (slotNeedsCatchup of src/src/scheduler/scheduler.ts).
THEOREM HandledIsLeftAlone == Spec => HandledStaysQuiet
<1>1. ASSUME [Next]_vars, clock' = clock, queued' # queued, queued' # 0
      PROVE  ~Handled(queued') \/ SnapshotForSlot(queued').early
  <2>1. CASE CatchUp
    <3>1. PICK slot \in Slots : NeedsCatchup(slot) /\ queued' = slot
      BY <2>1 DEF CatchUp
    <3>2. ~Handled(slot) \/ SnapshotForSlot(slot).early
      BY <3>1 DEF NeedsCatchup, LedgerIsOpen, Handled
    <3>3. QED
      BY <3>1, <3>2
  <2>2. CASE \E fires \in BOOLEAN : SlotTime(fires)
    <3>1. clock' = clock + 1
      BY <2>2 DEF SlotTime
    <3>2. QED
      BY <3>1, <1>1
  <2>3. QED
    BY <1>1, <2>1, <2>2 DEF Next, vars, Midnight, QueuedStarts, QueuedGivesUp, ManualStarts, RunStep,
       SessionSettled, SessionResolved, HolidayEnds, QuotesGathered, AgentFails, AgentAnswers,
       Notify, Toggle, Crash
<1>2. QED
  BY <1>1, PTL DEF Spec, HandledStaysQuiet

-----------------------------------------------------------------------------
(***************************************************************************)
(* The making of a briefing (StockCuration).  BriefingIsGrounded speaks of *)
(* a briefing that is complete: while stocks to watch are looked up, what  *)
(* is written already must stand, and what was found must be what the      *)
(* agent named.                                                            *)
(***************************************************************************)

\* What the agent wrote of holdings, stocks and the index stands on what was gathered.
NarrativeGrounded ==
    /\ \A c \in DOMAIN rows :
           /\ c \in DOMAIN brief.positions
           /\ "notes" \in rows[c] => brief.positions[c] # "nothing"
    /\ \A e \in brief.analyses :
           /\ e.company \in DOMAIN quotes /\ e.verified = quotes[e.company]
           /\ {"rationale", "risks"} \subseteq e.reasons
    /\ "outlook" \in brief.index => "rationale" \in brief.index

\* A stock to watch is one that the agent named, with a price from its own market.
WatchlistGrounded ==
    \A e \in brief.watchlist :
        /\ \E w \in told.watchlist : e.company \in {w.symbol.of, w.name}
        /\ e.priced /\ e.market = MarketOf(e.company)

\* A briefing has its fields.
BriefShape ==
    brief = [source |-> brief.source, index |-> brief.index, news |-> brief.news,
             analyses |-> brief.analyses, watchlist |-> brief.watchlist,
             positions |-> brief.positions]

GroundInv ==
    /\ BriefShape
    /\ indexed \subseteq {"card", "value"}
    /\ stage \in {"gather", "prompt", "agent"} => brief.source # "llm"
    /\ brief.source = "llm" => NarrativeGrounded /\ WatchlistGrounded
    /\ stage = "price" => \E w \in told.watchlist : found \subseteq {w.symbol.of, w.name}

LEMMA GroundInit == CurationInit => GroundInv
BY DEF CurationInit, GroundInv, BriefShape, NoBrief

\* The candidate that is picked is what the agent named.
LEMMA PickedIsNamed ==
    ASSUME NEW candidates, NEW w
    PROVE  pickWatchCandidate(candidates, w) \subseteq {w.symbol.of, w.name}
BY DEF pickWatchCandidate

\* The parts of an answer that no step takes on trust.
LEMMA AnswerShape ==
    ASSUME NEW a \in Answers
    PROVE  a = [indices |-> a.indices, news |-> a.news, analyses |-> a.analyses,
                watchlist |-> a.watchlist, positions |-> a.positions]
           /\ a.indices \in Brief(SUBSET {"outlook", "rationale"})
<1>1. {} \in Brief(SUBSET {"outlook", "rationale"})
  BY DEF Brief
<1>2. QED
  BY <1>1 DEF Answers

\* What is stored of an answer is grounded, whatever the answer says.
LEMMA SnapshotGrounded ==
    ASSUME GroundInv, NEW a \in Answers, told' = normalizeCurated(a), brief' = toSnapshot(told'),
           UNCHANGED <<rows, quotes>>
    PROVE  BriefShape' /\ NarrativeGrounded' /\ brief'.watchlist = {}
<1> DEFINE n == normalizeCurated(a)
<1>1. /\ n.indices = {normalizeIndexNarrative(said) : said \in a.indices}
      /\ n.analyses = {e \in a.analyses : Reasoned(e)}
  <2>1. a = [indices |-> a.indices, news |-> a.news, analyses |-> a.analyses,
             watchlist |-> a.watchlist, positions |-> a.positions]
    BY AnswerShape
  <2>2. QED
    BY <2>1 DEF normalizeCurated
<1>2. brief' = [source |-> "llm",
                index |-> indexed \cup IF indexed = {} THEN {} ELSE UNION n.indices,
                news |-> n.news, analyses |-> Analyses(n), watchlist |-> {},
                positions |-> Positions(n)]
  BY DEF toSnapshot
<1> HIDE DEF n
<1>3. BriefShape' /\ brief'.watchlist = {}
  BY <1>2 DEF BriefShape
<1>4. ASSUME NEW c \in DOMAIN rows'
      PROVE  c \in DOMAIN brief'.positions /\ ("notes" \in rows'[c] => brief'.positions[c] # "nothing")
  <2>1. c \in DOMAIN rows /\ brief'.positions = Positions(n)
    BY <1>2, <1>4
  <2>2. QED
    BY <2>1 DEF Positions
<1>5. ASSUME NEW e \in brief'.analyses
      PROVE  /\ e.company \in DOMAIN quotes' /\ e.verified = quotes'[e.company]
             /\ {"rationale", "risks"} \subseteq e.reasons
  <2>1. PICK f \in n.analyses :
          /\ \E c \in DOMAIN quotes : f.symbol = SymbolOf(c)
          /\ e = [company |-> f.symbol.of, reasons |-> f.reasons, verified |-> quotes[f.symbol.of]]
    BY <1>2, <1>5 DEF Analyses
  <2>2. Reasoned(f)
    BY <1>1
  <2>3. f.symbol.of \in DOMAIN quotes
    BY <2>1 DEF SymbolOf
  <2>4. QED
    BY <2>1, <2>2, <2>3 DEF Reasoned
<1>6. "outlook" \in brief'.index => "rationale" \in brief'.index
  <2>1. SUFFICES ASSUME "outlook" \in brief'.index PROVE "rationale" \in UNION n.indices /\ indexed # {}
    BY <1>2
  <2>2. indexed # {} /\ \E I \in n.indices : "outlook" \in I
    BY <1>2, <2>1 DEF GroundInv
  <2>3. PICK said \in a.indices : "outlook" \in normalizeIndexNarrative(said)
    BY <1>1, <2>2
  <2>4. "rationale" \in normalizeIndexNarrative(said)
    BY <2>3 DEF normalizeIndexNarrative
  <2>5. QED
    BY <1>1, <2>2, <2>4
<1>7. QED
  BY <1>3, <1>4, <1>5, <1>6 DEF NarrativeGrounded

LEMMA GroundStep == GroundInv /\ [CurationNext]_curationVars => GroundInv'
<1> SUFFICES ASSUME GroundInv, [CurationNext]_curationVars PROVE GroundInv'
  OBVIOUS
<1>a. ASSUME UNCHANGED brief PROVE BriefShape'
  BY <1>a DEF GroundInv, BriefShape
<1>b. ASSUME UNCHANGED <<brief, rows, quotes, told>>
      PROVE  NarrativeGrounded' = NarrativeGrounded /\ WatchlistGrounded' = WatchlistGrounded
  BY <1>b DEF NarrativeGrounded, WatchlistGrounded, MarketOf
<1>1. CASE Edit \/ UNCHANGED curationVars
  BY <1>1, <1>a, <1>b DEF Edit, curationVars, GroundInv
<1>2. CASE gather \/ buildPositionRows
  BY <1>2, <1>a DEF gather, buildPositionRows, GroundInv
<1>3. CASE CurateFails \/ NextBriefing
  BY <1>3 DEF CurateFails, NextBriefing, NoBrief, BriefShape, GroundInv
<1>4. CASE AgentWrites
  <2>1. PICK a \in Answers : told' = normalizeCurated(a) /\ brief' = toSnapshot(told')
    BY <1>4 DEF AgentWrites
  <2>2. BriefShape' /\ NarrativeGrounded' /\ brief'.watchlist = {}
    BY <1>4, <2>1, SnapshotGrounded DEF AgentWrites
  <2>3. stage' \in {"over", "search"} /\ UNCHANGED indexed
    BY <1>4 DEF AgentWrites
  <2>4. QED
    BY <2>2, <2>3 DEF GroundInv, WatchlistGrounded
<1>5. CASE Search
  <2>1. PICK candidates \in SUBSET Companies, w \in told.watchlist :
          found' = pickWatchCandidate(candidates, w)
    BY <1>5 DEF Search
  <2>2. found' \subseteq {w.symbol.of, w.name} /\ w \in told'.watchlist
    BY <1>5, <2>1, PickedIsNamed DEF Search
  <2>3. stage' \in {"price", "over", "search"} /\ UNCHANGED <<brief, rows, quotes, told, indexed>>
    BY <1>5 DEF Search
  <2>4. QED
    BY <2>2, <2>3, <1>a, <1>b DEF GroundInv
<1>6. CASE PriceOfWatched
  <2>1. PICK price \in BOOLEAN, c \in found :
          brief' = IF price THEN [brief EXCEPT !.watchlist = {Verified(c, price)}] ELSE brief
    BY <1>6 DEF PriceOfWatched
  <2>2. stage = "price" /\ stage' = "over" /\ UNCHANGED <<rows, quotes, told, indexed>>
    BY <1>6 DEF PriceOfWatched
  <2>3. CASE ~price
    BY <2>1, <2>2, <2>3, <1>a, <1>b DEF GroundInv
  <2>4. CASE price
    <3>1. brief' = [brief EXCEPT !.watchlist = {Verified(c, TRUE)}] /\ BriefShape
      BY <2>1, <2>4 DEF GroundInv
    <3>2. brief' = [source |-> brief.source, index |-> brief.index, news |-> brief.news,
                    analyses |-> brief.analyses, watchlist |-> {Verified(c, TRUE)},
                    positions |-> brief.positions]
      BY <3>1 DEF BriefShape
    <3>3. BriefShape' /\ (NarrativeGrounded => NarrativeGrounded')
      BY <2>2, <3>2 DEF BriefShape, NarrativeGrounded
    <3>4. WatchlistGrounded'
      <4>1. \E w \in told.watchlist : c \in {w.symbol.of, w.name}
        BY <2>2 DEF GroundInv
      <4>2. Verified(c, TRUE).company = c /\ Verified(c, TRUE).priced
            /\ Verified(c, TRUE).market = MarketOf(c)
        BY DEF Verified
      <4>3. QED
        BY <2>2, <3>2, <4>1, <4>2 DEF WatchlistGrounded, MarketOf
    <3>5. QED
      BY <2>2, <3>2, <3>3, <3>4 DEF GroundInv
  <2>5. QED
    BY <2>3, <2>4
<1>7. QED
  BY <1>1, <1>2, <1>3, <1>4, <1>5, <1>6 DEF CurationNext

\* Whatever the agent forgets, invents or misspells, and whatever lookup fails, a briefing shows
\* every holding with what the pulses said of it, no verdict without its reasons and its price,
\* and only stocks to watch that the agent named and that have a price (toSnapshot and
\* normalizeCurated of src/src/stock/curate.ts, verifyWatchlist of src/src/stock/stock.ts).
THEOREM BriefingsAreGrounded == CurationSpec => []BriefingIsGrounded
<1>1. GroundInv => BriefingIsGrounded
  BY DEF GroundInv, NarrativeGrounded, WatchlistGrounded, BriefingIsGrounded
<1>2. QED
  BY <1>1, GroundInit, GroundStep, PTL DEF CurationSpec
=============================================================================
