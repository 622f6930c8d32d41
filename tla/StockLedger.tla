---------------------------- MODULE StockLedger ----------------------------
(***************************************************************************)
(* The stock briefings of one market over some days: refreshStock          *)
(* (src/src/stock/stock.ts), its ledger of what was sent (src/src/stock/   *)
(* notify-ledger.ts), the role of a slot (src/src/stock/slot-role.ts), and *)
(* the catch-up that reads ledger and files (checkStockCatchup of          *)
(* src/src/scheduler/scheduler.ts).                                        *)
(*                                                                         *)
(* A slot is a time of day at which a briefing is due, the first being 1;  *)
(* 0 is MANUAL_SLOT, the key of a run that belongs to none.  The row of a  *)
(* day that is over is never read again, so that only today's is modelled. *)
(***************************************************************************)
EXTENDS Naturals

CONSTANTS
    NumSlots,    \* slots of a day
    CloseSlots,  \* those in the band of the close; the others are in the preview's
    MaxDays,     \* bound: days
    MaxFaults    \* bound: crashes, doubtful messages and switched channels together

ASSUME StockAssumption ==
    /\ {NumSlots, MaxDays, MaxFaults} \subseteq Nat
    /\ NumSlots > 0 /\ MaxDays > 0
    /\ CloseSlots \subseteq 1 .. NumSlots

VARIABLES
    day,       \* today
    clock,     \* how many slots of today are past
    open,      \* the days on which the market opens
    on,        \* the channels that are switched on
    split,     \* isRoleSplitActive: close and preview are separate briefings
    files,     \* the snapshot file of each role
    recorded,  \* today's row has a notifiedBySlot
    notified,  \* notifiedBySlot: the channels with nothing left to send
    queued,    \* the slot of the scheduled call that waits for the LLM queue, or 0
    byCron,    \* that call is cron's, not catch-up's
    run,       \* the call of refreshStock in progress
    sent,      \* how often a channel delivered today's briefing of a slot
    crashes,   \* restarts of the process
    doubts,    \* messages that arrived although sending reported an error
    toggles    \* channels switched on or off

envVars == <<open, split>>
bounds == <<crashes, doubts, toggles>>
faults == crashes + doubts + toggles
vars == <<day, clock, on, envVars, files, recorded, notified, queued, byCron, run, sent, bounds>>

Days == 1 .. MaxDays
Slots == 1 .. NumSlots
Keys == 0 .. NumSlots
Channels == {"email", "imessage"}
Roles == {"both", "close", "preview"}

Sources == {"llm", "empty", "holiday", "none"}
NoFile == [day |-> 0, slot |-> 0, source |-> "none", session |-> 0, early |-> FALSE]

\* A briefing may lack all quotes ("outage") or have nothing to tell ("blank").
Briefings == {"good", "outage", "blank"}

\* What a run awaits.
Stages == {"none", "session", "indices", "quotes", "agent"} \cup Channels
NothingNotified == [k \in Keys |-> {}]
NothingSent == [k \in Keys |-> [c \in Channels |-> 0]]

NoRun == [day |-> 1, slot |-> 0, scheduled |-> FALSE, stage |-> "none",
          prev |-> NoFile, last |-> 0, flags |-> {}]

Init ==
    /\ day = 1 /\ clock = 0
    /\ open \in SUBSET Days
    /\ on \in SUBSET Channels
    /\ split \in BOOLEAN
    /\ files = [r \in Roles |-> NoFile]
    /\ recorded = FALSE
    /\ notified = NothingNotified
    /\ queued = 0 /\ byCron = FALSE
    /\ run = NoRun
    /\ sent = NothingSent
    /\ crashes = 0 /\ doubts = 0 /\ toggles = 0

-----------------------------------------------------------------------------
\* stockSlotRole
RoleOf(slot) ==
    IF ~split \/ slot = 0 THEN "both"
    ELSE IF slot \in CloseSlots THEN "close" ELSE "preview"

\* stockRunning: the guard of the scheduler, which manual runs do not set.
StockRunning == queued # 0 \/ run.scheduled

\* lastUsSessionDate: the last session that has closed.  That of yesterday
\* closes before the first slot, at dawn.
IsLastSession(t) ==
    \E before \in IF clock = 0 /\ day > 1 THEN {day - 1, day} ELSE {day} :
        /\ t \in {0} \cup open /\ t < before
        /\ \A u \in open : u < before => u <= t

\* Mutant: what the row of the slot says is not asked for.
AskNothing(slot) == {}

\* slotNotified
AlreadySent(slot) == notified[slot]

\* refreshStock up to its first await.  The row that startStockRun inserts has
\* no map yet and so says nothing.  What the row says of the slot is read when
\* there is something to send, but no other run writes it before; the session
\* is of use for a close only.
Begin(slot, scheduled) ==
    \E last \in 0 .. MaxDays :
        /\ IF RoleOf(slot) = "close" THEN IsLastSession(last) ELSE last = 0
        /\ run' = [day |-> day, slot |-> slot, scheduled |-> scheduled, stage |-> "session",
                   prev |-> files[RoleOf(slot)], last |-> last, flags |-> AlreadySent(slot)]

\* A slot's time comes; cron fires, or the machine sleeps.
SlotTime(fires) ==
    /\ clock < NumSlots
    /\ clock' = clock + 1
    /\ IF fires /\ ~StockRunning
          THEN queued' = clock' /\ byCron' = TRUE
          ELSE UNCHANGED <<queued, byCron>>
    /\ UNCHANGED <<day, on, envVars, files, recorded, notified, run, sent, bounds>>

\* The last slot is hours before midnight (17:00), so that what cron queued has
\* started or given up (after 45 minutes) by then; a catch-up comes at any time.
Midnight ==
    /\ clock = NumSlots /\ day < MaxDays
    /\ ~byCron
    /\ day' = day + 1
    /\ clock' = 0
    /\ recorded' = FALSE
    /\ notified' = NothingNotified
    /\ sent' = NothingSent
    /\ UNCHANGED <<on, envVars, files, queued, byCron, run, bounds>>

\* runLlmJob grants the slot of the queue, or the call gives up waiting.
QueuedStarts ==
    /\ queued # 0 /\ run = NoRun
    /\ Begin(queued, TRUE)
    /\ queued' = 0 /\ byCron' = FALSE
    /\ UNCHANGED <<day, clock, on, envVars, files, recorded, notified, sent, bounds>>

QueuedGivesUp ==
    /\ queued # 0
    /\ queued' = 0 /\ byCron' = FALSE
    /\ UNCHANGED <<day, clock, on, envVars, files, recorded, notified, run, sent, bounds>>

\* resolveSlot of a run without a slot: the latest past slot, or none.
LatestPastSlot == clock

\* A manual request starts at once or is refused.
ManualStarts ==
    /\ queued = 0 /\ run = NoRun
    /\ Begin(LatestPastSlot, FALSE)
    /\ UNCHANGED <<day, clock, on, envVars, files, recorded, notified, queued, byCron, sent, bounds>>

-----------------------------------------------------------------------------
\* snapshotForSlot, which asks the file of the holidays first; slotHandled and
\* slotNeedsCatchup.
Covers(file, slot) == file.day = day /\ file.slot = slot
SnapshotForSlot(slot) ==
    IF Covers(files["both"], slot) THEN files["both"] ELSE files[RoleOf(slot)]
HasSnapshot(slot) == Covers(SnapshotForSlot(slot), slot)
Handled(slot) == recorded /\ notified[slot] = Channels
LedgerIsOpen(slot) == recorded /\ notified[slot] # Channels

\* Mutant: as before the ledger, only the snapshot counts.
NeedsCatchupBySnapshot(slot) == slot <= clock /\ ~HasSnapshot(slot)

\* A slot that is past needs its snapshot, and then an entry in the ledger; a
\* snapshot that is older than the slot does not do.
NeedsCatchup(slot) ==
    /\ slot <= clock
    /\ IF HasSnapshot(slot)
          THEN LedgerIsOpen(slot) \/ SnapshotForSlot(slot).early
          ELSE ~Handled(slot)

\* checkStockCatchup: the first slot that needs it.
CatchUp ==
    /\ ~StockRunning
    /\ \E slot \in Slots :
           /\ NeedsCatchup(slot)
           /\ \A earlier \in Slots : NeedsCatchup(earlier) => slot <= earlier
           /\ queued' = slot
    /\ UNCHANGED <<day, clock, on, envVars, files, recorded, notified, byCron, run, sent, bounds>>

-----------------------------------------------------------------------------
\* mergeNotified(loadNotifiedMap(...), slot, flags)
Merged(flags) == [notified EXCEPT ![run.slot] = flags]

\* finishStockRun: the run ends with the row of its day rewritten.
Finish(map) ==
    /\ IF run.day = day
          THEN recorded' = TRUE /\ notified' = map
          ELSE UNCHANGED <<recorded, notified>>
    /\ run' = NoRun

\* "early": the snapshot is older than its slot, which is still to come.
Snapshot(source) ==
    [day |-> run.day, slot |-> run.slot, source |-> source, session |-> run.last,
     early |-> run.day = day /\ clock < run.slot]

\* Mutant: the snapshot of a holiday goes to the file of the role.
HolidayFileOfRole == RoleOf(run.slot)

\* HOLIDAY_STORAGE_ROLE
HolidayFile == "both"

FinishHoliday ==
    /\ files' = [files EXCEPT ![HolidayFile] = Snapshot("holiday")]
    /\ Finish(Merged(Channels))

\* resolveSession: the session is settled, there is none, or it is due.
Settled ==
    /\ RoleOf(run.slot) = "close"
    /\ run.prev.source = "llm"
    /\ run.prev.session >= run.last

SessionSettled ==
    /\ run.stage = "session" /\ Settled
    /\ Finish(Merged(Channels))
    /\ UNCHANGED <<day, clock, on, envVars, files, queued, byCron, sent, bounds>>

SessionResolved ==
    /\ run.stage = "session" /\ ~Settled
    /\ run' = [run EXCEPT !.stage = IF RoleOf(run.slot) # "close" /\ run.day \notin open
                                    THEN "indices" ELSE "quotes"]
    /\ UNCHANGED <<day, clock, on, envVars, files, recorded, notified, queued, byCron, sent, bounds>>

HolidayEnds ==
    /\ run.stage = "indices"
    /\ FinishHoliday
    /\ UNCHANGED <<day, clock, on, envVars, queued, byCron, sent, bounds>>

\* gather, and markClosedIfNoSession: indices without the expected session.
QuotesGathered(missing) ==
    /\ run.stage = "quotes"
    /\ missing => RoleOf(run.slot) # "preview"
    /\ IF missing
          THEN FinishHoliday
          ELSE /\ run' = [run EXCEPT !.stage = "agent"]
               /\ UNCHANGED <<files, recorded, notified>>
    /\ UNCHANGED <<day, clock, on, envVars, queued, byCron, sent, bounds>>

\* The agent failed: a good briefing of the role stays, an empty one is stored.
AgentFails ==
    /\ run.stage = "agent"
    /\ files' = IF run.prev.source = "llm" THEN files
                ELSE [files EXCEPT ![RoleOf(run.slot)] = Snapshot("empty")]
    /\ Finish(notified)
    /\ UNCHANGED <<day, clock, on, envVars, queued, byCron, sent, bounds>>

\* The agent wrote a briefing: it is stored, and sent when it is good and some
\* channel is left.  One without content is recorded as handled, one without
\* quotes is left open.
AgentAnswers(outcome) ==
    /\ run.stage = "agent"
    /\ files' = [files EXCEPT ![RoleOf(run.slot)] = Snapshot("llm")]
    /\ IF outcome = "good" /\ run.slot # 0 /\ run.flags # Channels
          THEN /\ run' = [run EXCEPT !.stage = "email"]
               /\ UNCHANGED <<recorded, notified>>
          ELSE Finish(Merged(IF outcome = "blank" /\ run.slot # 0 THEN Channels ELSE run.flags))
    /\ UNCHANGED <<day, clock, on, envVars, queued, byCron, sent, bounds>>

\* notifySlotChannels, one channel: what is done is not sent again, what is
\* switched off is done; otherwise the message is delivered or not, and the
\* sender may report a failure although it was.
Notify(delivered, reported) ==
    /\ run.stage \in Channels
    /\ LET c == run.stage
           idle == c \in run.flags \/ c \notin on
           flags == IF idle \/ reported THEN run.flags \cup {c} ELSE run.flags
       IN  /\ idle => ~delivered /\ ~reported
           /\ reported => delivered
           /\ doubts' = IF delivered /\ ~reported THEN doubts + 1 ELSE doubts
           /\ (delivered /\ ~reported) => faults < MaxFaults
           /\ sent' = IF delivered /\ run.day = day
                      THEN [sent EXCEPT ![run.slot][c] = @ + 1]
                      ELSE sent
           /\ IF c = "email"
                 THEN /\ run' = [run EXCEPT !.stage = "imessage", !.flags = flags]
                      /\ UNCHANGED <<recorded, notified>>
                 ELSE Finish(Merged(flags))
    /\ UNCHANGED <<day, clock, on, envVars, files, queued, byCron, crashes, toggles>>

-----------------------------------------------------------------------------
Toggle(c) ==
    /\ faults < MaxFaults
    /\ toggles' = toggles + 1
    /\ on' = IF c \in on THEN on \ {c} ELSE on \cup {c}
    /\ UNCHANGED <<day, clock, envVars, files, recorded, notified, queued, byCron, run, sent, crashes, doubts>>

\* The process dies at any await and is started again.
Crash ==
    /\ faults < MaxFaults
    /\ crashes' = crashes + 1
    /\ queued' = 0 /\ byCron' = FALSE
    /\ run' = NoRun
    /\ UNCHANGED <<day, clock, on, envVars, files, recorded, notified, sent, doubts, toggles>>

\* What the run awaits settles.
RunStep ==
    \/ SessionSettled
    \/ SessionResolved
    \/ HolidayEnds
    \/ \E missing \in BOOLEAN : QuotesGathered(missing)
    \/ AgentFails
    \/ \E outcome \in Briefings : AgentAnswers(outcome)
    \/ \E delivered, reported \in BOOLEAN : Notify(delivered, reported)

Next ==
    \/ \E fires \in BOOLEAN : SlotTime(fires)
    \/ Midnight
    \/ QueuedStarts
    \/ QueuedGivesUp
    \/ ManualStarts
    \/ CatchUp
    \/ RunStep
    \/ \E c \in Channels : Toggle(c)
    \/ Crash

(***************************************************************************)
(* The sweep comes every 30 minutes, and the user does not press "refresh" *)
(* each time just before it; what a run awaits settles, and the queue is   *)
(* not busy for ever.  That the agent writes a good briefing for a slot if *)
(* asked often enough, and that a channel then delivers it, is assumed of  *)
(* them.                                                                   *)
(***************************************************************************)
Fairness ==
    /\ WF_vars(RunStep)
    /\ SF_vars(run = NoRun /\ CatchUp)
    /\ SF_vars(QueuedStarts)
    /\ \A slot \in Slots :
           /\ SF_vars(run.slot = slot /\ AgentAnswers("good"))
           /\ SF_vars(run.slot = slot /\ Notify(TRUE, TRUE))

Spec == Init /\ [][Next]_vars /\ Fairness

-----------------------------------------------------------------------------
Snapshots ==
    [day : 0 .. MaxDays, slot : Keys, source : Sources, session : 0 .. MaxDays,
     early : BOOLEAN]

TypeOK ==
    /\ day \in Days /\ clock \in Keys
    /\ open \subseteq Days /\ on \subseteq Channels /\ split \in BOOLEAN
    /\ files \in [Roles -> Snapshots]
    /\ recorded \in BOOLEAN
    /\ notified \in [Keys -> SUBSET Channels]
    /\ queued \in Keys /\ byCron \in BOOLEAN
    /\ run \in [day : Days, slot : Keys, scheduled : BOOLEAN, stage : Stages,
                prev : Snapshots, last : 0 .. MaxDays, flags : SUBSET Channels]
    /\ run.stage = "none" => run = NoRun
    /\ sent \in [Keys -> [Channels -> Nat]]
    /\ {crashes, doubts, toggles} \subseteq Nat /\ faults <= MaxFaults

(***************************************************************************)
(* A channel delivers the briefing of a slot once, whatever cron, catch-up *)
(* and the user ask for and however often the other channel fails.  Only a *)
(* crash between sending and recording, or a sender that reports a failure *)
(* although it delivered, costs one more.                                  *)
(***************************************************************************)
SentOnce ==
    \A k \in Keys, c \in Channels : sent[k][c] <= 1 + crashes + doubts

(***************************************************************************)
(* No path through a run forgets what an earlier run recorded, of its own  *)
(* slot or of another: finishStockRun replaces the whole map, and what is  *)
(* lost from it is sent again.                                             *)
(***************************************************************************)
LedgerOnlyGrows ==
    [][day' = day =>
          /\ recorded => recorded'
          /\ \A k \in Keys : notified[k] \subseteq notified'[k]]_vars

(***************************************************************************)
(* A good briefing is replaced by another one only, never by a failure;    *)
(* a holiday replaces none of a session but where there is one file.       *)
(***************************************************************************)
GoodBriefingKept ==
    [][\A r \in Roles : files[r].source = "llm" =>
          \/ files'[r].source = "llm"
          \/ r = "both" /\ files'[r].source = "holiday"]_vars

(***************************************************************************)
(* Catch-up leaves a handled slot alone, even where the snapshot of a      *)
(* holiday names another slot: two slots would otherwise call for each     *)
(* other every 30 minutes until midnight.  Only what was made ahead of the *)
(* slot (NothingSentAhead) is made again.                                  *)
(***************************************************************************)
HandledStaysQuiet ==
    [][clock' = clock /\ queued' # queued /\ queued' # 0 =>
          ~Handled(queued') \/ SnapshotForSlot(queued').early]_vars

(***************************************************************************)
(* As long as the day lasts and the process lives, every slot that is past *)
(* is handled in the end, after any number of failures: of the agent, of a *)
(* channel, of cron, or of the wait for the queue.                         *)
(***************************************************************************)
BriefingsArrive ==
    \A slot \in Slots :
        slot <= clock ~> Handled(slot) \/ slot > clock \/ crashes > 0

(***************************************************************************)
(* "A failure to send on a channel that is on stays false: the next        *)
(* catch-up tries that channel again" (notifySlotChannels): a channel that *)
(* is on is not recorded as done while the good briefing of the slot was   *)
(* not delivered on it.                                                    *)
(***************************************************************************)
FailedChannelStaysOpen ==
    [][\A slot \in Slots, c \in on, r \in Roles :
          /\ files[r].source = "llm" /\ files[r].day = day /\ files[r].slot = slot
          /\ c \notin notified[slot] /\ c \in notified'[slot]
          /\ run.stage = "session"
          => sent'[slot][c] > 0]_vars

(***************************************************************************)
(* A slot is completed within its day, which "does not matter with the     *)
(* present setting (08:00/17:00)" (head of notify-ledger.ts): no briefing  *)
(* is sent for a slot that is still to come, and takes its place.          *)
(***************************************************************************)
NothingSentAhead ==
    \A slot \in Slots, c \in Channels : slot > clock => sent[slot][c] = 0

=============================================================================
