---------------------------- MODULE EventTracker ----------------------------
(***************************************************************************)
(* The badge "new" of the events tab (src/src/events/new-tracker.ts): the  *)
(* board keeps only its last snapshot, so that a ledger of first and last  *)
(* appearances tells which events come after an absence of GapDays.        *)
(*                                                                         *)
(* An event is its key (popupKey and the like, src/shared/events.ts).  The *)
(* days begin at 1; 0 stands for a date that is not known.                 *)
(***************************************************************************)
EXTENDS Naturals, Sequences

CONSTANTS
    Events,
    GapDays, ShowDays,  \* newGapDays and newShowDays
    Retention,          \* RETENTION_DAYS
    LastDay,            \* bound: days
    MaxRuns,            \* bound: collections that the agent curated
    MaxLosses           \* bound: losses of the ledger's file

VARIABLES
    today,
    ledger,   \* since, lastRun, and the entry of an event that has one
    badges,   \* the events of the board that are marked as new
    losses,
    \* History, read by the property alone:
    collected  \* the collections since the ledger exists

trackerVars == <<today, ledger, badges, losses, collected>>

\* A longer absence, or a longer show, would go by entries that are gone: the
\* settings allow 60 and 30 days, and an entry is kept for 60.
ASSUME TrackerSizes ==
    Retention \in Nat /\ GapDays \in 1 .. Retention /\ ShowDays \in 1 .. Retention

NoLedger == [since |-> 0, lastRun |-> 0, items |-> [e \in {} |-> [lastSeen |-> 0, newSince |-> 0]]]

TrackerInit ==
    /\ today = 1
    /\ ledger = NoLedger
    /\ badges = {} /\ losses = 0 /\ collected = <<>>

-----------------------------------------------------------------------------
Since == IF ledger.since = 0 THEN today ELSE ledger.since

\* Mutant: a collection that resumes after a gap judges as any other.
InWarmup == today - Since < GapDays

\* detectNew: too little is known to judge, as tracking has just begun, or has
\* just resumed.
SuppressNew ==
    \/ today - Since < GapDays
    \/ ledger.lastRun # 0 /\ today - ledger.lastRun >= GapDays

\* Absent for GapDays, or never seen.
Reappeared(e) ==
    /\ ~SuppressNew
    /\ e \in DOMAIN ledger.items => today - ledger.items[e].lastSeen >= GapDays

\* The entry of an event that is on the list today.
Seen(e) ==
    [lastSeen |-> today,
     newSince |-> IF Reappeared(e) THEN today
                  ELSE IF e \in DOMAIN ledger.items THEN ledger.items[e].newSince ELSE 0]

\* What has not been seen for longer than the retention is forgotten.
Forgotten(listed) ==
    {e \in DOMAIN ledger.items \ listed : today - ledger.items[e].lastSeen > Retention}

\* detectNew with markNewItems, which saves the ledger.
Collect(listed) ==
    LET kept == (DOMAIN ledger.items \cup listed) \ Forgotten(listed)
        items == [e \in kept |-> IF e \in listed THEN Seen(e) ELSE ledger.items[e]]
    IN  /\ Len(collected) < MaxRuns
        /\ ledger' = [since |-> Since, lastRun |-> today, items |-> items]
        /\ badges' = {e \in listed : items[e].newSince # 0 /\ today - items[e].newSince <= ShowDays}
        /\ collected' = Append(collected, [day |-> today, listed |-> listed, marked |-> badges'])
        /\ UNCHANGED <<today, losses>>

\* refreshEvents: the unsorted results of a search are shown without badges
\* and not tracked.
FallsBack ==
    /\ badges' = {}
    /\ UNCHANGED <<today, ledger, losses, collected>>

\* A day passes, with collections or without.
NextDay ==
    /\ today < LastDay
    /\ today' = today + 1
    /\ UNCHANGED <<ledger, badges, losses, collected>>

\* loadLedger: a file that cannot be read counts as none; tracking begins anew.
LoseLedger ==
    /\ losses < MaxLosses /\ ledger # NoLedger
    /\ losses' = losses + 1
    /\ ledger' = NoLedger /\ collected' = <<>>
    /\ UNCHANGED <<today, badges>>

TrackerNext ==
    \/ \E listed \in SUBSET Events : Collect(listed)
    \/ FallsBack
    \/ NextDay
    \/ LoseLedger

TrackerSpec == TrackerInit /\ [][TrackerNext]_trackerVars

-----------------------------------------------------------------------------
\* The i-th collection lists e after an absence: nothing listed it for GapDays
\* although something was collected meanwhile, and earlier.
CameBack(i, e) ==
    LET day == collected[i].day
    IN  /\ e \in collected[i].listed
        /\ day - collected[1].day >= GapDays
        /\ i > 1 /\ day - collected[i - 1].day < GapDays
        /\ \A j \in 1 .. i - 1 : e \in collected[j].listed => day - collected[j].day >= GapDays

\* The events that are to be marked after the last of the collections.
Marked ==
    LET last == collected[Len(collected)]
    IN  {e \in last.listed : \E i \in DOMAIN collected : CameBack(i, e) /\ last.day - collected[i].day <= ShowDays}

(***************************************************************************)
(* After each collection exactly those events are marked as new that came  *)
(* back (or came) after an absence of GapDays, at most ShowDays ago, going *)
(* by the whole history rather than by what the ledger keeps of it: not    *)
(* those that were missed because the machine slept for a week, or because *)
(* tracking has just begun, and not those whose entry was cleaned up.      *)
(***************************************************************************)
NewMeansNew == collected # <<>> => collected[Len(collected)].marked = Marked
=============================================================================
