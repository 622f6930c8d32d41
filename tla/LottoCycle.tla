----------------------------- MODULE LottoCycle -----------------------------
(***************************************************************************)
(* The weekly lotto cycle: runWeeklyCycle (src/src/lotto/cycle.ts) with    *)
(* the tables and the state file it keeps (src/src/lotto/store.ts), the    *)
(* draws it collects (src/src/lotto/draws.ts) and the ways into it: cron,  *)
(* catch-up (src/src/scheduler/scheduler.ts) and the manual route.         *)
(*                                                                         *)
(* A week has five stretches of time: Sunday until the scheduled time,     *)
(* the rest of Sunday, the week until Saturday 20:00, Saturday until the   *)
(* draw, and Saturday from the draw to midnight.  Round w is drawn in week *)
(* w, and its result is public by midnight.  A page of draws covers more   *)
(* rounds than the weeks of a behaviour, so that a request gets all of     *)
(* them or none.  The score of a round counts as 1.                        *)
(***************************************************************************)
EXTENDS Naturals, Sequences, FiniteSets, FiniteSetsExt

CONSTANTS
    Weeks,      \* bound: weeks
    MaxFaults   \* bound: crashes, failed requests and failed agents together

ASSUME LottoAssumption == Weeks \in Nat \ {0} /\ MaxFaults \in Nat

VARIABLES
    time,       \* the stretch of time that is now
    published,  \* the latest round whose result is public
    known,      \* lotto_draws: the latest round; all rounds before are there too
    from,       \* lotto_strategies: the from_round of each version
    preds,      \* lotto_predictions: for each scored round its run, version and cum_score
    upcoming,   \* lotto_upcoming: the picks for a round, or NoPick
    file,       \* lotto-state.json
    queued,     \* the triggers that wait for the LLM queue
    cycle,      \* the call of runWeeklyCycle in progress
    faults

vars == <<time, published, known, from, preds, upcoming, file, queued, cycle, faults>>

Rounds == 1 .. Weeks
End == 5 * (Weeks - 1) + 2          \* the last week ends on sale, before its draw
Week(t) == t \div 5 + 1
Phase(t) == <<"dawn", "sunday", "sale", "closed", "drawn">>[(t % 5) + 1]
Held(t) == IF Phase(t) = "drawn" THEN Week(t) ELSE Week(t) - 1

Never == End + 1                    \* null for a time
NoPick == [round |-> 0, run |-> 0, version |-> 0, at |-> Never, seen |-> Never]
DefaultFile == [run |-> 1, at |-> Never, evolved |-> 0, retryAt |-> Never]
LiveFile == [DefaultFile EXCEPT !.run = 2]
NoCycle == [stage |-> "none", range |-> 0, last |-> 0, version |-> 0,
            seen |-> Never, retry |-> FALSE]
Triggers == {"schedule", "catchup", "manual"}
Stages == {"none", "sync", "score", "clear", "evolve", "evolved", "commit", "insert", "save"}

Init ==
    /\ time = 1 /\ published = 0 /\ known = 0
    /\ from = <<>> /\ preds = [r \in {} |-> 0]
    /\ upcoming = NoPick
    /\ file = LiveFile
    /\ queued = {} /\ cycle = NoCycle
    /\ faults = 0

cycling == cycle.stage # "none"
lastScored(run) == Max({0} \cup {r \in DOMAIN preds : preds[r].run = run})
inDrawBlackout == Phase(time) \in {"closed", "drawn"}

\* The latest scheduled time that is past, of which there is none before Init.
lastCycleBoundary == IF Phase(time) = "dawn" THEN time - 4 ELSE 5 * (Week(time) - 1) + 1

shouldRunCycle ==
    \/ upcoming = NoPick
    \/ file.retryAt <= time
    \/ file.at = Never
    \/ file.at < lastCycleBoundary /\ Phase(time) # "dawn"

shouldCatchUpCycle == ~inDrawBlackout /\ shouldRunCycle

-----------------------------------------------------------------------------
(* The world: time, the results, and the crash of the process.              *)

\* Time passes only while a cycle awaits the draws or the agent.  Cron fires as Sunday's
\* scheduled time comes, unless the machine is asleep.
Tick ==
    /\ time < End
    /\ cycle.stage \in {"none", "sync", "evolve"}
    /\ Phase(time) = "drawn" => published = Held(time)
    /\ time' = time + 1
    /\ \/ UNCHANGED queued
       \/ Phase(time') = "sunday" /\ queued' = queued \cup {"schedule"}
    /\ UNCHANGED <<published, known, from, preds, upcoming, file, cycle, faults>>

Publish ==
    /\ published < Held(time)
    /\ published' = Held(time)
    /\ UNCHANGED <<time, known, from, preds, upcoming, file, queued, cycle, faults>>

\* A crash while the state file is written may leave one that does not parse.
Crash ==
    /\ faults < MaxFaults
    /\ faults' = faults + 1
    /\ cycle' = NoCycle /\ queued' = {}
    /\ \/ UNCHANGED file
       \/ cycle.stage \in {"evolved", "save"} /\ file' = DefaultFile
    /\ UNCHANGED <<time, published, known, from, preds, upcoming>>

-----------------------------------------------------------------------------
(* The ways into a cycle.                                                    *)

CatchUp ==
    /\ ~cycling /\ shouldCatchUpCycle
    /\ "catchup" \notin queued
    /\ queued' = queued \cup {"catchup"}
    /\ UNCHANGED <<time, published, known, from, preds, upcoming, file, cycle, faults>>

ManualRequest ==
    /\ ~cycling
    /\ queued = {}                  \* the request waits for the slot only two turns of the event loop
    /\ queued' = {"manual"}
    /\ UNCHANGED <<time, published, known, from, preds, upcoming, file, cycle, faults>>

\* A job gets the slot; catch-up looks again whether there is something to do.
GetSlot(trigger) ==
    /\ ~cycling /\ trigger \in queued
    /\ queued' = queued \ {trigger}
    /\ cycle' = IF trigger = "catchup" /\ ~shouldCatchUpCycle
                THEN NoCycle ELSE [NoCycle EXCEPT !.stage = "sync"]
    /\ UNCHANGED <<time, published, known, from, preds, upcoming, file, faults>>

-----------------------------------------------------------------------------
(* The steps of runWeeklyCycle, one for each write that a crash may follow.  *)

At(stage) == cycle.stage = stage
GoTo(stage) == cycle' = [cycle EXCEPT !.stage = stage]

\* Without any draw the cycle throws, which saves the state with a retry.
AfterSync(latest, seen, retry) ==
    /\ known' = latest
    /\ cycle' = [cycle EXCEPT !.stage = IF latest = 0 THEN "save" ELSE "score",
                              !.range = latest, !.seen = seen, !.retry = retry \/ latest = 0]
    /\ UNCHANGED <<time, published, from, preds, upcoming, file, queued>>

SyncSucceeds == At("sync") /\ AfterSync(published, time, FALSE) /\ UNCHANGED faults

\* The search for the latest round throws; a page that fails is only logged.
SyncFails ==
    /\ At("sync") /\ faults < MaxFaults
    /\ faults' = faults + 1
    /\ \E retry \in BOOLEAN : AfterSync(known, Never, retry)

\* Mutant: the agent is called only by the cycle that scored.
PreparedIfScored(rows) ==
    LET last == Max({0} \cup {r \in DOMAIN rows : rows[r].run = file.run})
    IN /\ from' = IF from = <<>> THEN <<cycle.range + 1>> ELSE from
       /\ cycle' = [cycle EXCEPT !.stage = IF At("clear") THEN "evolve" ELSE "commit",
                                 !.last = last, !.version = Len(from')]

\* What follows the scoring: the seed strategy, and the agent if a scored round is new to it.
Prepared(rows) ==
    LET last == Max({0} \cup {r \in DOMAIN rows : rows[r].run = file.run})
    IN /\ from' = IF from = <<>> THEN <<cycle.range + 1>> ELSE from
       /\ cycle' = [cycle EXCEPT !.stage = IF file.evolved < last THEN "evolve" ELSE "commit",
                                 !.last = last, !.version = Len(from')]

NothingToScore ==
    /\ At("score")
    /\ upcoming = NoPick \/ upcoming.round > known
    /\ Prepared(preds)
    /\ UNCHANGED <<time, published, known, preds, upcoming, file, queued, faults>>

\* A crash has come between the scoring and the clearing.
AlreadyScored ==
    /\ At("score")
    /\ upcoming # NoPick /\ upcoming.round <= known
    /\ upcoming.round <= lastScored(upcoming.run)
    /\ upcoming' = NoPick
    /\ Prepared(preds)
    /\ UNCHANGED <<time, published, known, preds, file, queued, faults>>

\* Mutant: whether the round is scored is not asked.
ScorePicksAgain ==
    /\ At("score")
    /\ upcoming # NoPick /\ upcoming.round <= known
    /\ LET last == lastScored(upcoming.run)
           row == [run |-> upcoming.run, version |-> upcoming.version,
                   cum |-> 1 + IF last = 0 THEN 0 ELSE preds[last].cum]
       IN preds' = [r \in DOMAIN preds \cup {upcoming.round} |->
                        IF r = upcoming.round THEN row ELSE preds[r]]
    /\ GoTo("clear")
    /\ UNCHANGED <<time, published, known, from, upcoming, file, queued, faults>>

ScorePicks ==
    /\ At("score")
    /\ upcoming # NoPick /\ upcoming.round <= known
    /\ upcoming.round > lastScored(upcoming.run)
    /\ LET last == lastScored(upcoming.run)
           row == [run |-> upcoming.run, version |-> upcoming.version,
                   cum |-> 1 + IF last = 0 THEN 0 ELSE preds[last].cum]
       IN preds' = [r \in DOMAIN preds \cup {upcoming.round} |->
                        IF r = upcoming.round THEN row ELSE preds[r]]
    /\ GoTo("clear")
    /\ UNCHANGED <<time, published, known, from, upcoming, file, queued, faults>>

ClearPicks ==
    /\ At("clear")
    /\ upcoming' = NoPick
    /\ Prepared(preds)
    /\ UNCHANGED <<time, published, known, preds, file, queued, faults>>

\* A strategy that comes while picks are fixed applies to the round after them.
EvolveSucceeds ==
    /\ At("evolve")
    /\ from' = Append(from, 1 + IF upcoming = NoPick THEN cycle.range ELSE upcoming.round)
    /\ cycle' = [cycle EXCEPT !.stage = "evolved", !.version = Len(from')]
    /\ UNCHANGED <<time, published, known, preds, upcoming, file, queued, faults>>

\* A usage limit or a lost login puts the round off; any other failure gives it up.
EvolveFails ==
    /\ At("evolve") /\ faults < MaxFaults
    /\ faults' = faults + 1
    /\ \/ GoTo("evolved")
       \/ cycle' = [cycle EXCEPT !.stage = "commit", !.retry = TRUE]
    /\ UNCHANGED <<time, published, known, from, preds, upcoming, file, queued>>

SaveEvolved ==
    /\ At("evolved")
    /\ file' = [file EXCEPT !.evolved = cycle.last]
    /\ GoTo("commit")
    /\ UNCHANGED <<time, published, known, from, preds, upcoming, queued, faults>>

\* Mutant: every cycle makes the picks of the next round anew.
CommitAnew ==
    /\ At("commit")
    /\ \/ /\ inDrawBlackout
          /\ cycle' = [cycle EXCEPT !.stage = "save", !.retry = TRUE]
          /\ UNCHANGED upcoming
       \/ /\ ~inDrawBlackout
          /\ GoTo("insert")
          /\ upcoming' = NoPick
    /\ UNCHANGED <<time, published, known, from, preds, file, queued, faults>>

\* Picks are never changed, and never made in the night of the draw.
Commit ==
    /\ At("commit")
    /\ \/ /\ upcoming.round = cycle.range + 1
          /\ GoTo("save")
          /\ UNCHANGED upcoming
       \/ /\ upcoming.round # cycle.range + 1 /\ inDrawBlackout
          /\ cycle' = [cycle EXCEPT !.stage = "save", !.retry = TRUE]
          /\ UNCHANGED upcoming
       \/ /\ upcoming.round # cycle.range + 1 /\ ~inDrawBlackout
          /\ GoTo("insert")
          /\ upcoming' = NoPick
    /\ UNCHANGED <<time, published, known, from, preds, file, queued, faults>>

InsertPicks ==
    /\ At("insert")
    /\ upcoming' = [round |-> cycle.range + 1, run |-> file.run, version |-> cycle.version,
                    at |-> time, seen |-> cycle.seen]
    /\ GoTo("save")
    /\ UNCHANGED <<time, published, known, from, preds, file, queued, faults>>

\* Four hours may end in this stretch of time or in the next.
SaveState ==
    /\ At("save")
    /\ \E t \in {time, Min({time + 1, End})} :
          file' = [file EXCEPT !.at = time, !.retryAt = IF cycle.retry THEN t ELSE Never]
    /\ cycle' = NoCycle
    /\ UNCHANGED <<time, published, known, from, preds, upcoming, queued, faults>>

CycleStep ==
    \/ SyncSucceeds \/ SyncFails \/ NothingToScore \/ AlreadyScored \/ ScorePicks \/ ClearPicks
    \/ EvolveSucceeds \/ EvolveFails \/ SaveEvolved \/ Commit \/ InsertPicks \/ SaveState

Next ==
    \/ Tick \/ Publish \/ Crash
    \/ CatchUp \/ ManualRequest \/ (\E trigger \in Triggers : GetSlot(trigger))
    \/ CycleStep

\* The event loop runs what is ready, the sweep looks every half hour, time passes.
Fairness ==
    /\ WF_vars(CycleStep) /\ WF_vars(CatchUp) /\ SF_vars(Tick) /\ WF_vars(Publish)
    /\ \A trigger \in Triggers : WF_vars(GetSlot(trigger))

Spec == Init /\ [][Next]_vars /\ Fairness

-----------------------------------------------------------------------------
TypeOK ==
    /\ time \in 0 .. End
    /\ published \in 0 .. Weeks /\ known \in 0 .. Weeks
    /\ from \in Seq(Nat \ {0})
    /\ DOMAIN preds \subseteq Rounds
    /\ upcoming.round \in 0 .. Weeks /\ upcoming.version \in 0 .. Len(from)
    /\ file.run \in {1, 2} /\ file.evolved \in 0 .. Weeks
    /\ queued \subseteq Triggers
    /\ cycle.stage \in Stages /\ cycle.retry \in BOOLEAN
    /\ faults \in 0 .. MaxFaults

\* Picks the user has seen stay as they are until their round has been scored under them:
\* neither a second cycle in the week, nor a new strategy, nor a crash replaces or drops them
\* (src/src/lotto/cycle.ts:411).
PicksStand ==
    [][upcoming # NoPick /\ upcoming' # upcoming
         => /\ upcoming.round \in DOMAIN preds
            /\ preds[upcoming.round].version = upcoming.version]_vars

\* cum_score is the evidence that no round was scored twice or left out of the sum: it counts
\* the rounds scored under the run so far, also when a crash came between the insertion of the
\* score and the removal of the picks (src/src/lotto/cycle.ts:376).
CumulativeIsSum ==
    \A r \in DOMAIN preds :
        preds[r].cum = Cardinality({q \in DOMAIN preds : q <= r /\ preds[q].run = preds[r].run})

\* The picks of a round come from the strategy in force for it: the latest whose from_round is
\* not after the round, however often the agent ran again in between (src/src/lotto/cycle.ts:262).
StrategyInForce ==
    upcoming # NoPick =>
        upcoming.version = Max({v \in DOMAIN from : from[v] <= upcoming.round})

\* Picks made after the draw of their round come from a run that could not collect the draws, or
\* that read them in an earlier week: a run that did neither, whenever it started and however
\* long the agent took, is in time (src/src/lotto/cycle.ts:297).
LateOnlyIfStale ==
    upcoming # NoPick /\ upcoming.round <= Held(upcoming.at)
        => upcoming.seen = Never \/ Week(upcoming.seen) < Week(upcoming.at)

\* What the header of the cycle promises: picks are stored before the draw
\* (src/src/lotto/cycle.ts:47).
PickedBeforeDraw ==
    upcoming # NoPick => upcoming.round > Held(upcoming.at)

\* Each scored round reaches the agent at most once, but for a crash between the insertion of
\* the strategy and the note that the round is evolved (src/src/lotto/cycle.ts:261).
OneGenerationPerRound ==
    Len(from) <= 1 + Cardinality(DOMAIN preds) + faults

\* The board does not stay without picks: whatever failed, a later sweep makes them
\* (src/src/lotto/cycle.ts:145).
PicksCome == upcoming = NoPick ~> upcoming # NoPick

\* A scored round is not forgotten: the agent sees it, or it is given up for good; a usage limit
\* or a lost login only puts it off, at most to the next week (src/src/lotto/cycle.ts:276).
ScoresReachAgent ==
    \A r \in Rounds :
        LET live == r \in DOMAIN preds /\ preds[r].run = file.run
        IN (live /\ Week(time) < Weeks) ~> (file.evolved >= r \/ ~live)
=============================================================================
