------------------------------- MODULE Skills -------------------------------
(***************************************************************************)
(* The weekly cycle of the skills ranking: who may start one, what it      *)
(* collects and records, what the growth of a repository is measured       *)
(* against, and what is shown and mailed.  A press of "refresh now" in a   *)
(* week that has its record is an interim look that leaves no record.      *)
(*                                                                         *)
(* src/src/skills/skills.ts, store.ts, github.ts, verify.ts and curate.ts, *)
(* and their part of src/src/scheduler/scheduler.ts and of                 *)
(* src/src/api/routes.ts; the scan is module SkillScan.  The LLM queue is  *)
(* that of module Scheduler: the scheduler's call waits, and while it does *)
(* another job holds the slot, so a manual request is refused.             *)
(***************************************************************************)
EXTENDS SkillScan

CONSTANTS
    DayLength,   \* ticks in a day
    CycleLength, \* ticks from one scheduled time to the next
    RankSize,    \* SKILLS_RANK_SIZE
    MaxRounds,   \* MAX_ROUNDS of verify.ts
    MaxTime,     \* bound: the last tick
    Worlds       \* bounds: what an execution may meet, [time, presses, changes, faults,
                 \* stars, quotas, trees]

ASSUME SkillsAssumption ==
    /\ DayLength \in Nat \ {0, 1} /\ CycleLength \in Nat \ {0, 1} /\ CycleLength % DayLength = 0
    /\ RankSize \in Nat \ {0} /\ MaxRounds \in Nat \ {0}
    /\ MaxTime \in Nat
    /\ \A w \in Worlds : /\ w.time <= MaxTime /\ w.trees \subseteq Seq({"clean", "net", "late", "caller"})
                         /\ w.stars \subseteq Nat /\ w.quotas \subseteq Nat

VARIABLES
    now,
    points,   \* skill_repo_points: for each day the stars recorded of repositories
    snap,     \* the snapshot, in memory and on disk, or NoSnapshot
    attempt,  \* the attempt record, in memory and on disk, or None
    sums,     \* skill_summaries: the text each repository's summary was made of, or None
    waiting,  \* the scheduler's call waits for the LLM's slot
    run,      \* the refresh in progress, or None
    \* History, read by the properties alone:
    mails,    \* how often each cycle was mailed: by the time its run was started in
    ends      \* when runs that recorded their stars were saved as the snapshot

cycle == <<now, points, snap, attempt, sums, waiting, run, mails, ends>>
vars == <<scanVars, left, cycle>>

Day(t) == t \div DayLength
Days == 0 .. Day(MaxTime)
NoDay == -1

\* The schedule: one time every CycleLength ticks, in the middle of a day.
IsBoundary(t) == t % CycleLength = 1
Boundary(t) == t - ((t - 1) % CycleLength)     \* lastSkillsCycleBoundary
Cycles == {Boundary(t) : t \in 0 .. MaxTime}

-----------------------------------------------------------------------------
\* Coverage.

\* cycleUpdatedAt: an interim look stands on the cycle before it.
UpdatedAt(s) == s.at
cycleUpdatedAt(s) == IF s.interim # None THEN s.interim ELSE s.at

\* snapshotCoversSince.  A snapshot that is no success covers nothing.
NoSnapshot == <<>>
CoveredSince(t) == snap # NoSnapshot /\ cycleUpdatedAt(snap) >= t

\* catchupTarget: on a day the cycle runs, its time is waited for.
CatchupTarget ==
    IF \E t \in now + 1 .. now + DayLength : IsBoundary(t) /\ Day(t) = Day(now)
    THEN None ELSE Boundary(now)

-----------------------------------------------------------------------------
\* Rankings: repositories by stars, and by what they gained since a day.

previousSnapshotDate(day) ==
    LET earlier == {d \in Days : d < day /\ points[d] # <<>>}
    IN  IF earlier = {} THEN NoDay ELSE CHOOSE d \in earlier : \A e \in earlier : e <= d

StarsAt(day) == IF day = NoDay THEN <<>> ELSE points[day]

Gained(pool, base) == [r \in DOMAIN pool \cap DOMAIN base |-> pool[r] - base[r]]

\* The first RankSize of each ranking; the repositories shown are in one of them.
MoreStars(pool, a, b) == pool[a] > pool[b] \/ (pool[a] = pool[b] /\ a < b)
ByStars(pool) == {r \in DOMAIN pool : Cardinality({q \in DOMAIN pool : MoreStars(pool, q, r)}) < RankSize}

MoreGained(pool, gain, a, b) == gain[a] > gain[b] \/ (gain[a] = gain[b] /\ MoreStars(pool, a, b))
ByGrowth(pool, base) ==
    LET gain == Gained(pool, base)
    IN  {r \in DOMAIN gain : Cardinality({q \in DOMAIN gain : MoreGained(pool, gain, q, r)}) < RankSize}

Shown(pool, base) == ByStars(pool) \cup ByGrowth(pool, base)

\* The order they are listed in: by stars, then by growth.
ListedBefore(pool, base, a, b) ==
    LET stars == ByStars(pool)
    IN  IF a \in stars THEN b \in stars => MoreStars(pool, a, b)
        ELSE b \notin stars /\ MoreGained(pool, Gained(pool, base), a, b)

-----------------------------------------------------------------------------
\* Who starts a run.

skillsRunning == waiting \/ (run # None /\ run.auto)

\* refreshSkills up to its first await: `record` is FALSE for an interim look,
\* which needs a good snapshot to stand on.
Begin(auto, record, notify) ==
    /\ run' = [stage  |-> "search",
               auto   |-> auto,
               notify |-> notify,
               start  |-> now,
               interim |-> IF ~record /\ snap # NoSnapshot THEN cycleUpdatedAt(snap) ELSE None,
               pool   |-> <<>>,
               seen   |-> <<>>,     \* what the search said of the pool
               base   |-> NoDay,
               checked |-> {},      \* links checked, and in how many rounds
               round  |-> 0,
               tags   |-> <<>>]

\* decideManualRun, refreshSkillsNow and POST /skills/refresh.
AlwaysRecord == TRUE
ManualRecord == ~CoveredSince(Boundary(now))
ManualRequest ==
    /\ run = None /\ ~waiting
    /\ Spend("presses")
    /\ Begin(FALSE, ManualRecord, ManualRecord)
    /\ UNCHANGED <<scanVars, now, points, snap, attempt, sums, waiting, mails, ends>>

\* safeCatchUpSkills, called by the sweep; a backoff may delay it.
CatchUp ==
    /\ ~skillsRunning /\ run = None
    /\ CatchupTarget # None /\ ~CoveredSince(CatchupTarget)
    /\ waiting' = TRUE
    /\ UNCHANGED <<scanVars, left, now, points, snap, attempt, sums, run, mails, ends>>

\* runLlmJob of safeRunSkills: the slot is granted, or was waited for too long.
GetSlot ==
    /\ waiting /\ run = None
    /\ waiting' = FALSE
    /\ Begin(TRUE, TRUE, TRUE)
    /\ UNCHANGED <<scanVars, left, now, points, snap, attempt, sums, mails, ends>>

GiveUpWaiting ==
    /\ waiting
    /\ Spend("faults")
    /\ waiting' = FALSE
    /\ UNCHANGED <<scanVars, now, points, snap, attempt, sums, run, mails, ends>>

\* Time passes; at a scheduled time cron calls safeRunSkills, unless the
\* machine sleeps.
Tick ==
    /\ Spend("time")
    /\ now' = now + 1
    /\ \/ IsBoundary(now + 1) /\ waiting' = (waiting \/ ~skillsRunning)
       \/ waiting' = waiting
    /\ UNCHANGED <<scanVars, points, snap, attempt, sums, run, mails, ends>>

-----------------------------------------------------------------------------
\* The run.

At(stage) == run # None /\ run.stage = stage

RunFails ==
    /\ attempt' = [ok |-> FALSE, at |-> run.start]
    /\ run' = None

\* collectSkillRepos finds nothing: the error snapshot never replaces a good one
\* (decideSkillsSnapshot), and where there is none it is no success either.
SearchFails ==
    /\ At("search") /\ Spend("faults")
    /\ RunFails
    /\ UNCHANGED <<scanVars, now, points, snap, sums, waiting, mails, ends>>

\* saveWeeklySnapshot: the day's rows are overwritten; those of repositories
\* that are not in this pool stay.
WithPoints(pool) ==
    [points EXCEPT ![Day(run.start)] = pool @@ @]

\* It finds a pool (some pages may have failed), which is recorded, unless
\* this is an interim look, before anything else can fail.
SearchGives ==
    /\ At("search")
    /\ \E repos \in SUBSET Repos \ {{}} : \E pool \in [repos -> world.stars] :
         /\ IF repos = Repos THEN UNCHANGED left ELSE Spend("faults")
         /\ points' = IF run.interim = None THEN WithPoints(pool) ELSE points
         /\ run' = [run EXCEPT !.stage = "links",
                               !.pool = pool,
                               !.seen = [r \in repos |-> [push |-> github[r].push,
                                                          text |-> github[r].text]],
                               !.base = previousSnapshotDate(Day(run.start))]
    /\ UNCHANGED <<scanVars, now, snap, attempt, sums, waiting, mails, ends>>

\* pruneDeadLinks: a round checks what would be shown and was not checked yet;
\* only a link that is certainly dead is dropped, and after the last round the
\* candidates that moved up are shown unchecked.
RunShown == Shown(run.pool, StarsAt(run.base))

CheckLinks ==
    /\ At("links")
    /\ LET pending == RunShown \ run.checked
       IN  IF pending = {} \/ run.round = MaxRounds
           THEN run' = [run EXCEPT !.stage = "scan"] /\ UNCHANGED left
           ELSE \E dead \in SUBSET pending :
                  /\ IF dead = {} THEN UNCHANGED left ELSE Spend("faults")
                  /\ run' = [run EXCEPT !.stage = IF dead = {} THEN "scan" ELSE "links",
                                        !.checked = @ \union pending,
                                        !.round = @ + 1,
                                        !.pool = Restrict(@, DOMAIN @ \ dead)]
    /\ UNCHANGED <<scanVars, now, points, snap, attempt, sums, waiting, mails, ends>>

Earlier ==
    [r \in DOMAIN run.seen |->
        {q \in DOMAIN run.seen : ListedBefore(run.pool, StarsAt(run.base), q, r)}]

BeginScan ==
    /\ At("scan") /\ scan = None
    /\ StartScan(RunShown, Earlier, [r \in DOMAIN run.seen |-> run.seen[r].push])
    /\ UNCHANGED cycle

Tag(verdict) == [kind |-> verdict.kind, sep |-> verdict.sep, table |-> table]

EndScan ==
    /\ At("scan") /\ ScanDone
    /\ rows' = Saved(scan.found)
    /\ scan' = None /\ core' = 0
    /\ run' = [run EXCEPT !.stage = "write",
                          !.tags = [r \in DOMAIN scan.found |-> Tag(scan.found[r])]]
    /\ UNCHANGED <<github, table, world, left, now, points, snap, attempt, sums, waiting, mails, ends>>

\* The scan throws: the ranking goes out without tags (scanAccess).
ScanThrows ==
    /\ At("scan") /\ scan # None /\ Spend("faults")
    /\ scan' = None
    /\ run' = [run EXCEPT !.stage = "write"]
    /\ UNCHANGED <<github, table, rows, core, world, now, points, snap, attempt, sums, waiting, mails, ends>>

\* pickSummaryTargets, summarizeSkillRepos and mergeSummaries: what was made of
\* another text is not shown, whether or not the LLM makes a new summary.
Unsummarised == {r \in RunShown : sums[r] # run.seen[r].text}

SummaryOf(r, made) ==
    CASE r \in made                  -> run.seen[r].text
      [] sums[r] = run.seen[r].text  -> sums[r]
      [] OTHER                       -> None

Fresh(made) ==
    LET base  == StarsAt(run.base)
    IN  [date    |-> Day(run.start),
         at      |-> now,
         interim |-> run.interim,
         stars   |-> run.pool,
         growth  |-> IF run.base = NoDay THEN <<>>
                     ELSE Restrict(Gained(run.pool, base), ByGrowth(run.pool, base)),
         from    |-> run.base,
         entries |-> [r \in RunShown |->
                        [push    |-> run.seen[r].push,
                         text    |-> run.seen[r].text,
                         tag     |-> IF r \in DOMAIN run.tags THEN run.tags[r] ELSE None,
                         summary |-> SummaryOf(r, made)]]]

\* buildSnapshot's end and refreshSkills up to the mail.  A ranking nothing is
\* left of is a failure.
Settle ==
    /\ At("write")
    /\ \E made \in SUBSET Unsummarised :
         /\ IF made = Unsummarised THEN UNCHANGED left ELSE Spend("faults")
         /\ sums' = [r \in Repos |-> IF r \in made THEN run.seen[r].text ELSE sums[r]]
         /\ IF run.pool = <<>>
            THEN RunFails /\ UNCHANGED <<snap, ends>>
            ELSE /\ snap' = Fresh(made)
                 /\ attempt' = [ok |-> TRUE, at |-> run.start]
                 /\ ends' = IF run.interim = None THEN ends \union {now} ELSE ends
                 /\ run' = IF run.notify THEN [run EXCEPT !.stage = "mail"] ELSE None
    /\ UNCHANGED <<scanVars, now, points, waiting, mails>>

\* The mail goes out after the snapshot was saved.
SendMail ==
    /\ At("mail")
    /\ mails' = [mails EXCEPT ![Boundary(run.start)] = @ + 1]
    /\ run' = None
    /\ UNCHANGED <<scanVars, left, now, points, snap, attempt, sums, waiting, ends>>

\* The database fails under a run.
RunThrows ==
    /\ run # None /\ run.stage \in {"search", "links", "write"} /\ Spend("faults")
    /\ RunFails
    /\ UNCHANGED <<scanVars, now, points, snap, sums, waiting, mails, ends>>

\* The process is restarted, perhaps as a version with another table of signals.
Restart ==
    /\ Spend("faults")
    /\ waiting' = FALSE /\ run' = None /\ scan' = None
    /\ table' \in {table, 2}
    /\ UNCHANGED <<github, rows, core, world, now, points, snap, attempt, sums, mails, ends>>

-----------------------------------------------------------------------------
Init ==
    /\ world \in Worlds
    /\ left = [time |-> world.time, presses |-> world.presses,
               changes |-> world.changes, faults |-> world.faults]
    /\ github \in [Repos -> [push : {0}, text : {0}, files : world.trees]]
    /\ table = 1 /\ rows = [r \in Repos |-> None] /\ core = 0 /\ scan = None
    /\ now = 0 /\ points = [d \in Days |-> <<>>]
    /\ snap = NoSnapshot /\ attempt = None /\ sums = [r \in Repos |-> None]
    /\ waiting = FALSE /\ run = None
    /\ mails = [c \in Cycles |-> 0] /\ ends = {}

Next ==
    \/ ManualRequest \/ CatchUp \/ GetSlot \/ GiveUpWaiting \/ Tick
    \/ SearchFails \/ SearchGives \/ CheckLinks
    \/ BeginScan
    \/ TakeRepo(Earlier) /\ UNCHANGED cycle
    \/ ScanRepo /\ UNCHANGED cycle
    \/ EndScan \/ ScanThrows \/ Settle \/ SendMail \/ RunThrows \/ Restart
    \/ RepoChanges /\ UNCHANGED cycle

Spec == Init /\ [][Next]_vars

-----------------------------------------------------------------------------
\* Properties.

\* A cycle that is not caught up any more has left its record: the snapshot
\* stands on a run that recorded its stars, however many interim looks came
\* after it (decideManualRun, skills.ts:231-256).
CoveredMeansRecorded ==
    \A c \in Cycles : CoveredSince(c) => \E t \in ends : t >= c

\* However often the button is pressed, the run is restarted or the process
\* dies, a cycle is mailed once (skills.ts:231-256, scheduler.ts:935-985).
MailedOncePerCycle == \A c \in Cycles : mails[c] <= 1

\* A repository that was not pushed to since the search is shown with a verdict
\* that is true of its files, and with a summary of the description shown: the
\* verdict may come from the cache, a sample, a truncated tree or files that
\* could not be read, and the definition of a signal may have changed since
\* (decideAccessKind, loadScans, mergeSummaries).
EntriesTellTruth ==
    snap # NoSnapshot => \A r \in DOMAIN snap.entries :
        LET e == snap.entries[r]
        IN  /\ e.tag # None /\ e.push = github[r].push => IsTrueOf(e.tag, github[r].files, e.tag.table)
            /\ e.summary \in {None, e.text}
=============================================================================
