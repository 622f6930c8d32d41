------------------------------ MODULE LottoSets ------------------------------
(***************************************************************************)
(* The sets of numbers that are played in a round: generateSets and what   *)
(* it calls (src/src/lotto/strategy.ts) with the scores of src/shared/     *)
(* lotto.ts.  The agent gives any values; normalizeSpec makes a strategy   *)
(* of them; a design is built for a round, searched for a better one, and  *)
(* kept for the generation in the memory of the process.                   *)
(*                                                                         *)
(* The features, coefficients and filters of a strategy only shift the     *)
(* chances of the numbers: a set that fails the filters is drawn again a   *)
(* bounded number of times and then taken, so any set of the pool may      *)
(* come.  What the agent says of a number is that number, Null, or Junk    *)
(* (what Number() turns into NaN); of a switch only true counts.           *)
(***************************************************************************)
EXTENDS Integers, Sequences, FiniteSets, FiniteSetsExt, Functions

CONSTANTS
    N,          \* numbers of the game
    Pick,       \* numbers in a set
    SetCount,   \* sets in a round
    HitWeights, \* what a draw counts for, by the hits it takes
    Draws,      \* the draws that the search scores with; the last draw is one of them
    MaxSteps,   \* the largest number of steps of a search
    MaxAsks     \* bound: rounds that sets are asked for

\* All numbers fit into the sets, and a set can be made without those of a draw.
ASSUME SetsAssumption ==
    /\ N \in Nat /\ Pick \in Nat /\ SetCount \in Nat \ {0} /\ SetCount * Pick >= N
    /\ MaxSteps \in Nat /\ MaxAsks \in Nat
    /\ IsFiniteSet(Draws) /\ \A d \in Draws : d \subseteq 1 .. N /\ N - Cardinality(d) >= Pick
    /\ HitWeights \in [0 .. Pick -> Nat]

VARIABLES
    strategy,   \* the strategy of the generation
    last,       \* the numbers of the last draw, none before the first
    sets,       \* the sets, as far as they are made
    stage,      \* free, fill, check, search, done; none while nothing is asked
    at,         \* the set that is looked at, or the steps of the search that are done
    start,      \* the design before the search
    cache,      \* the design kept for the generation, or <<>>
    asks

setVars == <<strategy, last, sets, stage, at, start, cache, asks>>

Numbers == 1 .. N
Junk == -2
Null == -1

-----------------------------------------------------------------------------
(* normalizeSpec *)

\* Number(null) is 0.
clamp(v, lo, hi, fallback) ==
    IF v = Junk THEN fallback ELSE LET n == IF v = Null THEN 0 ELSE v IN Max({lo, Min({hi, n})})

normalizeSpec(raw) ==
    [fullCover |-> raw.fullCover = "true",
     excludeLastDraw |-> raw.excludeLastDraw = "true",
     maxSetOverlap |-> clamp(raw.maxSetOverlap, 1, Pick, Pick),
     searchSteps |-> clamp(raw.searchSteps, 0, MaxSteps, 0)]

Said == {Junk, Null, 1, 99}
Answers == [fullCover : {"true", "junk"}, excludeLastDraw : {"true", "junk"},
            maxSetOverlap : Said, searchSteps : Said]

-----------------------------------------------------------------------------
(* buildDesign *)

\* All numbers cannot be played without those of the last draw.
Excluded == IF strategy.excludeLastDraw /\ ~strategy.fullCover THEN last ELSE {}

pool == Numbers \ Excluded
drawSet == kSubset(Pick, pool)

\* The numbers dealt in turn, in any order.
Dealt ==
    {[s \in 1 .. SetCount |-> {n \in Numbers : order[n] = s}] : order \in
        {o \in [Numbers -> 1 .. SetCount] :
            \A s \in 1 .. SetCount :
                Cardinality({n \in Numbers : o[n] = s})
                    = N \div SetCount + IF s <= N % SetCount THEN 1 ELSE 0}}

overlapOk(candidate, others) ==
    \A o \in others : Cardinality(o \cap candidate) <= strategy.maxSetOverlap

\* A number that keeps the limit if there is one, and any other otherwise.
Filling(s) ==
    LET avail == Numbers \ sets[s]
        others == {sets[o] : o \in (1 .. SetCount) \ {s}}
        legal == {n \in avail : overlapOk(sets[s] \cup {n}, others)}
    IN  IF strategy.maxSetOverlap >= Pick \/ legal = {} THEN avail ELSE legal

-----------------------------------------------------------------------------
(* The objective: what a design hits best in each draw *)

Matches(set, draw) == Cardinality(set \cap draw)
weightedHitScore(best) == SumFunctionOnSet(HitWeights, {k \in 0 .. Pick : best >= k})
Best(design, draw) == Max({Matches(design[s], draw) : s \in DOMAIN design})

\* Drawn once, from a seed of its own, and the same for every step.
searchSample == Draws
Score(design) == SumFunction([d \in searchSample |-> weightedHitScore(Best(design, d))])

\* One number of the set replaced.
Trials(set) == {(set \ {out}) \cup {in} : out \in set, in \in Numbers \ set}

\* Mutant: the hits of the set are counted, whatever the others hit.
Alone(s, trial) == SumFunction([d \in searchSample |-> weightedHitScore(Matches(trial, d))])
ScoreWith(s, trial) == Score([sets EXCEPT ![s] = trial])

\* The best replacement, if it is better than the set as it is.
Improved(s) ==
    LET better == {t \in Trials(sets[s]) : ScoreWith(s, t) > ScoreWith(s, sets[s])}
    IN  IF better = {} THEN {sets[s]}
        ELSE {t \in better : \A u \in better : ScoreWith(s, u) <= ScoreWith(s, t)}

-----------------------------------------------------------------------------
SetsInit ==
    /\ \E raw \in Answers : strategy = normalizeSpec(raw)
    /\ last \in Draws \cup {{}}
    /\ sets = <<>> /\ start = <<>> /\ cache = <<>>
    /\ stage = "none" /\ at = 0 /\ asks = 0

\* A searched design is made once for a generation.
generateSets ==
    /\ stage \in {"none", "done"} /\ asks < MaxAsks
    /\ asks' = asks + 1 /\ at' = 1 /\ last' \in Draws
    /\ UNCHANGED <<strategy, cache>>
    /\ IF strategy.searchSteps > 0 /\ cache # <<>>
       THEN sets' = cache /\ start' = cache /\ stage' = "done"
       ELSE /\ start' = <<>>
            /\ \/ strategy.fullCover /\ sets' \in Dealt /\ stage' = "fill"
               \/ ~strategy.fullCover /\ sets' = <<>> /\ stage' = "free"

\* The sets are drawn one by one; the limit of the overlap is given up like the filters.
drawFree ==
    /\ stage = "free"
    /\ \E set \in drawSet : sets' = Append(sets, set)
    /\ stage' = IF Len(sets') = SetCount THEN "check" ELSE "free"
    /\ UNCHANGED <<strategy, last, at, start, cache, asks>>

drawFullCover ==
    /\ stage = "fill"
    /\ IF Cardinality(sets[at]) < Pick
       THEN /\ \E n \in Filling(at) : sets' = [sets EXCEPT ![at] = @ \cup {n}]
            /\ UNCHANGED <<at, stage>>
       ELSE /\ at' = IF at = SetCount THEN 1 ELSE at + 1
            /\ stage' = IF at = SetCount THEN "check" ELSE "fill"
            /\ UNCHANGED sets
    /\ UNCHANGED <<strategy, last, start, cache, asks>>

\* A set that is there already is drawn again, some times, and then taken as it is.
DrawAgain ==
    /\ stage = "check"
    /\ IF \E earlier \in 1 .. at - 1 : sets[earlier] = sets[at]
       THEN \E set \in drawSet : sets' = [sets EXCEPT ![at] = set]
       ELSE UNCHANGED sets
    /\ at' = IF at = SetCount THEN 0 ELSE at + 1
    /\ stage' = IF at < SetCount THEN "check" ELSE IF strategy.searchSteps > 0 THEN "search" ELSE "done"
    /\ start' = IF stage' = "search" THEN sets' ELSE start
    /\ UNCHANGED <<strategy, last, cache, asks>>

optimizeDesign ==
    /\ stage = "search"
    /\ \E s \in 1 .. SetCount : \E set \in Improved(s) : sets' = [sets EXCEPT ![s] = set]
    /\ at' = at + 1
    /\ stage' = IF at' = strategy.searchSteps THEN "done" ELSE "search"
    /\ cache' = IF stage' = "done" THEN sets' ELSE cache
    /\ UNCHANGED <<strategy, last, start, asks>>

\* The process starts again and has kept nothing.
Restarts ==
    /\ stage # "none"
    /\ sets' = <<>> /\ start' = <<>> /\ cache' = <<>> /\ stage' = "none" /\ at' = 0
    /\ UNCHANGED <<strategy, last, asks>>

SetsNext == generateSets \/ drawFree \/ drawFullCover \/ DrawAgain \/ optimizeDesign \/ Restarts

SetsSpec == SetsInit /\ [][SetsNext]_setVars

-----------------------------------------------------------------------------
\* Whatever the agent says, a design that is handed out has its sets whole, and is what the
\* strategy asked for although the steps that make it may undo each other: all numbers are played
\* after the sets were filled up and doubles drawn again, none of the last draw where they are
\* excluded, and a search ends with a design at least as good as it began with (buildDesign,
\* optimizeDesign).
BuiltAsAsked ==
    stage = "done" =>
        /\ Len(sets) = SetCount
        /\ \A s \in 1 .. SetCount : sets[s] \subseteq Numbers /\ Cardinality(sets[s]) = Pick
        /\ strategy.searchSteps = 0 =>
              /\ strategy.fullCover => UNION {sets[s] : s \in 1 .. SetCount} = Numbers
              /\ strategy.excludeLastDraw /\ ~strategy.fullCover =>
                    \A s \in 1 .. SetCount : sets[s] \cap last = {}
        /\ strategy.searchSteps > 0 => Score(sets) >= Score(start)
=============================================================================
