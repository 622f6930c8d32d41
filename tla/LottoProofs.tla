---------------------------- MODULE LottoProofs ----------------------------
(***************************************************************************)
(* Proofs about LottoCycle: its types, that the cumulative score of a row  *)
(* counts the rounds scored under its run, and that picks on the board     *)
(* stand until they are scored, for any number of weeks, crashes and       *)
(* failures; and about LottoSets: that sets are built as the strategy      *)
(* asks, for any game, any weights of the hits and any draws.              *)
(***************************************************************************)
EXTENDS LottoCycle, LottoSets, FiniteSetTheorems, WellFoundedInduction, TLAPS

\* What the tables, the file and the cycle hold.
Rows == [run : {1, 2}, version : Nat, cum : Nat]
Picks == [round : Nat, run : 0 .. 2, version : Nat, at : Nat, seen : Nat]
Files == [run : {1, 2}, at : Nat, evolved : 0 .. Weeks, retryAt : Nat]
Cycles == [stage : Stages, range : Nat, last : 0 .. Weeks, version : Nat, seen : Nat,
           retry : BOOLEAN]

Types ==
    /\ time \in 0 .. End
    /\ published \in Nat /\ known \in Nat
    /\ from \in Seq(Nat \ {0})
    /\ preds \in [DOMAIN preds -> Rows] /\ DOMAIN preds \subseteq Rounds
    /\ upcoming \in Picks /\ file \in Files /\ cycle \in Cycles
    /\ queued \subseteq Triggers
    /\ faults \in 0 .. MaxFaults

\* Only published rounds are known, and only known rounds are scored.
KnownRounds ==
    /\ published <= Held(time) /\ known <= published
    /\ \A r \in DOMAIN preds : r <= known

\* The picks on the board are for a round that is known or the one after, in a real run.
PicksForNext ==
    upcoming # NoPick => upcoming.round \in 1 .. known + 1 /\ upcoming.run \in {1, 2}

\* The picks on the board have been scored under their run and version.
AsScored ==
    /\ upcoming.round \in DOMAIN preds
    /\ preds[upcoming.round].run = upcoming.run
    /\ preds[upcoming.round].version = upcoming.version

\* Their round is later than all scored rounds, until they are scored themselves.
ScoredInOrder ==
    upcoming # NoPick => (\A r \in DOMAIN preds : r < upcoming.round) \/ AsScored

\* What a cycle in progress has made sure of.
StagesKnow ==
    /\ cycle.stage \notin {"none", "sync"} => cycle.range = known
    /\ cycle.stage = "clear" => upcoming # NoPick /\ AsScored
    /\ cycle.stage \in {"evolve", "evolved", "commit"} =>
           upcoming = NoPick \/ upcoming.round > known
    /\ cycle.stage = "insert" => upcoming = NoPick

\* A version that is spoken of is in the table.
VersionsExist == cycle.version <= Len(from) /\ upcoming.version <= Len(from)

IInv ==
    /\ Types /\ KnownRounds /\ PicksForNext /\ ScoredInOrder
    /\ StagesKnow /\ VersionsExist /\ CumulativeIsSum

-----------------------------------------------------------------------------
LEMMA MaxOfBounded ==
    ASSUME NEW S \in SUBSET Nat, S # {}, NEW n \in Nat, \A x \in S : x <= n
    PROVE  Max(S) \in S /\ \A y \in S : Max(S) >= y
<1> DEFINE above(x) == {y \in S : y >= x}
           family == {above(x) : x \in S}
<1>1. IsFiniteSet(S)
  BY FS_BoundedSetOfNaturals
<1>2. family \subseteq FiniteSubsetsOf(S) /\ family # {}
  <2>1. ASSUME NEW x \in S PROVE above(x) \in FiniteSubsetsOf(S)
    <3>1. above(x) \in SUBSET S
      OBVIOUS
    <3>2. IsFiniteSet(above(x))
      BY <1>1, <3>1, FS_Subset
    <3>3. QED
      BY <3>1, <3>2 DEF FiniteSubsetsOf
  <2>2. QED
    BY <2>1
<1>3. PICK x \in S : \A y \in S : <<above(y), above(x)>> \notin StrictSubsetOrdering(S)
  <2> HIDE DEF above
  <2>1. \E F \in family : \A G \in family : ~ (<<G, F>> \in StrictSubsetOrdering(S))
    <3> HIDE DEF family
    <3> QED
      BY <1>2, FS_StrictSubsetOrderingWellFounded, WFMin
  <2>2. QED
    BY <2>1
<1>4. ASSUME NEW y \in S PROVE x >= y
  <2> SUFFICES ASSUME y > x PROVE FALSE
    BY <1>1
  <2>a. x \in Nat /\ y \in Nat /\ ~ (x >= y) /\ x >= x
    OBVIOUS
  <2>b. \A z \in S : z >= y => z >= x
    OBVIOUS
  <2>1. above(y) \subseteq above(x) /\ x \in above(x) /\ x \notin above(y)
    BY <2>a, <2>b, Zenon
  <2>2. above(y) \in SUBSET S /\ above(x) \in SUBSET S /\ above(y) # above(x)
    BY <2>1
  <2>3. <<above(y), above(x)>> \in StrictSubsetOrdering(S)
    <3> HIDE DEF above
    <3> QED
      BY <2>1, <2>2 DEF StrictSubsetOrdering
  <2>4. QED
    BY <2>3, <1>3
<1>5. QED
  BY <1>4 DEF Max

LEMMA PhaseOf ==
    ASSUME NEW t \in Nat
    PROVE  Phase(t) = "drawn" <=> t % 5 = 4
<1>1. t % 5 \in {0, 1, 2, 3, 4}
  OBVIOUS
<1>2. QED
  BY <1>1 DEF Phase

LEMMA HeldType ==
    ASSUME NEW t \in 0 .. End
    PROVE  Held(t) \in 0 .. Weeks - 1
<1>1. t \in Nat /\ t <= 5 * (Weeks - 1) + 2 /\ Weeks \in Nat /\ Weeks >= 1
  BY LottoAssumption DEF End
<1>2. t \div 5 \in Nat /\ t = 5 * (t \div 5) + (t % 5) /\ t % 5 \in {0,1,2,3,4}
  BY <1>1
<1>3. (Phase(t) = "drawn" <=> t % 5 = 4)
  BY <1>1, PhaseOf
<1>4. Held(t) = IF t % 5 = 4 THEN t \div 5 + 1 ELSE t \div 5
  BY <1>2, <1>3 DEF Held, Week
<1>5. QED
  BY <1>1, <1>2, <1>4

LEMMA HeldGrows ==
    ASSUME NEW t \in Nat
    PROVE  Held(t) <= Held(t + 1)
<1>2. t \div 5 \in Nat /\ t = 5 * (t \div 5) + (t % 5) /\ t % 5 \in {0,1,2,3,4}
  OBVIOUS
<1>3. t + 1 \in Nat /\ (t+1) \div 5 \in Nat /\ (t + 1) = 5 * ((t + 1) \div 5) + ((t + 1) % 5) /\ (t + 1) % 5 \in {0,1,2,3,4}
  OBVIOUS
<1>4. Held(t) = IF t % 5 = 4 THEN t \div 5 + 1 ELSE t \div 5
  BY <1>2, PhaseOf DEF Held, Week
<1>5. Held(t + 1) = IF (t + 1) % 5 = 4 THEN (t + 1) \div 5 + 1 ELSE (t + 1) \div 5
  BY <1>3, PhaseOf DEF Held, Week
<1>6. QED
  BY <1>2, <1>3, <1>4, <1>5
\* The latest of some rounds, or 0.
LEMMA LatestRound ==
    ASSUME NEW D \in SUBSET Rounds
    PROVE  /\ Max({0} \cup D) \in {0} \cup D
           /\ Max({0} \cup D) \in 0 .. Weeks
           /\ \A r \in D : r <= Max({0} \cup D)
<1>1. {0} \cup D \in SUBSET Nat /\ {0} \cup D # {} /\ Weeks \in Nat
      /\ \A x \in {0} \cup D : x <= Weeks
  BY LottoAssumption DEF Rounds
<1>2. Max({0} \cup D) \in {0} \cup D /\ \A y \in {0} \cup D : Max({0} \cup D) >= y
  BY <1>1, MaxOfBounded
<1>3. \A r \in D : r \in Nat /\ r <= Weeks
  BY <1>1
<1>4. Max({0} \cup D) \in Nat /\ Max({0} \cup D) <= Weeks
  BY <1>1, <1>2
<1>5. \A r \in D : r <= Max({0} \cup D)
  BY <1>2, <1>3, <1>4
<1>6. QED
  BY <1>1, <1>2, <1>4, <1>5

\* The latest round scored under a run.
LEMMA LastScored ==
    ASSUME Types, NEW u
    PROVE  /\ lastScored(u) \in 0 .. Weeks
           /\ lastScored(u) = 0 \/ (lastScored(u) \in DOMAIN preds /\ preds[lastScored(u)].run = u)
           /\ \A r \in DOMAIN preds : preds[r].run = u => r <= lastScored(u)
<1> DEFINE D == {r \in DOMAIN preds : preds[r].run = u}
<1>1. D \in SUBSET Rounds
  BY DEF Types
<1>2. lastScored(u) = Max({0} \cup D)
  BY DEF lastScored
<1>3. lastScored(u) \in {0} \cup D /\ lastScored(u) \in 0 .. Weeks
      /\ \A r \in D : r <= lastScored(u)
  <2> HIDE DEF D
  <2> QED
    BY <1>1, <1>2, LatestRound
<1>4. QED
  BY <1>3

\* The initial states.
LEMMA InitInvariant == Init => IInv
<1> SUFFICES ASSUME Init PROVE IInv
  OBVIOUS
<1>1. Weeks \in Nat /\ Weeks >= 1 /\ End \in Nat /\ End >= 2 /\ Never \in Nat /\ MaxFaults \in Nat
  BY LottoAssumption DEF End, Never
<1>2. preds \in [DOMAIN preds -> Rows] /\ DOMAIN preds = {}
  BY DEF Init
<1>3. upcoming = NoPick /\ NoPick \in Picks
  BY <1>1 DEF Init, NoPick, Picks
<1>4. file \in Files
  BY <1>1 DEF Init, LiveFile, DefaultFile, Files
<1>5. cycle = NoCycle /\ NoCycle \in Cycles
  BY <1>1 DEF Init, NoCycle, Cycles, Stages
<1>6. from = <<>> /\ from \in Seq(Nat \ {0}) /\ Len(from) = 0
  BY DEF Init
<1>7. Types
  BY <1>1, <1>2, <1>3, <1>4, <1>5, <1>6 DEF Init, Types
<1>8. KnownRounds
  <2>1. Held(time) \in 0 .. Weeks - 1
    BY <1>7, HeldType DEF Types
  <2>2. QED
    BY <1>1, <1>2, <2>1 DEF Init, KnownRounds
<1>9. PicksForNext /\ ScoredInOrder /\ StagesKnow
  BY <1>3, <1>5 DEF PicksForNext, ScoredInOrder, StagesKnow, NoCycle
<1>10. VersionsExist
  BY <1>3, <1>5, <1>6 DEF VersionsExist, NoPick, NoCycle
<1>11. CumulativeIsSum
  BY <1>2 DEF CumulativeIsSum
<1>12. QED
  BY <1>7, <1>8, <1>9, <1>10, <1>11 DEF IInv

-----------------------------------------------------------------------------
\* What follows the scoring writes what it should, and goes on to the agent or the picks.
LEMMA PreparedKeeps ==
    ASSUME Types, Prepared(preds)
    PROVE  /\ from' \in Seq(Nat \ {0}) /\ Len(from') \in Nat /\ Len(from) <= Len(from')
           /\ cycle' \in Cycles /\ cycle'.version = Len(from')
           /\ cycle'.stage \in {"evolve", "commit"} /\ cycle'.range = cycle.range
<1> DEFINE D == {r \in DOMAIN preds : preds[r].run = file.run}
<1>1. D \in SUBSET Rounds
  BY DEF Types
<1>2. Max({0} \cup D) \in 0 .. Weeks
  <2> HIDE DEF D
  <2> QED
    BY <1>1, LatestRound
<1>3. from' = IF from = <<>> THEN <<cycle.range + 1>> ELSE from
  BY DEF Prepared
<1>4. cycle.range + 1 \in Nat \ {0} /\ from \in Seq(Nat \ {0}) /\ cycle \in Cycles
  BY DEF Types, Cycles
<1>5. from' \in Seq(Nat \ {0}) /\ Len(from') \in Nat /\ Len(from) <= Len(from')
  <2>1. CASE from = <<>>
    BY <1>3, <1>4, <2>1
  <2>2. CASE from # <<>>
    BY <1>3, <1>4, <2>2
  <2>3. QED
    BY <2>1, <2>2
<1>6. cycle' = [cycle EXCEPT !.stage = IF file.evolved < Max({0} \cup D) THEN "evolve" ELSE "commit",
                             !.last = Max({0} \cup D), !.version = Len(from')]
  BY DEF Prepared
<1>7. QED
  <2> HIDE DEF D
  <2> QED
    BY <1>2, <1>4, <1>5, <1>6 DEF Cycles, Stages

\* A new row joins the table under the round of the picks.
LEMMA ScorePicksAdds ==
    ASSUME IInv, ScorePicks
    PROVE  LET u == upcoming.round
               l == lastScored(upcoming.run)
           IN /\ u \in Rounds /\ u \notin DOMAIN preds /\ u <= known
              /\ \A r \in DOMAIN preds : r < u
              /\ DOMAIN preds' = DOMAIN preds \cup {u}
              /\ \A r \in DOMAIN preds : preds'[r] = preds[r]
              /\ preds'[u] = [run |-> upcoming.run, version |-> upcoming.version,
                              cum |-> 1 + IF l = 0 THEN 0 ELSE preds[l].cum]
              /\ preds' \in [DOMAIN preds' -> Rows]
<1> DEFINE u == upcoming.round
           l == lastScored(upcoming.run)
           row == [run |-> upcoming.run, version |-> upcoming.version,
                   cum |-> 1 + IF l = 0 THEN 0 ELSE preds[l].cum]
<1>1. preds' = [r \in DOMAIN preds \cup {u} |-> IF r = u THEN row ELSE preds[r]]
      /\ upcoming # NoPick /\ u <= known /\ u > l
  BY DEF ScorePicks
<1>2. known \in 0 .. Weeks - 1
  <2>1. Held(time) \in 0 .. Weeks - 1
    BY HeldType DEF IInv, Types
  <2>2. published <= Held(time) /\ known <= published /\ published \in Nat /\ known \in Nat
    BY DEF IInv, KnownRounds, Types
  <2>3. QED
    BY <2>1, <2>2, LottoAssumption
<1>3. u \in Rounds
  BY <1>1, <1>2, LottoAssumption DEF IInv, PicksForNext, Rounds
<1>4. l \in 0 .. Weeks /\ (l = 0 \/ (l \in DOMAIN preds /\ preds[l].run = upcoming.run))
  BY LastScored DEF IInv
<1>5. ~ AsScored
  <2>1. SUFFICES ASSUME AsScored PROVE FALSE
    OBVIOUS
  <2>2. u <= l
    BY <2>1, LastScored DEF AsScored, IInv
  <2>3. l \in 0 .. Weeks
    BY LastScored DEF IInv
  <2>4. QED
    BY <1>1, <1>3, <2>2, <2>3 DEF Rounds
<1>6. \A r \in DOMAIN preds : r < u
  BY <1>1, <1>5 DEF IInv, ScoredInOrder
<1>7. u \notin DOMAIN preds
  BY <1>3, <1>6 DEF Rounds
<1>8. upcoming.run \in {1, 2} /\ upcoming.version \in Nat
  BY <1>1 DEF IInv, Types, Picks, PicksForNext
<1>9. row \in Rows
  <2>1. (IF l = 0 THEN 0 ELSE preds[l].cum) \in Nat
    <3>1. CASE l = 0
      BY <3>1
    <3>2. CASE l # 0
      BY <3>2, LastScored DEF IInv, Types, Rows
    <3>3. QED
      BY <3>1, <3>2
  <2>2. QED
    BY <1>8, <2>1 DEF Rows
<1>10. /\ DOMAIN preds' = DOMAIN preds \cup {u}
       /\ \A r \in DOMAIN preds : preds'[r] = preds[r]
       /\ preds'[u] = row
  <2> HIDE DEF row, u
  <2> QED
    BY <1>1, <1>7
<1>11. preds' \in [DOMAIN preds' -> Rows]
  <2>1. \A r \in DOMAIN preds : preds[r] \in Rows
    BY DEF IInv, Types
  <2> HIDE DEF row, u
  <2> QED
    BY <1>1, <1>9, <2>1
<1>12. QED
  BY <1>1, <1>3, <1>6, <1>7, <1>10, <1>11

LEMMA EarlierTime ==
    ASSUME NEW x \in Nat, NEW y \in Nat
    PROVE  Min({x, y}) \in Nat
BY DEF Min

\* Types are preserved by every step, and versions stay in the table.
LEMMA TypesStep == IInv /\ [Next]_vars => Types' /\ VersionsExist'
<1> SUFFICES ASSUME IInv, [Next]_vars PROVE Types' /\ VersionsExist'
  OBVIOUS
<1> DEFINE World == time' \in 0 .. End /\ published' \in Nat /\ known' \in Nat
           Sides == queued' \subseteq Triggers /\ faults' \in 0 .. MaxFaults
           Table == preds' \in [DOMAIN preds' -> Rows] /\ DOMAIN preds' \subseteq Rounds
           Board == upcoming' \in Picks /\ upcoming'.version <= Len(from')
           State == file' \in Files
           Versions == from' \in Seq(Nat \ {0})
           Run == cycle' \in Cycles /\ cycle'.version <= Len(from')
<1>a. ASSUME World, Sides, Table, Board, State, Versions, Run PROVE Types' /\ VersionsExist'
  BY <1>a DEF Types, VersionsExist
<1>0. /\ Types /\ from \in Seq(Nat \ {0}) /\ Len(from) \in Nat
      /\ cycle \in Cycles /\ upcoming \in Picks /\ file \in Files
      /\ cycle.version <= Len(from) /\ upcoming.version <= Len(from)
      /\ time \in 0 .. End /\ published \in Nat /\ known \in Nat
      /\ queued \subseteq Triggers /\ faults \in 0 .. MaxFaults /\ MaxFaults \in Nat
      /\ preds \in [DOMAIN preds -> Rows] /\ DOMAIN preds \subseteq Rounds
      /\ End \in Nat /\ Never \in Nat /\ time \in Nat
  <2>1. Weeks \in Nat /\ Weeks >= 1 /\ MaxFaults \in Nat
    BY LottoAssumption
  <2>2. End \in Nat /\ Never \in Nat
    BY <2>1 DEF End, Never
  <2>3. QED
    BY <2>1, <2>2 DEF IInv, Types, VersionsExist
<1>b. UNCHANGED <<time, published, known>> => World
  BY <1>0
<1>c. UNCHANGED <<queued, faults>> => Sides
  BY <1>0
<1>d. UNCHANGED preds => Table
  BY <1>0
<1>e. UNCHANGED <<upcoming, from>> => Board
  BY <1>0
<1>f. UNCHANGED file => State
  BY <1>0
<1>g. UNCHANGED from => Versions
  BY <1>0
<1>h. UNCHANGED <<cycle, from>> => Run
  BY <1>0
<1>i. NoCycle \in Cycles /\ NoCycle.version = 0 /\ NoPick \in Picks /\ NoPick.version = 0
  BY <1>0, LottoAssumption DEF NoCycle, Cycles, Stages, NoPick, Picks
<1>j. ASSUME NEW to \in Stages, GoTo(to), UNCHANGED from PROVE Run
  BY <1>0, <1>j DEF GoTo, Cycles
<1>k. faults' = faults + 1 /\ faults < MaxFaults => faults' \in 0 .. MaxFaults
  BY <1>0
<1> HIDE DEF World, Sides, Table, Board, State, Versions, Run
<1>1. CASE Tick
  <2>1. World
    BY <1>0, <1>1 DEF Tick, World
  <2>2. Sides
    BY <1>0, <1>1 DEF Tick, Sides, Triggers
  <2>3. QED
    BY <1>1, <2>1, <2>2, <1>a, <1>d, <1>e, <1>f, <1>g, <1>h DEF Tick
<1>2. CASE Publish
  <2>1. World
    BY <1>0, <1>2, HeldType DEF Publish, World
  <2>2. QED
    BY <1>2, <2>1, <1>a, <1>c, <1>d, <1>e, <1>f, <1>g, <1>h DEF Publish
<1>3. CASE Crash
  <2>1. Sides
    BY <1>0, <1>3, <1>k DEF Crash, Sides
  <2>2. State
    BY <1>0, <1>3, LottoAssumption DEF Crash, State, DefaultFile, Files
  <2>3. Run
    BY <1>0, <1>3, <1>i DEF Crash, Run
  <2>4. QED
    BY <1>3, <2>1, <2>2, <2>3, <1>a, <1>b, <1>d, <1>e, <1>g DEF Crash
<1>4. CASE CatchUp \/ ManualRequest
  <2>1. Sides
    BY <1>0, <1>4 DEF CatchUp, ManualRequest, Sides, Triggers
  <2>2. QED
    BY <1>4, <2>1, <1>a, <1>b, <1>d, <1>e, <1>f, <1>g, <1>h DEF CatchUp, ManualRequest
<1>5. ASSUME NEW trigger \in Triggers, GetSlot(trigger) PROVE Types' /\ VersionsExist'
  <2>1. Sides
    BY <1>0, <1>5 DEF GetSlot, Sides
  <2>2. Run
    <3>1. [NoCycle EXCEPT !.stage = "sync"] \in Cycles
          /\ [NoCycle EXCEPT !.stage = "sync"].version = 0
      BY <1>i DEF Cycles, Stages
    <3>2. QED
      BY <1>0, <1>5, <1>i, <3>1 DEF GetSlot, Run
  <2>3. QED
    BY <1>5, <2>1, <2>2, <1>a, <1>b, <1>d, <1>e, <1>f, <1>g DEF GetSlot
<1>6. ASSUME NEW latest \in Nat, NEW seen \in Nat, NEW retry \in BOOLEAN,
             AfterSync(latest, seen, retry), Sides
      PROVE  Types' /\ VersionsExist'
  <2>1. World
    BY <1>0, <1>6 DEF AfterSync, World
  <2>2. Run
    BY <1>0, <1>6 DEF AfterSync, Run, Cycles, Stages
  <2>3. QED
    BY <1>6, <2>1, <2>2, <1>a, <1>d, <1>e, <1>f, <1>g DEF AfterSync
<1>7. CASE SyncSucceeds
  <2>1. Sides
    BY <1>7, <1>c DEF SyncSucceeds, AfterSync
  <2>2. QED
    BY <1>0, <1>6, <1>7, <2>1 DEF SyncSucceeds
<1>8. CASE SyncFails
  <2>1. PICK retry \in BOOLEAN : AfterSync(known, Never, retry)
    BY <1>8 DEF SyncFails
  <2>2. Sides
    BY <1>0, <1>8, <1>k, <2>1 DEF SyncFails, AfterSync, Sides
  <2>3. QED
    BY <1>0, <1>6, <2>1, <2>2
<1>9. CASE NothingToScore \/ AlreadyScored \/ ClearPicks
  <2>1. Prepared(preds) /\ Types /\ UNCHANGED <<time, published, known, preds, file, queued, faults>>
    BY <1>0, <1>9 DEF NothingToScore, AlreadyScored, ClearPicks
  <2>2. /\ from' \in Seq(Nat \ {0}) /\ Len(from') \in Nat /\ Len(from) <= Len(from')
        /\ cycle' \in Cycles /\ cycle'.version = Len(from')
    BY <2>1, PreparedKeeps
  <2>3. Versions /\ Run
    BY <2>2 DEF Versions, Run
  <2>4. upcoming' \in {upcoming, NoPick}
    BY <1>9 DEF NothingToScore, AlreadyScored, ClearPicks
  <2>5. upcoming.version \in Nat
    BY <1>0 DEF Picks
  <2>6. Board
    BY <1>0, <1>i, <2>2, <2>4, <2>5 DEF Board
  <2>7. QED
    BY <2>1, <2>3, <2>6, <1>a, <1>b, <1>c, <1>d, <1>f
<1>10. CASE ScorePicks
  <2>1. Table
    <3>1. /\ upcoming.round \in Rounds /\ DOMAIN preds' = DOMAIN preds \cup {upcoming.round}
          /\ preds' \in [DOMAIN preds' -> Rows]
      BY <1>10, ScorePicksAdds
    <3>2. QED
      BY <1>0, <3>1 DEF Table
  <2>2. Run
    BY <1>10, <1>j DEF ScorePicks, Stages
  <2>3. QED
    BY <1>10, <2>1, <2>2, <1>a, <1>b, <1>c, <1>e, <1>f, <1>g DEF ScorePicks
<1>11. CASE EvolveSucceeds
  <2>1. PICK next \in Nat : from' = Append(from, 1 + next)
    <3>1. cycle.range \in Nat /\ upcoming.round \in Nat
      BY <1>0 DEF Cycles, Picks
    <3>2. QED
      BY <1>11, <3>1 DEF EvolveSucceeds
  <2>2. Versions /\ Len(from') = Len(from) + 1
    <3>1. 1 + next \in Nat \ {0}
      OBVIOUS
    <3>2. QED
      BY <1>0, <2>1, <3>1 DEF Versions
  <2>3. Run
    <3>1. Len(from') \in Nat
      BY <1>0, <2>2
    <3>2. cycle' = [cycle EXCEPT !.stage = "evolved", !.version = Len(from')]
      BY <1>11 DEF EvolveSucceeds
    <3>3. cycle' \in Cycles /\ cycle'.version = Len(from')
      BY <1>0, <3>1, <3>2 DEF Cycles, Stages
    <3>4. QED
      BY <3>1, <3>3 DEF Run
  <2>4. upcoming.version \in Nat
    BY <1>0 DEF Picks
  <2>5. Board
    BY <1>0, <1>11, <2>2, <2>4 DEF EvolveSucceeds, Board
  <2>6. QED
    BY <1>11, <2>2, <2>3, <2>5, <1>a, <1>b, <1>c, <1>d, <1>f DEF EvolveSucceeds
<1>12. CASE EvolveFails
  <2>1. Run
    <3>1. CASE GoTo("evolved")
      BY <1>12, <1>j, <3>1 DEF EvolveFails, Stages
    <3>2. CASE cycle' = [cycle EXCEPT !.stage = "commit", !.retry = TRUE]
      BY <1>0, <1>12, <3>2 DEF EvolveFails, Run, Cycles, Stages
    <3>3. QED
      BY <1>12, <3>1, <3>2 DEF EvolveFails
  <2>2. Sides
    BY <1>0, <1>12, <1>k DEF EvolveFails, Sides
  <2>3. QED
    BY <1>12, <2>1, <2>2, <1>a, <1>b, <1>d, <1>e, <1>f, <1>g DEF EvolveFails
<1>13. CASE SaveEvolved
  <2>1. Run
    BY <1>13, <1>j DEF SaveEvolved, Stages
  <2>2. State
    BY <1>0, <1>13 DEF SaveEvolved, State, Files, Cycles
  <2>3. QED
    BY <1>13, <2>1, <2>2, <1>a, <1>b, <1>c, <1>d, <1>e, <1>g DEF SaveEvolved
<1>14. CASE Commit
  <2>1. Run
    <3>1. CASE GoTo("save") \/ GoTo("insert")
      BY <1>14, <1>j, <3>1 DEF Commit, Stages
    <3>2. CASE cycle' = [cycle EXCEPT !.stage = "save", !.retry = TRUE]
      BY <1>0, <1>14, <3>2 DEF Commit, Run, Cycles, Stages
    <3>3. QED
      BY <1>14, <3>1, <3>2 DEF Commit
  <2>2. Board
    BY <1>0, <1>14, <1>i DEF Commit, Board
  <2>3. QED
    BY <1>14, <2>1, <2>2, <1>a, <1>b, <1>c, <1>d, <1>f, <1>g DEF Commit
<1>15. CASE InsertPicks
  <2>1. Run
    BY <1>15, <1>j DEF InsertPicks, Stages
  <2>2. upcoming' \in Picks /\ upcoming'.version = cycle.version
    <3>1. cycle.range + 1 \in Nat /\ cycle.version \in Nat /\ cycle.seen \in Nat /\ file.run \in 0 .. 2
      BY <1>0 DEF Cycles, Files
    <3>2. QED
      BY <1>0, <1>15, <3>1 DEF InsertPicks, Picks
  <2>3. Board
    BY <1>0, <1>15, <2>2 DEF InsertPicks, Board
  <2>4. QED
    BY <1>15, <2>1, <2>3, <1>a, <1>b, <1>c, <1>d, <1>f, <1>g DEF InsertPicks
<1>16. CASE SaveState
  <2>1. Run
    BY <1>0, <1>16, <1>i DEF SaveState, Run
  <2>2. Min({time + 1, End}) \in Nat
    <3>1. time + 1 \in Nat
      BY <1>0
    <3>2. QED
      BY <1>0, <3>1, EarlierTime
  <2>3. State
    <3>1. PICK t \in Nat :
            file' = [file EXCEPT !.at = time, !.retryAt = IF cycle.retry THEN t ELSE Never]
      BY <1>0, <1>16, <2>2 DEF SaveState
    <3>2. (IF cycle.retry THEN t ELSE Never) \in Nat
      BY <1>0
    <3>3. QED
      BY <1>0, <3>1, <3>2 DEF State, Files
  <2>4. QED
    BY <1>16, <2>1, <2>3, <1>a, <1>b, <1>c, <1>d, <1>e, <1>g DEF SaveState
<1>17. CASE UNCHANGED vars
  BY <1>17, <1>a, <1>b, <1>c, <1>d, <1>e, <1>f, <1>g, <1>h DEF vars
<1>18. QED
  BY <1>1, <1>2, <1>3, <1>4, <1>5, <1>7, <1>8, <1>9, <1>10, <1>11, <1>12, <1>13, <1>14, <1>15,
     <1>16, <1>17 DEF Next, CycleStep

-----------------------------------------------------------------------------
\* Only published rounds become known, and only known rounds are scored.
LEMMA KnownStep == IInv /\ Types' /\ [Next]_vars => KnownRounds'
<1> SUFFICES ASSUME IInv, Types', [Next]_vars PROVE KnownRounds'
  OBVIOUS
<1>0. /\ time \in Nat /\ time' \in Nat /\ published \in Nat /\ known \in Nat
      /\ Held(time) \in Nat /\ published <= Held(time) /\ known <= published
      /\ DOMAIN preds \subseteq Nat /\ \A r \in DOMAIN preds : r <= known
  BY LottoAssumption, HeldType DEF IInv, Types, KnownRounds, End, Rounds
<1>a. UNCHANGED <<time, published, known, preds>> => KnownRounds'
  BY <1>0 DEF KnownRounds, Held, Week, Phase
<1>1. CASE Tick
  <2>1. time' = time + 1 /\ UNCHANGED <<published, known, preds>>
    BY <1>1 DEF Tick
  <2>2. Held(time) <= Held(time') /\ Held(time') \in Nat
    BY <1>0, <2>1, HeldGrows, HeldType DEF Types
  <2>3. published <= Held(time')
    BY <1>0, <2>2
  <2>4. published' <= Held(time)'
    BY <2>1, <2>3 DEF Held, Week, Phase
  <2>5. QED
    BY <1>0, <2>1, <2>4 DEF KnownRounds
<1>2. CASE Publish
  <2>1. published' = Held(time) /\ UNCHANGED <<time, known, preds>>
    BY <1>2 DEF Publish
  <2>2. published' <= Held(time)'
    BY <1>0, <2>1 DEF Held, Week, Phase
  <2>3. QED
    BY <1>0, <2>1, <2>2 DEF KnownRounds
<1>3. CASE SyncSucceeds \/ SyncFails
  <2>1. known' \in {known, published} /\ UNCHANGED <<time, published, preds>>
    BY <1>3 DEF SyncSucceeds, SyncFails, AfterSync
  <2>2. published' <= Held(time)'
    BY <1>0, <2>1 DEF Held, Week, Phase
  <2>3. QED
    BY <1>0, <2>1, <2>2 DEF KnownRounds
<1>4. CASE ScorePicks
  <2>1. UNCHANGED <<time, published, known>>
    BY <1>4 DEF ScorePicks
  <2>2. DOMAIN preds' = DOMAIN preds \cup {upcoming.round} /\ upcoming.round <= known
    BY <1>4, ScorePicksAdds
  <2>3. published' <= Held(time)'
    BY <1>0, <2>1 DEF Held, Week, Phase
  <2>4. QED
    BY <1>0, <2>1, <2>2, <2>3 DEF KnownRounds
<1>5. QED
  BY <1>1, <1>2, <1>3, <1>4, <1>a DEF Next, CycleStep, Crash, CatchUp, ManualRequest, GetSlot,
     NothingToScore, AlreadyScored, ClearPicks, EvolveSucceeds, EvolveFails, SaveEvolved, Commit,
     InsertPicks, SaveState, vars

\* The picks on the board and the stages keep to each other.
BoardInv == PicksForNext /\ ScoredInOrder /\ StagesKnow

LEMMA BoardStep == IInv /\ [Next]_vars => BoardInv'
<1> SUFFICES ASSUME IInv, [Next]_vars PROVE BoardInv'
  OBVIOUS
<1>0. /\ known \in Nat /\ published \in Nat /\ known <= published
      /\ upcoming.round \in Nat /\ cycle.stage \in Stages
      /\ DOMAIN preds \subseteq Nat /\ \A r \in DOMAIN preds : r <= known
      /\ PicksForNext /\ ScoredInOrder /\ StagesKnow
  BY DEF IInv, Types, KnownRounds, Picks, Cycles, Rounds
<1>a. ASSUME UNCHANGED <<preds, upcoming>>, known' \in Nat, known <= known'
      PROVE  PicksForNext' /\ ScoredInOrder' /\ AsScored' = AsScored
  <2>1. AsScored' = AsScored
    BY <1>a DEF AsScored
  <2>2. PicksForNext'
    BY <1>0, <1>a DEF PicksForNext
  <2>3. ScoredInOrder'
    BY <1>0, <1>a, <2>1 DEF ScoredInOrder
  <2>4. QED
    BY <2>1, <2>2, <2>3
<1>b. ASSUME UNCHANGED <<preds, upcoming, known, cycle>> PROVE BoardInv'
  BY <1>0, <1>a, <1>b DEF BoardInv, StagesKnow
<1>c. ASSUME UNCHANGED <<preds, upcoming, known>>, cycle'.stage \in {"none", "sync"}
      PROVE  BoardInv'
  BY <1>0, <1>a, <1>c DEF BoardInv, StagesKnow
<1>d. ASSUME UNCHANGED <<preds, upcoming, known>>, cycle'.range = cycle.range,
             cycle.stage \in {"evolve", "evolved", "commit"},
             cycle'.stage \in {"evolved", "commit", "save"}
      PROVE  BoardInv'
  BY <1>0, <1>a, <1>d DEF BoardInv, StagesKnow
<1>e. ASSUME NEW to \in Stages, GoTo(to)
      PROVE  cycle'.stage = to /\ cycle'.range = cycle.range
  BY <1>e DEF GoTo, IInv, Types, Cycles
<1>f. ASSUME upcoming' = NoPick, UNCHANGED <<preds, known>>, cycle'.range = cycle.range,
             cycle.stage \notin {"none", "sync"}, cycle'.stage # "clear"
      PROVE  BoardInv'
  BY <1>0, <1>f DEF BoardInv, PicksForNext, ScoredInOrder, StagesKnow
<1>1. CASE Tick \/ Publish \/ CatchUp \/ ManualRequest \/ UNCHANGED vars
  BY <1>1, <1>b DEF Tick, Publish, CatchUp, ManualRequest, vars
<1>2. CASE Crash \/ SaveState
  BY <1>2, <1>c DEF Crash, SaveState, NoCycle
<1>3. ASSUME NEW trigger \in Triggers, GetSlot(trigger) PROVE BoardInv'
  BY <1>3, <1>c DEF GetSlot, NoCycle
<1>4. CASE SyncSucceeds \/ SyncFails
  <2>1. PICK latest \in {known, published}, seen \in {time, Never}, retry \in BOOLEAN :
          AfterSync(latest, seen, retry)
    BY <1>4 DEF SyncSucceeds, SyncFails
  <2>2. UNCHANGED <<preds, upcoming>> /\ known' = latest
    BY <2>1 DEF AfterSync
  <2>3. cycle'.stage \in {"save", "score"} /\ cycle'.range = latest
    BY <2>1 DEF AfterSync, IInv, Types, Cycles
  <2>4. StagesKnow'
    BY <2>2, <2>3 DEF StagesKnow
  <2>5. QED
    BY <1>0, <1>a, <2>2, <2>4 DEF BoardInv
<1>5. CASE NothingToScore
  <2>1. Prepared(preds) /\ UNCHANGED <<preds, upcoming, known>> /\ cycle.stage = "score"
        /\ (upcoming = NoPick \/ upcoming.round > known)
    BY <1>5 DEF NothingToScore, At
  <2>2. cycle'.stage \in {"evolve", "commit"} /\ cycle'.range = cycle.range
    BY <2>1, PreparedKeeps DEF IInv
  <2>3. StagesKnow'
    BY <1>0, <2>1, <2>2 DEF StagesKnow
  <2>4. QED
    BY <1>0, <1>a, <2>1, <2>3 DEF BoardInv
<1>6. CASE AlreadyScored \/ ClearPicks
  <2>1. Prepared(preds) /\ UNCHANGED <<preds, known>> /\ upcoming' = NoPick
        /\ cycle.stage \in {"score", "clear"}
    BY <1>6 DEF AlreadyScored, ClearPicks, At
  <2>2. cycle'.stage \in {"evolve", "commit"} /\ cycle'.range = cycle.range
    BY <2>1, PreparedKeeps DEF IInv
  <2>3. QED
    BY <1>f, <2>1, <2>2
<1>7. CASE ScorePicks
  <2>1. UNCHANGED <<upcoming, known>> /\ upcoming # NoPick /\ cycle.stage = "score"
        /\ GoTo("clear")
    BY <1>7 DEF ScorePicks, At
  <2>2. AsScored'
    BY <1>7, <2>1, ScorePicksAdds DEF AsScored
  <2>3. cycle'.stage = "clear" /\ cycle'.range = cycle.range
    BY <1>e, <2>1 DEF Stages
  <2>4. QED
    BY <1>0, <2>1, <2>2, <2>3 DEF BoardInv, PicksForNext, ScoredInOrder, StagesKnow
<1>8. CASE EvolveSucceeds \/ EvolveFails \/ SaveEvolved
  <2>1. cycle'.range = cycle.range /\ cycle'.stage \in {"evolved", "commit"}
    <3>1. CASE EvolveSucceeds
      BY <3>1 DEF EvolveSucceeds, IInv, Types, Cycles
    <3>2. CASE EvolveFails
      BY <3>2, <1>e DEF EvolveFails, IInv, Types, Cycles, Stages
    <3>3. CASE SaveEvolved
      BY <3>3, <1>e DEF SaveEvolved, Stages
    <3>4. QED
      BY <1>8, <3>1, <3>2, <3>3
  <2>2. cycle.stage \in {"evolve", "evolved"} /\ UNCHANGED <<preds, upcoming, known>>
    BY <1>8 DEF EvolveSucceeds, EvolveFails, SaveEvolved, At
  <2>3. QED
    BY <1>d, <2>1, <2>2
<1>9. CASE Commit
  <2>1. cycle.stage = "commit" /\ UNCHANGED <<preds, known>>
    BY <1>9 DEF Commit, At
  <2>2. CASE UNCHANGED upcoming /\ (GoTo("save") \/ cycle' = [cycle EXCEPT !.stage = "save", !.retry = TRUE])
    <3>1. cycle'.range = cycle.range /\ cycle'.stage = "save"
      BY <2>2, <1>e DEF IInv, Types, Cycles, Stages
    <3>2. QED
      BY <1>d, <2>1, <2>2, <3>1
  <2>3. CASE upcoming' = NoPick /\ GoTo("insert")
    <3>1. cycle'.range = cycle.range /\ cycle'.stage = "insert"
      BY <2>3, <1>e DEF Stages
    <3>2. QED
      BY <1>f, <2>1, <2>3, <3>1
  <2>4. QED
    BY <1>9, <2>2, <2>3 DEF Commit
<1>10. CASE InsertPicks
  <2>1. cycle.stage = "insert" /\ UNCHANGED <<preds, known>> /\ GoTo("save")
        /\ upcoming' = [round |-> cycle.range + 1, run |-> file.run, version |-> cycle.version,
                        at |-> time, seen |-> cycle.seen]
    BY <1>10 DEF InsertPicks, At
  <2>2. cycle'.range = cycle.range /\ cycle'.stage = "save" /\ cycle.range = known
    BY <1>0, <1>e, <2>1 DEF Stages, StagesKnow
  <2>3. upcoming'.round = known + 1 /\ upcoming'.run \in {1, 2}
    BY <2>1, <2>2 DEF IInv, Types, Files
  <2>4. PicksForNext'
    BY <1>0, <2>1, <2>3 DEF PicksForNext
  <2>5. ScoredInOrder'
    BY <1>0, <2>1, <2>3 DEF ScoredInOrder
  <2>6. StagesKnow'
    BY <2>1, <2>2 DEF StagesKnow
  <2>7. QED
    BY <2>4, <2>5, <2>6 DEF BoardInv
<1>11. QED
  BY <1>1, <1>2, <1>3, <1>4, <1>5, <1>6, <1>7, <1>8, <1>9, <1>10 DEF Next, CycleStep

-----------------------------------------------------------------------------
\* The rounds that a table of rows scored under the run of round r, up to r.
Counted(rows, r) == {q \in DOMAIN rows : q <= r /\ rows[q].run = rows[r].run}

\* The sums stay true: a new row adds its round to the rounds its predecessor counts.
LEMMA SumStep == IInv /\ [Next]_vars => CumulativeIsSum'
<1> SUFFICES ASSUME IInv, [Next]_vars PROVE CumulativeIsSum'
  OBVIOUS
<1>1. CASE ScorePicks
  <2> DEFINE u == upcoming.round
             l == lastScored(upcoming.run)
             earlier == {q \in DOMAIN preds : preds[q].run = upcoming.run}
  <2>1. /\ u \in Nat /\ u \notin DOMAIN preds /\ \A r \in DOMAIN preds : r \in Nat /\ r < u
        /\ DOMAIN preds' = DOMAIN preds \cup {u}
        /\ \A r \in DOMAIN preds : preds'[r] = preds[r]
        /\ preds'[u].run = upcoming.run
        /\ preds'[u].cum = 1 + IF l = 0 THEN 0 ELSE preds[l].cum
    BY <1>1, ScorePicksAdds DEF IInv, Types, Rounds
  <2> HIDE DEF u
  <2>2. ASSUME NEW r \in DOMAIN preds PROVE Counted(preds', r) = Counted(preds, r)
    BY <2>1, <2>2 DEF Counted
  <2>3. Counted(preds', u) = earlier \cup {u}
    <3>1. u \in Counted(preds', u)
      BY <2>1 DEF Counted
    <3>2. ASSUME NEW q \in DOMAIN preds PROVE q \in Counted(preds', u) <=> q \in earlier
      BY <2>1, <3>2 DEF Counted
    <3>3. \A q \in Counted(preds', u) : q = u \/ q \in DOMAIN preds
      BY <2>1 DEF Counted
    <3>4. earlier \subseteq DOMAIN preds
      OBVIOUS
    <3> HIDE DEF earlier
    <3>5. QED
      BY <3>1, <3>2, <3>3, <3>4
  <2>4. IsFiniteSet(earlier) /\ u \notin earlier
    <3>1. DOMAIN preds \subseteq 1 .. Weeks /\ earlier \in SUBSET (1 .. Weeks)
      BY DEF IInv, Types, Rounds
    <3>a. 1 \in Int /\ Weeks \in Int
      BY LottoAssumption
    <3>b. IsFiniteSet(1 .. Weeks)
      BY <3>a, FS_Interval
    <3>2. QED
      BY <2>1, <3>1, <3>b, FS_Subset
  <2>5. Cardinality(earlier) = IF l = 0 THEN 0 ELSE preds[l].cum
    <3>1. CASE l = 0
      <4>1. earlier = {}
        BY <3>1, LastScored DEF IInv, Types, Rounds
      <4>2. QED
        BY <3>1, <4>1, FS_EmptySet
    <3>2. CASE l # 0
      <4>1. l \in DOMAIN preds /\ preds[l].run = upcoming.run
            /\ \A r \in DOMAIN preds : preds[r].run = upcoming.run => r <= l
        BY <3>2, LastScored DEF IInv
      <4>2. earlier = Counted(preds, l)
        <5> HIDE DEF l
        <5> QED
          BY <4>1 DEF Counted
      <4>3. preds[l].cum = Cardinality(Counted(preds, l))
        BY <4>1 DEF IInv, CumulativeIsSum, Counted
      <4>4. QED
        BY <3>2, <4>2, <4>3
    <3>3. QED
      BY <3>1, <3>2
  <2>6. Cardinality(earlier \cup {u}) = Cardinality(earlier) + 1
    BY <2>4, FS_AddElement
  <2>7. Cardinality(earlier) \in Nat
    BY <2>4, FS_CardinalityType
  <2>8. ASSUME NEW r \in DOMAIN preds' PROVE preds'[r].cum = Cardinality(Counted(preds', r))
    <3>1. CASE r = u
      <4>1. preds'[u].cum = 1 + Cardinality(earlier)
        BY <2>1, <2>5
      <4>2. Cardinality(Counted(preds', u)) = Cardinality(earlier) + 1
        BY <2>3, <2>6
      <4>3. QED
        BY <2>7, <3>1, <4>1, <4>2
    <3>2. CASE r \in DOMAIN preds
      <4>1. preds[r].cum = Cardinality(Counted(preds, r))
        BY <3>2 DEF IInv, CumulativeIsSum, Counted
      <4>2. QED
        BY <2>1, <2>2, <3>2, <4>1
    <3>3. QED
      BY <2>1, <2>8, <3>1, <3>2
  <2>9. QED
    BY <2>8 DEF CumulativeIsSum, Counted
<1>2. CASE UNCHANGED preds
  BY <1>2 DEF IInv, CumulativeIsSum
<1>3. QED
  BY <1>1, <1>2 DEF Next, CycleStep, Tick, Publish, Crash, CatchUp, ManualRequest, GetSlot,
     SyncSucceeds, SyncFails, AfterSync, NothingToScore, AlreadyScored, ClearPicks,
     EvolveSucceeds, EvolveFails, SaveEvolved, Commit, InsertPicks, SaveState, vars

\* Picks leave the board only after they have been scored.
LEMMA PicksStandStep ==
    ASSUME IInv, [Next]_vars, upcoming # NoPick, upcoming' # upcoming
    PROVE  upcoming.round \in DOMAIN preds /\ preds[upcoming.round].version = upcoming.version
<1>0. StagesKnow /\ ScoredInOrder /\ PicksForNext /\ known \in Nat
  BY DEF IInv, Types
<1>1. CASE ClearPicks
  BY <1>0, <1>1 DEF ClearPicks, At, StagesKnow, AsScored
<1>2. CASE AlreadyScored
  <2> DEFINE u == upcoming.round
             l == lastScored(upcoming.run)
  <2>1. u \in Nat /\ u >= 1 /\ u <= l
    BY <1>0, <1>2 DEF AlreadyScored, PicksForNext
  <2>2. l \in Nat /\ (l = 0 \/ l \in DOMAIN preds)
    BY LastScored DEF IInv
  <2>3. ~ \A r \in DOMAIN preds : r < u
    BY <2>1, <2>2
  <2>4. QED
    BY <1>0, <2>3 DEF ScoredInOrder, AsScored
<1>3. CASE Commit
  <2>1. upcoming.round # cycle.range + 1 /\ cycle.stage = "commit"
    BY <1>3 DEF Commit, At
  <2>2. upcoming.round > known /\ cycle.range = known /\ upcoming.round \in 1 .. known + 1
    BY <1>0, <2>1 DEF StagesKnow, PicksForNext
  <2>3. QED
    BY <1>0, <2>1, <2>2
<1>4. CASE InsertPicks
  BY <1>0, <1>4 DEF InsertPicks, At, StagesKnow
<1>5. QED
  BY <1>1, <1>2, <1>3, <1>4 DEF Next, CycleStep, Tick, Publish, Crash, CatchUp, ManualRequest,
     GetSlot, SyncSucceeds, SyncFails, AfterSync, NothingToScore, ScorePicks, EvolveSucceeds,
     EvolveFails, SaveEvolved, SaveState, vars

-----------------------------------------------------------------------------
LEMMA InvariantStep == IInv /\ [Next]_vars => IInv'
BY TypesStep, KnownStep, BoardStep, SumStep DEF IInv, BoardInv

LEMMA InvariantHolds == Spec => []IInv
BY InitInvariant, InvariantStep, PTL DEF Spec

\* Whatever fails, the tables, the file and the cycle keep to their types (src/src/lotto/store.ts).
THEOREM LottoTypes == Spec => []TypeOK
<1>1. IInv => TypeOK
  <2> SUFFICES ASSUME IInv PROVE TypeOK
    OBVIOUS
  <2>1. Held(time) \in 0 .. Weeks - 1 /\ Weeks \in Nat
    BY HeldType, LottoAssumption DEF IInv, Types
  <2>2. published \in 0 .. Weeks /\ known \in 0 .. Weeks - 1
    BY <2>1 DEF IInv, Types, KnownRounds
  <2>3. upcoming.round \in 0 .. Weeks
    BY <2>1, <2>2 DEF IInv, PicksForNext, NoPick
  <2>4. upcoming.version \in 0 .. Len(from)
    BY DEF IInv, Types, Picks, VersionsExist
  <2>5. QED
    BY <2>1, <2>2, <2>3, <2>4 DEF IInv, Types, TypeOK, Files, Cycles
<1>2. QED
  BY <1>1, InvariantHolds, PTL

\* The cumulative score of a row counts the rounds scored under its run up to it, also when a
\* crash comes between the insertion of a score and the removal of the picks
\* (src/src/lotto/cycle.ts:376).
THEOREM LottoCumulativeIsSum == Spec => []CumulativeIsSum
BY InvariantHolds, PTL DEF IInv

\* Picks on the board are never replaced or dropped before their round is scored under the
\* version they came from (src/src/lotto/cycle.ts:411).
THEOREM LottoPicksStand == Spec => PicksStand
<1>1. IInv /\ [Next]_vars
      => [upcoming # NoPick /\ upcoming' # upcoming
            => /\ upcoming.round \in DOMAIN preds
               /\ preds[upcoming.round].version = upcoming.version]_vars
  BY PicksStandStep
<1>2. QED
  BY <1>1, InvariantHolds, PTL DEF Spec, PicksStand

-----------------------------------------------------------------------------
(* Sums, as the score of a design is one. *)

LEMMA FirstOfNumbers ==
    ASSUME NEW S \in SUBSET Nat, NEW n \in S
    PROVE  \E x \in S : \A y \in S : x <= y
<1> DEFINE T == {x \in S : x <= n}
           turned == {n - x : x \in T}
<1>1. turned \in SUBSET Nat /\ turned # {} /\ \A t \in turned : t <= n
  <2>1. \A x \in T : n - x \in Nat /\ n - x <= n
    OBVIOUS
  <2>2. n \in T
    OBVIOUS
  <2>3. QED
    BY <2>1, <2>2
<1>2. PICK t \in turned : \A u \in turned : t >= u
  <2> HIDE DEF turned
  <2> QED
    BY <1>1, MaxOfBounded
<1>3. PICK x \in T : t = n - x
  BY <1>2
<1>4. ASSUME NEW y \in S PROVE x <= y
  <2>1. CASE y \in T
    <3>1. n - y \in turned
      BY <2>1
    <3>2. n - y <= n - x /\ x \in Nat /\ y \in Nat
      BY <1>2, <1>3, <3>1
    <3>3. QED
      BY <3>2
  <2>2. CASE y \notin T
    BY <2>2
  <2>3. QED
    BY <2>1, <2>2
<1>5. QED
  BY <1>3, <1>4

\* What the sum over s is made of, and a function that gives it for all subsets in L.
Part(f, g, s) ==
    IF s = {} THEN 0 ELSE LET x == CHOOSE x \in s : TRUE IN f[x] + g[s \ {x}]
Sums(f, g, L) == g = [s \in L |-> Part(f, g, s)]

LEMMA SumUnfolds ==
    ASSUME NEW f, NEW S, NEW g, Sums(f, g, SUBSET S)
    PROVE  \E h : Sums(f, h, SUBSET S) /\ SumFunctionOnSet(f, S) = h[S]
<1> DEFINE h == CHOOSE h : h = [s \in SUBSET S |-> Part(f, h, s)]
<1>1. h = [s \in SUBSET S |-> Part(f, h, s)]
  <2> HIDE DEF Part
  <2> QED
    BY DEF Sums
<1>2. SumFunctionOnSet(f, S) = h[S]
  BY DEF SumFunctionOnSet, FoldFunctionOnSet, MapThenFoldSet, Part
<1>3. QED
  BY <1>1, <1>2 DEF Sums

LEMMA SumExists ==
    ASSUME NEW f, NEW S, IsFiniteSet(S)
    PROVE  \E g : Sums(f, g, SUBSET S)
<1> DEFINE Layer(n) == {s \in SUBSET S : Cardinality(s) <= n}
           bad == {n \in Nat : ~ \E g : Sums(f, g, Layer(n))}
<1>1. \A s \in SUBSET S : IsFiniteSet(s) /\ Cardinality(s) \in Nat /\ Cardinality(s) <= Cardinality(S)
  BY FS_Subset, FS_CardinalityType
<1>2. \E g : Sums(f, g, Layer(0))
  <2>1. Layer(0) = {{}}
    <3>1. \A s \in SUBSET S : Cardinality(s) <= 0 <=> s = {}
      BY <1>1, FS_EmptySet
    <3>2. QED
      BY <3>1
  <2>2. Sums(f, [s \in Layer(0) |-> 0], Layer(0))
    BY <2>1 DEF Sums, Part
  <2>3. QED
    BY <2>2
<1>3. ASSUME NEW n \in Nat, NEW g, Sums(f, g, Layer(n)) PROVE \E h : Sums(f, h, Layer(n + 1))
  <2> DEFINE h == [s \in Layer(n + 1) |-> IF s \in Layer(n) THEN g[s] ELSE Part(f, g, s)]
  <2>1. ASSUME NEW s \in Layer(n + 1), s # {} PROVE s \ {CHOOSE x \in s : TRUE} \in Layer(n)
    <3>1. PICK x \in s : x = CHOOSE y \in s : TRUE
      BY <2>1
    <3>2. Cardinality(s \ {x}) = Cardinality(s) - 1 /\ s \ {x} \in SUBSET S
      BY <1>1, FS_RemoveElement
    <3>3. QED
      BY <1>1, <3>1, <3>2
  <2>2. \A s \in Layer(n) : s \in Layer(n + 1)
    BY <1>1
  <2>3. \A s \in Layer(n) : h[s] = g[s]
    BY <2>2
  <2>4. ASSUME NEW s \in Layer(n + 1) PROVE Part(f, h, s) = Part(f, g, s)
    <3> HIDE DEF h, Layer
    <3> QED
      BY <2>1, <2>3 DEF Part
  <2>5. ASSUME NEW s \in Layer(n + 1) PROVE h[s] = Part(f, h, s)
    <3>1. CASE s \in Layer(n)
      <4>1. g[s] = Part(f, g, s)
        BY <1>3, <3>1 DEF Sums
      <4>2. QED
        BY <2>3, <2>4, <3>1, <4>1
    <3>2. CASE s \notin Layer(n)
      BY <2>4, <3>2
    <3>3. QED
      BY <3>1, <3>2
  <2>6. h = [s \in Layer(n + 1) |-> Part(f, h, s)]
    <3>1. h = [s \in Layer(n + 1) |-> h[s]]
      OBVIOUS
    <3> HIDE DEF h, Layer
    <3>2. QED
      BY <2>5, <3>1
  <2>7. QED
    BY <2>6 DEF Sums
<1>4. bad = {}
  <2>1. SUFFICES ASSUME NEW m \in bad PROVE FALSE
    OBVIOUS
  <2> HIDE DEF Layer
  <2>2. PICK n \in bad : \A k \in bad : n <= k
    BY FirstOfNumbers
  <2>3. n \in Nat /\ n # 0
    BY <1>2
  <2>4. n - 1 \in Nat /\ n - 1 \notin bad /\ n = (n - 1) + 1
    BY <2>2, <2>3
  <2>5. \E g : Sums(f, g, Layer(n - 1))
    BY <2>4
  <2>6. \E g : Sums(f, g, Layer((n - 1) + 1))
    BY <1>3, <2>4, <2>5
  <2>7. QED
    BY <2>4, <2>6
<1>5. Cardinality(S) \in Nat
  BY FS_CardinalityType
<1>6. Layer(Cardinality(S)) = SUBSET S
  BY <1>1
<1>7. \E g : Sums(f, g, Layer(Cardinality(S)))
  <2> HIDE DEF Layer
  <2> QED
    BY <1>4, <1>5
<1>8. QED
  <2> HIDE DEF Layer
  <2> QED
    BY <1>6, <1>7

LEMMA SumIsInt ==
    ASSUME NEW f, NEW S, IsFiniteSet(S), \A x \in S : f[x] \in Int
    PROVE  SumFunctionOnSet(f, S) \in Int
<1>1. PICK g : Sums(f, g, SUBSET S) /\ SumFunctionOnSet(f, S) = g[S]
  BY SumExists, SumUnfolds
<1> DEFINE bad == {n \in Nat : \E s \in SUBSET S : Cardinality(s) = n /\ g[s] \notin Int}
<1>2. \A s \in SUBSET S : IsFiniteSet(s) /\ Cardinality(s) \in Nat
  BY FS_Subset, FS_CardinalityType
<1>3. \A s \in SUBSET S : g[s] = Part(f, g, s)
  BY <1>1 DEF Sums
<1>4. bad = {}
  <2>1. SUFFICES ASSUME NEW m \in bad PROVE FALSE
    OBVIOUS
  <2>2. PICK n \in bad : \A k \in bad : n <= k
    BY FirstOfNumbers
  <2>3. PICK s \in SUBSET S : Cardinality(s) = n /\ g[s] \notin Int
    OBVIOUS
  <2>4. s # {}
    BY <1>3, <2>3 DEF Part
  <2>5. PICK x \in s : x = CHOOSE y \in s : TRUE
    BY <2>4
  <2>6. g[s] = f[x] + g[s \ {x}]
    BY <1>3, <2>4, <2>5 DEF Part
  <2>7. s \ {x} \in SUBSET S /\ Cardinality(s \ {x}) = n - 1
    BY <1>2, <2>3, FS_RemoveElement
  <2>8. g[s \ {x}] \in Int
    <3>1. n - 1 \in Nat
      BY <1>2, <2>7
    <3>2. ~ (n <= n - 1)
      BY <3>1
    <3>3. n - 1 \notin bad
      BY <2>2, <3>2
    <3>4. QED
      BY <2>7, <3>1, <3>3
  <2>9. QED
    BY <2>3, <2>6, <2>8
<1>5. QED
  BY <1>1, <1>2, <1>4

LEMMA ScoreIsInt ==
    ASSUME NEW design
    PROVE  Score(design) \in Int
<1>1. ASSUME NEW best PROVE weightedHitScore(best) \in Int
  <2> DEFINE hits == {k \in 0 .. Pick : best >= k}
  <2>1. IsFiniteSet(0 .. Pick) /\ hits \in SUBSET (0 .. Pick)
    BY SetsAssumption, FS_Interval
  <2>2. IsFiniteSet(hits)
    BY <2>1, FS_Subset
  <2>3. \A k \in hits : HitWeights[k] \in Int
    BY SetsAssumption
  <2> HIDE DEF hits
  <2>4. SumFunctionOnSet(HitWeights, hits) \in Int
    BY <2>2, <2>3, SumIsInt
  <2>5. QED
    BY <2>4 DEF weightedHitScore, hits
<1> DEFINE scores == [d \in searchSample |-> weightedHitScore(Best(design, d))]
<1>2. IsFiniteSet(DOMAIN scores) /\ \A d \in DOMAIN scores : scores[d] \in Int
  BY <1>1, SetsAssumption DEF searchSample
<1>3. SumFunctionOnSet(scores, DOMAIN scores) \in Int
  <2> HIDE DEF scores
  <2> QED
    BY <1>2, SumIsInt
<1>4. QED
  BY <1>3 DEF Score, SumFunction

-----------------------------------------------------------------------------
(* The sets that are played. *)

\* All sets have their numbers.
Whole(design) == design \in [1 .. SetCount -> kSubset(Pick, Numbers)]

\* The design has what the strategy asks for: all numbers, or none of the last draw.
AsAsked(design) ==
    /\ strategy.fullCover => UNION {design[s] : s \in 1 .. SetCount} = Numbers
    /\ strategy.excludeLastDraw /\ ~strategy.fullCover =>
          \A s \in 1 .. SetCount : design[s] \cap last = {}

\* What each stage of the making knows of the sets.
Drawing == stage = "free" =>
    /\ ~strategy.fullCover
    /\ sets \in Seq(drawSet) /\ Len(sets) < SetCount /\ at = 1
FillingUp == stage = "fill" =>
    /\ strategy.fullCover
    /\ at \in 1 .. SetCount
    /\ sets \in [1 .. SetCount -> SUBSET Numbers]
    /\ \A s \in 1 .. SetCount : Cardinality(sets[s]) <= Pick
    /\ \A s \in 1 .. at - 1 : Cardinality(sets[s]) = Pick
    /\ AsAsked(sets)
Checking == stage = "check" => at \in 1 .. SetCount /\ Whole(sets) /\ AsAsked(sets)
Searching == stage = "search" =>
    strategy.searchSteps > 0 /\ Whole(sets) /\ Score(sets) >= Score(start)
CacheWhole == cache # <<>> => Whole(cache)

SetsInv == Drawing /\ FillingUp /\ Checking /\ Searching /\ CacheWhole /\ BuiltAsAsked

LEMMA SetFacts ==
    ASSUME NEW set \in SUBSET Numbers
    PROVE  IsFiniteSet(set) /\ Cardinality(set) \in Nat
<1>1. IsFiniteSet(Numbers)
  BY SetsAssumption, FS_Interval DEF Numbers
<1>2. QED
  BY <1>1, FS_Subset, FS_CardinalityType

LEMMA WholeIsSeq ==
    ASSUME NEW design, Whole(design)
    PROVE  Len(design) = SetCount /\ DOMAIN design = 1 .. SetCount
BY SetsAssumption DEF Whole

LEMMA DrawnSets ==
    ASSUME NEW set \in drawSet
    PROVE  /\ set \in kSubset(Pick, Numbers)
           /\ strategy.excludeLastDraw /\ ~strategy.fullCover => set \cap last = {}
BY DEF drawSet, kSubset, pool, Excluded

LEMMA Division ==
    ASSUME NEW n \in Nat, NEW k \in Nat \ {0}
    PROVE  n \div k \in Nat /\ n % k \in 0 .. k - 1 /\ n = k * (n \div k) + (n % k)
<1>1. n % k \in 0 .. k - 1
  OBVIOUS
<1>2. n = k * (n \div k) + (n % k)
  OBVIOUS
<1>3. n \div k \in Int /\ n \div k >= 0
  OBVIOUS
<1>4. QED
  BY <1>1, <1>2, <1>3

LEMMA Monotone ==
    ASSUME NEW k \in Nat, NEW a \in Nat, NEW b \in Nat, a <= b
    PROVE  k * a <= k * b
OBVIOUS

LEMMA DealtSets ==
    ASSUME NEW design \in Dealt
    PROVE  /\ design \in [1 .. SetCount -> SUBSET Numbers]
           /\ \A s \in 1 .. SetCount : Cardinality(design[s]) <= Pick
           /\ UNION {design[s] : s \in 1 .. SetCount} = Numbers
<1> DEFINE share(s) == N \div SetCount + IF s <= N % SetCount THEN 1 ELSE 0
<1>1. PICK order \in [Numbers -> 1 .. SetCount] :
         /\ \A s \in 1 .. SetCount : Cardinality({n \in Numbers : order[n] = s}) = share(s)
         /\ design = [s \in 1 .. SetCount |-> {n \in Numbers : order[n] = s}]
  BY DEF Dealt
<1>2. \A s \in 1 .. SetCount : share(s) <= Pick
  <2> DEFINE q == N \div SetCount
             r == N % SetCount
  <2>1. q \in Nat /\ r \in 0 .. SetCount - 1 /\ N = SetCount * q + r
    BY SetsAssumption, Division
  <2>2. q <= Pick
    <3> HIDE DEF q, r
    <3>1. CASE Pick + 1 <= q
      <4>1. SetCount * (Pick + 1) <= SetCount * q
        BY <2>1, <3>1, SetsAssumption, Monotone
      <4>2. SetCount * (Pick + 1) = SetCount * Pick + SetCount
        BY SetsAssumption
      <4>3. SetCount * q \in Nat /\ SetCount * Pick \in Nat
        BY <2>1, SetsAssumption
      <4>4. QED
        BY <2>1, <4>1, <4>2, <4>3, SetsAssumption
    <3>2. QED
      BY <2>1, <3>1, SetsAssumption
  <2>3. r >= 1 => q # Pick
    <3>1. SetCount * Pick \in Nat
      BY SetsAssumption
    <3> HIDE DEF q, r
    <3>2. QED
      BY <2>1, <3>1, SetsAssumption
  <2>4. ASSUME NEW s \in 1 .. SetCount PROVE share(s) <= Pick
    <3>1. share(s) = q + IF s <= r THEN 1 ELSE 0
      OBVIOUS
    <3> HIDE DEF q, r, share
    <3>2. QED
      BY <2>1, <2>2, <2>3, <3>1, SetsAssumption
  <2>5. QED
    BY <2>4
<1>3. \A n \in Numbers : n \in design[order[n]]
  BY <1>1
<1>4. design \in [1 .. SetCount -> SUBSET Numbers]
  BY <1>1
<1> HIDE DEF share
<1>5. QED
  BY <1>1, <1>2, <1>3, <1>4

LEMMA TrialsArePlayable ==
    ASSUME NEW set \in kSubset(Pick, Numbers), NEW trial \in Trials(set)
    PROVE  trial \in kSubset(Pick, Numbers)
<1>1. PICK out \in set, in \in Numbers \ set : trial = (set \ {out}) \cup {in}
  BY DEF Trials
<1>2. IsFiniteSet(set) /\ Cardinality(set) = Pick /\ set \in SUBSET Numbers
  BY SetFacts DEF kSubset
<1>3. IsFiniteSet(set \ {out}) /\ Cardinality(set \ {out}) = Pick - 1
  BY <1>2, FS_RemoveElement
<1>4. Cardinality(trial) = (Pick - 1) + 1
  BY <1>1, <1>3, FS_AddElement
<1>5. trial \in SUBSET Numbers
  BY <1>1, <1>2
<1>6. QED
  BY <1>4, <1>5, SetsAssumption DEF kSubset

\* A step of the search keeps the sets whole and never loses score.
LEMMA ImprovedKeeps ==
    ASSUME Whole(sets), NEW s \in 1 .. SetCount, NEW set \in Improved(s)
    PROVE  /\ Whole([sets EXCEPT ![s] = set])
           /\ Score([sets EXCEPT ![s] = set]) >= Score(sets)
<1>1. sets = [sets EXCEPT ![s] = sets[s]] /\ sets[s] \in kSubset(Pick, Numbers)
  BY DEF Whole
<1>2. ScoreWith(s, sets[s]) = Score(sets)
  BY <1>1 DEF ScoreWith
<1>3. Score(sets) \in Int /\ ScoreWith(s, set) \in Int
  BY ScoreIsInt DEF ScoreWith
<1>4. set = sets[s] \/ (set \in Trials(sets[s]) /\ ScoreWith(s, set) > ScoreWith(s, sets[s]))
  BY DEF Improved
<1>5. CASE set = sets[s]
  BY <1>1, <1>3, <1>5
<1>6. CASE set \in Trials(sets[s]) /\ ScoreWith(s, set) > ScoreWith(s, sets[s])
  <2>1. set \in kSubset(Pick, Numbers)
    BY <1>1, <1>6, TrialsArePlayable
  <2>2. Whole([sets EXCEPT ![s] = set])
    BY <2>1 DEF Whole
  <2>3. ScoreWith(s, set) >= Score(sets)
    BY <1>2, <1>3, <1>6
  <2>4. QED
    BY <2>2, <2>3 DEF ScoreWith
<1>7. QED
  BY <1>4, <1>5, <1>6

LEMMA FillingKeeps ==
    ASSUME SetsInv, stage = "fill", Cardinality(sets[at]) < Pick, NEW n \in Filling(at),
           NEW filled, filled = [sets EXCEPT ![at] = @ \cup {n}]
    PROVE  /\ filled \in [1 .. SetCount -> SUBSET Numbers]
           /\ \A s \in 1 .. SetCount : Cardinality(filled[s]) <= Pick
           /\ \A s \in 1 .. at - 1 : Cardinality(filled[s]) = Pick
           /\ AsAsked(filled)
<1>1. /\ strategy.fullCover /\ at \in 1 .. SetCount
      /\ sets \in [1 .. SetCount -> SUBSET Numbers]
      /\ \A s \in 1 .. SetCount : Cardinality(sets[s]) <= Pick
      /\ \A s \in 1 .. at - 1 : Cardinality(sets[s]) = Pick
      /\ AsAsked(sets)
  BY DEF SetsInv, FillingUp
<1>2. n \in Numbers \ sets[at]
  BY DEF Filling
<1>3. filled \in [1 .. SetCount -> SUBSET Numbers] /\ filled[at] = sets[at] \cup {n}
  BY <1>1, <1>2
<1>4. \A s \in 1 .. SetCount : s # at => filled[s] = sets[s]
  BY <1>1
<1>5. Cardinality(filled[at]) <= Pick
  <2>1. IsFiniteSet(sets[at]) /\ Cardinality(sets[at]) \in Nat
    BY <1>1, SetFacts
  <2>2. Cardinality(filled[at]) = Cardinality(sets[at]) + 1
    BY <1>2, <1>3, <2>1, FS_AddElement
  <2>3. QED
    BY <2>1, <2>2, SetsAssumption
<1>6. \A s \in 1 .. at - 1 : s \in 1 .. SetCount /\ s # at
  BY <1>1, SetsAssumption
<1>7. UNION {filled[s] : s \in 1 .. SetCount} = Numbers
  <2>1. \A s \in 1 .. SetCount : sets[s] \subseteq filled[s] /\ filled[s] \subseteq Numbers
    BY <1>1, <1>3, <1>4
  <2>2. UNION {sets[s] : s \in 1 .. SetCount} = Numbers
    BY <1>1 DEF AsAsked
  <2>3. QED
    BY <2>1, <2>2
<1>8. QED
  BY <1>1, <1>3, <1>4, <1>5, <1>6, <1>7 DEF AsAsked

\* A double may go: its numbers are in the set that is like it.
LEMMA DoubleMayGo ==
    ASSUME Whole(sets), AsAsked(sets), at \in 1 .. SetCount, NEW set \in drawSet,
           NEW earlier \in 1 .. at - 1, sets[earlier] = sets[at],
           NEW drawn, drawn = [sets EXCEPT ![at] = set]
    PROVE  Whole(drawn) /\ AsAsked(drawn)
<1>1. /\ set \in kSubset(Pick, Numbers)
      /\ strategy.excludeLastDraw /\ ~strategy.fullCover => set \cap last = {}
  BY DrawnSets
<1>2. earlier \in 1 .. SetCount /\ earlier # at
  BY SetsAssumption
<1>3. Whole(drawn) /\ drawn[at] = set /\ \A s \in 1 .. SetCount : s # at => drawn[s] = sets[s]
  BY <1>1 DEF Whole
<1>4. ASSUME strategy.fullCover PROVE UNION {drawn[s] : s \in 1 .. SetCount} = Numbers
  <2>1. \A s \in 1 .. SetCount : drawn[s] \subseteq Numbers
    BY <1>3 DEF Whole, kSubset
  <2>2. \A s \in 1 .. SetCount : \E t \in 1 .. SetCount : sets[s] = drawn[t]
    BY <1>2, <1>3
  <2>3. UNION {sets[s] : s \in 1 .. SetCount} = Numbers
    BY <1>4 DEF AsAsked
  <2>4. QED
    BY <2>1, <2>2, <2>3
<1>5. QED
  BY <1>1, <1>3, <1>4 DEF AsAsked

LEMMA SetsStart == SetsInit => SetsInv
BY DEF SetsInit, SetsInv, Drawing, FillingUp, Checking, Searching, CacheWhole, BuiltAsAsked

LEMMA SetsStep == SetsInv /\ [SetsNext]_setVars => SetsInv'
<1> SUFFICES ASSUME SetsInv, [SetsNext]_setVars PROVE SetsInv'
  OBVIOUS
<1> USE DEF SetsInv, Drawing, FillingUp, Checking, Searching, CacheWhole
<1>a. ASSUME Whole(sets)', (strategy.searchSteps = 0)' => AsAsked(sets)',
             (strategy.searchSteps > 0)' => Score(sets') >= Score(start')
      PROVE  BuiltAsAsked'
  <2>1. Len(sets') = SetCount
    BY <1>a, WholeIsSeq DEF Whole
  <2>2. \A s \in 1 .. SetCount : sets'[s] \subseteq Numbers /\ Cardinality(sets'[s]) = Pick
    BY <1>a DEF Whole, kSubset
  <2>3. QED
    BY <1>a, <2>1, <2>2 DEF BuiltAsAsked, AsAsked
<1>1. CASE generateSets
  <2>1. UNCHANGED <<strategy, cache>>
    BY <1>1 DEF generateSets
  <2>2. CASE strategy.searchSteps > 0 /\ cache # <<>>
    <3>1. sets' = cache /\ start' = cache /\ stage' = "done"
      BY <1>1, <2>2 DEF generateSets
    <3>2. Whole(sets)' /\ Score(sets') >= Score(start')
      BY <2>2, <3>1, ScoreIsInt DEF Whole
    <3>3. BuiltAsAsked'
      BY <2>1, <2>2, <3>2, <1>a
    <3>4. QED
      BY <2>1, <3>1, <3>3
  <2>3. CASE ~(strategy.searchSteps > 0 /\ cache # <<>>)
    <3>1. CASE strategy.fullCover /\ sets' \in Dealt /\ stage' = "fill"
      <4>1. at' = 1
        BY <1>1 DEF generateSets
      <4>2. FillingUp'
        BY <2>1, <3>1, <4>1, DealtSets, SetsAssumption DEF AsAsked
      <4>3. QED
        BY <2>1, <3>1, <4>2 DEF BuiltAsAsked
    <3>2. CASE ~strategy.fullCover /\ sets' = <<>> /\ stage' = "free"
      <4>1. at' = 1
        BY <1>1 DEF generateSets
      <4>2. Drawing'
        BY <2>1, <3>2, <4>1, SetsAssumption
      <4>3. QED
        BY <2>1, <3>2, <4>2 DEF BuiltAsAsked
    <3>3. QED
      BY <1>1, <2>3, <3>1, <3>2 DEF generateSets
  <2>4. QED
    BY <2>2, <2>3
<1>2. CASE drawFree
  <2>1. PICK set \in drawSet : sets' = Append(sets, set)
    BY <1>2 DEF drawFree
  <2>2. /\ stage = "free" /\ UNCHANGED <<strategy, last, at, start, cache, asks>>
        /\ stage' = IF Len(sets') = SetCount THEN "check" ELSE "free"
    BY <1>2 DEF drawFree
  <2>3. sets \in Seq(drawSet) /\ Len(sets) < SetCount /\ at = 1 /\ ~strategy.fullCover
    BY <2>2
  <2>4. sets' \in Seq(drawSet) /\ Len(sets') = Len(sets) + 1
    BY <2>1, <2>3
  <2>5. drawSet' = drawSet
    BY <2>2 DEF drawSet, pool, Excluded
  <2>6. CASE Len(sets') = SetCount
    <3>1. sets' \in [1 .. SetCount -> drawSet]
      BY <2>4, <2>6
    <3>2. Whole(sets)' /\ AsAsked(sets)'
      BY <2>2, <2>3, <3>1, DrawnSets DEF Whole, AsAsked
    <3>3. QED
      BY <2>2, <2>3, <2>6, <3>2, SetsAssumption DEF BuiltAsAsked
  <2>7. CASE Len(sets') # SetCount
    <3>1. Len(sets') < SetCount
      BY <2>3, <2>4, <2>7, SetsAssumption
    <3>2. Drawing'
      BY <2>2, <2>3, <2>4, <2>5, <3>1
    <3>3. QED
      BY <2>2, <2>7, <3>2 DEF BuiltAsAsked
  <2>8. QED
    BY <2>6, <2>7
<1>3. CASE drawFullCover
  <2>1. stage = "fill" /\ UNCHANGED <<strategy, last, start, cache, asks>>
    BY <1>3 DEF drawFullCover
  <2>2. CASE Cardinality(sets[at]) < Pick
    <3>1. PICK n \in Filling(at) : sets' = [sets EXCEPT ![at] = @ \cup {n}]
      BY <1>3, <2>2 DEF drawFullCover
    <3>2. UNCHANGED <<at, stage>>
      BY <1>3, <2>2 DEF drawFullCover
    <3>3. /\ sets' \in [1 .. SetCount -> SUBSET Numbers]
          /\ \A s \in 1 .. SetCount : Cardinality(sets'[s]) <= Pick
          /\ \A s \in 1 .. at - 1 : Cardinality(sets'[s]) = Pick
          /\ AsAsked(sets')
      <4> HIDE DEF SetsInv
      <4>1. QED
        BY <2>1, <2>2, <3>1, FillingKeeps
    <3>4. AsAsked(sets)'
      BY <2>1, <3>3 DEF AsAsked
    <3>5. FillingUp'
      BY <2>1, <3>2, <3>3, <3>4
    <3>6. QED
      BY <2>1, <3>2, <3>5 DEF BuiltAsAsked
  <2>3. CASE ~(Cardinality(sets[at]) < Pick)
    <3>1. /\ at' = (IF at = SetCount THEN 1 ELSE at + 1) /\ UNCHANGED sets
          /\ stage' = (IF at = SetCount THEN "check" ELSE "fill")
      BY <1>3, <2>3 DEF drawFullCover
    <3>2. at \in 1 .. SetCount /\ sets[at] \in SUBSET Numbers /\ Cardinality(sets[at]) <= Pick
      BY <2>1
    <3>3. Cardinality(sets[at]) = Pick
      BY <2>3, <3>2, SetFacts, SetsAssumption
    <3>4. \A s \in 1 .. at : Cardinality(sets[s]) = Pick
      BY <2>1, <3>2, <3>3
    <3>5. AsAsked(sets)'
      BY <2>1, <3>1 DEF AsAsked
    <3>6. CASE at = SetCount
      <4>1. Whole(sets)'
        BY <2>1, <3>1, <3>4, <3>6 DEF Whole, kSubset
      <4>2. QED
        BY <2>1, <3>1, <3>5, <3>6, <4>1, SetsAssumption DEF BuiltAsAsked
    <3>7. CASE at # SetCount
      <4>1. at' \in 1 .. SetCount /\ at' - 1 = at
        BY <3>1, <3>2, <3>7, SetsAssumption
      <4>2. FillingUp'
        BY <2>1, <3>1, <3>4, <3>5, <4>1
      <4>3. QED
        BY <2>1, <3>1, <3>7, <4>2 DEF BuiltAsAsked
    <3>8. QED
      BY <3>6, <3>7
  <2>4. QED
    BY <2>2, <2>3
<1>4. CASE DrawAgain
  <2>1. /\ stage = "check" /\ UNCHANGED <<strategy, last, cache, asks>>
        /\ at' = (IF at = SetCount THEN 0 ELSE at + 1)
        /\ stage' = IF at < SetCount THEN "check"
                    ELSE IF strategy.searchSteps > 0 THEN "search" ELSE "done"
        /\ start' = IF stage' = "search" THEN sets' ELSE start
    BY <1>4 DEF DrawAgain
  <2>2. at \in 1 .. SetCount /\ Whole(sets) /\ AsAsked(sets)
    BY <2>1
  <2>3. Whole(sets') /\ AsAsked(sets')
    <3>1. CASE \E earlier \in 1 .. at - 1 : sets[earlier] = sets[at]
      <4>1. PICK set \in drawSet : sets' = [sets EXCEPT ![at] = set]
        BY <1>4, <3>1 DEF DrawAgain
      <4>2. QED
        BY <2>2, <3>1, <4>1, DoubleMayGo
    <3>2. CASE ~ \E earlier \in 1 .. at - 1 : sets[earlier] = sets[at]
      BY <1>4, <2>2, <3>2 DEF DrawAgain
    <3>3. QED
      BY <3>1, <3>2
  <2>4. Whole(sets)' /\ AsAsked(sets)'
    BY <2>1, <2>3 DEF Whole, AsAsked
  <2>5. CASE at < SetCount
    <3>1. at' \in 1 .. SetCount /\ stage' = "check"
      BY <2>1, <2>2, <2>5, SetsAssumption
    <3>2. QED
      BY <2>1, <2>4, <3>1 DEF BuiltAsAsked
  <2>6. CASE ~(at < SetCount) /\ strategy.searchSteps > 0
    <3>1. stage' = "search" /\ start' = sets'
      BY <2>1, <2>6
    <3>2. Score(sets') >= Score(start')
      BY <3>1, ScoreIsInt
    <3>3. Searching'
      BY <2>1, <2>4, <2>6, <3>1, <3>2
    <3>4. QED
      BY <2>1, <3>1, <3>3 DEF BuiltAsAsked
  <2>7. CASE ~(at < SetCount) /\ ~(strategy.searchSteps > 0)
    <3>1. stage' = "done"
      BY <2>1, <2>7
    <3>2. BuiltAsAsked'
      BY <2>1, <2>4, <2>7, <1>a
    <3>3. QED
      BY <2>1, <3>1, <3>2
  <2>8. QED
    BY <2>5, <2>6, <2>7
<1>5. CASE optimizeDesign
  <2>0. PICK s \in 1 .. SetCount : \E set \in Improved(s) : sets' = [sets EXCEPT ![s] = set]
    BY <1>5 DEF optimizeDesign
  <2>1. PICK set \in Improved(s) : sets' = [sets EXCEPT ![s] = set]
    BY <2>0
  <2>2. /\ stage = "search" /\ UNCHANGED <<strategy, last, start, asks>>
        /\ stage' = IF at' = strategy.searchSteps THEN "done" ELSE "search"
        /\ cache' = IF stage' = "done" THEN sets' ELSE cache
    BY <1>5 DEF optimizeDesign
  <2>3. strategy.searchSteps > 0 /\ Whole(sets) /\ Score(sets) >= Score(start)
    BY <2>2
  <2>4. Whole(sets') /\ Score(sets') >= Score(sets)
    BY <2>1, <2>3, ImprovedKeeps
  <2>5. Score(sets') >= Score(start')
    <3>1. Score(sets') \in Int /\ Score(sets) \in Int /\ Score(start) \in Int /\ start' = start
      BY <2>2, ScoreIsInt
    <3>2. QED
      BY <2>3, <2>4, <3>1
  <2>6. Whole(sets)'
    BY <2>4 DEF Whole
  <2>7. CacheWhole'
    BY <2>2, <2>6 DEF Whole
  <2>8. CASE stage' = "done"
    <3>1. BuiltAsAsked'
      BY <2>2, <2>3, <2>5, <2>6, <1>a
    <3>2. QED
      BY <2>7, <2>8, <3>1
  <2>9. CASE stage' = "search"
    BY <2>2, <2>3, <2>5, <2>6, <2>7, <2>9 DEF BuiltAsAsked
  <2>10. QED
    BY <2>2, <2>8, <2>9
<1>6. CASE Restarts
  BY <1>6 DEF Restarts, BuiltAsAsked
<1>7. CASE UNCHANGED setVars
  <2>1. AsAsked(sets)' = AsAsked(sets) /\ drawSet' = drawSet
    BY <1>7 DEF setVars, AsAsked, drawSet, pool, Excluded
  <2>2. QED
    BY <1>7, <2>1 DEF setVars, BuiltAsAsked
<1>8. QED
  BY <1>1, <1>2, <1>3, <1>4, <1>5, <1>6, <1>7 DEF SetsNext

\* Whatever the agent says and wherever the process starts again, the sets that are handed out
\* are whole and what the strategy asked for: all numbers, or none of the last draw, or a design
\* at least as good as the search began with (buildDesign, src/src/lotto/strategy.ts:389).
THEOREM LottoBuiltAsAsked == SetsSpec => []BuiltAsAsked
<1>1. SetsInv => BuiltAsAsked
  BY DEF SetsInv
<1>2. QED
  BY <1>1, SetsStart, SetsStep, PTL DEF SetsSpec
=============================================================================
