----------------------------- MODULE PulseProofs -----------------------------
(***************************************************************************)
(* Theorems about Pulse, for any issues, symbols, caps, severities and     *)
(* number of days: the caps hold, a dry run stays silent, and a row is     *)
(* delivered once, and once more at most for each crash that cut off its   *)
(* mark and for each flush that met it on its way.                         *)
(*                                                                         *)
(* The caps are not inductive.  A run counts the rows once, before it      *)
(* judges, and counts on by itself, while the morning digest and the       *)
(* switch change the rows beside it.  The invariant says that what a run   *)
(* counts is never less than what there is (CountsCover): only the run     *)
(* adds live rows of its day, and all others only take some away           *)
(* (RowsOnlyEnd).                                                          *)
(*                                                                         *)
(* What a row has been told is not inductive either: a digest that is      *)
(* under way will count when it ends.  The invariant charges the row for   *)
(* the digests that have it on their way beforehand (RowsTellDelivery).    *)
(***************************************************************************)
EXTENDS Pulse, FiniteSetTheorems, SequenceTheorems, TLAPS

Rows == [issue : Issues, sev : 0 .. 2, day : Nat, at : Nat, status : Statuses, dry : BOOLEAN, told : Nat,
         cut : Nat, met : Nat]
Counts == [total : Nat, macro : Nat, bySymbol : [Symbols -> Nat]]
Runs == [stage : {"none", "news", "agent", "judge", "send"}, started : Nat, dry : BOOLEAN, textOn : BOOLEAN,
         recent : SUBSET Nat, counts : Counts, todo : Seq(Candidates)]

Types ==
    /\ time \in 0 .. End /\ due \in BOOLEAN
    /\ up \in BOOLEAN /\ on \in BOOLEAN /\ backoff \in BOOLEAN /\ faults \in 0 .. MaxFaults
    /\ alerts \in Seq(Rows)
    /\ run \in Runs /\ run.recent \subseteq Ids
    /\ digest \in [Flushes -> SUBSET Ids]

\* A live row that no flush met on its way with another.
Plain(a) == Live(a) /\ a.met = 0

\* Those of a date that have a symbol: the daily cap is about them.
OnSymbols(d) == {i \in Ids : Plain(alerts[i]) /\ alerts[i].day = d /\ Scope[alerts[i].issue] # "macro"}

Today == Day(run.started)
Judging == run.stage \in {"judge", "send"}

\* The counts of a run that judges cover the rows there are.
CountsCover ==
    Judging =>
        /\ \A s \in Symbols : Cardinality(LiveOn(Today, s)) <= run.counts.bySymbol[s]
        /\ Cardinality(OnSymbols(Today)) <= run.counts.total
        /\ Cardinality(LiveOn(Today, "macro")) <= run.counts.macro

\* What is being sent was neither capped nor found by a dry run.
SendingIsAllowed ==
    run.stage = "send" => run.todo # <<>> /\ ~Capped(Head(run.todo)) /\ ~run.dry

Caps(d) ==
    /\ \A s \in Symbols : Cardinality(LiveOn(d, s)) <= PerSymbolCap
    /\ Cardinality(OnSymbols(d)) <= DailyCap
    /\ Cardinality(LiveOn(d, "macro")) <= MacroCap

CapsKept == \A d \in Nat : Caps(d)

\* What a digest takes along stays in the queue until it is marked, and no other digest takes it,
\* unless another flush met it on its way.
DigestIsQueued ==
    \A i \in Ids : alerts[i].met = 0 =>
        /\ Flying(i) # {} => alerts[i].status = "queued"
        /\ \A f, g \in Flying(i) : f = g

\* The deliveries of a row, those that are still possible included; what waits in the queue has
\* one to come.
Told(a, flying) ==
    /\ a.told + Cardinality(flying) <= 1 + a.cut + a.met
    /\ a.status = "queued" /\ flying = {} => a.told <= a.cut + a.met

\* A dry run leaves no rows.
RowsTellDelivery == \A i \in Ids : ~alerts[i].dry /\ Told(alerts[i], Flying(i))

IInv ==
    /\ Types /\ CountsCover /\ SendingIsAllowed /\ CapsKept
    /\ DigestIsQueued /\ RowsTellDelivery

-----------------------------------------------------------------------------
(* Rows and their numbers.                                                 *)

LEMMA SubsetIsSmaller ==
    ASSUME NEW S, IsFiniteSet(S), NEW T \in SUBSET S
    PROVE  Cardinality(T) \in Nat /\ Cardinality(T) <= Cardinality(S)
BY FS_Subset, FS_CardinalityType

LEMMA OneMore ==
    ASSUME NEW S, IsFiniteSet(S), NEW n, NEW T \in SUBSET (S \cup {n})
    PROVE  Cardinality(T) \in Nat /\ Cardinality(T) <= Cardinality(S) + 1
<1>1. /\ IsFiniteSet(S \cup {n}) /\ Cardinality(S \cup {n}) <= Cardinality(S) + 1
      /\ Cardinality(S) \in Nat /\ Cardinality(S \cup {n}) \in Nat
  BY FS_AddElement, FS_CardinalityType
<1>2. Cardinality(T) \in Nat /\ Cardinality(T) <= Cardinality(S \cup {n})
  BY <1>1, SubsetIsSmaller
<1> QED BY <1>1, <1>2

LEMMA ScopeOfIssue == \A i \in Issues : Scope[i] \in Symbols \/ Scope[i] = "macro"
BY PulseAssumption DEF Symbols

LEMMA MacroIsNoSymbol == "macro" \notin Symbols
BY DEF Symbols

LEMMA IdsFinite ==
    ASSUME alerts \in Seq(Rows)
    PROVE  IsFiniteSet(Ids) /\ Ids = 1 .. Len(alerts) /\ Len(alerts) \in Nat
<1>1. Ids = 1 .. Len(alerts) /\ Len(alerts) \in Nat BY DEF Ids
<1> QED BY <1>1, FS_Interval

LEMMA SetsFinite ==
    ASSUME alerts \in Seq(Rows)
    PROVE  /\ \A d, s : IsFiniteSet(LiveOn(d, s)) /\ Cardinality(LiveOn(d, s)) \in Nat
           /\ \A d : IsFiniteSet(OnSymbols(d)) /\ Cardinality(OnSymbols(d)) \in Nat
<1>1. IsFiniteSet(Ids) BY IdsFinite
<1>2. \A d, s : LiveOn(d, s) \in SUBSET Ids BY DEF LiveOn
<1>3. \A d : OnSymbols(d) \in SUBSET Ids BY DEF OnSymbols
<1> QED BY <1>1, <1>2, <1>3, FS_Subset, FS_CardinalityType

\* CapsHold in the words of the invariant.
LEMMA UnionIsOnSymbols ==
    ASSUME alerts \in Seq(Rows), NEW d
    PROVE  UNION {LiveOn(d, s) : s \in Symbols} = OnSymbols(d)
<1>1. \A i \in Ids : alerts[i] \in Rows BY DEF Ids
<1>2. \A i \in Ids : alerts[i].issue \in Issues BY <1>1 DEF Rows
<1>3. \A i \in Ids : Scope[alerts[i].issue] # "macro" => Scope[alerts[i].issue] \in Symbols
  BY <1>2, ScopeOfIssue
<1>4. ASSUME NEW i \in OnSymbols(d) PROVE i \in UNION {LiveOn(d, s) : s \in Symbols}
  <2>1. i \in Ids /\ Scope[alerts[i].issue] \in Symbols BY <1>3 DEF OnSymbols
  <2>2. i \in LiveOn(d, Scope[alerts[i].issue]) BY DEF OnSymbols, LiveOn, Plain
  <2> QED BY <2>1, <2>2
<1>5. ASSUME NEW s \in Symbols, NEW i \in LiveOn(d, s) PROVE i \in OnSymbols(d)
  BY MacroIsNoSymbol DEF LiveOn, OnSymbols, Plain
<1> QED BY <1>4, <1>5
-----------------------------------------------------------------------------
(* Steps that change rows.                                                 *)

\* A function on the rows' numbers is a table of as many rows.
LEMMA TableOfRows ==
    ASSUME alerts \in Seq(Rows), NEW f, f = [i \in Ids |-> f[i]], \A i \in Ids : f[i] \in Rows
    PROVE  f \in Seq(Rows) /\ Len(f) = Len(alerts) /\ DOMAIN f = Ids
<1>1. Ids = 1 .. Len(alerts) /\ Len(alerts) \in Nat BY IdsFinite
<1>2. f \in [1 .. Len(alerts) -> Rows] BY <1>1
<1>3. f \in Seq(Rows) BY <1>1, <1>2, SeqDef
<1> QED BY <1>1, <1>2, <1>3

\* Where rows only come to an end, no number grows.
LEMMA RowsOnlyEnd ==
    ASSUME alerts \in Seq(Rows), alerts' \in Seq(Rows), Len(alerts') = Len(alerts),
           \A i \in Ids : /\ alerts'[i].issue = alerts[i].issue /\ alerts'[i].day = alerts[i].day
                          /\ Plain(alerts'[i]) => Plain(alerts[i])
    PROVE  /\ \A d, s : /\ Cardinality(LiveOn(d, s)') <= Cardinality(LiveOn(d, s))
                        /\ Cardinality(LiveOn(d, s)') \in Nat
           /\ \A d : /\ Cardinality(OnSymbols(d)') <= Cardinality(OnSymbols(d))
                     /\ Cardinality(OnSymbols(d)') \in Nat
<1>1. Ids' = Ids BY DEF Ids
<1>2. \A d, s : LiveOn(d, s)' \in SUBSET LiveOn(d, s) BY <1>1 DEF LiveOn, Plain, Live
<1>3. \A d : OnSymbols(d)' \in SUBSET OnSymbols(d) BY <1>1 DEF OnSymbols, Plain, Live
<1> QED BY <1>2, <1>3, SetsFinite, FS_Subset, FS_CardinalityType

\* So the caps hold on, and so do the counts of the run in progress.
LEMMA EndingKeepsCaps ==
    ASSUME Types, CapsKept, alerts' \in Seq(Rows), Len(alerts') = Len(alerts),
           \A i \in Ids : /\ alerts'[i].issue = alerts[i].issue /\ alerts'[i].day = alerts[i].day
                          /\ Plain(alerts'[i]) => Plain(alerts[i])
    PROVE  CapsKept' /\ (CountsCover /\ UNCHANGED run => CountsCover')
<1>1. alerts \in Seq(Rows) BY DEF Types
<1>2. /\ \A d, s : /\ Cardinality(LiveOn(d, s)') <= Cardinality(LiveOn(d, s))
                   /\ Cardinality(LiveOn(d, s)') \in Nat /\ Cardinality(LiveOn(d, s)) \in Nat
      /\ \A d : /\ Cardinality(OnSymbols(d)') <= Cardinality(OnSymbols(d))
                /\ Cardinality(OnSymbols(d)') \in Nat /\ Cardinality(OnSymbols(d)) \in Nat
  BY <1>1, RowsOnlyEnd, SetsFinite
<1>3. ASSUME NEW d \in Nat PROVE Caps(d)'
  <2>1. Caps(d) BY DEF CapsKept
  <2> QED BY <1>2, <2>1, PulseAssumption DEF Caps
<1>4. ASSUME CountsCover, UNCHANGED run, Judging PROVE CountsCover'
  <2>1. Today' = Today BY <1>4 DEF Today, Day
  <2>2. /\ run.counts.total \in Nat /\ run.counts.macro \in Nat
        /\ \A s \in Symbols : run.counts.bySymbol[s] \in Nat
    BY DEF Types, Runs, Counts
  <2>3. ASSUME NEW d, d = Today
        PROVE  /\ \A s \in Symbols : Cardinality(LiveOn(d, s)') <= run.counts.bySymbol[s]
               /\ Cardinality(OnSymbols(d)') <= run.counts.total
               /\ Cardinality(LiveOn(d, "macro")') <= run.counts.macro
    <3>1. /\ \A s \in Symbols : Cardinality(LiveOn(d, s)) <= run.counts.bySymbol[s]
          /\ Cardinality(OnSymbols(d)) <= run.counts.total
          /\ Cardinality(LiveOn(d, "macro")) <= run.counts.macro
      BY <1>4, <2>3 DEF CountsCover
    <3>2. ASSUME NEW s \in Symbols PROVE Cardinality(LiveOn(d, s)') <= run.counts.bySymbol[s]
      <4>1. /\ Cardinality(LiveOn(d, s)') <= Cardinality(LiveOn(d, s))
            /\ Cardinality(LiveOn(d, s)') \in Nat /\ Cardinality(LiveOn(d, s)) \in Nat
        BY <1>2
      <4>2. run.counts.bySymbol[s] \in Nat /\ Cardinality(LiveOn(d, s)) <= run.counts.bySymbol[s]
        BY <2>2, <3>1
      <4> QED BY <4>1, <4>2
    <3>3. Cardinality(OnSymbols(d)') <= run.counts.total BY <1>2, <2>2, <3>1
    <3>4. Cardinality(LiveOn(d, "macro")') <= run.counts.macro BY <1>2, <2>2, <3>1
    <3> QED BY <3>2, <3>3, <3>4
  <2>4. run'.counts = run.counts BY <1>4
  <2> QED BY <2>1, <2>3, <2>4 DEF CountsCover, LiveOn, OnSymbols
<1>5. CountsCover /\ UNCHANGED run => CountsCover'
  BY <1>4 DEF CountsCover, Judging
<1> QED BY <1>3, <1>5 DEF CapsKept

\* The row that Insert makes.
NewRow(status, told) ==
    [issue |-> Head(run.todo).issue, sev |-> Head(run.todo).sev, day |-> Today, at |-> time,
     status |-> status, dry |-> run.dry, told |-> told, cut |-> 0, met |-> 0]

LEMMA DaysAreNat == \A t \in Nat : Day(t) \in Nat
BY DEF Day

LEMMA BumpTypes ==
    ASSUME NEW counts \in Counts, NEW issue \in Issues, NEW status
    PROVE  bump(counts, issue, status) \in Counts
<1> DEFINE s == Scope[issue]
<1>1. CASE ~Live([status |-> status]) BY <1>1 DEF bump
<1>2. CASE Live([status |-> status]) /\ s = "macro"
  BY <1>2 DEF bump, Counts
<1>3. CASE Live([status |-> status]) /\ s # "macro"
  <2>1. s \in Symbols /\ counts.bySymbol \in [Symbols -> Nat] BY <1>3, ScopeOfIssue DEF Counts
  <2> DEFINE f == [counts.bySymbol EXCEPT ![s] = @ + 1]
             n == counts.total + 1
  <2>2. f \in [Symbols -> Nat] /\ n \in Nat BY <2>1 DEF Counts
  <2>3. bump(counts, issue, status) = [counts EXCEPT !.total = n, !.bySymbol = f]
    BY <1>3 DEF bump
  <2> HIDE DEF f, n
  <2> QED BY <2>2, <2>3 DEF Counts
<1> QED BY <1>1, <1>2, <1>3

\* A candidate is judged, and recorded if it is sent now or in the morning.
LEMMA InsertKeeps ==
    ASSUME IInv, Judging, run.todo # <<>>,
           NEW status \in {"sent", "queued", "below", "dup", "capped", "muted", "failed"},
           NEW told \in {0, 1},
           status \in {"sent", "queued"} => ~Capped(Head(run.todo)) /\ ~run.dry,
           status = "queued" => told = 0,
           Insert(status, told),
           UNCHANGED <<clock, process, digest, backoff>>
    PROVE  IInv'
<1> USE PulseAssumption DEF IInv
<1> DEFINE c == Head(run.todo)
           row == NewRow(status, told)
           live == status \in {"sent", "queued"}
<1>1. /\ alerts \in Seq(Rows) /\ run \in Runs /\ time \in Nat
      BY DEF Types, End
<1>2. c \in Candidates /\ Tail(run.todo) \in Seq(Candidates)
  BY <1>1 DEF Runs
<1>3. c.issue \in Issues /\ c.sev \in 0 .. 2
  BY <1>2 DEF Candidates
<1>4. Today \in Nat BY <1>1, DaysAreNat DEF Today, Runs
<1>5. /\ run.counts.total \in Nat /\ run.counts.macro \in Nat
      /\ \A s \in Symbols : run.counts.bySymbol[s] \in Nat
      /\ run.counts.bySymbol \in [Symbols -> Nat] /\ run.counts \in Counts
  BY <1>1 DEF Runs, Counts
<1>6. live => row \in Rows
  BY <1>1, <1>3, <1>4 DEF NewRow, Rows, Statuses, Runs
<1> DEFINE counted == bump(run.counts, c.issue, status)
           found == IF live THEN run.recent \cup {Len(alerts) + 1} ELSE run.recent
           rest == Tail(run.todo)
<1>7. /\ alerts' = IF live THEN Append(alerts, row) ELSE alerts
      /\ run' = [run EXCEPT !.stage = "judge", !.todo = rest, !.counts = counted, !.recent = found]
  BY DEF Insert, Live, NewRow, Today
<1>8. counted \in Counts /\ found \in SUBSET Nat /\ rest \in Seq(Candidates)
  BY <1>1, <1>2, <1>3, <1>5, BumpTypes DEF Runs
<1>8a. /\ row.issue = c.issue /\ row.day = Today /\ row.status = status /\ row.told = told
       /\ row.dry = run.dry /\ row.cut = 0 /\ row.met = 0
  BY DEF NewRow
<1>8b. UNCHANGED <<time, due, up, on, faults, digest, backoff>> /\ \A i : Flying(i)' = Flying(i)
  BY DEF clock, process, Flying
<1> HIDE DEF row, counted, found, rest
<1>9. /\ run'.stage = "judge" /\ run'.started = run.started /\ run'.counts = counted
      /\ run'.recent = found /\ run'.dry = run.dry /\ run' \in Runs
  BY <1>1, <1>7, <1>8 DEF Runs
<1>10. Today' = Today BY <1>9 DEF Today, Day
<1>11. SendingIsAllowed' BY <1>9 DEF SendingIsAllowed
<1>12. CASE ~live
  <2>1. alerts' = alerts /\ run'.counts = run.counts /\ run'.recent = run.recent
    BY <1>7, <1>9, <1>12 DEF bump, Live, counted, found
  <2>2. Types' BY <1>8b, <1>9, <2>1 DEF Types, Ids
  <2>3. DigestIsQueued' /\ RowsTellDelivery'
    BY <1>8b, <2>1 DEF DigestIsQueued, RowsTellDelivery, Told, Ids
  <2>4. \A d, s : LiveOn(d, s)' = LiveOn(d, s) BY <2>1 DEF LiveOn, Ids, Live
  <2>5. \A d : OnSymbols(d)' = OnSymbols(d) BY <2>1 DEF OnSymbols, Ids, Plain, Live
  <2>6. CapsKept'
    <3>1. \A d \in Nat : Caps(d)' BY <2>4, <2>5 DEF CapsKept, Caps
    <3> QED BY <3>1 DEF CapsKept
  <2>7. CountsCover'
    <3>1. /\ \A s \in Symbols : Cardinality(LiveOn(Today, s)) <= run.counts.bySymbol[s]
          /\ Cardinality(OnSymbols(Today)) <= run.counts.total
          /\ Cardinality(LiveOn(Today, "macro")) <= run.counts.macro
      BY DEF CountsCover
    <3>2. ASSUME NEW d, d = Today
          PROVE  /\ \A s \in Symbols : Cardinality(LiveOn(d, s)') <= run.counts.bySymbol[s]
                 /\ Cardinality(OnSymbols(d)') <= run.counts.total
                 /\ Cardinality(LiveOn(d, "macro")') <= run.counts.macro
      BY <2>4, <2>5, <3>1, <3>2
    <3> QED BY <1>10, <2>1, <3>2 DEF CountsCover, LiveOn, OnSymbols
  <2> QED BY <1>11, <2>2, <2>3, <2>6, <2>7
<1>13. CASE live
  <2> DEFINE n == Len(alerts) + 1
  <2>1. /\ alerts' = Append(alerts, row) /\ row \in Rows /\ Len(alerts) \in Nat
        /\ alerts' \in Seq(Rows) /\ Len(alerts') = n
        /\ Ids = 1 .. Len(alerts) /\ Ids' = 1 .. n /\ Ids' = Ids \cup {n}
        /\ alerts'[n] = row /\ \A i \in Ids : alerts'[i] = alerts[i]
    BY <1>1, <1>6, <1>7, <1>13 DEF Ids
  <2>2. Types'
    <3>1. digest' \in [Flushes -> SUBSET Ids'] BY <1>8b, <2>1 DEF Types
    <3>2. found \subseteq Ids' BY <1>13, <2>1 DEF Types, found
    <3> QED BY <1>8b, <1>9, <2>1, <3>1, <3>2 DEF Types
  <2>3. /\ row.issue = c.issue /\ row.day = Today /\ row.status = status /\ row.told = told
        /\ row.dry = run.dry /\ ~run.dry
    BY <1>13, <1>8a
  <2>4. \A i : i = n => Flying(i)' = {}
    <3>1. \A f \in Flushes : n \notin digest[f] BY <2>1 DEF Types
    <3> QED BY <1>8b, <3>1 DEF Flying
  <2>5. DigestIsQueued' /\ RowsTellDelivery'
    <3>1. Told(row, {})
      <4>1. Cardinality({}) = 0 BY FS_EmptySet
      <4> QED BY <1>8a, <4>1 DEF Told
    <3>2. ASSUME NEW i \in Ids'
          PROVE  /\ alerts'[i].met = 0 => /\ Flying(i)' # {} => alerts'[i].status = "queued"
                                          /\ \A f, g \in Flying(i)' : f = g
                 /\ ~alerts'[i].dry /\ Told(alerts'[i], Flying(i)')
      <4>1. CASE i = n
        <5>1. alerts'[i] = row /\ Flying(i)' = {} BY <2>1, <2>4, <4>1
        <5> QED BY <2>3, <3>1, <5>1
      <4>2. CASE i \in Ids BY <1>8b, <2>1, <4>2 DEF DigestIsQueued, RowsTellDelivery
      <4> QED BY <2>1, <4>1, <4>2
    <3> QED BY <3>2 DEF DigestIsQueued, RowsTellDelivery, Told
  <2>6. \A d, s : LiveOn(d, s)' \in SUBSET (LiveOn(d, s) \cup {n})
    BY <2>1 DEF LiveOn, Live
  <2>7. \A d, s : (d # Today \/ s # Scope[c.issue]) => LiveOn(d, s)' \in SUBSET LiveOn(d, s)
    BY <2>1, <2>3 DEF LiveOn, Live
  <2>8. \A d : OnSymbols(d)' \in SUBSET (OnSymbols(d) \cup {n})
    BY <2>1 DEF OnSymbols, Plain, Live
  <2>9. \A d : (d # Today \/ Scope[c.issue] = "macro") => OnSymbols(d)' \in SUBSET OnSymbols(d)
    BY <2>1, <2>3 DEF OnSymbols, Plain, Live
  <2> HIDE DEF n
  <2>10. \A d, s : /\ Cardinality(LiveOn(d, s)) \in Nat /\ Cardinality(LiveOn(d, s)') \in Nat
                   /\ Cardinality(LiveOn(d, s)') <= Cardinality(LiveOn(d, s)) + 1
                   /\ (d # Today \/ s # Scope[c.issue]) =>
                          Cardinality(LiveOn(d, s)') <= Cardinality(LiveOn(d, s))
    <3>1. ASSUME NEW d, NEW s
          PROVE  /\ Cardinality(LiveOn(d, s)) \in Nat /\ Cardinality(LiveOn(d, s)') \in Nat
                 /\ Cardinality(LiveOn(d, s)') <= Cardinality(LiveOn(d, s)) + 1
                 /\ (d # Today \/ s # Scope[c.issue]) =>
                        Cardinality(LiveOn(d, s)') <= Cardinality(LiveOn(d, s))
      <4>1. IsFiniteSet(LiveOn(d, s)) /\ Cardinality(LiveOn(d, s)) \in Nat BY <1>1, SetsFinite
      <4>2. LiveOn(d, s)' \in SUBSET (LiveOn(d, s) \cup {n}) BY <2>6
      <4>3. (d # Today \/ s # Scope[c.issue]) => LiveOn(d, s)' \in SUBSET LiveOn(d, s) BY <2>7
      <4> QED BY <4>1, <4>2, <4>3, SubsetIsSmaller, OneMore
    <3> QED BY <3>1
  <2>11. \A d : /\ Cardinality(OnSymbols(d)) \in Nat /\ Cardinality(OnSymbols(d)') \in Nat
                /\ Cardinality(OnSymbols(d)') <= Cardinality(OnSymbols(d)) + 1
                /\ (d # Today \/ Scope[c.issue] = "macro") =>
                       Cardinality(OnSymbols(d)') <= Cardinality(OnSymbols(d))
    BY <1>1, <2>8, <2>9, SetsFinite, SubsetIsSmaller, OneMore
  <2>12. ~Capped(c) BY <1>13 DEF live
  <2>13. /\ \A s \in Symbols : Cardinality(LiveOn(Today, s)) <= run.counts.bySymbol[s]
         /\ Cardinality(OnSymbols(Today)) <= run.counts.total
         /\ Cardinality(LiveOn(Today, "macro")) <= run.counts.macro
    BY DEF CountsCover
  <2>14. CASE Scope[c.issue] = "macro"
    <3>1. run.counts.macro < MacroCap BY <1>5, <2>12, <2>14 DEF Capped
    <3>2. \A s \in Symbols : s # Scope[c.issue] BY <2>14, MacroIsNoSymbol
    <3>3. ASSUME NEW d \in Nat PROVE Caps(d)'
      <4>1. Caps(d) BY DEF CapsKept
      <4>2. Cardinality(LiveOn(d, "macro")') <= MacroCap
        <5>1. CASE d = Today BY <1>5, <2>10, <2>13, <3>1, <5>1
        <5>2. CASE d # Today BY <2>10, <4>1, <5>2 DEF Caps
        <5> QED BY <5>1, <5>2
      <4>3. \A s \in Symbols : Cardinality(LiveOn(d, s)') <= PerSymbolCap
        BY <2>10, <3>2, <4>1 DEF Caps
      <4>4. Cardinality(OnSymbols(d)') <= DailyCap BY <2>11, <2>14, <4>1 DEF Caps
      <4> QED BY <4>2, <4>3, <4>4 DEF Caps
    <3>4. /\ counted.macro = run.counts.macro + 1 /\ counted.total = run.counts.total
          /\ counted.bySymbol = run.counts.bySymbol
      BY <1>5, <1>13, <2>14 DEF counted, bump, Live, live, Counts
    <3>5. ASSUME NEW d, d = Today
          PROVE  /\ \A s \in Symbols : Cardinality(LiveOn(d, s)') <= counted.bySymbol[s]
                 /\ Cardinality(OnSymbols(d)') <= counted.total
                 /\ Cardinality(LiveOn(d, "macro")') <= counted.macro
      <4>1. \A s \in Symbols : Cardinality(LiveOn(d, s)') <= counted.bySymbol[s]
        BY <1>5, <2>10, <2>13, <3>2, <3>4, <3>5
      <4>2. Cardinality(OnSymbols(d)') <= counted.total BY <1>5, <2>11, <2>13, <2>14, <3>4, <3>5
      <4>3. Cardinality(LiveOn(d, "macro")') <= counted.macro BY <1>5, <2>10, <2>13, <3>4, <3>5
      <4> QED BY <4>1, <4>2, <4>3
    <3>6. CountsCover' BY <1>9, <1>10, <3>5 DEF CountsCover, LiveOn, OnSymbols
    <3> QED BY <1>11, <2>2, <2>5, <3>3, <3>6 DEF CapsKept
  <2>15. CASE Scope[c.issue] # "macro"
    <3> DEFINE sym == Scope[c.issue]
    <3>1. sym \in Symbols BY <1>3, <2>15, ScopeOfIssue
    <3>2. run.counts.bySymbol[sym] < PerSymbolCap /\ run.counts.total < DailyCap
      BY <1>5, <2>12, <2>15, <3>1 DEF Capped
    <3>3. ASSUME NEW d \in Nat PROVE Caps(d)'
      <4>1. Caps(d) BY DEF CapsKept
      <4>2. Cardinality(LiveOn(d, "macro")') <= MacroCap BY <2>10, <2>15, <4>1 DEF Caps
      <4>3. ASSUME NEW s \in Symbols PROVE Cardinality(LiveOn(d, s)') <= PerSymbolCap
        <5>1. CASE d = Today /\ s = sym
          <6>1. Cardinality(LiveOn(d, s)) <= run.counts.bySymbol[s] BY <2>13, <5>1
          <6>2. run.counts.bySymbol[s] < PerSymbolCap BY <3>2, <5>1
          <6>3. run.counts.bySymbol[s] \in Nat /\ PerSymbolCap \in Nat BY <1>5
          <6>4. /\ Cardinality(LiveOn(d, s)) \in Nat /\ Cardinality(LiveOn(d, s)') \in Nat
                /\ Cardinality(LiveOn(d, s)') <= Cardinality(LiveOn(d, s)) + 1
            BY <2>10
          <6> QED BY <6>1, <6>2, <6>3, <6>4
        <5>2. CASE d # Today \/ s # sym BY <2>10, <4>1, <5>2 DEF Caps
        <5> QED BY <5>1, <5>2
      <4>4. Cardinality(OnSymbols(d)') <= DailyCap
        <5>1. CASE d = Today BY <1>5, <2>11, <2>13, <3>2, <5>1
        <5>2. CASE d # Today BY <2>11, <4>1, <5>2 DEF Caps
        <5> QED BY <5>1, <5>2
      <4> QED BY <4>2, <4>3, <4>4 DEF Caps
    <3>4. /\ counted.macro = run.counts.macro /\ counted.total = run.counts.total + 1
          /\ counted.bySymbol = [run.counts.bySymbol EXCEPT ![sym] = @ + 1]
      BY <1>5, <1>13, <2>15 DEF counted, bump, Live, live, Counts
    <3>5. ASSUME NEW d, d = Today
          PROVE  /\ \A s \in Symbols : Cardinality(LiveOn(d, s)') <= counted.bySymbol[s]
                 /\ Cardinality(OnSymbols(d)') <= counted.total
                 /\ Cardinality(LiveOn(d, "macro")') <= counted.macro
      <4>1. ASSUME NEW s \in Symbols PROVE Cardinality(LiveOn(d, s)') <= counted.bySymbol[s]
        <5>1. CASE s = sym
          <6>1. counted.bySymbol[s] = run.counts.bySymbol[s] + 1 BY <1>5, <3>1, <3>4, <5>1
          <6> QED BY <1>5, <2>10, <2>13, <3>5, <6>1
        <5>2. CASE s # sym
          <6>1. counted.bySymbol[s] = run.counts.bySymbol[s] BY <1>5, <3>4, <5>2
          <6> QED BY <1>5, <2>10, <2>13, <3>5, <5>2, <6>1
        <5> QED BY <5>1, <5>2
      <4>2. Cardinality(OnSymbols(d)') <= counted.total BY <1>5, <2>11, <2>13, <3>4, <3>5
      <4>3. Cardinality(LiveOn(d, "macro")') <= counted.macro BY <1>5, <2>10, <2>13, <2>15, <3>4, <3>5
      <4> QED BY <4>1, <4>2, <4>3
    <3>6. CountsCover' BY <1>9, <1>10, <3>5 DEF CountsCover, LiveOn, OnSymbols
    <3> QED BY <1>11, <2>2, <2>5, <3>3, <3>6 DEF CapsKept
  <2> QED BY <2>14, <2>15
<1> QED BY <1>12, <1>13

-----------------------------------------------------------------------------
(* The other actions.                                                      *)

Environment ==
    /\ time' \in 0 .. End /\ due' \in BOOLEAN
    /\ up' \in BOOLEAN /\ on' \in BOOLEAN /\ backoff' \in BOOLEAN /\ faults' \in 0 .. MaxFaults

LEMMA NoRunIsRun == NoRun \in Runs
<1>1. NoCounts \in Counts BY DEF NoCounts, Counts
<1>2. <<>> \in Seq(Candidates) OBVIOUS
<1> QED BY <1>1, <1>2 DEF NoRun, Runs

\* The rows stay, and with them what is said of their delivery.
LEMMA DeliveryStays ==
    ASSUME DigestIsQueued, RowsTellDelivery, UNCHANGED <<alerts, digest>>
    PROVE  DigestIsQueued' /\ RowsTellDelivery'
<1>1. Ids' = Ids /\ \A i : Flying(i)' = Flying(i) BY DEF Ids, Flying
<1> QED BY <1>1 DEF DigestIsQueued, RowsTellDelivery, Told

\* A run starts or goes on to its question, or ends after its last candidate or before its first.
LEMMA RunChanges ==
    ASSUME IInv, Environment, UNCHANGED <<alerts, digest>>,
           run' \in Runs, run'.recent \subseteq Ids, run'.stage \in {"none", "news", "agent"}
    PROVE  IInv'
<1> USE DEF IInv
<1>1. Types' BY DEF Types, Environment, Ids
<1>2. CountsCover' /\ SendingIsAllowed' BY DEF CountsCover, Judging, SendingIsAllowed
<1>3. DigestIsQueued' /\ RowsTellDelivery' BY DeliveryStays
<1>4. CapsKept' BY EndingKeepsCaps DEF Types, Plain, Live
<1> QED BY <1>1, <1>2, <1>3, <1>4

\* What a step may do to a row beside a run.
RowKeeps(i) ==
    /\ alerts'[i] \in Rows
    /\ alerts'[i].issue = alerts[i].issue /\ alerts'[i].day = alerts[i].day
    /\ alerts'[i].dry = alerts[i].dry
    /\ Plain(alerts'[i]) => Plain(alerts[i])
    /\ alerts'[i].met = 0 => /\ Flying(i)' # {} => alerts'[i].status = "queued"
                             /\ \A f, g \in Flying(i)' : f = g
    /\ Told(alerts'[i], Flying(i)')

\* Rows come to an end beside a run, or everything stays as it is.
LEMMA RowsEnd ==
    ASSUME IInv, Environment, run' \in {run, NoRun},
           alerts' = [i \in Ids |-> alerts'[i]], \A i \in Ids : RowKeeps(i),
           digest' \in [Flushes -> SUBSET Ids]
    PROVE  IInv'
<1> USE DEF IInv
<1>1. alerts' \in Seq(Rows) /\ Len(alerts') = Len(alerts) /\ Ids' = Ids
  <2>1. \A i \in Ids : alerts'[i] \in Rows BY DEF RowKeeps
  <2>2. alerts \in Seq(Rows) BY DEF Types
  <2> QED BY <2>1, <2>2, TableOfRows DEF Ids
<1>2. run' \in Runs /\ run'.recent \subseteq Ids
  <2>1. CASE run' = run BY <2>1 DEF Types
  <2>2. CASE run' = NoRun
    <3>1. NoRun.recent = {} BY DEF NoRun
    <3> QED BY <2>2, <3>1, NoRunIsRun
  <2> QED BY <2>1, <2>2
<1>3. Types' BY <1>1, <1>2 DEF Types, Environment
<1>4. \A i \in Ids : /\ alerts'[i].issue = alerts[i].issue /\ alerts'[i].day = alerts[i].day
                     /\ Plain(alerts'[i]) => Plain(alerts[i])
  BY DEF RowKeeps
<1>5. CapsKept' /\ (CountsCover /\ UNCHANGED run => CountsCover') BY <1>1, <1>4, EndingKeepsCaps
<1>6. CountsCover' /\ SendingIsAllowed'
  <2>1. CASE run' = run BY <1>5, <2>1 DEF SendingIsAllowed, Capped
  <2>2. CASE run' = NoRun BY <2>2 DEF CountsCover, Judging, SendingIsAllowed, NoRun
  <2> QED BY <2>1, <2>2
<1>7. DigestIsQueued'
  <2>1. \A i \in Ids : alerts'[i].met = 0 => /\ Flying(i)' # {} => alerts'[i].status = "queued"
                                             /\ \A f, g \in Flying(i)' : f = g
    BY DEF RowKeeps
  <2> QED BY <1>1, <2>1 DEF DigestIsQueued
<1>8. RowsTellDelivery'
  <2>1. \A i \in Ids : ~alerts'[i].dry /\ Told(alerts'[i], Flying(i)')
    BY DEF RowKeeps, RowsTellDelivery
  <2> QED BY <1>1, <2>1 DEF RowsTellDelivery, Told
<1> QED BY <1>3, <1>5, <1>6, <1>7, <1>8

\* Only the environment changes.
LEMMA RowsStay ==
    ASSUME IInv, Environment, UNCHANGED <<alerts, run, digest>>
    PROVE  IInv'
<1> USE DEF IInv
<1>1. Types' BY DEF Types, Environment, Ids
<1>2. CapsKept' /\ CountsCover' BY EndingKeepsCaps DEF Types, Plain, Live
<1>3. SendingIsAllowed' BY DEF SendingIsAllowed, Capped
<1>4. DigestIsQueued' /\ RowsTellDelivery' BY DeliveryStays
<1> QED BY <1>1, <1>2, <1>3, <1>4

LEMMA FlyingFinite ==
    ASSUME NEW i
    PROVE  /\ IsFiniteSet(Flying(i)) /\ Cardinality(Flying(i)) \in Nat
           /\ Flying(i) = {} => Cardinality(Flying(i)) = 0
<1>1. IsFiniteSet(Flushes) BY FS_Interval, PulseAssumption DEF Flushes
<1>2. Flying(i) \in SUBSET Flushes BY DEF Flying
<1> QED BY <1>1, <1>2, FS_Subset, FS_CardinalityType, FS_EmptySet

\* What the invariant says of a row beside its types.
LEMMA RowFacts ==
    ASSUME IInv, NEW i \in Ids
    PROVE  /\ alerts[i] \in Rows
           /\ alerts[i].told \in Nat /\ alerts[i].cut \in Nat /\ alerts[i].met \in Nat
           /\ Told(alerts[i], Flying(i))
           /\ alerts[i].met = 0 => /\ Flying(i) # {} => alerts[i].status = "queued"
                                   /\ \A f, g \in Flying(i) : f = g
<1>1. alerts[i] \in Rows BY DEF IInv, Types, Ids
<1> QED BY <1>1 DEF IInv, Rows, DigestIsQueued, RowsTellDelivery

LEMMA DigestKeeps == ASSUME IInv, NEW f \in Flushes, DigestEnds(f) PROVE IInv'
<1>1. Environment BY DEF DigestEnds, Environment, IInv, Types, clock, process
<1>2. /\ digest' = [digest EXCEPT ![f] = {}] /\ run' = run
      /\ digest \in [Flushes -> SUBSET Ids]
  BY DEF DigestEnds, IInv, Types
<1>3. PICK status \in {"sent", "failed"}, told \in {0, 1} : alerts' = Mark(digest[f], status, told)
  BY DEF DigestEnds
<1>4. \A i : Flying(i)' = Flying(i) \ {f} BY <1>2 DEF Flying
<1>5. ASSUME NEW i \in Ids PROVE RowKeeps(i)
  <2>1. CASE i \in digest[f]
    <3> DEFINE a == alerts[i]
               more == a.told + told
    <3>1. /\ a \in Rows /\ more \in Nat /\ a.told \in Nat /\ a.cut \in Nat /\ a.met \in Nat
          /\ a.status \in Statuses /\ status \in Statuses
      BY RowFacts DEF Rows, Statuses
    <3>2. alerts'[i] = [a EXCEPT !.status = status, !.told = more] BY <1>3, <2>1 DEF Mark
    <3> HIDE DEF more
    <3>4. /\ alerts'[i] \in Rows
          /\ alerts'[i].issue = a.issue /\ alerts'[i].day = a.day /\ alerts'[i].dry = a.dry
          /\ alerts'[i].status = status /\ alerts'[i].told = more
          /\ alerts'[i].cut = a.cut /\ alerts'[i].met = a.met
      BY <3>1, <3>2 DEF Rows
    <3>5. f \in Flying(i) BY <2>1 DEF Flying
    <3>6. Told(alerts'[i], Flying(i)')
      <4>1. Cardinality(Flying(i)') = Cardinality(Flying(i)) - 1 /\ Cardinality(Flying(i)) \in Nat
        BY <1>4, <3>5, FlyingFinite, FS_RemoveElement
      <4>2. a.told + Cardinality(Flying(i)) <= 1 + a.cut + a.met BY RowFacts DEF Told
      <4>3. alerts'[i].told <= a.told + 1 BY <1>3, <3>1, <3>4 DEF more
      <4>4. alerts'[i].told \in Nat BY <3>1, <3>4
      <4> QED BY <1>3, <3>1, <3>4, <4>1, <4>2, <4>3, <4>4 DEF Told
    <3>7. Plain(alerts'[i]) => Plain(a) BY <3>4, <3>5, RowFacts DEF Plain, Live
    <3>8. alerts'[i].met = 0 => Flying(i)' = {}
      BY <1>4, <3>4, <3>5, RowFacts
    <3> QED BY <3>4, <3>6, <3>7, <3>8 DEF RowKeeps
  <2>2. CASE i \notin digest[f]
    <3>1. alerts'[i] = alerts[i] BY <1>3, <2>2 DEF Mark
    <3>2. Flying(i)' = Flying(i) BY <1>4, <2>2 DEF Flying
    <3> QED BY <3>1, <3>2, RowFacts DEF RowKeeps, Plain, Live
  <2> QED BY <2>1, <2>2
<1>6. alerts' = [i \in Ids |-> alerts'[i]] BY <1>3 DEF Mark
<1>7. digest' \in [Flushes -> SUBSET Ids] BY <1>2
<1> QED BY <1>1, <1>2, <1>5, <1>6, <1>7, RowsEnd

\* What Take makes of a row.
LEMMA TakenRow ==
    ASSUME IInv, NEW i \in Ids, alerts[i].status = "queued", NEW status \in Statuses,
           alerts'[i] = IF Flying(i) = {} THEN [alerts[i] EXCEPT !.status = status]
                        ELSE [alerts[i] EXCEPT !.status = status, !.met = @ + 1]
    PROVE  /\ alerts'[i] \in Rows
           /\ alerts'[i].issue = alerts[i].issue /\ alerts'[i].day = alerts[i].day
           /\ alerts'[i].dry = alerts[i].dry /\ alerts'[i].status = status
           /\ alerts'[i].told = alerts[i].told /\ alerts'[i].cut = alerts[i].cut
           /\ alerts'[i].met = IF Flying(i) = {} THEN alerts[i].met ELSE alerts[i].met + 1
<1> DEFINE a == alerts[i]
           m == IF Flying(i) = {} THEN a.met ELSE a.met + 1
<1>1. a \in Rows /\ a.told \in Nat /\ a.cut \in Nat /\ a.met \in Nat /\ m \in Nat
  BY RowFacts
<1>2. m = IF Flying(i) = {} THEN alerts[i].met ELSE alerts[i].met + 1 OBVIOUS
<1>3. \/ alerts'[i] = [a EXCEPT !.status = status] /\ m = a.met
      \/ alerts'[i] = [a EXCEPT !.status = status, !.met = m]
  OBVIOUS
<1> HIDE DEF m
<1>4. /\ alerts'[i] \in Rows
      /\ alerts'[i].issue = a.issue /\ alerts'[i].day = a.day /\ alerts'[i].dry = a.dry
      /\ alerts'[i].status = status /\ alerts'[i].told = a.told
      /\ alerts'[i].cut = a.cut /\ alerts'[i].met = m
  BY <1>1, <1>3 DEF Rows
<1> QED BY <1>2, <1>4

LEMMA FlushKeeps == ASSUME IInv, Environment, UNCHANGED run, flushPulseQueue PROVE IInv'
<1> DEFINE queued == listQueuedPulseAlerts
<1>1. queued \subseteq Ids /\ \A i \in queued : alerts[i].status = "queued"
  BY DEF listQueuedPulseAlerts
<1>2. digest \in [Flushes -> SUBSET Ids] BY DEF IInv, Types
<1>3. ASSUME NEW status \in {"queued", "muted"}, alerts' = Take(queued, status), NEW i \in queued
      PROVE  /\ alerts'[i] \in Rows
             /\ alerts'[i].issue = alerts[i].issue /\ alerts'[i].day = alerts[i].day
             /\ alerts'[i].dry = alerts[i].dry /\ alerts'[i].status = status
             /\ alerts'[i].told = alerts[i].told /\ alerts'[i].cut = alerts[i].cut
             /\ alerts'[i].met = IF Flying(i) = {} THEN alerts[i].met ELSE alerts[i].met + 1
  <2>1. alerts'[i] = IF Flying(i) = {} THEN [alerts[i] EXCEPT !.status = status]
                     ELSE [alerts[i] EXCEPT !.status = status, !.met = @ + 1]
    BY <1>1, <1>3 DEF Take
  <2>2. status \in Statuses BY DEF Statuses
  <2> QED BY <1>1, <2>1, <2>2, TakenRow
<1>4. CASE on
  <2>1. /\ alerts' = Take(queued, "queued")
        /\ \E f \in Idle : digest' = [digest EXCEPT ![f] = queued]
    BY <1>4 DEF flushPulseQueue
  <2>2. PICK f \in Idle : digest' = [digest EXCEPT ![f] = queued] BY <2>1
  <2>3. f \in Flushes /\ digest[f] = {} BY DEF Idle
  <2>4. \A i \in queued : Flying(i)' = Flying(i) \cup {f} BY <1>2, <2>2, <2>3 DEF Flying
  <2>5. \A i \in Ids \ queued : Flying(i)' = Flying(i) BY <1>2, <2>2, <2>3 DEF Flying
  <2>6. ASSUME NEW i \in Ids PROVE RowKeeps(i)
    <3>1. CASE i \in queued
      <4>1. /\ alerts'[i] \in Rows
            /\ alerts'[i].issue = alerts[i].issue /\ alerts'[i].day = alerts[i].day
            /\ alerts'[i].dry = alerts[i].dry /\ alerts'[i].status = "queued"
            /\ alerts'[i].told = alerts[i].told /\ alerts'[i].cut = alerts[i].cut
            /\ alerts'[i].met = IF Flying(i) = {} THEN alerts[i].met ELSE alerts[i].met + 1
        BY <1>3, <2>1, <3>1
      <4>2. Plain(alerts'[i]) => Plain(alerts[i]) BY <1>1, <3>1, <4>1, RowFacts DEF Plain, Live
      <4>3. alerts'[i].met = 0 => Flying(i)' = {f} BY <2>4, <3>1, <4>1, RowFacts
      <4>4. Told(alerts'[i], Flying(i)')
        <5>1. /\ Cardinality(Flying(i)) \in Nat
              /\ Cardinality(Flying(i)') = Cardinality(Flying(i)) + 1
              /\ Flying(i) = {} => Cardinality(Flying(i)) = 0
          <6>1. f \notin Flying(i) BY <2>3 DEF Flying
          <6> QED BY <2>4, <3>1, <6>1, FlyingFinite, FS_AddElement
        <5>2. Flying(i)' # {} BY <2>4, <3>1
        <5>3. /\ alerts[i].told + Cardinality(Flying(i)) <= 1 + alerts[i].cut + alerts[i].met
              /\ Flying(i) = {} => alerts[i].told <= alerts[i].cut + alerts[i].met
          BY <1>1, <3>1, RowFacts DEF Told
        <5>4. alerts[i].told \in Nat /\ alerts[i].cut \in Nat /\ alerts[i].met \in Nat
          BY RowFacts
        <5>5. CASE Flying(i) = {} BY <4>1, <5>1, <5>2, <5>3, <5>4, <5>5 DEF Told
        <5>6. CASE Flying(i) # {} BY <4>1, <5>1, <5>2, <5>3, <5>4, <5>6 DEF Told
        <5> QED BY <5>5, <5>6
      <4> QED BY <4>1, <4>2, <4>3, <4>4 DEF RowKeeps
    <3>2. CASE i \notin queued
      <4>1. alerts'[i] = alerts[i] BY <2>1, <3>2 DEF Take
      <4>2. Flying(i)' = Flying(i) BY <2>5, <3>2
      <4> QED BY <4>1, <4>2, RowFacts DEF RowKeeps, Plain, Live
    <3> QED BY <3>1, <3>2
  <2>7. alerts' = [i \in Ids |-> alerts'[i]] BY <2>1 DEF Take
  <2>8. digest' \in [Flushes -> SUBSET Ids] BY <1>1, <1>2, <2>2
  <2> QED BY <2>6, <2>7, <2>8, RowsEnd
<1>5. CASE ~on
  <2>1. alerts' = Take(queued, "muted") /\ digest' = digest BY <1>5 DEF flushPulseQueue
  <2>2. \A i : Flying(i)' = Flying(i) BY <2>1 DEF Flying
  <2>3. ASSUME NEW i \in Ids PROVE RowKeeps(i)
    <3>1. CASE i \in queued
      <4>1. /\ alerts'[i] \in Rows
            /\ alerts'[i].issue = alerts[i].issue /\ alerts'[i].day = alerts[i].day
            /\ alerts'[i].dry = alerts[i].dry /\ alerts'[i].status = "muted"
            /\ alerts'[i].told = alerts[i].told /\ alerts'[i].cut = alerts[i].cut
            /\ alerts'[i].met = IF Flying(i) = {} THEN alerts[i].met ELSE alerts[i].met + 1
        BY <1>3, <2>1, <3>1
      <4>2. ~Plain(alerts'[i]) BY <4>1 DEF Plain, Live
      <4>3. alerts'[i].met = 0 => Flying(i)' = {} BY <2>2, <4>1, RowFacts
      <4>4. Told(alerts'[i], Flying(i)')
        <5>1. Cardinality(Flying(i)) \in Nat BY FlyingFinite
        <5>2. alerts[i].told + Cardinality(Flying(i)) <= 1 + alerts[i].cut + alerts[i].met
          BY RowFacts DEF Told
        <5>3. alerts[i].told \in Nat /\ alerts[i].cut \in Nat /\ alerts[i].met \in Nat
          BY RowFacts
        <5> QED BY <2>2, <4>1, <5>1, <5>2, <5>3 DEF Told
      <4> QED BY <4>1, <4>2, <4>3, <4>4 DEF RowKeeps
    <3>2. CASE i \notin queued
      <4>1. alerts'[i] = alerts[i] BY <2>1, <3>2 DEF Take
      <4> QED BY <2>2, <4>1, RowFacts DEF RowKeeps, Plain, Live
    <3> QED BY <3>1, <3>2
  <2>4. alerts' = [i \in Ids |-> alerts'[i]] BY <2>1 DEF Take
  <2> QED BY <1>2, <2>1, <2>3, <2>4, RowsEnd
<1> QED BY <1>4, <1>5

LEMMA CrashKeeps == ASSUME IInv, Crash PROVE IInv'
<1>1. Environment
  <2>1. faults' \in 0 .. MaxFaults
    <3>1. faults < MaxFaults /\ faults' = faults + 1 BY DEF Crash
    <3>2. faults \in 0 .. MaxFaults BY DEF IInv, Types
    <3> QED BY <3>1, <3>2, PulseAssumption
  <2>2. UNCHANGED <<time, due, on>> /\ up' = FALSE /\ backoff' = FALSE BY DEF Crash, clock
  <2> QED BY <2>1, <2>2 DEF Environment, IInv, Types
<1>2. run' = NoRun /\ digest' = NoDigests BY DEF Crash
<1>3. PICK arrived \in SUBSET (Flushes \ Idle) :
          alerts' = [i \in Ids |->
                        IF Flying(i) = {} THEN alerts[i]
                        ELSE [alerts[i] EXCEPT !.told = @ + Cardinality(Flying(i) \cap arrived),
                                               !.cut = @ + 1]]
  BY DEF Crash
<1>4. \A i : Flying(i)' = {} BY <1>2 DEF Flying, NoDigests
<1>5. ASSUME NEW i \in Ids PROVE RowKeeps(i)
  <2>1. CASE Flying(i) = {}
    <3>1. alerts'[i] = alerts[i] BY <1>3, <2>1
    <3>2. Flying(i)' = Flying(i) BY <1>4, <2>1
    <3> QED BY <3>1, <3>2, RowFacts DEF RowKeeps, Plain, Live
  <2>2. CASE Flying(i) # {}
    <3> DEFINE a == alerts[i]
               landed == Cardinality(Flying(i) \cap arrived)
               more == a.told + landed
               n == a.cut + 1
    <3>1. /\ landed \in Nat /\ landed <= Cardinality(Flying(i)) /\ Cardinality(Flying(i)) \in Nat
      BY FlyingFinite, SubsetIsSmaller
    <3>2. /\ a \in Rows /\ a.told \in Nat /\ a.cut \in Nat /\ a.met \in Nat
          /\ a.status \in Statuses /\ more \in Nat /\ n \in Nat
      BY <3>1, RowFacts DEF Rows
    <3>3. alerts'[i] = [a EXCEPT !.told = more, !.cut = n] BY <1>3, <2>2
    <3> HIDE DEF more, n, landed
    <3>5. /\ alerts'[i] \in Rows
          /\ alerts'[i].issue = a.issue /\ alerts'[i].day = a.day /\ alerts'[i].dry = a.dry
          /\ alerts'[i].status = a.status /\ alerts'[i].told = more
          /\ alerts'[i].cut = n /\ alerts'[i].met = a.met
      BY <3>2, <3>3 DEF Rows
    <3>6. Told(alerts'[i], Flying(i)')
      <4>1. a.told + Cardinality(Flying(i)) <= 1 + a.cut + a.met BY RowFacts DEF Told
      <4>2. more <= a.cut + 1 + a.met BY <3>1, <3>2, <4>1 DEF more
      <4>3. alerts'[i].told <= alerts'[i].cut + alerts'[i].met BY <3>2, <3>5, <4>2 DEF n
      <4>4. Flying(i)' = {} /\ Cardinality(Flying(i)') = 0 BY <1>4, FS_EmptySet
      <4>5. alerts'[i].told \in Nat /\ alerts'[i].cut \in Nat /\ alerts'[i].met \in Nat
        BY <3>2, <3>5
      <4>6. alerts'[i].told + 0 <= 1 + alerts'[i].cut + alerts'[i].met BY <4>3, <4>5
      <4> QED BY <4>3, <4>4, <4>6 DEF Told
    <3> QED BY <1>4, <3>5, <3>6 DEF RowKeeps, Plain, Live
  <2> QED BY <2>1, <2>2
<1>6. alerts' = [i \in Ids |-> alerts'[i]] BY <1>3
<1>7. digest' \in [Flushes -> SUBSET Ids] BY <1>2 DEF NoDigests
<1> QED BY <1>1, <1>2, <1>5, <1>6, <1>7, RowsEnd

\* The clock, the switch and the process change beside rows and digests.
LEMMA OthersKeep == ASSUME IInv, Tick \/ CronMissed \/ Toggle PROVE IInv'
<1>1. UNCHANGED <<alerts, run, digest>> BY DEF Tick, CronMissed, Toggle
<1>2. CASE Tick
  <2>1. time' \in 0 .. End BY <1>2, PulseAssumption DEF Tick, IInv, Types, End
  <2>2. due' \in BOOLEAN BY <1>2 DEF Tick
  <2>3. UNCHANGED <<up, on, faults>> /\ backoff' = FALSE BY <1>2 DEF Tick, process
  <2>4. Environment BY <2>1, <2>2, <2>3 DEF Environment, IInv, Types
  <2> QED BY <1>1, <2>4, RowsStay
<1>3. CASE CronMissed
  <2>1. faults' \in 0 .. MaxFaults BY <1>3, PulseAssumption DEF CronMissed, IInv, Types
  <2>2. UNCHANGED <<time, up, on, backoff>> /\ due' = FALSE BY <1>3 DEF CronMissed
  <2>3. Environment BY <2>1, <2>2 DEF Environment, IInv, Types
  <2> QED BY <1>1, <2>3, RowsStay
<1>4. CASE Toggle
  <2>1. Environment BY <1>4, PulseAssumption DEF Toggle, Environment, IInv, Types, clock
  <2> QED BY <1>1, <2>1, RowsStay
<1> QED BY <1>2, <1>3, <1>4

LEMMA CronKeeps == ASSUME IInv, CronFires PROVE IInv'
<1>1. Environment BY DEF CronFires, Environment, IInv, Types, process
<1> QED BY <1>1, FlushKeeps DEF CronFires

LEMMA RestartKeeps == ASSUME IInv, Restart PROVE IInv'
<1>1. Environment BY DEF Restart, Environment, IInv, Types, clock
<1> QED BY <1>1, FlushKeeps, RowsStay DEF Restart

-----------------------------------------------------------------------------
(* The run.                                                                *)

\* Of and the count of all rows, in the words of the invariant.
LEMMA CountsAreRight ==
    ASSUME Types
    PROVE  /\ countPulseSentToday \in Counts
           /\ \A s \in Symbols : Cardinality(LiveOn(Today, s)) <= countPulseSentToday.bySymbol[s]
           /\ Cardinality(OnSymbols(Today)) <= countPulseSentToday.total
           /\ Cardinality(LiveOn(Today, "macro")) <= countPulseSentToday.macro
<1> DEFINE all == UNION {Of(s) : s \in Symbols \cup {"macro"}}
           n == Cardinality(all)
           m == Cardinality(Of("macro"))
           f == [s \in Symbols |-> Cardinality(Of(s))]
<1>1. \A s : LiveOn(Today, s) \in SUBSET Of(s) BY DEF Of, LiveOn, Today
<1>2. alerts \in Seq(Rows) BY DEF Types
<1>3. all \in SUBSET Ids /\ \A s : Of(s) \in SUBSET Ids BY DEF Of
<1>4. /\ IsFiniteSet(all) /\ Cardinality(all) \in Nat
      /\ \A s : IsFiniteSet(Of(s)) /\ Cardinality(Of(s)) \in Nat
  BY <1>2, <1>3, IdsFinite, FS_Subset, FS_CardinalityType
<1>5. Cardinality(OnSymbols(Today)) <= n
  <2>1. OnSymbols(Today) = UNION {LiveOn(Today, s) : s \in Symbols} BY <1>2, UnionIsOnSymbols
  <2>2. OnSymbols(Today) \in SUBSET all BY <1>1, <2>1
  <2> QED BY <1>4, <2>2, FS_Subset
<1>6. \A s : Cardinality(LiveOn(Today, s)) <= Cardinality(Of(s)) BY <1>1, <1>4, FS_Subset
<1>7. n \in Nat /\ m \in Nat /\ f \in [Symbols -> Nat] BY <1>4
<1>8. /\ Cardinality(LiveOn(Today, "macro")) <= m
      /\ \A s \in Symbols : Cardinality(LiveOn(Today, s)) <= f[s]
  BY <1>6
<1>9. countPulseSentToday = [total |-> n, macro |-> m, bySymbol |-> f] BY DEF countPulseSentToday
<1> HIDE DEF n, m, f
<1>10. countPulseSentToday \in Counts BY <1>7, <1>9 DEF Counts
<1>11. /\ countPulseSentToday.total = n /\ countPulseSentToday.macro = m
       /\ countPulseSentToday.bySymbol = f
  BY <1>9
<1> QED BY <1>5, <1>8, <1>10, <1>11

LEMMA AnswerKeeps == ASSUME IInv, AgentAnswers PROVE IInv'
<1> USE DEF IInv
<1>1. Environment /\ UNCHANGED <<alerts, digest>>
  BY DEF AgentAnswers, Environment, Types, Steady, clock, process
<1>2. run \in Runs /\ run.recent \subseteq Ids BY DEF Types
<1>2a. PICK n \in 0 .. 2 : \E todo \in [1 .. n -> Candidates] :
          run' = [run EXCEPT !.stage = "judge", !.textOn = on, !.todo = todo,
                             !.counts = countPulseSentToday]
  BY DEF AgentAnswers
<1>3. PICK todo \in [1 .. n -> Candidates] :
          run' = [run EXCEPT !.stage = "judge", !.textOn = on, !.todo = todo,
                             !.counts = countPulseSentToday]
  BY <1>2a
<1>4. todo \in Seq(Candidates) BY <1>2a, <1>3, SeqDef
<1>5. countPulseSentToday \in Counts BY CountsAreRight
<1>6. /\ run' \in Runs /\ run'.started = run.started /\ run'.stage = "judge"
      /\ run'.counts = countPulseSentToday /\ run'.recent = run.recent
  BY <1>2, <1>3, <1>4, <1>5 DEF Runs, Types
<1>7. Ids' = Ids BY <1>1 DEF Ids
<1>8. Types' BY <1>1, <1>2, <1>6, <1>7 DEF Types, Environment
<1>9. CountsCover'
  <2>1. Today' = Today BY <1>6 DEF Today, Day
  <2>2. \A d, s : LiveOn(d, s)' = LiveOn(d, s) BY <1>1, <1>7 DEF LiveOn, Live
  <2>3. \A d : OnSymbols(d)' = OnSymbols(d) BY <1>1, <1>7 DEF OnSymbols, Plain, Live
  <2>4. ASSUME NEW d, d = Today
        PROVE  /\ \A s \in Symbols : Cardinality(LiveOn(d, s)') <= countPulseSentToday.bySymbol[s]
               /\ Cardinality(OnSymbols(d)') <= countPulseSentToday.total
               /\ Cardinality(LiveOn(d, "macro")') <= countPulseSentToday.macro
    BY <2>2, <2>3, <2>4, CountsAreRight
  <2> QED BY <1>6, <2>1, <2>4 DEF CountsCover, LiveOn, OnSymbols
<1>10. SendingIsAllowed' BY <1>6 DEF SendingIsAllowed
<1>11. CapsKept' BY <1>1, EndingKeepsCaps DEF Types, Plain, Live
<1>12. DigestIsQueued' /\ RowsTellDelivery' BY <1>1, DeliveryStays
<1> QED BY <1>8, <1>9, <1>10, <1>11, <1>12

\* What decide lets pass was not capped.
LEMMA DecisionRespectsCaps ==
    ASSUME NEW c \in Candidates
    PROVE  /\ decide(c) \in {"below", "dup", "capped", "queued", "sent"}
           /\ decide(c) \in {"sent", "queued"} => ~Capped(c)
<1>1. c.sev \in Nat
  <2>1. c.sev \in Severities BY DEF Candidates
  <2>2. \A n \in Severities : n \in 0 .. 2 BY PulseAssumption
  <2> QED BY <2>1, <2>2
<1>2. CASE c.sev < Threshold BY <1>1, <1>2 DEF decide, Threshold
<1>3. CASE c.sev >= Threshold /\ findDuplicate(c) BY <1>1, <1>3 DEF decide, Threshold
<1>4. CASE c.sev >= Threshold /\ ~findDuplicate(c) /\ Capped(c) BY <1>1, <1>4 DEF decide, Threshold
<1>5. CASE c.sev >= Threshold /\ ~findDuplicate(c) /\ ~Capped(c) BY <1>1, <1>5 DEF decide, Threshold
<1> QED BY <1>1, <1>2, <1>3, <1>4, <1>5 DEF Threshold

LEMMA JudgeKeeps == ASSUME IInv, Judge PROVE IInv'
<1> USE DEF IInv
<1> DEFINE c == Head(run.todo)
<1>1. /\ Judging /\ run.stage = "judge" /\ run.todo # <<>>
      /\ UNCHANGED <<clock, process, digest, backoff>>
      /\ UNCHANGED <<time, due, up, on, faults>>
  BY DEF Judge, judging, Judging, Steady, clock, process
<1>1a. c \in Candidates BY <1>1 DEF Types, Runs
<1>2. CASE ToSend /\ on /\ run' = [run EXCEPT !.stage = "send"] /\ UNCHANGED alerts
  <2>1. ~Capped(c) /\ ~run.dry BY <1>2, <1>1a, DecisionRespectsCaps DEF ToSend
  <2>2. run \in Runs BY DEF Types
  <2>3. /\ run' \in Runs /\ run'.stage = "send" /\ run'.counts = run.counts /\ run'.todo = run.todo
        /\ run'.started = run.started /\ run'.dry = run.dry /\ run'.recent = run.recent
    BY <1>2, <2>2 DEF Runs
  <2>4. Types' BY <1>1, <1>2, <2>3 DEF Types, Ids
  <2>5. SendingIsAllowed' BY <1>1, <2>1, <2>3 DEF SendingIsAllowed, Capped
  <2>6. CountsCover' BY <1>1, <1>2, <2>3 DEF CountsCover, Judging, Today, LiveOn, OnSymbols, Ids, Plain, Live, Day
  <2>7. CapsKept' BY <1>2, EndingKeepsCaps DEF Types, Plain, Live
  <2>8. DigestIsQueued' /\ RowsTellDelivery' BY <1>1, <1>2, DeliveryStays
  <2> QED BY <2>4, <2>5, <2>6, <2>7, <2>8
<1>3. CASE ToSend /\ ~on /\ Insert("failed", 0)
  BY <1>1, <1>3, InsertKeeps
<1>4. CASE ~ToSend /\ Insert(recordedStatus(decide(c)), 0)
  <2> DEFINE status == recordedStatus(decide(c))
  <2>1. /\ decide(c) \in {"below", "dup", "capped", "queued", "sent"}
        /\ decide(c) \in {"sent", "queued"} => ~Capped(c)
    BY <1>1a, DecisionRespectsCaps
  <2>2. status \in {"below", "dup", "capped", "queued", "sent", "muted"}
    BY <2>1 DEF recordedStatus
  <2>3. status \in {"sent", "queued"} => ~Capped(c) /\ ~run.dry
    BY <2>1 DEF recordedStatus
  <2> HIDE DEF status
  <2>4. Insert(status, 0) BY <1>4 DEF status
  <2> QED BY <1>1, <2>2, <2>3, <2>4, InsertKeeps
<1> QED BY <1>2, <1>3, <1>4 DEF Judge

LEMMA SendKeeps == ASSUME IInv, SendEnds PROVE IInv'
<1> USE DEF IInv
<1>1. /\ Judging /\ run.todo # <<>> /\ ~Capped(Head(run.todo)) /\ ~run.dry
      /\ UNCHANGED <<clock, process, digest, backoff>>
  BY DEF SendEnds, Judging, SendingIsAllowed, Steady
<1>2. PICK status \in {"sent", "failed"}, told \in {0, 1} : Insert(status, told)
  BY DEF SendEnds
<1> QED BY <1>1, <1>2, InsertKeeps

LEMMA StartKeeps == ASSUME IInv, NEW force, NEW dry \in BOOLEAN, runPulse(force, dry) PROVE IInv'
<1>1. Environment BY DEF IInv, runPulse, Environment, Types, Steady, clock, process
<1>2. run' = [NoRun EXCEPT !.stage = "news", !.started = time, !.dry = dry] BY DEF runPulse
<1>3. time \in Nat BY PulseAssumption DEF IInv, Types, End
<1>4. run' \in Runs /\ run'.stage = "news" /\ run'.recent = {}
  <2>1. NoRun.recent = {} BY DEF NoRun
  <2> QED BY <1>2, <1>3, <2>1, NoRunIsRun DEF Runs
<1> QED BY <1>1, <1>4, RunChanges DEF runPulse, Steady

LEMMA AskKeeps == ASSUME IInv, AskAgent PROVE IInv'
<1>1. Environment BY DEF IInv, AskAgent, Environment, Types, Steady, clock, process
<1>2. recentPulseAlerts \subseteq Ids /\ Ids \subseteq Nat
  BY IdsFinite DEF recentPulseAlerts, IInv, Types
<1>3. run \in Runs BY DEF IInv, Types
<1>4. run' \in Runs /\ run'.stage = "agent" /\ run'.recent = recentPulseAlerts
  BY <1>2, <1>3 DEF AskAgent, Runs
<1> QED BY <1>1, <1>2, <1>4, RunChanges DEF AskAgent, Steady

LEMMA StopKeeps == ASSUME IInv, NoHoldings \/ RunFails \/ RunEnds PROVE IInv'
<1>1. Environment
  BY DEF IInv, NoHoldings, RunFails, RunEnds, Environment, Types, Steady, clock, process
<1>2. run' = NoRun /\ UNCHANGED <<alerts, digest>> BY DEF NoHoldings, RunFails, RunEnds, Steady
<1>3. NoRun.stage = "none" /\ NoRun.recent = {} BY DEF NoRun
<1> QED BY <1>1, <1>2, <1>3, NoRunIsRun, RunChanges

-----------------------------------------------------------------------------
LEMMA InitInv == Init => IInv
<1> SUFFICES ASSUME Init PROVE IInv
  OBVIOUS
<1>1. alerts = <<>> /\ alerts \in Seq(Rows) /\ Ids = {} BY DEF Init, Ids
<1>2. 1 \in 0 .. End BY PulseAssumption DEF End
<1>3. run \in Runs /\ run.recent = {} /\ run.stage = "none" BY NoRunIsRun DEF Init, NoRun
<1>4. Types
  <2>1. /\ time = 1 /\ due = FALSE /\ up = TRUE /\ on = TRUE /\ backoff = FALSE
        /\ faults = 0 /\ digest = NoDigests
    BY DEF Init
  <2>2. 0 \in 0 .. MaxFaults BY PulseAssumption
  <2>3. NoDigests \in [Flushes -> SUBSET Ids] BY DEF NoDigests
  <2> QED BY <1>1, <1>2, <1>3, <2>1, <2>2, <2>3 DEF Types
<1>5. CountsCover /\ SendingIsAllowed BY <1>3 DEF CountsCover, Judging, SendingIsAllowed
<1>6. CapsKept
  <2>1. \A d, s : LiveOn(d, s) = {} BY <1>1 DEF LiveOn
  <2>2. \A d : OnSymbols(d) = {} BY <1>1 DEF OnSymbols
  <2>3. Cardinality({}) = 0 BY FS_EmptySet
  <2> QED BY <2>1, <2>2, <2>3, PulseAssumption DEF CapsKept, Caps
<1>7. DigestIsQueued /\ RowsTellDelivery BY <1>1 DEF Init, DigestIsQueued, RowsTellDelivery
<1> QED BY <1>4, <1>5, <1>6, <1>7 DEF IInv

LEMMA NextInv == IInv /\ [Next]_vars => IInv'
<1> SUFFICES ASSUME IInv, [Next]_vars PROVE IInv'
  OBVIOUS
<1>1. CASE runPulse(FALSE, FALSE) \/ \E dry \in BOOLEAN : runPulse(TRUE, dry) BY <1>1, StartKeeps
<1>2. CASE NoHoldings \/ RunFails \/ RunEnds BY <1>2, StopKeeps
<1>3. CASE AskAgent BY <1>3, AskKeeps
<1>4. CASE AgentAnswers BY <1>4, AnswerKeeps
<1>5. CASE Judge BY <1>5, JudgeKeeps
<1>6. CASE SendEnds BY <1>6, SendKeeps
<1>7. CASE \E f \in Flushes : DigestEnds(f) BY <1>7, DigestKeeps
<1>8. CASE Tick \/ CronMissed \/ Toggle BY <1>8, OthersKeep
<1>9. CASE CronFires BY <1>9, CronKeeps
<1>10. CASE Crash BY <1>10, CrashKeeps
<1>11. CASE Restart BY <1>11, RestartKeeps
<1>12. CASE UNCHANGED vars
  <2>1. Environment BY <1>12 DEF vars, clock, process, IInv, Types, Environment
  <2> QED BY <1>12, <2>1, RowsStay DEF vars
<1> QED BY <1>1, <1>2, <1>3, <1>4, <1>5, <1>6, <1>7, <1>8, <1>9, <1>10, <1>11, <1>12 DEF Next

LEMMA Invariance == Spec => []IInv
<1> QED BY InitInv, NextInv, PTL DEF Spec

(***************************************************************************)
(* The types of clock, table, run and digest; a run and a digest hold only *)
(* numbers of rows there are.                                              *)
(***************************************************************************)
THEOREM TypeCorrect == Spec => []TypeOK
<1>1. IInv => TypeOK
  <2> SUFFICES ASSUME IInv PROVE TypeOK
    OBVIOUS
  <2>1. \A i \in Ids : alerts[i].status \in Statuses /\ alerts[i].issue \in Issues
    <3>1. \A i \in Ids : alerts[i] \in Rows BY DEF IInv, Types, Ids
    <3> QED BY <3>1 DEF Rows
  <2>2. run.stage \in {"none", "news", "agent", "judge", "send"} BY DEF IInv, Types, Runs
  <2> QED BY <2>1, <2>2 DEF IInv, Types, TypeOK
<1> QED BY <1>1, Invariance, PTL

(***************************************************************************)
(* What reaches the user of one date, at once or in the morning, is within *)
(* the caps of symbol, day and market, however runs, digests, switches and *)
(* restarts fall together, but for rows that two digests had on their way  *)
(* at once (countPulseSentToday, decide).                                  *)
(***************************************************************************)
THEOREM CapsAreKept == Spec => []CapsHold
<1>1. IInv => CapsHold
  <2> SUFFICES ASSUME IInv, NEW d \in 0 .. Days
               PROVE  /\ \A s \in Symbols : Cardinality(LiveOn(d, s)) <= PerSymbolCap
                      /\ Cardinality(UNION {LiveOn(d, s) : s \in Symbols}) <= DailyCap
                      /\ Cardinality(LiveOn(d, "macro")) <= MacroCap
    BY DEF CapsHold
  <2>1. d \in Nat BY PulseAssumption
  <2>2. Caps(d) BY <2>1 DEF IInv, CapsKept
  <2>3. UNION {LiveOn(d, s) : s \in Symbols} = OnSymbols(d) BY UnionIsOnSymbols DEF IInv, Types
  <2> QED BY <2>2, <2>3 DEF Caps
<1> QED BY <1>1, Invariance, PTL

(***************************************************************************)
(* A row is delivered once, and once more at most for each crash between   *)
(* its digest and its mark and for each flush that met it on its way; no   *)
(* other crash, restart, missed cron or failed digest lets it be delivered *)
(* again (flushPulseQueue, startScheduler).                                *)
(***************************************************************************)
THEOREM DeliveredAtMostOnce == Spec => []DeliveredOnce
<1>1. IInv => DeliveredOnce
  <2> SUFFICES ASSUME IInv, NEW i \in Ids
               PROVE  alerts[i].told <= 1 + alerts[i].cut + alerts[i].met
    BY DEF DeliveredOnce
  <2>1. alerts[i].told + Cardinality(Flying(i)) <= 1 + alerts[i].cut + alerts[i].met
    BY RowFacts DEF Told
  <2>2. alerts[i].told \in Nat /\ alerts[i].cut \in Nat /\ alerts[i].met \in Nat BY RowFacts
  <2> QED BY <2>1, <2>2, FlyingFinite
<1> QED BY <1>1, Invariance, PTL

(***************************************************************************)
(* Nothing a dry run judged is ever delivered: it leaves no row that a     *)
(* digest could take (runPulse).                                           *)
(***************************************************************************)
THEOREM DryRunsAreSilent == Spec => []DryRunSilent
<1>1. IInv => DryRunSilent BY DEF IInv, RowsTellDelivery, DryRunSilent
<1> QED BY <1>1, Invariance, PTL
=============================================================================
