---------------------------- MODULE UptimeProofs ----------------------------
(***************************************************************************)
(* The ledger of the downtime, for any schedule, any records of the        *)
(* machine and any number of crashes, sleeps and failed lookups.  What a   *)
(* gap may be told as depends on what the ledger holds when its turn       *)
(* comes: every event began before the gap did, and none reaches into it   *)
(* but those of an autopsy that is repeated.                               *)
(*                                                                         *)
(* The autopsy comes after it: what is certain of a gap is true, and the   *)
(* account of an event says so, for any length of a run, any number of     *)
(* mishaps and of gaps.  It rests on what the traces of the machine tell   *)
(* of what happened to it, as long as its clock is not set.                *)
(***************************************************************************)
EXTENDS Uptime, Autopsy, FiniteSetTheorems, WellFoundedInduction, TLAPS

Slips == [evaluated : BOOLEAN, recovered : BOOLEAN]
Finds == UNION {[D -> Slips] : D \in SUBSET Slots}
Causes == {"unknown", "panic", "reboot-clean", "battery-dead", "power-cut", "sleep", "restart-intended",
           "app-gap"}
EventRecords ==
    [id : Nat, start : Nat, end : Nat, cause : Causes, missed : Finds,
     state : {"recovering", "recovered", "partly", "lost"}, rounds : Nat, imessage : BOOLEAN, acked : BOOLEAN]
GapTasks == [kind : {"gap"}, source : {"boot", "tick"}, start : Nat, end : Nat,
             mode : {"alive", "stopping"}, rebooted : BOOLEAN]
ReevalTasks == [kind : {"reeval"}, id : Nat, round : Nat]
SweepTasks == [kind : {"sweep"}]
Tasks == GapTasks \cup ReevalTasks \cup SweepTasks
Timers == [id : Nat, round : Nat, due : Nat]
Beacons == [at : Nat, mode : {"alive", "stopping"}]

GoodTypes ==
    /\ now \in Nat /\ phase \in {"down", "boot", "up"} /\ rebooted \in BOOLEAN
    /\ beacon = None \/ beacon \in Beacons
    /\ chain \in Seq(Tasks) /\ timers \in SUBSET Timers
    /\ schedule \in SUBSET Slots

\* Events follow each other, by their beginning and by their end.
GoodLedger(events, time) ==
    /\ events \in SUBSET EventRecords /\ IsFiniteSet(events)
    /\ \A e \in events : e.id = e.start /\ e.start <= e.end /\ e.end <= time
    /\ \A e, f \in events : e.id = f.id => e = f
    /\ \A e, f \in events : e.start < f.start => e.end <= f.end

\* No event began after t, and after an event that goes on beyond t none began
\* but at t.
Follows(events, t) ==
    /\ \A e \in events : e.start <= t
    /\ \A e, x \in events : t < e.end /\ e.start < x.start => x.start = t

\* A gap that waits to be judged.
GoodGap(lapse, events, time) ==
    /\ lapse.start <= lapse.end /\ lapse.end <= time
    /\ Follows(events, lapse.start)
    /\ \A e \in events : e.end <= lapse.end /\ (lapse.source = "tick" => e.end <= lapse.start)

\* The task at work.
GoodWork(task, events, time) ==
    /\ \/ task = Idle
       \/ /\ task.step = "lookup"
          /\ task = [step |-> "lookup", task |-> task.task]
          /\ task.task \in GapTasks \cup ReevalTasks
       \/ /\ task.step \in {"notify", "sending"}
          /\ task = [step |-> task.step, kind |-> task.kind, list |-> task.list, arm |-> task.arm]
          /\ task.list \in Seq(EventRecords) /\ task.list # <<>>
    /\ task.step = "lookup" /\ task.task.kind = "gap" => GoodGap(task.task, events, time)
    /\ task.step = "lookup" /\ task.task.kind = "reeval" => \E e \in events : e.id = task.task.id
    /\ task.step \in {"notify", "sending"} =>
          \A i \in DOMAIN task.list : \E e \in events : e.id = task.list[i].id

\* The gaps that wait follow each other, and the one at work is before them.
GoodChain(tasks, task, events, time) ==
    /\ \A i \in DOMAIN tasks : tasks[i].kind = "gap" =>
          /\ GoodGap(tasks[i], events, time)
          /\ task.step = "lookup" /\ task.task.kind = "gap" => task.task.end <= tasks[i].start
    /\ \A i, j \in DOMAIN tasks : i < j /\ tasks[i].kind = "gap" /\ tasks[j].kind = "gap" =>
          tasks[i].end <= tasks[j].start

\* The beacon while the process runs, and while it does not.
GoodBeacon ==
    /\ beacon = None => ledger = {}
    /\ beacon # None => beacon.at <= now /\ Follows(ledger, beacon.at)
    /\ phase = "up" => beacon # None /\ beacon.at = now /\ lastTick = now
    /\ phase = "down" => chain = <<>> /\ work = Idle
    /\ phase = "boot" =>
          /\ \A i \in DOMAIN chain : chain[i].kind = "gap" => beacon # None /\ chain[i].start = beacon.at
          /\ work.step = "lookup" /\ work.task.kind = "gap" => beacon # None /\ work.task.start = beacon.at

UptimeInv ==
    /\ GoodTypes
    /\ GoodLedger(ledger, now)
    /\ GoodWork(work, ledger, now)
    /\ GoodChain(chain, work, ledger, now)
    /\ GoodBeacon

LEMMA MaxOfTwo ==
    ASSUME NEW a \in Nat, NEW b \in Nat
    PROVE  Max({a, b}) = IF a >= b THEN a ELSE b
<1>1. (IF a >= b THEN a ELSE b) \in {a, b} /\ \A y \in {a, b} : (IF a >= b THEN a ELSE b) >= y
  OBVIOUS
<1>2. \A x \in {a, b} : (\A y \in {a, b} : x >= y) => x = IF a >= b THEN a ELSE b
  OBVIOUS
<1>3. QED
  BY <1>1, <1>2 DEF Max

LEMMA TailFacts ==
    ASSUME NEW S, NEW s \in Seq(S), s # <<>>
    PROVE  /\ Head(s) = s[1] /\ 1 \in DOMAIN s /\ Head(s) \in S /\ Tail(s) \in Seq(S)
           /\ \A i \in DOMAIN Tail(s) : i + 1 \in DOMAIN s /\ Tail(s)[i] = s[i + 1] /\ i \in Nat \ {0}
OBVIOUS

LEMMA AppendFacts ==
    ASSUME NEW S, NEW s \in Seq(S), NEW x \in S
    PROVE  /\ Append(s, x) \in Seq(S)
           /\ \A i \in DOMAIN Append(s, x) :
                 (i \in DOMAIN s /\ Append(s, x)[i] = s[i]) \/ (i = Len(s) + 1 /\ Append(s, x)[i] = x)
           /\ \A i \in DOMAIN s : i <= Len(s)
OBVIOUS

\* Putting an event in place of the one of its id that there is.
LEMMA PatchKeeps ==
    ASSUME NEW time \in Nat, GoodLedger(ledger, time),
           NEW old \in ledger, NEW new \in EventRecords,
           new.id = old.id, new.start = old.start, new.end = old.end, new.cause = old.cause
    PROVE  /\ GoodLedger(Put(new), time)
           /\ \A t : Follows(ledger, t) => Follows(Put(new), t)
           /\ \A lapse : GoodGap(lapse, ledger, time) => GoodGap(lapse, Put(new), time)
           /\ \A id : (\E e \in ledger : e.id = id) => \E e \in Put(new) : e.id = id
           /\ \A e \in ledger : \E f \in Put(new) :
                 f.id = e.id /\ f.start = e.start /\ f.end = e.end /\ f.cause = e.cause
           /\ \A f \in Put(new) : \E e \in ledger :
                 f.id = e.id /\ f.start = e.start /\ f.end = e.end /\ f.cause = e.cause
<1>1. \A e \in ledger : \E f \in Put(new) :
         f.id = e.id /\ f.start = e.start /\ f.end = e.end /\ f.cause = e.cause
  <2>1. SUFFICES ASSUME NEW e \in ledger
                 PROVE  \E f \in Put(new) : f.id = e.id /\ f.start = e.start /\ f.end = e.end /\ f.cause = e.cause
    OBVIOUS
  <2>2. CASE e.id = new.id
    BY <2>2 DEF Put, GoodLedger
  <2>3. CASE e.id # new.id
    BY <2>3 DEF Put
  <2>4. QED
    BY <2>2, <2>3
<1>2. \A f \in Put(new) : \E e \in ledger :
         f.id = e.id /\ f.start = e.start /\ f.end = e.end /\ f.cause = e.cause
  BY DEF Put
<1>3. Put(new) \in SUBSET EventRecords /\ IsFiniteSet(Put(new))
  <2>1. {x \in ledger : x.id # new.id} \subseteq ledger /\ IsFiniteSet(ledger) /\ ledger \in SUBSET EventRecords
    BY DEF GoodLedger
  <2>2. IsFiniteSet({x \in ledger : x.id # new.id})
    BY <2>1, FS_Subset
  <2>3. IsFiniteSet(Put(new))
    BY <2>2, FS_AddElement DEF Put
  <2>4. QED
    BY <2>1, <2>3 DEF Put
<1>4. \A e, f \in Put(new) : e.id = f.id => e = f
  BY DEF Put, GoodLedger
<1>5. GoodLedger(Put(new), time)
  <2>1. \A e \in Put(new) : e.id = e.start /\ e.start <= e.end /\ e.end <= time
    BY <1>2 DEF GoodLedger
  <2>2. \A e, f \in Put(new) : e.start < f.start => e.end <= f.end
    BY <1>2 DEF GoodLedger
  <2>3. QED
    BY <1>3, <1>4, <2>1, <2>2 DEF GoodLedger
<1>6. \A t : Follows(ledger, t) => Follows(Put(new), t)
  BY <1>2 DEF Follows
<1>7. \A lapse : GoodGap(lapse, ledger, time) => GoodGap(lapse, Put(new), time)
  BY <1>2, <1>6 DEF GoodGap
<1>8. QED
  BY <1>1, <1>2, <1>5, <1>6, <1>7

\* What a recorded gap makes of the ledger.
RecordedIn(events, lapse, new) ==
    /\ new \in EventRecords /\ new.id = new.start /\ new.start <= lapse.start /\ lapse.end <= new.end
    /\ \/ /\ \A e \in events : e.start <= new.start
          /\ \E e \in events : e.id = new.id /\ new.end = IF e.end >= lapse.end THEN e.end ELSE lapse.end
       \/ /\ new.start = lapse.start /\ new.end = lapse.end
          /\ \A e \in events : (\A x \in events : x.start <= e.start) =>
                 e.cause # new.cause \/ lapse.start > e.end

LEMMA RecordKeeps ==
    ASSUME NEW time \in Nat, GoodLedger(ledger, time),
           NEW lapse \in GapTasks, GoodGap(lapse, ledger, time),
           NEW new, RecordedIn(ledger, lapse, new)
    PROVE  /\ GoodLedger(Put(new), time)
           /\ \A e \in Put(new) : e.start <= lapse.start /\ e.end <= lapse.end
           /\ Follows(Put(new), lapse.start)
           /\ \A e \in ledger : \E f \in Put(new) : f.id = e.id /\ f.start = e.start /\ e.end <= f.end
           /\ \A e, f \in Put(new) : Overlap(Put(new), e, f) =>
                 \/ \E g, h \in ledger : g.id = e.id /\ h.id = f.id /\ Overlap(ledger, g, h)
                 \/ lapse.source = "boot" /\ f.start = lapse.start /\ f.cause # e.cause
<1>1. /\ ledger \in SUBSET EventRecords /\ IsFiniteSet(ledger)
      /\ \A e \in ledger : /\ e.id = e.start /\ e.start <= e.end /\ e.end <= time
                           /\ e.start \in Nat /\ e.end \in Nat /\ e.start <= lapse.start /\ e.end <= lapse.end
      /\ \A e, f \in ledger : e.id = f.id => e = f
      /\ \A e, f \in ledger : e.start < f.start => e.end <= f.end
  BY DEF GoodLedger, GoodGap, Follows, EventRecords
<1>2. /\ new \in EventRecords /\ new.id = new.start /\ new.start \in Nat /\ new.end \in Nat
      /\ lapse.start \in Nat /\ lapse.end \in Nat /\ lapse.start <= lapse.end /\ lapse.end <= time
      /\ new.start <= lapse.start /\ lapse.end <= new.end
  BY DEF RecordedIn, EventRecords, GapTasks, GoodGap
<1>3. new.end = lapse.end /\ new.start <= new.end
  BY <1>1, <1>2 DEF RecordedIn
<1>4. ASSUME NEW e \in Put(new) PROVE e = new \/ (e \in ledger /\ e.id # new.id /\ e.start # new.start)
  BY <1>1, <1>2, <1>4 DEF Put
<1>5. ASSUME NEW e \in Put(new)
      PROVE  e.start \in Nat /\ e.end \in Nat /\ e.start <= lapse.start /\ e.end <= lapse.end /\ e.start <= e.end
             /\ e.id = e.start
  BY <1>1, <1>2, <1>3, <1>4
<1>6. IsFiniteSet(Put(new)) /\ Put(new) \in SUBSET EventRecords
  <2>1. {x \in ledger : x.id # new.id} \subseteq ledger
    OBVIOUS
  <2>2. IsFiniteSet({x \in ledger : x.id # new.id})
    BY <1>1, <2>1, FS_Subset
  <2>3. IsFiniteSet(Put(new))
    BY <2>2, FS_AddElement DEF Put
  <2>4. QED
    BY <1>1, <1>2, <2>3 DEF Put
<1>7. ASSUME NEW e \in Put(new), NEW f \in Put(new), e.start < f.start
      PROVE  e.end <= f.end
  <2>1. e = new \/ (e \in ledger /\ e.start # new.start)
    BY <1>4
  <2>2. f = new \/ (f \in ledger /\ f.start # new.start)
    BY <1>4
  <2>3. CASE f = new
    BY <1>3, <1>5, <2>3
  <2>4. CASE f # new /\ e # new
    BY <1>1, <1>7, <2>1, <2>2, <2>4
  <2>5. CASE f # new /\ e = new
    <3>1. f \in ledger /\ f.start <= lapse.start /\ new.start < f.start
      BY <1>1, <1>7, <2>2, <2>5
    <3>2. QED
      BY <1>1, <1>2, <3>1 DEF RecordedIn
  <2>6. QED
    BY <2>3, <2>4, <2>5
<1>8. GoodLedger(Put(new), time)
  <2>1. \A e, f \in Put(new) : e.id = f.id => e = f
    BY <1>1, <1>4
  <2>2. \A e \in Put(new) : e.id = e.start /\ e.start <= e.end /\ e.end <= time
    BY <1>2, <1>5
  <2>3. QED
    BY <1>6, <1>7, <2>1, <2>2 DEF GoodLedger
<1>9. Follows(Put(new), lapse.start)
  <2>1. SUFFICES ASSUME NEW e \in Put(new), NEW x \in Put(new), lapse.start < e.end, e.start < x.start
                 PROVE  x.start = lapse.start
    BY <1>5 DEF Follows
  <2>2. e = new \/ (e \in ledger /\ e.start # new.start)
    BY <1>4
  <2>3. x = new \/ (x \in ledger /\ x.start # new.start)
    BY <1>4
  <2>4. CASE e \in ledger /\ x \in ledger
    BY <2>1, <2>4 DEF GoodGap, Follows
  <2>5. CASE x = new
    <3>1. e \in ledger
      BY <1>2, <2>1, <2>2, <2>5
    <3>2. CASE \E y \in ledger : y.id = new.id
      <4>1. PICK y \in ledger : y.id = new.id
        BY <3>2
      <4>2. y.start = new.start
        BY <1>1, <1>2, <4>1
      <4>3. y.start = lapse.start
        BY <2>1, <2>5, <3>1, <4>2 DEF GoodGap, Follows
      <4>4. QED
        BY <2>5, <4>2, <4>3
    <3>3. CASE ~ \E y \in ledger : y.id = new.id
      BY <2>5, <3>3 DEF RecordedIn
    <3>4. QED
      BY <3>2, <3>3
  <2>6. CASE e = new /\ x \in ledger
    BY <1>1, <1>2, <2>1, <2>6 DEF RecordedIn
  <2>7. QED
    BY <2>2, <2>3, <2>4, <2>5, <2>6
<1>10. ASSUME NEW e \in ledger
       PROVE  \E f \in Put(new) : f.id = e.id /\ f.start = e.start /\ e.end <= f.end
  <2>1. CASE e.id = new.id
    BY <1>1, <1>2, <1>3, <2>1 DEF Put
  <2>2. CASE e.id # new.id
    BY <1>1, <2>2 DEF Put
  <2>3. QED
    BY <2>1, <2>2
<1>11. ASSUME NEW e \in Put(new), NEW f \in Put(new), Overlap(Put(new), e, f)
       PROVE  \/ \E g, h \in ledger : g.id = e.id /\ h.id = f.id /\ Overlap(ledger, g, h)
              \/ lapse.source = "boot" /\ f.start = lapse.start /\ f.cause # e.cause
  <2>1. e.start < f.start /\ f.start < e.end
    BY <1>11 DEF Overlap
  <2>2. e = new \/ (e \in ledger /\ e.start # new.start)
    BY <1>4
  <2>3. f = new \/ (f \in ledger /\ f.start # new.start)
    BY <1>4
  <2>4. CASE e \in ledger /\ f \in ledger
    BY <2>1, <2>4 DEF Overlap
  <2>5. CASE e = new /\ f \in ledger
    BY <1>1, <1>2, <2>1, <2>5 DEF RecordedIn
  <2>6. CASE e \in ledger /\ f = new
    <3>1. CASE \E x \in ledger : x.id = new.id
      <4>1. PICK x \in ledger : x.id = new.id
        BY <3>1
      <4>2. Overlap(ledger, e, x)
        BY <1>1, <1>2, <2>1, <2>6, <4>1 DEF Overlap
      <4>3. QED
        BY <2>6, <4>1, <4>2
    <3>2. CASE ~ \E x \in ledger : x.id = new.id
      <4>1. new.start = lapse.start /\ \A y \in ledger : (\A x \in ledger : x.start <= y.start) =>
                 y.cause # new.cause \/ lapse.start > y.end
        BY <3>2 DEF RecordedIn
      <4>2. \A x \in ledger : x.start <= e.start
        <5>1. SUFFICES ASSUME NEW x \in ledger, e.start < x.start PROVE FALSE
          BY <1>1, <2>6
        <5>2. x.start = lapse.start
          BY <2>1, <2>6, <4>1, <5>1 DEF GoodGap, Follows
        <5>3. QED
          BY <1>1, <1>2, <3>2, <4>1, <5>2
      <4>3. e.cause # new.cause
        BY <1>1, <1>2, <2>1, <2>6, <4>1, <4>2
      <4>4. lapse.source = "boot"
        <5>1. lapse.source # "tick"
          BY <1>1, <1>2, <2>1, <2>6, <4>1 DEF GoodGap
        <5>2. QED
          BY <5>1 DEF GapTasks
      <4>5. QED
        BY <2>6, <4>1, <4>3, <4>4
    <3>3. QED
      BY <3>1, <3>2
  <2>7. CASE e = new /\ f = new
    BY <1>2, <2>1, <2>7
  <2>8. QED
    BY <2>2, <2>3, <2>4, <2>5, <2>6, <2>7
<1>12. QED
  BY <1>5, <1>8, <1>9, <1>10, <1>11

-----------------------------------------------------------------------------
(* What a task reads and finds. *)

LEMMA NowFollows ==
    ASSUME NEW events, NEW time \in Nat, GoodLedger(events, time)
    PROVE  /\ Follows(events, time)
           /\ \A later \in Nat : time <= later => GoodLedger(events, later) /\ Follows(events, later)
<1>1. /\ events \in SUBSET EventRecords
      /\ \A e \in events : e.start \in Nat /\ e.end \in Nat /\ e.start <= e.end /\ e.end <= time
  BY DEF GoodLedger, EventRecords
<1>2. ASSUME NEW later \in Nat, time <= later PROVE GoodLedger(events, later) /\ Follows(events, later)
  <2>1. \A e \in events : e.start <= later /\ e.end <= later /\ ~ later < e.end
    BY <1>1, <1>2
  <2>2. GoodLedger(events, later)
    BY <2>1 DEF GoodLedger
  <2>3. QED
    BY <2>1, <2>2 DEF Follows
<1>3. QED
  BY <1>2

LEMMA LaterGap ==
    ASSUME NEW time \in Nat, NEW later \in Nat, time <= later, NEW events,
           NEW lapse \in GapTasks, GoodGap(lapse, events, time)
    PROVE  GoodGap(lapse, events, later)
BY DEF GoodGap, GapTasks

LEMMA LookupsAreFinds ==
    ASSUME schedule \in SUBSET Slots, NEW start, NEW end
    PROVE  Lookups(start, end) \subseteq Finds
<1>1. <<>> \in Finds
  <2>1. <<>> \in [{} -> Slips] /\ {} \in SUBSET Slots
    OBVIOUS
  <2>2. QED
    BY <2>1 DEF Finds
<1>2. Missed(start, end) \in Finds
  <2> DEFINE open == {s \in schedule : /\ start < s /\ s <= end
                                       /\ s \notin covered \/ (~Checkable(s) /\ s \in CaughtUp)}
  <2>1. open \in SUBSET Slots
    OBVIOUS
  <2>2. \A s \in open : Checkable(s) \in BOOLEAN
    BY DEF Checkable, CatchupTarget
  <2>3. Missed(start, end) = [s \in open |-> [evaluated |-> Checkable(s), recovered |-> FALSE]]
    BY DEF Missed
  <2>4. \A s \in open : [evaluated |-> Checkable(s), recovered |-> FALSE] \in Slips
    BY <2>2 DEF Slips
  <2> HIDE DEF open
  <2>5. [s \in open |-> [evaluated |-> Checkable(s), recovered |-> FALSE]] \in [open -> Slips]
    BY <2>4
  <2>6. QED
    BY <2>1, <2>3, <2>5 DEF Finds
<1>3. QED
  BY <1>1, <1>2 DEF Lookups

LEMMA FindsAre ==
    ASSUME NEW found \in Finds
    PROVE  DOMAIN found \in SUBSET Slots /\ found \in [DOMAIN found -> Slips]
BY DEF Finds

LEMMA MergedAreFinds ==
    ASSUME NEW old \in Finds, NEW new \in Finds
    PROVE  MergeMissed(old, new) \in Finds /\ Reviewed(old, new) \in Finds
<1> DEFINE D == DOMAIN old \cup DOMAIN new
<1>1. D \in SUBSET Slots /\ old \in [DOMAIN old -> Slips] /\ new \in [DOMAIN new -> Slips]
  BY FindsAre
<1>2. \A x \in Slips : [x EXCEPT !.recovered = TRUE] \in Slips
  BY DEF Slips
<1>3. MergeMissed(old, new) \in [D -> Slips]
  BY <1>1, <1>2 DEF MergeMissed
<1>4. Reviewed(old, new) \in [D -> Slips]
  BY <1>1, <1>2 DEF Reviewed
<1> HIDE DEF D
<1>5. QED
  BY <1>1, <1>3, <1>4 DEF Finds

LEMMA VerdictsAreCauses ==
    ASSUME NEW t, t.rebooted \in BOOLEAN
    PROVE  Verdicts(t) \subseteq Causes
<1>1. \A ev \in Records : ClassifyRebooted(ev) \in Causes
  BY DEF ClassifyRebooted, Causes
<1>2. \A asleep \in BOOLEAN : ClassifySameBoot(t, asleep) \in Causes
  BY DEF ClassifySameBoot, Causes
<1>3. QED
  BY <1>1, <1>2 DEF Verdicts, Causes

LEMMA StatesOfEvents ==
    ASSUME NEW missed, NEW round
    PROVE  /\ FirstState(missed) \in {"recovering", "recovered", "partly", "lost"}
           /\ StateAfter(missed, round) \in {"recovering", "recovered", "partly", "lost"}
BY DEF FirstState, StateAfter

LEMMA EventIsKnown ==
    ASSUME NEW id, \E e \in ledger : e.id = id
    PROVE  EventOf(id) \in ledger /\ EventOf(id).id = id
BY DEF EventOf

\* What handleGap puts into the ledger tells of its gap, by itself or in the
\* event that began last.
LEMMA GapIsRecorded ==
    ASSUME NEW time \in Nat, GoodLedger(ledger, time),
           NEW lapse \in GapTasks, GoodGap(lapse, ledger, time),
           NEW seen \in Finds, NEW cause \in Causes, NEW window \in BOOLEAN
    PROVE  LET into == MergeTargets(lapse, cause, window)
               told == IF into = {} THEN NewEvent(lapse, cause, seen)
                        ELSE Extended(CHOOSE e \in into : TRUE, lapse, cause, seen)
           IN  RecordedIn(ledger, lapse, told)
<1> DEFINE into == MergeTargets(lapse, cause, window)
           old == CHOOSE e \in into : TRUE
<1>1. /\ ledger \in SUBSET EventRecords
      /\ \A e \in ledger : e.id = e.start /\ e.start \in Nat /\ e.end \in Nat /\ e.start <= lapse.start
  BY DEF GoodLedger, GoodGap, Follows, EventRecords
<1>2. lapse.start \in Nat /\ lapse.end \in Nat /\ lapse.start <= lapse.end
  BY DEF GapTasks, GoodGap
<1>3. CASE into = {}
  <2> DEFINE told == NewEvent(lapse, cause, seen)
  <2>1. told \in EventRecords
    BY <1>2, StatesOfEvents DEF NewEvent, EventRecords
  <2>2. told.id = lapse.start /\ told.start = lapse.start /\ told.end = lapse.end /\ told.cause = cause
    BY DEF NewEvent
  <2>3. ASSUME NEW e \in ledger, \A x \in ledger : x.start <= e.start
        PROVE  e.cause # cause \/ lapse.start > e.end
    <3>1. e \in Latest
      BY <2>3 DEF Latest
    <3>2. lapse.start + MergeWindow >= e.start
      BY <1>1, <1>2 DEF MergeWindow
    <3>3. ~(e.cause = cause /\ lapse.start <= e.end + MergeWindow)
      BY <1>3, <3>1, <3>2 DEF MergeTargets
    <3>4. QED
      BY <1>1, <1>2, <3>3 DEF MergeWindow
  <2> HIDE DEF told
  <2>4. RecordedIn(ledger, lapse, told)
    BY <1>2, <2>1, <2>2, <2>3 DEF RecordedIn
  <2>5. QED
    BY <1>3, <2>4 DEF told
<1>4. CASE into # {}
  <2> DEFINE told == Extended(old, lapse, cause, seen)
  <2>1. old \in into
    BY <1>4
  <2>2. old \in ledger /\ \A x \in ledger : x.start <= old.start
    BY <2>1 DEF MergeTargets, Latest
  <2>3. old \in EventRecords /\ old.missed \in Finds
    BY <1>1, <2>2 DEF EventRecords
  <2>4. Max({old.end, lapse.end}) = IF old.end >= lapse.end THEN old.end ELSE lapse.end
    BY <1>1, <1>2, <2>2, MaxOfTwo
  <2>5. MergeMissed(old.missed, seen) \in Finds
    BY <2>3, MergedAreFinds
  <2>6. Max({old.end, lapse.end}) \in Nat
    BY <1>1, <1>2, <2>2, <2>4
  <2> HIDE DEF old, into
  <2>7. told = [old EXCEPT !.end = Max({old.end, lapse.end}), !.cause = cause,
                            !.missed = MergeMissed(old.missed, seen), !.state = FirstState(seen)]
    BY DEF Extended
  <2>8. FirstState(seen) \in {"recovering", "recovered", "partly", "lost"}
    BY StatesOfEvents
  <2> HIDE DEF told
  <2>9. told \in EventRecords
    BY <2>3, <2>5, <2>6, <2>7, <2>8 DEF EventRecords
  <2>10. told.id = old.id /\ told.start = old.start /\ told.end = Max({old.end, lapse.end})
    BY <2>3, <2>7 DEF EventRecords
  <2>11. RecordedIn(ledger, lapse, told)
    BY <1>1, <1>2, <2>2, <2>4, <2>9, <2>10 DEF RecordedIn
  <2>12. QED
    BY <1>4, <2>11 DEF told, old, into
<1>5. QED
  BY <1>3, <1>4

-----------------------------------------------------------------------------
(* The tasks of the chain. *)

LEMMA TakeKeeps == UptimeInv /\ Take => UptimeInv'
<1> SUFFICES ASSUME UptimeInv, Take PROVE UptimeInv'
  OBVIOUS
<1>1. /\ work = Idle /\ chain \in Seq(Tasks) /\ chain # <<>> /\ chain' = Tail(chain)
      /\ UNCHANGED <<now, phase, beacon, ledger, lastTick, timers, schedule, covered, rebooted>>
  BY DEF UptimeInv, GoodTypes, Take, disk, world
<1> DEFINE t == Head(chain)
<1>2. /\ t = chain[1] /\ 1 \in DOMAIN chain /\ t \in Tasks /\ Tail(chain) \in Seq(Tasks)
      /\ \A i \in DOMAIN Tail(chain) : i + 1 \in DOMAIN chain /\ Tail(chain)[i] = chain[i + 1] /\ i \in Nat \ {0}
  BY <1>1, TailFacts
<1> HIDE DEF t
<1>3. GoodTypes'
  BY <1>1, <1>2 DEF UptimeInv, GoodTypes
<1>4. GoodLedger(ledger, now)'
  BY <1>1 DEF UptimeInv
<1>5. \/ work' = Idle
      \/ /\ work' = [step |-> "lookup", task |-> t]
         /\ \/ t \in GapTasks /\ t.kind = "gap"
            \/ t \in ReevalTasks /\ t.kind = "reeval" /\ \E e \in ledger : e.id = t.id
      \/ \E list : /\ work' = [step |-> "notify", kind |-> "sweep", list |-> list, arm |-> FALSE]
                   /\ list \in Seq(ledger) /\ list # <<>>
  <2>1. CASE TakeGap(t)
    BY <1>2, <2>1 DEF TakeGap, Tasks, GapTasks, ReevalTasks, SweepTasks
  <2>2. CASE TakeReeval(t)
    BY <1>2, <2>2 DEF TakeReeval, Known, Tasks, GapTasks, ReevalTasks, SweepTasks
  <2>3. CASE TakeSweep(t)
    <3>1. CASE Pending = {}
      BY <2>3, <3>1 DEF TakeSweep
    <3>2. CASE Pending # {}
      <4>1. PICK list \in Newest(Pending) : work' = Texting("sweep", list, FALSE)
        BY <2>3, <3>2 DEF TakeSweep
      <4>2. IsFiniteSet(ledger) /\ Pending \subseteq ledger
        BY DEF UptimeInv, GoodLedger, Pending
      <4>3. IsFiniteSet(Pending)
        BY <4>2, FS_Subset
      <4>4. Cardinality(Pending) \in Nat /\ Cardinality(Pending) # 0
        BY <3>2, <4>3, FS_CardinalityType, FS_EmptySet
      <4>5. list \in [1 .. Cardinality(Pending) -> Pending]
        BY <4>1 DEF Newest
      <4>6. list \in Seq(ledger) /\ list # <<>>
        BY <4>2, <4>4, <4>5
      <4>7. QED
        BY <4>1, <4>6 DEF Texting
    <3>3. QED
      BY <3>1, <3>2
  <2>4. QED
    BY <2>1, <2>2, <2>3 DEF Take, t
<1>6. t.kind = "gap" =>
         /\ GoodGap(t, ledger, now)
         /\ \A j \in DOMAIN chain : 1 < j /\ chain[j].kind = "gap" => t.end <= chain[j].start
  BY <1>2 DEF UptimeInv, GoodChain
<1>7. GoodWork(work', ledger, now)
  <2>1. CASE work' = Idle
    BY <2>1 DEF GoodWork, Idle
  <2>2. CASE work' = [step |-> "lookup", task |-> t] /\ t \in GapTasks /\ t.kind = "gap"
    BY <1>6, <2>2 DEF GoodWork
  <2>3. CASE work' = [step |-> "lookup", task |-> t] /\ t \in ReevalTasks /\ t.kind = "reeval"
             /\ \E e \in ledger : e.id = t.id
    BY <2>3 DEF GoodWork
  <2>4. ASSUME NEW list, work' = [step |-> "notify", kind |-> "sweep", list |-> list, arm |-> FALSE],
               list \in Seq(ledger), list # <<>>
        PROVE  GoodWork(work', ledger, now)
    <3>1. ledger \in SUBSET EventRecords
      BY DEF UptimeInv, GoodLedger
    <3>2. list \in Seq(EventRecords) /\ \A i \in DOMAIN list : list[i] \in ledger
      BY <2>4, <3>1
    <3>3. QED
      BY <2>4, <3>2 DEF GoodWork
  <2>5. QED
    BY <1>5, <2>1, <2>2, <2>3, <2>4
<1>8. GoodChain(Tail(chain), work', ledger, now)
  <2>1. work'.step = "lookup" /\ work'.task.kind = "gap" => t.kind = "gap" /\ work'.task = t
    BY <1>5 DEF Idle
  <2>2. ASSUME NEW i \in DOMAIN Tail(chain), Tail(chain)[i].kind = "gap"
        PROVE  /\ GoodGap(Tail(chain)[i], ledger, now)
               /\ work'.step = "lookup" /\ work'.task.kind = "gap" => work'.task.end <= Tail(chain)[i].start
    BY <1>2, <1>6, <2>1, <2>2 DEF UptimeInv, GoodChain
  <2>3. ASSUME NEW i \in DOMAIN Tail(chain), NEW j \in DOMAIN Tail(chain), i < j,
               Tail(chain)[i].kind = "gap", Tail(chain)[j].kind = "gap"
        PROVE  Tail(chain)[i].end <= Tail(chain)[j].start
    BY <1>2, <2>3 DEF UptimeInv, GoodChain
  <2>4. QED
    BY <2>2, <2>3 DEF GoodChain
<1>9. GoodBeacon'
  <2>1. phase' = "boot" =>
          /\ \A i \in DOMAIN chain' : chain'[i].kind = "gap" => beacon' # None /\ chain'[i].start = beacon'.at
          /\ work'.step = "lookup" /\ work'.task.kind = "gap" => beacon' # None /\ work'.task.start = beacon'.at
    BY <1>1, <1>2, <1>5 DEF UptimeInv, GoodBeacon, Idle
  <2>2. phase # "down"
    BY <1>1 DEF UptimeInv, GoodBeacon
  <2>3. QED
    BY <1>1, <2>1, <2>2 DEF UptimeInv, GoodBeacon
<1>10. QED
  BY <1>1, <1>3, <1>4, <1>7, <1>8, <1>9 DEF UptimeInv

LEMMA RecordKeepsInv == UptimeInv /\ Record => UptimeInv'
<1> SUFFICES ASSUME UptimeInv, Record PROVE UptimeInv'
  OBVIOUS
<1> DEFINE lapse == work.task
<1>1. /\ work.step = "lookup" /\ lapse.kind = "gap"
      /\ UNCHANGED <<now, phase, beacon, lastTick, chain, timers, schedule, covered, rebooted>>
  BY DEF Record, world
<1>2. PICK told \in EventRecords, arm \in BOOLEAN :
         /\ RecordedIn(ledger, lapse, told)
         /\ ledger' = Put(told) /\ work' = [step |-> "notify", kind |-> "gap", list |-> <<told>>, arm |-> arm]
  <2>1. lapse \in GapTasks /\ GoodGap(lapse, ledger, now) /\ lapse.rebooted \in BOOLEAN
    BY <1>1 DEF UptimeInv, GoodWork, GapTasks, ReevalTasks, Idle
  <2>2. PICK seen \in Lookups(lapse.start, lapse.end), cause \in Verdicts(lapse), window \in BOOLEAN :
           LET into == MergeTargets(lapse, cause, window)
               told == IF into = {} THEN NewEvent(lapse, cause, seen)
                        ELSE Extended(CHOOSE e \in into : TRUE, lapse, cause, seen)
           IN  ledger' = Put(told) /\ work' = Texting("gap", <<told>>, into = {})
    BY DEF Record
  <2>3. seen \in Finds /\ cause \in Causes
    BY <2>1, LookupsAreFinds, VerdictsAreCauses DEF UptimeInv, GoodTypes
  <2> DEFINE into == MergeTargets(lapse, cause, window)
             told == IF into = {} THEN NewEvent(lapse, cause, seen)
                      ELSE Extended(CHOOSE e \in into : TRUE, lapse, cause, seen)
  <2>4. now \in Nat /\ GoodLedger(ledger, now)
    BY DEF UptimeInv, GoodTypes
  <2>5. RecordedIn(ledger, lapse, told)
    BY <2>1, <2>3, <2>4, GapIsRecorded
  <2>6. ledger' = Put(told) /\ work' = Texting("gap", <<told>>, into = {})
    BY <2>2
  <2> HIDE DEF told, into
  <2>7. told \in EventRecords
    BY <2>5 DEF RecordedIn
  <2>8. work' = [step |-> "notify", kind |-> "gap", list |-> <<told>>, arm |-> (into = {})]
        /\ (into = {}) \in BOOLEAN
    BY <2>6 DEF Texting
  <2>9. QED
    BY <2>5, <2>6, <2>7, <2>8
<1>3. lapse \in GapTasks /\ GoodGap(lapse, ledger, now)
  BY <1>1 DEF UptimeInv, GoodWork, GapTasks, ReevalTasks, Idle
<1>4. now \in Nat /\ GoodLedger(ledger, now) /\ lapse.start \in Nat /\ lapse.end \in Nat /\ lapse.start <= lapse.end
  BY <1>3 DEF UptimeInv, GoodTypes, GapTasks, GoodGap
<1>5. /\ GoodLedger(Put(told), now)
      /\ \A e \in Put(told) : e.start <= lapse.start /\ e.end <= lapse.end
      /\ Follows(Put(told), lapse.start)
  BY <1>2, <1>3, <1>4, RecordKeeps
<1>6. \A e \in Put(told) : e.start \in Nat /\ e.end \in Nat
  BY <1>5 DEF GoodLedger, EventRecords
<1>7. GoodTypes'
  BY <1>1 DEF UptimeInv, GoodTypes
<1>8. GoodWork(work', Put(told), now)
  <2>1. <<told>> \in Seq(EventRecords) /\ <<told>> # <<>> /\ DOMAIN <<told>> = {1} /\ <<told>>[1] = told
    BY <1>2
  <2>2. told \in Put(told)
    BY DEF Put
  <2>3. QED
    BY <1>2, <2>1, <2>2 DEF GoodWork
<1>9. GoodChain(chain, work', Put(told), now)
  <2>1. ASSUME NEW i \in DOMAIN chain, chain[i].kind = "gap"
        PROVE  GoodGap(chain[i], Put(told), now)
    <3> DEFINE later == chain[i]
    <3>1. GoodGap(later, ledger, now) /\ lapse.end <= later.start
      BY <1>1, <2>1 DEF UptimeInv, GoodChain
    <3>2. later \in GapTasks
      BY <2>1 DEF UptimeInv, GoodTypes, Tasks, GapTasks, ReevalTasks, SweepTasks
    <3> HIDE DEF later
    <3>3. later.start \in Nat /\ later.end \in Nat /\ later.start <= later.end
      BY <3>1, <3>2 DEF GapTasks, GoodGap
    <3>4. \A e \in Put(told) : e.start <= later.start /\ e.end <= later.start /\ e.end <= later.end
      BY <1>4, <1>5, <1>6, <3>1, <3>3
    <3>5. Follows(Put(told), later.start)
      BY <1>6, <3>3, <3>4 DEF Follows
    <3>6. GoodGap(later, Put(told), now)
      BY <3>1, <3>4, <3>5 DEF GoodGap
    <3>7. QED
      BY <3>6 DEF later
  <2>2. work'.step # "lookup"
    BY <1>2
  <2>3. QED
    BY <2>1, <2>2 DEF UptimeInv, GoodChain
<1>10. GoodBeacon'
  <2>1. beacon # None /\ beacon.at <= now /\ phase \in {"boot", "up"}
    BY <1>1 DEF UptimeInv, GoodBeacon, GoodTypes, Idle
  <2>2. Follows(Put(told), beacon.at)
    <3>1. CASE phase = "boot"
      BY <1>1, <1>5, <3>1 DEF UptimeInv, GoodBeacon
    <3>2. CASE phase = "up"
      <4>1. beacon.at = now
        BY <3>2 DEF UptimeInv, GoodBeacon
      <4>2. QED
        BY <1>4, <1>5, <4>1, NowFollows
    <3>3. QED
      BY <2>1, <3>1, <3>2
  <2>3. work'.step # "lookup"
    BY <1>2
  <2>4. QED
    BY <1>1, <1>2, <2>1, <2>2, <2>3 DEF UptimeInv, GoodBeacon
<1>11. QED
  BY <1>1, <1>2, <1>5, <1>7, <1>8, <1>9, <1>10 DEF UptimeInv

\* A step that at most patches an event: no gap at work, or the task unchanged.
LEMMA PatchKeepsInv ==
    ASSUME UptimeInv,
           UNCHANGED <<now, phase, beacon, rebooted, lastTick, chain>>,
           timers' \in SUBSET Timers, schedule' \in SUBSET Slots,
           \/ ledger' = ledger
           \/ \E old \in ledger, new \in EventRecords :
                 /\ new.id = old.id /\ new.start = old.start /\ new.end = old.end /\ new.cause = old.cause
                 /\ ledger' = Put(new),
           \/ work' = work
           \/ /\ work # Idle /\ work'.step \in {"idle", "notify", "sending"}
              /\ GoodWork(work', ledger', now)
    PROVE  UptimeInv'
<1>1. now \in Nat /\ GoodLedger(ledger, now)
  BY DEF UptimeInv, GoodTypes
<1> DEFINE Kept(events) ==
              /\ GoodLedger(events, now)
              /\ \A t : Follows(ledger, t) => Follows(events, t)
              /\ \A lapse : GoodGap(lapse, ledger, now) => GoodGap(lapse, events, now)
              /\ \A id : (\E e \in ledger : e.id = id) => \E e \in events : e.id = id
              /\ ledger = {} => events = {}
<1>2. Kept(ledger')
  <2>1. CASE ledger' = ledger
    BY <1>1, <2>1
  <2>2. ASSUME NEW old \in ledger, NEW new \in EventRecords,
               new.id = old.id, new.start = old.start, new.end = old.end, new.cause = old.cause,
               ledger' = Put(new)
        PROVE  Kept(ledger')
    BY <1>1, <2>2, PatchKeeps
  <2>3. QED
    BY <2>1, <2>2
<1>3. GoodWork(work', ledger', now)
  <2>1. CASE work' = work
    BY <1>2, <2>1 DEF UptimeInv, GoodWork
  <2>2. QED
    BY <2>1
<1>4. GoodChain(chain, work', ledger', now)
  <2>1. work' = work \/ work'.step # "lookup"
    OBVIOUS
  <2>2. QED
    BY <1>2, <2>1 DEF UptimeInv, GoodChain
<1>5. GoodTypes'
  BY DEF UptimeInv, GoodTypes
<1>6. GoodBeacon'
  BY <1>2 DEF UptimeInv, GoodBeacon
<1>7. QED
  BY <1>2, <1>3, <1>4, <1>5, <1>6 DEF UptimeInv

\* What a later look makes of an event.
LEMMA ReviewPatches ==
    ASSUME UptimeInv, Review
    PROVE  \E old \in ledger, new \in EventRecords, seen \in Finds :
              /\ old.id = work.task.id
              /\ new.id = old.id /\ new.start = old.start /\ new.end = old.end /\ new.cause = old.cause
              /\ new.missed = Reviewed(old.missed, seen)
              /\ ledger' = Put(new) /\ work' = Texting("reeval", <<new>>, FALSE)
<1> DEFINE t == work.task
           cur == EventOf(t.id)
<1>1. t \in ReevalTasks /\ \E e \in ledger : e.id = t.id
  BY DEF Review, UptimeInv, GoodWork, GapTasks, ReevalTasks, Idle
<1>2. cur \in ledger /\ cur.id = t.id
  BY <1>1, EventIsKnown
<1>3. PICK seen \in Lookups(cur.start, cur.end) :
         LET missed == Reviewed(cur.missed, seen)
             told == [cur EXCEPT !.missed = missed, !.rounds = t.round, !.state = StateAfter(missed, t.round)]
         IN  ledger' = Put(told) /\ work' = Texting("reeval", <<told>>, FALSE)
  BY DEF Review
<1>4. seen \in Finds /\ t.round \in Nat /\ cur \in EventRecords /\ cur.missed \in Finds
  BY <1>1, <1>2, LookupsAreFinds DEF UptimeInv, GoodTypes, GoodLedger, EventRecords, ReevalTasks
<1> DEFINE missed == Reviewed(cur.missed, seen)
           told == [cur EXCEPT !.missed = missed, !.rounds = t.round, !.state = StateAfter(missed, t.round)]
<1>5. missed \in Finds /\ StateAfter(missed, t.round) \in {"recovering", "recovered", "partly", "lost"}
  BY <1>4, MergedAreFinds, StatesOfEvents
<1>6. ledger' = Put(told) /\ work' = Texting("reeval", <<told>>, FALSE)
  BY <1>3
<1>7. t.id = work.task.id /\ missed = Reviewed(cur.missed, seen)
  OBVIOUS
<1> HIDE DEF t, cur, missed
<1>8. /\ told \in EventRecords /\ told.id = cur.id /\ told.start = cur.start /\ told.end = cur.end
      /\ told.cause = cur.cause /\ told.missed = missed
  BY <1>4, <1>5 DEF EventRecords
<1> HIDE DEF told
<1>9. QED
  BY <1>2, <1>4, <1>6, <1>7, <1>8

LEMMA ReviewKeeps == UptimeInv /\ Review => UptimeInv'
<1> SUFFICES ASSUME UptimeInv, Review PROVE UptimeInv'
  OBVIOUS
<1>1. PICK old \in ledger, new \in EventRecords, seen \in Finds :
              /\ old.id = work.task.id
              /\ new.id = old.id /\ new.start = old.start /\ new.end = old.end /\ new.cause = old.cause
              /\ new.missed = Reviewed(old.missed, seen)
              /\ ledger' = Put(new) /\ work' = Texting("reeval", <<new>>, FALSE)
  BY ReviewPatches
<1>2. GoodWork(work', ledger', now)
  <2>1. <<new>> \in Seq(EventRecords) /\ <<new>> # <<>> /\ DOMAIN <<new>> = {1} /\ <<new>>[1] = new
    OBVIOUS
  <2>2. new \in ledger'
    BY <1>1 DEF Put
  <2>3. QED
    BY <1>1, <2>1, <2>2 DEF GoodWork, Texting
<1>3. work # Idle /\ work'.step = "notify"
  BY <1>1 DEF Review, Idle, Texting
<1>4. timers' \in SUBSET Timers /\ schedule' \in SUBSET Slots
      /\ UNCHANGED <<now, phase, beacon, rebooted, lastTick, chain>>
  BY DEF Review, world, UptimeInv, GoodTypes
<1>5. QED
  BY <1>1, <1>2, <1>3, <1>4, PatchKeepsInv

\* What a task of texts has before it.
LEMMA ListIsKnown ==
    ASSUME UptimeInv, work.step \in {"notify", "sending"}
    PROVE  /\ work # Idle
           /\ work = [step |-> work.step, kind |-> work.kind, list |-> work.list, arm |-> work.arm]
           /\ work.list \in Seq(EventRecords) /\ work.list # <<>>
           /\ Head(work.list) \in EventRecords /\ \E e \in ledger : e.id = Head(work.list).id
<1>1. /\ work = [step |-> work.step, kind |-> work.kind, list |-> work.list, arm |-> work.arm]
      /\ work.list \in Seq(EventRecords) /\ work.list # <<>>
      /\ \A i \in DOMAIN work.list : \E e \in ledger : e.id = work.list[i].id
  BY DEF UptimeInv, GoodWork, Idle
<1>2. Head(work.list) = work.list[1] /\ 1 \in DOMAIN work.list /\ Head(work.list) \in EventRecords
  BY <1>1, TailFacts
<1>3. work # Idle
  BY DEF Idle
<1>4. QED
  BY <1>1, <1>2, <1>3

LEMMA AdvanceKeeps ==
    ASSUME UptimeInv, work.step \in {"notify", "sending"}, Advance
    PROVE  /\ timers' \in SUBSET Timers
           /\ work'.step \in {"idle", "notify"}
           /\ \A events : (\A e \in ledger : \E f \in events : f.id = e.id) => GoodWork(work', events, now)
<1> DEFINE list == work.list
           rest == Tail(work.list)
<1>1. /\ work = [step |-> work.step, kind |-> work.kind, list |-> list, arm |-> work.arm]
      /\ list \in Seq(EventRecords) /\ list # <<>> /\ Head(list) \in EventRecords
  BY ListIsKnown
<1>2. \A i \in DOMAIN list : \E e \in ledger : e.id = list[i].id
  BY DEF UptimeInv, GoodWork
<1>3. rest \in Seq(EventRecords) /\ \A i \in DOMAIN rest : i + 1 \in DOMAIN list /\ rest[i] = list[i + 1]
  BY <1>1, TailFacts
<1>4. timers' \in SUBSET Timers
  <2>1. Armed(Head(list).id) \in SUBSET Timers
    BY <1>1 DEF Armed, Timers, ReevalDelays, EventRecords, UptimeInv, GoodTypes
  <2>2. QED
    BY <2>1 DEF Advance, UptimeInv, GoodTypes
<1>5. work' = Idle \/ /\ work' = [step |-> "notify", kind |-> work.kind, list |-> rest, arm |-> work.arm]
                      /\ rest # <<>>
  BY <1>1 DEF Advance
<1> HIDE DEF list, rest
<1>6. work'.step \in {"idle", "notify"}
  BY <1>5 DEF Idle
<1>7. ASSUME NEW events, \A e \in ledger : \E f \in events : f.id = e.id
      PROVE  GoodWork(work', events, now)
  <2>1. CASE work' = Idle
    BY <2>1 DEF GoodWork, Idle
  <2>2. CASE /\ work' = [step |-> "notify", kind |-> work.kind, list |-> rest, arm |-> work.arm]
             /\ rest # <<>>
    <3>1. \A i \in DOMAIN rest : \E f \in events : f.id = rest[i].id
      BY <1>2, <1>3, <1>7
    <3>2. QED
      BY <1>3, <2>2, <3>1 DEF GoodWork
  <2>3. QED
    BY <1>5, <2>1, <2>2
<1>8. QED
  BY <1>4, <1>6, <1>7

LEMMA TextingKeeps == UptimeInv /\ (Withhold \/ Send \/ SendFails) => UptimeInv'
<1> SUFFICES ASSUME UptimeInv, Withhold \/ Send \/ SendFails PROVE UptimeInv'
  OBVIOUS
<1>1. /\ work.step \in {"notify", "sending"} /\ ledger' = ledger
      /\ UNCHANGED <<now, phase, beacon, rebooted, lastTick, chain, schedule>>
  BY DEF Withhold, Send, SendFails, disk, world
<1>2. work # Idle /\ work = [step |-> work.step, kind |-> work.kind, list |-> work.list, arm |-> work.arm]
  BY <1>1, ListIsKnown
<1>3. CASE Withhold \/ SendFails
  <2>1. Advance
    BY <1>3 DEF Withhold, SendFails
  <2>2. timers' \in SUBSET Timers /\ work'.step \in {"idle", "notify"} /\ GoodWork(work', ledger, now)
    BY <1>1, <2>1, AdvanceKeeps
  <2>3. QED
    BY <1>1, <1>2, <2>2, PatchKeepsInv DEF UptimeInv, GoodTypes
<1>4. CASE Send
  <2>1. work' = [step |-> "sending", kind |-> work.kind, list |-> work.list, arm |-> work.arm] /\ timers' = timers
    BY <1>2, <1>4 DEF Send
  <2>2. GoodWork(work', ledger, now)
    BY <1>1, <2>1 DEF UptimeInv, GoodWork, Idle
  <2>3. QED
    BY <1>1, <1>2, <2>1, <2>2, PatchKeepsInv DEF UptimeInv, GoodTypes
<1>5. QED
  BY <1>3, <1>4

LEMMA SentKeeps == UptimeInv /\ Sent => UptimeInv'
<1> SUFFICES ASSUME UptimeInv, Sent PROVE UptimeInv'
  OBVIOUS
<1> DEFINE old == EventOf(Head(work.list).id)
           new == [old EXCEPT !.imessage = TRUE]
<1>1. /\ work.step = "sending" /\ Advance /\ ledger' = Put(new)
      /\ UNCHANGED <<now, phase, beacon, rebooted, lastTick, chain, schedule>>
  BY DEF Sent, Noted, world
<1>2. work # Idle /\ \E e \in ledger : e.id = Head(work.list).id
  BY <1>1, ListIsKnown
<1>3. old \in ledger
  BY <1>2, EventIsKnown
<1>4. old \in EventRecords
  BY <1>3 DEF UptimeInv, GoodLedger
<1> HIDE DEF old
<1>5. /\ new \in EventRecords /\ new.id = old.id /\ new.start = old.start /\ new.end = old.end
      /\ new.cause = old.cause
  BY <1>4 DEF EventRecords
<1> HIDE DEF new
<1>6. now \in Nat /\ GoodLedger(ledger, now)
  BY DEF UptimeInv, GoodTypes
<1>7. \A e \in ledger : \E f \in ledger' : f.id = e.id
  BY <1>1, <1>3, <1>5, <1>6, PatchKeeps
<1>8. timers' \in SUBSET Timers /\ work'.step \in {"idle", "notify"} /\ GoodWork(work', ledger', now)
  BY <1>1, <1>7, AdvanceKeeps
<1>9. \E o \in ledger, n \in EventRecords :
         n.id = o.id /\ n.start = o.start /\ n.end = o.end /\ n.cause = o.cause /\ ledger' = Put(n)
  BY <1>1, <1>3, <1>5
<1>10. schedule' \in SUBSET Slots
  BY <1>1 DEF UptimeInv, GoodTypes
<1>11. QED
  BY <1>1, <1>2, <1>8, <1>9, <1>10, PatchKeepsInv

-----------------------------------------------------------------------------
(* The beat, the timers, the life of the process. *)

LEMMA IdleIsGood ==
    ASSUME NEW events, NEW time
    PROVE  GoodWork(Idle, events, time) /\ GoodChain(<<>>, Idle, events, time)
           /\ GoodChain(<<>>, work, events, time)
BY DEF GoodWork, GoodChain, Idle

LEMMA ABeacon ==
    ASSUME NEW t \in Nat, NEW mode \in {"alive", "stopping"}
    PROVE  [at |-> t, mode |-> mode] \in Beacons /\ [at |-> t, mode |-> mode] # None
<1>1. [at |-> t, mode |-> mode].mode \in {"alive", "stopping"} /\ None.mode = "none"
  BY DEF None
<1>2. QED
  BY <1>1 DEF Beacons

\* Time passes where no task is at work and none waits.
LEMMA QuietKeeps == UptimeInv /\ (Beat \/ StaysDown) => UptimeInv'
<1> SUFFICES ASSUME UptimeInv, Beat \/ StaysDown PROVE UptimeInv'
  OBVIOUS
<1>1. /\ now \in Nat /\ now' = now + 1 /\ now' \in Nat /\ phase' = phase /\ ledger' = ledger
      /\ chain = <<>> /\ chain' = <<>> /\ work = Idle /\ work' = Idle
      /\ timers' = timers /\ schedule' = schedule /\ rebooted' = rebooted
  BY DEF Beat, BeatAt, StaysDown, UptimeInv, GoodTypes, GoodBeacon, disk, memory, world
<1>2. \/ phase = "up" /\ beacon' = [at |-> now', mode |-> "alive"] /\ lastTick' = now'
      \/ phase = "down" /\ beacon' = beacon
  BY DEF Beat, BeatAt, StaysDown, disk
<1>3. GoodLedger(ledger, now + 1) /\ Follows(ledger, now + 1)
  BY <1>1, NowFollows DEF UptimeInv
<1>4. GoodWork(work', ledger', now') /\ GoodChain(chain', work', ledger', now')
  BY <1>1, IdleIsGood
<1>5. [at |-> now', mode |-> "alive"] \in Beacons /\ [at |-> now', mode |-> "alive"] # None
  BY <1>1, ABeacon
<1>6. GoodTypes'
  BY <1>1, <1>2, <1>5 DEF UptimeInv, GoodTypes
<1>7. GoodBeacon'
  <2>1. CASE phase = "up" /\ beacon' = [at |-> now', mode |-> "alive"] /\ lastTick' = now'
    <3>1. beacon'.at = now' /\ beacon' # None
      BY <1>5, <2>1
    <3>2. Follows(ledger', beacon'.at) /\ beacon'.at <= now'
      BY <1>1, <1>3, <3>1
    <3>3. QED
      BY <1>1, <2>1, <3>1, <3>2 DEF GoodBeacon
  <2>2. CASE phase = "down" /\ beacon' = beacon
    <3>1. beacon # None => beacon.at \in Nat
      BY DEF UptimeInv, GoodTypes, Beacons
    <3>2. QED
      BY <1>1, <2>2, <3>1 DEF UptimeInv, GoodBeacon
  <2>3. QED
    BY <1>2, <2>1, <2>2
<1>8. QED
  BY <1>1, <1>3, <1>4, <1>6, <1>7 DEF UptimeInv

LEMMA SleepKeeps == UptimeInv /\ Sleep => UptimeInv'
<1> SUFFICES ASSUME UptimeInv, Sleep PROVE UptimeInv'
  OBVIOUS
<1> DEFINE lapse == [kind |-> "gap", source |-> "tick", start |-> now, end |-> now + 2,
                   mode |-> "alive", rebooted |-> FALSE]
<1>1. /\ now \in Nat /\ now' = now + 2 /\ now' \in Nat /\ phase = "up" /\ phase' = phase
      /\ ledger' = ledger /\ work' = work
      /\ beacon' = [at |-> now', mode |-> "alive"] /\ lastTick' = now' /\ chain' = Append(chain, lapse)
      /\ schedule' = schedule /\ rebooted' = rebooted
  BY DEF Sleep, BeatAt, MinGap, UptimeInv, GoodTypes, GoodBeacon, world
<1>2. chain \in Seq(Tasks) /\ lapse \in GapTasks /\ lapse \in Tasks
  BY <1>1 DEF GapTasks, Tasks, UptimeInv, GoodTypes
<1>3. lapse.kind = "gap" /\ lapse.start = now /\ lapse.end = now + 2 /\ lapse.source = "tick"
  OBVIOUS
<1> HIDE DEF lapse
<1>4. GoodLedger(ledger, now + 2) /\ Follows(ledger, now) /\ Follows(ledger, now + 2)
  BY <1>1, NowFollows DEF UptimeInv
<1>5. GoodGap(lapse, ledger, now + 2)
  <2>1. \A e \in ledger : e.end \in Nat /\ e.end <= now
    BY DEF UptimeInv, GoodLedger, EventRecords
  <2>2. QED
    BY <1>1, <1>3, <1>4, <2>1 DEF GoodGap
<1>6. /\ chain' \in Seq(Tasks)
      /\ \A i \in DOMAIN chain' : \/ i \in DOMAIN chain /\ chain'[i] = chain[i]
                                  \/ i = Len(chain) + 1 /\ chain'[i] = lapse
      /\ \A i \in DOMAIN chain : i <= Len(chain)
  BY <1>1, <1>2, AppendFacts
<1>7. timers' \in SUBSET Timers
  <2>1. timers \in SUBSET Timers
    BY DEF UptimeInv, GoodTypes
  <2>2. \A x \in timers : [x EXCEPT !.due = @ + ((now + MinGap) - now)] \in Timers
    BY <1>1, <2>1 DEF Timers, MinGap
  <2>3. timers' = timers \/ timers' = {[x EXCEPT !.due = @ + ((now + MinGap) - now)] : x \in timers}
    BY DEF Sleep
  <2>4. QED
    BY <2>1, <2>2, <2>3
<1>8. [at |-> now', mode |-> "alive"] \in Beacons /\ [at |-> now', mode |-> "alive"] # None
  BY <1>1, ABeacon
<1>9. GoodTypes'
  BY <1>1, <1>6, <1>7, <1>8 DEF UptimeInv, GoodTypes
<1>10. ASSUME NEW g \in GapTasks, GoodGap(g, ledger, now)
       PROVE  GoodGap(g, ledger, now + 2) /\ g.start \in Nat /\ g.end \in Nat /\ g.end <= now
  BY <1>1, <1>10, LaterGap DEF GoodGap, GapTasks
<1>11. work.step = "lookup" /\ work.task.kind = "gap" => work.task \in GapTasks /\ GoodGap(work.task, ledger, now)
  BY DEF UptimeInv, GoodWork, ReevalTasks, Idle
<1>12. \A i \in DOMAIN chain : chain[i].kind = "gap" => chain[i] \in GapTasks /\ GoodGap(chain[i], ledger, now)
  BY <1>2 DEF UptimeInv, GoodChain, Tasks, ReevalTasks, SweepTasks
<1>13. GoodWork(work', ledger', now')
  BY <1>1, <1>10, <1>11 DEF UptimeInv, GoodWork
<1>14. GoodChain(chain', work', ledger', now')
  <2>1. ASSUME NEW i \in DOMAIN chain', chain'[i].kind = "gap"
        PROVE  /\ GoodGap(chain'[i], ledger, now + 2)
               /\ work.step = "lookup" /\ work.task.kind = "gap" => work.task.end <= chain'[i].start
    <3>1. CASE i \in DOMAIN chain /\ chain'[i] = chain[i]
      BY <1>10, <1>12, <2>1, <3>1 DEF UptimeInv, GoodChain
    <3>2. CASE chain'[i] = lapse
      BY <1>3, <1>5, <1>10, <1>11, <3>2
    <3>3. QED
      BY <1>6, <3>1, <3>2
  <2>2. ASSUME NEW i \in DOMAIN chain', NEW j \in DOMAIN chain', i < j,
               chain'[i].kind = "gap", chain'[j].kind = "gap"
        PROVE  chain'[i].end <= chain'[j].start
    <3>1. i \in DOMAIN chain /\ chain'[i] = chain[i]
      BY <1>2, <1>6, <2>2
    <3>2. CASE j \in DOMAIN chain /\ chain'[j] = chain[j]
      BY <2>2, <3>1, <3>2 DEF UptimeInv, GoodChain
    <3>3. CASE chain'[j] = lapse
      BY <1>3, <1>10, <1>12, <2>2, <3>1, <3>3
    <3>4. QED
      BY <1>6, <3>2, <3>3
  <2>3. QED
    BY <1>1, <2>1, <2>2 DEF GoodChain
<1>15. GoodBeacon'
  <2>1. beacon'.at = now' /\ beacon' # None
    BY <1>1, <1>8
  <2>2. QED
    BY <1>1, <1>4, <2>1 DEF GoodBeacon
<1>16. QED
  BY <1>1, <1>4, <1>9, <1>13, <1>14, <1>15 DEF UptimeInv

LEMMA FiringKeeps == UptimeInv /\ (TimerFires \/ SweepFires) => UptimeInv'
<1> SUFFICES ASSUME UptimeInv, TimerFires \/ SweepFires PROVE UptimeInv'
  OBVIOUS
<1>1. /\ phase # "down"
      /\ UNCHANGED <<now, phase, beacon, ledger, rebooted, lastTick, work, schedule>>
  BY DEF TimerFires, SweepFires, disk, world
<1>2. PICK task \in Tasks : task.kind # "gap" /\ chain' = Append(chain, task)
  <2>1. CASE TimerFires
    <3>1. PICK t \in timers : chain' = Append(chain, [kind |-> "reeval", id |-> t.id, round |-> t.round])
      BY <2>1 DEF TimerFires
    <3>2. [kind |-> "reeval", id |-> t.id, round |-> t.round] \in Tasks
      BY DEF Tasks, ReevalTasks, UptimeInv, GoodTypes, Timers
    <3>3. QED
      BY <3>1, <3>2
  <2>2. CASE SweepFires
    BY <2>2 DEF SweepFires, Tasks, SweepTasks
  <2>3. QED
    BY <2>1, <2>2
<1>3. chain \in Seq(Tasks)
  BY DEF UptimeInv, GoodTypes
<1>4. /\ chain' \in Seq(Tasks)
      /\ \A i \in DOMAIN chain' : chain'[i].kind = "gap" => i \in DOMAIN chain /\ chain'[i] = chain[i]
  BY <1>2, <1>3, AppendFacts
<1>5. timers' \in SUBSET Timers
  BY DEF TimerFires, SweepFires, UptimeInv, GoodTypes
<1>6. GoodTypes'
  BY <1>1, <1>4, <1>5 DEF UptimeInv, GoodTypes
<1>7. GoodChain(chain', work', ledger', now')
  BY <1>1, <1>4 DEF UptimeInv, GoodChain
<1>8. GoodBeacon'
  BY <1>1, <1>4 DEF UptimeInv, GoodBeacon
<1>9. QED
  BY <1>1, <1>6, <1>7, <1>8 DEF UptimeInv

LEMMA EndKeeps == UptimeInv /\ (Crash \/ Stop) => UptimeInv'
<1> SUFFICES ASSUME UptimeInv, Crash \/ Stop PROVE UptimeInv'
  OBVIOUS
<1>1. /\ now \in Nat /\ phase' = "down" /\ chain' = <<>> /\ work' = Idle /\ timers' = {}
      /\ UNCHANGED <<now, ledger, schedule>> /\ rebooted' \in BOOLEAN
      /\ beacon' = beacon \/ beacon' = [at |-> now, mode |-> "stopping"]
  BY DEF Crash, Stop, Gone, disk, world, UptimeInv, GoodTypes
<1>2. Follows(ledger, now)
  BY <1>1, NowFollows DEF UptimeInv
<1>3. [at |-> now, mode |-> "stopping"] \in Beacons /\ [at |-> now, mode |-> "stopping"] # None
  BY <1>1, ABeacon
<1>4. GoodTypes'
  BY <1>1, <1>3 DEF UptimeInv, GoodTypes
<1>5. GoodWork(work', ledger', now') /\ GoodChain(chain', work', ledger', now')
  BY <1>1, IdleIsGood
<1>6. GoodBeacon'
  <2>1. beacon' = None => ledger' = {}
    BY <1>1, <1>3 DEF UptimeInv, GoodBeacon
  <2>2. beacon' # None => beacon'.at <= now' /\ Follows(ledger', beacon'.at)
    BY <1>1, <1>2, <1>3 DEF UptimeInv, GoodBeacon
  <2>3. QED
    BY <1>1, <2>1, <2>2 DEF GoodBeacon
<1>7. QED
  BY <1>1, <1>4, <1>5, <1>6 DEF UptimeInv

LEMMA StartKeeps == UptimeInv /\ (Boot \/ StartBeacon) => UptimeInv'
<1> SUFFICES ASSUME UptimeInv, Boot \/ StartBeacon PROVE UptimeInv'
  OBVIOUS
<1>1. UNCHANGED <<now, ledger, work, timers, schedule>> /\ now \in Nat
  BY DEF Boot, StartBeacon, disk, world, UptimeInv, GoodTypes
<1>2. GoodLedger(ledger, now) /\ Follows(ledger, now)
  BY <1>1, NowFollows DEF UptimeInv
<1>3. CASE Boot
  <2> DEFINE lapse == [kind |-> "gap", source |-> "boot", start |-> beacon.at, end |-> now,
                     mode |-> beacon.mode, rebooted |-> rebooted]
  <2>1. /\ phase = "down" /\ phase' = "boot" /\ UNCHANGED <<beacon, rebooted, lastTick>> /\ work = Idle
        /\ chain' = IF beacon = None THEN <<>> ELSE <<lapse>>
    BY <1>3 DEF Boot, disk, world, UptimeInv, GoodBeacon
  <2>2. ASSUME beacon # None PROVE lapse \in GapTasks /\ lapse \in Tasks /\ GoodGap(lapse, ledger, now)
    <3>1. beacon.at \in Nat /\ beacon.mode \in {"alive", "stopping"} /\ rebooted \in BOOLEAN
      BY <2>2 DEF UptimeInv, GoodTypes, Beacons
    <3>2. lapse \in GapTasks
      BY <1>1, <3>1 DEF GapTasks
    <3>3. beacon.at <= now /\ Follows(ledger, beacon.at) /\ \A e \in ledger : e.end <= now
      BY <2>2 DEF UptimeInv, GoodBeacon, GoodLedger
    <3>4. GoodGap(lapse, ledger, now)
      BY <1>1, <3>1, <3>3 DEF GoodGap
    <3>5. QED
      BY <3>2, <3>4 DEF Tasks
  <2>3. lapse.start = beacon.at
    OBVIOUS
  <2> HIDE DEF lapse
  <2>4. /\ chain' \in Seq(Tasks)
        /\ \A i \in DOMAIN chain' : i = 1 /\ beacon # None /\ chain'[i] = lapse
    BY <2>1, <2>2
  <2>5. GoodTypes'
    BY <1>1, <2>1, <2>4 DEF UptimeInv, GoodTypes
  <2>6. GoodWork(work', ledger', now')
    BY <1>1, <2>1, IdleIsGood
  <2>7. GoodChain(chain', work', ledger', now')
    BY <1>1, <2>1, <2>2, <2>4 DEF GoodChain, Idle
  <2>8. GoodBeacon'
    BY <1>1, <2>1, <2>3, <2>4 DEF UptimeInv, GoodBeacon, Idle
  <2>9. QED
    BY <1>1, <1>2, <2>5, <2>6, <2>7, <2>8 DEF UptimeInv
<1>4. CASE StartBeacon
  <2>1. /\ phase' = "up" /\ beacon' = [at |-> now, mode |-> "alive"] /\ lastTick' = now
        /\ rebooted' = FALSE /\ chain' = chain
    BY <1>4 DEF StartBeacon
  <2>2. [at |-> now, mode |-> "alive"] \in Beacons /\ [at |-> now, mode |-> "alive"] # None
    BY <1>1, ABeacon
  <2>3. GoodTypes'
    BY <1>1, <2>1, <2>2 DEF UptimeInv, GoodTypes
  <2>4. GoodBeacon'
    BY <1>1, <1>2, <2>1, <2>2 DEF GoodBeacon
  <2>5. QED
    BY <1>1, <2>1, <2>3, <2>4 DEF UptimeInv
<1>5. QED
  BY <1>3, <1>4

LEMMA OutsideKeeps == UptimeInv /\ (Collect \/ Ack \/ Reschedule) => UptimeInv'
<1> SUFFICES ASSUME UptimeInv, Collect \/ Ack \/ Reschedule PROVE UptimeInv'
  OBVIOUS
<1>1. UNCHANGED <<now, phase, beacon, rebooted, lastTick, chain, work, timers>>
  BY DEF Collect, Ack, Reschedule, disk, memory, world
<1>2. timers' \in SUBSET Timers /\ schedule' \in SUBSET Slots
  BY <1>1 DEF Collect, Ack, Reschedule, world, UptimeInv, GoodTypes
<1>3. \/ ledger' = ledger
      \/ \E old \in ledger, new \in EventRecords :
            /\ new.id = old.id /\ new.start = old.start /\ new.end = old.end /\ new.cause = old.cause
            /\ ledger' = Put(new)
  <2>1. CASE Ack
    <3>1. PICK e \in ledger : ledger' = Put([e EXCEPT !.acked = TRUE])
      BY <2>1 DEF Ack
    <3>2. e \in EventRecords
      BY DEF UptimeInv, GoodLedger
    <3> DEFINE new == [e EXCEPT !.acked = TRUE]
    <3>3. new \in EventRecords /\ new.id = e.id /\ new.start = e.start /\ new.end = e.end /\ new.cause = e.cause
      BY <3>2 DEF EventRecords
    <3> HIDE DEF new
    <3>4. ledger' = Put(new)
      BY <3>1 DEF new
    <3>5. QED
      BY <3>3, <3>4
  <2>2. CASE Collect \/ Reschedule
    BY <2>2 DEF Collect, Reschedule, disk
  <2>3. QED
    BY <2>1, <2>2
<1>4. QED
  BY <1>1, <1>2, <1>3, PatchKeepsInv

-----------------------------------------------------------------------------
(* What is proved of the ledger. *)

LEMMA UptimeStarts == UptimeInit => UptimeInv
<1> SUFFICES ASSUME UptimeInit PROVE UptimeInv
  OBVIOUS
<1>1. /\ now = 0 /\ phase = "down" /\ beacon = None /\ rebooted = FALSE /\ ledger = {} /\ schedule = Slots
      /\ chain = <<>> /\ work = Idle /\ timers = {}
  BY DEF UptimeInit, InitialMemory
<1>2. GoodTypes
  <2>1. <<>> \in Seq(Tasks) /\ {} \in SUBSET Timers /\ 0 \in Nat /\ FALSE \in BOOLEAN
    OBVIOUS
  <2>2. beacon = None \/ beacon \in Beacons
    BY <1>1
  <2>3. phase \in {"down", "boot", "up"} /\ schedule \in SUBSET Slots
    BY <1>1
  <2>4. QED
    BY <1>1, <2>1, <2>2, <2>3 DEF GoodTypes
<1>3. GoodLedger(ledger, now)
  BY <1>1, FS_EmptySet DEF GoodLedger
<1>4. GoodWork(work, ledger, now) /\ GoodChain(chain, work, ledger, now)
  BY <1>1, IdleIsGood
<1>5. GoodBeacon
  BY <1>1 DEF GoodBeacon
<1>6. QED
  BY <1>2, <1>3, <1>4, <1>5 DEF UptimeInv

LEMMA UptimeKept == UptimeInv /\ [UptimeNext]_uptimeVars => UptimeInv'
<1>1. UptimeInv /\ UNCHANGED uptimeVars => UptimeInv'
  <2> SUFFICES ASSUME UptimeInv, UNCHANGED uptimeVars PROVE UptimeInv'
    OBVIOUS
  <2>1. UNCHANGED <<now, phase, beacon, ledger, lastTick, chain, work, timers, schedule, rebooted>>
    BY DEF uptimeVars, disk, memory, world
  <2>2. QED
    BY <2>1 DEF UptimeInv, GoodTypes, GoodBeacon
<1>2. UptimeInv /\ UptimeNext => UptimeInv'
  BY TakeKeeps, RecordKeepsInv, ReviewKeeps, TextingKeeps, SentKeeps, QuietKeeps, SleepKeeps,
     FiringKeeps, EndKeeps, StartKeeps, OutsideKeeps DEF UptimeNext, Worker
<1>3. QED
  BY <1>1, <1>2

\* The ledger of every state, and the gaps that wait, are in order.
THEOREM LedgerInOrder == UptimeSpec => []UptimeInv
<1>1. QED
  BY UptimeStarts, UptimeKept, PTL DEF UptimeSpec

\* Only the record of a gap makes an event longer or adds one.
LEMMA OthersPatch ==
    ASSUME UptimeInv, UptimeNext, ~Record
    PROVE  /\ ~(work.step = "lookup" /\ work'.step = "notify" /\ work.task.kind = "gap")
           /\ \/ ledger' = ledger
              \/ \E old \in ledger, new \in EventRecords :
                    /\ new.id = old.id /\ new.start = old.start /\ new.end = old.end /\ new.cause = old.cause
                    /\ ledger' = Put(new)
<1>1. CASE Take
  BY <1>1 DEF Take, disk, Idle
<1>2. CASE Review
  BY <1>2, ReviewPatches DEF Review
<1>3. CASE Withhold \/ Send \/ SendFails
  BY <1>3 DEF Withhold, Send, SendFails, disk
<1>4. CASE Sent
  <2> DEFINE old == EventOf(Head(work.list).id)
             new == [old EXCEPT !.imessage = TRUE]
  <2>1. work.step = "sending" /\ ledger' = Put(new)
    BY <1>4 DEF Sent, Noted
  <2>2. old \in ledger /\ old \in EventRecords
    BY <2>1, ListIsKnown, EventIsKnown DEF UptimeInv, GoodLedger
  <2> HIDE DEF old
  <2>3. new \in EventRecords /\ new.id = old.id /\ new.start = old.start /\ new.end = old.end
        /\ new.cause = old.cause
    BY <2>2 DEF EventRecords
  <2> HIDE DEF new
  <2>4. QED
    BY <2>1, <2>2, <2>3
<1>5. CASE Beat \/ Sleep \/ TimerFires \/ SweepFires \/ StaysDown \/ Boot \/ StartBeacon
  BY <1>5 DEF Beat, BeatAt, Sleep, TimerFires, SweepFires, StaysDown, Boot, StartBeacon, disk, memory
<1>6. CASE Crash \/ Stop
  <2>1. ledger' = ledger /\ work' = Idle
    BY <1>6 DEF Crash, Stop, Gone, disk
  <2>2. work'.step # "notify"
    BY <2>1 DEF Idle
  <2>3. QED
    BY <2>1, <2>2
<1>7. CASE Collect \/ Reschedule
  BY <1>7 DEF Collect, Reschedule, disk, memory
<1>8. CASE Ack
  <2>1. PICK e \in ledger : ledger' = Put([e EXCEPT !.acked = TRUE])
    BY <1>8 DEF Ack
  <2>2. e \in EventRecords /\ work' = work
    BY <1>8 DEF UptimeInv, GoodLedger, Ack, memory
  <2> DEFINE new == [e EXCEPT !.acked = TRUE]
  <2>3. new \in EventRecords /\ new.id = e.id /\ new.start = e.start /\ new.end = e.end /\ new.cause = e.cause
    BY <2>2 DEF EventRecords
  <2>4. ledger' = Put(new)
    BY <2>1
  <2> HIDE DEF new
  <2>5. QED
    BY <2>2, <2>3, <2>4
<1>9. QED
  BY <1>1, <1>2, <1>3, <1>4, <1>5, <1>6, <1>7, <1>8 DEF UptimeNext, Worker

\* Every gap a process judges is told of in the ledger, no event is ever cut
\* short, events end in the order they began in, and a moment is told of twice
\* only where an autopsy is repeated and finds another cause.
THEOREM GapsAreTold == UptimeSpec => OutagesRecorded
<1> DEFINE Tells ==
       /\ work.step = "lookup" /\ work'.step = "notify" /\ work.task.kind = "gap"
            => \E e \in ledger' : e.start <= work.task.start /\ work.task.end <= e.end
       /\ \A e \in ledger : \E f \in ledger' : f.start <= e.start /\ e.end <= f.end
       /\ \A e, f \in ledger' : e.start < f.start => e.end <= f.end
       /\ \A e, f \in ledger' : Overlap(ledger', e, f) =>
             \/ \E g, h \in ledger : g.id = e.id /\ h.id = f.id /\ Overlap(ledger, g, h)
             \/ work.task.source = "boot" /\ f.start = work.task.start /\ f.cause # e.cause
<1>1. UptimeInv /\ UptimeInv' /\ UptimeNext => Tells
  <2> SUFFICES ASSUME UptimeInv, UptimeInv', UptimeNext PROVE Tells
    OBVIOUS
  <2>1. now \in Nat /\ GoodLedger(ledger, now) /\ GoodLedger(ledger', now')
    BY DEF UptimeInv, GoodTypes
  <2>2. \A e, f \in ledger' : e.start < f.start => e.end <= f.end
    BY <2>1 DEF GoodLedger
  <2>3. \A e \in ledger : e.start \in Nat /\ e.end \in Nat
    BY <2>1 DEF GoodLedger, EventRecords
  <2>4. CASE Record
    <3> DEFINE lapse == work.task
    <3>1. work.step = "lookup" /\ lapse.kind = "gap"
      BY <2>4 DEF Record
    <3>2. lapse \in GapTasks /\ GoodGap(lapse, ledger, now) /\ lapse.rebooted \in BOOLEAN
      BY <3>1 DEF UptimeInv, GoodWork, GapTasks, ReevalTasks, Idle
    <3>3. PICK seen \in Lookups(lapse.start, lapse.end), cause \in Verdicts(lapse), window \in BOOLEAN :
             LET into == MergeTargets(lapse, cause, window)
                 told == IF into = {} THEN NewEvent(lapse, cause, seen)
                          ELSE Extended(CHOOSE e \in into : TRUE, lapse, cause, seen)
             IN  ledger' = Put(told)
      BY <2>4 DEF Record
    <3>4. seen \in Finds /\ cause \in Causes
      BY <3>2, LookupsAreFinds, VerdictsAreCauses DEF UptimeInv, GoodTypes
    <3> DEFINE into == MergeTargets(lapse, cause, window)
               told == IF into = {} THEN NewEvent(lapse, cause, seen)
                        ELSE Extended(CHOOSE e \in into : TRUE, lapse, cause, seen)
    <3>5. RecordedIn(ledger, lapse, told)
      BY <2>1, <3>2, <3>4, GapIsRecorded
    <3>6. ledger' = Put(told)
      BY <3>3
    <3> HIDE DEF lapse, into, told
    <3>7. /\ \A e \in ledger : \E f \in Put(told) : f.id = e.id /\ f.start = e.start /\ e.end <= f.end
          /\ \A e, f \in Put(told) : Overlap(Put(told), e, f) =>
                \/ \E g, h \in ledger : g.id = e.id /\ h.id = f.id /\ Overlap(ledger, g, h)
                \/ lapse.source = "boot" /\ f.start = lapse.start /\ f.cause # e.cause
      BY <2>1, <3>2, <3>5, RecordKeeps
    <3>8. told \in ledger' /\ told.start <= lapse.start /\ lapse.end <= told.end
      BY <3>5, <3>6 DEF Put, RecordedIn
    <3>9. \A e \in ledger : \E f \in ledger' : f.start <= e.start /\ e.end <= f.end
      BY <2>3, <3>6, <3>7
    <3>10. QED
      BY <2>2, <3>6, <3>7, <3>8, <3>9 DEF lapse
  <2>5. CASE ~Record
    <3>1. /\ ~(work.step = "lookup" /\ work'.step = "notify" /\ work.task.kind = "gap")
          /\ \/ ledger' = ledger
             \/ \E old \in ledger, new \in EventRecords :
                   /\ new.id = old.id /\ new.start = old.start /\ new.end = old.end /\ new.cause = old.cause
                   /\ ledger' = Put(new)
      BY <2>5, OthersPatch
    <3>2. /\ \A e \in ledger : \E f \in ledger' : f.start = e.start /\ f.end = e.end
          /\ \A f \in ledger' : \E e \in ledger : f.id = e.id /\ f.start = e.start /\ f.end = e.end
      <4>1. CASE ledger' = ledger
        BY <4>1
      <4>2. ASSUME NEW old \in ledger, NEW new \in EventRecords, ledger' = Put(new),
                   new.id = old.id, new.start = old.start, new.end = old.end, new.cause = old.cause
            PROVE  /\ \A e \in ledger : \E f \in ledger' : f.start = e.start /\ f.end = e.end
                   /\ \A f \in ledger' : \E e \in ledger : f.id = e.id /\ f.start = e.start /\ f.end = e.end
        <5>1. /\ \A e \in ledger : \E f \in Put(new) :
                    f.id = e.id /\ f.start = e.start /\ f.end = e.end /\ f.cause = e.cause
              /\ \A f \in Put(new) : \E e \in ledger :
                    f.id = e.id /\ f.start = e.start /\ f.end = e.end /\ f.cause = e.cause
          BY <2>1, <4>2, PatchKeeps
        <5>2. QED
          BY <4>2, <5>1
      <4>3. QED
        BY <3>1, <4>1, <4>2
    <3>3. \A e, f \in ledger' : Overlap(ledger', e, f) =>
             \E g, h \in ledger : g.id = e.id /\ h.id = f.id /\ Overlap(ledger, g, h)
      BY <3>2 DEF Overlap
    <3>4. \A e \in ledger : \E f \in ledger' : f.start <= e.start /\ e.end <= f.end
      BY <2>3, <3>2
    <3>5. QED
      BY <2>2, <3>1, <3>3, <3>4
  <2>6. QED
    BY <2>4, <2>5
<1>2. UptimeInv /\ UptimeInv' /\ [UptimeNext]_uptimeVars => [Tells]_uptimeVars
  BY <1>1
<1>3. QED
  BY <1>2, LedgerInOrder, PTL DEF UptimeSpec, OutagesRecorded

\* No later look at an event takes its loss back.
THEOREM LossesStand == UptimeSpec => LossStands
<1> DEFINE Stands ==
       \A e \in ledger : Incident(e) /\ work.step = "lookup" /\ work.task.kind = "reeval"
            => \E f \in ledger' : f.id = e.id /\ Incident(f)
<1>1. UptimeInv /\ UptimeNext => Stands
  <2> SUFFICES ASSUME UptimeInv, UptimeNext, NEW e \in ledger, Incident(e),
                      work.step = "lookup", work.task.kind = "reeval"
               PROVE  \E f \in ledger' : f.id = e.id /\ Incident(f)
    BY DEF Stands
  <2>1. CASE Review
    <3>1. PICK old \in ledger, new \in EventRecords, seen \in Finds :
              /\ old.id = work.task.id
              /\ new.id = old.id /\ new.start = old.start /\ new.end = old.end /\ new.cause = old.cause
              /\ new.missed = Reviewed(old.missed, seen)
              /\ ledger' = Put(new) /\ work' = Texting("reeval", <<new>>, FALSE)
      BY <2>1, ReviewPatches
    <3>2. CASE e.id # old.id
      BY <3>1, <3>2 DEF Put
    <3>3. CASE e.id = old.id
      <4>1. e = old /\ e \in EventRecords
        BY <3>3 DEF UptimeInv, GoodLedger
      <4>2. PICK s \in DOMAIN e.missed : e.missed[s].evaluated
        BY DEF Incident
      <4>3. e.missed \in [DOMAIN e.missed -> Slips]
        BY <4>1, FindsAre DEF EventRecords
      <4>4. s \in DOMAIN new.missed /\ (new.missed[s] = e.missed[s]
                \/ new.missed[s] = [e.missed[s] EXCEPT !.recovered = TRUE])
        BY <3>1, <4>1 DEF Reviewed
      <4>5. new.missed[s].evaluated
        BY <4>2, <4>3, <4>4 DEF Slips
      <4>6. Incident(new) /\ new \in ledger' /\ new.id = e.id
        BY <3>1, <4>1, <4>4, <4>5 DEF Incident, Put
      <4>7. QED
        BY <4>6
    <3>4. QED
      BY <3>2, <3>3
  <2>2. CASE Ack
    <3>1. PICK x \in ledger : ledger' = Put([x EXCEPT !.acked = TRUE])
      BY <2>2 DEF Ack
    <3>2. x \in EventRecords
      BY DEF UptimeInv, GoodLedger
    <3> DEFINE new == [x EXCEPT !.acked = TRUE]
    <3>3. new.id = x.id /\ new.missed = x.missed /\ ledger' = Put(new)
      BY <3>1, <3>2 DEF EventRecords
    <3> HIDE DEF new
    <3>4. CASE e.id # x.id
      BY <3>3, <3>4 DEF Put
    <3>5. CASE e.id = x.id
      <4>1. e = x
        BY <3>5 DEF UptimeInv, GoodLedger
      <4>2. Incident(new) /\ new \in ledger'
        BY <3>3, <4>1 DEF Incident, Put
      <4>3. QED
        BY <3>3, <3>5, <4>2
    <3>6. QED
      BY <3>4, <3>5
  <2>3. CASE ~Review /\ ~Ack
    <3>1. ledger' = ledger
      BY <2>3 DEF UptimeNext, Worker, Take, Record, Withhold, Send, Sent, SendFails, Beat, BeatAt, Sleep,
         TimerFires, SweepFires, StaysDown, Boot, StartBeacon, Collect, Reschedule, Crash, Stop, Gone, disk, Idle
    <3>2. QED
      BY <3>1
  <2>4. QED
    BY <2>1, <2>2, <2>3
<1>2. UptimeInv /\ [UptimeNext]_uptimeVars => [Stands]_uptimeVars
  BY <1>1
<1>3. QED
  BY <1>2, LedgerInOrder, PTL DEF UptimeSpec, LossStands

-----------------------------------------------------------------------------
(* The autopsy *)

OffKinds == {"off", "panic", "shutdown"}
ClockSet == \E h \in happened : h.what = "jump"

\* Lines of the power log: no two were noted at the same time.
WellNoted(lines) ==
    /\ IsFiniteSet(lines)
    /\ \A l \in lines : l.at \in Nat
    /\ \A k, l \in lines : k.at = l.at => k = l

\* The traces are those of what happened.
TracesTell ==
    /\ minute \in Nat /\ minute >= FirstMinute
    /\ boot \in Nat /\ 0 < boot /\ boot <= minute
    /\ machine \in {"awake", "dark", "asleep", "off"}
    /\ \A h \in happened : h.at \in Nat /\ h.at <= minute
    /\ cleanAt \in Nat /\ cleanAt <= minute
    /\ cleanAt = FirstClean \/ \E h \in happened : h.what = "shutdown" /\ h.at = cleanAt
    /\ \A h \in happened : h.what = "shutdown" => h.at <= cleanAt
    /\ panics \in SUBSET (1 .. minute)
    /\ \A p \in panics : \E h \in happened : h.what = "panic" /\ h.at = p
    /\ \A h \in happened : h.what = "panic" => h.at \in panics

\* The power log, and the sleep it tells of.
LogTells ==
    /\ WellNoted(log)
    /\ \A l \in log : l.at <= minute
    /\ \A l \in log : l.kind = "Wake" => \E h \in happened : h.what = "sleep" /\ h.at = l.at
    /\ machine \in {"asleep", "dark"} /\ (\A l \in log : l.at < minute)
          => \E h \in happened : h.what = "sleep" /\ h.at = minute
    /\ machine = "off" => \E h \in happened : \A l \in log : l.at <= h.at

\* As long as the clock is not set, the time of the boot tells whether the
\* machine went off.
BootTells ==
    ~ClockSet /\ machine # "off" => \A h \in happened : h.what \in OffKinds => h.at < boot

\* What a process left at time t, with the boot time it knew.
Left(epoch, mode, t) ==
    /\ epoch \in Nat /\ t \in Nat /\ FirstMinute <= t /\ t <= minute
    /\ epoch <= t \/ ClockSet
    /\ mode \in {"alive", "stopping"}
    /\ ~ClockSet /\ machine # "off" /\ epoch \notin {Unknown, boot}
          => \E h \in happened : h.what \in OffKinds /\ t <= h.at
    /\ mode = "stopping" =>
          \/ \E h \in happened : h.what = "stop" /\ h.at = t
          \/ machine = "off" \/ t < boot \/ ClockSet

ProcessTells ==
    /\ proc = NoProc \/
          /\ proc = [runs |-> TRUE, epoch |-> proc.epoch, fallback |-> proc.fallback,
                     tick |-> proc.tick, uptime |-> proc.uptime, fails |-> proc.fails]
          /\ proc.epoch \in Nat /\ proc.tick \in FirstMinute .. minute
          /\ proc.epoch <= proc.tick \/ ClockSet
    /\ proc.runs => machine # "off" /\ (ClockSet \/ proc.epoch \in {Unknown, boot})
    /\ record = NoBeacon \/
          /\ record = [at |-> record.at, epoch |-> record.epoch, mode |-> record.mode,
                       uptime |-> record.uptime, fails |-> record.fails]
          /\ Left(record.epoch, record.mode, record.at)
          /\ machine = "off" => \E h \in happened : h.what \in OffKinds /\ record.at <= h.at

\* A gap that waits to be judged.
GapTells ==
    gap = NoGap \/
      /\ gap = [source |-> gap.source, start |-> gap.start, end |-> gap.end, prev |-> gap.prev,
                fails |-> gap.fails, suspect |-> gap.suspect]
      /\ gap.source \in {"tick", "boot"}
      /\ gap.end = minute /\ gap.start + ShortestGap <= gap.end
      /\ proc.runs /\ machine # "off"
      /\ Left(gap.prev.epoch, gap.prev.mode, gap.start)
      /\ gap.source = "tick" => gap.prev.epoch = proc.epoch
      /\ gap.source = "boot" => gap.prev.epoch # Unknown

Certain(cause) == [cause |-> cause, confidence |-> "certain"]

PanicInside(span) == \E h \in happened : h.what = "panic" /\ span.start <= h.at /\ h.at <= span.end

\* What is told for certain of one gap: it was so, or the panic that is passed
\* over could not be read.
TrueOf(cause, span, ev) ==
    \/ ReallyWas(cause, span)
    \/ cause = "power-cut" /\ PanicInside(span) /\ ~ev.panicRead /\ ev.panicAt = Unknown

EventTells ==
    event = NoEvent \/
      /\ event = [start |-> event.start, end |-> event.end, cause |-> event.cause,
                  confidence |-> event.confidence, exact |-> event.exact, ev |-> event.ev,
                  seen |-> event.seen, verdicts |-> event.verdicts, gaps |-> event.gaps]
      /\ event.start \in Nat /\ event.end \in Nat /\ event.end <= minute
      /\ \A span \in event.gaps :
            /\ span.start \in Nat /\ span.end \in Nat
            /\ event.start - JoinWindow <= span.start /\ span.end <= event.end
      /\ \E span \in event.gaps : span.start = event.start
      /\ \E said \in event.verdicts : said.cause = event.cause
      /\ event.verdicts = {Certain(event.cause)} /\ (event.cause = "sleep" \/ ~ClockSet) =>
            \A span \in event.gaps :
               TrueOf(event.cause, span, event.ev) \/ (Joined(event) /\ PanicInside(span))

AutopsyInv ==
    /\ TracesTell /\ LogTells /\ BootTells /\ ProcessTells /\ GapTells /\ EventTells
    /\ SleepIsShown
-----------------------------------------------------------------------------
(* The times of lines *)

\* Of times that are bounded one is the last, and one the first.
LEMMA LastOfTimes ==
    ASSUME NEW S \in SUBSET Nat, S # {}, NEW n \in Nat, \A x \in S : x <= n
    PROVE  \E x \in S : \A y \in S : x >= y
<1> DEFINE above(x) == {y \in S : y >= x}
           family == {above(x) : x \in S}
<1>1. IsFiniteSet(S)
  BY FS_BoundedSetOfNaturals
<1>2. family \subseteq FiniteSubsetsOf(S) /\ family # {}
  <2>1. ASSUME NEW x \in S PROVE above(x) \in FiniteSubsetsOf(S)
    <3>1. above(x) \in SUBSET S
      OBVIOUS
    <3>2. IsFiniteSet(above(x))
      BY <1>1, <3>1, FS_Subset
    <3>3. QED
      BY <3>1, <3>2 DEF FiniteSubsetsOf
  <2>2. QED
    BY <2>1
<1>3. PICK x \in S : \A y \in S : <<above(y), above(x)>> \notin StrictSubsetOrdering(S)
  <2> HIDE DEF above
  <2>1. \E F \in family : \A G \in family : ~ (<<G, F>> \in StrictSubsetOrdering(S))
    <3> HIDE DEF family
    <3> QED
      BY <1>2, FS_StrictSubsetOrderingWellFounded, WFMin
  <2>2. QED
    BY <2>1
<1>4. ASSUME NEW y \in S PROVE x >= y
  <2> SUFFICES ASSUME y > x PROVE FALSE
    BY <1>1
  <2>a. x \in Nat /\ y \in Nat /\ ~ (x >= y) /\ x >= x
    OBVIOUS
  <2>b. \A z \in S : z >= y => z >= x
    OBVIOUS
  <2>1. above(y) \subseteq above(x) /\ x \in above(x) /\ x \notin above(y)
    BY <2>a, <2>b, Zenon
  <2>2. above(y) \in SUBSET S /\ above(x) \in SUBSET S /\ above(y) # above(x)
    BY <2>1
  <2>3. <<above(y), above(x)>> \in StrictSubsetOrdering(S)
    <3> HIDE DEF above
    <3> QED
      BY <2>1, <2>2 DEF StrictSubsetOrdering
  <2>4. QED
    BY <1>3, <2>3
<1>5. QED
  BY <1>4

LEMMA FirstOfTimes ==
    ASSUME NEW S \in SUBSET Nat, S # {}, NEW n \in Nat, \A x \in S : x <= n
    PROVE  \E x \in S : \A y \in S : x <= y
<1> DEFINE turned == {n - x : x \in S}
<1>1. turned \in SUBSET Nat /\ turned # {} /\ \A t \in turned : t <= n
  <2>1. \A x \in S : n - x \in Nat /\ n - x <= n
    OBVIOUS
  <2>2. QED
    BY <2>1
<1>2. PICK t \in turned : \A u \in turned : t >= u
  <2> HIDE DEF turned
  <2> QED
    BY <1>1, LastOfTimes
<1>3. PICK x \in S : t = n - x
  BY <1>2
<1>4. ASSUME NEW y \in S PROVE x <= y
  <2>1. n - y \in turned
    OBVIOUS
  <2>2. n - y <= n - x /\ x \in Nat /\ y \in Nat
    BY <1>2, <1>3, <2>1
  <2>3. QED
    BY <2>2
<1>5. QED
  BY <1>4

\* Of a set of lines one is the first.
LEMMA FirstLine ==
    ASSUME NEW S, IsFiniteSet(S), S # {}, NEW n \in Nat, \A l \in S : l.at \in Nat /\ l.at <= n
    PROVE  \E l \in S : \A k \in S : l.at <= k.at
<1> DEFINE times == {l.at : l \in S}
<1>1. times \in SUBSET Nat /\ times # {} /\ \A x \in times : x <= n
  OBVIOUS
<1>2. PICK x \in times : \A y \in times : x <= y
  <2> HIDE DEF times
  <2> QED
    BY <1>1, FirstOfTimes
<1>3. PICK l \in S : x = l.at
  BY <1>2
<1>4. \A k \in S : k.at \in times
  OBVIOUS
<1>5. QED
  BY <1>2, <1>3, <1>4

LEMMA LastLine ==
    ASSUME NEW S, IsFiniteSet(S), S # {}, NEW n \in Nat, \A l \in S : l.at \in Nat /\ l.at <= n
    PROVE  \E l \in S : \A k \in S : k.at <= l.at
<1> DEFINE times == {l.at : l \in S}
<1>1. times \in SUBSET Nat /\ times # {} /\ \A x \in times : x <= n
  OBVIOUS
<1>2. PICK x \in times : \A y \in times : x >= y
  <2> HIDE DEF times
  <2> QED
    BY <1>1, LastOfTimes
<1>3. PICK l \in S : x = l.at
  BY <1>2
<1>4. \A k \in S : k.at \in times
  OBVIOUS
<1>5. l.at \in Nat /\ \A k \in S : k.at \in Nat /\ l.at >= k.at
  BY <1>2, <1>3, <1>4
<1>6. QED
  BY <1>5

\* No more lines than minutes.
LEMMA FewLines ==
    ASSUME NEW lines, WellNoted(lines), NEW S \in SUBSET lines, NEW a \in Int, NEW b \in Int,
           a <= b, \A l \in S : a <= l.at /\ l.at < b
    PROVE  IsFiniteSet(S) /\ Cardinality(S) \in Nat /\ Cardinality(S) <= b - a
<1> DEFINE time == [l \in S |-> l.at]
<1>1. \A l \in S : l.at \in Nat /\ l.at \in a .. (b - 1)
  BY DEF WellNoted
<1>2. time \in Injection(S, a .. (b - 1))
  <2>1. time \in [S -> a .. (b - 1)]
    BY <1>1
  <2>2. \A k, l \in S : time[k] = time[l] => k = l
    BY DEF WellNoted
  <2>3. QED
    BY <2>1, <2>2 DEF Injection, IsInjective
<1>3. IsFiniteSet(a .. (b - 1)) /\ Cardinality(a .. (b - 1)) <= b - a
  <2>1. IsFiniteSet(a .. (b - 1)) /\ Cardinality(a .. (b - 1)) = IF a > b - 1 THEN 0 ELSE (b - 1) - a + 1
    BY FS_Interval
  <2>2. QED
    BY <2>1
<1>4. IsFiniteSet(S) /\ Cardinality(S) <= Cardinality(a .. (b - 1))
  BY <1>2, <1>3, FS_Injection
<1>5. Cardinality(S) \in Nat /\ Cardinality(a .. (b - 1)) \in Nat
  BY <1>3, <1>4, FS_CardinalityType
<1>6. QED
  BY <1>3, <1>4, <1>5

-----------------------------------------------------------------------------
(* Windows of sleep *)

LEMMA WindowOf ==
    ASSUME NEW lines, NEW w
    PROVE  w \in SleepWindows(lines) <=>
              \E l, m \in lines : /\ Opens(lines, l) /\ Closes(lines, l, m)
                                  /\ w = [start |-> l.at, end |-> m.at, reason |-> l.reason,
                                          from |-> l.charge, to |-> m.charge]
<1>1. ASSUME NEW l \in lines, NEW m \in lines, Opens(lines, l), Closes(lines, l, m),
             w = [start |-> l.at, end |-> m.at, reason |-> l.reason, from |-> l.charge, to |-> m.charge]
      PROVE  w \in SleepWindows(lines)
  <2>1. <<l, m>> \in {q \in lines \X lines : Opens(lines, q[1]) /\ Closes(lines, q[1], q[2])}
    BY <1>1
  <2>2. \E q \in {q \in lines \X lines : Opens(lines, q[1]) /\ Closes(lines, q[1], q[2])} :
           w = [start |-> q[1].at, end |-> q[2].at, reason |-> q[1].reason,
                from |-> q[1].charge, to |-> q[2].charge]
    <3> WITNESS <<l, m>> \in {q \in lines \X lines : Opens(lines, q[1]) /\ Closes(lines, q[1], q[2])}
    <3> QED
      BY <1>1
  <2>3. QED
    BY <2>2 DEF SleepWindows
<1>2. ASSUME w \in SleepWindows(lines)
      PROVE  \E l, m \in lines : /\ Opens(lines, l) /\ Closes(lines, l, m)
                                 /\ w = [start |-> l.at, end |-> m.at, reason |-> l.reason,
                                         from |-> l.charge, to |-> m.charge]
  <2>1. PICK q \in lines \X lines :
               /\ Opens(lines, q[1]) /\ Closes(lines, q[1], q[2])
               /\ w = [start |-> q[1].at, end |-> q[2].at, reason |-> q[1].reason,
                       from |-> q[1].charge, to |-> q[2].charge]
    BY <1>2 DEF SleepWindows
  <2>2. q[1] \in lines /\ q[2] \in lines
    OBVIOUS
  <2>3. QED
    BY <2>1, <2>2
<1>3. QED
  BY <1>1, <1>2

\* What a Sleep and a later Wake show: some window has the Sleep in it, and ends
\* with the first Wake after it.
LEMMA HasWindow ==
    ASSUME NEW lines, WellNoted(lines), NEW n \in Nat, \A l \in lines : l.at <= n,
           NEW k \in lines, k.kind = "Sleep", NEW u \in lines, u.kind = "Wake", k.at < u.at
    PROVE  \E l, m \in lines :
              /\ Opens(lines, l) /\ Closes(lines, l, m) /\ l.at <= k.at /\ k.at < m.at
              /\ \A w \in lines : w.kind = "Wake" /\ k.at < w.at => m.at <= w.at
<1> DEFINE slept == {s \in lines : /\ s.kind = "Sleep" /\ s.at <= k.at
                                   /\ \A w \in lines : w.kind = "Wake" => ~ (s.at < w.at /\ w.at < k.at)}
           woke == {w \in lines : w.kind = "Wake" /\ k.at < w.at}
<1>1. \A l \in lines : l.at \in Nat /\ l.at <= n
  BY DEF WellNoted
<1>2. IsFiniteSet(slept) /\ IsFiniteSet(woke)
  <2>1. slept \in SUBSET lines /\ woke \in SUBSET lines /\ IsFiniteSet(lines)
    BY DEF WellNoted
  <2>2. QED
    BY <2>1, FS_Subset
<1>3. k \in slept /\ u \in woke
  BY <1>1
<1>4. PICK l \in slept : \A s \in slept : l.at <= s.at
  <2>1. slept # {} /\ \A s \in slept : s.at \in Nat /\ s.at <= n
    BY <1>1, <1>3
  <2> HIDE DEF slept
  <2>2. QED
    BY <1>2, <2>1, FirstLine
<1>5. PICK m \in woke : \A w \in woke : m.at <= w.at
  <2>1. woke # {} /\ \A w \in woke : w.at \in Nat /\ w.at <= n
    BY <1>1, <1>3
  <2> HIDE DEF woke
  <2>2. QED
    BY <1>2, <2>1, FirstLine
<1>6. l \in lines /\ m \in lines /\ l.kind = "Sleep" /\ l.at <= k.at /\ m.kind = "Wake" /\ k.at < m.at
  OBVIOUS
<1>7. \A w \in lines : w.kind = "Wake" => w.at # l.at /\ w.at # k.at
  BY <1>6 DEF WellNoted
<1>8. Opens(lines, l)
  <2>1. ASSUME NEW s \in lines, s.kind = "Sleep", s.at < l.at
        PROVE  \E w \in lines : w.kind = "Wake" /\ s.at < w.at /\ w.at < l.at
    <3>1. s \notin slept
      BY <1>1, <1>4, <1>6, <2>1
    <3>2. s.at <= k.at
      BY <1>1, <1>6, <2>1
    <3>3. PICK w \in lines : w.kind = "Wake" /\ s.at < w.at /\ w.at < k.at
      BY <2>1, <3>1, <3>2
    <3>4. ~ (l.at < w.at)
      BY <3>3, <1>4
    <3>5. w.at < l.at
      BY <1>1, <1>6, <1>7, <3>3, <3>4
    <3>6. QED
      BY <3>3, <3>5
  <2>2. QED
    BY <1>6, <2>1 DEF Opens
<1>9. Closes(lines, l, m)
  <2>1. ASSUME NEW w \in lines, w.kind = "Wake", l.at < w.at PROVE m.at <= w.at
    <3>1. ~ (w.at < k.at) /\ w.at # k.at
      BY <1>4, <1>7, <2>1
    <3>2. w \in woke
      BY <1>1, <2>1, <3>1
    <3>3. QED
      BY <1>5, <3>2
  <2>2. l.at < m.at
    BY <1>1, <1>6
  <2>3. QED
    BY <1>6, <2>1, <2>2 DEF Closes
<1>10. \A w \in lines : w.kind = "Wake" /\ k.at < w.at => m.at <= w.at
  BY <1>5
<1>11. QED
  BY <1>6, <1>8, <1>9, <1>10

LEMMA SameWindow ==
    ASSUME NEW lines, WellNoted(lines), NEW v \in SleepWindows(lines), NEW w \in SleepWindows(lines),
           v.start = w.start
    PROVE  v = w
<1>1. PICK l, m \in lines : /\ Opens(lines, l) /\ Closes(lines, l, m)
                            /\ v = [start |-> l.at, end |-> m.at, reason |-> l.reason,
                                    from |-> l.charge, to |-> m.charge]
  BY WindowOf
<1>2. PICK k, u \in lines : /\ Opens(lines, k) /\ Closes(lines, k, u)
                            /\ w = [start |-> k.at, end |-> u.at, reason |-> k.reason,
                                    from |-> k.charge, to |-> u.charge]
  BY WindowOf
<1>3. l = k
  BY <1>1, <1>2 DEF WellNoted
<1>4. m.at <= u.at /\ u.at <= m.at /\ m.at \in Nat /\ u.at \in Nat
  BY <1>1, <1>2, <1>3 DEF Closes, WellNoted
<1>5. m = u
  BY <1>4 DEF WellNoted
<1>6. QED
  BY <1>1, <1>2, <1>3, <1>5

LEMMA WindowTimes ==
    ASSUME NEW lines, WellNoted(lines), NEW w \in SleepWindows(lines)
    PROVE  /\ w.start \in Nat /\ w.end \in Nat /\ w.start < w.end
           /\ \E l \in lines : l.kind = "Wake" /\ l.at = w.end
           /\ \E l \in lines : l.kind = "Sleep" /\ l.at = w.start
<1>1. PICK l, m \in lines : /\ Opens(lines, l) /\ Closes(lines, l, m)
                            /\ w = [start |-> l.at, end |-> m.at, reason |-> l.reason,
                                    from |-> l.charge, to |-> m.charge]
  BY WindowOf
<1>2. w.start = l.at /\ w.end = m.at
  BY <1>1
<1>3. QED
  BY <1>1, <1>2 DEF Opens, Closes, WellNoted

\* The window that is picked covers the gap, and is the first that does.
LEMMA PicksFirst ==
    ASSUME NEW lines, WellNoted(lines), NEW n \in Nat, \A l \in lines : l.at <= n, NEW s, NEW e,
           Covering(SleepWindows(lines), s, e) # NoWindow
    PROVE  LET w == Covering(SleepWindows(lines), s, e)
           IN  /\ w \in SleepWindows(lines) /\ Covers(w, s, e)
               /\ \A v \in SleepWindows(lines) : Covers(v, s, e) => w.start <= v.start
<1> DEFINE covering == {w \in SleepWindows(lines) : Covers(w, s, e)}
           starts == {w.start : w \in covering}
<1>1. covering # {}
  BY DEF Covering
<1>2. starts \in SUBSET Nat /\ starts # {} /\ \A x \in starts : x <= n
  <2>1. \A w \in covering : w.start \in Nat /\ w.start <= n
    BY WindowTimes
  <2>2. QED
    BY <1>1, <2>1
<1>3. PICK x \in starts : \A y \in starts : x <= y
  <2> HIDE DEF starts
  <2> QED
    BY <1>2, FirstOfTimes
<1>4. PICK w \in covering : x = w.start
  BY <1>3
<1>5. \A v \in covering : w.start <= v.start
  BY <1>3, <1>4
<1>6. Covering(SleepWindows(lines), s, e) = CHOOSE v \in covering : \A u \in covering : v.start <= u.start
  BY <1>1 DEF Covering
<1>7. Covering(SleepWindows(lines), s, e) \in covering
      /\ \A u \in covering : Covering(SleepWindows(lines), s, e).start <= u.start
  <2> HIDE DEF covering
  <2>1. QED
    BY <1>4, <1>5, <1>6
<1>8. QED
  BY <1>7

LEMMA FirstIsPicked ==
    ASSUME NEW lines, WellNoted(lines), NEW n \in Nat, \A l \in lines : l.at <= n, NEW s, NEW e,
           NEW w \in SleepWindows(lines), Covers(w, s, e),
           \A v \in SleepWindows(lines) : Covers(v, s, e) => w.start <= v.start
    PROVE  Covering(SleepWindows(lines), s, e) = w
<1> DEFINE covering == {v \in SleepWindows(lines) : Covers(v, s, e)}
<1>1. w \in covering /\ \A v \in covering : w.start <= v.start
  OBVIOUS
<1>2. Covering(SleepWindows(lines), s, e) = CHOOSE v \in covering : \A u \in covering : v.start <= u.start
  BY <1>1 DEF Covering
<1>3. PICK v \in covering : /\ v = Covering(SleepWindows(lines), s, e)
                            /\ \A u \in covering : v.start <= u.start
  <2> HIDE DEF covering
  <2>1. QED
    BY <1>1, <1>2
<1>4. v.start <= w.start /\ w.start <= v.start
  BY <1>1, <1>3
<1>5. v.start \in Nat /\ w.start \in Nat
  BY WindowTimes
<1>6. v = w
  BY <1>4, <1>5, SameWindow
<1>7. QED
  BY <1>3, <1>6

-----------------------------------------------------------------------------
(* The sample of the power log *)

\* What the sample must not miss: the Sleep that opened the window is among the
\* last lines before the gap or the first ones in it.
LEMMA SampleShows ==
    ASSUME NEW lines, WellNoted(lines), NEW s \in Nat, NEW from \in Nat, NEW e \in Nat,
           \A l \in lines : l.at <= e, s + ShortestGap <= e, from - JoinWindow <= s,
           LET seen == Covering(SleepWindows(lines), from, e)
           IN  /\ seen # NoWindow /\ from - 1 <= seen.start
               /\ from = s \/ e <= seen.start + FreezeMargin
               /\ Cardinality({l \in lines : s <= l.at /\ l.at <= seen.start}) <= FreezeHead
    PROVE  Covering(SleepWindows(Freeze(lines, s, e)), from, e) = Covering(SleepWindows(lines), from, e)
<1> DEFINE seen == Covering(SleepWindows(lines), from, e)
           near == Near(lines, s, e)
           inside == {l \in near : s <= l.at /\ l.at <= e}
           before == {l \in near : l.at < s}
           picked == UNION {LastOf(FreezeBefore, before),
                            FirstOf(FreezeHead, inside), LastOf(FreezeTail, inside),
                            FirstOf(FreezeAfter, {l \in near : e < l.at}),
                            {l \in near : l.kind \in {"Wake", "Start"}}}
           sample == Freeze(lines, s, e)
<1>1. \A l \in lines : l.at \in Nat /\ l.at <= e
  BY DEF WellNoted
<1>2. /\ seen \in SleepWindows(lines) /\ Covers(seen, from, e)
      /\ \A v \in SleepWindows(lines) : Covers(v, from, e) => seen.start <= v.start
  BY PicksFirst
<1>3. PICK i, m \in lines : /\ Opens(lines, i) /\ Closes(lines, i, m)
                            /\ seen = [start |-> i.at, end |-> m.at, reason |-> i.reason,
                                       from |-> i.charge, to |-> m.charge]
  BY <1>2, WindowOf
<1>4. /\ seen.start = i.at /\ seen.end = m.at /\ i.at \in Nat /\ m.at \in Nat /\ i.at < m.at /\ m.at <= e
      /\ i.kind = "Sleep" /\ m.kind = "Wake" /\ e <= m.at + 2 /\ i.at <= from + 2
  <2>1. seen.start = i.at /\ seen.end = m.at
    BY <1>3
  <2>2. QED
    BY <1>1, <1>2, <1>3, <2>1 DEF Opens, Closes, Covers, CoverTolerance
<1>5. s + 2 <= e /\ s <= i.at + 2 /\ i.at <= s + 3
  BY <1>1, <1>4 DEF ShortestGap, FreezeMargin, JoinWindow
<1>6. \A l \in lines : l \in near <=> s <= l.at + 4
  BY <1>1 DEF Near, FreezeMargin
<1>7. near \subseteq lines /\ i \in near /\ m \in near
  BY <1>1, <1>4, <1>5, <1>6 DEF Near
<1>8. picked \subseteq near /\ \A l \in near : l.kind = "Wake" => l \in picked
  BY DEF LastOf, FirstOf
<1>9. i \in picked
  <2>1. CASE s <= i.at
    <3> DEFINE crowd == {l \in lines : s <= l.at /\ l.at <= i.at}
               ahead == {k \in inside : k.at < i.at}
    <3>1. IsFiniteSet(crowd) /\ Cardinality(crowd) <= 2 /\ i \in crowd
      <4>1. crowd \in SUBSET lines /\ IsFiniteSet(lines)
        BY DEF WellNoted
      <4>2. Cardinality(crowd) <= 2
        BY <1>4 DEF FreezeHead
      <4>3. QED
        BY <1>4, <2>1, <4>1, <4>2, FS_Subset
    <3>2. ahead \in SUBSET (crowd \ {i})
      BY <1>1, <1>4, <1>7
    <3>3. /\ IsFiniteSet(crowd \ {i}) /\ Cardinality(crowd) \in Nat
          /\ Cardinality(crowd \ {i}) = Cardinality(crowd) - 1
      BY <3>1, FS_RemoveElement, FS_CardinalityType
    <3>4. Cardinality(ahead) <= Cardinality(crowd \ {i}) /\ Cardinality(ahead) \in Nat
      BY <3>2, <3>3, FS_Subset, FS_CardinalityType
    <3>5. Cardinality(ahead) < FreezeHead
      BY <3>1, <3>3, <3>4 DEF FreezeHead
    <3>6. i \in inside
      BY <1>1, <1>4, <1>7, <2>1
    <3>7. i \in FirstOf(FreezeHead, inside)
      BY <3>5, <3>6 DEF FirstOf
    <3>8. QED
      BY <3>7
  <2>2. CASE i.at < s
    <3> DEFINE later == {k \in before : i.at < k.at}
    <3>1. later \in SUBSET lines /\ \A k \in later : s - 1 <= k.at /\ k.at < s
      BY <1>1, <1>4, <1>5, <1>7, <2>2
    <3>2. Cardinality(later) \in Nat /\ Cardinality(later) <= s - (s - 1)
      <4>1. s - 1 \in Int /\ s \in Int /\ s - 1 <= s
        OBVIOUS
      <4> HIDE DEF later
      <4>2. QED
        BY <3>1, <4>1, FewLines
    <3>3. Cardinality(later) < FreezeBefore
      BY <3>2 DEF FreezeBefore
    <3>4. i \in before
      BY <1>7, <2>2
    <3>5. i \in LastOf(FreezeBefore, before)
      BY <3>3, <3>4 DEF LastOf
    <3>6. QED
      BY <3>5
  <2>3. QED
    BY <1>4, <2>1, <2>2
<1>10. \A l \in picked : l.at <= i.at \/ l = m => l \in sample
  <2>1. sample = IF Cardinality(picked) <= FreezeCap THEN picked
                 ELSE FirstOf(FreezeCap \div 2, picked) \cup LastOf(FreezeCap \div 2, picked)
    BY DEF Freeze
  <2>2. FreezeCap \div 2 = 20
    BY DEF FreezeCap
  <2>3. ASSUME NEW l \in picked, l.at <= i.at PROVE l \in FirstOf(20, picked)
    <3> DEFINE ahead == {k \in picked : k.at < l.at}
    <3>1. ahead \in SUBSET lines /\ \A k \in ahead : s - 4 <= k.at /\ k.at < i.at
      <4> HIDE DEF picked
      <4> QED
        BY <1>1, <1>4, <1>6, <1>7, <1>8, <2>3
    <3>3. Cardinality(ahead) <= i.at - (s - 4) /\ Cardinality(ahead) \in Nat
      <4>1. s - 4 \in Int /\ i.at \in Int /\ s - 4 <= i.at
        BY <1>4, <1>5
      <4> HIDE DEF ahead
      <4>2. QED
        BY <3>1, <4>1, FewLines
    <3>4. Cardinality(ahead) < 20
      BY <1>4, <1>5, <3>3
    <3>5. QED
      BY <2>3, <3>4 DEF FirstOf
  <2>4. m \in picked => m \in LastOf(20, picked)
    <3> DEFINE later == {k \in picked : m.at < k.at}
    <3>1. later \in SUBSET lines /\ \A k \in later : m.at <= k.at /\ k.at < e + 1
      <4> HIDE DEF picked
      <4> QED
        BY <1>1, <1>4, <1>7, <1>8
    <3>2. Cardinality(later) <= (e + 1) - m.at /\ Cardinality(later) \in Nat
      <4>1. e + 1 \in Int /\ m.at \in Int /\ m.at <= e + 1
        BY <1>4
      <4> HIDE DEF later
      <4>2. QED
        BY <3>1, <4>1, FewLines
    <3>3. Cardinality(later) < 20
      BY <1>4, <3>2
    <3>4. QED
      BY <3>3 DEF LastOf
  <2>5. QED
    BY <2>1, <2>2, <2>3, <2>4
<1>11. sample \in SUBSET lines /\ WellNoted(sample)
  <2>1. sample \subseteq picked
    BY DEF Freeze, FirstOf, LastOf
  <2>2. sample \in SUBSET lines
    BY <1>7, <1>8, <2>1
  <2>3. IsFiniteSet(sample)
    BY <2>2, FS_Subset DEF WellNoted
  <2> HIDE DEF sample
  <2>4. QED
    BY <2>2, <2>3 DEF WellNoted
<1>12. i \in sample /\ m \in sample /\ sample \subseteq near
  <2>1. m \in picked
    BY <1>4, <1>7, <1>8
  <2>2. sample \subseteq picked
    BY DEF Freeze, FirstOf, LastOf
  <2> HIDE DEF sample, picked
  <2>3. QED
    BY <1>4, <1>8, <1>9, <1>10, <2>1, <2>2
<1>13. \A l \in lines, k \in sample :
          l.kind = "Wake" /\ k.at < l.at /\ l.at <= i.at => l \in sample
  <2>1. ASSUME NEW l \in lines, NEW k \in sample, l.kind = "Wake", k.at < l.at, l.at <= i.at
        PROVE  l \in sample
    <3> HIDE DEF sample, picked, near
    <3>1. k \in near /\ k \in lines
      BY <1>7, <1>12
    <3>2. l \in near
      BY <1>1, <1>6, <2>1, <3>1
    <3>3. QED
      BY <1>8, <1>10, <2>1, <3>2
  <2>2. QED
    BY <2>1
<1> HIDE DEF sample, picked, near, inside, before
<1>14. seen \in SleepWindows(sample)
  <2>1. Opens(sample, i)
    <3>1. ASSUME NEW k \in sample, k.kind = "Sleep", k.at < i.at
          PROVE  \E l \in sample : l.kind = "Wake" /\ k.at < l.at /\ l.at < i.at
      <4>1. PICK l \in lines : l.kind = "Wake" /\ k.at < l.at /\ l.at < i.at
        BY <1>3, <1>11, <3>1 DEF Opens
      <4>2. l \in sample
        BY <1>1, <1>4, <1>13, <4>1
      <4>3. QED
        BY <4>1, <4>2
    <3>2. QED
      BY <1>4, <3>1 DEF Opens
  <2>2. Closes(sample, i, m)
    BY <1>3, <1>11 DEF Closes
  <2>3. QED
    BY <1>3, <1>12, <2>1, <2>2, WindowOf
<1>15. ASSUME NEW v \in SleepWindows(sample), Covers(v, from, e)
       PROVE  seen.start <= v.start
  <2>1. PICK k, u \in sample : /\ Opens(sample, k) /\ Closes(sample, k, u)
                               /\ v = [start |-> k.at, end |-> u.at, reason |-> k.reason,
                                       from |-> k.charge, to |-> u.charge]
    BY WindowOf
  <2>2. /\ k \in lines /\ u \in lines /\ k.kind = "Sleep" /\ u.kind = "Wake"
        /\ k.at < u.at /\ v.start = k.at /\ v.end = u.at
    BY <1>11, <2>1 DEF Opens, Closes
  <2> SUFFICES ASSUME k.at < i.at PROVE FALSE
    BY <1>1, <1>4, <2>2
  <2>3. PICK b \in lines : b.kind = "Wake" /\ k.at < b.at /\ b.at < i.at
    BY <1>3, <2>2 DEF Opens
  <2>4. PICK l, c \in lines :
           /\ Opens(lines, l) /\ Closes(lines, l, c) /\ l.at <= k.at /\ k.at < c.at
           /\ \A w \in lines : w.kind = "Wake" /\ k.at < w.at => c.at <= w.at
    BY <1>1, <2>2, <2>3, HasWindow
  <2>5. c.at <= b.at /\ c.kind = "Wake"
    BY <2>3, <2>4 DEF Closes
  <2>6. c \in sample
    BY <1>1, <1>4, <1>13, <2>3, <2>4, <2>5
  <2>7. u.at <= c.at
    BY <2>1, <2>4, <2>5, <2>6 DEF Closes
  <2> DEFINE w == [start |-> l.at, end |-> c.at, reason |-> l.reason, from |-> l.charge, to |-> c.charge]
  <2>8. w \in SleepWindows(lines) /\ w.start = l.at /\ w.end = c.at
    BY <2>4, WindowOf
  <2>9. Covers(w, from, e)
    BY <1>1, <1>15, <2>2, <2>4, <2>7, <2>8 DEF Covers, CoverTolerance
  <2>10. seen.start <= w.start
    BY <1>2, <2>8, <2>9
  <2>11. QED
    BY <1>1, <1>4, <2>2, <2>4, <2>8, <2>10
<1>16. \A l \in sample : l.at <= e
  BY <1>1, <1>11
<1>17. Covering(SleepWindows(sample), from, e) = seen
  BY <1>2, <1>11, <1>14, <1>15, <1>16, FirstIsPicked
<1>18. QED
  BY <1>17 DEF sample

-----------------------------------------------------------------------------
(* What is certain is true *)

LEMMA CertainVerdict ==
    ASSUME NEW ev, NEW inWindow \in BOOLEAN, NEW start,
           Classify(ev, inWindow, start).confidence = "certain"
    PROVE  LET cause == Classify(ev, inWindow, start).cause
               otherBoot == BootChanged(ev.before, ev.bootNow)
           IN  /\ ev.bootNow # Unknown
               /\ \/ cause = "sleep" /\ ~otherBoot /\ ev.same /\ inWindow
                  \/ cause = "restart-intended" /\ ~otherBoot /\ ~ev.same /\ ev.mode = "stopping"
                  \/ cause = "panic" /\ otherBoot /\ ev.panicAt # Unknown
                  \/ /\ cause = "reboot-clean" /\ otherBoot /\ ev.clean # Unknown
                     /\ ev.clean >= start - CleanBefore /\ ev.clean <= ev.bootNow + CleanAfter
                  \/ /\ cause = "power-cut" /\ otherBoot /\ ev.panicAt = Unknown /\ ev.clean # Unknown
                     /\ ~ (ev.clean >= start - CleanBefore /\ ev.clean <= ev.bootNow + CleanAfter)
<1> DEFINE branch == IF BootChanged(ev.before, ev.bootNow) THEN Rebooted(ev, start) ELSE SameBoot(ev, inWindow)
<1>1. Classify(ev, inWindow, start) = Finalize(ev, branch)
  BY DEF Classify
<1>2. /\ ev.bootNow # Unknown /\ branch.confidence = "certain"
      /\ Classify(ev, inWindow, start).cause = branch.cause
  <2> HIDE DEF branch
  <2>1. \A c : Lower(c) # "certain"
    BY DEF Lower
  <2>2. QED
    BY <1>1, <2>1 DEF Finalize
<1>3. CASE BootChanged(ev.before, ev.bootNow)
  <2>1. branch = Rebooted(ev, start)
    BY <1>3
  <2> HIDE DEF branch
  <2>2. QED
    BY <1>2, <1>3, <2>1 DEF Rebooted, Branch
<1>4. CASE ~ BootChanged(ev.before, ev.bootNow)
  <2>1. branch = SameBoot(ev, inWindow)
    BY <1>4
  <2> HIDE DEF branch
  <2>2. QED
    BY <1>2, <1>4, <2>1 DEF SameBoot, Branch
<1>5. QED
  BY <1>3, <1>4

LEMMA PanicFound ==
    ASSUME TracesTell, NEW s \in Nat, NEW e \in Nat
    PROVE  /\ PanicIn(s, e) # Unknown => \E h \in happened : h.what = "panic" /\ s <= h.at /\ h.at <= e
           /\ (\E h \in happened : h.what = "panic" /\ s <= h.at /\ h.at <= e) => PanicIn(s, e) # Unknown
<1> DEFINE inside == {p \in panics : s <= p /\ p <= e}
<1>1. PanicIn(s, e) = IF inside = {} THEN Unknown ELSE Max(inside)
  BY DEF PanicIn
<1>2. inside \in SUBSET Nat /\ \A p \in inside : p <= minute /\ p # 0
  <2>1. \A p \in panics : p \in 1 .. minute
    BY DEF TracesTell
  <2>2. \A p \in panics : p \in Nat /\ p <= minute /\ p # 0
    BY <2>1 DEF TracesTell
  <2>3. QED
    BY <2>2
<1>3. inside # {} => Max(inside) \in inside
  <2> HIDE DEF inside
  <2> SUFFICES ASSUME inside # {} PROVE Max(inside) \in inside
    OBVIOUS
  <2>1. \E x \in inside : \A y \in inside : x >= y
    BY <1>2, LastOfTimes DEF TracesTell
  <2>2. QED
    BY <2>1 DEF Max
<1>4. inside # {} => \E h \in happened : h.what = "panic" /\ s <= h.at /\ h.at <= e
  BY DEF TracesTell
<1>5. (\E h \in happened : h.what = "panic" /\ s <= h.at /\ h.at <= e) => inside # {}
  BY DEF TracesTell
<1>6. QED
  <2> HIDE DEF inside
  <2> QED
    BY <1>1, <1>2, <1>3, <1>4, <1>5 DEF Unknown

\* What is judged for certain of a gap, from the records as far as they were read.
LEMMA JudgedTruly ==
    ASSUME AutopsyInv, gap # NoGap, NEW unread \in SUBSET {"shutdown", "panic", "power"}
    PROVE  LET windows == SleepWindows(Lines(unread))
               ev == Evidence(gap, unread)
               inWindow == Covering(windows, gap.start, gap.end) # NoWindow
               verdict == Classify(ev, inWindow, gap.start)
           IN  verdict.confidence = "certain" /\ (verdict.cause = "sleep" \/ ~ClockSet)
                  => TrueOf(verdict.cause, Span(gap), ev)
<1> DEFINE windows == SleepWindows(Lines(unread))
           ev == Evidence(gap, unread)
           inWindow == Covering(windows, gap.start, gap.end) # NoWindow
           verdict == Classify(ev, inWindow, gap.start)
           span == Span(gap)
<1> SUFFICES ASSUME verdict.confidence = "certain", verdict.cause = "sleep" \/ ~ClockSet
             PROVE  TrueOf(verdict.cause, span, ev)
  OBVIOUS
<1>1. /\ gap.start \in Nat /\ gap.end = minute /\ minute \in Nat /\ gap.start + 2 <= gap.end
      /\ FirstMinute <= gap.start /\ span.start = gap.start /\ span.end = gap.end
      /\ gap.source \in {"tick", "boot"}
  BY DEF AutopsyInv, GapTells, TracesTell, Left, Span, ShortestGap
<1>2. /\ ev.before = gap.prev.epoch /\ ev.bootNow = proc.epoch /\ ev.same = (gap.source = "tick")
      /\ ev.mode = gap.prev.mode /\ ev.panicRead = ("panic" \notin unread)
      /\ ev.clean = IF "shutdown" \in unread THEN Unknown ELSE cleanAt
      /\ ev.panicAt = IF "panic" \in unread THEN Unknown ELSE PanicIn(gap.start, gap.end)
  BY DEF Evidence
<1>3. /\ Left(gap.prev.epoch, gap.prev.mode, gap.start) /\ machine # "off"
      /\ gap.source = "tick" => gap.prev.epoch = proc.epoch
      /\ ClockSet \/ proc.epoch \in {Unknown, boot}
  BY DEF AutopsyInv, GapTells, ProcessTells
<1>4. /\ PanicIn(gap.start, gap.end) # Unknown => PanicInside(span)
      /\ PanicInside(span) => PanicIn(gap.start, gap.end) # Unknown
  BY <1>1, PanicFound DEF AutopsyInv, PanicInside
<1> HIDE DEF ev, span
<1>5. /\ ev.bootNow # Unknown
      /\ \/ /\ verdict.cause = "sleep" /\ ~BootChanged(ev.before, ev.bootNow) /\ ev.same /\ inWindow
         \/ /\ verdict.cause = "restart-intended" /\ ~BootChanged(ev.before, ev.bootNow)
            /\ ~ev.same /\ ev.mode = "stopping"
         \/ verdict.cause = "panic" /\ BootChanged(ev.before, ev.bootNow) /\ ev.panicAt # Unknown
         \/ /\ verdict.cause = "reboot-clean" /\ ev.clean # Unknown
            /\ ev.clean >= gap.start - CleanBefore /\ ev.clean <= ev.bootNow + CleanAfter
         \/ /\ verdict.cause = "power-cut" /\ BootChanged(ev.before, ev.bootNow)
            /\ ev.panicAt = Unknown /\ ev.clean # Unknown
            /\ ~ (ev.clean >= gap.start - CleanBefore /\ ev.clean <= ev.bootNow + CleanAfter)
  <2>1. inWindow \in BOOLEAN
    OBVIOUS
  <2> HIDE DEF inWindow
  <2>2. QED
    BY <2>1, CertainVerdict
<1> HIDE DEF verdict
<1>6. CASE verdict.cause = "sleep"
  <2>1. inWindow
    BY <1>5, <1>6
  <2>2. Lines(unread) = log
    <3>1. SleepWindows({}) = {} /\ Covering({}, gap.start, gap.end) = NoWindow
      BY DEF SleepWindows, Covering
    <3>2. QED
      BY <2>1, <3>1 DEF Lines
  <2>3. PICK w \in SleepWindows(log) : Covers(w, gap.start, gap.end)
    BY <2>1, <2>2 DEF Covering
  <2>4. PICK l \in log : l.kind = "Wake" /\ l.at = w.end
    BY <2>3, WindowTimes DEF AutopsyInv, LogTells
  <2>5. PICK h \in happened : h.what = "sleep" /\ h.at = l.at
    BY <2>4 DEF AutopsyInv, LogTells
  <2>6. l.at \in Nat /\ l.at <= minute
    BY DEF AutopsyInv, LogTells, WellNoted
  <2>7. span.start - CleanBefore <= h.at /\ h.at <= span.end
    BY <1>1, <2>3, <2>4, <2>5, <2>6 DEF Covers, CoverTolerance, CleanBefore
  <2>8. Within(span, {"sleep"})
    BY <2>5, <2>7 DEF Within
  <2>9. QED
    BY <1>6, <2>8 DEF TrueOf, ReallyWas
<1>7. CASE verdict.cause = "restart-intended"
  <2>1. /\ ~ClockSet /\ gap.source = "boot" /\ gap.prev.mode = "stopping" /\ gap.prev.epoch = boot
        /\ boot \in Nat
    BY <1>1, <1>2, <1>3, <1>5, <1>7 DEF BootChanged, AutopsyInv, GapTells, TracesTell
  <2>2. boot <= gap.start
    BY <1>3, <2>1 DEF Left
  <2>3. PICK h \in happened : h.what = "stop" /\ h.at = gap.start
    BY <1>1, <1>3, <2>1, <2>2 DEF Left
  <2>4. Within(span, {"stop"})
    BY <1>1, <2>3 DEF Within, CleanBefore
  <2>5. ASSUME NEW k \in happened, k.what \in OffKinds PROVE k.at < span.start
    <3>1. k.at < boot /\ k.at \in Nat
      BY <1>3, <2>1, <2>5 DEF AutopsyInv, BootTells, TracesTell
    <3>2. QED
      BY <1>1, <2>1, <2>2, <3>1
  <2>6. StayedOn(span)
    BY <2>5 DEF StayedOn, OffKinds
  <2>7. QED
    BY <1>7, <2>4, <2>6 DEF TrueOf, ReallyWas
<1>8. CASE verdict.cause = "panic"
  <2>1. PICK h \in happened : h.what = "panic" /\ span.start <= h.at /\ h.at <= span.end
    BY <1>2, <1>4, <1>5, <1>8 DEF PanicInside
  <2>2. h.at \in Nat
    BY DEF AutopsyInv, TracesTell
  <2>3. Within(span, {"panic"})
    BY <1>1, <2>1, <2>2 DEF Within, CleanBefore
  <2>4. QED
    BY <1>8, <2>3 DEF TrueOf, ReallyWas
<1>9. CASE verdict.cause = "reboot-clean"
  <2>1. ev.clean = cleanAt /\ cleanAt \in Nat /\ cleanAt <= minute /\ gap.start - 2 <= cleanAt
    BY <1>1, <1>2, <1>5, <1>9 DEF AutopsyInv, TracesTell, CleanBefore
  <2>2. cleanAt # FirstClean
    BY <1>1, <2>1 DEF FirstMinute, FirstClean
  <2>3. PICK h \in happened : h.what = "shutdown" /\ h.at = cleanAt
    BY <2>2 DEF AutopsyInv, TracesTell
  <2>4. Within(span, {"shutdown"})
    BY <1>1, <2>1, <2>3 DEF Within, CleanBefore
  <2>5. QED
    BY <1>9, <2>4 DEF TrueOf, ReallyWas
<1>10. CASE verdict.cause = "power-cut"
  <2>1. /\ ~ClockSet /\ gap.prev.epoch \notin {Unknown, boot} /\ proc.epoch = boot
        /\ ev.clean = cleanAt /\ ev.bootNow = boot
    BY <1>2, <1>3, <1>5, <1>10 DEF BootChanged
  <2>2. PICK h \in happened : h.what \in OffKinds /\ gap.start <= h.at
    BY <1>3, <2>1 DEF Left
  <2>3. h.at \in Nat /\ h.at <= minute /\ cleanAt \in Nat /\ boot \in Nat
    BY DEF AutopsyInv, TracesTell
  <2>4. \A k \in happened : k.what = "shutdown" => k.at < boot /\ k.at <= cleanAt
    BY <1>3, <2>1 DEF AutopsyInv, BootTells, TracesTell, OffKinds
  <2>5. h.what # "shutdown"
    <3> SUFFICES ASSUME h.what = "shutdown" PROVE FALSE
      OBVIOUS
    <3>1. gap.start <= cleanAt
      BY <1>1, <2>2, <2>3, <2>4
    <3>2. cleanAt # FirstClean
      BY <1>1, <3>1 DEF FirstMinute, FirstClean
    <3>3. cleanAt < boot
      BY <2>4, <3>2 DEF AutopsyInv, TracesTell
    <3>4. QED
      BY <1>1, <1>5, <1>10, <2>1, <2>3, <3>1, <3>3 DEF CleanBefore, CleanAfter
  <2>6. CASE h.what = "panic"
    <3>1. PanicInside(span)
      BY <1>1, <2>2, <2>3, <2>6 DEF PanicInside
    <3>2. ~ev.panicRead /\ ev.panicAt = Unknown
      BY <1>2, <1>4, <1>5, <1>10, <3>1
    <3>3. QED
      BY <1>10, <3>1, <3>2 DEF TrueOf
  <2>7. CASE h.what = "off"
    <3>1. Within(span, {"off"})
      BY <1>1, <2>2, <2>3, <2>7 DEF Within, CleanBefore
    <3>2. QED
      BY <1>10, <3>1 DEF TrueOf, ReallyWas
  <2>8. QED
    BY <2>2, <2>5, <2>6, <2>7 DEF OffKinds
<1>11. QED
  BY <1>5, <1>6, <1>7, <1>8, <1>9, <1>10

\* What of two sets of facts mergeEvidence keeps.
LEMMA MergedFacts ==
    ASSUME NEW old, NEW ev,
           ev = [before |-> ev.before, bootNow |-> ev.bootNow, changed |-> ev.changed, fallback |-> ev.fallback,
                 same |-> ev.same, mode |-> ev.mode, clean |-> ev.clean, panicAt |-> ev.panicAt,
                 panicRead |-> ev.panicRead, powerRead |-> ev.powerRead, lines |-> ev.lines,
                 dark |-> ev.dark, battery |-> ev.battery, fails |-> ev.fails, suspect |-> ev.suspect]
    PROVE  LET merged == MergeEvidence(old, ev)
           IN  /\ merged.panicAt = IF ev.panicAt # Unknown THEN ev.panicAt ELSE old.panicAt
               /\ merged.panicRead = (ev.panicRead \/ old.panicRead)
               /\ ev.powerRead => merged.lines = ev.lines
BY DEF MergeEvidence

\* What was told of an event stays true: only what happens can be added, and
\* nothing happens in the past.
LEMMA EventKeeps ==
    ASSUME AutopsyInv, event' = event, minute' \in Nat, minute <= minute',
           happened \subseteq happened', \A h \in happened' \ happened : h.at \in Nat /\ minute <= h.at,
           log \subseteq log', IsFiniteSet(log')
    PROVE  EventTells' /\ SleepIsShown'
<1>1. CASE event = NoEvent
  BY <1>1 DEF EventTells, SleepIsShown
<1>2. CASE event # NoEvent
  <2>1. minute \in Nat /\ EventTells /\ SleepIsShown
    BY DEF AutopsyInv, TracesTell
  <2>2. ClockSet => ClockSet'
    BY DEF ClockSet
  <2>3. \A span, kinds : Within(span, kinds) => Within(span, kinds)'
    BY DEF Within
  <2>4. \A span : span.end \in Nat /\ span.end <= minute /\ StayedOn(span) => StayedOn(span)'
    BY <2>1 DEF StayedOn
  <2>5. \A span : PanicInside(span) => PanicInside(span)'
    BY DEF PanicInside
  <2>6. \A cause, span, ev : span.end \in Nat /\ span.end <= minute /\ TrueOf(cause, span, ev)
                             => TrueOf(cause, span, ev)'
    BY <2>3, <2>4, <2>5 DEF TrueOf, ReallyWas
  <2>7. \A span \in event.gaps : span.end \in Nat /\ span.end <= minute
    BY <1>2, <2>1 DEF EventTells
  <2>8. event.end <= minute'
    BY <1>2, <2>1 DEF EventTells
  <2>9. EventTells'
    <3>1. ASSUME (event.verdicts = {Certain(event.cause)} /\ (event.cause = "sleep" \/ ~ClockSet))',
                 NEW span \in event'.gaps
          PROVE  (TrueOf(event.cause, span, event.ev) \/ (Joined(event) /\ PanicInside(span)))'
      <4>1. PICK e : e = event
        OBVIOUS
      <4>2. TrueOf(e.cause, span, e.ev) \/ (Joined(e) /\ PanicInside(span))
        BY <1>2, <2>1, <2>2, <3>1, <4>1 DEF EventTells
      <4>3. TrueOf(e.cause, span, e.ev)' \/ (Joined(e) /\ PanicInside(span)')
        BY <2>5, <2>6, <2>7, <4>1, <4>2
      <4>4. QED
        BY <4>1, <4>3 DEF TrueOf, ReallyWas, Within, StayedOn, PanicInside
    <3>2. (event.verdicts = {Certain(event.cause)} /\ (event.cause = "sleep" \/ ~ClockSet) =>
             \A span \in event.gaps :
                TrueOf(event.cause, span, event.ev) \/ (Joined(event) /\ PanicInside(span)))'
      BY <3>1
    <3>3. QED
      BY <1>2, <2>1, <2>8, <3>2 DEF EventTells
  <2>10. Crowded(event) => Crowded(event)'
    <3> DEFINE crowd == {l \in log : l.at <= event.seen.start /\ \E span \in event.gaps : span.start <= l.at}
               crowdAfter == {l \in log' : /\ l.at <= event.seen.start
                                            /\ \E span \in event.gaps : span.start <= l.at}
    <3>1. crowd \in SUBSET crowdAfter /\ crowdAfter \in SUBSET log'
      OBVIOUS
    <3>2. IsFiniteSet(crowdAfter)
      BY <3>1, FS_Subset
    <3>3. Cardinality(crowd) <= Cardinality(crowdAfter) /\ Cardinality(crowd) \in Nat
          /\ Cardinality(crowdAfter) \in Nat
      <4> HIDE DEF crowd, crowdAfter
      <4> QED
        BY <3>1, <3>2, FS_Subset, FS_CardinalityType
    <3>4. QED
      BY <3>3 DEF Crowded, FreezeHead
  <2>11. SleepIsShown'
    BY <1>2, <2>1, <2>10 DEF SleepIsShown
  <2>12. QED
    BY <2>9, <2>11
<1>3. QED
  BY <1>1, <1>2

\* The sample that goes with an event that begins at the time from rebuilds the
\* window that was seen of it.
LEMMA SampleKeeps ==
    ASSUME AutopsyInv, gap # NoGap, NEW windows, NEW from \in Nat, from - JoinWindow <= gap.start,
           event'.start = from, event'.end = gap.end, event'.seen = Covering(windows, from, gap.end),
           windows = {} \/ (windows = SleepWindows(log) /\ event'.ev.lines = Freeze(log, gap.start, gap.end)),
           Span(gap) \in event'.gaps, from = gap.start \/ Joined(event'), log' = log
    PROVE  SleepIsShown'
<1>1. /\ gap.start \in Nat /\ gap.end = minute /\ minute \in Nat /\ gap.start + ShortestGap <= gap.end
      /\ Span(gap).start = gap.start
  BY DEF AutopsyInv, GapTells, TracesTell, Left, Span
<1>2. WellNoted(log) /\ \A l \in log : l.at <= minute
  BY DEF AutopsyInv, LogTells
<1> DEFINE seen == Covering(SleepWindows(log), from, gap.end)
           crowd == {l \in log : gap.start <= l.at /\ l.at <= seen.start}
           crowded == {l \in log : l.at <= seen.start /\ \E span \in event'.gaps : span.start <= l.at}
<1>3. CASE event'.seen = NoWindow
  BY <1>3 DEF SleepIsShown
<1>4. CASE event'.seen # NoWindow
  <2>1. /\ windows = SleepWindows(log) /\ event'.seen = seen /\ seen # NoWindow
        /\ event'.ev.lines = Freeze(log, gap.start, gap.end)
    <3>1. Covering({}, from, gap.end) = NoWindow
      BY DEF Covering
    <3>2. QED
      BY <1>4, <3>1
  <2>2. seen.start \in Nat
    <3>1. seen \in SleepWindows(log)
      BY <1>1, <1>2, <2>1, PicksFirst
    <3>2. QED
      BY <1>2, <3>1, WindowTimes
  <2>3. Crowded(event)' <=> Cardinality(crowded) > FreezeHead
    BY <2>1 DEF Crowded
  <2>4. Late(event)' <=> Joined(event') /\ seen.start + FreezeMargin < gap.end
    BY <2>1 DEF Late
  <2> SUFFICES ASSUME from - 1 <= seen.start, ~ (Cardinality(crowded) > FreezeHead),
                      from = gap.start \/ gap.end <= seen.start + FreezeMargin
               PROVE  Window(event') = seen
    <3> HIDE DEF seen, crowded
    <3>1. from - 1 <= seen.start \/ seen.start < from - 1
      BY <2>2
    <3>2. gap.end <= seen.start + FreezeMargin \/ seen.start + FreezeMargin < gap.end
      BY <1>1, <2>2 DEF FreezeMargin
    <3>3. QED
      BY <2>1, <2>3, <2>4, <3>1, <3>2 DEF SleepIsShown
  <2>5. Cardinality(crowd) <= FreezeHead
    <3>1. crowd \in SUBSET crowded /\ crowded \in SUBSET log
      BY <1>1
    <3>2. IsFiniteSet(log)
      BY <1>2 DEF WellNoted
    <3> HIDE DEF crowd, crowded
    <3>3. IsFiniteSet(crowded) /\ IsFiniteSet(crowd) /\ Cardinality(crowd) <= Cardinality(crowded)
      BY <3>1, <3>2, FS_Subset
    <3>4. Cardinality(crowd) \in Nat /\ Cardinality(crowded) \in Nat
      BY <3>3, FS_CardinalityType
    <3>5. QED
      BY <3>3, <3>4 DEF FreezeHead
  <2>6. gap.end \in Nat /\ \A l \in log : l.at <= gap.end
    BY <1>1, <1>2
  <2>7. Covering(SleepWindows(Freeze(log, gap.start, gap.end)), from, gap.end) = seen
    BY <1>1, <1>2, <2>1, <2>5, <2>6, SampleShows
  <2>8. QED
    BY <2>1, <2>7 DEF Window
<1>5. QED
  BY <1>3, <1>4

\* recordDowntimeEvent keeps what is told of an event true, and the sleep shown.
LEMMA RecordedTruly ==
    ASSUME AutopsyInv, gap # NoGap, NEW verdict, NEW ev, NEW windows,
           ev = [before |-> ev.before, bootNow |-> ev.bootNow, changed |-> ev.changed, fallback |-> ev.fallback,
                 same |-> ev.same, mode |-> ev.mode, clean |-> ev.clean, panicAt |-> ev.panicAt,
                 panicRead |-> ev.panicRead, powerRead |-> ev.powerRead, lines |-> ev.lines,
                 dark |-> ev.dark, battery |-> ev.battery, fails |-> ev.fails, suspect |-> ev.suspect],
           windows = {} \/ /\ windows = SleepWindows(log) /\ ev.powerRead
                           /\ ev.lines = Freeze(log, gap.start, gap.end),
           verdict.confidence = "certain" /\ (verdict.cause = "sleep" \/ ~ClockSet)
              => TrueOf(verdict.cause, Span(gap), ev),
           RecordEvent(verdict, ev, windows)
    PROVE  EventTells' /\ SleepIsShown'
<1>1. /\ gap.start \in Nat /\ gap.end = minute /\ minute \in Nat /\ gap.start + ShortestGap <= gap.end
      /\ Span(gap).start = gap.start /\ Span(gap).end = gap.end
  BY DEF AutopsyInv, GapTells, TracesTell, Left, Span
<1>2. minute' = minute /\ happened' = happened /\ log' = log
  BY DEF RecordEvent, mac
<1>3. WellNoted(log) /\ \A l \in log : l.at <= minute
  BY DEF AutopsyInv, LogTells
<1>4. \A s, e : Covering({}, s, e) = NoWindow
  BY DEF Covering
<1>5. CASE ~Joins(gap, verdict.cause, windows)
  <2>1. event' = FreshEvent(gap, verdict, ev, windows)
    BY <1>5 DEF RecordEvent
  <2>2. /\ event' = [start |-> event'.start, end |-> event'.end, cause |-> event'.cause,
                     confidence |-> event'.confidence, exact |-> event'.exact, ev |-> event'.ev,
                     seen |-> event'.seen, verdicts |-> event'.verdicts, gaps |-> event'.gaps]
        /\ event'.start = gap.start /\ event'.end = gap.end /\ event'.cause = verdict.cause
        /\ event'.ev = ev /\ event'.seen = Covering(windows, gap.start, gap.end)
        /\ event'.verdicts = {Said(verdict)} /\ event'.gaps = {Span(gap)}
    BY <2>1 DEF FreshEvent
  <2>3. EventTells'
    <3>1. event'.verdicts = {Certain(event'.cause)} => verdict.confidence = "certain"
      <4>1. Said(verdict) \in event'.verdicts /\ Said(verdict).confidence = verdict.confidence
        BY <2>2 DEF Said
      <4>2. Certain(event'.cause).confidence = "certain"
        BY DEF Certain
      <4>3. QED
        BY <4>1, <4>2
    <3>2. event'.verdicts = {Certain(event'.cause)} /\ (event'.cause = "sleep" \/ ~ClockSet) =>
             \A span \in event'.gaps : TrueOf(event'.cause, span, event'.ev)
      BY <2>2, <3>1
    <3>3. \E said \in event'.verdicts : said.cause = event'.cause
      BY <2>2 DEF Said
    <3>4. \A span \in event'.gaps :
            /\ span.start \in Nat /\ span.end \in Nat
            /\ event'.start - JoinWindow <= span.start /\ span.end <= event'.end
      BY <1>1, <2>2 DEF JoinWindow
    <3>5. \E span \in event'.gaps : span.start = event'.start
      BY <1>1, <2>2
    <3>6. event'.start \in Nat /\ event'.end \in Nat /\ event'.end <= minute'
      BY <1>1, <1>2, <2>2
    <3>7. \A cause, span, e : TrueOf(cause, span, e) => TrueOf(cause, span, e)'
      BY <1>2 DEF TrueOf, ReallyWas, Within, StayedOn, PanicInside
    <3>8. ClockSet' = ClockSet
      BY <1>2 DEF ClockSet
    <3>9. QED
      BY <2>2, <3>2, <3>3, <3>4, <3>5, <3>6, <3>7, <3>8 DEF EventTells
  <2>4. SleepIsShown'
    <3>1. gap.start - JoinWindow <= gap.start /\ Span(gap) \in event'.gaps
      BY <1>1, <2>2 DEF JoinWindow
    <3>2. windows = {} \/ (windows = SleepWindows(log) /\ event'.ev.lines = Freeze(log, gap.start, gap.end))
      BY <2>2
    <3>3. QED
      BY <1>1, <1>2, <2>2, <3>1, <3>2, SampleKeeps
  <2>5. QED
    BY <2>3, <2>4
<1>6. CASE Joins(gap, verdict.cause, windows)
  <2>1. event' = JoinedEvent(gap, verdict, ev, windows)
    BY <1>6 DEF RecordEvent
  <2>2. /\ EventTells /\ event # NoEvent /\ event.start - JoinWindow <= gap.start
        /\ event.start \in Nat /\ event.end \in Nat /\ event.end <= gap.end
    BY <1>1, <1>6 DEF Joins, AutopsyInv, EventTells
  <2>3. Max({event.end, gap.end}) = gap.end
    BY <1>1, <2>2, MaxOfTwo
  <2> DEFINE merged == MergeEvidence(event.ev, ev)
  <2>4. /\ event' = [start |-> event'.start, end |-> event'.end, cause |-> event'.cause,
                     confidence |-> event'.confidence, exact |-> event'.exact, ev |-> event'.ev,
                     seen |-> event'.seen, verdicts |-> event'.verdicts, gaps |-> event'.gaps]
        /\ event'.start = event.start /\ event'.end = gap.end /\ event'.cause = verdict.cause
        /\ event'.ev = merged /\ event'.seen = Covering(windows, event.start, gap.end)
        /\ event'.verdicts = event.verdicts \cup {Said(verdict)}
        /\ event'.gaps = event.gaps \cup {Span(gap)}
    BY <2>1, <2>3 DEF JoinedEvent
  <2>5. /\ merged.panicAt = IF ev.panicAt # Unknown THEN ev.panicAt ELSE event.ev.panicAt
        /\ merged.panicRead = (ev.panicRead \/ event.ev.panicRead)
        /\ ev.powerRead => merged.lines = ev.lines
    BY MergedFacts
  <2> HIDE DEF merged
  <2>6. PICK first \in event.gaps : first.start = event.start
    BY <2>2 DEF EventTells
  <2>7. Joined(event') \/ event.gaps = {Span(gap)}
    <3> SUFFICES ASSUME event.gaps # {Span(gap)} PROVE Joined(event')
      OBVIOUS
    <3>1. PICK span \in event.gaps : span # Span(gap)
      BY <2>6
    <3>2. QED
      BY <2>4, <3>1 DEF Joined
  <2>8. EventTells'
    <3>1. ASSUME event'.verdicts = {Certain(event'.cause)}, event'.cause = "sleep" \/ ~ClockSet,
                 NEW span \in event'.gaps
          PROVE  TrueOf(verdict.cause, span, merged) \/ (Joined(event') /\ PanicInside(span))
      <4>1. event.cause = verdict.cause /\ event.verdicts = {Certain(event.cause)}
            /\ verdict.confidence = "certain"
        <5>1. PICK said \in event.verdicts : said.cause = event.cause
          BY <2>2 DEF EventTells
        <5>2. said = Certain(verdict.cause) /\ Said(verdict) = Certain(verdict.cause)
              /\ \A other \in event.verdicts : other = Certain(verdict.cause)
          BY <2>4, <3>1
        <5>3. said.cause = verdict.cause /\ Said(verdict).confidence = "certain"
          BY <5>2 DEF Certain
        <5>4. Said(verdict).confidence = verdict.confidence
          BY DEF Said
        <5>5. QED
          BY <5>1, <5>2, <5>3, <5>4
      <4>2. TrueOf(verdict.cause, Span(gap), ev)
        BY <2>4, <3>1, <4>1
      <4>3. \A other \in event.gaps :
               TrueOf(verdict.cause, other, event.ev) \/ (Joined(event) /\ PanicInside(other))
        BY <2>2, <2>4, <3>1, <4>1 DEF EventTells
      <4>4. CASE Joined(event')
        BY <2>4, <4>2, <4>3, <4>4 DEF TrueOf
      <4>5. CASE event.gaps = {Span(gap)}
        <5>1. ~Joined(event) /\ span = Span(gap)
          BY <2>4, <4>5 DEF Joined
        <5>2. TrueOf(verdict.cause, span, ev) /\ TrueOf(verdict.cause, span, event.ev)
          BY <4>2, <4>3, <4>5, <5>1
        <5>3. QED
          BY <2>5, <5>2 DEF TrueOf
      <4>6. QED
        BY <2>7, <4>4, <4>5
    <3>2. \A span \in event'.gaps :
            /\ span.start \in Nat /\ span.end \in Nat
            /\ event'.start - JoinWindow <= span.start /\ span.end <= event'.end
      <4>1. \A span \in event.gaps :
              /\ span.start \in Nat /\ span.end \in Nat
              /\ event.start - JoinWindow <= span.start /\ span.end <= event.end
        BY <2>2 DEF EventTells
      <4>2. QED
        BY <1>1, <2>2, <2>4, <4>1
    <3>3. (\E span \in event'.gaps : span.start = event'.start)
          /\ (\E said \in event'.verdicts : said.cause = event'.cause)
      <4>1. first \in event'.gaps /\ first.start = event'.start
        BY <2>4, <2>6
      <4>2. Said(verdict) \in event'.verdicts /\ Said(verdict).cause = event'.cause
        BY <2>4 DEF Said
      <4>3. QED
        BY <4>1, <4>2
    <3>4. event'.start \in Nat /\ event'.end \in Nat /\ event'.end <= minute'
      BY <1>1, <1>2, <2>2, <2>4
    <3>5. \A cause, span, e : TrueOf(cause, span, e) => TrueOf(cause, span, e)'
      BY <1>2 DEF TrueOf, ReallyWas, Within, StayedOn, PanicInside
    <3>6. ClockSet' = ClockSet /\ \A span : PanicInside(span)' = PanicInside(span)
      BY <1>2 DEF ClockSet, PanicInside
    <3>7. QED
      BY <2>4, <3>1, <3>2, <3>3, <3>4, <3>5, <3>6 DEF EventTells
  <2>9. SleepIsShown'
    <3>1. Span(gap) \in event'.gaps
      BY <2>4
    <3>2. windows = {} \/ (windows = SleepWindows(log) /\ event'.ev.lines = Freeze(log, gap.start, gap.end))
      BY <2>4, <2>5
    <3>3. event.start = gap.start \/ Joined(event')
      BY <1>1, <2>6, <2>7
    <3>4. QED
      BY <1>2, <2>2, <2>4, <3>1, <3>2, <3>3, SampleKeeps
  <2>10. QED
    BY <2>8, <2>9
<1>7. QED
  BY <1>5, <1>6

-----------------------------------------------------------------------------
(* Steps *)

\* What a process left stays what it left, unless the machine goes on again.
LEMMA LeftKeeps ==
    ASSUME NEW epoch, NEW mode, NEW t, Left(epoch, mode, t), minute \in Nat, minute' \in Nat, minute <= minute',
           happened \subseteq happened', machine = "off" => machine' = "off", boot' = boot \/ ClockSet'
    PROVE  Left(epoch, mode, t)'
<1>1. ClockSet => ClockSet'
  BY DEF ClockSet
<1>2. t \in Nat /\ t <= minute'
  BY DEF Left
<1>3. (\E h \in happened : h.what \in OffKinds /\ t <= h.at)
         => \E h \in happened' : h.what \in OffKinds /\ t <= h.at
  OBVIOUS
<1>4. (\E h \in happened : h.what = "stop" /\ h.at = t) => \E h \in happened' : h.what = "stop" /\ h.at = t
  OBVIOUS
<1>5. QED
  BY <1>1, <1>2, <1>3, <1>4 DEF Left

LEMMA MinuteKeeps ==
    ASSUME AutopsyInv, Minute
    PROVE  AutopsyInv'
<1> USE DEF Unknown
<1>1. /\ minute \in Nat /\ minute >= FirstMinute /\ minute' = minute + 1 /\ gap = NoGap
      /\ machine' = machine /\ boot' = boot /\ log' = log /\ cleanAt' = cleanAt /\ panics' = panics
      /\ event' = event
  BY DEF AutopsyInv, TracesTell, Minute, Free
<1>2. /\ happened \subseteq happened'
      /\ \A h \in happened' \ happened : h.what = "sleep" /\ h.at = minute'
      /\ machine \in {"asleep", "dark"} => \E h \in happened' : h.what = "sleep" /\ h.at = minute'
  <2> DEFINE slept == [what |-> "sleep", at |-> minute']
  <2>1. /\ machine \in {"asleep", "dark"} => happened' = happened \cup {slept}
        /\ machine \notin {"asleep", "dark"} => happened' = happened
    BY <1>1 DEF Minute
  <2>2. slept.what = "sleep" /\ slept.at = minute'
    OBVIOUS
  <2> HIDE DEF slept
  <2>3. QED
    BY <2>1, <2>2
<1>3. TracesTell'
  <2>1. TracesTell
    BY DEF AutopsyInv
  <2>2. minute' \in Nat /\ minute' >= FirstMinute /\ boot' \in Nat /\ 0 < boot' /\ boot' <= minute'
    BY <1>1, <2>1 DEF TracesTell, FirstMinute
  <2>3. \A h \in happened' : h.at \in Nat /\ h.at <= minute'
    BY <1>1, <1>2, <2>1, <2>2 DEF TracesTell
  <2>4. cleanAt' \in Nat /\ cleanAt' <= minute' /\ panics' \in SUBSET (1 .. minute')
    BY <1>1, <2>1 DEF TracesTell
  <2>5. \A h \in happened' : h.what # "sleep" => h \in happened
    BY <1>2
  <2>6. /\ cleanAt' = FirstClean \/ \E h \in happened' : h.what = "shutdown" /\ h.at = cleanAt'
        /\ \A h \in happened' : h.what = "shutdown" => h.at <= cleanAt'
        /\ \A p \in panics' : \E h \in happened' : h.what = "panic" /\ h.at = p
        /\ \A h \in happened' : h.what = "panic" => h.at \in panics'
    BY <1>1, <1>2, <2>1, <2>5 DEF TracesTell
  <2>7. QED
    BY <1>1, <2>1, <2>2, <2>3, <2>4, <2>6 DEF TracesTell
<1>4. LogTells'
  <2>1. LogTells /\ \A l \in log : l.at \in Nat
    BY DEF AutopsyInv, LogTells, WellNoted
  <2>2. \A l \in log' : l.at <= minute'
    BY <1>1, <2>1 DEF LogTells
  <2>3. QED
    BY <1>1, <1>2, <2>1, <2>2 DEF LogTells, WellNoted
<1>5. BootTells'
  <2>1. ClockSet => ClockSet'
    BY <1>2 DEF ClockSet
  <2>2. QED
    BY <1>1, <1>2, <2>1 DEF AutopsyInv, BootTells, OffKinds
<1>6. ASSUME NEW epoch, NEW mode, NEW t, Left(epoch, mode, t) PROVE Left(epoch, mode, t)'
  BY <1>1, <1>2, <1>6, LeftKeeps
<1>7. ProcessTells' /\ GapTells'
  <2>1. CASE UNCHANGED <<proc, record, gap>>
    <3>1. GapTells'
      BY <1>1, <2>1 DEF GapTells
    <3>2. ClockSet => ClockSet'
      BY <1>2 DEF ClockSet
    <3>3. ProcessTells
      BY DEF AutopsyInv
    <3>4. ProcessTells'
      BY <1>1, <1>2, <1>6, <2>1, <3>2, <3>3 DEF ProcessTells
    <3>5. QED
      BY <3>1, <3>4
  <2>2. ASSUME proc.runs, NEW written \in BOOLEAN, Tick(minute + 1, written)
        PROVE  ProcessTells' /\ GapTells'
    <3>1. /\ proc.epoch \in Nat /\ proc.tick \in FirstMinute .. minute /\ machine # "off"
          /\ ClockSet \/ proc.epoch \in {Unknown, boot}
          /\ proc.epoch <= proc.tick \/ ClockSet
          /\ proc = [runs |-> TRUE, epoch |-> proc.epoch, fallback |-> proc.fallback,
                     tick |-> proc.tick, uptime |-> proc.uptime, fails |-> proc.fails]
      BY <2>2 DEF AutopsyInv, ProcessTells, NoProc
    <3>2. /\ proc' = [runs |-> TRUE, epoch |-> proc'.epoch, fallback |-> proc'.fallback,
                      tick |-> proc'.tick, uptime |-> proc'.uptime, fails |-> proc'.fails]
          /\ proc'.epoch = proc.epoch /\ proc'.tick = minute' /\ proc'.runs
      BY <1>1, <2>2, <3>1 DEF Tick
    <3>3. ClockSet => ClockSet'
      BY <1>2 DEF ClockSet
    <3>4. ASSUME NEW epoch \in Nat, NEW t \in FirstMinute .. minute', epoch <= t \/ ClockSet',
                 ClockSet' \/ epoch \in {Unknown, boot'}
          PROVE  Left(epoch, "alive", t)'
      BY <1>1, <3>4 DEF Left, FirstMinute
    <3>5. \A t : t \in {proc.tick, minute'} =>
             /\ t \in FirstMinute .. minute' /\ (proc.epoch <= t \/ ClockSet')
             /\ ClockSet' \/ proc.epoch \in {Unknown, boot'}
      BY <1>1, <3>1, <3>3 DEF FirstMinute
    <3>6. ProcessTells'
      <4>1. /\ proc'.epoch \in Nat /\ proc'.tick \in FirstMinute .. minute'
            /\ proc'.epoch <= proc'.tick \/ ClockSet'
            /\ machine' # "off" /\ (ClockSet' \/ proc'.epoch \in {Unknown, boot'})
        BY <1>1, <3>1, <3>2, <3>3 DEF FirstMinute
      <4>2. record' = NoBeacon \/
              /\ record' = [at |-> record'.at, epoch |-> record'.epoch, mode |-> record'.mode,
                            uptime |-> record'.uptime, fails |-> record'.fails]
              /\ Left(record.epoch, record.mode, record.at)'
        <5>1. CASE written
          <6>1. record' = Composed(proc, minute + 1, "alive")
            BY <2>2, <5>1 DEF Tick
          <6>2. /\ record' = [at |-> record'.at, epoch |-> record'.epoch, mode |-> record'.mode,
                              uptime |-> record'.uptime, fails |-> record'.fails]
                /\ record'.epoch = proc.epoch /\ record'.mode = "alive" /\ record'.at = minute'
            BY <1>1, <6>1 DEF Composed
          <6>3. Left(record.epoch, record.mode, record.at)'
            BY <3>1, <3>4, <3>5, <6>2 DEF Left
          <6>4. QED
            BY <6>2, <6>3
        <5>2. CASE ~written
          <6>1. record' = record
            BY <2>2, <5>2 DEF Tick
          <6>2. ProcessTells
            BY DEF AutopsyInv
          <6>3. QED
            BY <1>6, <6>1, <6>2 DEF ProcessTells
        <5>3. QED
          BY <5>1, <5>2
      <4>3. QED
        BY <3>2, <4>1, <4>2 DEF ProcessTells
    <3>7. GapTells'
      <4>1. CASE gap' = NoGap
        BY <4>1 DEF GapTells
      <4>2. CASE gap' # NoGap
        <5>1. gap' = [source |-> "tick", start |-> proc.tick, end |-> minute',
                      prev |-> Composed(proc, proc.tick, "alive"), fails |-> gap'.fails,
                      suspect |-> gap'.suspect]
              /\ ~ (minute' - proc.tick < ShortestGap)
          BY <1>1, <2>2, <4>2 DEF Tick
        <5>2. /\ gap' = [source |-> gap'.source, start |-> gap'.start, end |-> gap'.end, prev |-> gap'.prev,
                         fails |-> gap'.fails, suspect |-> gap'.suspect]
              /\ gap'.source = "tick" /\ gap'.start = proc.tick /\ gap'.end = minute'
              /\ gap'.prev = Composed(proc, proc.tick, "alive")
          BY <5>1
        <5>3. gap'.prev.epoch = proc.epoch /\ gap'.prev.mode = "alive"
          BY <5>2 DEF Composed
        <5>4. gap'.start + ShortestGap <= gap'.end
          BY <1>1, <3>1, <5>1, <5>2 DEF ShortestGap, FirstMinute
        <5>5. Left(gap.prev.epoch, gap.prev.mode, gap.start)'
          BY <3>1, <3>4, <3>5, <5>2, <5>3 DEF Left
        <5>6. QED
          BY <1>1, <3>1, <3>2, <5>2, <5>3, <5>4, <5>5 DEF GapTells
      <4>3. QED
        BY <4>1, <4>2
    <3>8. QED
      BY <3>6, <3>7
  <2>3. QED
    BY <2>1, <2>2 DEF Minute
<1>8. EventTells' /\ SleepIsShown'
  <2>1. minute' \in Nat /\ minute <= minute' /\ \A h \in happened' \ happened : h.at \in Nat /\ minute <= h.at
    BY <1>1, <1>2
  <2>2. IsFiniteSet(log') /\ log \subseteq log'
    BY <1>1 DEF AutopsyInv, LogTells, WellNoted
  <2>3. QED
    BY <1>1, <1>2, <2>1, <2>2, EventKeeps
<1>9. QED
  BY <1>3, <1>4, <1>5, <1>7, <1>8 DEF AutopsyInv

\* What a step that passes no time and leaves the boot alone must show.
LEMMA NotedKeeps ==
    ASSUME AutopsyInv, UNCHANGED <<minute, boot, event>>, machine = "off" => machine' = "off",
           happened \subseteq happened', \A h \in happened' \ happened : h.at = minute,
           log \subseteq log', IsFiniteSet(log')
    PROVE  /\ EventTells' /\ SleepIsShown'
           /\ ClockSet => ClockSet'
           /\ \A epoch, mode, t : Left(epoch, mode, t) => Left(epoch, mode, t)'
           /\ \A h \in happened' : h.at \in Nat /\ h.at <= minute
<1>1. minute \in Nat /\ minute' = minute /\ boot' = boot
  BY DEF AutopsyInv, TracesTell
<1>2. EventTells' /\ SleepIsShown'
  BY <1>1, EventKeeps
<1>3. ClockSet => ClockSet'
  BY DEF ClockSet
<1>4. ASSUME NEW epoch, NEW mode, NEW t, Left(epoch, mode, t) PROVE Left(epoch, mode, t)'
  BY <1>1, <1>4, LeftKeeps
<1>5. \A h \in happened' : h.at \in Nat /\ h.at <= minute
  BY <1>1 DEF AutopsyInv, TracesTell
<1>6. QED
  BY <1>2, <1>3, <1>4, <1>5

\* A line is added to the power log.
LEMMA LineKeeps ==
    ASSUME AutopsyInv, NEW line, line.at = minute, log' = log \cup {line}, \A l \in log : l.at < minute
    PROVE  WellNoted(log')
<1>1. WellNoted(log) /\ minute \in Nat
  BY DEF AutopsyInv, LogTells, TracesTell
<1>2. IsFiniteSet(log')
  BY <1>1, FS_AddElement DEF WellNoted
<1>3. \A l \in log' : l.at \in Nat
  BY <1>1 DEF WellNoted
<1>4. ASSUME NEW k \in log', NEW l \in log', k.at = l.at PROVE k = l
  <2>1. \A m \in log : m.at \in Nat /\ m.at # line.at
    BY <1>1 DEF WellNoted
  <2>2. QED
    BY <1>1, <1>4, <2>1 DEF WellNoted
<1>5. QED
  BY <1>2, <1>3, <1>4 DEF WellNoted

LEMMA GoesKeeps ==
    ASSUME AutopsyInv, NEW from \in SUBSET {"awake", "dark", "asleep"}, NEW to \in {"awake", "dark", "asleep"},
           NEW kind, NEW reason, kind = "Wake" => from \subseteq {"asleep", "dark"},
           Goes(from, to, kind, reason)
    PROVE  AutopsyInv'
<1> DEFINE line == Line(kind, reason)
<1>1. /\ minute' = minute /\ boot' = boot /\ cleanAt' = cleanAt /\ panics' = panics /\ proc' = proc
      /\ record' = record /\ gap' = NoGap /\ event' = event /\ happened' = happened
      /\ machine \in from /\ machine' = to /\ log' = log \cup {line} /\ \A l \in log : l.at < minute
  BY DEF Goes, Free
<1>2. line.at = minute /\ line.kind = kind
  BY DEF Line
<1> HIDE DEF line
<1>3. WellNoted(log') /\ log \subseteq log' /\ machine # "off" /\ machine' # "off"
  BY <1>1, <1>2, LineKeeps
<1>4. /\ EventTells' /\ SleepIsShown'
      /\ \A epoch, mode, t : Left(epoch, mode, t) => Left(epoch, mode, t)'
  <2>1. IsFiniteSet(log')
    BY <1>3 DEF WellNoted
  <2>2. happened \subseteq happened' /\ (\A h \in happened' \ happened : h.at = minute)
        /\ UNCHANGED <<minute, boot, event>> /\ (machine = "off" => machine' = "off")
    BY <1>1, <1>3
  <2>3. QED
    BY <1>3, <2>1, <2>2, NotedKeeps
<1>5. TracesTell'
  BY <1>1 DEF AutopsyInv, TracesTell
<1>6. LogTells'
  <2>1. \A l \in log' : l.at <= minute'
    <3>1. minute \in Nat /\ \A l \in log : l.at <= minute
      BY DEF AutopsyInv, LogTells, TracesTell
    <3>2. QED
      BY <1>1, <1>2, <3>1
  <2>2. ASSUME NEW l \in log', l.kind = "Wake" PROVE \E h \in happened' : h.what = "sleep" /\ h.at = l.at
    <3>1. CASE l \in log
      BY <1>1, <2>2, <3>1 DEF AutopsyInv, LogTells
    <3>2. CASE l = line
      <4>1. machine \in {"asleep", "dark"}
        BY <1>1, <1>2, <2>2, <3>2
      <4>2. QED
        BY <1>1, <1>2, <3>2, <4>1 DEF AutopsyInv, LogTells
    <3>3. QED
      BY <1>1, <3>1, <3>2
  <2>3. ~ (\A l \in log' : l.at < minute')
    <3>1. line \in log' /\ minute \in Nat /\ minute' = minute
      BY <1>1 DEF AutopsyInv, TracesTell
    <3>2. QED
      BY <1>2, <3>1
  <2>4. QED
    BY <1>3, <2>1, <2>2, <2>3 DEF LogTells
<1>7. BootTells'
  BY <1>1, <1>3 DEF AutopsyInv, BootTells, ClockSet
<1>8. ProcessTells' /\ GapTells'
  <2>1. ProcessTells
    BY DEF AutopsyInv
  <2>2. ClockSet' = ClockSet
    BY <1>1 DEF ClockSet
  <2>3. QED
    BY <1>1, <1>3, <1>4, <2>1, <2>2 DEF ProcessTells, GapTells
<1>9. QED
  BY <1>4, <1>5, <1>6, <1>7, <1>8 DEF AutopsyInv

LEMMA ClockKeeps ==
    ASSUME AutopsyInv, ClockJumps
    PROVE  AutopsyInv'
<1> DEFINE jump == [what |-> "jump", at |-> minute]
<1>1. /\ minute \in Nat /\ minute >= FirstMinute /\ boot \in Nat /\ 0 < boot /\ boot <= minute
      /\ machine = "awake" /\ machine' = "awake"
      /\ minute' = minute + 2 /\ boot' \in {boot, boot + 2} /\ happened' = happened \cup {jump}
      /\ log' = log /\ cleanAt' = cleanAt /\ panics' = panics /\ proc' = proc /\ record' = record
      /\ gap' = NoGap /\ event' = event
  BY DEF AutopsyInv, TracesTell, ClockJumps, Note, Free
<1>2. jump.what = "jump" /\ jump.at = minute
  OBVIOUS
<1> HIDE DEF jump
<1>3. /\ ClockSet' /\ minute' \in Nat /\ minute <= minute' /\ happened \subseteq happened'
      /\ \A h \in happened' \ happened : h.at \in Nat /\ minute <= h.at
  BY <1>1, <1>2 DEF ClockSet
<1>4. EventTells' /\ SleepIsShown'
  <2>1. IsFiniteSet(log') /\ log \subseteq log'
    BY <1>1 DEF AutopsyInv, LogTells, WellNoted
  <2>2. QED
    BY <1>1, <1>3, <2>1, EventKeeps
<1>5. ASSUME NEW epoch, NEW mode, NEW t, Left(epoch, mode, t) PROVE Left(epoch, mode, t)'
  BY <1>1, <1>3, <1>5, LeftKeeps
<1>6. TracesTell'
  <2>1. TracesTell
    BY DEF AutopsyInv
  <2>2. \A h \in happened' : h.at \in Nat /\ h.at <= minute'
    BY <1>1, <1>2, <2>1 DEF TracesTell
  <2>3. cleanAt' \in Nat /\ cleanAt' <= minute' /\ panics' \in SUBSET (1 .. minute')
    BY <1>1, <2>1 DEF TracesTell
  <2>4. minute' >= FirstMinute /\ boot' \in Nat /\ 0 < boot' /\ boot' <= minute'
    BY <1>1 DEF FirstMinute
  <2>5. \A h \in happened' : h.what # "jump" => h \in happened
    BY <1>1, <1>2
  <2>6. /\ cleanAt' = FirstClean \/ \E h \in happened' : h.what = "shutdown" /\ h.at = cleanAt'
        /\ \A h \in happened' : h.what = "shutdown" => h.at <= cleanAt'
        /\ \A p \in panics' : \E h \in happened' : h.what = "panic" /\ h.at = p
        /\ \A h \in happened' : h.what = "panic" => h.at \in panics'
    BY <1>1, <1>3, <2>1, <2>5 DEF TracesTell
  <2>7. QED
    BY <1>1, <1>3, <2>2, <2>3, <2>4, <2>6 DEF TracesTell
<1>7. LogTells'
  <2>1. LogTells /\ \A l \in log : l.at \in Nat
    BY DEF AutopsyInv, LogTells, WellNoted
  <2>2. \A l \in log' : l.at <= minute'
    BY <1>1, <2>1 DEF LogTells
  <2>3. QED
    BY <1>1, <1>3, <2>1, <2>2 DEF LogTells, WellNoted
<1>8. BootTells' /\ GapTells'
  BY <1>1, <1>3 DEF BootTells, GapTells
<1>9. ProcessTells'
  <2>1. ProcessTells
    BY DEF AutopsyInv
  <2>2. \A t : t \in FirstMinute .. minute => t \in FirstMinute .. minute'
    BY <1>1 DEF FirstMinute
  <2>3. QED
    BY <1>1, <1>3, <1>5, <2>1, <2>2 DEF ProcessTells
<1>10. QED
  BY <1>4, <1>6, <1>7, <1>8, <1>9 DEF AutopsyInv

LEMMA OffKeeps ==
    ASSUME AutopsyInv, NEW what \in OffKinds, GoesOff(what),
           cleanAt' = IF what = "shutdown" THEN minute ELSE cleanAt,
           panics' = IF what = "panic" THEN panics \cup {minute} ELSE panics,
           record' = record \/ (what = "shutdown" /\ proc.runs /\ record' = Composed(proc, minute, "stopping"))
    PROVE  AutopsyInv'
<1> DEFINE end == [what |-> what, at |-> minute]
<1>1. /\ minute \in Nat /\ minute >= FirstMinute /\ minute' = minute /\ boot' = boot /\ log' = log
      /\ machine' = "off" /\ proc' = NoProc /\ gap' = NoGap /\ event' = event
      /\ happened' = happened \cup {end}
  BY DEF AutopsyInv, TracesTell, GoesOff, Note, Free
<1>2. end.what = what /\ end.at = minute
  OBVIOUS
<1> HIDE DEF end
<1>3. end \in happened' /\ happened \subseteq happened' /\ \A h \in happened' \ happened : h = end
  BY <1>1
<1>4. /\ EventTells' /\ SleepIsShown'
      /\ \A epoch, mode, t : Left(epoch, mode, t) => Left(epoch, mode, t)'
      /\ \A h \in happened' : h.at \in Nat /\ h.at <= minute
      /\ ClockSet => ClockSet'
  <2>1. IsFiniteSet(log') /\ log \subseteq log'
    BY <1>1 DEF AutopsyInv, LogTells, WellNoted
  <2>2. (\A h \in happened' \ happened : h.at = minute) /\ UNCHANGED <<minute, boot, event>>
    BY <1>1, <1>2, <1>3
  <2>3. QED
    BY <1>1, <1>3, <2>1, <2>2, NotedKeeps
<1>5. TracesTell'
  <2>1. TracesTell
    BY DEF AutopsyInv
  <2>2. cleanAt' \in Nat /\ cleanAt' <= minute' /\ panics' \in SUBSET (1 .. minute')
    BY <1>1, <2>1 DEF TracesTell, FirstMinute
  <2>3. cleanAt' = FirstClean \/ \E h \in happened' : h.what = "shutdown" /\ h.at = cleanAt'
    BY <1>2, <1>3, <2>1 DEF TracesTell
  <2>4. \A h \in happened' : h.what = "shutdown" => h.at <= cleanAt'
    BY <1>1, <1>2, <1>3, <1>4, <2>1 DEF TracesTell
  <2>5. \A p \in panics' : \E h \in happened' : h.what = "panic" /\ h.at = p
    BY <1>2, <1>3, <2>1 DEF TracesTell
  <2>6. \A h \in happened' : h.what = "panic" => h.at \in panics'
    BY <1>2, <1>3, <2>1 DEF TracesTell
  <2>7. QED
    BY <1>1, <1>4, <2>1, <2>2, <2>3, <2>4, <2>5, <2>6 DEF TracesTell
<1>6. LogTells'
  BY <1>1, <1>2, <1>3 DEF AutopsyInv, LogTells
<1>7. BootTells' /\ GapTells'
  BY <1>1 DEF BootTells, GapTells
<1>8. ProcessTells'
  <2>1. ASSUME record' # NoBeacon
        PROVE  /\ record' = [at |-> record'.at, epoch |-> record'.epoch, mode |-> record'.mode,
                             uptime |-> record'.uptime, fails |-> record'.fails]
               /\ Left(record.epoch, record.mode, record.at)' /\ record'.at <= minute
    <3>1. CASE record' = record
      <4>1. Left(record.epoch, record.mode, record.at)
            /\ record = [at |-> record.at, epoch |-> record.epoch, mode |-> record.mode,
                         uptime |-> record.uptime, fails |-> record.fails]
        BY <2>1, <3>1 DEF AutopsyInv, ProcessTells
      <4>2. QED
        BY <1>4, <3>1, <4>1 DEF Left
    <3>2. CASE proc.runs /\ record' = Composed(proc, minute, "stopping")
      <4>1. /\ record' = [at |-> record'.at, epoch |-> record'.epoch, mode |-> record'.mode,
                          uptime |-> record'.uptime, fails |-> record'.fails]
            /\ record'.epoch = proc.epoch /\ record'.mode = "stopping" /\ record'.at = minute
        BY <3>2 DEF Composed
      <4>2. /\ proc.epoch \in Nat /\ proc.tick \in FirstMinute .. minute
            /\ proc.epoch <= proc.tick \/ ClockSet
        BY <3>2 DEF AutopsyInv, ProcessTells, NoProc
      <4>3. proc.epoch <= minute \/ ClockSet'
        BY <1>1, <1>4, <4>2 DEF FirstMinute
      <4>4. Left(record.epoch, record.mode, record.at)'
        BY <1>1, <4>1, <4>2, <4>3 DEF Left, FirstMinute
      <4>5. QED
        BY <1>1, <4>1, <4>4
    <3>3. QED
      BY <3>1, <3>2
  <2>2. ~NoProc.runs
    BY DEF NoProc
  <2>3. QED
    BY <1>1, <1>2, <1>3, <2>1, <2>2 DEF ProcessTells
<1>9. QED
  BY <1>4, <1>5, <1>6, <1>7, <1>8 DEF AutopsyInv

LEMMA TurnsOnKeeps ==
    ASSUME AutopsyInv, TurnsOn
    PROVE  AutopsyInv'
<1> DEFINE line == StartLine(minute)
<1>1. /\ minute \in Nat /\ minute >= FirstMinute /\ minute' = minute /\ boot' = minute
      /\ machine = "off" /\ machine' = "awake" /\ log' = log \cup {line} /\ cleanAt' = cleanAt
      /\ panics' = panics /\ proc' = proc /\ record' = record /\ gap' = NoGap /\ event' = event
      /\ happened' = happened /\ \A h \in happened : h.at \in Nat /\ h.at < minute
  BY DEF AutopsyInv, TracesTell, TurnsOn, Free
<1>2. line.at = minute /\ line.kind = "Start"
  BY DEF StartLine
<1> HIDE DEF line
<1>3. \A l \in log : l.at \in Nat /\ l.at < minute
  <2>1. PICK h \in happened : \A l \in log : l.at <= h.at
    BY <1>1 DEF AutopsyInv, LogTells
  <2>2. \A l \in log : l.at \in Nat
    BY DEF AutopsyInv, LogTells, WellNoted
  <2>3. QED
    BY <1>1, <2>1, <2>2
<1>4. WellNoted(log') /\ log \subseteq log' /\ ClockSet' = ClockSet
  BY <1>1, <1>2, <1>3, LineKeeps DEF ClockSet
<1>5. EventTells' /\ SleepIsShown'
  <2>1. IsFiniteSet(log') /\ minute' \in Nat /\ minute <= minute'
    BY <1>1, <1>4 DEF WellNoted
  <2>2. QED
    BY <1>1, <1>4, <2>1, EventKeeps
<1>6. TracesTell'
  BY <1>1 DEF AutopsyInv, TracesTell, FirstMinute
<1>7. LogTells'
  <2>1. \A l \in log' : l.at <= minute'
    BY <1>1, <1>2, <1>3
  <2>2. \A l \in log' : l.kind = "Wake" => \E h \in happened' : h.what = "sleep" /\ h.at = l.at
    BY <1>1, <1>2 DEF AutopsyInv, LogTells
  <2>3. QED
    BY <1>1, <1>4, <2>1, <2>2 DEF LogTells
<1>8. BootTells' /\ GapTells'
  BY <1>1 DEF BootTells, GapTells
<1>9. ProcessTells'
  <2>1. ProcessTells
    BY DEF AutopsyInv
  <2>2. ~proc.runs /\ proc = NoProc
    BY <1>1, <2>1 DEF ProcessTells
  <2>3. ASSUME record # NoBeacon PROVE Left(record.epoch, record.mode, record.at)'
    <3>1. Left(record.epoch, record.mode, record.at)
      BY <2>1, <2>3 DEF ProcessTells
    <3>2. PICK h \in happened : h.what \in OffKinds /\ record.at <= h.at
      BY <1>1, <2>1, <2>3 DEF ProcessTells
    <3>3. record.at < minute
      BY <1>1, <3>1, <3>2 DEF Left
    <3>4. \E k \in happened' : k.what \in OffKinds /\ record.at <= k.at
      BY <1>1, <3>2
    <3>5. QED
      BY <1>1, <1>4, <3>1, <3>3, <3>4 DEF Left
  <2>4. QED
    BY <1>1, <2>1, <2>2, <2>3 DEF ProcessTells
<1>10. QED
  BY <1>5, <1>6, <1>7, <1>8, <1>9 DEF AutopsyInv

\* A step that leaves the machine, its records and the time alone.
LEMMA MachineKeeps ==
    ASSUME AutopsyInv, UNCHANGED <<minute, mac, happened>>
    PROVE  /\ TracesTell' /\ LogTells' /\ BootTells' /\ ClockSet' = ClockSet
           /\ \A epoch, mode, t : Left(epoch, mode, t) => Left(epoch, mode, t)'
<1>1. /\ minute' = minute /\ machine' = machine /\ boot' = boot /\ log' = log /\ cleanAt' = cleanAt
      /\ panics' = panics /\ happened' = happened
  BY DEF mac
<1>2. ClockSet' = ClockSet
  BY <1>1 DEF ClockSet
<1>3. TracesTell' /\ LogTells' /\ BootTells'
  BY <1>1, <1>2 DEF AutopsyInv, TracesTell, LogTells, BootTells
<1>4. ASSUME NEW epoch, NEW mode, NEW t, Left(epoch, mode, t) PROVE Left(epoch, mode, t)'
  BY <1>1, <1>2, <1>4 DEF Left
<1>5. QED
  BY <1>2, <1>3, <1>4

LEMMA LaunchKeeps ==
    ASSUME AutopsyInv, Launch
    PROVE  AutopsyInv'
<1>1. /\ minute \in Nat /\ minute >= FirstMinute /\ boot \in Nat /\ 0 < boot /\ boot <= minute
      /\ UNCHANGED <<minute, mac, happened>> /\ minute' = minute /\ boot' = boot /\ machine' = "awake"
      /\ log' = log /\ event' = event /\ happened' = happened
  BY DEF AutopsyInv, TracesTell, Launch, mac
<1>2. /\ TracesTell' /\ LogTells' /\ BootTells' /\ ClockSet' = ClockSet
      /\ \A epoch, mode, t : Left(epoch, mode, t) => Left(epoch, mode, t)'
  BY <1>1, MachineKeeps
<1>3. EventTells' /\ SleepIsShown'
  <2>1. IsFiniteSet(log') /\ minute' \in Nat /\ minute <= minute'
    BY <1>1 DEF AutopsyInv, LogTells, WellNoted
  <2>2. QED
    BY <1>1, <2>1, EventKeeps
<1>4. PICK r \in Readings :
        LET p == [runs |-> TRUE, epoch |-> r.epoch, fallback |-> r.fallback,
                  tick |-> minute, uptime |-> minute - boot, fails |-> 0]
        IN  /\ proc' = p
            /\ record' = Composed(p, minute, "alive")
            /\ gap' = IF record = NoBeacon THEN NoGap
                      ELSE IF record.epoch = Unknown \/ minute - record.at < ShortestGap THEN NoGap
                      ELSE [source |-> "boot", start |-> record.at, end |-> minute,
                            prev |-> record, fails |-> record.fails,
                            suspect |-> /\ ~BootChanged(record.epoch, r.epoch)
                                        /\ ClockSuspect(minute - record.at, (minute - boot) - record.uptime)]
  BY DEF Launch
<1>5. r.epoch \in {Unknown, boot} /\ r.epoch \in Nat /\ r.epoch <= minute
  BY <1>1 DEF Readings, Unknown
<1>6. /\ proc' = [runs |-> TRUE, epoch |-> proc'.epoch, fallback |-> proc'.fallback,
                  tick |-> proc'.tick, uptime |-> proc'.uptime, fails |-> proc'.fails]
      /\ proc'.epoch = r.epoch /\ proc'.tick = minute /\ proc'.runs
      /\ record' = [at |-> record'.at, epoch |-> record'.epoch, mode |-> record'.mode,
                    uptime |-> record'.uptime, fails |-> record'.fails]
      /\ record'.epoch = r.epoch /\ record'.mode = "alive" /\ record'.at = minute
  BY <1>4 DEF Composed
<1>7. ProcessTells'
  <2>1. Left(record.epoch, record.mode, record.at)'
    BY <1>1, <1>5, <1>6 DEF Left, FirstMinute
  <2>2. QED
    BY <1>1, <1>5, <1>6, <2>1 DEF ProcessTells, FirstMinute
<1>8. GapTells'
  <2>1. CASE gap' = NoGap
    BY <2>1 DEF GapTells
  <2>2. CASE gap' # NoGap
    <3>1. /\ record # NoBeacon /\ record.epoch # Unknown /\ ~ (minute - record.at < ShortestGap)
          /\ gap' = [source |-> "boot", start |-> record.at, end |-> minute, prev |-> record,
                     fails |-> gap'.fails, suspect |-> gap'.suspect]
      BY <1>4, <2>2
    <3>2. Left(record.epoch, record.mode, record.at)
      BY <3>1 DEF AutopsyInv, ProcessTells
    <3>3. /\ gap' = [source |-> gap'.source, start |-> gap'.start, end |-> gap'.end, prev |-> gap'.prev,
                     fails |-> gap'.fails, suspect |-> gap'.suspect]
          /\ gap'.source = "boot" /\ gap'.start = record.at /\ gap'.end = minute /\ gap'.prev = record
      BY <3>1
    <3>4. PICK old : old = record
      OBVIOUS
    <3>5. Left(old.epoch, old.mode, old.at)'
      BY <1>2, <3>2, <3>4
    <3>6. Left(gap.prev.epoch, gap.prev.mode, gap.start)'
      BY <3>3, <3>4, <3>5 DEF Left
    <3>7. gap'.start + ShortestGap <= gap'.end
      BY <1>1, <3>1, <3>2, <3>3 DEF Left, ShortestGap
    <3>8. QED
      BY <1>1, <1>6, <3>1, <3>3, <3>6, <3>7 DEF GapTells
  <2>3. QED
    BY <2>1, <2>2
<1>9. QED
  BY <1>2, <1>3, <1>7, <1>8 DEF AutopsyInv

LEMMA EndsKeeps ==
    ASSUME AutopsyInv, NEW what \in {"kill", "stop"}, Ends(what),
           record' = record \/ (what = "stop" /\ record' = Composed(proc, minute, "stopping"))
    PROVE  AutopsyInv'
<1> DEFINE end == [what |-> what, at |-> minute]
<1>1. /\ minute \in Nat /\ minute >= FirstMinute /\ minute' = minute /\ boot' = boot /\ log' = log
      /\ machine' = machine /\ machine # "off" /\ cleanAt' = cleanAt /\ panics' = panics /\ proc.runs
      /\ proc' = NoProc /\ gap' = NoGap /\ event' = event /\ happened' = happened \cup {end}
  BY DEF AutopsyInv, TracesTell, Ends, Note, Free, mac
<1>2. end.what = what /\ end.at = minute
  OBVIOUS
<1> HIDE DEF end
<1>3. /\ end \in happened' /\ happened \subseteq happened' /\ \A h \in happened' \ happened : h = end
      /\ \A h \in happened' : h.what \in OffKinds \cup {"jump"} => h \in happened
  BY <1>1, <1>2 DEF OffKinds
<1>4. /\ EventTells' /\ SleepIsShown'
      /\ \A epoch, mode, t : Left(epoch, mode, t) => Left(epoch, mode, t)'
      /\ \A h \in happened' : h.at \in Nat /\ h.at <= minute
      /\ ClockSet' = ClockSet
  <2>1. IsFiniteSet(log') /\ log \subseteq log'
    BY <1>1 DEF AutopsyInv, LogTells, WellNoted
  <2>2. (\A h \in happened' \ happened : h.at = minute) /\ UNCHANGED <<minute, boot, event>>
    BY <1>1, <1>2, <1>3
  <2>3. ClockSet' => ClockSet
    BY <1>3 DEF ClockSet
  <2>4. /\ EventTells' /\ SleepIsShown'
        /\ \A epoch, mode, t : Left(epoch, mode, t) => Left(epoch, mode, t)'
        /\ \A h \in happened' : h.at \in Nat /\ h.at <= minute
        /\ ClockSet => ClockSet'
    BY <1>1, <1>3, <2>1, <2>2, NotedKeeps
  <2>5. ClockSet' = ClockSet
    BY <2>3, <2>4 DEF ClockSet
  <2>6. QED
    BY <2>4, <2>5
<1>5. TracesTell'
  <2>1. TracesTell
    BY DEF AutopsyInv
  <2>2. /\ cleanAt' = FirstClean \/ \E h \in happened' : h.what = "shutdown" /\ h.at = cleanAt'
        /\ \A h \in happened' : h.what = "shutdown" => h.at <= cleanAt'
        /\ \A p \in panics' : \E h \in happened' : h.what = "panic" /\ h.at = p
        /\ \A h \in happened' : h.what = "panic" => h.at \in panics'
    BY <1>1, <1>3, <2>1 DEF TracesTell, OffKinds
  <2>3. QED
    BY <1>1, <1>4, <2>1, <2>2 DEF TracesTell
<1>6. LogTells'
  BY <1>1, <1>3 DEF AutopsyInv, LogTells
<1>7. BootTells' /\ GapTells'
  BY <1>1, <1>3, <1>4 DEF AutopsyInv, BootTells, GapTells
<1>8. ProcessTells'
  <2>1. ASSUME record' # NoBeacon
        PROVE  /\ record' = [at |-> record'.at, epoch |-> record'.epoch, mode |-> record'.mode,
                             uptime |-> record'.uptime, fails |-> record'.fails]
               /\ Left(record.epoch, record.mode, record.at)'
    <3>1. CASE record' = record
      <4>1. Left(record.epoch, record.mode, record.at)
            /\ record = [at |-> record.at, epoch |-> record.epoch, mode |-> record.mode,
                         uptime |-> record.uptime, fails |-> record.fails]
        BY <2>1, <3>1 DEF AutopsyInv, ProcessTells
      <4>2. QED
        BY <1>4, <3>1, <4>1 DEF Left
    <3>2. CASE what = "stop" /\ record' = Composed(proc, minute, "stopping")
      <4>1. /\ record' = [at |-> record'.at, epoch |-> record'.epoch, mode |-> record'.mode,
                          uptime |-> record'.uptime, fails |-> record'.fails]
            /\ record'.epoch = proc.epoch /\ record'.mode = "stopping" /\ record'.at = minute
        BY <3>2 DEF Composed
      <4>2. /\ proc.epoch \in Nat /\ proc.tick \in FirstMinute .. minute
            /\ proc.epoch <= proc.tick \/ ClockSet
            /\ ClockSet \/ proc.epoch \in {Unknown, boot}
        BY <1>1 DEF AutopsyInv, ProcessTells, NoProc
      <4>3. proc.epoch <= minute \/ ClockSet'
        BY <1>1, <1>4, <4>2 DEF FirstMinute
      <4>4. \E h \in happened' : h.what = "stop" /\ h.at = minute
        BY <1>2, <1>3, <3>2
      <4>5. Left(record.epoch, record.mode, record.at)'
        BY <1>1, <1>4, <4>1, <4>2, <4>3, <4>4 DEF Left, FirstMinute
      <4>6. QED
        BY <4>1, <4>5
    <3>3. QED
      BY <3>1, <3>2
  <2>2. ~NoProc.runs
    BY DEF NoProc
  <2>3. QED
    BY <1>1, <2>1, <2>2 DEF ProcessTells
<1>9. QED
  BY <1>4, <1>5, <1>6, <1>7, <1>8 DEF AutopsyInv

LEMMA JudgeKeeps ==
    ASSUME AutopsyInv, Judge \/ JudgeBlindly
    PROVE  AutopsyInv'
<1>1. gap # NoGap /\ gap' = NoGap /\ UNCHANGED <<minute, mac, proc, record, happened, mishaps>>
  BY DEF Judge, JudgeBlindly, RecordEvent
<1>2. /\ TracesTell' /\ LogTells' /\ BootTells' /\ ClockSet' = ClockSet
      /\ \A epoch, mode, t : Left(epoch, mode, t) => Left(epoch, mode, t)'
  BY <1>1, MachineKeeps
<1>3. ProcessTells' /\ GapTells'
  <2>1. ProcessTells
    BY DEF AutopsyInv
  <2>2. machine' = machine /\ boot' = boot /\ happened' = happened /\ minute' = minute
        /\ proc' = proc /\ record' = record
    BY <1>1 DEF mac
  <2>3. QED
    BY <1>1, <1>2, <2>1, <2>2 DEF ProcessTells, GapTells
<1>4. EventTells' /\ SleepIsShown'
  <2>1. CASE Judge
    <3>1. PICK unread \in SUBSET {"shutdown", "panic", "power"} :
             LET windows == SleepWindows(Lines(unread))
                 ev == Evidence(gap, unread)
                 inWindow == Covering(windows, gap.start, gap.end) # NoWindow
             IN  RecordEvent(Classify(ev, inWindow, gap.start), ev, windows)
      BY <2>1 DEF Judge
    <3> DEFINE windows == SleepWindows(Lines(unread))
               ev == Evidence(gap, unread)
               inWindow == Covering(windows, gap.start, gap.end) # NoWindow
               verdict == Classify(ev, inWindow, gap.start)
    <3>2. ev = [before |-> ev.before, bootNow |-> ev.bootNow, changed |-> ev.changed, fallback |-> ev.fallback,
                same |-> ev.same, mode |-> ev.mode, clean |-> ev.clean, panicAt |-> ev.panicAt,
                panicRead |-> ev.panicRead, powerRead |-> ev.powerRead, lines |-> ev.lines,
                dark |-> ev.dark, battery |-> ev.battery, fails |-> ev.fails, suspect |-> ev.suspect]
          /\ ev.powerRead = (Lines(unread) # {}) /\ ev.lines = Freeze(Lines(unread), gap.start, gap.end)
      BY DEF Evidence
    <3>3. windows = {} \/ /\ windows = SleepWindows(log) /\ ev.powerRead
                          /\ ev.lines = Freeze(log, gap.start, gap.end)
      <4>1. CASE Lines(unread) = {}
        BY <4>1 DEF SleepWindows
      <4>2. CASE Lines(unread) # {}
        <5>1. Lines(unread) = log
          BY <4>2 DEF Lines
        <5>2. QED
          BY <3>2, <4>2, <5>1
      <4>3. QED
        BY <4>1, <4>2
    <3>4. verdict.confidence = "certain" /\ (verdict.cause = "sleep" \/ ~ClockSet)
             => TrueOf(verdict.cause, Span(gap), ev)
      BY <1>1, JudgedTruly
    <3>5. RecordEvent(verdict, ev, windows)
      BY <3>1
    <3> HIDE DEF verdict, ev, windows, inWindow
    <3>6. QED
      BY <1>1, <3>2, <3>3, <3>4, <3>5, RecordedTruly
  <2>2. CASE JudgeBlindly
    <3> DEFINE verdict == [cause |-> "unknown", confidence |-> "unsure", exact |-> FALSE]
               ev == BlindEvidence(gap)
    <3>1. ev = [before |-> ev.before, bootNow |-> ev.bootNow, changed |-> ev.changed, fallback |-> ev.fallback,
                same |-> ev.same, mode |-> ev.mode, clean |-> ev.clean, panicAt |-> ev.panicAt,
                panicRead |-> ev.panicRead, powerRead |-> ev.powerRead, lines |-> ev.lines,
                dark |-> ev.dark, battery |-> ev.battery, fails |-> ev.fails, suspect |-> ev.suspect]
      BY DEF BlindEvidence
    <3>2. verdict.confidence # "certain" /\ RecordEvent(verdict, ev, {})
      BY <2>2 DEF JudgeBlindly
    <3> HIDE DEF verdict, ev
    <3>3. QED
      BY <1>1, <3>1, <3>2, RecordedTruly
  <2>3. QED
    BY <2>1, <2>2
<1>5. QED
  BY <1>2, <1>3, <1>4 DEF AutopsyInv

LEMMA AutopsyStarts ==
    ASSUME AutopsyInit
    PROVE  AutopsyInv
<1> USE DEF FirstMinute, FirstBoot, FirstClean
<1>1. /\ minute = 5 /\ machine = "awake" /\ boot = 3 /\ log = {StartLine(3)} /\ cleanAt = 1
      /\ panics = {} /\ proc = NoProc /\ record = NoBeacon /\ gap = NoGap /\ event = NoEvent
      /\ happened = {}
  BY DEF AutopsyInit
<1>2. StartLine(3).at = 3 /\ StartLine(3).kind = "Start"
  BY DEF StartLine
<1>3. IsFiniteSet(log)
  BY <1>1, FS_Singleton
<1>4. TracesTell /\ LogTells /\ BootTells
  BY <1>1, <1>2, <1>3 DEF TracesTell, LogTells, BootTells, WellNoted
<1>5. ProcessTells /\ GapTells /\ EventTells /\ SleepIsShown
  BY <1>1 DEF ProcessTells, NoProc, GapTells, EventTells, SleepIsShown
<1>6. QED
  BY <1>4, <1>5 DEF AutopsyInv

LEMMA AutopsyKeeps ==
    ASSUME AutopsyInv, [AutopsyNext]_autopsyVars
    PROVE  AutopsyInv'
<1>1. CASE Minute
  BY <1>1, MinuteKeeps
<1>2. CASE FallsAsleep \/ WakesDarkly \/ SleepsOn \/ Wakes
  <2>1. \/ Goes({"awake"}, "asleep", "Sleep", "lid") \/ Goes({"asleep"}, "dark", "DarkWake", "none")
        \/ Goes({"dark"}, "asleep", "Sleep", "maintenance") \/ Goes({"asleep", "dark"}, "awake", "Wake", "none")
    BY <1>2 DEF FallsAsleep, WakesDarkly, SleepsOn, Wakes
  <2>2. QED
    BY <2>1, GoesKeeps
<1>3. CASE ClockJumps
  BY <1>3, ClockKeeps
<1>4. CASE PowerCut \/ Drained
  BY <1>4, OffKeeps DEF PowerCut, Drained, OffKinds
<1>5. CASE Panic
  BY <1>5, OffKeeps DEF Panic, OffKinds
<1>6. CASE ShutDown
  <2>1. record' = record \/ (proc.runs /\ record' = Composed(proc, minute, "stopping"))
    BY <1>6 DEF ShutDown
  <2>2. QED
    BY <1>6, <2>1, OffKeeps DEF ShutDown, OffKinds
<1>7. CASE TurnsOn
  BY <1>7, TurnsOnKeeps
<1>8. CASE Launch
  BY <1>8, LaunchKeeps
<1>9. CASE Killed \/ Stopped
  BY <1>9, EndsKeeps DEF Killed, Stopped
<1>10. CASE Judge \/ JudgeBlindly
  BY <1>10, JudgeKeeps
<1>11. CASE UNCHANGED autopsyVars
  <2>1. /\ UNCHANGED <<minute, mac, proc, record, gap, event, happened>> /\ log' = log
        /\ boot' = boot /\ machine' = machine
    BY <1>11 DEF autopsyVars, mac
  <2>2. /\ TracesTell' /\ LogTells' /\ BootTells' /\ ClockSet' = ClockSet
        /\ \A epoch, mode, t : Left(epoch, mode, t) => Left(epoch, mode, t)'
    BY <2>1, MachineKeeps
  <2>3. EventTells' /\ SleepIsShown'
    <3>1. IsFiniteSet(log') /\ minute' \in Nat /\ minute <= minute'
      BY <2>1 DEF AutopsyInv, LogTells, WellNoted, TracesTell
    <3>2. QED
      BY <2>1, <3>1, EventKeeps
  <2>4. ProcessTells'
    BY <2>1, <2>2 DEF AutopsyInv, ProcessTells
  <2>5. GapTells'
    <3>1. PICK g : g = gap
      OBVIOUS
    <3>2. g # NoGap => Left(g.prev.epoch, g.prev.mode, g.start)'
      BY <2>2, <3>1 DEF AutopsyInv, GapTells
    <3>3. gap' # NoGap => Left(gap.prev.epoch, gap.prev.mode, gap.start)'
      BY <2>1, <3>1, <3>2 DEF Left
    <3>4. GapTells /\ gap' = gap /\ minute' = minute /\ machine' = machine /\ proc' = proc
      BY <2>1 DEF AutopsyInv
    <3>5. QED
      BY <3>3, <3>4 DEF GapTells
  <2>6. QED
    BY <2>2, <2>3, <2>4, <2>5 DEF AutopsyInv
<1>12. QED
  BY <1>1, <1>2, <1>3, <1>4, <1>5, <1>6, <1>7, <1>8, <1>9, <1>10, <1>11 DEF AutopsyNext

LEMMA ToldHonestly ==
    ASSUME AutopsyInv
    PROVE  AccountIsHonest
<1> SUFFICES ASSUME event # NoEvent, event.verdicts = {[cause |-> event.cause, confidence |-> "certain"]},
                    event.cause = "sleep" \/ ~ClockSet,
                    NEW span \in event.gaps, ~ReallyWas(event.cause, span)
             PROVE  "panics unread" \in Account(event) \/ (Joined(event) /\ Within(event, {"panic"}))
  BY DEF AccountIsHonest, ClockSet
<1>1. /\ EventTells /\ event.verdicts = {Certain(event.cause)} /\ TracesTell
      /\ event.start \in Nat /\ event.end \in Nat /\ span.start \in Nat /\ span.end \in Nat
      /\ event.start - JoinWindow <= span.start /\ span.end <= event.end
  BY DEF AutopsyInv, EventTells, Certain
<1>2. TrueOf(event.cause, span, event.ev) \/ (Joined(event) /\ PanicInside(span))
  BY <1>1 DEF EventTells
<1>3. CASE TrueOf(event.cause, span, event.ev)
  <2>1. ~event.ev.panicRead /\ event.ev.panicAt = Unknown
    BY <1>3 DEF TrueOf
  <2>2. "panics unread" \in ReasonLine(event)
    BY <2>1 DEF ReasonLine
  <2>3. ReasonLine(event) \subseteq Account(event)
    BY DEF Account
  <2>4. QED
    BY <2>2, <2>3
<1>4. CASE Joined(event) /\ PanicInside(span)
  <2>1. PICK h \in happened : h.what = "panic" /\ span.start <= h.at /\ h.at <= span.end
    BY <1>4 DEF PanicInside
  <2>2. h.at \in Nat
    BY <1>1 DEF TracesTell
  <2>3. event.start - CleanBefore <= h.at /\ h.at <= event.end
    BY <1>1, <2>1, <2>2 DEF JoinWindow, CleanBefore
  <2>4. QED
    BY <1>4, <2>1, <2>3 DEF Within
<1>5. QED
  BY <1>2, <1>3, <1>4

LEMMA AutopsyHolds == AutopsySpec => []AutopsyInv
<1>1. AutopsyInit => AutopsyInv
  BY AutopsyStarts
<1>2. AutopsyInv /\ [AutopsyNext]_autopsyVars => AutopsyInv'
  BY AutopsyKeeps
<1>3. QED
  BY <1>1, <1>2, PTL DEF AutopsySpec

\* The account of an event whose gaps were all judged alike and for certain says
\* of each of them what happened (classify, recordDowntimeEvent, narrate).
THEOREM AccountHonest == AutopsySpec => []AccountIsHonest
<1>1. AutopsyInv => AccountIsHonest
  BY ToldHonestly
<1>2. QED
  BY <1>1, AutopsyHolds, PTL

\* What the ledger keeps of the power log rebuilds the sleep the verdict saw
\* (freezePmsetLines, buildSleepWindows).
THEOREM SleepShown == AutopsySpec => []SleepIsShown
<1>1. AutopsyInv => SleepIsShown
  BY DEF AutopsyInv
<1>2. QED
  BY <1>1, AutopsyHolds, PTL
=============================================================================
