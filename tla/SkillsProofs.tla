---------------------------- MODULE SkillsProofs ----------------------------
(***************************************************************************)
(* Proofs about Skills: that a cycle that is not caught up any more has    *)
(* left its record, and that what the entries say of a repository's files  *)
(* is true, for any repositories, budget of calls, sample size, number of  *)
(* workers, rank size and schedule, and whatever GitHub answers.           *)
(***************************************************************************)
EXTENDS Skills, FiniteSetTheorems, TLAPS

FileKinds == {"clean", "net", "late", "caller"}
Tables == {1, 2}

-----------------------------------------------------------------------------
\* The verdict is true of the files it was made of.

\* A sample of a list are places in it (sampleEvenly).
LEMMA SampledInRange ==
    ASSUME NEW n \in Nat
    PROVE  Sampled(n) \subseteq 1 .. n
<1>1. CASE n <= Cap
  BY <1>1 DEF Sampled
<1>2. CASE ~(n <= Cap)
  <2>1. Sampled(n) = {((i * n) \div Cap) + 1 : i \in 0 .. Cap - 1}
    BY <1>2 DEF Sampled
  <2>2. SUFFICES ASSUME NEW i \in 0 .. Cap - 1
                 PROVE  ((i * n) \div Cap) + 1 \in 1 .. n
    BY <2>1
  <2>3. Cap \in Nat \ {0}
    BY SkillScanAssumption
  <2>4. i * n \in Nat /\ i * n <= (Cap - 1) * n
    BY <2>3, SMTT(30)
  <2>5. (Cap - 1) * n < Cap * n
    BY <1>2, <2>3, SMTT(30)
  <2>6. PICK k \in Nat : k = i * n
    BY <2>4
  <2>7. PICK q \in Int : q = k \div Cap
    BY <2>3
  <2>8. q \in Nat /\ Cap * q <= k
    BY <2>3, <2>6, <2>7, SMTT(30)
  <2>9. Cap * q < Cap * n
    BY <2>3, <2>4, <2>5, <2>6, <2>8, SMTT(30)
  <2>10. q < n
    BY <2>3, <2>8, <2>9, SMTT(30)
  <2>11. QED
    BY <2>6, <2>7, <2>8, <2>10
<1>3. QED
  BY <1>1, <1>2

\* Places read that are as many as the files are all of them.
LEMMA AllRead ==
    ASSUME NEW n \in Nat, NEW read \in SUBSET (1 .. n)
    PROVE  /\ IsFiniteSet(read) /\ Cardinality(read) \in Nat /\ Cardinality(read) <= n
           /\ Cardinality(read) >= n => read = 1 .. n
<1>1. IsFiniteSet(1 .. n) /\ Cardinality(1 .. n) = n
  BY FS_Interval
<1>2. IsFiniteSet(read) /\ Cardinality(read) <= n
      /\ (Cardinality(read) = Cardinality(1 .. n) => read = 1 .. n)
  BY <1>1, FS_Subset
<1>3. Cardinality(read) \in Nat
  BY <1>2, FS_CardinalityType
<1>4. QED
  BY <1>1, <1>2, <1>3

\* What a verdict says holds of the files, sampled, truncated or unreadable as
\* they were (decideAccessKind, decideSeparability).
LEMMA VerdictIsTrue ==
    ASSUME NEW files \in Seq(FileKinds), NEW truncated \in BOOLEAN, truncated => files # <<>>,
           NEW visible, visible = IF truncated THEN Front(files) ELSE files,
           NEW read \in SUBSET Sampled(Len(visible))
    PROVE  IsTrueOf(Verdict(visible, ListedTotal(visible, truncated), read), files, table)
<1> DEFINE N == Len(files)
           M == Len(visible)
           total == ListedTotal(visible, truncated)
           network == {i \in read : HasSignal(visible[i], table)}
           refs == IF network = {} THEN {} ELSE {i \in read : visible[i] = "caller"}
           signals == {i \in DOMAIN files : HasSignal(files[i], table)}
           kind == AccessKind(total, Cardinality(read), Cardinality(network))
           verdict == Verdict(visible, total, read)
<1>1. N \in Nat /\ DOMAIN files = 1 .. N /\ (N = 0 => files = <<>>) /\ (files # <<>> => N > 0)
  OBVIOUS
<1>2. M \in Nat /\ M <= N /\ total = N /\ (truncated => M < N) /\ (\A i \in 1 .. M : visible[i] = files[i])
  BY <1>1 DEF Front, ListedTotal
<1>3. read \subseteq 1 .. M
  BY <1>2, SampledInRange
<1>4. /\ Cardinality(read) \in Nat /\ Cardinality(read) <= M /\ IsFiniteSet(read)
      /\ Cardinality(read) >= M => read = 1 .. M
  BY <1>2, <1>3, AllRead
<1>5. Cardinality(read) >= total => read = DOMAIN files
  BY <1>1, <1>2, <1>4
<1>6. /\ IsFiniteSet(network) /\ Cardinality(network) \in Nat
      /\ Cardinality(network) = 0 <=> network = {}
  <2>1. IsFiniteSet(network)
    BY <1>4, FS_Subset
  <2>2. QED
    BY <2>1, FS_CardinalityType, FS_EmptySet
<1>7. /\ Cardinality(refs) \in Nat
      /\ Cardinality(refs) = 0 => refs = {}
  <2>1. refs \subseteq read
    OBVIOUS
  <2>2. IsFiniteSet(refs)
    BY <1>4, <2>1, FS_Subset
  <2>3. QED
    BY <2>2, FS_CardinalityType, FS_EmptySet
<1>8. network = {i \in read : i \in signals}
  <2>1. \A i \in read : i \in DOMAIN files /\ visible[i] = files[i]
    BY <1>1, <1>2, <1>3
  <2>2. \A i \in read : HasSignal(visible[i], table) <=> i \in signals
    BY <2>1 DEF HasSignal
  <2>3. QED
    BY <2>2
<1>9. verdict.kind = kind /\ verdict.sep = Separability(kind, total, Cardinality(read), Cardinality(refs))
  BY DEF Verdict
<1> HIDE DEF network, refs, signals, kind, verdict, total, N, M
<1>10. verdict.kind = "local" => signals = {}
  <2>1. SUFFICES ASSUME kind = "local" PROVE signals = {}
    BY <1>9
  <2>2. Cardinality(network) = 0 /\ Cardinality(read) >= total
    BY <2>1, <1>1, <1>2, <1>4, <1>6 DEF kind, AccessKind
  <2>3. network = {} /\ read = DOMAIN files
    BY <2>2, <1>5, <1>6
  <2>4. QED
    BY <2>3, <1>8 DEF signals
<1>11. verdict.kind \in {"external", "partial"} => signals # {}
  <2>1. SUFFICES ASSUME kind \in {"external", "partial"} PROVE signals # {}
    BY <1>9
  <2>2. Cardinality(network) > 0
    BY <2>1, <1>1, <1>2, <1>4, <1>6 DEF kind, AccessKind
  <2>3. QED
    BY <2>2, <1>6, <1>8
<1>12. verdict.kind = "no-skill" => files = <<>>
  BY <1>1, <1>2, <1>4, <1>6, <1>9 DEF kind, AccessKind
<1>13. verdict.sep = "separable" => \A i \in DOMAIN files : files[i] # "caller"
  <2>1. SUFFICES ASSUME Separability(kind, total, Cardinality(read), Cardinality(refs)) = "separable"
                 PROVE  \A i \in DOMAIN files : files[i] # "caller"
    BY <1>9
  <2>2. kind = "partial" /\ Cardinality(refs) = 0 /\ Cardinality(read) >= total
    BY <2>1, <1>1, <1>2, <1>4, <1>7, SkillScanAssumption DEF Separability
  <2>3. Cardinality(network) > 0
    BY <2>2, <1>1, <1>2, <1>4, <1>6 DEF kind, AccessKind
  <2>4. network # {}
    BY <2>3, <1>6
  <2>5. refs = {}
    BY <2>2, <1>7
  <2>6. {i \in read : visible[i] = "caller"} = {}
    BY <2>4, <2>5 DEF refs
  <2>7. read = DOMAIN files
    BY <2>2, <1>5
  <2>8. QED
    BY <2>6, <2>7, <1>1, <1>2, <1>3
<1>14. QED
  BY <1>10, <1>11, <1>12, <1>13 DEF IsTrueOf, signals, verdict, total

\* What a verdict claims is said by its kind and its separability.
LEMMA SameTruth ==
    ASSUME NEW v, NEW w, v.kind = w.kind, v.sep = w.sep, NEW files, NEW t,
           IsTrueOf(v, files, t)
    PROVE  IsTrueOf(w, files, t)
BY DEF IsTrueOf

\* "Unknown" claims nothing.
LEMMA UnknownIsTrue ==
    ASSUME NEW files, NEW t
    PROVE  IsTrueOf(UnknownScan, files, t)
BY SkillScanAssumption DEF IsTrueOf, UnknownScan

-----------------------------------------------------------------------------
(***************************************************************************)
(* The inductive invariant.  A verdict is kept with the push it was made   *)
(* of, wherever it is: in the cache, in the scan, in the run's tags and in *)
(* the snapshot.  No push that is kept is younger than the repository's,   *)
(* so a push takes the force out of every verdict kept before it.          *)
(***************************************************************************)
Contents == [push : Nat, text : Nat, files : Seq(FileKinds)]

\* The verdict of a push is true of a repository that is still at that push.
Claim(repo, push, verdict, t) ==
    /\ push \in Nat /\ push <= repo.push
    /\ push = repo.push => IsTrueOf(verdict, repo.files, t)

\* A time that some recorded run was saved at or after.
Recorded(t, saved) == t \in Nat /\ \E e \in saved : e \in Nat /\ e >= t

GithubOK ==
    /\ github \in [Repos -> Contents]
    /\ world \in Worlds
    /\ table \in Tables

GoodRows(cached, g) ==
    /\ DOMAIN cached = Repos
    /\ \A r \in Repos : cached[r] # None => Claim(g[r], cached[r].push, cached[r], cached[r].table)

RunFields == {"stage", "auto", "notify", "start", "interim", "pool", "seen", "base",
              "checked", "round", "tags"}

GoodRun(a, g, saved) ==
    a # None =>
        /\ DOMAIN a = RunFields
        /\ a.interim # None => Recorded(a.interim, saved)
        /\ DOMAIN a.pool \subseteq DOMAIN a.seen /\ DOMAIN a.seen \subseteq Repos
        /\ \A r \in DOMAIN a.seen : a.seen[r].push \in Nat /\ a.seen[r].push <= g[r].push
        /\ DOMAIN a.tags \subseteq DOMAIN a.seen /\ (a.stage = "search" => DOMAIN a.tags = {})
        /\ \A r \in DOMAIN a.tags : Claim(g[r], a.seen[r].push, a.tags[r], a.tags[r].table)

ScanFields == {"seen", "hits", "todo", "busy", "limited", "found"}

\* The scan s of the run a.
GoodScan(s, a, g, t) ==
    s # None =>
        /\ a # None /\ a.stage = "scan"
        /\ DOMAIN s = ScanFields
        /\ s.seen = [r \in DOMAIN a.seen |-> a.seen[r].push]
        /\ s.todo \subseteq DOMAIN a.seen
        /\ s.busy \subseteq [repo : DOMAIN a.seen, main : BOOLEAN]
        /\ DOMAIN s.found \subseteq DOMAIN a.seen
        /\ \A r \in DOMAIN s.found : Claim(g[r], a.seen[r].push, s.found[r], t)

GoodSnap(s, g, saved) ==
    s # NoSnapshot =>
        /\ Recorded(cycleUpdatedAt(s), saved)
        /\ DOMAIN s.entries \subseteq Repos
        /\ \A r \in DOMAIN s.entries :
              LET e == s.entries[r]
              IN  /\ e.tag # None => Claim(g[r], e.push, e.tag, e.tag.table)
                  /\ e.summary \in {None, e.text}

IInv ==
    /\ GithubOK /\ now \in Nat
    /\ GoodRows(rows, github)
    /\ GoodRun(run, github, ends)
    /\ GoodScan(scan, run, github, table)
    /\ GoodSnap(snap, github, ends)

-----------------------------------------------------------------------------
\* Nothing that is kept becomes false.

\* What the owners of repositories may do: push, or change the description.
Grows(g, h) ==
    \A r \in Repos : /\ g[r].push \in Nat /\ h[r].push \in Nat /\ g[r].push <= h[r].push
                     /\ g[r].push = h[r].push => h[r].files = g[r].files

LEMMA GrowsAt ==
    ASSUME NEW g \in [Repos -> Contents], NEW r \in Repos, NEW c \in Contents,
           g[r].push <= c.push, g[r].push = c.push => c.files = g[r].files
    PROVE  /\ [g EXCEPT ![r] = c] \in [Repos -> Contents]
           /\ Grows(g, [g EXCEPT ![r] = c])
<1> DEFINE h == [g EXCEPT ![r] = c]
<1>1. h \in [Repos -> Contents]
  OBVIOUS
<1>2. \A q \in Repos : g[q].push \in Nat /\ h[q].push \in Nat
  BY DEF Contents
<1>3. \A q \in Repos : g[q].push <= h[q].push /\ (g[q].push = h[q].push => h[q].files = g[q].files)
  BY <1>2
<1>4. QED
  BY <1>1, <1>2, <1>3 DEF Grows

LEMMA RepoChangesGrow ==
    ASSUME GithubOK, RepoChanges
    PROVE  Grows(github, github') /\ github' \in [Repos -> Contents]
<1>1. PICK r \in Repos :
         \/ \E files \in world.trees :
                github' = [github EXCEPT ![r].push = @ + 1, ![r].files = files]
         \/ github' = [github EXCEPT ![r].text = @ + 1]
  BY DEF RepoChanges
<1>2. github \in [Repos -> Contents] /\ github[r] \in Contents
  BY DEF GithubOK
<1>3. world.trees \subseteq Seq(FileKinds)
  BY SkillsAssumption DEF GithubOK, FileKinds
<1> DEFINE old == github[r]
<1>4. old = [push |-> old.push, text |-> old.text, files |-> old.files]
  BY <1>2 DEF Contents
<1>5. CASE \E files \in world.trees : github' = [github EXCEPT ![r].push = @ + 1, ![r].files = files]
  <2>1. PICK files \in world.trees : github' = [github EXCEPT ![r].push = @ + 1, ![r].files = files]
    BY <1>5
  <2> DEFINE new == [push |-> old.push + 1, text |-> old.text, files |-> files]
  <2>2. new \in Contents /\ new.push = old.push + 1
    BY <1>2, <1>3 DEF Contents
  <2>3. github' = [github EXCEPT ![r] = [old EXCEPT !.push = @ + 1, !.files = files]]
    BY <1>2, <2>1
  <2>4. [old EXCEPT !.push = @ + 1, !.files = files] = new
    <3>1. [old EXCEPT !.push = @ + 1] = [push |-> old.push + 1, text |-> old.text, files |-> old.files]
      BY <1>4
    <3>2. [[push |-> old.push + 1, text |-> old.text, files |-> old.files] EXCEPT !.files = files] = new
      OBVIOUS
    <3>3. QED
      BY <3>1, <3>2
  <2>5. github' = [github EXCEPT ![r] = new]
    BY <2>3, <2>4
  <2>6. old.push \in Nat /\ old.push <= new.push /\ old.push # new.push
    BY <1>2, <2>2 DEF Contents
  <2> HIDE DEF new
  <2>7. QED
    BY <1>2, <2>2, <2>5, <2>6, GrowsAt
<1>6. CASE github' = [github EXCEPT ![r].text = @ + 1]
  <2> DEFINE new == [push |-> old.push, text |-> old.text + 1, files |-> old.files]
  <2>1. new \in Contents /\ new.push = old.push /\ new.files = old.files
    BY <1>2 DEF Contents
  <2>2. github' = [github EXCEPT ![r] = [old EXCEPT !.text = @ + 1]]
    BY <1>2, <1>6
  <2>3. [old EXCEPT !.text = @ + 1] = new
    BY <1>4
  <2>4. github' = [github EXCEPT ![r] = new]
    BY <2>2, <2>3
  <2>5. old.push <= new.push
    BY <1>2, <2>1 DEF Contents
  <2> HIDE DEF new
  <2>6. QED
    BY <1>2, <2>1, <2>4, <2>5, GrowsAt
<1>7. QED
  BY <1>1, <1>5, <1>6

LEMMA ClaimsStand ==
    ASSUME NEW g, NEW h, Grows(g, h), NEW r \in Repos, NEW push, NEW v, NEW t,
           Claim(g[r], push, v, t)
    PROVE  Claim(h[r], push, v, t)
BY DEF Claim, Grows

LEMMA RowsStand ==
    ASSUME NEW g, NEW h, Grows(g, h), NEW cached, GoodRows(cached, g)
    PROVE  GoodRows(cached, h)
BY ClaimsStand DEF GoodRows

LEMMA RunStands ==
    ASSUME NEW g, NEW h, Grows(g, h), NEW a, NEW saved, GoodRun(a, g, saved)
    PROVE  GoodRun(a, h, saved)
<1> SUFFICES ASSUME a # None PROVE GoodRun(a, h, saved)
  BY DEF GoodRun
<1>1. \A r \in DOMAIN a.seen : a.seen[r].push \in Nat /\ a.seen[r].push <= h[r].push
  BY DEF GoodRun, Grows
<1>2. \A r \in DOMAIN a.tags : Claim(h[r], a.seen[r].push, a.tags[r], a.tags[r].table)
  BY ClaimsStand DEF GoodRun
<1>3. QED
  BY <1>1, <1>2 DEF GoodRun

LEMMA ScanStands ==
    ASSUME NEW g, NEW h, Grows(g, h), NEW s, NEW a, NEW saved, NEW t,
           GoodRun(a, g, saved), GoodScan(s, a, g, t)
    PROVE  GoodScan(s, a, h, t)
<1> SUFFICES ASSUME s # None PROVE GoodScan(s, a, h, t)
  BY DEF GoodScan
<1>1. \A r \in DOMAIN s.found : Claim(h[r], a.seen[r].push, s.found[r], t)
  BY ClaimsStand DEF GoodScan, GoodRun
<1>2. QED
  BY <1>1 DEF GoodScan

LEMMA SnapStands ==
    ASSUME NEW g, NEW h, Grows(g, h), NEW s, NEW saved, GoodSnap(s, g, saved)
    PROVE  GoodSnap(s, h, saved)
BY ClaimsStand DEF GoodSnap

\* More runs may have been saved.
LEMMA SavedStands ==
    ASSUME NEW g, NEW a, NEW saved, NEW more, saved \subseteq more, GoodRun(a, g, saved)
    PROVE  GoodRun(a, g, more)
BY DEF GoodRun, Recorded

-----------------------------------------------------------------------------
\* What the steps of a run put together.

\* What is shown is in the pool.
LEMMA ShownInPool ==
    ASSUME NEW pool, NEW base
    PROVE  Shown(pool, base) \subseteq DOMAIN pool
BY DEF Shown, ByStars, ByGrowth, Gained

\* A run begins without a claim, and stands on the snapshot if it is an interim look.
LEMMA Began ==
    ASSUME GoodSnap(snap, github, ends), NEW auto, NEW record, NEW notify,
           Begin(auto, record, notify)
    PROVE  GoodRun(run', github, ends)
<1>1. /\ DOMAIN run' = RunFields
      /\ run'.interim = IF ~record /\ snap # NoSnapshot THEN cycleUpdatedAt(snap) ELSE None
      /\ run'.pool = <<>> /\ run'.seen = <<>> /\ run'.tags = <<>>
  BY DEF Begin, RunFields
<1>2. DOMAIN run'.pool = {} /\ DOMAIN run'.seen = {} /\ DOMAIN run'.tags = {}
  BY <1>1
<1>3. run'.interim # None => Recorded(run'.interim, ends)
  BY <1>1 DEF GoodSnap
<1>4. QED
  BY <1>1, <1>2, <1>3 DEF GoodRun

\* The search names the pushes GitHub has.
LEMMA Searched ==
    ASSUME GithubOK, GoodRun(run, github, ends), At("search"), SearchGives
    PROVE  GoodRun(run', github, ends)
<1>1. PICK repos \in SUBSET Repos \ {{}} : \E pool \in [repos -> world.stars] :
         run' = [run EXCEPT !.stage = "links",
                            !.pool = pool,
                            !.seen = [r \in repos |-> [push |-> github[r].push,
                                                       text |-> github[r].text]],
                            !.base = previousSnapshotDate(Day(run.start))]
  BY DEF SearchGives
<1>2. PICK pool \in [repos -> world.stars] :
         run' = [run EXCEPT !.stage = "links",
                            !.pool = pool,
                            !.seen = [r \in repos |-> [push |-> github[r].push,
                                                       text |-> github[r].text]],
                            !.base = previousSnapshotDate(Day(run.start))]
  BY <1>1
<1>3. run # None /\ DOMAIN run = RunFields
  BY DEF At, GoodRun
<1>4. /\ DOMAIN run' = RunFields /\ run'.interim = run.interim /\ run'.tags = run.tags
      /\ run'.stage = "links"
      /\ run'.pool = pool
      /\ run'.seen = [r \in repos |-> [push |-> github[r].push, text |-> github[r].text]]
  BY <1>2, <1>3 DEF RunFields
<1>5. \A r \in repos : github[r].push \in Nat /\ github[r].push <= github[r].push
  BY DEF GithubOK, Contents
<1>6. QED
  BY <1>3, <1>4, <1>5 DEF GoodRun, At

\* A round of link checks takes repositories out of the pool.
LEMMA LinksChecked ==
    ASSUME GoodRun(run, github, ends), CheckLinks
    PROVE  GoodRun(run', github, ends)
<1>1. run # None /\ DOMAIN run = RunFields /\ run.stage = "links"
  BY DEF CheckLinks, At, GoodRun
<1>2. CASE run' = [run EXCEPT !.stage = "scan"]
  <2>1. /\ DOMAIN run' = RunFields /\ run'.interim = run.interim /\ run'.tags = run.tags
        /\ run'.stage = "scan" /\ run'.pool = run.pool /\ run'.seen = run.seen
    BY <1>1, <1>2 DEF RunFields
  <2>2. QED
    BY <1>1, <2>1 DEF GoodRun
<1>3. CASE \E dead, pending :
              run' = [run EXCEPT !.stage = IF dead = {} THEN "scan" ELSE "links",
                                 !.checked = @ \union pending,
                                 !.round = @ + 1,
                                 !.pool = Restrict(@, DOMAIN @ \ dead)]
  <2>1. PICK dead, pending :
              run' = [run EXCEPT !.stage = IF dead = {} THEN "scan" ELSE "links",
                                 !.checked = @ \union pending,
                                 !.round = @ + 1,
                                 !.pool = Restrict(@, DOMAIN @ \ dead)]
    BY <1>3
  <2>2. /\ DOMAIN run' = RunFields /\ run'.interim = run.interim /\ run'.tags = run.tags
        /\ run'.stage \in {"scan", "links"} /\ run'.seen = run.seen
        /\ run'.pool = Restrict(run.pool, DOMAIN run.pool \ dead)
    BY <1>1, <2>1 DEF RunFields
  <2>3. DOMAIN run'.pool \subseteq DOMAIN run.pool
    BY <2>2 DEF Restrict
  <2>4. QED
    BY <1>1, <2>2, <2>3 DEF GoodRun
<1>4. QED
  BY <1>2, <1>3 DEF CheckLinks

\* The scan takes over from the cache what is of the push and of the table of now.
LEMMA ScanBegun ==
    ASSUME GithubOK, GoodRows(rows, github), GoodRun(run, github, ends), BeginScan
    PROVE  GoodScan(scan', run, github, table)
<1> DEFINE shown == RunShown
           seen == [r \in DOMAIN run.seen |-> run.seen[r].push]
           hits == {r \in shown : CacheHit(r, seen[r])}
           pending == shown \ hits
<1>1. run # None /\ run.stage = "scan"
  BY DEF BeginScan, At
<1>2. shown \subseteq DOMAIN run.seen /\ shown \subseteq Repos
  BY <1>1, ShownInPool DEF RunShown, GoodRun
<1>3. \E todo \in SUBSET pending :
         scan' = [seen |-> seen, hits |-> hits, todo |-> todo, busy |-> {}, limited |-> FALSE,
                  found |-> [r \in hits \cup (pending \ todo) |->
                                IF r \in hits THEN [kind |-> rows[r].kind, sep |-> rows[r].sep]
                                ELSE UnknownScan]]
  <2>1. \A b : Affordable(pending, Earlier, b) \subseteq pending
    BY DEF Affordable
  <2>2. QED
    BY <2>1 DEF BeginScan, StartScan
<1>4. PICK todo \in SUBSET pending :
         scan' = [seen |-> seen, hits |-> hits, todo |-> todo, busy |-> {}, limited |-> FALSE,
                  found |-> [r \in hits \cup (pending \ todo) |->
                                IF r \in hits THEN [kind |-> rows[r].kind, sep |-> rows[r].sep]
                                ELSE UnknownScan]]
  BY <1>3
<1>5. /\ DOMAIN scan' = ScanFields /\ scan'.seen = seen /\ scan'.todo = todo /\ scan'.busy = {}
      /\ DOMAIN scan'.found = hits \cup (pending \ todo)
      /\ \A r \in DOMAIN scan'.found :
            scan'.found[r] = IF r \in hits THEN [kind |-> rows[r].kind, sep |-> rows[r].sep]
                             ELSE UnknownScan
  BY <1>4 DEF ScanFields
<1>6. \A r \in DOMAIN scan'.found : Claim(github[r], run.seen[r].push, scan'.found[r], table)
  <2>1. SUFFICES ASSUME NEW r \in hits \cup (pending \ todo)
                 PROVE  Claim(github[r], run.seen[r].push,
                              IF r \in hits THEN [kind |-> rows[r].kind, sep |-> rows[r].sep]
                              ELSE UnknownScan, table)
    BY <1>5
  <2>2. r \in DOMAIN run.seen /\ r \in Repos /\ seen[r] = run.seen[r].push
    BY <1>2
  <2>3. run.seen[r].push \in Nat /\ run.seen[r].push <= github[r].push
    BY <1>1, <2>2 DEF GoodRun
  <2>4. CASE r \in hits
    <3>1. rows[r] # None /\ rows[r].table = table /\ rows[r].push = run.seen[r].push
      BY <2>2, <2>4 DEF CacheHit
    <3>2. Claim(github[r], run.seen[r].push, rows[r], table)
      BY <2>2, <3>1 DEF GoodRows
    <3> DEFINE verdict == [kind |-> rows[r].kind, sep |-> rows[r].sep]
    <3>3. verdict.kind = rows[r].kind /\ verdict.sep = rows[r].sep
      OBVIOUS
    <3> HIDE DEF verdict
    <3>4. Claim(github[r], run.seen[r].push, verdict, table)
      BY <3>2, <3>3, SameTruth DEF Claim
    <3>5. QED
      BY <2>4, <3>4 DEF verdict
  <2>5. CASE r \notin hits
    BY <2>3, <2>5, UnknownIsTrue DEF Claim
  <2>6. QED
    BY <2>4, <2>5
<1>7. QED
  BY <1>1, <1>2, <1>4, <1>5, <1>6 DEF GoodScan

\* A scan goes on: repositories leave the list, and what is found is true.
LEMMA ScanGoesOn ==
    ASSUME NEW g, NEW a, NEW t, NEW s, s # None, GoodScan(s, a, g, t),
           NEW u, DOMAIN u = ScanFields, u.seen = s.seen, u.todo \subseteq s.todo,
           u.busy \subseteq [repo : DOMAIN a.seen, main : BOOLEAN],
           \/ u.found = s.found
           \/ \E r \in DOMAIN a.seen : \E v : Claim(g[r], a.seen[r].push, v, t) /\ u.found = With(s.found, r, v)
    PROVE  GoodScan(u, a, g, t)
<1>1. /\ a # None /\ a.stage = "scan" /\ s.seen = [r \in DOMAIN a.seen |-> a.seen[r].push]
      /\ s.todo \subseteq DOMAIN a.seen /\ DOMAIN s.found \subseteq DOMAIN a.seen
      /\ \A r \in DOMAIN s.found : Claim(g[r], a.seen[r].push, s.found[r], t)
  BY DEF GoodScan
<1>2. /\ DOMAIN u.found \subseteq DOMAIN a.seen
      /\ \A r \in DOMAIN u.found : Claim(g[r], a.seen[r].push, u.found[r], t)
  <2>1. CASE u.found = s.found
    BY <1>1, <2>1
  <2>2. CASE \E r \in DOMAIN a.seen : \E v :
                Claim(g[r], a.seen[r].push, v, t) /\ u.found = With(s.found, r, v)
    <3>1. PICK r \in DOMAIN a.seen :
             \E v : Claim(g[r], a.seen[r].push, v, t) /\ u.found = With(s.found, r, v)
      BY <2>2
    <3>2. PICK v : Claim(g[r], a.seen[r].push, v, t) /\ u.found = With(s.found, r, v)
      BY <3>1
    <3>3. /\ DOMAIN u.found = DOMAIN s.found \cup {r}
          /\ \A q \in DOMAIN u.found : u.found[q] = IF q = r THEN v ELSE s.found[q]
      BY <3>2 DEF With
    <3>4. QED
      BY <1>1, <3>2, <3>3
  <2>3. QED
    BY <2>1, <2>2
<1>3. QED
  BY <1>1, <1>2 DEF GoodScan

\* A repository of the list may be left unknown.
LEMMA UnknownIsClaim ==
    ASSUME NEW g, NEW a, NEW saved, a # None, GoodRun(a, g, saved), NEW r \in DOMAIN a.seen, NEW t
    PROVE  Claim(g[r], a.seen[r].push, UnknownScan, t)
BY UnknownIsTrue DEF GoodRun, Claim

LEMMA RepoTaken ==
    ASSUME GoodRun(run, github, ends), GoodScan(scan, run, github, table), TakeRepo(Earlier)
    PROVE  GoodScan(scan', run, github, table)
<1>1. scan # None /\ DOMAIN scan = ScanFields /\ run # None
  BY DEF TakeRepo, GoodScan
<1>2. PICK r \in scan.todo :
         scan' = IF scan.limited
                 THEN [scan EXCEPT !.todo = @ \ {r}, !.found = With(@, r, UnknownScan)]
                 ELSE [scan EXCEPT !.todo = @ \ {r},
                                   !.busy = @ \cup {[repo |-> r, main |-> r \notin NamedBranch]}]
  BY DEF TakeRepo
<1>3. r \in DOMAIN run.seen
  BY <1>1 DEF GoodScan
<1>4. scan.busy \subseteq [repo : DOMAIN run.seen, main : BOOLEAN]
  BY <1>1 DEF GoodScan
<1>5. CASE scan.limited
  <2>1. scan' = [scan EXCEPT !.todo = @ \ {r}, !.found = With(@, r, UnknownScan)]
    BY <1>2, <1>5
  <2>2. /\ DOMAIN scan' = ScanFields /\ scan'.seen = scan.seen /\ scan'.todo \subseteq scan.todo
        /\ scan'.busy = scan.busy /\ scan'.found = With(scan.found, r, UnknownScan)
    BY <1>1, <2>1 DEF ScanFields
  <2>3. Claim(github[r], run.seen[r].push, UnknownScan, table)
    BY <1>1, <1>3, UnknownIsClaim
  <2>4. QED
    BY <1>1, <1>3, <1>4, <2>2, <2>3, ScanGoesOn
<1>6. CASE ~scan.limited
  <2>1. scan' = [scan EXCEPT !.todo = @ \ {r},
                             !.busy = @ \cup {[repo |-> r, main |-> r \notin NamedBranch]}]
    BY <1>2, <1>6
  <2>2. /\ DOMAIN scan' = ScanFields /\ scan'.seen = scan.seen /\ scan'.todo \subseteq scan.todo
        /\ scan'.busy = scan.busy \cup {[repo |-> r, main |-> r \notin NamedBranch]}
        /\ scan'.found = scan.found
    BY <1>1, <2>1 DEF ScanFields
  <2>3. [repo |-> r, main |-> r \notin NamedBranch] \in [repo : DOMAIN run.seen, main : BOOLEAN]
    BY <1>3
  <2>4. QED
    BY <1>1, <1>4, <2>2, <2>3, ScanGoesOn
<1>7. QED
  BY <1>5, <1>6

\* What a worker finds is true of what GitHub has, or nothing.
LEMMA RepoScanned ==
    ASSUME GithubOK, GoodRun(run, github, ends), GoodScan(scan, run, github, table), ScanRepo
    PROVE  GoodScan(scan', run, github, table)
<1>1. scan # None /\ DOMAIN scan = ScanFields /\ run # None
  BY DEF ScanRepo, GoodScan
<1>2. PICK b \in scan.busy : TreeRefused(b) \/ TreeMissing(b) \/ TreeListed(b)
  BY DEF ScanRepo
<1>3. scan.busy \subseteq [repo : DOMAIN run.seen, main : BOOLEAN]
  BY <1>1 DEF GoodScan
<1>4. b.repo \in DOMAIN run.seen /\ b.repo \in Repos /\ b \in [repo : DOMAIN run.seen, main : BOOLEAN]
  BY <1>1, <1>2, <1>3 DEF GoodRun
<1>5. Claim(github[b.repo], run.seen[b.repo].push, UnknownScan, table)
  BY <1>1, <1>4, UnknownIsClaim
<1>6. ASSUME NEW v, Claim(github[b.repo], run.seen[b.repo].push, v, table)
      PROVE  GoodScan(Settled(b, v), run, github, table)
  <2>1. /\ DOMAIN Settled(b, v) = ScanFields
        /\ Settled(b, v).seen = scan.seen /\ Settled(b, v).todo = scan.todo
        /\ Settled(b, v).busy \subseteq scan.busy /\ Settled(b, v).found = With(scan.found, b.repo, v)
    BY <1>1 DEF Settled, ScanFields
  <2>2. QED
    BY <1>1, <1>3, <1>4, <1>6, <2>1, ScanGoesOn
<1>7. CASE TreeRefused(b)
  <2>1. scan' = [Settled(b, UnknownScan) EXCEPT !.limited = TRUE]
    BY <1>7 DEF TreeRefused
  <2>2. Settled(b, UnknownScan) = [scan EXCEPT !.busy = @ \ {b}, !.found = With(@, b.repo, UnknownScan)]
    BY DEF Settled
  <2>3. /\ DOMAIN scan' = ScanFields /\ scan'.seen = scan.seen /\ scan'.todo = scan.todo
        /\ scan'.busy \subseteq scan.busy /\ scan'.found = With(scan.found, b.repo, UnknownScan)
    BY <1>1, <2>1, <2>2 DEF ScanFields
  <2>4. QED
    BY <1>1, <1>3, <1>4, <1>5, <2>3, ScanGoesOn
<1>8. CASE TreeMissing(b)
  <2>1. CASE b.main
    <3>1. scan' = [scan EXCEPT !.busy = (@ \ {b}) \union {[b EXCEPT !.main = FALSE]}]
      BY <1>8, <2>1 DEF TreeMissing
    <3>2. [b EXCEPT !.main = FALSE] \in [repo : DOMAIN run.seen, main : BOOLEAN]
      BY <1>4
    <3>3. /\ DOMAIN scan' = ScanFields /\ scan'.seen = scan.seen /\ scan'.todo = scan.todo
          /\ scan'.busy = (scan.busy \ {b}) \cup {[b EXCEPT !.main = FALSE]}
          /\ scan'.found = scan.found
      BY <1>1, <3>1 DEF ScanFields
    <3>4. QED
      BY <1>1, <1>3, <3>2, <3>3, ScanGoesOn
  <2>2. CASE ~b.main
    BY <1>5, <1>6, <1>8, <2>2 DEF TreeMissing
  <2>3. QED
    BY <2>1, <2>2
<1>9. CASE TreeListed(b)
  <2> DEFINE files == github[b.repo].files
             visible(truncated) == IF truncated THEN Front(files) ELSE files
  <2>1. files \in Seq(FileKinds)
    BY <1>4 DEF GithubOK, Contents
  <2>2. PICK truncated \in {FALSE} \union {files # <<>>} :
            \E read \in SUBSET Sampled(Len(visible(truncated))) :
                scan' = Settled(b, Verdict(visible(truncated),
                                           ListedTotal(visible(truncated), truncated), read))
    BY <1>9 DEF TreeListed
  <2>3. PICK read \in SUBSET Sampled(Len(visible(truncated))) :
                scan' = Settled(b, Verdict(visible(truncated),
                                           ListedTotal(visible(truncated), truncated), read))
    BY <2>2
  <2>4. truncated \in BOOLEAN /\ (truncated => files # <<>>)
    OBVIOUS
  <2> DEFINE verdict == Verdict(visible(truncated), ListedTotal(visible(truncated), truncated), read)
  <2>5. IsTrueOf(verdict, files, table)
    BY <2>1, <2>4, VerdictIsTrue
  <2>6. scan' = Settled(b, verdict)
    BY <2>3
  <2>7. run.seen[b.repo].push \in Nat /\ run.seen[b.repo].push <= github[b.repo].push
    BY <1>1, <1>4 DEF GoodRun
  <2> HIDE DEF verdict
  <2>8. Claim(github[b.repo], run.seen[b.repo].push, verdict, table)
    BY <2>5, <2>7 DEF Claim
  <2>9. QED
    BY <1>6, <2>6, <2>8
<1>10. QED
  BY <1>2, <1>7, <1>8, <1>9

\* What was found is kept in the cache under the push the search had named, and
\* goes into the tags with the table it was found with.
LEMMA ScanEnded ==
    ASSUME GoodRows(rows, github), GoodRun(run, github, ends),
           GoodScan(scan, run, github, table), EndScan
    PROVE  GoodRows(rows', github) /\ GoodRun(run', github, ends)
<1>1. scan # None /\ run # None /\ DOMAIN run = RunFields
  BY DEF EndScan, ScanDone, At, GoodRun
<1>2. /\ scan.seen = [r \in DOMAIN run.seen |-> run.seen[r].push]
      /\ DOMAIN scan.found \subseteq DOMAIN run.seen /\ DOMAIN run.seen \subseteq Repos
      /\ \A r \in DOMAIN scan.found : Claim(github[r], run.seen[r].push, scan.found[r], table)
  BY <1>1 DEF GoodScan, GoodRun
<1>3. GoodRows(rows', github)
  <2>1. rows' = Saved(scan.found)
    BY DEF EndScan
  <2>2. DOMAIN rows' = Repos
    BY <2>1 DEF Saved
  <2>3. SUFFICES ASSUME NEW r \in Repos, rows'[r] # None
                 PROVE  Claim(github[r], rows'[r].push, rows'[r], rows'[r].table)
    BY <2>2 DEF GoodRows
  <2>4. CASE r \in DOMAIN scan.found \ scan.hits /\ scan.found[r].kind # "unknown"
    <3> DEFINE row == [push |-> scan.seen[r], table |-> table,
                       kind |-> scan.found[r].kind, sep |-> scan.found[r].sep]
    <3>1. rows'[r] = row
      BY <2>1, <2>4 DEF Saved
    <3>2. /\ row.push = run.seen[r].push /\ row.table = table
          /\ row.kind = scan.found[r].kind /\ row.sep = scan.found[r].sep
      BY <1>2, <2>4
    <3> HIDE DEF row
    <3>3. Claim(github[r], run.seen[r].push, row, table)
      BY <1>2, <2>4, <3>2, SameTruth DEF Claim
    <3>4. QED
      BY <3>1, <3>2, <3>3
  <2>5. CASE ~(r \in DOMAIN scan.found \ scan.hits /\ scan.found[r].kind # "unknown")
    <3>1. rows'[r] = rows[r]
      BY <2>1, <2>5 DEF Saved
    <3>2. QED
      BY <2>3, <3>1 DEF GoodRows
  <2>6. QED
    BY <2>4, <2>5
<1>4. GoodRun(run', github, ends)
  <2> DEFINE tags == [r \in DOMAIN scan.found |-> Tag(scan.found[r])]
  <2>1. run' = [run EXCEPT !.stage = "write", !.tags = tags]
    BY DEF EndScan
  <2>2. /\ DOMAIN run' = RunFields /\ run'.interim = run.interim /\ run'.stage = "write"
        /\ run'.pool = run.pool /\ run'.seen = run.seen /\ run'.tags = tags
    BY <1>1, <2>1 DEF RunFields
  <2>3. \A r \in DOMAIN tags : Claim(github[r], run.seen[r].push, tags[r], tags[r].table)
    <3>1. SUFFICES ASSUME NEW r \in DOMAIN scan.found
                   PROVE  Claim(github[r], run.seen[r].push, tags[r], tags[r].table)
      OBVIOUS
    <3>2. /\ tags[r].kind = scan.found[r].kind /\ tags[r].sep = scan.found[r].sep
          /\ tags[r].table = table
      BY DEF Tag
    <3> HIDE DEF tags
    <3>3. QED
      BY <1>2, <3>2, SameTruth DEF Claim
  <2>4. DOMAIN tags = DOMAIN scan.found
    OBVIOUS
  <2> HIDE DEF tags
  <2>5. QED
    BY <1>1, <1>2, <2>2, <2>3, <2>4 DEF GoodRun
<1>5. QED
  BY <1>3, <1>4

\* What is saved as the snapshot stands on a recorded run and says what the run found.
LEMMA SettledSnap ==
    ASSUME now \in Nat, GoodRun(run, github, ends), At("write"), NEW made,
           NEW saved, ends \subseteq saved, run.interim = None => now \in saved
    PROVE  GoodSnap(Fresh(made), github, saved)
<1> DEFINE fresh == Fresh(made)
<1>1. run # None
  BY DEF At
<1>2. RunShown \subseteq DOMAIN run.pool /\ DOMAIN run.pool \subseteq DOMAIN run.seen
      /\ DOMAIN run.seen \subseteq Repos
  BY <1>1, ShownInPool DEF RunShown, GoodRun
<1>3. fresh.at = now /\ fresh.interim = run.interim
  BY DEF Fresh
<1>4. /\ DOMAIN fresh.entries = RunShown
      /\ \A r \in RunShown :
           /\ fresh.entries[r].push = run.seen[r].push
           /\ fresh.entries[r].text = run.seen[r].text
           /\ fresh.entries[r].tag = IF r \in DOMAIN run.tags THEN run.tags[r] ELSE None
           /\ fresh.entries[r].summary = SummaryOf(r, made)
  BY DEF Fresh
<1>5. Recorded(cycleUpdatedAt(fresh), saved)
  <2>1. CASE run.interim = None
    <3>1. cycleUpdatedAt(fresh) = now
      BY <1>3, <2>1 DEF cycleUpdatedAt
    <3>2. QED
      BY <2>1, <3>1 DEF Recorded
  <2>2. CASE run.interim # None
    <3>1. cycleUpdatedAt(fresh) = run.interim
      BY <1>3, <2>2 DEF cycleUpdatedAt
    <3>2. Recorded(run.interim, ends)
      BY <1>1, <2>2 DEF GoodRun
    <3>3. QED
      BY <3>1, <3>2 DEF Recorded
  <2>3. QED
    BY <2>1, <2>2
<1> HIDE DEF fresh
<1>6. ASSUME NEW r \in RunShown
      PROVE  /\ fresh.entries[r].tag # None =>
                   Claim(github[r], fresh.entries[r].push, fresh.entries[r].tag, fresh.entries[r].tag.table)
             /\ fresh.entries[r].summary \in {None, fresh.entries[r].text}
  <2>1. \A q \in DOMAIN run.tags : Claim(github[q], run.seen[q].push, run.tags[q], run.tags[q].table)
    BY <1>1 DEF GoodRun
  <2>2. SummaryOf(r, made) \in {None, run.seen[r].text}
    BY DEF SummaryOf
  <2>3. QED
    BY <1>4, <2>1, <2>2
<1>7. GoodSnap(fresh, github, saved)
  BY <1>2, <1>4, <1>5, <1>6 DEF GoodSnap
<1>8. QED
  BY <1>7 DEF fresh

-----------------------------------------------------------------------------
LEMMA InitInv == Init => IInv
<1> SUFFICES ASSUME Init PROVE IInv
  OBVIOUS
<1>1. GithubOK
  <2>1. world \in Worlds /\ table = 1 /\ world.trees \subseteq Seq(FileKinds)
    BY SkillsAssumption DEF Init, FileKinds
  <2>2. github \in [Repos -> [push : {0}, text : {0}, files : world.trees]]
    BY DEF Init
  <2>3. [push : {0}, text : {0}, files : world.trees] \subseteq Contents
    BY <2>1 DEF Contents
  <2>4. QED
    BY <2>1, <2>2, <2>3 DEF GithubOK, Tables
<1>2. now = 0 /\ rows = [r \in Repos |-> None] /\ run = None /\ scan = None /\ snap = NoSnapshot
  BY DEF Init
<1>3. QED
  BY <1>1, <1>2 DEF IInv, GoodRows, GoodRun, GoodScan, GoodSnap

\* One step per action, and under it what the action changes of the invariant.
LEMMA StepInv == IInv /\ [Next]_vars => IInv'
<1> SUFFICES ASSUME IInv, [Next]_vars PROVE IInv'
  OBVIOUS
<1> USE DEF IInv
<1>1. CASE ManualRequest
  <2>1. scan = None /\ GoodRun(run', github, ends)
    BY <1>1, Began DEF ManualRequest, GoodScan
  <2>2. UNCHANGED <<scanVars, now, snap, ends>>
    BY <1>1 DEF ManualRequest
  <2>3. QED
    BY <2>1, <2>2 DEF scanVars, GithubOK, GoodScan
<1>2. CASE CatchUp \/ GiveUpWaiting \/ Tick
  <2>1. UNCHANGED <<scanVars, snap, run, ends>> /\ now' \in Nat
    BY <1>2 DEF CatchUp, GiveUpWaiting, Tick
  <2>2. QED
    BY <2>1 DEF scanVars, GithubOK
<1>3. CASE GetSlot
  <2>1. scan = None /\ GoodRun(run', github, ends)
    BY <1>3, Began DEF GetSlot, GoodScan
  <2>2. UNCHANGED <<scanVars, now, snap, ends>>
    BY <1>3 DEF GetSlot
  <2>3. QED
    BY <2>1, <2>2 DEF scanVars, GithubOK, GoodScan
<1>4. CASE SearchFails \/ RunThrows
  <2>1. scan = None /\ run' = None
    BY <1>4 DEF SearchFails, RunThrows, At, RunFails, GoodScan
  <2>2. UNCHANGED <<scanVars, now, snap, ends>>
    BY <1>4 DEF SearchFails, RunThrows
  <2>3. QED
    BY <2>1, <2>2 DEF scanVars, GithubOK, GoodScan, GoodRun
<1>5. CASE SearchGives
  <2>1. At("search")
    BY <1>5 DEF SearchGives
  <2>2. scan = None /\ GoodRun(run', github, ends)
    BY <1>5, <2>1, Searched DEF At, GoodScan
  <2>3. UNCHANGED <<scanVars, now, snap, ends>>
    BY <1>5 DEF SearchGives
  <2>4. QED
    BY <2>2, <2>3 DEF scanVars, GithubOK, GoodScan
<1>6. CASE CheckLinks
  <2>1. scan = None /\ GoodRun(run', github, ends)
    BY <1>6, LinksChecked DEF CheckLinks, At, GoodScan
  <2>2. UNCHANGED <<scanVars, now, snap, ends>>
    BY <1>6 DEF CheckLinks
  <2>3. QED
    BY <2>1, <2>2 DEF scanVars, GithubOK, GoodScan
<1>7. CASE BeginScan
  <2>1. GoodScan(scan', run, github, table)
    BY <1>7, ScanBegun
  <2>2. UNCHANGED <<github, table, rows, world, now, snap, run, ends>>
    BY <1>7 DEF BeginScan, StartScan, cycle
  <2>3. QED
    BY <2>1, <2>2 DEF GithubOK
<1>8. CASE TakeRepo(Earlier) /\ UNCHANGED cycle
  <2>1. GoodScan(scan', run, github, table)
    BY <1>8, RepoTaken
  <2>2. UNCHANGED <<github, table, rows, world, now, snap, run, ends>>
    BY <1>8 DEF TakeRepo, cycle
  <2>3. QED
    BY <2>1, <2>2 DEF GithubOK
<1>9. CASE ScanRepo /\ UNCHANGED cycle
  <2>1. GoodScan(scan', run, github, table)
    BY <1>9, RepoScanned
  <2>2. UNCHANGED <<github, table, rows, world, now, snap, run, ends>>
    BY <1>9 DEF ScanRepo, cycle
  <2>3. QED
    BY <2>1, <2>2 DEF GithubOK
<1>10. CASE EndScan
  <2>1. GoodRows(rows', github) /\ GoodRun(run', github, ends) /\ scan' = None
    BY <1>10, ScanEnded DEF EndScan
  <2>2. UNCHANGED <<github, table, world, now, snap, ends>>
    BY <1>10 DEF EndScan
  <2>3. QED
    BY <2>1, <2>2 DEF GithubOK, GoodScan
<1>11. CASE ScanThrows
  <2>1. scan' = None /\ run # None /\ run' = [run EXCEPT !.stage = "write"]
    BY <1>11 DEF ScanThrows, At
  <2>2. DOMAIN run = RunFields
    BY <2>1 DEF GoodRun
  <2>3. /\ DOMAIN run' = RunFields /\ run'.interim = run.interim /\ run'.stage = "write"
        /\ run'.pool = run.pool /\ run'.seen = run.seen /\ run'.tags = run.tags
    BY <2>1, <2>2 DEF RunFields
  <2>4. GoodRun(run', github, ends)
    BY <2>1, <2>3 DEF GoodRun
  <2>5. UNCHANGED <<github, table, rows, world, now, snap, ends>>
    BY <1>11 DEF ScanThrows
  <2>6. QED
    BY <2>1, <2>4, <2>5 DEF GithubOK, GoodScan
<1>12. CASE Settle
  <2>1. At("write") /\ run # None /\ scan = None
    BY <1>12 DEF Settle, At, GoodScan
  <2>2. UNCHANGED <<scanVars, now>>
    BY <1>12 DEF Settle
  <2>3. GoodRun(run', github, ends') /\ GoodSnap(snap', github, ends')
    <3>1. CASE run.pool = <<>>
      <4>1. run' = None /\ snap' = snap /\ ends' = ends
        BY <1>12, <3>1 DEF Settle, RunFails
      <4>2. QED
        BY <4>1 DEF GoodRun
    <3>2. CASE run.pool # <<>>
      <4>1. PICK made \in SUBSET Unsummarised : snap' = Fresh(made)
        BY <1>12, <3>2 DEF Settle
      <4>2. /\ ends' = IF run.interim = None THEN ends \union {now} ELSE ends
            /\ run' = IF run.notify THEN [run EXCEPT !.stage = "mail"] ELSE None
        BY <1>12, <3>2 DEF Settle
      <4>3. ends \subseteq ends' /\ (run.interim = None => now \in ends')
        BY <4>2
      <4>4. GoodSnap(snap', github, ends')
        BY <2>1, <4>1, <4>3, SettledSnap
      <4>5. GoodRun(run, github, ends')
        BY <4>3, SavedStands
      <4>6. GoodRun(run', github, ends')
        <5>1. CASE run' = None
          BY <5>1 DEF GoodRun
        <5>2. CASE run' = [run EXCEPT !.stage = "mail"]
          <6>1. DOMAIN run = RunFields
            BY <2>1 DEF GoodRun
          <6>2. /\ DOMAIN run' = RunFields /\ run'.interim = run.interim /\ run'.stage = "mail"
                /\ run'.pool = run.pool /\ run'.seen = run.seen /\ run'.tags = run.tags
            BY <5>2, <6>1 DEF RunFields
          <6>3. QED
            BY <2>1, <4>5, <6>2 DEF GoodRun
        <5>3. QED
          BY <4>2, <5>1, <5>2
      <4>7. QED
        BY <4>4, <4>6
    <3>3. QED
      BY <3>1, <3>2
  <2>4. QED
    BY <2>1, <2>2, <2>3 DEF scanVars, GithubOK, GoodScan
<1>13. CASE SendMail
  <2>1. scan = None /\ run' = None
    BY <1>13 DEF SendMail, At, GoodScan
  <2>2. UNCHANGED <<scanVars, now, snap, ends>>
    BY <1>13 DEF SendMail
  <2>3. QED
    BY <2>1, <2>2 DEF scanVars, GithubOK, GoodScan, GoodRun
<1>14. CASE Restart
  <2>1. scan' = None /\ run' = None /\ table' \in Tables
    BY <1>14 DEF Restart, GithubOK, Tables
  <2>2. UNCHANGED <<github, rows, world, now, snap, ends>>
    BY <1>14 DEF Restart
  <2>3. QED
    BY <2>1, <2>2 DEF GithubOK, GoodScan, GoodRun
<1>15. CASE RepoChanges /\ UNCHANGED cycle
  <2>1. Grows(github, github') /\ github' \in [Repos -> Contents]
    BY <1>15, RepoChangesGrow
  <2>2. UNCHANGED <<table, rows, scan, world, now, snap, run, ends>>
    BY <1>15 DEF RepoChanges, cycle
  <2>3. GithubOK'
    BY <2>1, <2>2 DEF GithubOK
  <2>4. GoodRows(rows, github') /\ GoodRun(run, github', ends)
    BY <2>1, RowsStand, RunStands
  <2>5. GoodScan(scan, run, github', table) /\ GoodSnap(snap, github', ends)
    BY <2>1, ScanStands, SnapStands
  <2>6. QED
    BY <2>2, <2>3, <2>4, <2>5
<1>16. CASE UNCHANGED vars
  BY <1>16 DEF vars, scanVars, cycle, GithubOK
<1>17. QED
  BY <1>1, <1>2, <1>3, <1>4, <1>5, <1>6, <1>7, <1>8, <1>9, <1>10, <1>11, <1>12, <1>13, <1>14,
     <1>15, <1>16 DEF Next

LEMMA SkillsInv == Spec => []IInv
<1>1. Init => IInv
  BY InitInv
<1>2. IInv /\ [Next]_vars => IInv'
  BY StepInv
<1>3. QED
  BY <1>1, <1>2, PTL DEF Spec

-----------------------------------------------------------------------------
\* A quotient and a rest below the divisor are the quotient and the rest.
LEMMA ModIs ==
    ASSUME NEW n \in Nat \ {0}, NEW q \in Int, NEW r \in 0 .. n - 1
    PROVE  (n * q + r) % n = r
<1> DEFINE a == n * q + r
           p == a \div n
           m == a % n
<1>1. a \in Int /\ p \in Int /\ m \in 0 .. n - 1 /\ a = n * p + m
  BY SMTT(30)
<1> HIDE DEF p, m
<1>2. n * (q - p) = m - r
  BY <1>1, SMTT(30)
<1>3. ~(q - p >= 1)
  BY <1>1, <1>2, SMTT(30)
<1>4. ~(q - p <= -1)
  BY <1>1, <1>2, SMTT(30)
<1>5. q = p
  BY <1>1, <1>3, <1>4
<1>6. QED
  BY <1>1, <1>2, <1>5 DEF m

\* The last scheduled time lies in the past.
LEMMA BoundaryPast ==
    ASSUME NEW t \in Nat
    PROVE  Boundary(t) \in Int /\ Boundary(t) <= t
BY SkillsAssumption, SMTT(30) DEF Boundary

\* A new cycle begins with its scheduled time, and only then.
LEMMA BoundaryMoves ==
    ASSUME NEW t \in Nat
    PROVE  IF IsBoundary(t + 1) THEN Boundary(t + 1) = t + 1 ELSE Boundary(t + 1) = Boundary(t)
<1> DEFINE n == CycleLength
           q == (t + 1) \div n
           r == (t + 1) % n
<1>1. n \in Nat \ {0, 1}
  BY SkillsAssumption
<1>2. q \in Int /\ r \in 0 .. n - 1 /\ t + 1 = n * q + r
  BY <1>1, SMTT(30)
<1>3. ((t + 1) - 1) % n = t % n
  OBVIOUS
<1> HIDE DEF n, q
<1>4. CASE r = 1
  <2>1. t = n * q + 0
    BY <1>1, <1>2, <1>4, SMTT(30)
  <2>2. t % n = 0
    BY <1>1, <1>2, <2>1, ModIs
  <2>3. QED
    BY <1>4, <1>3, <2>2 DEF IsBoundary, Boundary, n
<1>5. CASE r = 0
  <2>1. t = n * (q - 1) + (n - 1) /\ t - 1 = n * (q - 1) + (n - 2)
    BY <1>1, <1>2, <1>5, SMTT(30)
  <2>2. t % n = n - 1 /\ (t - 1) % n = n - 2
    BY <1>1, <1>2, <2>1, ModIs
  <2>3. QED
    BY <1>1, <1>3, <1>5, <2>2 DEF IsBoundary, Boundary, n
<1>6. CASE r \notin {0, 1}
  <2>1. t = n * q + (r - 1) /\ t - 1 = n * q + (r - 2)
    BY <1>1, <1>2, <1>6, SMTT(30)
  <2>2. t % n = r - 1 /\ (t - 1) % n = r - 2
    <3>1. n \in Nat \ {0} /\ r - 1 \in 0 .. n - 1 /\ r - 2 \in 0 .. n - 1
      BY <1>1, <1>2, <1>6
    <3>2. (n * q + (r - 1)) % n = r - 1 /\ (n * q + (r - 2)) % n = r - 2
      BY <1>2, <3>1, ModIs
    <3>3. QED
      BY <2>1, <3>2
  <2>3. ~IsBoundary(t + 1)
    BY <1>6 DEF IsBoundary, n
  <2>4. Boundary(t + 1) = (t + 1) - (r - 1) /\ Boundary(t) = t - (r - 2)
    BY <1>3, <2>2 DEF Boundary, n
  <2>5. (t + 1) - (r - 1) = t - (r - 2)
    BY <1>2
  <2>6. QED
    BY <2>3, <2>4, <2>5
<1>7. QED
  BY <1>2, <1>4, <1>5, <1>6

-----------------------------------------------------------------------------
(***************************************************************************)
(* The invariant of the mails.  A cycle that was mailed is covered, and    *)
(* stays so: a run that records is saved with the time it was saved at,    *)
(* and an interim look stands on what the snapshot it began with stands    *)
(* on, which is the snapshot it replaces.  A run that will mail is of a    *)
(* cycle not yet mailed, since the button records only in a cycle that is  *)
(* not covered, and the scheduler's call was made either in such a cycle   *)
(* or at its scheduled time.  The call waits while an older run goes on;   *)
(* that run is of an older cycle, or the call would not have been made.    *)
(***************************************************************************)
Covers(s, t) == s # NoSnapshot /\ cycleUpdatedAt(s) >= t
Unmailed(sent, c) == c \in Cycles => sent[c] = 0

GoodMails(sent, n, s) ==
    /\ sent \in [Cycles -> {0, 1}]
    /\ \A c \in Cycles : sent[c] = 1 => c <= Boundary(n) /\ Covers(s, c)

GoodWait(w, sent, n, a) ==
    w => /\ Unmailed(sent, Boundary(n))
         /\ a # None => Boundary(a.start) < Boundary(n)

GoodNotice(a, sent, n, s) ==
    a # None =>
        /\ a.start \in Nat /\ Boundary(a.start) <= Boundary(n)
        /\ a.interim # None => ~a.notify /\ s # NoSnapshot /\ a.interim = cycleUpdatedAt(s)
        /\ a.notify => Unmailed(sent, Boundary(a.start))
        /\ a.stage = "mail" => a.notify /\ Covers(s, Boundary(a.start))

MailInv ==
    /\ GoodMails(mails, now, snap)
    /\ GoodWait(waiting, mails, now, run)
    /\ GoodNotice(run, mails, now, snap)

LEMMA CyclesAreTimes == Cycles \subseteq Int
BY SkillsAssumption DEF Cycles, Boundary

\* A cycle that is not covered was not mailed.
LEMMA UncoveredIsUnmailed ==
    ASSUME MailInv, NEW c, ~CoveredSince(c)
    PROVE  Unmailed(mails, c)
BY DEF MailInv, GoodMails, Unmailed, CoveredSince, Covers

\* A run that begins for a cycle that was not mailed, or will not mail.
LEMMA NoticeBegins ==
    ASSUME now \in Nat, NEW auto, NEW notify, Begin(auto, notify, notify),
           notify => Unmailed(mails, Boundary(now))
    PROVE  GoodNotice(run', mails, now, snap)
<1>1. /\ run'.start = now /\ run'.stage = "search" /\ run'.notify = notify
      /\ run'.interim = IF ~notify /\ snap # NoSnapshot THEN cycleUpdatedAt(snap) ELSE None
  BY DEF Begin
<1>2. Boundary(now) <= Boundary(now)
  BY BoundaryPast
<1>3. QED
  BY <1>1, <1>2 DEF GoodNotice

\* A run that goes on before its end keeps what it is to mail.
LEMMA NoticeStands ==
    ASSUME MailInv, NEW b, run # None, b.start = run.start, b.interim = run.interim,
           b.notify = run.notify, b.stage # "mail"
    PROVE  GoodNotice(b, mails, now, snap) /\ GoodWait(waiting, mails, now, b)
BY DEF MailInv, GoodNotice, GoodWait

\* When a run is saved, whatever was covered still is, and its own cycle is if it will mail.
LEMMA CoverGrows ==
    ASSUME MailInv, now \in Nat, run # None, NEW made
    PROVE  /\ \A c \in Cycles : mails[c] = 1 => Covers(Fresh(made), c)
           /\ run.notify => Covers(Fresh(made), Boundary(run.start))
<1> DEFINE fresh == Fresh(made)
<1>1. fresh.at = now /\ fresh.interim = run.interim
  BY DEF Fresh
<1>2. fresh # NoSnapshot
  <2>1. "at" \in DOMAIN fresh
    BY DEF Fresh
  <2>2. "at" \notin DOMAIN NoSnapshot
    BY DEF NoSnapshot
  <2>3. QED
    BY <2>1, <2>2
<1> HIDE DEF fresh
<1>3. Boundary(now) <= now /\ Boundary(now) \in Int
  BY BoundaryPast
<1>4. CASE run.interim = None
  <2>1. cycleUpdatedAt(fresh) = now
    BY <1>1, <1>4 DEF cycleUpdatedAt
  <2>2. \A c \in Cycles : mails[c] = 1 => c <= Boundary(now)
    BY DEF MailInv, GoodMails
  <2>3. Boundary(run.start) <= Boundary(now) /\ Boundary(run.start) \in Int
    BY BoundaryPast DEF MailInv, GoodNotice
  <2>4. QED
    BY <1>2, <1>3, <2>1, <2>2, <2>3, CyclesAreTimes DEF Covers, fresh
<1>5. CASE run.interim # None
  <2>1. cycleUpdatedAt(fresh) = cycleUpdatedAt(snap) /\ ~run.notify
    BY <1>1, <1>5 DEF cycleUpdatedAt, MailInv, GoodNotice
  <2>2. QED
    BY <1>2, <2>1 DEF Covers, MailInv, GoodMails, fresh
<1>6. QED
  BY <1>4, <1>5

LEMMA InitMail == Init => MailInv
BY DEF Init, MailInv, GoodMails, GoodWait, GoodNotice

LEMMA StepMail == IInv /\ MailInv /\ [Next]_vars => MailInv'
<1> SUFFICES ASSUME IInv, MailInv, [Next]_vars PROVE MailInv'
  OBVIOUS
<1> now \in Nat
  BY DEF IInv
<1>1. CASE ManualRequest
  <2>1. Begin(FALSE, ManualRecord, ManualRecord) /\ UNCHANGED <<now, snap, waiting, mails>> /\ ~waiting
    BY <1>1 DEF ManualRequest
  <2>2. ManualRecord => Unmailed(mails, Boundary(now))
    BY UncoveredIsUnmailed DEF ManualRecord
  <2>3. GoodNotice(run', mails, now, snap)
    BY <2>1, <2>2, NoticeBegins
  <2>4. QED
    BY <2>1, <2>3 DEF MailInv, GoodWait
<1>2. CASE CatchUp
  <2>1. UNCHANGED <<now, snap, run, mails>> /\ run = None
    BY <1>2 DEF CatchUp
  <2>2. ~CoveredSince(Boundary(now))
    BY <1>2 DEF CatchUp, CatchupTarget
  <2>3. Unmailed(mails, Boundary(now))
    BY <2>2, UncoveredIsUnmailed
  <2>4. QED
    BY <2>1, <2>3 DEF MailInv, GoodWait
<1>3. CASE GetSlot
  <2>1. Begin(TRUE, TRUE, TRUE) /\ UNCHANGED <<now, snap, mails>> /\ waiting /\ waiting' = FALSE
    BY <1>3 DEF GetSlot
  <2>2. GoodNotice(run', mails, now, snap)
    BY <2>1, NoticeBegins DEF MailInv, GoodWait
  <2>3. QED
    BY <2>1, <2>2 DEF MailInv, GoodWait
<1>4. CASE GiveUpWaiting
  BY <1>4 DEF GiveUpWaiting, MailInv, GoodWait
<1>5. CASE Tick
  <2>1. UNCHANGED <<snap, run, mails>> /\ now' = now + 1 /\ (~IsBoundary(now + 1) => waiting' = waiting)
    BY <1>5 DEF Tick
  <2>2. IF IsBoundary(now + 1) THEN Boundary(now') = now + 1 ELSE Boundary(now') = Boundary(now)
    BY <2>1, BoundaryMoves
  <2>3. Boundary(now) <= now /\ Boundary(now) \in Int
    BY BoundaryPast
  <2>4. Boundary(now) <= Boundary(now') /\ Boundary(now') \in Int
    BY <2>2, <2>3
  <2>5. GoodMails(mails, now', snap)
    BY <2>3, <2>4, CyclesAreTimes DEF MailInv, GoodMails
  <2>6. run # None => run.start \in Nat /\ Boundary(run.start) \in Int /\ Boundary(run.start) <= Boundary(now)
    BY BoundaryPast DEF MailInv, GoodNotice
  <2>7. GoodNotice(run, mails, now', snap)
    BY <2>3, <2>4, <2>6 DEF MailInv, GoodNotice
  <2>8. GoodWait(waiting', mails, now', run)
    <3>1. CASE IsBoundary(now + 1)
      <4>1. Boundary(now') > Boundary(now)
        BY <2>2, <2>3, <3>1
      <4>2. Unmailed(mails, Boundary(now'))
        BY <2>3, <2>4, <4>1 DEF MailInv, GoodMails, Unmailed
      <4>3. run # None => Boundary(run.start) < Boundary(now')
        BY <2>3, <2>4, <2>6, <4>1
      <4>4. QED
        BY <4>2, <4>3 DEF GoodWait
    <3>2. CASE ~IsBoundary(now + 1)
      <4>1. waiting' = waiting /\ Boundary(now') = Boundary(now)
        BY <2>1, <2>2, <3>2
      <4>2. QED
        BY <4>1 DEF MailInv, GoodWait
    <3>3. QED
      BY <3>1, <3>2
  <2>9. QED
    BY <2>1, <2>5, <2>7, <2>8 DEF MailInv
<1>6. CASE SearchFails \/ RunThrows \/ Restart
  <2>1. UNCHANGED <<now, snap, mails>> /\ run' = None /\ (waiting' = waiting \/ waiting' = FALSE)
    BY <1>6 DEF SearchFails, RunThrows, RunFails, Restart
  <2>2. QED
    BY <2>1 DEF MailInv, GoodNotice, GoodWait
<1>7. CASE SearchGives \/ CheckLinks \/ EndScan \/ ScanThrows
  <2>1. UNCHANGED <<now, snap, waiting, mails>> /\ run # None
    BY <1>7 DEF SearchGives, CheckLinks, EndScan, ScanThrows, At
  <2>2. DOMAIN run = RunFields
    BY <2>1 DEF IInv, GoodRun
  <2>3. /\ run'.start = run.start /\ run'.interim = run.interim
        /\ run'.notify = run.notify /\ run'.stage # "mail"
    BY <1>7, <2>2 DEF SearchGives, CheckLinks, EndScan, ScanThrows, At, RunFields
  <2>4. GoodNotice(run', mails, now, snap) /\ GoodWait(waiting, mails, now, run')
    BY <2>1, <2>3, NoticeStands
  <2>5. QED
    BY <2>1, <2>4 DEF MailInv
<1>8. CASE Settle
  <2>1. UNCHANGED <<now, waiting, mails>> /\ run # None /\ run.stage = "write"
    BY <1>8 DEF Settle, At
  <2>2. CASE run.pool = <<>>
    <3>1. run' = None /\ snap' = snap
      BY <1>8, <2>2 DEF Settle, RunFails
    <3>2. QED
      BY <2>1, <3>1 DEF MailInv, GoodNotice, GoodWait
  <2>3. CASE run.pool # <<>>
    <3>1. PICK made \in SUBSET Unsummarised : snap' = Fresh(made)
      BY <1>8, <2>3 DEF Settle
    <3>2. /\ \A c \in Cycles : mails[c] = 1 => Covers(snap', c)
          /\ run.notify => Covers(snap', Boundary(run.start))
      BY <2>1, <3>1, CoverGrows
    <3>3. GoodMails(mails, now, snap')
      BY <3>2 DEF MailInv, GoodMails
    <3>4. run' = IF run.notify THEN [run EXCEPT !.stage = "mail"] ELSE None
      BY <1>8, <2>3 DEF Settle
    <3>5. GoodNotice(run', mails, now, snap') /\ GoodWait(waiting, mails, now, run')
      <4>1. CASE run' = None
        BY <4>1 DEF MailInv, GoodNotice, GoodWait
      <4>2. CASE run.notify /\ run' = [run EXCEPT !.stage = "mail"]
        <5>1. DOMAIN run = RunFields
          BY <2>1 DEF IInv, GoodRun
        <5>2. /\ run'.start = run.start /\ run'.interim = run.interim
              /\ run'.notify = run.notify /\ run'.stage = "mail"
          BY <4>2, <5>1 DEF RunFields
        <5>3. run.interim = None
          BY <2>1, <4>2 DEF MailInv, GoodNotice
        <5>4. QED
          BY <2>1, <3>2, <4>2, <5>2, <5>3 DEF MailInv, GoodNotice, GoodWait
      <4>3. QED
        BY <3>4, <4>1, <4>2
    <3>6. QED
      BY <2>1, <3>3, <3>5 DEF MailInv
  <2>4. QED
    BY <2>2, <2>3
<1>9. CASE SendMail
  <2> DEFINE c == Boundary(run.start)
  <2>1. /\ UNCHANGED <<now, snap, waiting>> /\ run' = None
        /\ run # None /\ run.stage = "mail" /\ mails' = [mails EXCEPT ![c] = @ + 1]
    BY <1>9 DEF SendMail, At
  <2>2. run.notify /\ Covers(snap, c) /\ Unmailed(mails, c) /\ c <= Boundary(now)
    BY <2>1 DEF MailInv, GoodNotice
  <2>3. waiting => c # Boundary(now)
    BY <2>1, BoundaryPast DEF MailInv, GoodNotice, GoodWait
  <2>4. mails \in [Cycles -> {0, 1}]
    BY DEF MailInv, GoodMails
  <2> HIDE DEF c
  <2>5. mails' \in [Cycles -> {0, 1}] /\ \A d \in Cycles : mails'[d] = 1 => d = c \/ mails[d] = 1
    <3>1. CASE c \in Cycles
      <4>1. mails[c] = 0
        BY <2>2, <3>1 DEF Unmailed
      <4>2. mails' = [mails EXCEPT ![c] = 1]
        BY <2>1, <4>1
      <4>3. QED
        BY <2>4, <4>2
    <3>2. CASE c \notin Cycles
      <4>1. mails' = mails
        BY <2>1, <2>4, <3>2
      <4>2. QED
        BY <2>4, <4>1
    <3>3. QED
      BY <3>1, <3>2
  <2>6. GoodMails(mails', now, snap)
    BY <2>2, <2>5 DEF MailInv, GoodMails
  <2>7. \A d \in Cycles : d # c => mails'[d] = mails[d]
    BY <2>1, <2>4
  <2>8. GoodWait(waiting, mails', now, run')
    BY <2>1, <2>3, <2>7 DEF MailInv, GoodWait, Unmailed
  <2>9. QED
    BY <2>1, <2>6, <2>8 DEF MailInv, GoodNotice
<1>10. CASE BeginScan \/ UNCHANGED cycle \/ UNCHANGED vars
  <2>1. UNCHANGED <<now, snap, waiting, run, mails>>
    BY <1>10 DEF BeginScan, cycle, vars
  <2>2. QED
    BY <2>1 DEF MailInv
<1>11. QED
  BY <1>1, <1>2, <1>3, <1>4, <1>5, <1>6, <1>7, <1>8, <1>9, <1>10 DEF Next

-----------------------------------------------------------------------------
\* A cycle that is not caught up any more has left its record, however many
\* interim looks, failures and restarts came after it (decideManualRun,
\* snapshotCoversSince).
THEOREM CoveredCyclesAreRecorded == Spec => []CoveredMeansRecorded
<1>1. IInv => CoveredMeansRecorded
  <2> SUFFICES ASSUME IInv, NEW c \in Cycles, CoveredSince(c)
               PROVE  \E t \in ends : t >= c
    BY DEF CoveredMeansRecorded
  <2>1. snap # NoSnapshot /\ cycleUpdatedAt(snap) >= c
    BY DEF CoveredSince
  <2>2. PICK e \in ends : e \in Nat /\ cycleUpdatedAt(snap) \in Nat /\ e >= cycleUpdatedAt(snap)
    BY <2>1 DEF IInv, GoodSnap, Recorded
  <2>3. c \in Int
    BY SkillsAssumption DEF Cycles, Boundary
  <2>4. QED
    BY <2>1, <2>2, <2>3
<1>2. QED
  BY <1>1, SkillsInv, PTL

\* What the snapshot says of the files of a repository that was not pushed to
\* since is true of all of them, although it may come from the cache, a sample,
\* a cut list or the table of an older version (decideAccessKind, loadScans,
\* mergeSummaries).
THEOREM EntriesAreTrue == Spec => []EntriesTellTruth
<1>1. IInv => EntriesTellTruth
  BY DEF IInv, GoodSnap, Claim, EntriesTellTruth
<1>2. QED
  BY <1>1, SkillsInv, PTL

\* However often the button is pressed, a run fails or the process dies, and
\* though the scheduler's call may wait for the slot while another run goes on,
\* a cycle is mailed once (decideManualRun, refreshSkills, safeCatchUpSkills).
THEOREM CyclesAreMailedOnce == Spec => []MailedOncePerCycle
<1>1. Init => MailInv
  BY InitMail
<1>2. IInv /\ MailInv /\ [Next]_vars => MailInv'
  BY StepMail
<1>3. MailInv => MailedOncePerCycle
  BY DEF MailInv, GoodMails, MailedOncePerCycle
<1>4. QED
  BY <1>1, <1>2, <1>3, SkillsInv, PTL DEF Spec
=============================================================================
