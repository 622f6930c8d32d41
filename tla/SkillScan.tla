----------------------------- MODULE SkillScan ------------------------------
(***************************************************************************)
(* The scan that tells, for each repository of the skills ranking, whether *)
(* its skills reach the network and whether those that do can be removed:  *)
(* the cache of verdicts, the budget of GitHub calls, the workers, and the *)
(* verdict itself.                                                         *)
(*                                                                         *)
(* src/src/skills/scan.ts and the cache of src/src/skills/store.ts.  What  *)
(* a text matches (the tables of signals and of references) is data here:  *)
(* a SKILL.md is "clean", shows a signal ("net"), shows one that only a    *)
(* later table of signals knows ("late"), or is clean and refers to        *)
(* another skill of its repository ("caller").                             *)
(***************************************************************************)
EXTENDS Integers, FiniteSets, SequencesExt

CONSTANTS
    Repos,       \* the repositories GitHub has: numbers, in the order of their names
    NamedBranch, \* those whose default branch the search names; the others are on master
    Cap,         \* SKILLS_SCAN_CAP, the files read of one repository
    Reserve,     \* SCAN_QUOTA_RESERVE, the calls a scan leaves
    Workers,     \* SCAN_REPO_CONCURRENCY
    None

ASSUME SkillScanAssumption ==
    /\ Repos \subseteq Nat /\ IsFiniteSet(Repos) /\ NamedBranch \subseteq Repos
    /\ Cap \in Nat \ {0} /\ Reserve \in Nat /\ Workers \in Nat \ {0}
    /\ None \notin {"tied", "separable", "separable-sampled"}

VARIABLES
    github,  \* what each repository is: [push, text, files], the files in a sequence
    table,   \* the table of signals of the running version: 1 or 2
    rows,    \* skill_scans: each repository's cached verdict, or None
    core,    \* the core calls GitHub has left
    scan,    \* the scan in progress, or None
    world,   \* what GitHub may answer: [stars, quotas], and the repositories' trees
    left     \* bounds: what may still happen of time, presses, changes and faults

scanVars == <<github, table, rows, core, scan, world>>

Spend(what) == left[what] > 0 /\ left' = [left EXCEPT ![what] = @ - 1]

-----------------------------------------------------------------------------
\* The verdict.

\* detectSignals: whether a file shows a signal of table t.
HasSignal(file, t) == file = "net" \/ (file = "late" /\ t = 2)

\* decideAccessKind.
AccessKind(total, checked, network) ==
    CASE total = 0                       -> "no-skill"
      [] total > 0 /\ checked = 0        -> "unknown"
      [] network > 0                     -> IF network >= checked THEN "external" ELSE "partial"
      [] OTHER                           -> IF checked >= total THEN "local" ELSE "local-sampled"

\* linkSkillRefs and decideSeparability; a file that is used and a skill that
\* is called are both "tied".
Separability(kind, total, checked, refs) ==
    CASE kind # "partial"  -> None
      [] kind = "partial" /\ refs > 0 -> "tied"
      [] OTHER             -> IF checked >= total THEN "separable" ELSE "separable-sampled"

\* sampleEvenly: the places read of a list of n.
Sampled(n) == IF n <= Cap THEN 1 .. n ELSE {((i * n) \div Cap) + 1 : i \in 0 .. Cap - 1}

\* The verdict on the files at the places read, of a tree said to hold total.
Verdict(files, total, read) ==
    LET network == {i \in read : HasSignal(files[i], table)}
        refs    == IF network = {} THEN {} ELSE {i \in read : files[i] = "caller"}
        kind    == AccessKind(total, Cardinality(read), Cardinality(network))
    IN  [kind |-> kind,
         sep  |-> Separability(kind, total, Cardinality(read), Cardinality(refs))]

\* A truncated tree counts one file more than it lists.
ListedTotal(visible, truncated) == Len(visible) + (IF truncated THEN 1 ELSE 0)

UnknownScan == [kind |-> "unknown", sep |-> None]

-----------------------------------------------------------------------------
\* The cache and the budget.

\* loadScans and the look into the cache of scanAccess: a verdict stands for
\* the push and the table it was made of.
CacheHit(r, push) == rows[r] # None /\ rows[r].table = table /\ rows[r].push = push

\* The calls repositories may need: main and then master if no branch is named.
Cost(repos) == Cardinality(repos) + Cardinality(repos \ NamedBranch)

\* Those that fit the budget, from the first in the order of the list: ahead[r]
\* are those listed before r.
Affordable(repos, ahead, budget) ==
    {r \in repos : Cost(repos \cap (ahead[r] \cup {r})) <= budget}

\* scanRepos up to its workers: hits are taken over, GitHub says what is left
\* (unless it does not answer), and what does not fit stays unknown.
StartScan(shown, ahead, seen) ==
    LET hits    == {r \in shown : CacheHit(r, seen[r])}
        pending == shown \ hits
    IN  \E quota \in world.quotas, answered \in BOOLEAN :
          LET budget == IF quota > Reserve THEN quota - Reserve ELSE 0
              todo   == IF answered THEN Affordable(pending, ahead, budget) ELSE pending
          IN  /\ IF answered \/ pending = {} THEN UNCHANGED left ELSE Spend("faults")
              /\ core' = quota
              /\ scan' = [seen  |-> seen,
                          hits  |-> hits,
                          todo  |-> todo,
                          busy  |-> {},
                          limited |-> FALSE,
                          found |-> [r \in hits \cup (pending \ todo) |->
                                        IF r \in hits THEN [kind |-> rows[r].kind, sep |-> rows[r].sep]
                                        ELSE UnknownScan]]
              /\ UNCHANGED <<github, table, rows, world>>

With(found, r, verdict) == [q \in DOMAIN found \cup {r} |-> IF q = r THEN verdict ELSE found[q]]

\* mapPool: a worker takes the next repository of the list; after a rate limit
\* it is left unknown.
TakeRepo(ahead) ==
    /\ scan # None /\ Cardinality(scan.busy) < Workers
    /\ \E r \in scan.todo :
          /\ scan.todo \cap ahead[r] = {}
          /\ scan' = IF scan.limited
                     THEN [scan EXCEPT !.todo = @ \ {r}, !.found = With(@, r, UnknownScan)]
                     ELSE [scan EXCEPT !.todo = @ \ {r},
                                       !.busy = @ \cup {[repo |-> r, main |-> r \notin NamedBranch]}]
    /\ UNCHANGED <<github, table, rows, core, world, left>>

Settled(b, verdict) == [scan EXCEPT !.busy = @ \ {b}, !.found = With(@, b.repo, verdict)]

\* fetchTree: the call for one branch is refused, finds no branch or gets no
\* answer (the next candidate is tried, if there is one) ...
TreeRefused(b) ==
    /\ IF core = 0 THEN UNCHANGED <<core, left>> ELSE Spend("faults") /\ core' = core - 1
    /\ scan' = [Settled(b, UnknownScan) EXCEPT !.limited = TRUE]

TreeMissing(b) ==
    /\ core > 0
    /\ core' = core - 1
    /\ IF b.main
       THEN UNCHANGED left /\ scan' = [scan EXCEPT !.busy = (@ \ {b}) \union {[b EXCEPT !.main = FALSE]}]
       ELSE Spend("faults") /\ scan' = Settled(b, UnknownScan)

\* ... or lists the files, all or (truncated) the first of them; those sampled
\* are read, and a file that cannot be read counts as not checked.
TreeListed(b) ==
    LET files == github[b.repo].files
    IN  /\ core > 0 /\ ~b.main
        /\ core' = core - 1
        /\ \E truncated \in {FALSE} \union {files # <<>>} :
             LET visible == IF truncated THEN Front(files) ELSE files
                 sample  == Sampled(Len(visible))
             IN  \E read \in SUBSET sample :
                   /\ IF truncated \/ read # sample THEN Spend("faults") ELSE UNCHANGED left
                   /\ scan' = Settled(b, Verdict(visible, ListedTotal(visible, truncated), read))

ScanRepo ==
    /\ scan # None
    /\ \E b \in scan.busy : TreeRefused(b) \/ TreeMissing(b) \/ TreeListed(b)
    /\ UNCHANGED <<github, table, rows, world>>

\* scanAccess after the workers: what was found anew is saved, unless unknown
\* (saveScan), under the push the search had named.
ScanDone == scan # None /\ scan.todo = {} /\ scan.busy = {}

SavedUnderLatest(found) ==
    [r \in Repos |->
        IF r \in DOMAIN found \ scan.hits /\ found[r].kind # "unknown"
        THEN [push |-> github[r].push, table |-> table, kind |-> found[r].kind, sep |-> found[r].sep]
        ELSE rows[r]]
Saved(found) ==
    [r \in Repos |->
        IF r \in DOMAIN found \ scan.hits /\ found[r].kind # "unknown"
        THEN [push |-> scan.seen[r], table |-> table, kind |-> found[r].kind, sep |-> found[r].sep]
        ELSE rows[r]]

-----------------------------------------------------------------------------
\* The repositories' owners: a push brings other files, an edit another description.
RepoChanges ==
    /\ Spend("changes")
    /\ \E r \in Repos :
         \/ \E files \in world.trees :
                github' = [github EXCEPT ![r].push = @ + 1, ![r].files = files]
         \/ github' = [github EXCEPT ![r].text = @ + 1]
    /\ UNCHANGED <<table, rows, core, scan, world>>

\* What a verdict claims of the files it is shown with.
IsTrueOf(verdict, files, t) ==
    LET signals == {i \in DOMAIN files : HasSignal(files[i], t)}
    IN  /\ verdict.kind = "local" => signals = {}
        /\ verdict.kind \in {"external", "partial"} => signals # {}
        /\ verdict.kind = "no-skill" => files = <<>>
        /\ verdict.sep = "separable" => \A i \in DOMAIN files : files[i] # "caller"
=============================================================================
