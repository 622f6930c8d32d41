------------------------------- MODULE Videos -------------------------------
(***************************************************************************)
(* The YouTube list on the server: the snapshot that a collection replaces *)
(* and that cards are moved in, and the ledgers the user fills meanwhile,  *)
(* of categories, blocked channels, dismissed and watched videos.          *)
(*                                                                         *)
(* A collection takes its matchers at the start and uses them an hour      *)
(* later.  Those of the blocked channels and of the dismissed videos hold  *)
(* the ledger's live array, that of the watched videos a copy; the array   *)
(* of the categories, and that of the blocks, is replaced by some          *)
(* operations, and from then on the collection works with the old one.     *)
(*                                                                         *)
(* src/src/youtube/*.ts, src/src/util/category-store.ts and the YouTube    *)
(* routes of src/src/api/routes.ts.  Ranking within a category, shorts,    *)
(* dates and descriptions are left out: a candidate either survives them   *)
(* or is not among the answer's candidates.                                *)
(***************************************************************************)
EXTENDS Integers, FiniteSets, Sequences, SequencesExt, FiniteSetsExt

CONSTANTS
    Keys,        \* category keys
    FirstDefs,   \* the categories there are at first, in their order
    Ids,         \* videos
    FirstPlace,  \* the category of each in the list there is at first, or None
    ChannelOf,   \* the channel of each video
    Foreign,     \* videos that isForeignForKr finds foreign
    MaxRuns,     \* bound: collections
    MaxActs,     \* bound: clicks, requests of the dialogs, expiries and faults, together
    All,         \* the key of a block for every category
    None

ASSUME VideosAssumption ==
    /\ FirstDefs \in Seq(Keys) /\ Len(FirstDefs) > 0 /\ IsInjective(FirstDefs)
    /\ FirstPlace \in [Ids -> Range(FirstDefs) \union {None}]
    /\ IsFiniteSet(Ids) /\ DOMAIN ChannelOf = Ids /\ Foreign \subseteq Ids
    /\ MaxRuns \in Nat /\ MaxActs \in Nat
    /\ None \notin Keys /\ All \notin Keys

VARIABLES
    defs,       \* the live array of categories: their keys
    region,     \* a category's search region; the objects are shared by all arrays
    gone,       \* keys of deleted categories; a new one gets a key of its own
    blocks,     \* blocked channels: [channel, key]
    dismissed,
    watched,
    snap,       \* the snapshot, or None
    job,        \* the collection in progress, or None
    runs,
    acts,       \* how many there were of these
    \* History, read by the properties alone:
    pinned      \* what the user had excluded when the answer came, and has not since allowed

store == <<defs, region, gone, blocks, dismissed, watched>>
serverVars == <<store, snap, job, runs, pinned>>

NoPins == [ids |-> {}, blocks |-> {}]
Nowhere == [v \in Ids |-> None]

VideosInit ==
    /\ defs = FirstDefs
    /\ region = [k \in Keys |-> "kr"]
    /\ gone = {} /\ blocks = {} /\ dismissed = {} /\ watched = {}
    /\ snap = [source |-> "llm", no |-> 0, place |-> FirstPlace, moved |-> {}]
    /\ job = None
    /\ runs = 0 /\ acts = 0
    /\ pinned = NoPins

-----------------------------------------------------------------------------
\* isChannelBlocked
Blocked(list, v, k) == \E b \in list : b.channel = ChannelOf[v] /\ b.key \in {k, All}

\* isForeignForKr
ForeignIn(v, r) == v \in Foreign /\ r # "global"

\* applyRegionFilter leaves a card the user moved where it is; a category
\* that was deleted has no region, which counts as Korean.
RegionHides(v, k) ==
    /\ v \notin snap.moved
    /\ ForeignIn(v, IF k \in Range(defs) THEN region[k] ELSE "kr")

\* The answer of GET /youtube: the category of every video in it, or None.
\* The stored list has a video once, so dedupe has nothing left to do here.
Shown ==
    IF snap = None THEN Nowhere
    ELSE [v \in Ids |->
            LET k == snap.place[v]
            IN IF k = None \/ Blocked(blocks, v, k) \/ v \in dismissed \/ RegionHides(v, k)
               THEN None ELSE k]

\* dedupeCategoriesByVideoId: of two categories the first in order keeps it.
Deduped(order, lists) ==
    [v \in Ids |->
        LET at == {i \in DOMAIN order : v \in lists[order[i]]}
        IN IF at = {} THEN None ELSE order[Min(at)]]

JobDefs == IF job.defs = None THEN defs ELSE job.defs
JobBlocks == IF job.blocks = None THEN blocks ELSE job.blocks.list
isYoutubeCollecting == job # None
Empty == [source |-> "empty", no |-> runs, place |-> Nowhere, moved |-> {}]

-----------------------------------------------------------------------------
\* Mutant: the matcher of dismissed videos, too, takes a copy.
StartWithCopies ==
    /\ job = None /\ runs < MaxRuns
    /\ job' = [stage |-> "asking", defs |-> None, blocks |-> None,
               dismissed |-> [list |-> dismissed],
               watched |-> watched, asked |-> Range(defs), order |-> <<>>, lists |-> <<>>, left |-> {}]
    /\ runs' = runs + 1
    /\ UNCHANGED <<store, snap, pinned>>

\* refreshYoutube and the beginning of curateYoutube.
StartCollection ==
    /\ job = None /\ runs < MaxRuns
    /\ job' = [stage |-> "asking", defs |-> None, blocks |-> None, dismissed |-> None,
               watched |-> watched, asked |-> Range(defs), order |-> <<>>, lists |-> <<>>, left |-> {}]
    /\ runs' = runs + 1
    /\ UNCHANGED <<store, snap, pinned>>

JobDismissed == IF job.dismissed = None THEN dismissed ELSE job.dismissed.list

\* The LLM's answer with the channels' own uploads: what it lists for a key
\* that is no category any more is dropped, a new category gets nothing.
Answer ==
    /\ job # None /\ job.stage = "asking"
    /\ \E lists \in [job.asked -> SUBSET Ids] :
          job' = [job EXCEPT !.stage = "filtering", !.order = JobDefs,
                             !.left = Range(JobDefs),
                             !.lists = [k \in Range(JobDefs) |->
                                           IF k \in job.asked THEN lists[k] ELSE {}]]
    /\ pinned' = [ids |-> dismissed, blocks |-> JobBlocks \intersect blocks]
    /\ UNCHANGED <<store, snap, runs>>

\* The filters of one category, after the look-ups of its candidates.
FilterCategory(k) ==
    /\ job # None /\ job.stage = "filtering" /\ k \in job.left
    /\ job' = [job EXCEPT !.left = @ \ {k},
                          !.lists[k] = {v \in @ : /\ ~Blocked(JobBlocks, v, k)
                                                  /\ v \notin job.watched
                                                  /\ v \notin JobDismissed
                                                  /\ ~ForeignIn(v, region[k])}]
    /\ UNCHANGED <<store, snap, runs, pinned>>

Store ==
    /\ job # None /\ job.stage = "filtering" /\ job.left = {}
    /\ snap' = [source |-> "llm", no |-> runs, place |-> Deduped(job.order, job.lists), moved |-> {}]
    /\ job' = [job EXCEPT !.stage = "mailing", !.lists = <<>>, !.order = <<>>]
    /\ pinned' = NoPins
    /\ UNCHANGED <<store, runs>>

\* A failed collection keeps the good list there is.
CollectionFails ==
    /\ job # None /\ job.stage = "asking"
    /\ job' = None
    /\ IF snap # None /\ snap.source = "llm" THEN UNCHANGED snap
       ELSE snap' = Empty
    /\ UNCHANGED <<store, runs, pinned>>

MailEnds ==
    /\ job # None /\ job.stage = "mailing"
    /\ job' = None
    /\ UNCHANGED <<store, snap, runs, pinned>>

Collect == Answer \/ (\E k \in Keys : FilterCategory(k)) \/ Store \/ MailEnds

-----------------------------------------------------------------------------
\* The ledgers' operations, as the routes call them.
markWatched(v) ==
    /\ watched' = watched \union {v}
    /\ UNCHANGED <<defs, region, gone, blocks, dismissed, snap, job, runs, pinned>>

unmarkWatched(v) ==
    /\ watched' = watched \ {v}
    /\ UNCHANGED <<defs, region, gone, blocks, dismissed, snap, job, runs, pinned>>

addDismiss(v) ==
    /\ dismissed' = dismissed \union {v}
    /\ UNCHANGED <<defs, region, gone, blocks, watched, snap, job, runs, pinned>>

addBlock(c, k) ==
    /\ blocks' = blocks \union {[channel |-> c, key |-> k]}
    /\ UNCHANGED <<defs, region, gone, dismissed, watched, snap, job, runs, pinned>>

\* moveYoutubeVideo, refused during a collection.
MoveAllowed(v, from, to) ==
    /\ ~isYoutubeCollecting /\ snap # None
    /\ from # to /\ to \in Range(defs) /\ snap.place[v] = from

moveYoutubeVideo(v, to) ==
    /\ snap' = [snap EXCEPT !.place[v] = to, !.moved = @ \union {v}]
    /\ UNCHANGED <<store, job, runs, pinned>>

\* The management dialogs.
Act == acts < MaxActs /\ acts' = acts + 1
Edit == Act /\ UNCHANGED <<runs, watched>>

removeDismiss(v) ==
    /\ Edit /\ v \in dismissed
    /\ dismissed' = dismissed \ {v}
    /\ pinned' = [pinned EXCEPT !.ids = @ \ {v}]
    /\ UNCHANGED <<defs, region, gone, blocks, snap, job>>

removeBlock(b) ==
    /\ Edit /\ b \in blocks
    /\ blocks' = blocks \ {b}
    /\ pinned' = [pinned EXCEPT !.blocks = @ \ {b}]
    /\ UNCHANGED <<defs, region, gone, dismissed, snap, job>>

addCategory(k) ==
    /\ Edit /\ k \notin Range(defs) \union gone
    /\ defs' = Append(defs, k)
    /\ UNCHANGED <<region, gone, blocks, dismissed, snap, job, pinned>>

updateCategory(k) ==
    /\ Edit /\ k \in Range(defs)
    /\ region' = [region EXCEPT ![k] = IF @ = "kr" THEN "global" ELSE "kr"]
    /\ UNCHANGED <<defs, gone, blocks, dismissed, snap, job, pinned>>

\* A new array: a collection that waits for its answer keeps the old one.
reorderCategories ==
    /\ Edit /\ Len(defs) > 1
    /\ defs' = Reverse(defs)
    /\ job' = IF job # None /\ job.stage = "asking" /\ job.defs = None
              THEN [job EXCEPT !.defs = defs] ELSE job
    /\ UNCHANGED <<region, gone, blocks, dismissed, snap, pinned>>

\* With the category its blocks go, into a new array where there are any.
deleteCategory(k) ==
    /\ Edit /\ Len(defs) > 1 /\ k \in Range(defs)
    /\ \E i \in DOMAIN defs : defs[i] = k /\ defs' = RemoveAt(defs, i)
    /\ gone' = gone \union {k}
    /\ LET kept == {b \in blocks : b.key # k}
       IN /\ blocks' = kept
          /\ job' = IF kept # blocks /\ job # None /\ job.stage # "mailing" /\ job.blocks = None
                    THEN [job EXCEPT !.blocks = [list |-> blocks]] ELSE job
          /\ pinned' = [pinned EXCEPT !.blocks = @ \intersect kept]
    /\ UNCHANGED <<region, dismissed, snap>>

\* The days of exclusion of a watched video pass.
Expire(v) ==
    /\ Act
    /\ v \in watched /\ watched' = watched \ {v}
    /\ UNCHANGED <<defs, region, gone, blocks, dismissed, snap, job, runs, pinned>>

Allow ==
    \/ \E v \in Ids : removeDismiss(v)
    \/ \E x \in blocks : removeBlock(x)
    \/ \E k \in Keys : addCategory(k) \/ updateCategory(k)

Arrange == reorderCategories \/ \E k \in Keys : deleteCategory(k)

-----------------------------------------------------------------------------
VideosTypeOK ==
    /\ Range(defs) \subseteq Keys /\ IsInjective(defs) /\ Len(defs) > 0
    /\ region \in [Keys -> {"kr", "global"}]
    /\ dismissed \subseteq Ids /\ watched \subseteq Ids
    /\ snap # None => snap.place \in [Ids -> Keys \union {None}]

(* What the user excluded while the LLM was still working is not in the    *)
(* list that is stored and mailed hours later.  A video dismissed, or a    *)
(* channel blocked, before the answer came stays out of it, unless the     *)
(* user allowed it again; blocks that came after those of a deleted        *)
(* category had been dropped are the exception (see pinned).               *)
ExclusionsReachCollection ==
    [][snap' # snap /\ runs' = runs /\ snap'.moved = {} /\ snap'.source = "llm" =>
          \A v \in Ids : snap'.place[v] # None =>
             /\ v \notin pinned.ids
             /\ ~Blocked(pinned.blocks, v, snap'.place[v])]_serverVars
=============================================================================
