--------------------------- MODULE MCCollections ----------------------------
(***************************************************************************)
(* Three machines in one state space, each checked by itself: the life of  *)
(* a collection (Collections), and of those of the events tab what is      *)
(* shown (EventCuration) and what is marked as new (EventTracker).  part   *)
(* says which of them moves; the others stand still, the collections in a  *)
(* state in which nothing can happen.                                      *)
(*                                                                         *)
(* For Collections, two days of three ticks: a tab that collects twice a   *)
(* day, one that collects on the first day only (its miss is caught up on  *)
(* the second), and one that is switched off.                              *)
(***************************************************************************)
EXTENDS Collections, EventTracker, EventCuration

MCSchedules == {[enabled |-> TRUE, days |-> {0, 1}, times |-> {0, 2}],
                [enabled |-> TRUE, days |-> {0}, times |-> {1}],
                [enabled |-> FALSE, days |-> {0, 1}, times |-> {1}]}

VARIABLE part

\* Nothing is left to do on the last tick but what the user may still ask for,
\* and he has asked for all he will.
CollectionsOver ==
    /\ tab = "news" /\ now = MaxTime /\ sched = [enabled |-> FALSE, days |-> {}, times |-> {}]
    /\ memo = None /\ tried = None /\ queued = None /\ refresh = None
    /\ backoff = [streak |-> 0, until |-> 0]
    /\ faults = MaxFaults /\ edits = MaxEdits
    /\ mailed = [s \in Time |-> 0] /\ goodAt = -1 /\ excused = FALSE /\ last = "none"

TrackingOver == TrackerInit
CurationOver == /\ date = CHOOSE d \in Today : TRUE
                /\ corpus = <<>> /\ answer = <<>> /\ board = EmptyBoard("none")

MCInit ==
    \/ part = "collections" /\ Init /\ TrackingOver /\ CurationOver
    \/ part = "tracking" /\ TrackerInit /\ CollectionsOver /\ CurationOver
    \/ part = "curation" /\ EventInit /\ CollectionsOver /\ TrackingOver

MCNext ==
    /\ UNCHANGED part
    /\ \/ part = "collections" /\ Next /\ UNCHANGED <<trackerVars, eventVars>>
       \/ part = "tracking" /\ TrackerNext /\ UNCHANGED <<vars, eventVars>>
       \/ part = "curation" /\ EventNext /\ UNCHANGED <<vars, trackerVars>>

MCSpec == MCInit /\ [][MCNext]_<<part, vars, trackerVars, eventVars>>

=============================================================================
