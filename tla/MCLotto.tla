------------------------------- MODULE MCLotto -------------------------------
(***************************************************************************)
(* The weekly cycle (LottoCycle) and the making of the sets it stores      *)
(* (LottoSets), each checked by itself in one state space: part says which *)
(* of them moves, and the other stands still where nothing must happen to  *)
(* it.                                                                     *)
(***************************************************************************)
EXTENDS LottoCycle, LottoSets, TLC

VARIABLE part

MCHitWeights == <<0, 1, 2>> @@ (0 :> 0)

\* The last week: the picks are stored and the cycle has run.
CycleOver ==
    /\ time = End /\ published = Held(End) /\ known = Held(End)
    /\ from = <<1>> /\ preds = [r \in {} |-> 0]
    /\ upcoming = [NoPick EXCEPT !.round = Weeks, !.run = 2, !.version = 1]
    /\ file = [LiveFile EXCEPT !.at = End]
    /\ queued = {} /\ cycle = NoCycle /\ faults = MaxFaults

\* No sets are asked for.
SetsOver ==
    /\ strategy = normalizeSpec([fullCover |-> "junk", excludeLastDraw |-> "junk",
                                   maxSetOverlap |-> Junk, searchSteps |-> Junk])
    /\ last = {} /\ sets = <<>> /\ stage = "none" /\ at = 0
    /\ start = <<>> /\ cache = <<>> /\ asks = 0

MCInit ==
    \/ part = "cycle" /\ Init /\ SetsOver
    \/ part = "sets" /\ SetsInit /\ CycleOver

MCNext ==
    /\ UNCHANGED part
    /\ \/ part = "cycle" /\ Next /\ UNCHANGED setVars
       \/ part = "sets" /\ SetsNext /\ UNCHANGED vars

MCSpec == MCInit /\ [][MCNext]_<<part, vars, setVars>> /\ Fairness
=============================================================================
