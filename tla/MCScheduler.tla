---------------------------- MODULE MCScheduler -----------------------------
(***************************************************************************)
(* One tab of each kind, in the order of the sweep: "events" has all the   *)
(* guards, as news and youtube have, "stock" is the one without a backoff, *)
(* "lotto" the one without a running flag.                                 *)
(***************************************************************************)
EXTENDS Scheduler, TLC

MCOrder == <<"events", "stock", "lotto">>

Symmetry == Permutations(Tickets)

=============================================================================
