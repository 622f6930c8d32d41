------------------------------ MODULE MCSkills ------------------------------
(***************************************************************************)
(* Two repositories, one place in each ranking.  Either several weeks pass *)
(* and the repositories stay as they are, or they change within a day.     *)
(***************************************************************************)
EXTENDS Skills

MCTrees == {<<>>, <<"late">>, <<"net", "caller">>, <<"clean", "clean", "net">>}
MCWorlds ==
    {[time |-> 6, presses |-> 1, changes |-> 0, faults |-> 1,
      stars |-> {1, 2}, quotas |-> {0}, trees |-> {<<"clean">>}],
     [time |-> 0, presses |-> 2, changes |-> 1, faults |-> 2,
      stars |-> {1}, quotas |-> {2, 4}, trees |-> MCTrees]}
=============================================================================
