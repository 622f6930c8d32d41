----------------------------- MODULE MCSettings -----------------------------
(***************************************************************************)
(* The calendar with the store of the schedules (Schedule) and the         *)
(* settings of a tab with the pages that edit them (TabConfig), each       *)
(* checked by itself in one state space: part says which of them moves.    *)
(***************************************************************************)
EXTENDS MCSchedule, TabConfig, TLC

VARIABLE part

\* A calendar whose edits are spent.
CalendarOver == today = Max(Days) /\ env = {0} /\ file = <<>> /\ edits = MaxEdits

MCInit ==
    /\ TabInit
    /\ \/ part = "calendar" /\ ScheduleInit /\ dotEnv.hour = Min(EnvHours)
       \/ part = "tab" /\ CalendarOver

MCNext ==
    /\ UNCHANGED part
    /\ \/ part = "calendar" /\ ScheduleNext /\ UNCHANGED tabVars
       \/ part = "tab" /\ TabNext /\ UNCHANGED scheduleVars

MCSpec == MCInit /\ [][MCNext]_<<part, scheduleVars, tabVars>>

PageSymmetry == Permutations(Pages)
=============================================================================
