------------------------------ MODULE MCUptime ------------------------------
(***************************************************************************)
(* The life of the downtime events (Uptime), with the records of a power   *)
(* cut, and what is said of them (Autopsy), each checked by itself in one  *)
(* state space: part says which of them moves, and the other stands still  *)
(* in a state of its own.                                                  *)
(***************************************************************************)
EXTENDS Uptime, Autopsy

VARIABLE part

MCRecords == {[panic |-> FALSE, shutdown |-> "none", drained |-> FALSE]}

\* A Mac nothing was ever noted of.
NoMac ==
    /\ minute = MaxMinute /\ machine = "off" /\ boot = 0 /\ charge = 0 /\ plugged = FALSE
    /\ log = {} /\ cleanAt = 0 /\ panics = {}
    /\ proc = NoProc /\ record = NoBeacon /\ gap = NoGap /\ event = NoEvent
    /\ happened = {} /\ mishaps = MaxMishaps /\ judged = MaxEvents

\* A report at the end of its time.
NoReport ==
    /\ now = MaxTime /\ phase = "down" /\ beacon = None /\ rebooted = FALSE /\ lastTick = 0
    /\ chain = <<>> /\ work = Idle /\ timers = {} /\ sweeping = FALSE
    /\ attempts = [t \in Time |-> 0] /\ sent = {} /\ ledger = {}
    /\ schedule = {} /\ covered = {} /\ faults = MaxFaults /\ edits = MaxEdits

MCInit ==
    \/ part = "events" /\ UptimeInit /\ NoMac
    \/ part = "autopsy" /\ AutopsyInit /\ NoReport

MCNext ==
    /\ UNCHANGED part
    /\ \/ part = "events" /\ UptimeNext /\ UNCHANGED autopsyVars
       \/ part = "autopsy" /\ AutopsyNext /\ UNCHANGED uptimeVars

MCSpec == MCInit /\ [][MCNext]_<<part, uptimeVars, autopsyVars>>

=============================================================================
