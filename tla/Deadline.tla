------------------------------ MODULE Deadline ------------------------------
(***************************************************************************)
(* The deadline that survives sleep (createDeadline, src/src/util/         *)
(* deadline.ts).  A timer ticks, and every tick charges the time since the *)
(* one before to the budget: all of it when the machine was awake, only    *)
(* what it was awake otherwise, and no more than two ticks where the time  *)
(* awake cannot be measured.  A limit on the wall clock stops what sleeps  *)
(* for ever.                                                               *)
(***************************************************************************)
EXTENDS Integers

CONSTANTS
    Budget,      \* time to spend
    TickLength,  \* between two ticks when nothing delays them
    Ceiling,     \* wallCeilingFor(Budget)
    NoiseFloor,  \* a sleep up to this long counts as noise of the measurement
    NoiseShare,  \* and one up to this share (1/NoiseShare) of the time: 50
    MaxTime      \* bound on the wall clock, for model checking

ASSUME DeadlineAssumption ==
    /\ Budget \in Nat /\ TickLength \in Nat \ {0}
    /\ Ceiling \in Nat /\ Ceiling >= Budget
    /\ NoiseFloor \in Nat /\ NoiseShare \in Nat \ {0}
    /\ MaxTime \in Nat

VARIABLES
    wall,       \* the monotonic clock, which goes on during sleep
    awake,      \* the time the machine was awake, which does not
    asleep,
    measures,   \* the time awake can be measured on this machine
    lastTick,   \* the clocks at the last tick
    lastAwake,
    effective,  \* the time charged up to the last tick
    ticks,      \* the ticks so far
    timer,      \* when the next tick is due
    state       \* "accruing", "expired" (onExpire was called) or "disposed"

clocks == <<wall, awake, asleep, measures, lastTick, lastAwake, effective, ticks, timer, state>>

Least(a, b) == IF a < b THEN a ELSE b
Most(a, b) == IF a > b THEN a ELSE b

-----------------------------------------------------------------------------
Noise(span) == Most(NoiseFloor, span \div NoiseShare)

\* Mutant: the clamp holds although the time awake is known, so that a
\* process that hangs spends next to nothing.
CreditClamped(span, awakeSpan) == Least(span, 2 * TickLength)

\* creditFor: what a span of the wall clock costs.
Credit(span, awakeSpan) ==
    IF ~measures THEN Least(span, 2 * TickLength)
    ELSE IF span - awakeSpan <= Noise(span) THEN span
    ELSE awakeSpan

Elapsed ==
    IF state = "accruing" THEN effective + Credit(wall - lastTick, awake - lastAwake)
    ELSE effective

\* remainingMs() <= 0, as the watchdog of runCaptured asks.
Expired == wall >= Ceiling \/ Elapsed >= Budget

\* The next tick comes when the budget or the ceiling may be reached.
Delay(spent, now) == Most(1, Least(TickLength, Least(Budget - spent, Ceiling - now)))

DeadlineInit ==
    /\ wall = 0 /\ awake = 0
    /\ asleep = FALSE
    /\ measures \in BOOLEAN
    /\ lastTick = 0 /\ lastAwake = 0
    /\ effective = 0
    /\ ticks = 0
    /\ timer = Delay(0, 0)
    /\ state = "accruing"

-----------------------------------------------------------------------------
\* A unit of time passes.
Pass ==
    /\ wall < MaxTime
    /\ wall' = wall + 1
    /\ awake' = IF asleep THEN awake ELSE awake + 1
    /\ UNCHANGED <<asleep, measures, lastTick, lastAwake, effective, ticks, timer, state>>

\* The machine falls asleep or wakes.
Switch ==
    /\ asleep' = ~asleep
    /\ UNCHANGED <<wall, awake, measures, lastTick, lastAwake, effective, ticks, timer, state>>

\* Mutant: only the budget stops the work.
TickWithoutCeiling ==
    /\ state = "accruing"
    /\ ~asleep /\ wall >= timer
    /\ LET spent == effective + Credit(wall - lastTick, awake - lastAwake)
       IN  /\ effective' = spent
           /\ state' = IF spent >= Budget THEN "expired" ELSE state
           /\ timer' = IF spent >= Budget THEN timer ELSE wall + Delay(spent, wall)
    /\ ticks' = ticks + 1
    /\ lastTick' = wall
    /\ lastAwake' = awake
    /\ UNCHANGED <<wall, awake, asleep, measures>>

\* onTick.  The timer is due; a busy event loop may run it later still.
Tick ==
    /\ state = "accruing"
    /\ ~asleep /\ wall >= timer
    /\ LET spent == effective + Credit(wall - lastTick, awake - lastAwake)
           over == wall >= Ceiling \/ spent >= Budget
       IN  /\ effective' = spent
           /\ state' = IF over THEN "expired" ELSE state
           /\ timer' = IF over THEN timer ELSE wall + Delay(spent, wall)
    /\ ticks' = ticks + 1
    /\ lastTick' = wall
    /\ lastAwake' = awake
    /\ UNCHANGED <<wall, awake, asleep, measures>>

\* The work is over: the values are frozen and the timer is cleared.
Dispose ==
    /\ ~asleep
    /\ state # "disposed"
    /\ effective' = Elapsed
    /\ state' = "disposed"
    /\ UNCHANGED <<wall, awake, asleep, measures, lastTick, lastAwake, ticks, timer>>

DeadlineNext == Pass \/ Switch \/ Tick \/ Dispose

\* Time passes, the machine does not sleep for ever, timers fire.
DeadlineFairness ==
    /\ WF_clocks(Pass)
    /\ WF_clocks(asleep /\ Switch)
    /\ SF_clocks(Tick)

DeadlineSpec == DeadlineInit /\ [][DeadlineNext]_clocks /\ DeadlineFairness

-----------------------------------------------------------------------------
DeadlineTypeOK ==
    /\ {wall, awake, lastTick, lastAwake, effective, ticks, timer} \subseteq Nat
    /\ asleep \in BOOLEAN /\ measures \in BOOLEAN
    /\ state \in {"accruing", "expired", "disposed"}

(***************************************************************************)
(* Time awake is charged in full: a process that hangs while the machine   *)
(* is awake spends its budget, however long the ticks are delayed.         *)
(***************************************************************************)
AwakeIsCharged == measures /\ state = "accruing" => Elapsed >= awake

(***************************************************************************)
(* Time asleep is not charged beyond the noise: what is charged is the     *)
(* time awake and at most what the ticks may have overlooked.  On          *)
(* 2026-08-02 work of 50 seconds died of a budget of 3600.                 *)
(***************************************************************************)
SleepIsNotCharged ==
    measures /\ state = "accruing" =>
        effective <= lastAwake + ticks * NoiseFloor + lastTick \div NoiseShare

(***************************************************************************)
(* Whoever never sleeps is stopped as soon as the budget is spent: the     *)
(* timer is always due by then.                                            *)
(***************************************************************************)
StopsInTime ==
    measures /\ state = "accruing" /\ wall = awake => timer <= Most(Budget, 1)

(***************************************************************************)
(* Nothing hangs for ever, asleep or awake: the callback fires or, where   *)
(* there is none, the next question finds the deadline expired.            *)
(***************************************************************************)
AlwaysStops == <>(state = "disposed" \/ (state = "expired" /\ Expired))

=============================================================================
