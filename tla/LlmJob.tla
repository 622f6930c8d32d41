------------------------------- MODULE LlmJob -------------------------------
(***************************************************************************)
(* runLlmJob as a whole: the queue (LlmQueue), then the power assertion    *)
(* (WakeLock), then the job.  A job that calls runLlmJob again from inside *)
(* skips the queue, where it would wait for itself, and only takes the     *)
(* assertion once more.                                                    *)
(***************************************************************************)
EXTENDS LlmQueue, WakeLock

CONSTANT MaxDepth  \* bound on the nesting of runLlmJob, for model checking

VARIABLE depth     \* how many calls of withWakeLock a ticket is inside of

jobVars == <<queueVars, wakeVars, depth>>

JobInit ==
    /\ QueueInit
    /\ WakeInit
    /\ depth = [t \in Tickets |-> 0]

Call(t, cap) ==
    /\ Enqueue(t, cap)
    /\ UNCHANGED <<wakeVars, depth>>

\* The assertion is taken only once the slot is granted.
Run(t) ==
    /\ Start(t)
    /\ Acquire
    /\ depth' = [depth EXCEPT ![t] = 1]

GiveUpWaiting(t) ==
    /\ GiveUp(t)
    /\ UNCHANGED <<wakeVars, depth>>

Reenter(t) ==
    /\ stage[t] = "running"
    /\ depth[t] \in 1 .. MaxDepth - 1
    /\ Acquire
    /\ depth' = [depth EXCEPT ![t] = @ + 1]
    /\ UNCHANGED queueVars

ReturnFromInner(t) ==
    /\ depth[t] > 1
    /\ Release
    /\ depth' = [depth EXCEPT ![t] = @ - 1]
    /\ UNCHANGED queueVars

\* fn settles: the finally of withWakeLock, then those of runLlmJob.
Return(t) ==
    /\ depth[t] = 1
    /\ Finish(t)
    /\ Release
    /\ depth' = [depth EXCEPT ![t] = 0]

Resolve ==
    /\ LinkResolves
    /\ UNCHANGED <<wakeVars, depth>>

CaffeinateEnds(p) ==
    /\ ProcEnds(p)
    /\ UNCHANGED <<queueVars, depth>>

CaffeinateEvent(p) ==
    /\ ForgetChild(p)
    /\ UNCHANGED <<queueVars, depth>>

JobNext ==
    \/ \E t \in Tickets, cap \in BOOLEAN : Call(t, cap)
    \/ \E t \in Tickets : Run(t)
    \/ \E t \in Tickets : GiveUpWaiting(t)
    \/ \E t \in Tickets : Reenter(t)
    \/ \E t \in Tickets : ReturnFromInner(t)
    \/ \E t \in Tickets : Return(t)
    \/ Resolve
    \/ \E p \in Procs : CaffeinateEnds(p)
    \/ \E p \in Procs : CaffeinateEvent(p)

\* Promise reactions run; a job ends, because every session it is made of has
\* a budget (src/src/util/deadline.ts); nobody has to call or to give up.
JobFairness ==
    /\ WF_jobVars(Resolve)
    /\ \A t \in Tickets :
           /\ WF_jobVars(Run(t))
           /\ WF_jobVars(ReturnFromInner(t))
           /\ SF_jobVars(Return(t))

JobSpec == JobInit /\ [][JobNext]_jobVars /\ JobFairness

-----------------------------------------------------------------------------
JobTypeOK ==
    /\ QueueTypeOK
    /\ WakeTypeOK
    /\ depth \in [Tickets -> Nat]

(***************************************************************************)
(* The count of the assertion is exactly the nesting of the job that runs: *)
(* a ticket that waits, gave up or is over holds none.                     *)
(***************************************************************************)
CountMatchesRunningJob ==
    /\ \A t \in Tickets : depth[t] > 0 <=> stage[t] = "running"
    /\ \A t \in Running : refCount = depth[t]
    /\ Running = {} => refCount = 0

(***************************************************************************)
(* The Mac is kept awake only while a job runs: a job that merely stands   *)
(* in line must not hold caffeinate, all night in the worst case.          *)
(***************************************************************************)
AwakeOnlyForRunningJob == procs \ killed # {} => Running # {}

=============================================================================
