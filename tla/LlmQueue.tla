------------------------------ MODULE LlmQueue ------------------------------
(***************************************************************************)
(* The global LLM queue of concurrency one (runLlmJob, waitForTurn and     *)
(* withLlmSlot in src/src/scheduler/scheduler.ts).                         *)
(*                                                                         *)
(* Every call of runLlmJob is a ticket.  It waits for the promise that was *)
(* the tail of the queue when it arrived and makes                         *)
(* "tail.then(() => held)" the new tail, where "held" is resolved by the   *)
(* ticket's own release().  So the tail is a chain of links, one per       *)
(* ticket, and a link resolves only after the link before it: the chain is *)
(* the sequence of the links that are not resolved yet.                    *)
(***************************************************************************)
EXTENDS Naturals, Sequences

CONSTANT Tickets  \* calls of runLlmJob that may be in flight at once

VARIABLES
    chain,   \* the tickets whose link is not resolved yet, oldest first
    stage,   \* where the call of each ticket is
    capped   \* whether the wait has a limit (45 or 10 minutes) or none

queueVars == <<chain, stage, capped>>

Stages == {"idle", "waiting", "running", "left"}

QueueInit ==
    /\ chain = <<>>
    /\ stage = [t \in Tickets |-> "idle"]
    /\ capped = [t \in Tickets |-> FALSE]

\* Mutant: the new tail is "held" and not "tail.then(() => held)", so that a
\* ticket waits only for the release of the one directly before it.
MyTurnAfterOne(t) ==
    \E i \in DOMAIN chain :
        chain[i] = t /\ \A j \in DOMAIN chain : j + 1 = i => stage[chain[j]] = "left"

\* myTurn is resolved: every link before that of t is.
MyTurn(t) == chain # <<>> /\ Head(chain) = t

\* The link of u is before that of t.
Before(u, t) == \E i, j \in DOMAIN chain : i < j /\ chain[i] = u /\ chain[j] = t

\* Some ticket before t has not called release() yet.  Microtasks run before
\* timers, so the timer of waitForTurn can only win while this holds.
Blocked(t) == \E u \in Tickets : Before(u, t) /\ stage[u] # "left"

\* The synchronous part of runLlmJob, up to its first await.
Enqueue(t, cap) ==
    /\ stage[t] = "idle"
    /\ chain' = Append(chain, t)
    /\ stage' = [stage EXCEPT ![t] = "waiting"]
    /\ capped' = [capped EXCEPT ![t] = cap]

\* waitForTurn answers true: the job has the slot and fn starts.
Start(t) ==
    /\ stage[t] = "waiting"
    /\ MyTurn(t)
    /\ stage' = [stage EXCEPT ![t] = "running"]
    /\ UNCHANGED <<chain, capped>>

\* waitForTurn answers false: release() is called without having run.
GiveUp(t) ==
    /\ stage[t] = "waiting"
    /\ capped[t]
    /\ Blocked(t)
    /\ stage' = [stage EXCEPT ![t] = "left"]
    /\ UNCHANGED <<chain, capped>>

\* fn returned or threw; either way the outer finally calls release().
Finish(t) ==
    /\ stage[t] = "running"
    /\ stage' = [stage EXCEPT ![t] = "left"]
    /\ UNCHANGED <<chain, capped>>

\* The oldest link resolves once its ticket has released it; the next link
\* is then the oldest.
LinkResolves ==
    /\ chain # <<>>
    /\ stage[Head(chain)] = "left"
    /\ chain' = Tail(chain)
    /\ stage' = [stage EXCEPT ![Head(chain)] = "idle"]
    /\ capped' = [capped EXCEPT ![Head(chain)] = FALSE]

QueueNext ==
    \/ \E t \in Tickets, cap \in BOOLEAN : Enqueue(t, cap)
    \/ \E t \in Tickets : Start(t) \/ GiveUp(t) \/ Finish(t)
    \/ LinkResolves

QueueSpec == QueueInit /\ [][QueueNext]_queueVars

-----------------------------------------------------------------------------
\* The tickets in flight, that is before their release().
Waiting == {t \in Tickets : stage[t] = "waiting"}
Running == {t \in Tickets : stage[t] = "running"}

\* Who stands before a waiting ticket and has not released its link.
Ahead == [t \in Tickets |->
            {u \in Waiting \cup Running : t \in Waiting /\ Before(u, t)}]

-----------------------------------------------------------------------------
QueueTypeOK ==
    /\ chain \in Seq(Tickets)
    /\ stage \in [Tickets -> Stages]
    /\ capped \in [Tickets -> BOOLEAN]

(***************************************************************************)
(* At most one LLM job runs at any time, however many gave up in the       *)
(* middle of the line: the accident of 2026-08-02 that the queue was       *)
(* written for was three sessions running side by side.                    *)
(***************************************************************************)
OneJobAtATime == \A t, u \in Running : t = u

(***************************************************************************)
(* No ticket is lost and none is in line twice: a call is in flight, or    *)
(* released and not yet resolved, exactly when its link is in the chain,   *)
(* once.  A call outside the chain would wait for ever or run unqueued.    *)
(***************************************************************************)
ChainMatchesCalls ==
    /\ \A t \in Tickets : stage[t] # "idle" <=> \E i \in DOMAIN chain : chain[i] = t
    /\ \A i, j \in DOMAIN chain : chain[i] = chain[j] => i = j

\* Only the oldest link can belong to a running job.
RunningIsOldest == \A t \in Running : MyTurn(t)

(***************************************************************************)
(* The queue is a first-come first-served lock (module FifoLock).          *)
(***************************************************************************)
Lock == INSTANCE FifoLock
            WITH Clients <- Tickets, waiting <- Waiting, holder <- Running, ahead <- Ahead
IsFifoLock == Lock!Spec

=============================================================================
