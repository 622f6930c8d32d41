----------------------------- MODULE LlmProofs ------------------------------
(***************************************************************************)
(* Safety of the LLM sessions, in four parts: the queue with the power     *)
(* assertion, for any number of calls, processes and nesting, down to the  *)
(* first-come first-served lock it implements; the scheduler around that   *)
(* queue, for any tabs and tickets; what a query of the agent returns and  *)
(* what it leaves of the user's choice, for any models and any number of   *)
(* results; and what its deadline charges, for every budget, tick, ceiling *)
(* and noise.                                                              *)
(***************************************************************************)
EXTENDS LlmJob, Scheduler, AgentQuery, Deadline, TLAPS

(***************************************************************************)
(* The inductive invariant: the chain holds each call that is not idle,    *)
(* once, and a running call is the oldest.  Mutual exclusion alone is not  *)
(* inductive: a second job could start beside one that is not the oldest.  *)
(***************************************************************************)
QueueInv == QueueTypeOK /\ ChainMatchesCalls /\ RunningIsOldest

\* The empty queue the program starts with satisfies the invariant.
LEMMA QueueInvInit == QueueInit => QueueInv
  BY DEF QueueInit, QueueInv, QueueTypeOK, ChainMatchesCalls, RunningIsOldest,
         Running, MyTurn, Stages

\* Appending a ticket that is not in line: runLlmJob's synchronous part.
LEMMA EnqueueInv ==
  ASSUME QueueInv, NEW t \in Tickets, NEW cap \in BOOLEAN, Enqueue(t, cap)
  PROVE  QueueInv'
<1> DEFINE n == Len(chain)
<1>1. /\ chain' = Append(chain, t) /\ n \in Nat /\ Len(chain') = n + 1
      /\ \A i \in 1 .. n : chain'[i] = chain[i]
      /\ chain'[n + 1] = t
      /\ DOMAIN chain = 1 .. n /\ DOMAIN chain' = 1 .. n + 1
      /\ chain' \in Seq(Tickets)
  BY DEF Enqueue, QueueInv, QueueTypeOK
<1>2. \A i \in 1 .. n : chain[i] # t
  BY <1>1 DEF Enqueue, QueueInv, ChainMatchesCalls
<1>3. QueueTypeOK'
  BY <1>1 DEF Enqueue, QueueInv, QueueTypeOK, Stages
<1>4. ChainMatchesCalls'
  <2>1. \A u \in Tickets : stage'[u] # "idle" <=> \E i \in DOMAIN chain' : chain'[i] = u
    <3> SUFFICES ASSUME NEW u \in Tickets
                 PROVE  stage'[u] # "idle" <=> \E i \in DOMAIN chain' : chain'[i] = u
      OBVIOUS
    <3>1. CASE u = t
      BY <3>1, <1>1 DEF Enqueue, QueueInv, QueueTypeOK
    <3>2. CASE u # t
      BY <3>2, <1>1 DEF Enqueue, QueueInv, QueueTypeOK, ChainMatchesCalls
    <3>3. QED
      BY <3>1, <3>2
  <2>2. \A i, j \in DOMAIN chain' : chain'[i] = chain'[j] => i = j
    BY <1>1, <1>2 DEF QueueInv, ChainMatchesCalls
  <2>3. QED
    BY <2>1, <2>2 DEF ChainMatchesCalls
<1>5. RunningIsOldest'
  BY <1>1 DEF Enqueue, QueueInv, QueueTypeOK, RunningIsOldest, Running, MyTurn
<1>6. QED
  BY <1>3, <1>4, <1>5 DEF QueueInv

\* A ticket that starts, gives up or finishes stays in the chain.
LEMMA StageInv ==
  ASSUME QueueInv, NEW t \in Tickets, Start(t) \/ GiveUp(t) \/ Finish(t)
  PROVE  QueueInv'
<1>1. /\ chain' = chain
      /\ stage[t] # "idle"
      /\ \E s \in {"running", "left"} :
            /\ stage' = [stage EXCEPT ![t] = s]
            /\ s = "running" => MyTurn(t)
      /\ capped' = capped
  BY DEF Start, GiveUp, Finish
<1>2. QueueTypeOK'
  BY <1>1 DEF QueueInv, QueueTypeOK, Stages
<1>3. ChainMatchesCalls'
  BY <1>1 DEF QueueInv, QueueTypeOK, ChainMatchesCalls
<1>4. RunningIsOldest'
  BY <1>1 DEF QueueInv, QueueTypeOK, RunningIsOldest, Running, MyTurn
<1>5. QED
  BY <1>2, <1>3, <1>4 DEF QueueInv

\* The oldest link resolves: nobody runs at that moment.
LEMMA ResolveInv ==
  ASSUME QueueInv, LinkResolves
  PROVE  QueueInv'
<1> DEFINE n == Len(chain)
           h == Head(chain)
<1>1. /\ chain # <<>> /\ n \in Nat \ {0} /\ chain' = Tail(chain) /\ Len(chain') = n - 1
      /\ h \in Tickets /\ h = chain[1]
      /\ \A i \in 1 .. n - 1 : chain'[i] = chain[i + 1]
      /\ DOMAIN chain = 1 .. n /\ DOMAIN chain' = 1 .. n - 1
      /\ chain' \in Seq(Tickets)
  BY DEF LinkResolves, QueueInv, QueueTypeOK
<1>2. /\ stage[h] = "left" /\ stage' = [stage EXCEPT ![h] = "idle"]
      /\ capped' = [capped EXCEPT ![h] = FALSE]
  BY DEF LinkResolves
<1>3. QueueTypeOK'
  BY <1>1, <1>2 DEF QueueInv, QueueTypeOK, Stages
<1>4. \A i \in 1 .. n - 1 : chain'[i] # h
  BY <1>1 DEF QueueInv, ChainMatchesCalls
<1>5. ChainMatchesCalls'
  <2>1. \A u \in Tickets : stage'[u] # "idle" <=> \E i \in DOMAIN chain' : chain'[i] = u
    <3> SUFFICES ASSUME NEW u \in Tickets
                 PROVE  stage'[u] # "idle" <=> \E i \in DOMAIN chain' : chain'[i] = u
      OBVIOUS
    <3>1. CASE u = h
      BY <3>1, <1>1, <1>2, <1>4 DEF QueueInv, QueueTypeOK
    <3>2. CASE u # h
      <4>1. stage'[u] = stage[u]
        BY <3>2, <1>1, <1>2 DEF QueueInv, QueueTypeOK
      <4>2. ASSUME NEW i \in 1 .. n, chain[i] = u
            PROVE  i - 1 \in 1 .. n - 1 /\ chain'[i - 1] = u
        BY <4>2, <3>2, <1>1
      <4>3. ASSUME NEW i \in 1 .. n - 1, chain'[i] = u
            PROVE  i + 1 \in 1 .. n /\ chain[i + 1] = u
        BY <4>3, <1>1
      <4>4. (\E i \in 1 .. n : chain[i] = u) <=> (\E i \in 1 .. n - 1 : chain'[i] = u)
        BY <4>2, <4>3
      <4>5. stage[u] # "idle" <=> \E i \in 1 .. n : chain[i] = u
        BY <1>1 DEF QueueInv, ChainMatchesCalls
      <4>6. QED
        BY <4>1, <4>4, <4>5, <1>1
    <3>3. QED
      BY <3>1, <3>2
  <2>2. \A i, j \in DOMAIN chain' : chain'[i] = chain'[j] => i = j
    BY <1>1 DEF QueueInv, ChainMatchesCalls
  <2>3. QED
    BY <2>1, <2>2 DEF ChainMatchesCalls
<1>6. \A u \in Tickets : stage[u] # "running"
  BY <1>1, <1>2 DEF QueueInv, RunningIsOldest, Running, MyTurn
<1>7. RunningIsOldest'
  BY <1>1, <1>2, <1>6 DEF QueueInv, QueueTypeOK, RunningIsOldest, Running
<1>8. QED
  BY <1>3, <1>5, <1>7 DEF QueueInv

\* Every step of the queue, or a step that leaves it alone, keeps the invariant.
LEMMA QueueInvStep == QueueInv /\ [QueueNext]_queueVars => QueueInv'
<1> SUFFICES ASSUME QueueInv, [QueueNext]_queueVars
             PROVE  QueueInv'
  OBVIOUS
<1>1. ASSUME NEW t \in Tickets, NEW cap \in BOOLEAN, Enqueue(t, cap)
      PROVE  QueueInv'
  BY <1>1, EnqueueInv
<1>2. ASSUME NEW t \in Tickets, Start(t) \/ GiveUp(t) \/ Finish(t)
      PROVE  QueueInv'
  BY <1>2, StageInv
<1>3. CASE LinkResolves
  BY <1>3, ResolveInv
<1>4. CASE UNCHANGED queueVars
  BY <1>4 DEF queueVars, QueueInv, QueueTypeOK, ChainMatchesCalls, RunningIsOldest,
              Running, MyTurn
<1>5. QED
  BY <1>1, <1>2, <1>3, <1>4 DEF QueueNext

\* Two running calls would both be the oldest.
LEMMA InvMutex == QueueInv => OneJobAtATime
  BY DEF QueueInv, RunningIsOldest, OneJobAtATime, MyTurn

-----------------------------------------------------------------------------
(***************************************************************************)
(* The queue implements FifoLock: each step of the queue is a step of the  *)
(* lock, or leaves the lock as it is.                                      *)
(***************************************************************************)

\* A new call asks the lock: everyone in flight is before it.
LEMMA EnqueueIsRequest ==
  ASSUME QueueInv, NEW t \in Tickets, NEW cap \in BOOLEAN, Enqueue(t, cap)
  PROVE  Lock!Request(t)
<1> DEFINE n == Len(chain)
<1>1. /\ n \in Nat /\ \A i \in 1 .. n : chain'[i] = chain[i]
      /\ chain'[n + 1] = t
      /\ DOMAIN chain = 1 .. n /\ DOMAIN chain' = 1 .. n + 1
      /\ \A i \in 1 .. n : chain[i] # t
  BY DEF Enqueue, QueueInv, QueueTypeOK, ChainMatchesCalls
<1>2. t \notin Waiting \cup Running /\ Waiting' = Waiting \cup {t} /\ Running' = Running
  BY DEF Enqueue, QueueInv, QueueTypeOK, Waiting, Running
<1>3. ASSUME NEW u \in Tickets, NEW d \in Tickets, d # t
      PROVE  Before(u, d)' <=> Before(u, d)
  BY <1>1, <1>3 DEF Before
<1>4. ASSUME NEW u \in Tickets, u \in Waiting \cup Running
      PROVE  Before(u, t)'
  <2>1. PICK i \in 1 .. n : chain[i] = u
    BY <1>1, <1>4 DEF Waiting, Running, QueueInv, ChainMatchesCalls
  <2>2. QED
    BY <2>1, <1>1 DEF Before
<1>5. ~Before(t, t)'
  BY <1>1 DEF Before
<1>6. ASSUME NEW u \in Tickets, NEW d \in Tickets, d # t
      PROVE  u \in Ahead'[d] <=> u \in Ahead[d]
  <2>1. ~Before(t, d)
    BY <1>1 DEF Before
  <2>2. QED
    BY <2>1, <1>2, <1>3, <1>6 DEF Ahead
<1>7. Ahead'[t] = Waiting \cup Running
  <2>1. ASSUME NEW u
        PROVE  u \in Ahead'[t] <=> u \in Waiting \cup Running
    BY <1>2, <1>4, <1>5 DEF Ahead, Waiting, Running
  <2>2. QED
    BY <2>1
<1>8. Ahead' = [Ahead EXCEPT ![t] = Waiting \cup Running]
  <2>1. \A d \in Tickets : d # t => Ahead'[d] = Ahead[d]
    BY <1>6 DEF Ahead, Waiting, Running
  <2>2. QED
    BY <2>1, <1>7 DEF Ahead
<1>9. QED
  BY <1>2, <1>8 DEF Lock!Request

\* A call that starts is the oldest one in flight, and nobody runs.
LEMMA StartIsGrant ==
  ASSUME QueueInv, NEW t \in Tickets, Start(t)
  PROVE  Lock!Grant(t)
<1>1. /\ t \in Waiting /\ Waiting' = Waiting \ {t} /\ Running' = Running \cup {t}
      /\ chain' = chain
  BY DEF Start, QueueInv, QueueTypeOK, Waiting, Running
<1>2. Running = {}
  BY DEF Start, QueueInv, RunningIsOldest, Running, MyTurn
<1>3. \A u \in Tickets : ~Before(u, t)
  BY DEF Start, MyTurn, QueueInv, QueueTypeOK, ChainMatchesCalls, Before
<1>4. Ahead[t] = {}
  BY <1>3 DEF Ahead, Waiting, Running
<1>5. Ahead' = Ahead
  <2>1. \A u, d \in Tickets : Before(u, d)' <=> Before(u, d)
    BY <1>1 DEF Before
  <2>2. ASSUME NEW d \in Tickets
        PROVE  Ahead'[d] = Ahead[d]
    <3>1. CASE d = t
      BY <3>1, <1>1, <1>2, <1>4 DEF Ahead
    <3>2. CASE d # t
      BY <3>2, <1>1, <2>1 DEF Ahead, Waiting, Running
    <3>3. QED
      BY <3>1, <3>2
  <2>3. QED
    BY <2>2 DEF Ahead
<1>6. QED
  BY <1>1, <1>2, <1>4, <1>5 DEF Lock!Grant

\* A call that gives up or finishes leaves the line of everybody behind it.
LEMMA GiveUpIsLeave ==
  ASSUME QueueInv, NEW t \in Tickets, GiveUp(t)
  PROVE  Lock!Leave(t)
<1>1. /\ t \in Waiting /\ t \notin Running
      /\ Waiting' = Waiting \ {t} /\ Running' = Running /\ chain' = chain
  BY DEF GiveUp, QueueInv, QueueTypeOK, Waiting, Running
<1>2. \A u, d \in Tickets : Before(u, d)' <=> Before(u, d)
  BY <1>1 DEF Before
<1>3. ASSUME NEW d \in Tickets
      PROVE  Ahead'[d] = IF d = t THEN {} ELSE Ahead[d] \ {t}
  BY <1>1, <1>2 DEF Ahead, Waiting, Running
<1>4. QED
  BY <1>1, <1>3 DEF Ahead, Lock!Leave

LEMMA FinishIsRelease ==
  ASSUME QueueInv, NEW t \in Tickets, Finish(t)
  PROVE  Lock!Release(t)
<1>1. /\ t \in Running /\ t \notin Waiting
      /\ Waiting' = Waiting /\ Running' = Running \ {t} /\ chain' = chain
  BY DEF Finish, QueueInv, QueueTypeOK, Waiting, Running
<1>2. \A u, d \in Tickets : Before(u, d)' <=> Before(u, d)
  BY <1>1 DEF Before
<1>3. ASSUME NEW d \in Tickets
      PROVE  Ahead'[d] = Ahead[d] \ {t}
  BY <1>1, <1>2 DEF Ahead, Waiting, Running
<1>4. QED
  BY <1>1, <1>3 DEF Ahead, Lock!Release

\* The head of the chain has left already: nobody has it ahead.
LEMMA ResolveIsStutter ==
  ASSUME QueueInv, LinkResolves
  PROVE  UNCHANGED Lock!lockVars
<1> DEFINE n == Len(chain)
           h == Head(chain)
<1>1. /\ n \in Nat \ {0} /\ h \in Tickets /\ h = chain[1]
      /\ \A i \in 1 .. n - 1 : chain'[i] = chain[i + 1]
      /\ DOMAIN chain = 1 .. n /\ DOMAIN chain' = 1 .. n - 1
  BY DEF LinkResolves, QueueInv, QueueTypeOK
<1>2. stage[h] = "left" /\ Waiting' = Waiting /\ Running' = Running
  BY <1>1 DEF LinkResolves, QueueInv, QueueTypeOK, Waiting, Running
<1>3. ASSUME NEW u \in Tickets \ {h}, NEW d \in Tickets \ {h}
      PROVE  Before(u, d)' <=> Before(u, d)
  <2>1. ASSUME Before(u, d)
        PROVE  Before(u, d)'
    <3>1. PICK i, j \in 1 .. n : i < j /\ chain[i] = u /\ chain[j] = d
      BY <2>1, <1>1 DEF Before
    <3>2. /\ i - 1 \in 1 .. n - 1 /\ j - 1 \in 1 .. n - 1 /\ i - 1 < j - 1
          /\ chain'[i - 1] = u /\ chain'[j - 1] = d
      BY <3>1, <1>1
    <3>3. QED
      BY <3>2, <1>1 DEF Before
  <2>2. ASSUME Before(u, d)'
        PROVE  Before(u, d)
    <3>1. PICK i, j \in 1 .. n - 1 : i < j /\ chain'[i] = u /\ chain'[j] = d
      BY <2>2, <1>1 DEF Before
    <3>2. /\ i + 1 \in 1 .. n /\ j + 1 \in 1 .. n /\ i + 1 < j + 1
          /\ chain[i + 1] = u /\ chain[j + 1] = d
      BY <3>1, <1>1
    <3>3. QED
      BY <3>2, <1>1 DEF Before
  <2>3. QED
    BY <2>1, <2>2
<1>4. h \notin Waiting \cup Running
  BY <1>2 DEF Waiting, Running
<1>5. ASSUME NEW d \in Tickets
      PROVE  Ahead'[d] = Ahead[d]
  BY <1>2, <1>3, <1>4 DEF Ahead, Waiting, Running
<1>6. Ahead' = Ahead
  BY <1>5 DEF Ahead
<1>7. QED
  BY <1>2, <1>6 DEF Lock!lockVars

\* The initial queue is the free lock.
LEMMA LockInit == QueueInit => Lock!Init
<1> SUFFICES ASSUME QueueInit
             PROVE  Lock!Init
  OBVIOUS
<1>1. Waiting = {} /\ Running = {}
  BY DEF QueueInit, Waiting, Running
<1>2. Ahead = [t \in Tickets |-> {}]
  BY <1>1 DEF Ahead
<1>3. QED
  BY <1>1, <1>2 DEF Lock!Init

LEMMA LockStep == QueueInv /\ [QueueNext]_queueVars => [Lock!Next]_(Lock!lockVars)
<1> SUFFICES ASSUME QueueInv, [QueueNext]_queueVars
             PROVE  [Lock!Next]_(Lock!lockVars)
  OBVIOUS
<1>1. ASSUME NEW t \in Tickets, NEW cap \in BOOLEAN, Enqueue(t, cap)
      PROVE  Lock!Next
  BY <1>1, EnqueueIsRequest DEF Lock!Next
<1>2. ASSUME NEW t \in Tickets, Start(t)
      PROVE  Lock!Next
  BY <1>2, StartIsGrant DEF Lock!Next
<1>3. ASSUME NEW t \in Tickets, GiveUp(t)
      PROVE  Lock!Next
  BY <1>3, GiveUpIsLeave DEF Lock!Next
<1>4. ASSUME NEW t \in Tickets, Finish(t)
      PROVE  Lock!Next
  BY <1>4, FinishIsRelease DEF Lock!Next
<1>5. CASE LinkResolves
  BY <1>5, ResolveIsStutter
<1>6. CASE UNCHANGED queueVars
  <2>1. chain' = chain /\ stage' = stage
    BY <1>6 DEF queueVars
  <2>2. Waiting' = Waiting /\ Running' = Running
    BY <2>1 DEF Waiting, Running
  <2>3. Ahead' = Ahead
    BY <2>1, <2>2 DEF Ahead, Before
  <2>4. QED
    BY <2>2, <2>3 DEF Lock!lockVars
<1>7. QED
  BY <1>1, <1>2, <1>3, <1>4, <1>5, <1>6 DEF QueueNext

-----------------------------------------------------------------------------
(***************************************************************************)
(* The inductive invariant of the power assertion.  NoLeakedAssertion is   *)
(* not inductive alone: releasing the last holder needs that the process   *)
(* it kills is the only one, and a late event that it is not the child's.  *)
(***************************************************************************)
WakeInv ==
    /\ WakeTypeOK
    /\ NoLeakedAssertion
    /\ refCount = 0 => child = NoProc
    /\ events \cap procs = {}

\* The lemmas about Acquire, Release and the two process events.
LEMMA WakeInvInit == WakeInit => WakeInv
  BY NoProcAssumption DEF WakeInit, WakeInv, WakeTypeOK, NoLeakedAssertion

LEMMA AcquireInv == WakeInv /\ Acquire => WakeInv' /\ refCount' = refCount + 1
<1> SUFFICES ASSUME WakeInv, Acquire
             PROVE  WakeInv' /\ refCount' = refCount + 1
  OBVIOUS
<1>1. refCount' = refCount + 1 /\ refCount \in Nat /\ killed' = killed
  BY DEF Acquire, WakeInv, WakeTypeOK
<1>2. CASE refCount > 0
  BY <1>1, <1>2 DEF Acquire, WakeInv, WakeTypeOK, NoLeakedAssertion
<1>3. CASE refCount = 0
  <2>1. child = NoProc /\ procs \ killed = {}
    BY <1>3 DEF WakeInv, NoLeakedAssertion
  <2>2. Spawn
    BY <1>3 DEF Acquire
  <2>3. QED
    BY <1>1, <1>3, <2>1, <2>2, NoProcAssumption
    DEF Spawn, WakeInv, WakeTypeOK, NoLeakedAssertion
<1>4. QED
  BY <1>1, <1>2, <1>3

LEMMA ReleaseInv ==
  ASSUME WakeInv, refCount > 0, Release
  PROVE  WakeInv' /\ refCount' = refCount - 1
<1>1. refCount' = refCount - 1 /\ refCount \in Nat /\ procs' = procs /\ events' = events
  BY DEF Release, WakeInv, WakeTypeOK
<1>2. CASE refCount' > 0
  BY <1>1, <1>2 DEF Release, WakeInv, WakeTypeOK, NoLeakedAssertion
<1>3. CASE refCount' = 0
  BY <1>1, <1>3 DEF Release, WakeInv, WakeTypeOK, NoLeakedAssertion
<1>4. QED
  BY <1>1, <1>2, <1>3

LEMMA ProcessInv ==
  ASSUME WakeInv, NEW p \in Procs, ProcEnds(p) \/ ForgetChild(p)
  PROVE  WakeInv' /\ refCount' = refCount
<1>1. CASE ProcEnds(p)
  BY <1>1 DEF ProcEnds, WakeInv, WakeTypeOK, NoLeakedAssertion
<1>2. CASE ForgetChild(p)
  BY <1>2 DEF ForgetChild, WakeInv, WakeTypeOK, NoLeakedAssertion
<1>3. QED
  BY <1>1, <1>2

-----------------------------------------------------------------------------
JobInv ==
    /\ QueueInv
    /\ WakeInv
    /\ depth \in [Tickets -> Nat]
    /\ CountMatchesRunningJob

\* The composed system takes steps of the queue only.
LEMMA JobIsQueueStep == [JobNext]_jobVars => [QueueNext]_queueVars
  BY DEF JobNext, jobVars, QueueNext, Call, Run, GiveUpWaiting, Reenter, ReturnFromInner, Return,
         Resolve, CaffeinateEnds, CaffeinateEvent

LEMMA JobInvInit == JobInit => JobInv
<1> SUFFICES ASSUME JobInit
             PROVE  JobInv
  OBVIOUS
<1>1. QueueInv /\ WakeInv
  BY QueueInvInit, WakeInvInit DEF JobInit
<1>2. CountMatchesRunningJob
  BY DEF JobInit, QueueInit, WakeInit, CountMatchesRunningJob, Running
<1>3. QED
  BY <1>1, <1>2 DEF JobInit, JobInv

LEMMA JobInvStep == JobInv /\ [JobNext]_jobVars => JobInv'
<1> SUFFICES ASSUME JobInv, [JobNext]_jobVars
             PROVE  JobInv'
  OBVIOUS
<1>1. QueueInv'
  BY JobIsQueueStep, QueueInvStep DEF JobInv
<1>2. \A t, u \in Running : t = u
  BY InvMutex DEF JobInv, OneJobAtATime
<1>3. \A t, u \in Running' : t = u
  BY <1>1, InvMutex DEF QueueInv, RunningIsOldest, MyTurn
<1> USE DEF JobInv
<1>4. ASSUME NEW t \in Tickets, NEW cap \in BOOLEAN, Call(t, cap)
      PROVE  JobInv'
  <2>1. Running' = Running /\ UNCHANGED <<wakeVars, depth>>
    BY <1>4 DEF Call, Enqueue, Running, QueueInv, QueueTypeOK
  <2>2. WakeInv'
    BY <2>1 DEF wakeVars, WakeInv, WakeTypeOK, NoLeakedAssertion
  <2>3. CountMatchesRunningJob'
    BY <1>4, <2>1 DEF Call, Enqueue, wakeVars, CountMatchesRunningJob, QueueInv, QueueTypeOK
  <2>4. QED
    BY <1>1, <2>1, <2>2, <2>3
<1>5. ASSUME NEW t \in Tickets, Run(t)
      PROVE  JobInv'
  <2>1. WakeInv' /\ refCount' = refCount + 1
    BY <1>5, AcquireInv DEF Run
  <2>2. Running = {} /\ Running' = {t} /\ stage' = [stage EXCEPT ![t] = "running"]
    BY <1>5, <1>3 DEF Run, Start, Running, QueueInv, QueueTypeOK, RunningIsOldest, MyTurn
  <2>3. refCount = 0 /\ depth' = [depth EXCEPT ![t] = 1]
    BY <1>5, <2>2 DEF Run, CountMatchesRunningJob
  <2>4. CountMatchesRunningJob'
    BY <2>1, <2>2, <2>3 DEF CountMatchesRunningJob, QueueInv, QueueTypeOK
  <2>5. QED
    BY <1>1, <2>1, <2>3, <2>4
<1>6. ASSUME NEW t \in Tickets, GiveUpWaiting(t)
      PROVE  JobInv'
  <2>1. Running' = Running /\ UNCHANGED <<wakeVars, depth>>
    BY <1>6 DEF GiveUpWaiting, GiveUp, Running, QueueInv, QueueTypeOK
  <2>2. WakeInv'
    BY <2>1 DEF wakeVars, WakeInv, WakeTypeOK, NoLeakedAssertion
  <2>3. CountMatchesRunningJob'
    BY <1>6, <2>1 DEF GiveUpWaiting, GiveUp, wakeVars, CountMatchesRunningJob, QueueInv, QueueTypeOK
  <2>4. QED
    BY <1>1, <2>1, <2>2, <2>3
<1>7. ASSUME NEW t \in Tickets, Reenter(t)
      PROVE  JobInv'
  <2>1. WakeInv' /\ refCount' = refCount + 1
    BY <1>7, AcquireInv DEF Reenter
  <2>2. Running' = Running /\ t \in Running /\ stage' = stage
    BY <1>7 DEF Reenter, Running, queueVars
  <2>3. depth' = [depth EXCEPT ![t] = depth[t] + 1]
    BY <1>7 DEF Reenter
  <2>4. CountMatchesRunningJob'
    BY <1>2, <2>1, <2>2, <2>3 DEF CountMatchesRunningJob, Running
  <2>5. QED
    BY <1>1, <2>1, <2>3, <2>4
<1>8. ASSUME NEW t \in Tickets, ReturnFromInner(t)
      PROVE  JobInv'
  <2>1. t \in Running /\ refCount = depth[t] /\ depth[t] > 1
    BY <1>8 DEF ReturnFromInner, CountMatchesRunningJob, Running
  <2>2. WakeInv' /\ refCount' = refCount - 1
    BY <1>8, <2>1, ReleaseInv DEF ReturnFromInner
  <2>3. Running' = Running /\ stage' = stage /\ depth' = [depth EXCEPT ![t] = depth[t] - 1]
    BY <1>8 DEF ReturnFromInner, Running, queueVars
  <2>4. CountMatchesRunningJob'
    BY <1>2, <2>1, <2>2, <2>3 DEF CountMatchesRunningJob
  <2>5. QED
    BY <1>1, <2>1, <2>2, <2>3, <2>4
<1>9. ASSUME NEW t \in Tickets, Return(t)
      PROVE  JobInv'
  <2>1. t \in Running /\ refCount = 1 /\ depth[t] = 1
    BY <1>9 DEF Return, CountMatchesRunningJob, Running
  <2>2. WakeInv' /\ refCount' = 0
    BY <1>9, <2>1, ReleaseInv DEF Return
  <2>3. Running' = {} /\ stage' = [stage EXCEPT ![t] = "left"] /\ depth' = [depth EXCEPT ![t] = 0]
    BY <1>9, <1>2, <2>1 DEF Return, Finish, Running, QueueInv, QueueTypeOK
  <2>4. CountMatchesRunningJob'
    BY <2>1, <2>2, <2>3 DEF CountMatchesRunningJob, QueueInv, QueueTypeOK
  <2>5. QED
    BY <1>1, <2>2, <2>3, <2>4
<1>10. CASE Resolve
  <2>1. Running' = Running /\ UNCHANGED <<wakeVars, depth>>
    BY <1>10 DEF Resolve, LinkResolves, Running, QueueInv, QueueTypeOK
  <2>2. WakeInv'
    BY <2>1 DEF wakeVars, WakeInv, WakeTypeOK, NoLeakedAssertion
  <2>3. CountMatchesRunningJob'
    BY <1>10, <2>1 DEF Resolve, LinkResolves, wakeVars, CountMatchesRunningJob, QueueInv, QueueTypeOK
  <2>4. QED
    BY <1>1, <2>1, <2>2, <2>3
<1>11. ASSUME NEW p \in Procs, CaffeinateEnds(p) \/ CaffeinateEvent(p)
       PROVE  JobInv'
  <2>1. WakeInv' /\ refCount' = refCount
    BY <1>11, ProcessInv DEF CaffeinateEnds, CaffeinateEvent
  <2>2. stage' = stage /\ depth' = depth
    BY <1>11 DEF CaffeinateEnds, CaffeinateEvent, queueVars
  <2>3. QED
    BY <1>1, <2>1, <2>2 DEF CountMatchesRunningJob, Running
<1>12. CASE UNCHANGED jobVars
  BY <1>1, <1>12
  DEF jobVars, queueVars, wakeVars, WakeInv, WakeTypeOK, NoLeakedAssertion, CountMatchesRunningJob,
      Running
<1>13. QED
  BY <1>4, <1>5, <1>6, <1>7, <1>8, <1>9, <1>10, <1>11, <1>12 DEF JobNext

LEMMA JobInvAlways == JobSpec => []JobInv
  BY JobInvInit, JobInvStep, PTL DEF JobSpec

-----------------------------------------------------------------------------
\* Every reachable state is well typed.
THEOREM TypeCorrect == JobSpec => []JobTypeOK
<1>1. JobInv => JobTypeOK
  BY DEF JobInv, JobTypeOK, QueueInv, WakeInv
<1>2. QED
  BY <1>1, JobInvAlways, PTL

\* Never two LLM jobs side by side, whoever asked and whoever gave up.
THEOREM MutualExclusion == JobSpec => []OneJobAtATime
<1>1. JobInv => OneJobAtATime
  BY InvMutex DEF JobInv
<1>2. QED
  BY <1>1, JobInvAlways, PTL

\* The chain of promises holds every call in flight, and no other, once.
THEOREM NoCallLost == JobSpec => []ChainMatchesCalls
<1>1. JobInv => ChainMatchesCalls
  BY DEF JobInv, QueueInv
<1>2. QED
  BY <1>1, JobInvAlways, PTL

\* No caffeinate process outlives its last holder without being killed.
THEOREM NoLeak == JobSpec => []NoLeakedAssertion
<1>1. JobInv => NoLeakedAssertion
  BY DEF JobInv, WakeInv
<1>2. QED
  BY <1>1, JobInvAlways, PTL

\* The reference count is the nesting of the job that runs.
THEOREM CountIsNesting == JobSpec => []CountMatchesRunningJob
<1>1. JobInv => CountMatchesRunningJob
  BY DEF JobInv
<1>2. QED
  BY <1>1, JobInvAlways, PTL

\* Standing in line never keeps the Mac awake.
THEOREM AwakeOnlyForWork == JobSpec => []AwakeOnlyForRunningJob
<1>1. JobInv => AwakeOnlyForRunningJob
  BY DEF JobInv, WakeInv, NoLeakedAssertion, CountMatchesRunningJob, AwakeOnlyForRunningJob
<1>2. QED
  BY <1>1, JobInvAlways, PTL

\* runLlmJob implements the first-come first-served lock.
THEOREM ImplementsFifoLock == JobSpec => IsFifoLock
<1>1. JobInit => Lock!Init
  BY LockInit DEF JobInit
<1>2. JobInv /\ [JobNext]_jobVars => [Lock!Next]_(Lock!lockVars)
  BY JobIsQueueStep, LockStep DEF JobInv
<1>3. QED
  BY <1>1, <1>2, JobInvAlways, PTL DEF JobSpec, IsFifoLock, Lock!Spec

-----------------------------------------------------------------------------
(***************************************************************************)
(* The scheduler around the queue, for any tabs, tickets and bounds: one   *)
(* collection at a time, no run that comes back with nothing, and flags    *)
(* and a sweep that always belong to a call in flight.                     *)
(***************************************************************************)

(***************************************************************************)
(* Who collects has the slot, for its own tab, and was not dropped.  This  *)
(* is what makes OneCollectionAtATime inductive: collecting is set when    *)
(* the slot is granted and cleared before it is given back.                *)
(***************************************************************************)
CollectorHasSlot ==
    \A tab \in Tabs, t \in Tickets : collecting[tab] = t =>
        /\ stage[t] = "running"
        /\ job[t].tab = tab
        /\ job[t].phase \in {"running", "attempted"}

SchedulerInv ==
    /\ TypeOK
    /\ QueueInv
    /\ CollectorHasSlot
    /\ NoEmptyHandedRun
    /\ FlagMatchesCalls
    /\ SweepAwaitsItsCall

-----------------------------------------------------------------------------
LEMMA ConstantFacts ==
    /\ Order \in Seq(Tabs) /\ Len(Order) \in Nat \ {0}
    /\ DOMAIN Order = 1 .. Len(Order)
    /\ \A i \in 1 .. Len(Order) : Order[i] \in Tabs
    /\ NoJob \in [tab : Tabs, via : Vias, phase : Phases]
    /\ NoJob.phase # "skipped-duplicate"
<1>1. Order \in Seq(Tabs) /\ Order # <<>>
  BY SchedulerAssumption
<1>2. Len(Order) \in Nat \ {0} /\ DOMAIN Order = 1 .. Len(Order)
  BY <1>1
<1>3. \A i \in 1 .. Len(Order) : Order[i] \in Tabs
  BY <1>1
<1>4. NoJob = [tab |-> Order[1], via |-> "schedule", phase |-> "skipped-queue"]
  BY DEF NoJob
<1>5. Order[1] \in Tabs
  BY <1>2, <1>3
<1>6. QED
  BY <1>1, <1>2, <1>3, <1>4, <1>5 DEF Vias, Phases

LEMMA CollectorsExclude == SchedulerInv => OneCollectionAtATime
<1> SUFFICES ASSUME SchedulerInv, NEW a \in Tabs, NEW b \in Tabs,
                    collecting[a] # None, collecting[b] # None
             PROVE  a = b
  BY DEF OneCollectionAtATime
<1>1. /\ collecting[a] \in Tickets /\ stage[collecting[a]] = "running"
      /\ job[collecting[a]].tab = a
  BY DEF SchedulerInv, TypeOK, CollectorHasSlot
<1>2. /\ collecting[b] \in Tickets /\ stage[collecting[b]] = "running"
      /\ job[collecting[b]].tab = b
  BY DEF SchedulerInv, TypeOK, CollectorHasSlot
<1>3. collecting[a] = collecting[b]
  BY <1>1, <1>2, InvMutex DEF SchedulerInv, OneJobAtATime, Running
<1>4. QED
  BY <1>1, <1>2, <1>3

\* A fresh process: nothing in flight, whatever was covered.
LEMMA FreshInv ==
    ASSUME chain = <<>>, stage = [t \in Tickets |-> "idle"],
           capped = [t \in Tickets |-> FALSE], job = [t \in Tickets |-> NoJob],
           running = [tab \in Tabs |-> FALSE], collecting = [tab \in Tabs |-> None],
           blocked = [tab \in Tabs |-> FALSE], sweep = NoSweep,
           uncovered \in [Tabs -> BOOLEAN],
           waits \subseteq Tabs, faults \in 0 .. MaxFaults
    PROVE  SchedulerInv
<1>1. QueueInv
  BY QueueInvInit DEF QueueInit
<1>2. TypeOK
  BY <1>1, ConstantFacts DEF QueueInv, TypeOK, NoSweep
<1>3. CollectorHasSlot
  BY SchedulerAssumption DEF CollectorHasSlot
<1>4. NoEmptyHandedRun
  BY ConstantFacts DEF NoEmptyHandedRun
<1>5. InFlight = {}
  BY DEF InFlight, Waiting, Running
<1>6. FlagMatchesCalls
  BY <1>5, SchedulerAssumption DEF FlagMatchesCalls, OwnCalls
<1>7. SweepAwaitsItsCall
  BY <1>5, SchedulerAssumption DEF SweepAwaitsItsCall, NoSweep
<1>8. QED
  BY <1>1, <1>2, <1>3, <1>4, <1>6, <1>7 DEF SchedulerInv

LEMMA SchedulerInvInit == Init => SchedulerInv
  BY FreshInv, SchedulerAssumption DEF Init, QueueInit

-----------------------------------------------------------------------------
(***************************************************************************)
(* The effect of a new call in line, for a tab with no call of its own in  *)
(* flight (CronFires, SweepStep) or for a manual request.                  *)
(***************************************************************************)
LEMMA NewCallInv ==
    ASSUME SchedulerInv, NEW t \in Tickets, NEW cap \in BOOLEAN, Enqueue(t, cap),
           NEW tab \in Tabs, NEW via \in Vias, NEW phase \in Phases \ {"skipped-duplicate"},
           job' = [job EXCEPT ![t] = [tab |-> tab, via |-> via, phase |-> phase]],
           \/ via = "manual" /\ running' = running
           \/ /\ via # "manual"
              /\ running' = [running EXCEPT ![tab] = tab \in Guarded]
              /\ tab \in Guarded => ~running[tab],
           collecting' = collecting
    PROVE  /\ QueueInv' /\ CollectorHasSlot' /\ NoEmptyHandedRun' /\ FlagMatchesCalls'
           /\ job' \in [Tickets -> [tab : Tabs, via : Vias, phase : Phases]]
           /\ running' \in [Tabs -> BOOLEAN]
           /\ InFlight' = InFlight \cup {t} /\ t \notin InFlight
           /\ job'[t].via = via
           /\ \A u \in Tickets \ {t} : job'[u] = job[u]
<1> USE DEF SchedulerInv
<1>1. QueueInv'
  BY EnqueueInv
<1>2. /\ job' \in [Tickets -> [tab : Tabs, via : Vias, phase : Phases]]
      /\ job'[t] = [tab |-> tab, via |-> via, phase |-> phase]
      /\ \A u \in Tickets \ {t} : job'[u] = job[u]
  BY DEF TypeOK
<1>3. /\ stage[t] = "idle" /\ stage'[t] = "waiting"
      /\ \A u \in Tickets \ {t} : stage'[u] = stage[u]
  BY DEF Enqueue, TypeOK, QueueTypeOK
<1>4. InFlight' = InFlight \cup {t} /\ t \notin InFlight
  BY <1>3 DEF InFlight, Waiting, Running
<1>5. running' \in [Tabs -> BOOLEAN]
  <2>1. CASE running' = [running EXCEPT ![tab] = tab \in Guarded]
    <3> DEFINE flag == tab \in Guarded
    <3>1. flag \in BOOLEAN
      OBVIOUS
    <3>2. running' = [running EXCEPT ![tab] = flag]
      BY <2>1
    <3> HIDE DEF flag
    <3>3. QED
      BY <3>1, <3>2 DEF TypeOK
  <2>2. QED
    BY <2>1 DEF TypeOK
<1>6. CollectorHasSlot'
  BY <1>2, <1>3 DEF CollectorHasSlot
<1>7. NoEmptyHandedRun'
  BY <1>2 DEF NoEmptyHandedRun
<1>8. FlagMatchesCalls'
  <2> SUFFICES ASSUME NEW g \in Guarded
               PROVE  /\ running'[g] <=> OwnCalls(g)' # {}
                      /\ \A u, v \in OwnCalls(g)' : u = v
    BY DEF FlagMatchesCalls
  <2>0. g \in Tabs /\ InFlight \subseteq Tickets
    BY SchedulerAssumption DEF InFlight, Waiting, Running
  <2>1. OwnCalls(g)' = {u \in InFlight' : job'[u].tab = g /\ job'[u].via # "manual"}
    BY DEF OwnCalls
  <2>2. CASE g = tab /\ via # "manual"
    <3>1. OwnCalls(g) = {}
      BY <2>2, <2>0 DEF FlagMatchesCalls
    <3>2. OwnCalls(g)' = {t}
      BY <3>1, <2>0, <2>1, <2>2, <1>2, <1>4 DEF OwnCalls
    <3>3. running'[g] = TRUE
      BY <2>0, <2>2 DEF TypeOK
    <3>4. QED
      BY <3>2, <3>3
  <2>3. CASE g # tab \/ via = "manual"
    <3>1. OwnCalls(g)' = OwnCalls(g)
      BY <2>0, <2>1, <2>3, <1>2, <1>4 DEF OwnCalls
    <3>2. running'[g] = running[g]
      BY <2>0, <2>3 DEF TypeOK
    <3>3. QED
      BY <3>1, <3>2 DEF FlagMatchesCalls
  <2>4. QED
    BY <2>2, <2>3
<1>9. QED
  BY <1>1, <1>2, <1>4, <1>5, <1>6, <1>7, <1>8

\* A step that starts no job of the sweep leaves it with the call it awaits.
LEMMA SweepKept ==
    ASSUME SchedulerInv, sweep' = sweep, InFlight' \subseteq Tickets,
           \A t \in Tickets :
               t \in InFlight' /\ job'[t].via = "sweep" <=> t \in InFlight /\ job[t].via = "sweep"
    PROVE  SweepAwaitsItsCall'
  BY DEF SchedulerInv, SweepAwaitsItsCall

LEMMA InFlightTickets == InFlight \subseteq Tickets
  BY DEF InFlight, Waiting, Running

LEMMA CronFiresInv == ASSUME SchedulerInv, NEW tab \in Tabs, CronFires(tab) PROVE SchedulerInv'
<1>1. uncovered' \in [Tabs -> BOOLEAN] /\ waits' \subseteq Tabs
  BY DEF CronFires, SchedulerInv, TypeOK
<1>2. CASE running[tab]
  BY <1>1, <1>2 DEF CronFires, queueVars, SchedulerInv, TypeOK, QueueTypeOK, QueueInv, ChainMatchesCalls,
                    RunningIsOldest, MyTurn, CollectorHasSlot, NoEmptyHandedRun,
                    FlagMatchesCalls, OwnCalls, SweepAwaitsItsCall, InFlight, Waiting, Running
<1>3. CASE ~running[tab]
  <2>1. PICK t \in Tickets : Submit(t, tab, "schedule")
    BY <1>3 DEF CronFires
  <2>2. /\ UNCHANGED <<collecting, blocked, sweep, faults>>
        /\ "schedule" \in Vias /\ "skipped-queue" \in Phases \ {"skipped-duplicate"}
    BY DEF CronFires, Vias, Phases
  <2>3. /\ QueueInv' /\ CollectorHasSlot' /\ NoEmptyHandedRun' /\ FlagMatchesCalls'
        /\ job' \in [Tickets -> [tab : Tabs, via : Vias, phase : Phases]]
        /\ running' \in [Tabs -> BOOLEAN]
        /\ InFlight' = InFlight \cup {t} /\ t \notin InFlight
        /\ job'[t].via = "schedule"
        /\ \A u \in Tickets \ {t} : job'[u] = job[u]
    BY <1>3, <2>1, <2>2, NewCallInv DEF Submit
  <2>4. TypeOK'
    BY <1>1, <2>2, <2>3 DEF SchedulerInv, TypeOK, QueueInv
  <2>5. SweepAwaitsItsCall'
    BY <2>2, <2>3, InFlightTickets, SweepKept
  <2>6. QED
    BY <2>3, <2>4, <2>5 DEF SchedulerInv
<1>4. QED
  BY <1>2, <1>3

LEMMA ManualRequestInv == ASSUME SchedulerInv, NEW tab \in Tabs, ManualRequest(tab) PROVE SchedulerInv'
<1>1. PICK t \in Tickets :
          /\ Enqueue(t, FALSE)
          /\ job' = [job EXCEPT ![t] = [tab |-> tab, via |-> "manual", phase |-> "waiting"]]
  BY DEF ManualRequest
<1>2. /\ UNCHANGED <<running, collecting, uncovered, blocked, sweep, waits, faults>>
      /\ "manual" \in Vias /\ "waiting" \in Phases \ {"skipped-duplicate"}
  BY DEF ManualRequest, Vias, Phases
<1>3. /\ QueueInv' /\ CollectorHasSlot' /\ NoEmptyHandedRun' /\ FlagMatchesCalls'
      /\ job' \in [Tickets -> [tab : Tabs, via : Vias, phase : Phases]]
      /\ InFlight' = InFlight \cup {t} /\ t \notin InFlight
      /\ job'[t].via = "manual"
      /\ \A u \in Tickets \ {t} : job'[u] = job[u]
  BY <1>1, <1>2, NewCallInv
<1>4. TypeOK'
  BY <1>2, <1>3 DEF SchedulerInv, TypeOK, QueueInv
<1>5. SweepAwaitsItsCall'
  BY <1>2, <1>3, InFlightTickets, SweepKept
<1>6. QED
  BY <1>3, <1>4, <1>5 DEF SchedulerInv

-----------------------------------------------------------------------------
\* SweepAfter stays within the steps.
LEMMA SweepAfterType ==
    ASSUME TypeOK, NEW t, NEW gaveUp \in BOOLEAN
    PROVE  /\ SweepAfter(t, gaveUp) \in [step : 0 .. Len(Order), ticket : Tickets \cup {None}]
           /\ sweep.ticket = t => SweepAfter(t, gaveUp).ticket = None
           /\ sweep.ticket # t => SweepAfter(t, gaveUp) = sweep
<1>1. /\ NoSweep \in [step : 0 .. Len(Order), ticket : Tickets \cup {None}]
      /\ NoSweep.ticket = None
  BY ConstantFacts DEF NoSweep
<1>2. CASE sweep.ticket = t /\ ~gaveUp /\ sweep.step # Len(Order)
  <2>1. SweepAfter(t, gaveUp) = [step |-> sweep.step + 1, ticket |-> None]
    BY <1>2 DEF SweepAfter
  <2>2. sweep.step + 1 \in 0 .. Len(Order)
    BY <1>2, ConstantFacts DEF TypeOK
  <2>3. QED
    BY <2>1, <2>2, <1>2
<1>3. QED
  BY <1>1, <1>2 DEF SweepAfter, TypeOK

(***************************************************************************)
(* The effect of a call that is over, because its job ended or because it  *)
(* gave up waiting (JobEnds, RunGivesUp): its flag, its collection and the *)
(* wait of the sweep go with it.                                           *)
(***************************************************************************)
LEMMA CallEndsInv ==
    ASSUME SchedulerInv, NEW t \in Tickets, NEW gaveUp \in BOOLEAN, Finish(t) \/ GiveUp(t),
           job' = [job EXCEPT ![t] = NoJob],
           running' = FlagAfter(job[t]),
           sweep' = SweepAfter(t, gaveUp),
           collecting' \in [Tabs -> Tickets \cup {None}],
           \A tab \in Tabs : collecting'[tab] # t /\ collecting'[tab] \in {None, collecting[tab]}
    PROVE  /\ QueueInv' /\ CollectorHasSlot' /\ NoEmptyHandedRun' /\ FlagMatchesCalls'
           /\ SweepAwaitsItsCall'
           /\ job' \in [Tickets -> [tab : Tabs, via : Vias, phase : Phases]]
           /\ running' \in [Tabs -> BOOLEAN]
           /\ sweep' \in [step : 0 .. Len(Order), ticket : Tickets \cup {None}]
<1> USE DEF SchedulerInv
<1>1. QueueInv'
  BY StageInv
<1>2. /\ job' \in [Tickets -> [tab : Tabs, via : Vias, phase : Phases]]
      /\ job'[t] = NoJob
      /\ \A u \in Tickets \ {t} : job'[u] = job[u]
  BY ConstantFacts DEF TypeOK
<1>3. /\ stage[t] \in {"waiting", "running"} /\ stage'[t] = "left"
      /\ \A u \in Tickets \ {t} : stage'[u] = stage[u]
  BY DEF Finish, GiveUp, TypeOK, QueueTypeOK
<1>4. InFlight' = InFlight \ {t} /\ t \in InFlight /\ InFlight \subseteq Tickets
  BY <1>3 DEF InFlight, Waiting, Running
<1>5. running' \in [Tabs -> BOOLEAN]
  BY DEF TypeOK, FlagAfter
<1>6. CollectorHasSlot'
  BY <1>2, <1>3, SchedulerAssumption DEF CollectorHasSlot
<1>7. NoEmptyHandedRun'
  BY <1>2, ConstantFacts DEF NoEmptyHandedRun
<1>8. FlagMatchesCalls'
  <2> SUFFICES ASSUME NEW g \in Guarded
               PROVE  /\ running'[g] <=> OwnCalls(g)' # {}
                      /\ \A u, v \in OwnCalls(g)' : u = v
    BY DEF FlagMatchesCalls
  <2>0. g \in Tabs
    BY SchedulerAssumption
  <2>1. OwnCalls(g)' = OwnCalls(g) \ {t}
    BY <1>2, <1>4 DEF OwnCalls
  <2>2. CASE t \in OwnCalls(g)
    <3>1. OwnCalls(g)' = {}
      BY <2>1, <2>2 DEF FlagMatchesCalls
    <3>2. running'[g] = FALSE
      BY <2>0, <2>2 DEF OwnCalls, FlagAfter, TypeOK
    <3>3. QED
      BY <3>1, <3>2
  <2>3. CASE t \notin OwnCalls(g)
    <3>1. OwnCalls(g)' = OwnCalls(g)
      BY <2>1, <2>3
    <3>2. running'[g] = running[g]
      BY <2>0, <2>3, <1>4 DEF OwnCalls, FlagAfter, TypeOK
    <3>3. QED
      BY <3>1, <3>2 DEF FlagMatchesCalls
  <2>4. QED
    BY <2>2, <2>3
<1>9. /\ sweep' \in [step : 0 .. Len(Order), ticket : Tickets \cup {None}]
      /\ sweep.ticket = t => sweep'.ticket = None
      /\ sweep.ticket # t => sweep' = sweep
  BY SweepAfterType
<1>10. SweepAwaitsItsCall'
  BY <1>2, <1>4, <1>9, SchedulerAssumption DEF SweepAwaitsItsCall
<1>11. QED
  BY <1>1, <1>2, <1>5, <1>6, <1>7, <1>8, <1>9, <1>10

LEMMA JobEndsInv ==
    ASSUME SchedulerInv, NEW t \in Tickets, NEW ok \in BOOLEAN, JobEnds(t, ok)
    PROVE  SchedulerInv'
<1> DEFINE tab == job[t].tab
<1>1. tab \in Tabs /\ stage[t] = "running"
  BY DEF SchedulerInv, TypeOK, JobEnds, Finish
<1>2. collecting' = IF collecting[tab] = t THEN [collecting EXCEPT ![tab] = None] ELSE collecting
  BY DEF JobEnds
<1>3. /\ collecting' \in [Tabs -> Tickets \cup {None}]
      /\ \A a \in Tabs : collecting'[a] # t /\ collecting'[a] \in {None, collecting[a]}
  BY <1>1, <1>2, SchedulerAssumption DEF SchedulerInv, TypeOK, CollectorHasSlot
<1>4. /\ Finish(t) /\ job' = [job EXCEPT ![t] = NoJob]
      /\ running' = FlagAfter(job[t]) /\ sweep' = SweepAfter(t, FALSE)
      /\ blocked' = BackoffAfter(job[t], ok)
      /\ UNCHANGED <<waits, faults>>
  BY DEF JobEnds
<1>5. /\ QueueInv' /\ CollectorHasSlot' /\ NoEmptyHandedRun' /\ FlagMatchesCalls'
      /\ SweepAwaitsItsCall'
      /\ job' \in [Tickets -> [tab : Tabs, via : Vias, phase : Phases]]
      /\ running' \in [Tabs -> BOOLEAN]
      /\ sweep' \in [step : 0 .. Len(Order), ticket : Tickets \cup {None}]
  BY <1>3, <1>4, CallEndsInv
<1>6. blocked' \in [Tabs -> BOOLEAN]
  BY <1>4 DEF BackoffAfter, SchedulerInv, TypeOK
<1>7. uncovered' \in [Tabs -> BOOLEAN]
  <2>1. PICK forgotten : uncovered' = [uncovered EXCEPT ![tab] = ~ok /\ (uncovered[tab] \/ forgotten)]
    BY DEF JobEnds
  <2> DEFINE left == ~ok /\ (uncovered[tab] \/ forgotten)
  <2>2. left \in BOOLEAN
    OBVIOUS
  <2>3. uncovered' = [uncovered EXCEPT ![tab] = left]
    BY <2>1
  <2> HIDE DEF left
  <2>4. QED
    BY <2>2, <2>3 DEF SchedulerInv, TypeOK
<1>8. TypeOK'
  BY <1>3, <1>4, <1>5, <1>6, <1>7 DEF SchedulerInv, TypeOK, QueueInv
<1>9. QED
  BY <1>5, <1>8 DEF SchedulerInv

LEMMA RunGivesUpInv == ASSUME SchedulerInv, NEW t \in Tickets, RunGivesUp(t) PROVE SchedulerInv'
<1>1. /\ GiveUp(t) /\ job' = [job EXCEPT ![t] = NoJob]
      /\ running' = FlagAfter(job[t]) /\ sweep' = SweepAfter(t, TRUE)
      /\ blocked' = BackoffAfter(job[t], FALSE)
      /\ faults < MaxFaults /\ faults' = faults + 1
      /\ UNCHANGED <<collecting, uncovered, waits>>
  BY DEF RunGivesUp
<1>2. /\ collecting' \in [Tabs -> Tickets \cup {None}]
      /\ \A a \in Tabs : collecting'[a] # t /\ collecting'[a] \in {None, collecting[a]}
  BY <1>1 DEF SchedulerInv, TypeOK, CollectorHasSlot, GiveUp
<1>3. /\ QueueInv' /\ CollectorHasSlot' /\ NoEmptyHandedRun' /\ FlagMatchesCalls'
      /\ SweepAwaitsItsCall'
      /\ job' \in [Tickets -> [tab : Tabs, via : Vias, phase : Phases]]
      /\ running' \in [Tabs -> BOOLEAN]
      /\ sweep' \in [step : 0 .. Len(Order), ticket : Tickets \cup {None}]
  BY <1>1, <1>2, CallEndsInv
<1>4. blocked' \in [Tabs -> BOOLEAN]
  BY <1>1 DEF BackoffAfter, SchedulerInv, TypeOK
<1>5. faults' \in 0 .. MaxFaults
  BY <1>1, SchedulerAssumption DEF SchedulerInv, TypeOK
<1>6. TypeOK'
  BY <1>1, <1>2, <1>3, <1>4, <1>5 DEF SchedulerInv, TypeOK, QueueInv
<1>7. QED
  BY <1>3, <1>6 DEF SchedulerInv

-----------------------------------------------------------------------------
(***************************************************************************)
(* The slot is granted: nobody else has it, so nobody collects, and the    *)
(* callback never finds its own tab collecting.                            *)
(***************************************************************************)
LEMMA NobodyCollects ==
    ASSUME SchedulerInv, NEW t \in Tickets, Start(t), NEW tab \in Tabs
    PROVE  collecting[tab] = None
<1> SUFFICES ASSUME collecting[tab] # None PROVE FALSE
  OBVIOUS
<1>1. collecting[tab] \in Tickets /\ stage[collecting[tab]] = "running"
  BY DEF SchedulerInv, TypeOK, CollectorHasSlot
<1>2. collecting[tab] = t
  BY <1>1 DEF SchedulerInv, QueueInv, RunningIsOldest, Running, MyTurn, Start
<1>3. QED
  BY <1>1, <1>2 DEF Start

LEMMA GetSlotInv == ASSUME SchedulerInv, NEW t \in Tickets, GetSlot(t) PROVE SchedulerInv'
<1> DEFINE j == job[t]
           phase == PhaseInSlot(j)
<1>1. /\ Start(t) /\ job' = [job EXCEPT ![t].phase = phase]
      /\ collecting' = IF phase \in {"running", "attempted"} /\ collecting[j.tab] = None
                       THEN [collecting EXCEPT ![j.tab] = t] ELSE collecting
      /\ UNCHANGED <<running, uncovered, blocked, sweep, waits, faults>>
  BY DEF GetSlot
<1>2. j \in [tab : Tabs, via : Vias, phase : Phases]
  BY DEF SchedulerInv, TypeOK
<1>3. \A tab \in Tabs : collecting[tab] = None
  BY <1>1, NobodyCollects
<1>4. phase \in Phases \ {"skipped-duplicate"}
  BY <1>2, <1>3 DEF PhaseInSlot, Phases
<1> HIDE DEF phase
<1>5. /\ job' \in [Tickets -> [tab : Tabs, via : Vias, phase : Phases]]
      /\ job'[t].phase = phase /\ job'[t].tab = j.tab /\ job'[t].via = j.via
      /\ \A u \in Tickets \ {t} : job'[u] = job[u]
  BY <1>1, <1>4 DEF SchedulerInv, TypeOK
<1>6. /\ QueueInv'
      /\ stage'[t] = "running" /\ stage[t] = "waiting"
      /\ \A u \in Tickets \ {t} : stage'[u] = stage[u]
  BY <1>1, StageInv DEF Start, SchedulerInv, QueueInv, QueueTypeOK
<1>7. InFlight' = InFlight
  BY <1>6 DEF InFlight, Waiting, Running
<1>8. collecting' \in [Tabs -> Tickets \cup {None}]
  BY <1>1, <1>2 DEF SchedulerInv, TypeOK
<1>9. CollectorHasSlot'
  <2> SUFFICES ASSUME NEW tab \in Tabs, NEW u \in Tickets, collecting'[tab] = u
               PROVE  /\ stage'[u] = "running" /\ job'[u].tab = tab
                      /\ job'[u].phase \in {"running", "attempted"}
    BY DEF CollectorHasSlot
  <2>1. u # None
    BY SchedulerAssumption
  <2>2. tab = j.tab /\ u = t /\ phase \in {"running", "attempted"}
    BY <1>1, <1>2, <1>3, <2>1 DEF SchedulerInv, TypeOK
  <2>3. QED
    BY <2>2, <1>5, <1>6
<1>10. NoEmptyHandedRun'
  BY <1>4, <1>5 DEF SchedulerInv, NoEmptyHandedRun
<1>11. \A tab \in Tabs : OwnCalls(tab)' = OwnCalls(tab)
  BY <1>5, <1>7, InFlightTickets DEF OwnCalls
<1>12. FlagMatchesCalls'
  BY <1>1, <1>11, SchedulerAssumption DEF SchedulerInv, FlagMatchesCalls
<1>13. SweepAwaitsItsCall'
  BY <1>1, <1>5, <1>7, InFlightTickets, SweepKept
<1>14. TypeOK'
  BY <1>1, <1>5, <1>6, <1>8 DEF SchedulerInv, TypeOK, QueueInv
<1>15. QED
  BY <1>6, <1>9, <1>10, <1>12, <1>13, <1>14 DEF SchedulerInv

\* A request that is answered 409 only changes its phase.
LEMMA ManualRefusedInv == ASSUME SchedulerInv, NEW t \in Tickets, ManualRefused(t) PROVE SchedulerInv'
<1>1. /\ stage[t] = "waiting" /\ job' = [job EXCEPT ![t].phase = "dropped"]
      /\ UNCHANGED <<queueVars, running, collecting, uncovered, blocked, sweep, waits, faults>>
  BY DEF ManualRefused
<1>2. /\ job' \in [Tickets -> [tab : Tabs, via : Vias, phase : Phases]]
      /\ job'[t].phase = "dropped" /\ job'[t].tab = job[t].tab /\ job'[t].via = job[t].via
      /\ \A u \in Tickets \ {t} : job'[u] = job[u]
  BY <1>1 DEF SchedulerInv, TypeOK, Phases
<1>3. QueueInv'
  BY <1>1, QueueInvStep DEF SchedulerInv
<1>4. InFlight' = InFlight /\ stage' = stage
  BY <1>1 DEF InFlight, Waiting, Running, queueVars
<1>5. CollectorHasSlot'
  BY <1>1, <1>2, <1>4 DEF SchedulerInv, CollectorHasSlot
<1>6. NoEmptyHandedRun'
  BY <1>2 DEF SchedulerInv, NoEmptyHandedRun
<1>7. \A tab \in Tabs : OwnCalls(tab)' = OwnCalls(tab)
  BY <1>2, <1>4, InFlightTickets DEF OwnCalls
<1>8. FlagMatchesCalls'
  BY <1>1, <1>7, SchedulerAssumption DEF SchedulerInv, FlagMatchesCalls
<1>9. SweepAwaitsItsCall'
  BY <1>1, <1>2, <1>4, InFlightTickets, SweepKept
<1>10. TypeOK'
  BY <1>1, <1>2, <1>3 DEF SchedulerInv, TypeOK, QueueInv
<1>11. QED
  BY <1>3, <1>5, <1>6, <1>8, <1>9, <1>10 DEF SchedulerInv

\* What touches neither a call nor the sweep.
LEMMA OutsideInv ==
    ASSUME SchedulerInv, QueueInv', UNCHANGED <<job, running, collecting>>,
           waits' \subseteq Tabs, faults' \in 0 .. MaxFaults,
           \A t \in Tickets : stage'[t] = stage[t] \/ {stage[t], stage'[t]} \subseteq {"idle", "left"},
           uncovered' \in [Tabs -> BOOLEAN], blocked' \in [Tabs -> BOOLEAN],
           sweep' \in [step : 0 .. Len(Order), ticket : Tickets \cup {None}],
           sweep'.ticket = sweep.ticket
    PROVE  SchedulerInv'
<1>1. InFlight' = InFlight
  BY DEF InFlight, Waiting, Running
<1>2. CollectorHasSlot'
  BY DEF SchedulerInv, CollectorHasSlot
<1>3. NoEmptyHandedRun'
  BY DEF SchedulerInv, NoEmptyHandedRun
<1>4. \A tab \in Tabs : OwnCalls(tab)' = OwnCalls(tab)
  BY <1>1 DEF OwnCalls
<1>5. FlagMatchesCalls'
  BY <1>4, SchedulerAssumption DEF SchedulerInv, FlagMatchesCalls
<1>6. SweepAwaitsItsCall'
  BY <1>1 DEF SchedulerInv, SweepAwaitsItsCall
<1>7. TypeOK'
  BY DEF SchedulerInv, TypeOK, QueueInv
<1>8. QED
  BY <1>2, <1>3, <1>5, <1>6, <1>7 DEF SchedulerInv

LEMMA QueueMovesInv == ASSUME SchedulerInv, QueueMoves PROVE SchedulerInv'
<1>1. LinkResolves /\ UNCHANGED <<job, running, collecting, uncovered, blocked, sweep, waits, faults>>
  BY DEF QueueMoves
<1>2. QueueInv'
  BY <1>1, ResolveInv DEF SchedulerInv
<1>3. \A t \in Tickets : stage'[t] = stage[t] \/ {stage[t], stage'[t]} \subseteq {"idle", "left"}
  BY <1>1 DEF LinkResolves, SchedulerInv, QueueInv, QueueTypeOK
<1>4. QED
  BY <1>1, <1>2, <1>3, OutsideInv DEF SchedulerInv, TypeOK

LEMMA SweepStepInv == ASSUME SchedulerInv, SweepStep PROVE SchedulerInv'
<1> DEFINE tab == Order[sweep.step]
<1>1. /\ sweep.step > 0 /\ sweep.ticket = None
      /\ UNCHANGED <<collecting, uncovered, blocked, waits, faults>>
  BY DEF SweepStep
<1>2. tab \in Tabs
  BY <1>1, ConstantFacts DEF SchedulerInv, TypeOK
<1>3. CASE NeedsCatchup(tab)
  <2>1. PICK t \in Tickets : Submit(t, tab, "sweep") /\ sweep' = [sweep EXCEPT !.ticket = t]
    BY <1>3 DEF SweepStep
  <2>2. /\ "sweep" \in Vias /\ "skipped-queue" \in Phases \ {"skipped-duplicate"}
        /\ ~running[tab]
    BY <1>3 DEF NeedsCatchup, Vias, Phases
  <2>3. /\ QueueInv' /\ CollectorHasSlot' /\ NoEmptyHandedRun' /\ FlagMatchesCalls'
        /\ job' \in [Tickets -> [tab : Tabs, via : Vias, phase : Phases]]
        /\ running' \in [Tabs -> BOOLEAN]
        /\ InFlight' = InFlight \cup {t} /\ t \notin InFlight
        /\ job'[t].via = "sweep"
        /\ \A u \in Tickets \ {t} : job'[u] = job[u]
    BY <1>1, <1>2, <2>1, <2>2, NewCallInv DEF Submit
  <2>4. /\ sweep' \in [step : 0 .. Len(Order), ticket : Tickets \cup {None}]
        /\ sweep'.ticket = t
    BY <2>1 DEF SchedulerInv, TypeOK
  <2>5. TypeOK'
    BY <1>1, <2>3, <2>4 DEF SchedulerInv, TypeOK, QueueInv
  <2>6. SweepAwaitsItsCall'
    BY <1>1, <2>3, <2>4, SchedulerAssumption DEF SchedulerInv, SweepAwaitsItsCall
  <2>7. QED
    BY <2>3, <2>5, <2>6 DEF SchedulerInv
<1>4. CASE ~NeedsCatchup(tab)
  <2>1. sweep' = SweepAfter(None, FALSE) /\ UNCHANGED <<queueVars, job, running>>
    BY <1>4 DEF SweepStep
  <2>2. /\ sweep' \in [step : 0 .. Len(Order), ticket : Tickets \cup {None}]
        /\ sweep'.ticket = None
    BY <1>1, <2>1, SweepAfterType DEF SchedulerInv
  <2>3. QueueInv' /\ stage' = stage
    BY <2>1, QueueInvStep DEF SchedulerInv, queueVars
  <2>4. QED
    BY <1>1, <2>1, <2>2, <2>3, OutsideInv DEF SchedulerInv, TypeOK
<1>5. QED
  BY <1>3, <1>4

\* Time, sleep and the tick touch no call.
LEMMA EnvironmentInv ==
    ASSUME SchedulerInv,
           SweepBegins \/ Midnight \/ \E tab \in Tabs : CronMissed(tab) \/ BackoffExpires(tab)
    PROVE  SchedulerInv'
<1>1. UNCHANGED <<queueVars, job, running, collecting>>
  BY DEF SweepBegins, Midnight, CronMissed, BackoffExpires
<1>2. QueueInv' /\ stage' = stage
  BY <1>1, QueueInvStep DEF SchedulerInv, queueVars
<1>3. uncovered' \in [Tabs -> BOOLEAN] /\ blocked' \in [Tabs -> BOOLEAN]
  BY DEF SweepBegins, Midnight, CronMissed, BackoffExpires, SchedulerInv, TypeOK
<1>4. /\ sweep' \in [step : 0 .. Len(Order), ticket : Tickets \cup {None}]
      /\ sweep'.ticket = sweep.ticket
  BY ConstantFacts
     DEF SweepBegins, Midnight, CronMissed, BackoffExpires, NoSweep, SchedulerInv, TypeOK
<1>5. waits' \subseteq Tabs /\ faults' \in 0 .. MaxFaults
  BY SchedulerAssumption
     DEF SweepBegins, Midnight, CronMissed, BackoffExpires, SchedulerInv, TypeOK
<1>6. QED
  BY <1>1, <1>2, <1>3, <1>4, <1>5, OutsideInv

LEMMA RestartInv == ASSUME SchedulerInv, Restart PROVE SchedulerInv'
<1>1. faults' \in 0 .. MaxFaults /\ waits' \subseteq Tabs
  BY SchedulerAssumption DEF Restart, SchedulerInv, TypeOK
<1>2. uncovered' \in [Tabs -> BOOLEAN]
  BY DEF Restart, SchedulerInv, TypeOK
<1>3. QueueInit'
  BY DEF Restart, QueueInit
<1>4. QueueInv'
  BY <1>3 DEF QueueInit, QueueInv, QueueTypeOK, ChainMatchesCalls, RunningIsOldest,
              Running, MyTurn, Stages
<1>5. InFlight' = {}
  BY <1>3 DEF QueueInit, InFlight, Waiting, Running
<1>6. CollectorHasSlot' /\ NoEmptyHandedRun'
  BY ConstantFacts, SchedulerAssumption DEF Restart, CollectorHasSlot, NoEmptyHandedRun
<1>7. FlagMatchesCalls'
  BY <1>5, SchedulerAssumption DEF Restart, FlagMatchesCalls, OwnCalls
<1>8. SweepAwaitsItsCall'
  BY <1>5, SchedulerAssumption DEF Restart, SweepAwaitsItsCall, NoSweep
<1>9. TypeOK'
  BY <1>1, <1>2, <1>4, ConstantFacts DEF Restart, QueueInv, TypeOK, NoSweep
<1>10. QED
  BY <1>4, <1>6, <1>7, <1>8, <1>9 DEF SchedulerInv

LEMMA SchedulerInvStep == SchedulerInv /\ [Next]_vars => SchedulerInv'
<1> SUFFICES ASSUME SchedulerInv, [Next]_vars PROVE SchedulerInv'
  OBVIOUS
<1>1. ASSUME NEW tab \in Tabs, CronFires(tab) \/ ManualRequest(tab) PROVE SchedulerInv'
  BY <1>1, CronFiresInv, ManualRequestInv
<1>2. ASSUME NEW t \in Tickets, ManualRefused(t) \/ GetSlot(t) \/ RunGivesUp(t) PROVE SchedulerInv'
  BY <1>2, ManualRefusedInv, GetSlotInv, RunGivesUpInv
<1>3. ASSUME NEW t \in Tickets, NEW ok \in BOOLEAN, JobEnds(t, ok) PROVE SchedulerInv'
  BY <1>3, JobEndsInv
<1>4. CASE QueueMoves
  BY <1>4, QueueMovesInv
<1>5. CASE SweepStep
  BY <1>5, SweepStepInv
<1>6. CASE SweepBegins \/ Midnight \/ \E tab \in Tabs : CronMissed(tab) \/ BackoffExpires(tab)
  BY <1>6, EnvironmentInv
<1>7. CASE Restart
  BY <1>7, RestartInv
<1>8. CASE UNCHANGED vars
  <2>1. UNCHANGED <<queueVars, job, running, collecting, uncovered, blocked, sweep, waits, faults>>
    BY <1>8 DEF vars
  <2>2. QueueInv' /\ stage' = stage
    BY <2>1, QueueInvStep DEF SchedulerInv, queueVars
  <2>3. QED
    BY <2>1, <2>2, OutsideInv DEF SchedulerInv, TypeOK
<1>9. QED
  BY <1>1, <1>2, <1>3, <1>4, <1>5, <1>6, <1>7, <1>8 DEF Next

LEMMA SchedulerInvAlways == Spec => []SchedulerInv
  BY SchedulerInvInit, SchedulerInvStep, PTL DEF Spec

-----------------------------------------------------------------------------
\* Every variable keeps its type (TypeOK), with a sweep within its steps.
THEOREM SchedulerTypeCorrect == Spec => []TypeOK
<1>1. SchedulerInv => TypeOK
  BY DEF SchedulerInv
<1>2. QED
  BY <1>1, SchedulerInvAlways, PTL

(***************************************************************************)
(* One collection at a time over all tabs, manual requests included        *)
(* (startManualLlmJob, safeRefreshX), for any number of tabs and calls.    *)
(***************************************************************************)
THEOREM CollectionsExclude == Spec => []OneCollectionAtATime
  BY SchedulerInvAlways, CollectorsExclude, PTL

(***************************************************************************)
(* A job that gets the slot never finds its own tab collecting             *)
(* ("skipped-duplicate" in safeRefreshX).                                  *)
(***************************************************************************)
THEOREM NeverEmptyHanded == Spec => []NoEmptyHandedRun
<1>1. SchedulerInv => NoEmptyHandedRun
  BY DEF SchedulerInv
<1>2. QED
  BY <1>1, SchedulerInvAlways, PTL

(***************************************************************************)
(* The running flag of a tab is set exactly while one call of its          *)
(* safeRefreshX is in flight, also after giving up and after a restart.    *)
(***************************************************************************)
THEOREM FlagsAreExact == Spec => []FlagMatchesCalls
<1>1. SchedulerInv => FlagMatchesCalls
  BY DEF SchedulerInv
<1>2. QED
  BY <1>1, SchedulerInvAlways, PTL

\* A sweep waits for its own call in flight, and for nothing else
\* (runCatchupSweep).
THEOREM SweepWaitsForItsCall == Spec => []SweepAwaitsItsCall
<1>1. SchedulerInv => SweepAwaitsItsCall
  BY DEF SchedulerInv
<1>2. QED
  BY <1>1, SchedulerInvAlways, PTL

(***************************************************************************)
(* Only a manual request is ever waiting for its answer or dropped.        *)
(***************************************************************************)
PhasesOfManual ==
    \A t \in Tickets : job[t].phase \in {"waiting", "dropped"} => job[t].via = "manual"

LEMMA PhasesKept == TypeOK /\ PhasesOfManual /\ [Next]_vars => PhasesOfManual'
<1> SUFFICES ASSUME TypeOK, PhasesOfManual, [Next]_vars PROVE PhasesOfManual'
  OBVIOUS
<1> USE DEF PhasesOfManual
<1>1. ASSUME NEW t \in Tickets, NEW tab \in Tabs, NEW via \in Vias, Submit(t, tab, via)
      PROVE  PhasesOfManual'
  BY <1>1 DEF Submit, TypeOK
<1>2. ASSUME job' = job PROVE PhasesOfManual'
  BY <1>2
<1>3. ASSUME NEW t \in Tickets, job' = [job EXCEPT ![t] = NoJob] PROVE PhasesOfManual'
  BY <1>3 DEF NoJob, TypeOK
<1>4. ASSUME NEW tab \in Tabs, ManualRequest(tab) PROVE PhasesOfManual'
  BY <1>4 DEF ManualRequest, TypeOK
<1>5. ASSUME NEW t \in Tickets, ManualRefused(t) PROVE PhasesOfManual'
  BY <1>5 DEF ManualRefused, TypeOK
<1>6. ASSUME NEW t \in Tickets, GetSlot(t) PROVE PhasesOfManual'
  <2>1. PhaseInSlot(job[t]) \in {"waiting", "dropped"} => job[t].via = "manual"
    BY DEF PhaseInSlot
  <2>2. job' = [job EXCEPT ![t].phase = PhaseInSlot(job[t])]
    BY <1>6 DEF GetSlot
  <2>3. QED
    BY <2>1, <2>2 DEF TypeOK
<1>7. ASSUME Restart PROVE PhasesOfManual'
  BY <1>7 DEF Restart, NoJob
<1>8. ASSUME NEW tab \in Tabs, CronFires(tab) PROVE PhasesOfManual'
  BY <1>8, <1>1, <1>2 DEF CronFires, Vias
<1>9. ASSUME SweepStep PROVE PhasesOfManual'
  <2>1. CASE NeedsCatchup(Order[sweep.step])
    <3>1. Order[sweep.step] \in Tabs
      BY <1>9, ConstantFacts DEF SweepStep, TypeOK
    <3>2. QED
      BY <1>9, <1>1, <2>1, <3>1 DEF SweepStep, Vias
  <2>2. CASE ~NeedsCatchup(Order[sweep.step])
    BY <1>9, <1>2, <2>2 DEF SweepStep
  <2>3. QED
    BY <2>1, <2>2
<1>10. ASSUME NEW t \in Tickets, NEW ok \in BOOLEAN, JobEnds(t, ok) PROVE PhasesOfManual'
  BY <1>10, <1>3 DEF JobEnds
<1>11. ASSUME NEW t \in Tickets, RunGivesUp(t) PROVE PhasesOfManual'
  BY <1>11, <1>3 DEF RunGivesUp
<1>12. QED
  BY <1>2, <1>4, <1>5, <1>6, <1>7, <1>8, <1>9, <1>10, <1>11
  DEF Next, vars, CronMissed, Midnight, QueueMoves, SweepBegins, BackoffExpires

\* A step gives the collection of a tab to nobody but a ticket that gets the
\* slot and is not dropped.
LEMMA NewCollector ==
    ASSUME TypeOK, PhasesOfManual, [Next]_vars, NEW t \in Tickets, NEW tab \in Tabs,
           collecting[tab] # t, job[t].phase = "dropped"
    PROVE  collecting'[tab] # t
<1>1. CASE collecting' = collecting
  BY <1>1
<1>2. ASSUME NEW u \in Tickets, GetSlot(u) PROVE collecting'[tab] # t
  <2>1. CASE u = t
    <3>1. PhaseInSlot(job[t]) = "dropped"
      BY DEF PhaseInSlot, PhasesOfManual
    <3>2. QED
      BY <1>2, <2>1, <3>1 DEF GetSlot
  <2>2. CASE u # t
    BY <1>2, <2>2 DEF GetSlot, TypeOK
  <2>3. QED
    BY <2>1, <2>2
<1>3. ASSUME NEW u \in Tickets, NEW ok \in BOOLEAN, JobEnds(u, ok) PROVE collecting'[tab] # t
  <2>1. collecting' = IF collecting[job[u].tab] = u
                      THEN [collecting EXCEPT ![job[u].tab] = None] ELSE collecting
    BY <1>3 DEF JobEnds
  <2>2. QED
    BY <2>1, SchedulerAssumption DEF TypeOK
<1>4. CASE Restart
  BY <1>4, SchedulerAssumption DEF Restart
<1>5. QED
  BY <1>1, <1>2, <1>3, <1>4
  DEF Next, vars, CronFires, CronMissed, Midnight, ManualRequest, ManualRefused, RunGivesUp, QueueMoves,
      SweepBegins, SweepStep, BackoffExpires

(***************************************************************************)
(* A manual request that was answered 409 never collects, neither before   *)
(* nor after the step (the phase "dropped" of startManualLlmJob).          *)
(***************************************************************************)
THEOREM RefusedStaysRefused == Spec => RefusedNeverRuns
<1> DEFINE Refused == \A t \in Tickets, tab \in Tabs :
              job[t].phase = "dropped" => collecting[tab] # t /\ collecting'[tab] # t
<1>1. SchedulerInv /\ PhasesOfManual /\ [Next]_vars => [Refused]_vars
  <2> SUFFICES ASSUME SchedulerInv, PhasesOfManual, [Next]_vars, NEW t \in Tickets, NEW tab \in Tabs,
                      job[t].phase = "dropped"
               PROVE  collecting[tab] # t /\ collecting'[tab] # t
    OBVIOUS
  <2>1. collecting[tab] # t
    BY DEF SchedulerInv, CollectorHasSlot
  <2>2. QED
    BY <2>1, NewCollector DEF SchedulerInv
<1>2. Init => PhasesOfManual
  BY DEF Init, PhasesOfManual, NoJob
<1>3. SchedulerInv => TypeOK
  BY DEF SchedulerInv
<1>4. QED
  BY <1>1, <1>2, <1>3, PhasesKept, SchedulerInvAlways, PTL DEF Spec, RefusedNeverRuns

-----------------------------------------------------------------------------
(***************************************************************************)
(* A stream holds no text of an error, since a result with is_error does   *)
(* not become finalText; what is returned is genuine and was not lost.     *)
(***************************************************************************)
TextsAreGenuine ==
    /\ finalText \in {"json", "empty", "notice"}
    /\ AnswerIsGenuine
    /\ AnswerIsKept

(***************************************************************************)
(* The file holds the choice itself while that is not the fallback model,  *)
(* so that readState has nothing to put right: in a file of the old form   *)
(* the fallback model stands where the choice was.                         *)
(***************************************************************************)
FileHoldsChoice ==
    choice # FallbackModel => stored.model = choice

-----------------------------------------------------------------------------
(***************************************************************************)
(* StreamFails lets pass nothing but what a model wrote, and a good answer *)
(* fails only if the stream was stopped or told of an error.               *)
(***************************************************************************)
LEMMA StreamFailsRightly ==
    ASSUME NEW thrown \in BOOLEAN, finalText \in {"json", "empty", "notice"}
    PROVE  /\ ~StreamFails(thrown) => finalText \in {"json", "empty"}
           /\ StreamFails(thrown) => ~(finalText = "json" /\ ~timedOut /\ ~errorText)
BY DEF StreamFails

LEMMA GenuineStep == TextsAreGenuine /\ [QueryNext]_agentVars => TextsAreGenuine'
<1> SUFFICES ASSUME TextsAreGenuine, [QueryNext]_agentVars PROVE TextsAreGenuine'
  OBVIOUS
<1> USE DEF TextsAreGenuine
<1>1. CASE \E m \in Models : Choose(m)
  BY <1>1 DEF Choose, streamVars, AnswerIsGenuine, AnswerIsKept
<1>2. CASE OtherStarts \/ OtherEnds
  BY <1>2 DEF OtherStarts, OtherEnds, streamVars, AnswerIsGenuine, AnswerIsKept
<1>3. CASE Ask
  BY <1>3 DEF Ask, OpenStream, streamVars, AnswerIsGenuine, AnswerIsKept
<1>4. ASSUME StandIn PROVE TextsAreGenuine'
  BY <1>4 DEF StandIn, OpenStream, AnswerIsGenuine, AnswerIsKept
<1>5. CASE \E loggedIn \in BOOLEAN : CheckAnswered(loggedIn)
  BY <1>4, <1>5 DEF CheckAnswered, streamVars, AnswerIsGenuine, AnswerIsKept
<1>6. CASE \E slept, inTime \in BOOLEAN : CheckFailed(slept, inTime)
  BY <1>4, <1>6 DEF CheckFailed, streamVars, AnswerIsGenuine, AnswerIsKept
<1>7. ASSUME NEW result \in {"limit", "error", "notice", "json"}, ExecAnswered(result)
      PROVE  TextsAreGenuine'
  <2>1. CASE result = "limit"
    BY <1>4, <1>7, <2>1 DEF ExecAnswered
  <2>2. CASE result \in {"error", "notice"}
    <3>1. QueryReturns("failed", FALSE) /\ UNCHANGED streamVars
      BY <1>7, <2>2 DEF ExecAnswered
    <3>2. QED
      BY <3>1 DEF QueryReturns, streamVars, AnswerIsGenuine, AnswerIsKept
  <2>3. CASE result = "json"
    <3>1. QueryReturns("json", TRUE) /\ UNCHANGED streamVars
      BY <1>7, <2>3 DEF ExecAnswered
    <3>2. QED
      BY <3>1 DEF QueryReturns, streamVars, AnswerIsGenuine, AnswerIsKept
  <2>4. QED
    BY <2>1, <2>2, <2>3
<1>8. CASE ExecFailed
  <2>1. CASE StandIn
    BY <1>4, <2>1
  <2>2. CASE QueryReturns("failed", FALSE) /\ UNCHANGED streamVars
    BY <2>2 DEF QueryReturns, streamVars, AnswerIsGenuine, AnswerIsKept
  <2>3. QED
    BY <1>8, <2>1, <2>2 DEF ExecFailed
<1>9. ASSUME NEW thrown \in BOOLEAN, ClaudeEnds(thrown) PROVE TextsAreGenuine'
  <2> DEFINE text == IF StreamFails(thrown) THEN "failed" ELSE finalText
             inHand == finalText = "json" /\ ~timedOut /\ ~errorText
  <2>1. text \in {"json", "empty", "failed"} /\ (text = "failed" => ~inHand)
    BY StreamFailsRightly
  <2>2. QueryReturns(text, inHand) /\ OpenStream
    BY <1>9 DEF ClaudeEnds
  <2> HIDE DEF text, inHand
  <2>3. QED
    BY <2>1, <2>2 DEF QueryReturns, OpenStream, AnswerIsGenuine, AnswerIsKept
<1>10. CASE ProcessSteps
  BY <1>10 DEF ProcessSteps, streamVars, queryVars, AnswerIsGenuine, AnswerIsKept
<1>11. CASE StreamSteps
  BY <1>11 DEF StreamSteps, ReceiveResult, ReceiveError, ReceiveAbnormal, Expire, queryVars, AnswerIsGenuine,
       AnswerIsKept
<1>12. CASE UNCHANGED agentVars
  BY <1>12 DEF agentVars, streamVars, AnswerIsGenuine, AnswerIsKept
<1>13. QED
  BY <1>1, <1>2, <1>3, <1>5, <1>6, <1>7, <1>8, <1>9, <1>10, <1>11, <1>12 DEF QueryNext

(***************************************************************************)
(* No text of an error and no notice that a login or a limit is gone is    *)
(* returned as an answer (runAgentQueryText).                              *)
(***************************************************************************)
THEOREM AnswersAreGenuine == QuerySpec => []AnswerIsGenuine
<1>1. QueryInit => TextsAreGenuine
  BY DEF QueryInit, StreamInit, TextsAreGenuine, AnswerIsGenuine, AnswerIsKept
<1>2. TextsAreGenuine => AnswerIsGenuine
  BY DEF TextsAreGenuine
<1>3. QED
  BY <1>1, <1>2, GenuineStep, PTL DEF QuerySpec

(***************************************************************************)
(* A good answer is not thrown away because the stream breaks after it     *)
(* (runClaudeAgentQueryText).                                              *)
(***************************************************************************)
THEOREM AnswersAreKept == QuerySpec => []AnswerIsKept
<1>1. QueryInit => TextsAreGenuine
  BY DEF QueryInit, StreamInit, TextsAreGenuine, AnswerIsGenuine, AnswerIsKept
<1>2. TextsAreGenuine => AnswerIsKept
  BY DEF TextsAreGenuine
<1>3. QED
  BY <1>1, <1>2, GenuineStep, PTL DEF QuerySpec

-----------------------------------------------------------------------------
\* Nothing but a choice by hand touches the model in the file.
LEMMA FallbackKeepsFile ==
    ASSUME FileHoldsChoice, choice' = choice,
           \/ \E from : RecordFallback(from)
           \/ ClearFallback
           \/ UNCHANGED stored
    PROVE  FileHoldsChoice'
<1>1. choice # FallbackModel => ReadState = stored
  BY DEF FileHoldsChoice, ReadState
<1>2. choice # FallbackModel => stored'.model = choice
  BY <1>1 DEF FileHoldsChoice, RecordFallback, ClearFallback
<1>3. QED
  BY <1>2 DEF FileHoldsChoice

LEMMA ChoiceStep == FileHoldsChoice /\ [QueryNext]_agentVars => FileHoldsChoice'
<1> SUFFICES ASSUME FileHoldsChoice, [QueryNext]_agentVars PROVE FileHoldsChoice'
  OBVIOUS
<1>1. CASE \E m \in Models : Choose(m)
  BY <1>1 DEF Choose, FileHoldsChoice
<1>2. CASE OtherStarts
  BY <1>2, FallbackKeepsFile DEF OtherStarts
<1>3. CASE OtherEnds
  BY <1>3, FallbackKeepsFile DEF OtherEnds
<1>4. CASE Ask
  BY <1>4, FallbackKeepsFile DEF Ask
<1>5. ASSUME StandIn PROVE FileHoldsChoice'
  BY <1>5, FallbackKeepsFile DEF StandIn
<1>6. CASE \E loggedIn \in BOOLEAN : CheckAnswered(loggedIn)
  BY <1>5, <1>6, FallbackKeepsFile DEF CheckAnswered
<1>7. CASE \E slept, inTime \in BOOLEAN : CheckFailed(slept, inTime)
  BY <1>5, <1>7, FallbackKeepsFile DEF CheckFailed
<1>8. CASE \E result \in {"limit", "error", "notice", "json"} : ExecAnswered(result)
  BY <1>5, <1>8, FallbackKeepsFile DEF ExecAnswered, QueryReturns
<1>9. CASE ExecFailed
  BY <1>5, <1>9, FallbackKeepsFile DEF ExecFailed, QueryReturns
<1>10. CASE \E thrown \in BOOLEAN : ClaudeEnds(thrown)
  BY <1>10, FallbackKeepsFile DEF ClaudeEnds, QueryReturns
<1>11. CASE ProcessSteps \/ StreamSteps
  BY <1>11, FallbackKeepsFile DEF ProcessSteps, StreamSteps, queryVars
<1>12. CASE UNCHANGED agentVars
  BY <1>12, FallbackKeepsFile DEF agentVars
<1>13. QED
  BY <1>1, <1>2, <1>3, <1>4, <1>6, <1>7, <1>8, <1>9, <1>10, <1>11, <1>12 DEF QueryNext

(***************************************************************************)
(* No query that fails, late or beside another one, changes what the next  *)
(* one is started for, while the user's choice is not the fallback model   *)
(* (src/src/util/model-store.ts).                                          *)
(***************************************************************************)
THEOREM ChoiceOutlivesFallback == QuerySpec => []ChoiceSurvivesFallback
<1>1. QueryInit => FileHoldsChoice
  BY DEF QueryInit, FileHoldsChoice
<1>2. FileHoldsChoice => ChoiceSurvivesFallback
  BY DEF FileHoldsChoice, ChoiceSurvivesFallback, ReadState
<1>3. QED
  BY <1>1, <1>2, ChoiceStep, PTL DEF QuerySpec

-----------------------------------------------------------------------------
(***************************************************************************)
(* The clocks never run backwards, the time awake is part of the time, and *)
(* what was charged up to the last tick covers the time awake until then.  *)
(* The last conjunct is what makes a tick of an accruing deadline leave a  *)
(* timer within the budget.                                                *)
(***************************************************************************)
ClocksAgree ==
    /\ lastTick <= wall
    /\ lastAwake <= awake
    /\ awake - lastAwake <= wall - lastTick
    /\ lastAwake <= lastTick

DeadlineInv ==
    /\ DeadlineTypeOK
    /\ ClocksAgree
    /\ measures /\ state = "accruing" => effective >= lastAwake
    /\ StopsInTime

-----------------------------------------------------------------------------
(***************************************************************************)
(* creditFor: with a measurement, a span costs at least the time awake     *)
(* and at most the span; without one it costs at most the span too.        *)
(***************************************************************************)
LEMMA CreditBounds ==
    ASSUME NEW span \in Nat, NEW awakeSpan \in Nat, awakeSpan <= span
    PROVE  /\ Credit(span, awakeSpan) \in Nat
           /\ Credit(span, awakeSpan) <= span
           /\ measures => Credit(span, awakeSpan) >= awakeSpan
<1>1. Noise(span) \in Nat
  BY DeadlineAssumption DEF Noise, Most
<1>2. QED
  BY <1>1, DeadlineAssumption DEF Credit, Least

\* The shares of two spans are no more than the share of both together.
LEMMA ShareSums ==
    ASSUME NEW n \in Nat \ {0}, NEW a \in Nat, NEW b \in Nat
    PROVE  (a \div n) + (b \div n) <= (a + b) \div n
<1> DEFINE p == a \div n
           q == b \div n
           r == (a + b) \div n
<1>1. p \in Nat /\ q \in Nat /\ r \in Nat
  OBVIOUS
<1>2. n * p <= a /\ n * q <= b
  OBVIOUS
<1>3. a + b < n * (r + 1)
  OBVIOUS
<1> HIDE DEF p, q, r
<1>4. n * (p + q) < n * (r + 1)
  <2>1. n * (p + q) = n * p + n * q
    BY <1>1
  <2>2. n * p \in Nat /\ n * q \in Nat /\ n * (r + 1) \in Nat
    BY <1>1
  <2>3. QED
    BY <1>1, <1>2, <1>3, <2>1, <2>2
<1>5. ASSUME p + q >= r + 1 PROVE FALSE
  <2>1. PICK d \in Nat : p + q = (r + 1) + d
    <3>1. (p + q) - (r + 1) \in Nat
      BY <1>1, <1>5
    <3>2. QED
      BY <3>1, <1>1
  <2>2. n * (p + q) = n * (r + 1) + n * d
    BY <2>1, <1>1
  <2>3. n * d \in Nat /\ n * (r + 1) \in Nat
    BY <1>1
  <2>4. QED
    BY <1>4, <2>2, <2>3
<1>6. p + q <= r
  BY <1>1, <1>5
<1>7. QED
  BY <1>6 DEF p, q, r

(***************************************************************************)
(* schedule: the next tick lies ahead, and no further than the budget.     *)
(***************************************************************************)
LEMMA DelayBounds ==
    ASSUME NEW spent \in Nat, NEW now \in Nat
    PROVE  /\ Delay(spent, now) \in Nat \ {0}
           /\ spent < Budget => Delay(spent, now) <= Budget - spent
  BY DeadlineAssumption DEF Delay, Most, Least

LEMMA DeadlineInvInit == DeadlineInit => DeadlineInv
<1> SUFFICES ASSUME DeadlineInit PROVE DeadlineInv
  OBVIOUS
<1>1. Delay(0, 0) \in Nat \ {0} /\ (0 < Budget => Delay(0, 0) <= Budget)
  BY DelayBounds, DeadlineAssumption
<1>2. Budget = 0 => Delay(0, 0) <= 1
  BY DeadlineAssumption DEF Delay, Most, Least
<1>3. DeadlineTypeOK
  <2>1. asleep \in BOOLEAN /\ measures \in BOOLEAN
    BY Zenon DEF DeadlineInit
  <2>2. {wall, awake, lastTick, lastAwake, effective, ticks, timer} \subseteq Nat
    BY <1>1 DEF DeadlineInit
  <2>3. QED
    BY <2>1, <2>2 DEF DeadlineInit, DeadlineTypeOK
<1>4. ClocksAgree /\ effective >= lastAwake
  BY DEF DeadlineInit, ClocksAgree
<1>5. StopsInTime
  BY <1>1, <1>2, DeadlineAssumption DEF DeadlineInit, StopsInTime, Most
<1>6. QED
  BY <1>3, <1>4, <1>5 DEF DeadlineInv

LEMMA PassInv == DeadlineInv /\ Pass => DeadlineInv'
  BY DeadlineAssumption DEF DeadlineInv, DeadlineTypeOK, ClocksAgree, StopsInTime, Most, Pass

LEMMA SwitchInv == DeadlineInv /\ Switch => DeadlineInv'
  BY DeadlineAssumption DEF DeadlineInv, DeadlineTypeOK, ClocksAgree, StopsInTime, Most, Switch

LEMMA TickInv == DeadlineInv /\ Tick => DeadlineInv'
<1> SUFFICES ASSUME DeadlineInv, Tick PROVE DeadlineInv'
  OBVIOUS
<1> DEFINE span == wall - lastTick
           awakeSpan == awake - lastAwake
           credit == Credit(span, awakeSpan)
           spent == effective + credit
           over == wall >= Ceiling \/ spent >= Budget
           delay == Delay(spent, wall)
<1>1. span \in Nat /\ awakeSpan \in Nat /\ awakeSpan <= span
  BY DEF DeadlineInv, DeadlineTypeOK, ClocksAgree
<1>2. credit \in Nat /\ credit <= span /\ (measures => credit >= awakeSpan)
  BY <1>1, CreditBounds
<1>3. spent \in Nat /\ (measures => spent >= awake)
  BY <1>2 DEF DeadlineInv, DeadlineTypeOK, ClocksAgree, Tick
<1>4. delay \in Nat \ {0} /\ (spent < Budget => delay <= Budget - spent)
  BY <1>3, DelayBounds DEF DeadlineInv, DeadlineTypeOK
<1>5. /\ effective' = spent
      /\ state' = IF over THEN "expired" ELSE state
      /\ timer' = IF over THEN timer ELSE wall + delay
      /\ ticks' = ticks + 1
      /\ lastTick' = wall /\ lastAwake' = awake
      /\ UNCHANGED <<wall, awake, asleep, measures>>
      /\ state = "accruing"
  BY DEF Tick
<1> HIDE DEF spent, delay
<1>6. DeadlineTypeOK'
  BY <1>3, <1>4, <1>5 DEF DeadlineInv, DeadlineTypeOK
<1>7. ClocksAgree'
  BY <1>5 DEF DeadlineInv, DeadlineTypeOK, ClocksAgree
<1>8. (measures /\ state = "accruing" => effective >= lastAwake)'
  BY <1>3, <1>5
<1>9. StopsInTime'
  BY <1>3, <1>4, <1>5, DeadlineAssumption DEF DeadlineInv, DeadlineTypeOK, ClocksAgree, StopsInTime, Most
<1>10. QED
  BY <1>6, <1>7, <1>8, <1>9 DEF DeadlineInv

LEMMA DisposeInv == DeadlineInv /\ Dispose => DeadlineInv'
<1> SUFFICES ASSUME DeadlineInv, Dispose PROVE DeadlineInv'
  OBVIOUS
<1>1. /\ wall - lastTick \in Nat /\ awake - lastAwake \in Nat
      /\ awake - lastAwake <= wall - lastTick
  BY DEF DeadlineInv, DeadlineTypeOK, ClocksAgree
<1>2. Credit(wall - lastTick, awake - lastAwake) \in Nat
  BY <1>1, CreditBounds
<1>3. Elapsed \in Nat
  BY <1>2 DEF Elapsed, DeadlineInv, DeadlineTypeOK
<1>4. QED
  BY <1>3 DEF Dispose, DeadlineInv, DeadlineTypeOK, ClocksAgree, StopsInTime

LEMMA DeadlineStep == DeadlineInv /\ [DeadlineNext]_clocks => DeadlineInv'
<1> SUFFICES ASSUME DeadlineInv, [DeadlineNext]_clocks PROVE DeadlineInv'
  OBVIOUS
<1>1. CASE Pass
  BY <1>1, PassInv
<1>2. CASE Switch
  BY <1>2, SwitchInv
<1>3. CASE Tick
  BY <1>3, TickInv
<1>4. CASE Dispose
  BY <1>4, DisposeInv
<1>5. CASE UNCHANGED clocks
  BY <1>5 DEF clocks, DeadlineInv, DeadlineTypeOK, ClocksAgree, StopsInTime
<1>6. QED
  BY <1>1, <1>2, <1>3, <1>4, <1>5 DEF DeadlineNext

THEOREM DeadlineInvariance == DeadlineSpec => []DeadlineInv
  BY DeadlineInvInit, DeadlineStep, PTL DEF DeadlineSpec

-----------------------------------------------------------------------------
(***************************************************************************)
(* The clocks, the charge and the timer are times: none is ever negative,  *)
(* whatever is measured (creditFor, schedule).                             *)
(***************************************************************************)
THEOREM DeadlineTypes == DeadlineSpec => []DeadlineTypeOK
<1>1. DeadlineInv => DeadlineTypeOK
  BY DEF DeadlineInv
<1>2. QED
  BY <1>1, DeadlineInvariance, PTL

(***************************************************************************)
(* A process that hangs while the machine is awake spends its budget,      *)
(* however late the ticks come (creditFor, pendingMs).                     *)
(***************************************************************************)
THEOREM AwakeTimeIsCharged == DeadlineSpec => []AwakeIsCharged
<1>1. DeadlineInv => AwakeIsCharged
  <2> SUFFICES ASSUME DeadlineInv, measures, state = "accruing" PROVE Elapsed >= awake
    BY DEF AwakeIsCharged
  <2>1. /\ wall - lastTick \in Nat /\ awake - lastAwake \in Nat
        /\ awake - lastAwake <= wall - lastTick
    BY DEF DeadlineInv, DeadlineTypeOK, ClocksAgree
  <2>2. /\ Credit(wall - lastTick, awake - lastAwake) \in Nat
        /\ Credit(wall - lastTick, awake - lastAwake) >= awake - lastAwake
    BY <2>1, CreditBounds
  <2>3. QED
    BY <2>2 DEF Elapsed, DeadlineInv, DeadlineTypeOK
<1>2. QED
  BY <1>1, DeadlineInvariance, PTL

(***************************************************************************)
(* Whoever never sleeps has a timer within the budget (schedule).          *)
(***************************************************************************)
THEOREM TimerWithinBudget == DeadlineSpec => []StopsInTime
<1>1. DeadlineInv => StopsInTime
  BY DEF DeadlineInv
<1>2. QED
  BY <1>1, DeadlineInvariance, PTL

(***************************************************************************)
(* A tick that charges a sleep in full charges no more than the noise for  *)
(* it, so that the ticks together charge the time awake, one NoiseFloor    *)
(* each, and the NoiseShare of the time (creditFor, sleepNoiseMs).         *)
(***************************************************************************)
LEMMA TickCharges ==
    DeadlineInv /\ SleepIsNotCharged /\ Tick => SleepIsNotCharged'
<1> SUFFICES ASSUME DeadlineInv, SleepIsNotCharged, Tick, measures
             PROVE  effective' <= lastAwake' + ticks' * NoiseFloor + lastTick' \div NoiseShare
  BY DEF SleepIsNotCharged, Tick
<1> DEFINE span == wall - lastTick
           awakeSpan == awake - lastAwake
           credit == Credit(span, awakeSpan)
           share == span \div NoiseShare
           shareBefore == lastTick \div NoiseShare
           shareAfter == wall \div NoiseShare
           floors == ticks * NoiseFloor
<1>1. span \in Nat /\ awakeSpan \in Nat /\ awakeSpan <= span
  BY DEF DeadlineInv, DeadlineTypeOK, ClocksAgree
<1>2. share \in Nat /\ shareBefore \in Nat /\ shareAfter \in Nat
  BY <1>1, DeadlineAssumption DEF DeadlineInv, DeadlineTypeOK
<1>3. floors \in Nat /\ (ticks + 1) * NoiseFloor = floors + NoiseFloor
  BY DeadlineAssumption DEF DeadlineInv, DeadlineTypeOK
<1>4. shareBefore + share <= shareAfter
  <2>1. lastTick + span = wall
    BY <1>1 DEF DeadlineInv, DeadlineTypeOK
  <2>2. shareBefore + share <= (lastTick + span) \div NoiseShare
    BY <1>1, ShareSums, DeadlineAssumption DEF DeadlineInv, DeadlineTypeOK
  <2>3. QED
    BY <2>1, <2>2
<1>5. /\ effective' = effective + credit
      /\ ticks' = ticks + 1 /\ lastTick' = wall /\ lastAwake' = awake
      /\ measures' = measures
      /\ state = "accruing"
  BY DEF Tick
<1>6. effective <= lastAwake + floors + shareBefore
  BY <1>5 DEF SleepIsNotCharged
<1> HIDE DEF share, shareBefore, shareAfter, floors
<1>7. credit \in Nat /\ credit <= awakeSpan + NoiseFloor + share
  BY <1>1, <1>2, DeadlineAssumption DEF Credit, Noise, Most, share
<1> HIDE DEF credit
<1>8. effective + credit <= awake + (floors + NoiseFloor) + shareAfter
  BY <1>1, <1>2, <1>3, <1>4, <1>6, <1>7, DeadlineAssumption DEF DeadlineInv, DeadlineTypeOK
<1>9. QED
  BY <1>3, <1>5, <1>8 DEF shareAfter

(***************************************************************************)
(* Sleep is not charged beyond the noise: the repair of 2026-08-02, for    *)
(* every budget, tick and noise (creditFor).                               *)
(***************************************************************************)
THEOREM SleepIsFree == DeadlineSpec => []SleepIsNotCharged
<1>1. DeadlineInit => SleepIsNotCharged
  BY DeadlineAssumption DEF DeadlineInit, SleepIsNotCharged
<1>2. DeadlineInv /\ SleepIsNotCharged /\ [DeadlineNext]_clocks => SleepIsNotCharged'
  <2> SUFFICES ASSUME DeadlineInv, SleepIsNotCharged, [DeadlineNext]_clocks PROVE SleepIsNotCharged'
    OBVIOUS
  <2>1. CASE Tick
    BY <2>1, TickCharges
  <2>2. CASE Pass
    BY <2>2 DEF Pass, SleepIsNotCharged
  <2>3. CASE Switch
    BY <2>3 DEF Switch, SleepIsNotCharged
  <2>4. CASE Dispose
    BY <2>4 DEF Dispose, SleepIsNotCharged
  <2>5. CASE UNCHANGED clocks
    BY <2>5 DEF clocks, SleepIsNotCharged
  <2>6. QED
    BY <2>1, <2>2, <2>3, <2>4, <2>5 DEF DeadlineNext
<1>3. QED
  BY <1>1, <1>2, DeadlineInvariance, PTL DEF DeadlineSpec
=============================================================================
