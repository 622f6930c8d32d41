-------------------------------- MODULE MCLlm --------------------------------
(***************************************************************************)
(* The queue of the long jobs with its power assertion (LlmJob), one query *)
(* of an agent with what it shares with others (AgentQuery), the deadline  *)
(* of a session (Deadline) and the account that the results are mailed     *)
(* with (MailAuth), each checked by itself in one state space: part says   *)
(* which of them moves, and the others stand still where nothing must      *)
(* happen to them.  What is asked of the queue is safety, and needs no     *)
(* fairness.                                                               *)
(***************************************************************************)
EXTENDS LlmJob, AgentQuery, Deadline

CONSTANTS Senders, Grants, NoGrant, MaxAttempts, MaxFaults

VARIABLES
    part, auth, inFlight, mail, alerted, told, alive, scoped, consent, ticket, page, faults

M == INSTANCE MailAuth

mailState ==
    <<auth, inFlight, mail, alerted, told, alive, scoped, consent, ticket, page, faults>>

\* A deadline whose work is over: no time passes.
DeadlineOver ==
    /\ wall = MaxTime /\ awake = MaxTime /\ lastTick = 0 /\ lastAwake = 0
    /\ asleep = FALSE /\ measures = TRUE
    /\ effective = 0 /\ ticks = 0 /\ timer = 0
    /\ state = "disposed"

\* An account nobody uses: the page has gone to Google and does not return.
MailOver ==
    /\ auth = M!NoAccount /\ inFlight = {}
    /\ mail = [s \in Senders |-> [M!Idle EXCEPT !.stage = "over"]]
    /\ alerted = FALSE /\ told = FALSE /\ alive = {} /\ scoped = {}
    /\ consent = "none" /\ ticket = FALSE /\ page = "away" /\ faults = MaxFaults

MCInit ==
    /\ JobInit /\ QueryInit
    /\ \/ part \in {"queue", "query"} /\ DeadlineOver /\ MailOver
       \/ part = "deadline" /\ DeadlineInit /\ MailOver
       \/ part = "mail" /\ M!Init /\ DeadlineOver

MCNext ==
    /\ UNCHANGED part
    /\ \/ part = "queue" /\ JobNext /\ UNCHANGED <<agentVars, clocks, mailState>>
       \/ part = "query" /\ QueryNext /\ UNCHANGED <<jobVars, clocks, mailState>>
       \/ part = "deadline" /\ DeadlineNext /\ UNCHANGED <<jobVars, agentVars, mailState>>
       \/ part = "mail" /\ M!Next /\ UNCHANGED <<jobVars, agentVars, clocks>>

MCSpec ==
    /\ MCInit /\ [][MCNext]_<<part, jobVars, agentVars, clocks, mailState>>
    /\ QueryFairness /\ DeadlineFairness /\ M!Fairness

-----------------------------------------------------------------------------
\* A text that failed never silences the next warning (MailAuth).
SilenceOnlyAfterText == M!SilenceOnlyAfterText

\* A dead account is found out and replaced (MailAuth).
DeadAccountRecovers == M!DeadAccountRecovers
=============================================================================
