----------------------------- MODULE AgentQuery -----------------------------
(***************************************************************************)
(* runAgentQueryText (src/src/util/agent-query.ts): one query in detail,   *)
(* from the choice of the model to its outcome, with the stored choice     *)
(* (src/src/util/model-store.ts) that it shares with the user and with     *)
(* other queries.  A query on a Codex model checks the login, runs the CLI *)
(* and, when Codex cannot be used now, runs once on the fallback model.    *)
(***************************************************************************)
EXTENDS CodexProcess, ClaudeStream

CONSTANTS
    Models,         \* the models on offer
    CodexModels,    \* those that run in the Codex CLI
    FallbackModel,  \* stands in for Codex
    DefaultModel,
    Retries,        \* how often a login check is repeated after a sleep
    NoModel

\* Which of the models are Codex, and which stands in.
ASSUME ModelAssumption ==
    /\ CodexModels \subseteq Models
    /\ FallbackModel \in Models \ CodexModels
    /\ DefaultModel \in Models
    /\ NoModel \notin Models
    /\ Retries \in Nat

VARIABLES
    stored,      \* model.json: the chosen model and the model now stood in for
    choice,      \* what the user chose last (the default before)
    queryStage,  \* "idle", "check", "exec" or "claude"
    asked,       \* the model the query was started for
    attempt,     \* login checks repeated so far
    other,       \* the Codex model of another query in progress, or NoModel
    answer,      \* the text the last query returned; "failed" if it has none (yet)
    lost         \* the last query failed with a good answer in hand

agentVars == <<procVars, streamVars, stored, choice, queryStage, asked, attempt, other, answer, lost>>

QueryInit ==
    /\ ProcInit
    /\ StreamInit
    /\ stored = [model |-> DefaultModel, fallback |-> NoModel]
    /\ choice = DefaultModel
    /\ queryStage = "idle"
    /\ asked = DefaultModel
    /\ attempt = 0
    /\ other = NoModel
    /\ answer = "failed"
    /\ lost = FALSE

-----------------------------------------------------------------------------
\* readState: an old file in which the fallback replaced the choice is put
\* right, so what is read may differ from what is stored.
ReadState ==
    IF stored.model = FallbackModel /\ stored.fallback \in Models
    THEN [stored EXCEPT !.model = stored.fallback]
    ELSE stored

\* Mutant: as before 2026-08-01, the fallback replaces the choice.
RecordFallbackAsChoice(from) == stored' = [model |-> FallbackModel, fallback |-> from]

RecordFallback(from) == stored' = [model |-> ReadState.model, fallback |-> from]

ClearFallback ==
    stored' = IF ReadState.fallback = NoModel THEN stored ELSE [model |-> ReadState.model, fallback |-> NoModel]

\* saveAgentModel: a choice by hand ends the fallback state.
Choose(m) ==
    /\ stored' = [model |-> m, fallback |-> NoModel]
    /\ choice' = m
    /\ UNCHANGED <<procVars, streamVars, queryStage, asked, attempt, other, answer, lost>>

\* Another query (a pulse, say, which does not queue) starts and ends.
OtherStarts ==
    /\ other = NoModel
    /\ ReadState.model \in CodexModels
    /\ other' = ReadState.model
    /\ UNCHANGED <<procVars, streamVars, stored, choice, queryStage, asked, attempt, answer, lost>>

OtherEnds ==
    /\ other # NoModel
    /\ other' = NoModel
    /\ \/ RecordFallback(other)
       \/ ClearFallback
       \/ UNCHANGED stored
    /\ UNCHANGED <<procVars, streamVars, choice, queryStage, asked, attempt, answer, lost>>

-----------------------------------------------------------------------------
\* The query ends with a text or fails.
QueryReturns(text, inHand) ==
    /\ queryStage' = "idle"
    /\ answer' = text
    /\ lost' = (text = "failed" /\ inHand)
    /\ attempt' = 0
    /\ Forget
    /\ UNCHANGED <<choice, asked, other>>

\* Codex cannot be used now: this query alone runs on the fallback model.
StandIn ==
    /\ RecordFallback(asked)
    /\ queryStage' = "claude"
    /\ OpenStream
    /\ attempt' = 0
    /\ Forget
    /\ UNCHANGED <<choice, asked, other, answer, lost>>

Ask ==
    /\ queryStage = "idle"
    /\ asked' = ReadState.model
    /\ attempt' = 0
    /\ IF asked' \in CodexModels
          THEN queryStage' = "check" /\ Launch /\ UNCHANGED streamVars
          ELSE queryStage' = "claude" /\ OpenStream /\ UNCHANGED procVars
    /\ answer' = "failed" /\ lost' = FALSE
    /\ UNCHANGED <<stored, choice, other>>

\* The CLI answered the login check.
CheckAnswered(loggedIn) ==
    /\ queryStage = "check" /\ call = "done"
    /\ IF loggedIn
          THEN /\ queryStage' = "exec"
               /\ Launch
               /\ UNCHANGED <<streamVars, stored, choice, asked, attempt, other, answer, lost>>
          ELSE StandIn

\* The check failed; one that timed out while the machine slept is repeated
\* within limits (a number of times, and a limit on the wall clock).
CheckFailed(slept, inTime) ==
    /\ queryStage = "check" /\ call \in {"timeout", "overflow", "spawn-failed"}
    /\ IF call = "timeout" /\ slept /\ attempt < Retries /\ inTime
          THEN /\ attempt' = attempt + 1
               /\ Launch
               /\ UNCHANGED <<streamVars, stored, choice, queryStage, asked, other, answer, lost>>
          ELSE StandIn

\* The CLI ended by itself: with an answer, with a notice that a limit is
\* used up, or with an error that does or does not tell of a limit.
ExecAnswered(result) ==
    /\ queryStage = "exec" /\ call = "done"
    /\ \/ result = "limit" /\ StandIn
       \/ result = "error" /\ QueryReturns("failed", FALSE) /\ UNCHANGED <<streamVars, stored>>
       \/ result = "notice" /\ QueryReturns("failed", FALSE) /\ ClearFallback /\ UNCHANGED streamVars
       \/ result = "json" /\ QueryReturns("json", TRUE) /\ ClearFallback /\ UNCHANGED streamVars

\* Only a timeout counts as "cannot be used now".
ExecFailed ==
    /\ queryStage = "exec" /\ call \in {"timeout", "overflow", "spawn-failed"}
    /\ IF call = "timeout"
          THEN StandIn
          ELSE QueryReturns("failed", FALSE) /\ UNCHANGED <<streamVars, stored>>

\* Nothing is kept of the stream.
ClaudeEnds(thrown) ==
    /\ queryStage = "claude"
    /\ QueryReturns(IF StreamFails(thrown) THEN "failed" ELSE finalText,
              finalText = "json" /\ ~timedOut /\ ~errorText)
    /\ OpenStream
    /\ UNCHANGED stored

-----------------------------------------------------------------------------
queryVars == <<stored, choice, queryStage, asked, attempt, other, answer, lost>>

ProcessSteps ==
    /\ \/ Fork
       \/ OrphanEnds
       \/ Overflows
       \/ Watchdog("timeout")
       \/ queryStage = "exec" /\ Watchdog("idle")
       \/ ChildExits
       \/ Close
    /\ UNCHANGED <<streamVars, queryVars>>

StreamSteps ==
    /\ queryStage = "claude" /\ ~timedOut
    /\ \/ \E text \in {"json", "empty", "notice"} : ReceiveResult(text)
       \/ ReceiveError
       \/ ReceiveAbnormal
       \/ Expire
    /\ UNCHANGED <<procVars, queryVars>>

QueryNext ==
    \/ \E m \in Models : Choose(m)
    \/ OtherStarts
    \/ OtherEnds
    \/ Ask
    \/ \E loggedIn \in BOOLEAN : CheckAnswered(loggedIn)
    \/ \E slept, inTime \in BOOLEAN : CheckFailed(slept, inTime)
    \/ \E result \in {"limit", "error", "notice", "json"} : ExecAnswered(result)
    \/ ExecFailed
    \/ \E thrown \in BOOLEAN : ClaudeEnds(thrown)
    \/ ProcessSteps
    \/ StreamSteps

(***************************************************************************)
(* Budgets are spent as time passes, so the watchdog stops a call and the  *)
(* deadline a stream; a process that was sent SIGKILL exits; events are    *)
(* delivered and their handlers run.  Nothing obliges a process that is    *)
(* left to itself, nor the descendants of one, to end.                     *)
(***************************************************************************)
QueryFairness ==
    /\ WF_agentVars(Watchdog("timeout") /\ UNCHANGED <<streamVars, queryVars>>)
    /\ WF_agentVars(killing /\ ChildExits /\ UNCHANGED <<streamVars, queryVars>>)
    /\ WF_agentVars(Close /\ UNCHANGED <<streamVars, queryVars>>)
    /\ WF_agentVars(\E loggedIn \in BOOLEAN : CheckAnswered(loggedIn))
    /\ WF_agentVars(\E slept, inTime \in BOOLEAN : CheckFailed(slept, inTime))
    /\ WF_agentVars(\E result \in {"limit", "error", "notice", "json"} : ExecAnswered(result))
    /\ WF_agentVars(ExecFailed)
    /\ WF_agentVars(queryStage = "claude" /\ Expire /\ UNCHANGED <<procVars, queryVars>>)
    /\ WF_agentVars(timedOut /\ \E thrown \in BOOLEAN : ClaudeEnds(thrown))

QuerySpec == QueryInit /\ [][QueryNext]_agentVars /\ QueryFairness

-----------------------------------------------------------------------------
QueryTypeOK ==
    /\ ProcTypeOK
    /\ finalText \in Texts
    /\ {errorText, abnormal, timedOut, lost} \subseteq BOOLEAN
    /\ results \in 0 .. MaxResults
    /\ stored \in [model : Models, fallback : Models \cup {NoModel}]
    /\ choice \in Models
    /\ queryStage \in {"idle", "check", "exec", "claude"}
    /\ asked \in Models
    /\ attempt \in 0 .. Retries
    /\ other \in CodexModels \cup {NoModel}
    /\ answer \in Texts \cup {"failed"}

(***************************************************************************)
(* What a query returns is what a model wrote, never the text of an error  *)
(* or a notice that a login or a limit is gone: on 2026-10-04 one went on  *)
(* to the caller as an answer without JSON.                                *)
(***************************************************************************)
AnswerIsGenuine == answer \in {"json", "empty", "failed"}

(***************************************************************************)
(* A good answer that was received is not thrown away because the stream   *)
(* breaks afterwards, which the CLI does when it exits with code 1.        *)
(***************************************************************************)
AnswerIsKept == ~lost

(***************************************************************************)
(* While the user's choice is another model than the fallback, no query    *)
(* that fails, late or beside another one, changes what the next query is  *)
(* started for.                                                            *)
(***************************************************************************)
ChoiceSurvivesFallback == choice # FallbackModel => ReadState.model = choice

(***************************************************************************)
(* "The automatic fallback never overwrites this value" (model-store.ts):  *)
(* what the next query is started for is what the user chose last.         *)
(***************************************************************************)
ChoiceIsKept == ReadState.model = choice

(***************************************************************************)
(* Every query ends, with an answer or a failure, whatever the CLI and the *)
(* SDK do, as long as no descendant of the CLI keeps its pipes for ever.   *)
(***************************************************************************)
OrphansEnd == WF_agentVars(OrphanEnds /\ UNCHANGED <<streamVars, queryVars>>)
QueryEnds == OrphansEnd => (queryStage # "idle" ~> queryStage = "idle")

=============================================================================
