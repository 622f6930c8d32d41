---------------------------- MODULE ClaudeStream ----------------------------
(***************************************************************************)
(* How runClaudeAgentQueryText (src/src/util/agent-query.ts) reads the     *)
(* stream of messages of the Claude SDK.  A text is "json" (an answer),    *)
(* "empty", "notice" (a failure notice in the list FAILURE_SIGNALS) or     *)
(* "error" (the text of an API error that the list does not know).         *)
(***************************************************************************)
EXTENDS Naturals

CONSTANT MaxResults  \* bound: result messages in a stream

VARIABLES
    finalText,  \* the text of the last good result
    errorText,  \* a result with is_error was received
    abnormal,   \* a result with another subtype was received
    timedOut,   \* the deadline expired and the stream was aborted
    results     \* result messages so far

streamVars == <<finalText, errorText, abnormal, timedOut, results>>

Texts == {"json", "empty", "notice", "error"}

StreamInit ==
    /\ finalText = "empty"
    /\ errorText = FALSE
    /\ abnormal = FALSE
    /\ timedOut = FALSE
    /\ results = 0

OpenStream ==
    /\ finalText' = "empty"
    /\ errorText' = FALSE
    /\ abnormal' = FALSE
    /\ timedOut' = FALSE
    /\ results' = 0

ReceiveResult(text) ==
    /\ results < MaxResults
    /\ results' = results + 1
    /\ finalText' = text
    /\ UNCHANGED <<errorText, abnormal, timedOut>>

\* Mutant: the subtype "success" alone makes a result good.
ReceiveErrorAsResult ==
    /\ results < MaxResults
    /\ results' = results + 1
    /\ finalText' = "error"
    /\ UNCHANGED <<errorText, abnormal, timedOut>>

ReceiveError ==
    /\ results < MaxResults
    /\ results' = results + 1
    /\ errorText' = TRUE
    /\ UNCHANGED <<finalText, abnormal, timedOut>>

\* For instance error_max_turns.
ReceiveAbnormal ==
    /\ results < MaxResults
    /\ results' = results + 1
    /\ abnormal' = TRUE
    /\ UNCHANGED <<finalText, errorText, timedOut>>

Expire ==
    /\ ~timedOut
    /\ timedOut' = TRUE
    /\ UNCHANGED <<finalText, errorText, abnormal, results>>

\* The stream ends, by an exception or without: does the query fail?
StreamFails(thrown) ==
    \/ timedOut \/ errorText
    \/ finalText = "empty" /\ (thrown \/ abnormal)
    \/ finalText = "notice"

=============================================================================
