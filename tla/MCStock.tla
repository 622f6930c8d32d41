------------------------------- MODULE MCStock -------------------------------
(***************************************************************************)
(* The ledger of the briefings (StockLedger) and the making of one of them *)
(* (StockCuration), each checked by itself in one state space: part says   *)
(* which of them moves, and the other stands still in a state in which     *)
(* nothing can happen to it.  The ledger sees of a briefing its Outcome.   *)
(***************************************************************************)
EXTENDS StockLedger, StockCuration

VARIABLE part

\* No slot is left and nothing runs.
LedgerOver ==
    /\ day = MaxDays /\ clock = NumSlots
    /\ open = {} /\ on = {} /\ split = FALSE
    /\ files = [r \in Roles |-> NoFile]
    /\ recorded = FALSE /\ notified = NothingNotified
    /\ queued = 0 /\ byCron = FALSE /\ run = NoRun /\ sent = NothingSent
    /\ crashes = 0 /\ doubts = 0 /\ toggles = MaxFaults

\* No briefing is being made.
CurationOver ==
    /\ registered = {} /\ held = {} /\ stage = "over" /\ quotes = NoQuotes /\ indexed = {}
    /\ rows = [c \in {} |-> {}] /\ told = Nothing /\ tried = 0 /\ found = {}
    /\ brief = NoBrief /\ edits = 0

MCInit ==
    \/ part = "ledger" /\ Init /\ CurationOver
    \/ part = "curation" /\ CurationInit /\ LedgerOver

MCNext ==
    /\ UNCHANGED part
    /\ \/ part = "ledger" /\ Next /\ UNCHANGED curationVars
       \/ part = "curation" /\ CurationNext /\ UNCHANGED vars

MCSpec == MCInit /\ [][MCNext]_<<part, vars, curationVars>>
=============================================================================
