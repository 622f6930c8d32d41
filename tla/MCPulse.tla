------------------------------ MODULE MCPulse ------------------------------
(* Two symbols with an issue each, and an issue of the market as a whole.   *)
EXTENDS Pulse

MCIssues == {"a1", "b1", "m1"}
MCScope == [i \in MCIssues |-> CASE i = "a1" -> "A" [] i = "b1" -> "B" [] i = "m1" -> "macro"]

(* One issue of one symbol, for the way of an alert through several mornings. *)
OneIssue == {"a1"}
OneScope == [i \in OneIssue |-> "A"]
=============================================================================
