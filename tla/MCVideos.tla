----------------------------- MODULE MCVideos -------------------------------
(* Module VideoBoard for TLC: two videos of one channel, or of two.        *)
EXTENDS VideoBoard

CONSTANTS a, b, c, v1, v2
MCDefs == <<a, b>>
MCPlace == (v1 :> a) @@ (v2 :> b)
MCChannel == (v1 :> "one") @@ (v2 :> "two")
=============================================================================
