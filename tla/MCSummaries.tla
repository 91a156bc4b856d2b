----------------------------- MODULE MCSummaries -----------------------------
(* An instance of Summaries for TLC: its model values. *)
EXTENDS Summaries

CONSTANTS t1, t2
=============================================================================
