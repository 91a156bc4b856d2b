------------------------------ MODULE MCFeed ------------------------------
(* An instance of Feed for TLC: its model values. *)
EXTENDS Feed

CONSTANTS t1, t2, a, b
=============================================================================
