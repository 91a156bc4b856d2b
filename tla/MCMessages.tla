----------------------------- MODULE MCMessages -----------------------------
(* An instance of Messages for TLC: its model values. *)
EXTENDS Messages

CONSTANTS a1, web
=============================================================================
