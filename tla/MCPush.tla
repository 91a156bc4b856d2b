------------------------------- MODULE MCPush -------------------------------
(* An instance of Push for TLC: its model values. *)
EXTENDS Push

CONSTANT agent
=============================================================================
