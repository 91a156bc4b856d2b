--------------------------- MODULE MCDaemonStart ---------------------------
(* An instance of DaemonStart for TLC: its model values. *)
EXTENDS DaemonStart

CONSTANTS cli, mcp
=============================================================================
