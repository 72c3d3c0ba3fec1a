---------------------------- MODULE MC_McpProxy ----------------------------
(* Three sessions that call a tool, one with arguments longer than a pipe  *)
(* holds, of a server that says two things of its own.                     *)
EXTENDS McpProxy, TLC

CONSTANTS short, other, long

MCSize == [r \in Requests |-> IF r = long THEN 3 ELSE 1]

=============================================================================
