-------------------------- MODULE MCSubagentManager --------------------------
(* Instances of SubagentManager for TLC. *)
EXTENDS SubagentManager

CONSTANTS s1, s2, h1, h2
=============================================================================
