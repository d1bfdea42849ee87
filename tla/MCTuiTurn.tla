---------------------------- MODULE MCTuiTurn ----------------------------
(* Instances of TuiTurn for TLC. *)
EXTENDS TuiTurn, TLC

CONSTANTS h1, h2, tui
=============================================================================
