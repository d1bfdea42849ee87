--------------------------- MODULE MCSessionStore ---------------------------
(* Two writers of one journal; nothing tells the writers apart.              *)
EXTENDS SessionStore, TLC

Symmetry == Permutations(Writer)
=============================================================================
