------------------------------- MODULE MCAuth -------------------------------
(* Values for the constants of Auth. *)
EXTENDS Auth, TLC

CONSTANTS t1, t2, p1, p2

Symmetric == Permutations(Tab) \cup Permutations(Pass)
=============================================================================
