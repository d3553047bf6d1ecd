----------------------------- MODULE MCNetworks -----------------------------
(* Values for the constants of Networks. *)
EXTENDS Networks
CONSTANTS n1, n2, v6, t1, t2, keeper
=============================================================================
