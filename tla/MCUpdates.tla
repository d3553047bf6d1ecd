------------------------------ MODULE MCUpdates ------------------------------
(* Values for the constants of Updates. *)
EXTENDS Updates

CONSTANTS page, old, new, deaf

=============================================================================
