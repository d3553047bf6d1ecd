--------------------------- MODULE MCCheckRounds ---------------------------
(* Values for the constants of CheckRounds, shared by its configurations. *)
EXTENDS CheckRounds

CONSTANTS a, b, c

Two == <<a, b>>
Three == <<a, b, c>>

Like(latency, tunnel, speed) ==
  [reach |-> TRUE, works |-> TRUE, latency |-> latency, tunnel |-> tunnel,
   speed |-> speed]

\* The first three are each better than the one before, and the first better
\* than the last; the others fail in one stage each.
Mixed ==
  {Like(2, 30, 100), Like(2, 20, 90), Like(40, 10, 80),
   [Like(2, 20, 90) EXCEPT !.reach = FALSE],
   [Like(2, 20, 90) EXCEPT !.works = FALSE],
   Like(2, 20, 0)}

\* Days of one and the same server; on some its measurement fails.
Noise == {Like(2, 30, 100), Like(2, 20, 93), Like(40, 10, 88), Like(2, 20, 0)}
=============================================================================
