---------------------------- MODULE ServerSwitch ----------------------------
(***************************************************************************)
(* What Manager.Apply promises: the server the router is configured for    *)
(* and the server recorded as active change together or not at all.  The   *)
(* exceptions are named, and each costs something that can be counted: a   *)
(* failure of the environment, or a restart of the service.  The one free  *)
(* exception is Stray: a failed switch that found no configuration to go   *)
(* back to leaves its own behind.                                          *)
(***************************************************************************)
EXTENDS Naturals

CONSTANTS Server, None, MaxFaults

VARIABLES
  current,  \* server the router's configuration stands for
  chosen,   \* server recorded as the active one
  faults,   \* failures the environment may still cause
  boots     \* restarts of the service so far

vars == <<current, chosen, faults, boots>>

Init ==
  /\ chosen \in Server \cup {None}
  /\ current = chosen
  /\ faults = MaxFaults
  /\ boots = 0

\* A switch is one step.  The configuration may be deleted under it.
Switch ==
  /\ chosen' \in Server
  /\ current' = chosen' \/ (current = None /\ current' = None)
  /\ UNCHANGED <<faults, boots>>

Stray ==
  /\ current = None /\ current' \in Server
  /\ UNCHANGED <<chosen, faults, boots>>

\* kvas upgrade, a failed rollback, or a failure that changes neither server.
Failure ==
  /\ faults > 0 /\ faults' = faults - 1
  /\ current' \in Server \cup {None}
  /\ UNCHANGED <<chosen, boots>>

\* A restart finds a half-made switch, and the state that was last saved.
Crash ==
  /\ boots' = boots + 1
  /\ current' \in Server \cup {None}
  /\ chosen' \in Server \cup {None}
  /\ UNCHANGED faults

Next == Switch \/ Stray \/ Failure \/ Crash

Spec == Init /\ [][Next]_vars
=============================================================================
