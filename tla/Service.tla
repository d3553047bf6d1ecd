------------------------------ MODULE Service ------------------------------
(***************************************************************************)
(* The kvasweb process as its own updates see it: which version of the     *)
(* program runs, if any, and the failures left to the environment.         *)
(***************************************************************************)
EXTENDS Integers

CONSTANTS
  MaxFaults,  \* failures of the environment in a behaviour
  None        \* no version, no file, no process

ASSUME ServiceAssumption == MaxFaults \in Nat

VARIABLES
  serving,  \* version of the kvasweb process, None while it is down
  faults    \* failures so far

Up == serving # None

\* Something of the environment fails: no space, no power, a command that
\* exits with an error.
Fault == faults < MaxFaults /\ faults' = faults + 1

NoFault == faults' = faults
=============================================================================
