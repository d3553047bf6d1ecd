------------------------------ MODULE Updates ------------------------------
(***************************************************************************)
(* The two updates together: the one of the package stops the service, and *)
(* with it the one of xray at whatever step it is.                         *)
(***************************************************************************)
EXTENDS SelfUpdate, XrayUpdate

vars == <<selfVars, xrayVars, serving, faults>>

Init == SelfInit /\ XrayInit

Stop(i) == Prerm(i) /\ XrayKilled /\ UNCHANGED tunnel

Reboot == PowerLoss /\ XrayBoots

SelfStep ==
  /\ \/ \E i \in Installer : Install(i) \/ Handle(i) \/ Script(i)
     \/ Publish
  /\ UNCHANGED xrayVars

XrayStep ==
  /\ Begin \/ Job \/ TimeOut \/ Watchdog \/ TunnelDies
  /\ UNCHANGED <<selfVars, serving>>

Next == SelfStep \/ XrayStep \/ (\E i \in Installer : Stop(i)) \/ Reboot

Spec == Init /\ [][Next]_vars

\* Every step of an update, of a script and of a repair has a time limit of its
\* own; the watchdog's ticker never stops.  Nobody has to begin anything.
FairSpec ==
  /\ Spec
  /\ \A i \in Installer :
       /\ WF_vars(Handle(i) /\ UNCHANGED xrayVars)
       /\ WF_vars(Stop(i) \/ (Script(i) /\ UNCHANGED xrayVars))
  /\ WF_vars(Job /\ UNCHANGED <<selfVars, serving>>)
  /\ WF_vars(Watchdog /\ UNCHANGED <<selfVars, serving>>)

-----------------------------------------------------------------------------
TypeOK == SelfTypeOK /\ XrayTypeOK /\ faults \in 0..MaxFaults

\* The binary in use is whole and runs on this processor in every state,
\* whatever was downloaded and wherever the service or the power went
\* (ExtractBinary beside the binary, runVersion, os.Rename, WriteFileAtomic).
Runnable == bin \in Runs

\* While no update is on its way, the binary is one that brings up the tunnel,
\* unless an update died, or failed to go back, after the swap
\* (handleXrayUpdate: if the tunnel does not come up everything is undone).
WorkingBinary == job.at = "idle" /\ ~cut => bin \in Carries

\* An update of xray that comes to its end has put in the build it announced,
\* with the tunnel up, or has left the build that was in use when it began,
\* whatever older backup there was (the .bak of handleXrayUpdate).  Only when
\* going back fails does it leave a build that did not bring up the tunnel;
\* then the former one is in the backup, and the next Backup overwrites it.
Ends == job.at # "idle" /\ job'.at = "idle"
AllOrNothing ==
  [][XrayStep /\ Ends =>
       \/ bin' = IF job.before = None THEN bin ELSE job.before
       \/ bin' = job.want /\ job.at = "raise"
       \/ bin' = job.want /\ bak' = job.before /\ job.at = "back" /\ cut']_vars

\* An installation never puts in anything but a version newer than the one opkg
\* has on record, although an older package may be served under the announced
\* name (PackageVersion against rel.Version, opkg --force-downgrade).
Forward == [][program' \notin {program, None} => program' > installed]_vars

\* When no installation is on its way, a running service is of the program in
\* place, and that of the version opkg has on record; after a loss of power or
\* a failure the record may be behind, so that the same version is installed
\* once more, but never ahead, which would hide the update (prerm, postinst and
\* the script's own start; Installed reads the record).
ServesInstalled ==
  Up /\ (\A i \in Installer : order[i].at = "idle") =>
    /\ serving = program /\ installed <= program
    /\ faults = 0 => installed = program

\* The service comes back after each installation, failed ones included, as long
\* as there is a program to start (the script's check || start).
ServiceReturns == ~Up ~> (Up \/ program = None)

\* Whatever the updates and the stops of the service did to it, the tunnel comes
\* back after the last update of xray, if the binary is one that carries it
\* and there is a program to start (the watchdog's EnsureTunnel).
TunnelReturns ==
  <>[](job.at = "idle" /\ bin \in Carries /\ program # None)
    => []<>(proc \in Carries /\ iface)
=============================================================================
