----------------------------- MODULE XrayUpdate -----------------------------
(***************************************************************************)
(* How the xray binary is replaced (handleXrayUpdate of httpapi/xray.go,   *)
(* xrayupd/xrayupd.go, RestartTunnel of autovpn/manager.go) beside the     *)
(* watchdog, which restarts the same tunnel, and what is left of it when   *)
(* the service dies on the way.                                            *)
(*                                                                         *)
(* A build stands for a whole binary and its version.  One update at a     *)
(* time: nothing in the code sees to that, but the page does.              *)
(***************************************************************************)
EXTENDS Service

CONSTANTS
  Build,    \* the builds of xray
  Runs,     \* those that answer "version" on this processor
  Carries,  \* those that open the proxy port with this configuration
  Part      \* a file that is not a whole binary

ASSUME XrayAssumption ==
  /\ Carries \subseteq Runs /\ Runs \subseteq Build
  /\ {Part, None} \cap Build = {} /\ Part # None

VARIABLES
  bin,      \* the binary in use
  fresh,    \* its .new, written in place
  bak,      \* its .bak
  proc,     \* build the xray process was started from, None without one
  iface,    \* the proxy interface of the router is up
  job,      \* where the update is, and its locals
  watch,    \* where the watchdog's repair is
  cut       \* an update died, or could not go back, after the swap

xrayVars == <<bin, fresh, bak, proc, iface, job, watch, cut>>
files == <<bin, fresh, bak>>
tunnel == <<proc, iface>>

File == Build \cup {Part, None}

\* want: the build found; before: the one it replaced, from the swap on;
\* late: the 20 minutes are over.
NoJob == [at |-> "idle", before |-> None, want |-> None, late |-> FALSE]

\* The steps up to the swap, after it, and after going back.
Trying == {"restart", "wait", "raise"}
Undoing == {"rerestart", "rewait", "reraise"}
JobSteps == {"idle", "latest", "download", "extract", "write", "version",
             "backup", "swap", "back"} \cup Trying \cup Undoing

JobType == [at: JobSteps, before: Build \cup {None}, want: Build \cup {None},
            late: BOOLEAN]

Step(at) == job' = [job EXCEPT !.at = at]

\* A step that heeds the context fails when time is up.
Fails == (job.late /\ NoFault) \/ Fault

-----------------------------------------------------------------------------
(***************************************************************************)
(* handleXrayUpdate                                                        *)
(***************************************************************************)

\* The archive and the .new go with the update, whichever way it ends.
Finish == job' = NoJob /\ fresh' = None

\* XrayVersion: a binary that does not run has no version.
VersionOf(file) == IF file \in Runs THEN file ELSE None

NeedsNew(have, found) == have # None /\ found # None /\ have # found

Begin ==
  /\ Up /\ job.at = "idle"
  /\ job' = [NoJob EXCEPT !.at = "latest"]
  /\ UNCHANGED <<files, tunnel, watch, cut>> /\ NoFault

\* Up to the archive, failing changes nothing.
GiveUpXray ==
  /\ job.at \in {"latest", "download"}
  /\ job' = NoJob
  /\ UNCHANGED <<files, tunnel, watch, cut>> /\ NoFault

FindLatest ==
  /\ job.at = "latest"
  /\ \E found \in Build :
       job' = IF NeedsNew(VersionOf(bin), found)
              THEN [job EXCEPT !.at = "download", !.want = found] ELSE NoJob
  /\ UNCHANGED <<files, tunnel, watch, cut>> /\ NoFault

DownloadArchive ==
  /\ job.at = "download" /\ Step("extract")
  /\ UNCHANGED <<files, tunnel, watch, cut>> /\ NoFault

\* ExtractBinary truncates the .new, then fills it.  What it writes may differ
\* from the build that was built: a release need not come with a digest.
Extract ==
  /\ job.at = "extract"
  /\ fresh' = Part
  /\ Step("write")
  /\ UNCHANGED <<bin, bak, tunnel, watch, cut>> /\ NoFault

Write ==
  /\ job.at = "write"
  /\ \/ fresh' \in {job.want, Part} /\ Step("version") /\ NoFault
     \/ Finish /\ Fault
  /\ UNCHANGED <<bin, bak, tunnel, watch, cut>>

\* A mutant of Answers: a file of the right length will do.
Answers_Unasked == TRUE

Answers == fresh \in Runs

RunVersion ==
  /\ job.at = "version"
  /\ \/ Answers /\ ~job.late /\ Step("backup") /\ UNCHANGED fresh /\ NoFault
     \/ ~Answers /\ Finish /\ NoFault
     \/ Finish /\ Fails
  /\ UNCHANGED <<bin, bak, tunnel, watch, cut>>

\* A mutant of Kept: the backup of an earlier update is good enough.
Kept_First == IF bak = None THEN bin ELSE bak

Kept == bin

Backup ==
  /\ job.at = "backup"
  /\ \/ bak' = Kept /\ Step("swap") /\ UNCHANGED fresh /\ NoFault
     \/ UNCHANGED bak /\ Finish /\ Fault
  /\ UNCHANGED <<bin, tunnel, watch, cut>>

Swap ==
  /\ job.at = "swap"
  /\ \/ /\ bin' = fresh /\ fresh' = None /\ NoFault
        /\ job' = [job EXCEPT !.at = "restart", !.before = bin]
     \/ UNCHANGED bin /\ Finish /\ Fault
  /\ UNCHANGED <<bak, tunnel, watch, cut>>

-----------------------------------------------------------------------------
(***************************************************************************)
(* RestartTunnel, which the update calls after the swap and again after    *)
(* going back                                                              *)
(***************************************************************************)

Restarted == proc' = VersionOf(bin)

\* Stopped on the way, before or after it replaced the process.
RestartCut == proc' \in {proc, None, VersionOf(bin)}

\* A mutant of Fall: a tunnel that does not come up is only reported.
Fall_Report == Finish

\* Failing on the new build means going back, failing on the old one the end.
Fall == IF job.at \in Trying THEN Step("back") /\ UNCHANGED fresh ELSE Finish

RestartXray ==
  /\ job.at \in {"restart", "rerestart"}
  /\ \/ /\ ~job.late /\ Restarted /\ NoFault
        /\ Step(IF job.at = "restart" THEN "wait" ELSE "rewait")
        /\ UNCHANGED fresh
     \/ RestartCut /\ Fails /\ Fall
  /\ UNCHANGED <<bin, bak, iface, watch, cut>>

PortOpen == proc \in Carries

WaitProxy ==
  /\ job.at \in {"wait", "rewait"}
  /\ \/ /\ PortOpen /\ ~job.late /\ NoFault
        /\ Step(IF job.at = "wait" THEN "raise" ELSE "reraise")
        /\ UNCHANGED fresh
     \/ ~PortOpen /\ NoFault /\ Fall
     \/ Fails /\ Fall
  /\ UNCHANGED <<bin, bak, tunnel, watch, cut>>

\* The update is done, or undone, with the interface.
RaiseInterface ==
  /\ job.at \in {"raise", "reraise"}
  /\ \/ /\ ~job.late /\ iface' = TRUE /\ NoFault
        /\ Finish
        /\ cut' = (cut /\ job.at # "raise")
     \/ UNCHANGED <<iface, cut>> /\ Fails /\ Fall
  /\ UNCHANGED <<bin, bak, proc, watch>>

GoBack ==
  /\ job.at = "back"
  /\ \/ /\ bin' = bak /\ Step("rerestart") /\ NoFault
        /\ UNCHANGED <<fresh, cut>>
     \/ UNCHANGED bin /\ Finish /\ cut' = TRUE /\ Fault
  /\ UNCHANGED <<bak, tunnel, watch>>

\* The time limit of the update passes; before the archive is there that is
\* GiveUpXray.
TimeOut ==
  /\ job.at \notin {"idle", "latest", "download"} /\ ~job.late
  /\ job' = [job EXCEPT !.late = TRUE]
  /\ UNCHANGED <<files, tunnel, watch, cut>> /\ NoFault

Job ==
  \/ GiveUpXray \/ FindLatest \/ DownloadArchive \/ Extract \/ Write
  \/ RunVersion \/ Backup \/ Swap \/ RestartXray \/ WaitProxy
  \/ RaiseInterface \/ GoBack

-----------------------------------------------------------------------------
(***************************************************************************)
(* The watchdog's repair, and the environment                              *)
(***************************************************************************)

WatchSteps == {"idle", "restart", "wait", "raise"}

\* A mutant of TunnelHealthy: the port is enough.
TunnelHealthy_PortOnly == PortOpen

TunnelHealthy == PortOpen /\ iface

\* EnsureTunnel: Apply of the active server, from its restart of xray on.
Ensure ==
  /\ Up /\ watch = "idle" /\ ~TunnelHealthy
  /\ watch' = "restart"
  /\ UNCHANGED <<files, tunnel, job, cut>> /\ NoFault

WatchRestart ==
  /\ watch = "restart"
  /\ \/ Restarted /\ watch' = "wait" /\ NoFault
     \/ RestartCut /\ watch' = "idle" /\ Fault
  /\ UNCHANGED <<files, iface, job, cut>>

WatchWait ==
  /\ watch = "wait"
  /\ watch' = IF PortOpen THEN "raise" ELSE "idle"
  /\ UNCHANGED <<files, tunnel, job, cut>> /\ NoFault

WatchRaise ==
  /\ watch = "raise"
  /\ \/ iface' = TRUE /\ NoFault
     \/ UNCHANGED iface /\ Fault
  /\ watch' = "idle"
  /\ UNCHANGED <<files, proc, job, cut>>

Watchdog == Ensure \/ WatchRestart \/ WatchWait \/ WatchRaise

TunnelDies ==
  /\ \/ proc' = None /\ UNCHANGED iface
     \/ iface' = FALSE /\ UNCHANGED proc
  /\ UNCHANGED <<files, job, watch, cut>> /\ Fault

\* The service dies with the goroutines of the update and of the watchdog.
\* Files are left as they are; from the swap on nobody goes back any more.
XrayKilled ==
  /\ job' = NoJob /\ watch' = "idle"
  /\ cut' = (cut \/ job.at \in Trying \cup {"back"})
  /\ UNCHANGED files

\* After a loss of power the init script starts xray.
XrayBoots == XrayKilled /\ Restarted /\ iface' \in BOOLEAN

XrayInit ==
  /\ bin \in Carries /\ fresh = None /\ bak = None
  /\ proc = bin /\ iface = TRUE
  /\ job = NoJob /\ watch = "idle" /\ cut = FALSE

XrayTypeOK ==
  /\ bin \in File /\ fresh \in File /\ bak \in File
  /\ proc \in Build \cup {None} /\ iface \in BOOLEAN
  /\ job \in JobType /\ watch \in WatchSteps /\ cut \in BOOLEAN
=============================================================================
