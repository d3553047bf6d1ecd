--------------------------- MODULE Updates_proofs ---------------------------
(***************************************************************************)
(* What the two updates keep for every set of builds, versions and         *)
(* installers, and any number of failures: the inductive invariant says    *)
(* what the files of xray hold at each step of its update.                 *)
(***************************************************************************)
EXTENDS Updates, TLAPS

\* A package that is about to be installed is one, of a published version.
PkgOK ==
  \A i \in Installer :
    /\ order[i].at \in {"download", "verify"} => order[i].want \in Version
    /\ order[i].at \in {"launch", "sleep", "prerm", "unpack", "postinst", "record"}
         => order[i].pkg \in Version

After == Trying \cup Undoing \cup {"back"}

\* The files, from step to step.
FilesOK ==
  /\ bin \in Runs
  /\ job.at \in {"download", "extract", "write", "version", "backup", "swap"}
       => job.want \in Build
  /\ job.at \in {"version", "backup", "swap"} => fresh \in {job.want, Part}
  /\ job.at \in {"backup", "swap"} => fresh \in Runs
  /\ job.at = "swap" => bak = bin
  /\ job.at \in After => bak = job.before /\ job.before \in Runs
  /\ job.at \notin After => job.before = None
  /\ job.at \in Trying \cup {"back"} => bin = job.want
  /\ job.at \in Undoing => bin = job.before

\* The build to be left with carries the tunnel, unless an update was cut.
WorkOK ==
  /\ ~cut => IF job.at \in Trying \cup {"back"} THEN bak \in Carries
                                               ELSE bin \in Carries
  /\ job.at \in {"wait", "raise"} => proc \in {None, bin}
  /\ job.at = "raise" => bin \in Carries

Inv == TypeOK /\ PkgOK /\ FilesOK /\ WorkOK

-----------------------------------------------------------------------------
\* The invariant holds at first.
LEMMA InitInv == Init => Inv
<1> SUFFICES ASSUME Init PROVE Inv
  OBVIOUS
<1> USE DEF Init, SelfInit, XrayInit
<1>1. SelfTypeOK /\ PkgOK
  BY SelfAssumption DEF SelfTypeOK, PkgOK, NoOrder, Version, Handling, Scripting
<1>2. XrayTypeOK
  BY XrayAssumption DEF XrayTypeOK, JobType, NoJob, File, JobSteps, WatchSteps
<1>3. FilesOK /\ WorkOK
  BY XrayAssumption DEF FilesOK, WorkOK, NoJob, Trying, Undoing, After
<1> QED
  BY <1>1, <1>2, <1>3, ServiceAssumption DEF Inv, TypeOK

-----------------------------------------------------------------------------
(* The installation of the package *)

\* An installer keeps its types and what it knows of its package.
LEMMA SelfStepInv ==
  ASSUME SelfTypeOK, PkgOK, NEW i \in Installer,
         Install(i) \/ Handle(i) \/ Prerm(i) \/ Script(i)
  PROVE  SelfTypeOK' /\ PkgOK' /\ (Fault \/ NoFault)
<1> USE SelfAssumption DEF SelfTypeOK, PkgOK, Handling, Scripting, NoOrder, Go
<1>1. CASE Install(i)
  <2>1. [order[i] EXCEPT !.at = "latest", !.had = installed]
          \in [at: Handling \cup Scripting \cup {"idle"},
              had: Version \cup {None}, want: Version \cup {None},
              pkg: Version \cup {Junk, None}]
    OBVIOUS
  <2> QED
    BY <1>1, <2>1 DEF Install
<1>2. CASE GiveUp(i)
  BY <1>2 DEF GiveUp
<1>3. CASE Latest(i)
  BY <1>3 DEF Latest, NeedsUpdate
<1>4. CASE Download(i)
  <2> PICK v \in 1..latest \cup {Junk} :
         order' = [order EXCEPT ![i].at = "verify", ![i].pkg = v]
    BY <1>4 DEF Download
  <2>1. v \in Version \cup {Junk}
    BY DEF Version
  <2>2. SelfTypeOK' /\ (Fault \/ NoFault)
    <3>1. [order[i] EXCEPT !.at = "verify", !.pkg = v]
            \in [at: Handling \cup Scripting \cup {"idle"},
                had: Version \cup {None}, want: Version \cup {None},
                pkg: Version \cup {Junk, None}]
      BY <2>1
    <3> QED
      BY <1>4, <3>1 DEF Download
  <2>3. PkgOK'
    BY <1>4, <2>1 DEF Download
  <2> QED
    BY <2>2, <2>3
<1>5. CASE Verify(i)
  BY <1>5 DEF Verify, Genuine
<1>6. CASE Launch(i)
  BY <1>6 DEF Launch
<1>7. CASE Prerm(i)
  BY <1>7 DEF Prerm, Orphans
<1>8. CASE Refuse(i)
  BY <1>8 DEF Refuse
<1>9. CASE Abandon(i)
  BY <1>9 DEF Abandon
<1>10. CASE Unpack(i)
  BY <1>10 DEF Unpack
<1>11. CASE Unpacked(i)
  BY <1>11 DEF Unpacked
<1>12. CASE Postinst(i)
  BY <1>12 DEF Postinst, Started
<1>13. CASE Record(i)
  BY <1>13 DEF Record
<1>14. CASE Clean(i)
  BY <1>14 DEF Clean
<1>15. CASE Check(i)
  BY <1>15 DEF Check, Started
<1> QED
  BY <1>1, <1>2, <1>3, <1>4, <1>5, <1>6, <1>7, <1>8, <1>9, <1>10, <1>11, <1>12, <1>13,
     <1>14, <1>15 DEF Handle, Script

\* A release changes nothing on the router.
LEMMA PublishInv ==
  ASSUME SelfTypeOK, PkgOK, Publish
  PROVE  SelfTypeOK' /\ PkgOK' /\ (Fault \/ NoFault)
BY SelfAssumption DEF Publish, SelfTypeOK, PkgOK, Version

\* A loss of power ends all installations.
LEMMA PowerLossInv ==
  ASSUME SelfTypeOK, PkgOK, PowerLoss
  PROVE  SelfTypeOK' /\ PkgOK'
BY DEF PowerLoss, SelfTypeOK, PkgOK, NoOrder, Handling, Scripting


-----------------------------------------------------------------------------
(* The update of xray *)

XrayActs ==
  \/ Begin \/ Job \/ TimeOut \/ Watchdog \/ TunnelDies
  \/ (XrayKilled /\ UNCHANGED tunnel /\ NoFault) \/ (XrayBoots /\ Fault)

\* The update of xray goes from step to step.
LEMMA StepType ==
  ASSUME XrayTypeOK, NEW at \in JobSteps, Step(at)
  PROVE  job' \in JobType
BY DEF XrayTypeOK, JobType, Step

\* Without an update there is none under way.
LEMMA NoJobType == NoJob \in JobType
BY XrayAssumption DEF JobType, NoJob, JobSteps

\* Each step of the update of xray and of the watchdog keeps what the files are good for.
LEMMA XrayStepInv ==
  ASSUME XrayTypeOK, FilesOK, WorkOK, XrayActs
  PROVE  XrayTypeOK' /\ FilesOK' /\ WorkOK' /\ (Fault \/ NoFault)
<1> USE XrayAssumption DEF Fails, files, tunnel
<1>1. CASE Begin
  <2> USE <1>1 DEF Begin
  <2>1. job' \in JobType
    BY NoJobType DEF JobType, JobSteps
  <2>2. bin' \in File /\ fresh' \in File /\ bak' \in File
    BY DEF XrayTypeOK, JobType, Step, Finish, File
  <2>3. proc' \in Build \cup {None} /\ watch' \in WatchSteps
    BY DEF XrayTypeOK, FilesOK, File, WatchSteps
  <2>4. iface' \in BOOLEAN /\ cut' \in BOOLEAN /\ (Fault \/ NoFault)
    BY DEF XrayTypeOK
  <2>5. FilesOK'
    BY DEF XrayTypeOK, FilesOK, JobType, NoJob, Step, Finish, Trying, Undoing, After
  <2>6. WorkOK'
    BY DEF XrayTypeOK, FilesOK, WorkOK, JobType, NoJob, Step, Finish, Trying, Undoing, After
  <2> QED
    BY <2>1, <2>2, <2>3, <2>4, <2>5, <2>6 DEF XrayTypeOK
<1>2. CASE GiveUpXray
  <2> USE <1>2 DEF GiveUpXray
  <2>1. job' \in JobType
    BY StepType, NoJobType DEF XrayTypeOK, Finish, JobSteps, Trying, Undoing
  <2>2. bin' \in File /\ fresh' \in File /\ bak' \in File
    BY DEF XrayTypeOK, JobType, Step, Finish, File
  <2>3. proc' \in Build \cup {None} /\ watch' \in WatchSteps
    BY DEF XrayTypeOK, FilesOK, File, WatchSteps
  <2>4. iface' \in BOOLEAN /\ cut' \in BOOLEAN /\ (Fault \/ NoFault)
    BY DEF XrayTypeOK
  <2>5. FilesOK'
    BY DEF XrayTypeOK, FilesOK, JobType, NoJob, Step, Finish, Trying, Undoing, After
  <2>6. WorkOK'
    BY DEF XrayTypeOK, FilesOK, WorkOK, JobType, NoJob, Step, Finish, Trying, Undoing, After
  <2> QED
    BY <2>1, <2>2, <2>3, <2>4, <2>5, <2>6 DEF XrayTypeOK
<1>3. CASE FindLatest
  <2> USE <1>3 DEF FindLatest, NeedsNew, VersionOf
  <2>1. job' \in JobType
    <3>1. CASE job' = NoJob
      BY <3>1, NoJobType
    <3>2. PICK found \in Build : job' # NoJob =>
            job' = [job EXCEPT !.at = "download", !.want = found]
      OBVIOUS
    <3> QED
      BY <3>1, <3>2 DEF XrayTypeOK, JobType, JobSteps
  <2>2. bin' \in File /\ fresh' \in File /\ bak' \in File
    BY DEF XrayTypeOK, JobType, Step, Finish, File
  <2>3. proc' \in Build \cup {None} /\ watch' \in WatchSteps
    BY DEF XrayTypeOK, FilesOK, File, WatchSteps
  <2>4. iface' \in BOOLEAN /\ cut' \in BOOLEAN /\ (Fault \/ NoFault)
    BY DEF XrayTypeOK
  <2>5. FilesOK'
    BY DEF XrayTypeOK, FilesOK, JobType, NoJob, Step, Finish, Trying, Undoing, After
  <2>6. WorkOK'
    BY DEF XrayTypeOK, FilesOK, WorkOK, JobType, NoJob, Step, Finish, Trying, Undoing, After
  <2> QED
    BY <2>1, <2>2, <2>3, <2>4, <2>5, <2>6 DEF XrayTypeOK
<1>4. CASE DownloadArchive
  <2> USE <1>4 DEF DownloadArchive
  <2>1. job' \in JobType
    BY StepType, NoJobType DEF XrayTypeOK, Finish, JobSteps, Trying, Undoing
  <2>2. bin' \in File /\ fresh' \in File /\ bak' \in File
    BY DEF XrayTypeOK, JobType, Step, Finish, File
  <2>3. proc' \in Build \cup {None} /\ watch' \in WatchSteps
    BY DEF XrayTypeOK, FilesOK, File, WatchSteps
  <2>4. iface' \in BOOLEAN /\ cut' \in BOOLEAN /\ (Fault \/ NoFault)
    BY DEF XrayTypeOK
  <2>5. FilesOK'
    BY DEF XrayTypeOK, FilesOK, JobType, NoJob, Step, Finish, Trying, Undoing, After
  <2>6. WorkOK'
    BY DEF XrayTypeOK, FilesOK, WorkOK, JobType, NoJob, Step, Finish, Trying, Undoing, After
  <2> QED
    BY <2>1, <2>2, <2>3, <2>4, <2>5, <2>6 DEF XrayTypeOK
<1>5. CASE Extract
  <2> USE <1>5 DEF Extract
  <2>1. job' \in JobType
    BY StepType, NoJobType DEF XrayTypeOK, Finish, JobSteps, Trying, Undoing
  <2>2. bin' \in File /\ fresh' \in File /\ bak' \in File
    BY DEF XrayTypeOK, JobType, Step, Finish, File
  <2>3. proc' \in Build \cup {None} /\ watch' \in WatchSteps
    BY DEF XrayTypeOK, FilesOK, File, WatchSteps
  <2>4. iface' \in BOOLEAN /\ cut' \in BOOLEAN /\ (Fault \/ NoFault)
    BY DEF XrayTypeOK
  <2>5. FilesOK'
    BY DEF XrayTypeOK, FilesOK, JobType, NoJob, Step, Finish, Trying, Undoing, After
  <2>6. WorkOK'
    BY DEF XrayTypeOK, FilesOK, WorkOK, JobType, NoJob, Step, Finish, Trying, Undoing, After
  <2> QED
    BY <2>1, <2>2, <2>3, <2>4, <2>5, <2>6 DEF XrayTypeOK
<1>6. CASE Write
  <2> USE <1>6 DEF Write
  <2>1. job' \in JobType
    BY StepType, NoJobType DEF XrayTypeOK, Finish, JobSteps, Trying, Undoing
  <2>2. bin' \in File /\ fresh' \in File /\ bak' \in File
    BY DEF XrayTypeOK, JobType, Step, Finish, File
  <2>3. proc' \in Build \cup {None} /\ watch' \in WatchSteps
    BY DEF XrayTypeOK, FilesOK, File, WatchSteps
  <2>4. iface' \in BOOLEAN /\ cut' \in BOOLEAN /\ (Fault \/ NoFault)
    BY DEF XrayTypeOK
  <2>5. FilesOK'
    BY DEF XrayTypeOK, FilesOK, JobType, NoJob, Step, Finish, Trying, Undoing, After
  <2>6. WorkOK'
    BY DEF XrayTypeOK, FilesOK, WorkOK, JobType, NoJob, Step, Finish, Trying, Undoing, After
  <2> QED
    BY <2>1, <2>2, <2>3, <2>4, <2>5, <2>6 DEF XrayTypeOK
<1>7. CASE RunVersion
  <2> USE <1>7 DEF RunVersion, Answers
  <2>1. job' \in JobType
    BY StepType, NoJobType DEF XrayTypeOK, Finish, JobSteps, Trying, Undoing
  <2>2. bin' \in File /\ fresh' \in File /\ bak' \in File
    BY DEF XrayTypeOK, JobType, Step, Finish, File
  <2>3. proc' \in Build \cup {None} /\ watch' \in WatchSteps
    BY DEF XrayTypeOK, FilesOK, File, WatchSteps
  <2>4. iface' \in BOOLEAN /\ cut' \in BOOLEAN /\ (Fault \/ NoFault)
    BY DEF XrayTypeOK
  <2>5. FilesOK'
    BY DEF XrayTypeOK, FilesOK, JobType, NoJob, Step, Finish, Trying, Undoing, After
  <2>6. WorkOK'
    BY DEF XrayTypeOK, FilesOK, WorkOK, JobType, NoJob, Step, Finish, Trying, Undoing, After
  <2> QED
    BY <2>1, <2>2, <2>3, <2>4, <2>5, <2>6 DEF XrayTypeOK
<1>8. CASE Backup
  <2> USE <1>8 DEF Backup, Kept
  <2>1. job' \in JobType
    BY StepType, NoJobType DEF XrayTypeOK, Finish, JobSteps, Trying, Undoing
  <2>2. bin' \in File /\ fresh' \in File /\ bak' \in File
    BY DEF XrayTypeOK, JobType, Step, Finish, File
  <2>3. proc' \in Build \cup {None} /\ watch' \in WatchSteps
    BY DEF XrayTypeOK, FilesOK, File, WatchSteps
  <2>4. iface' \in BOOLEAN /\ cut' \in BOOLEAN /\ (Fault \/ NoFault)
    BY DEF XrayTypeOK
  <2>5. FilesOK'
    BY DEF XrayTypeOK, FilesOK, JobType, NoJob, Step, Finish, Trying, Undoing, After
  <2>6. WorkOK'
    BY DEF XrayTypeOK, FilesOK, WorkOK, JobType, NoJob, Step, Finish, Trying, Undoing, After
  <2> QED
    BY <2>1, <2>2, <2>3, <2>4, <2>5, <2>6 DEF XrayTypeOK
<1>9. CASE Swap
  <2>1. CASE Finish /\ bin' = bin /\ Fault /\ Swap
    <3>1. FilesOK' /\ WorkOK'
      BY <2>1 DEF Swap, XrayTypeOK, FilesOK, WorkOK, JobType, NoJob, Finish,
                  Trying, Undoing, After
    <3> QED
      BY <2>1, <3>1, NoJobType DEF Swap, XrayTypeOK, Finish, File
  <2>2. CASE job' = [job EXCEPT !.at = "restart", !.before = bin] /\ NoFault
               /\ bin' = fresh /\ fresh' = None
    <3>1. /\ job.at = "swap" /\ bin \in Runs /\ bak = bin
          /\ fresh = job.want /\ fresh \in Runs /\ (~cut => bin \in Carries)
      BY <1>9 DEF Swap, FilesOK, WorkOK, Trying
    <3>2. /\ job'.at = "restart" /\ job'.before = bin /\ job'.want = job.want
          /\ job' \in JobType
      BY <2>2, <3>1 DEF XrayTypeOK, JobType, JobSteps, Trying
    <3>3. /\ bak' = bak /\ proc' = proc /\ iface' = iface /\ watch' = watch /\ cut' = cut
      BY <1>9 DEF Swap
    <3>4. FilesOK' /\ WorkOK'
      BY <2>2, <3>1, <3>2, <3>3 DEF FilesOK, WorkOK, Trying, Undoing, After
    <3> QED
      BY <2>2, <3>1, <3>2, <3>3, <3>4 DEF XrayTypeOK, File
  <2> QED
    BY <1>9, <2>1, <2>2 DEF Swap
<1>10. CASE RestartXray
  <2> USE <1>10 DEF RestartXray, Restarted, RestartCut, VersionOf, Fall
  <2>1. job' \in JobType
    BY StepType, NoJobType DEF XrayTypeOK, Finish, JobSteps, Trying, Undoing
  <2>2. bin' \in File /\ fresh' \in File /\ bak' \in File
    BY DEF XrayTypeOK, JobType, Step, Finish, File
  <2>3. proc' \in Build \cup {None} /\ watch' \in WatchSteps
    BY DEF XrayTypeOK, FilesOK, File, WatchSteps
  <2>4. iface' \in BOOLEAN /\ cut' \in BOOLEAN /\ (Fault \/ NoFault)
    BY DEF XrayTypeOK
  <2>5. FilesOK'
    BY DEF XrayTypeOK, FilesOK, JobType, NoJob, Step, Finish, Trying, Undoing, After
  <2>6. WorkOK'
    BY DEF XrayTypeOK, FilesOK, WorkOK, JobType, NoJob, Step, Finish, Trying, Undoing, After
  <2> QED
    BY <2>1, <2>2, <2>3, <2>4, <2>5, <2>6 DEF XrayTypeOK
<1>11. CASE WaitProxy
  <2> USE <1>11 DEF WaitProxy, PortOpen, Fall
  <2>1. job' \in JobType
    BY StepType, NoJobType DEF XrayTypeOK, Finish, JobSteps, Trying, Undoing
  <2>2. bin' \in File /\ fresh' \in File /\ bak' \in File
    BY DEF XrayTypeOK, JobType, Step, Finish, File
  <2>3. proc' \in Build \cup {None} /\ watch' \in WatchSteps
    BY DEF XrayTypeOK, FilesOK, File, WatchSteps
  <2>4. iface' \in BOOLEAN /\ cut' \in BOOLEAN /\ (Fault \/ NoFault)
    BY DEF XrayTypeOK
  <2>5. FilesOK'
    BY DEF XrayTypeOK, FilesOK, JobType, NoJob, Step, Finish, Trying, Undoing, After
  <2>6. WorkOK'
    BY DEF XrayTypeOK, FilesOK, WorkOK, JobType, NoJob, Step, Finish, Trying, Undoing, After
  <2> QED
    BY <2>1, <2>2, <2>3, <2>4, <2>5, <2>6 DEF XrayTypeOK
<1>12. CASE RaiseInterface
  <2> USE <1>12 DEF RaiseInterface, Fall
  <2>1. job' \in JobType
    BY StepType, NoJobType DEF XrayTypeOK, Finish, JobSteps, Trying, Undoing
  <2>2. bin' \in File /\ fresh' \in File /\ bak' \in File
    BY DEF XrayTypeOK, JobType, Step, Finish, File
  <2>3. proc' \in Build \cup {None} /\ watch' \in WatchSteps
    BY DEF XrayTypeOK, FilesOK, File, WatchSteps
  <2>4. iface' \in BOOLEAN /\ cut' \in BOOLEAN /\ (Fault \/ NoFault)
    BY DEF XrayTypeOK
  <2>5. FilesOK'
    BY DEF XrayTypeOK, FilesOK, JobType, NoJob, Step, Finish, Trying, Undoing, After
  <2>6. WorkOK'
    BY DEF XrayTypeOK, FilesOK, WorkOK, JobType, NoJob, Step, Finish, Trying, Undoing, After
  <2> QED
    BY <2>1, <2>2, <2>3, <2>4, <2>5, <2>6 DEF XrayTypeOK
<1>13. CASE GoBack
  <2> USE <1>13 DEF GoBack
  <2>1. job' \in JobType
    BY StepType, NoJobType DEF XrayTypeOK, Finish, JobSteps, Trying, Undoing
  <2>2. bin' \in File /\ fresh' \in File /\ bak' \in File
    BY DEF XrayTypeOK, JobType, Step, Finish, File
  <2>3. proc' \in Build \cup {None} /\ watch' \in WatchSteps
    BY DEF XrayTypeOK, FilesOK, File, WatchSteps
  <2>4. iface' \in BOOLEAN /\ cut' \in BOOLEAN /\ (Fault \/ NoFault)
    BY DEF XrayTypeOK
  <2>5. FilesOK'
    BY DEF XrayTypeOK, FilesOK, JobType, NoJob, Step, Finish, Trying, Undoing, After
  <2>6. WorkOK'
    BY DEF XrayTypeOK, FilesOK, WorkOK, JobType, NoJob, Step, Finish, Trying, Undoing, After
  <2> QED
    BY <2>1, <2>2, <2>3, <2>4, <2>5, <2>6 DEF XrayTypeOK
<1>14. CASE TimeOut
  <2> USE <1>14 DEF TimeOut
  <2>1. job' \in JobType
    BY DEF XrayTypeOK, JobType
  <2>2. bin' \in File /\ fresh' \in File /\ bak' \in File
    BY DEF XrayTypeOK, JobType, Step, Finish, File
  <2>3. proc' \in Build \cup {None} /\ watch' \in WatchSteps
    BY DEF XrayTypeOK, FilesOK, File, WatchSteps
  <2>4. iface' \in BOOLEAN /\ cut' \in BOOLEAN /\ (Fault \/ NoFault)
    BY DEF XrayTypeOK
  <2>5. FilesOK'
    BY DEF XrayTypeOK, FilesOK, JobType, NoJob, Step, Finish, Trying, Undoing, After
  <2>6. WorkOK'
    BY DEF XrayTypeOK, FilesOK, WorkOK, JobType, NoJob, Step, Finish, Trying, Undoing, After
  <2> QED
    BY <2>1, <2>2, <2>3, <2>4, <2>5, <2>6 DEF XrayTypeOK
<1>15. CASE Ensure
  <2> USE <1>15 DEF Ensure
  <2>1. job' \in JobType
    BY StepType, NoJobType DEF XrayTypeOK, Finish, JobSteps, Trying, Undoing
  <2>2. bin' \in File /\ fresh' \in File /\ bak' \in File
    BY DEF XrayTypeOK, JobType, Step, Finish, File
  <2>3. proc' \in Build \cup {None} /\ watch' \in WatchSteps
    BY DEF XrayTypeOK, FilesOK, File, WatchSteps
  <2>4. iface' \in BOOLEAN /\ cut' \in BOOLEAN /\ (Fault \/ NoFault)
    BY DEF XrayTypeOK
  <2>5. FilesOK'
    BY DEF XrayTypeOK, FilesOK, JobType, NoJob, Step, Finish, Trying, Undoing, After
  <2>6. WorkOK'
    BY DEF XrayTypeOK, FilesOK, WorkOK, JobType, NoJob, Step, Finish, Trying, Undoing, After
  <2> QED
    BY <2>1, <2>2, <2>3, <2>4, <2>5, <2>6 DEF XrayTypeOK
<1>16. CASE WatchRestart
  <2> USE <1>16 DEF WatchRestart, Restarted, RestartCut, VersionOf
  <2>1. job' \in JobType
    BY StepType, NoJobType DEF XrayTypeOK, Finish, JobSteps, Trying, Undoing
  <2>2. bin' \in File /\ fresh' \in File /\ bak' \in File
    BY DEF XrayTypeOK, JobType, Step, Finish, File
  <2>3. proc' \in Build \cup {None} /\ watch' \in WatchSteps
    BY DEF XrayTypeOK, FilesOK, File, WatchSteps
  <2>4. iface' \in BOOLEAN /\ cut' \in BOOLEAN /\ (Fault \/ NoFault)
    BY DEF XrayTypeOK
  <2>5. FilesOK'
    BY DEF XrayTypeOK, FilesOK, JobType, NoJob, Step, Finish, Trying, Undoing, After
  <2>6. WorkOK'
    BY DEF XrayTypeOK, FilesOK, WorkOK, JobType, NoJob, Step, Finish, Trying, Undoing, After
  <2> QED
    BY <2>1, <2>2, <2>3, <2>4, <2>5, <2>6 DEF XrayTypeOK
<1>17. CASE WatchWait
  <2> USE <1>17 DEF WatchWait
  <2>1. job' \in JobType
    BY StepType, NoJobType DEF XrayTypeOK, Finish, JobSteps, Trying, Undoing
  <2>2. bin' \in File /\ fresh' \in File /\ bak' \in File
    BY DEF XrayTypeOK, JobType, Step, Finish, File
  <2>3. proc' \in Build \cup {None} /\ watch' \in WatchSteps
    BY DEF XrayTypeOK, FilesOK, File, WatchSteps
  <2>4. iface' \in BOOLEAN /\ cut' \in BOOLEAN /\ (Fault \/ NoFault)
    BY DEF XrayTypeOK
  <2>5. FilesOK'
    BY DEF XrayTypeOK, FilesOK, JobType, NoJob, Step, Finish, Trying, Undoing, After
  <2>6. WorkOK'
    BY DEF XrayTypeOK, FilesOK, WorkOK, JobType, NoJob, Step, Finish, Trying, Undoing, After
  <2> QED
    BY <2>1, <2>2, <2>3, <2>4, <2>5, <2>6 DEF XrayTypeOK
<1>18. CASE WatchRaise
  <2> USE <1>18 DEF WatchRaise
  <2>1. job' \in JobType
    BY StepType, NoJobType DEF XrayTypeOK, Finish, JobSteps, Trying, Undoing
  <2>2. bin' \in File /\ fresh' \in File /\ bak' \in File
    BY DEF XrayTypeOK, JobType, Step, Finish, File
  <2>3. proc' \in Build \cup {None} /\ watch' \in WatchSteps
    BY DEF XrayTypeOK, FilesOK, File, WatchSteps
  <2>4. iface' \in BOOLEAN /\ cut' \in BOOLEAN /\ (Fault \/ NoFault)
    BY DEF XrayTypeOK
  <2>5. FilesOK'
    BY DEF XrayTypeOK, FilesOK, JobType, NoJob, Step, Finish, Trying, Undoing, After
  <2>6. WorkOK'
    BY DEF XrayTypeOK, FilesOK, WorkOK, JobType, NoJob, Step, Finish, Trying, Undoing, After
  <2> QED
    BY <2>1, <2>2, <2>3, <2>4, <2>5, <2>6 DEF XrayTypeOK
<1>19. CASE TunnelDies
  <2> USE <1>19 DEF TunnelDies
  <2>1. job' \in JobType
    BY StepType, NoJobType DEF XrayTypeOK, Finish, JobSteps, Trying, Undoing
  <2>2. bin' \in File /\ fresh' \in File /\ bak' \in File
    BY DEF XrayTypeOK, JobType, Step, Finish, File
  <2>3. proc' \in Build \cup {None} /\ watch' \in WatchSteps
    BY DEF XrayTypeOK, FilesOK, File, WatchSteps
  <2>4. iface' \in BOOLEAN /\ cut' \in BOOLEAN /\ (Fault \/ NoFault)
    BY DEF XrayTypeOK
  <2>5. FilesOK'
    BY DEF XrayTypeOK, FilesOK, JobType, NoJob, Step, Finish, Trying, Undoing, After
  <2>6. WorkOK'
    BY DEF XrayTypeOK, FilesOK, WorkOK, JobType, NoJob, Step, Finish, Trying, Undoing, After
  <2> QED
    BY <2>1, <2>2, <2>3, <2>4, <2>5, <2>6 DEF XrayTypeOK
<1>20. CASE XrayKilled /\ UNCHANGED tunnel /\ NoFault
  <2> USE <1>20 DEF XrayKilled
  <2>1. job' \in JobType
    BY NoJobType
  <2>2. bin' \in File /\ fresh' \in File /\ bak' \in File
    BY DEF XrayTypeOK, JobType, Step, Finish, File
  <2>3. proc' \in Build \cup {None} /\ watch' \in WatchSteps
    BY DEF XrayTypeOK, FilesOK, File, WatchSteps
  <2>4. iface' \in BOOLEAN /\ cut' \in BOOLEAN /\ (Fault \/ NoFault)
    BY DEF XrayTypeOK
  <2>5. FilesOK'
    BY DEF XrayTypeOK, FilesOK, JobType, NoJob, Step, Finish, Trying, Undoing, After
  <2>6. WorkOK'
    BY DEF XrayTypeOK, FilesOK, WorkOK, JobType, NoJob, Step, Finish, Trying, Undoing, After
  <2> QED
    BY <2>1, <2>2, <2>3, <2>4, <2>5, <2>6 DEF XrayTypeOK
<1>21. CASE XrayBoots /\ Fault
  <2> USE <1>21 DEF XrayBoots, XrayKilled, Restarted, VersionOf
  <2>1. job' \in JobType
    BY NoJobType
  <2>2. bin' \in File /\ fresh' \in File /\ bak' \in File
    BY DEF XrayTypeOK, JobType, Step, Finish, File
  <2>3. proc' \in Build \cup {None} /\ watch' \in WatchSteps
    BY DEF XrayTypeOK, FilesOK, File, WatchSteps
  <2>4. iface' \in BOOLEAN /\ cut' \in BOOLEAN /\ (Fault \/ NoFault)
    BY DEF XrayTypeOK
  <2>5. FilesOK'
    BY DEF XrayTypeOK, FilesOK, JobType, NoJob, Step, Finish, Trying, Undoing, After
  <2>6. WorkOK'
    BY DEF XrayTypeOK, FilesOK, WorkOK, JobType, NoJob, Step, Finish, Trying, Undoing, After
  <2> QED
    BY <2>1, <2>2, <2>3, <2>4, <2>5, <2>6 DEF XrayTypeOK
<1> QED
  BY <1>1, <1>2, <1>3, <1>4, <1>5, <1>6, <1>7, <1>8, <1>9, <1>10, <1>11, <1>12, <1>13, <1>14, <1>15, <1>16, <1>17, <1>18, <1>19, <1>20, <1>21 DEF XrayActs, Job, Watchdog

-----------------------------------------------------------------------------
(* The two together *)

\* Every step of the two together keeps the invariant.
LEMMA NextInv == Inv /\ [Next]_vars => Inv'
<1> SUFFICES ASSUME Inv, [Next]_vars PROVE Inv'
  OBVIOUS
<1> USE DEF Inv, TypeOK
<1>1. ASSUME Fault \/ NoFault PROVE faults' \in 0..MaxFaults
  BY <1>1, ServiceAssumption DEF Fault, NoFault
<1>2. ASSUME UNCHANGED xrayVars PROVE XrayTypeOK' /\ FilesOK' /\ WorkOK'
  BY <1>2 DEF xrayVars, XrayTypeOK, FilesOK, WorkOK
<1>3. ASSUME UNCHANGED <<selfVars, serving>> PROVE SelfTypeOK' /\ PkgOK'
  BY <1>3 DEF selfVars, SelfTypeOK, PkgOK
<1>4. CASE SelfStep
  <2>1. CASE Publish
    <3>1. SelfTypeOK' /\ PkgOK' /\ (Fault \/ NoFault)
      BY <2>1, PublishInv
    <3> QED
      BY <1>1, <1>2, <1>4, <3>1 DEF SelfStep
  <2>2. CASE \E i \in Installer : Install(i) \/ Handle(i) \/ Script(i)
    <3>1. SelfTypeOK' /\ PkgOK' /\ (Fault \/ NoFault)
      BY <2>2, SelfStepInv
    <3> QED
      BY <1>1, <1>2, <1>4, <3>1 DEF SelfStep
  <2> QED
    BY <1>4, <2>1, <2>2 DEF SelfStep
<1>5. CASE XrayStep
  <2>1. XrayActs /\ UNCHANGED <<selfVars, serving>>
    BY <1>5 DEF XrayStep, XrayActs
  <2> QED
    BY <1>1, <1>3, <2>1, XrayStepInv
<1>6. CASE \E i \in Installer : Stop(i)
  <2> PICK i \in Installer : Stop(i)
    BY <1>6
  <2>1. Prerm(i) /\ XrayKilled /\ UNCHANGED tunnel
    BY DEF Stop
  <2>2. SelfTypeOK' /\ PkgOK' /\ NoFault
    BY <2>1, SelfStepInv DEF Prerm
  <2>3. XrayActs
    BY <2>1, <2>2 DEF XrayActs
  <2> QED
    BY <1>1, <2>2, <2>3, XrayStepInv
<1>7. CASE Reboot
  <2>1. SelfTypeOK' /\ PkgOK' /\ Fault
    BY <1>7, PowerLossInv DEF Reboot, PowerLoss
  <2>2. XrayActs
    BY <1>7, <2>1 DEF Reboot, XrayActs
  <2> QED
    BY <1>1, <2>1, <2>2, XrayStepInv
<1>8. CASE UNCHANGED vars
  BY <1>2, <1>3, <1>8 DEF vars, xrayVars, selfVars
<1> QED
  BY <1>4, <1>5, <1>6, <1>7, <1>8 DEF Next

\* Every state is of the types declared, and the files of xray hold at each step
\* of its update what the next steps rely on.
THEOREM Invariant == Spec => []Inv
BY InitInv, NextInv, PTL DEF Spec

\* The updates are well typed for any builds, installers and bounds.
THEOREM Types == Spec => []TypeOK
<1>1. Inv => TypeOK
  BY DEF Inv
<1> QED
  BY <1>1, Invariant, PTL

\* Whatever is downloaded and wherever the service or the power goes, the binary
\* in use is whole and runs.
THEOREM AlwaysRunnable == Spec => []Runnable
<1>1. Inv => Runnable
  BY DEF Inv, FilesOK, Runnable
<1> QED
  BY <1>1, Invariant, PTL

\* Between updates the binary carries the tunnel, unless an update was cut.
THEOREM AlwaysWorking == Spec => []WorkingBinary
<1>1. Inv => WorkingBinary
  BY DEF Inv, WorkOK, WorkingBinary, Trying
<1> QED
  BY <1>1, Invariant, PTL

\* An update that comes to its end has put in its build or left the old one, but
\* for one that could not go back, which leaves the old one in the backup.
THEOREM WholeUpdates == Spec => AllOrNothing
<1>1. ASSUME Inv, Next, XrayStep, Ends
      PROVE  \/ bin' = IF job.before = None THEN bin ELSE job.before
             \/ bin' = job.want /\ job.at = "raise"
             \/ bin' = job.want /\ bak' = job.before /\ job.at = "back" /\ cut'
  <2>1. CASE Swap
    <3>1. job'.at = "restart" \/ bin' = bin
      BY <2>1, <1>1 DEF Swap, Inv, TypeOK, XrayTypeOK, JobType
    <3> QED
      BY <1>1, <2>1, <3>1 DEF Swap, Ends, Inv, FilesOK, Trying, Undoing, After
  <2>2. CASE GoBack
    <3>1. job'.at # "rerestart"
      BY <1>1 DEF Ends
    <3>2. job.at = "back" /\ bin' = bin /\ bak' = bak /\ cut'
      BY <1>1, <2>2, <3>1 DEF GoBack, Step, Inv, TypeOK, XrayTypeOK, JobType
    <3> QED
      BY <1>1, <3>2 DEF Inv, FilesOK, After
  <2>3. CASE ~Swap /\ ~GoBack
    <3>2. bin' = bin
      BY <1>1, <2>3 DEF XrayStep, Job, Watchdog, Begin, GiveUpXray, FindLatest,
           DownloadArchive, Extract, Write, RunVersion, Backup, RestartXray, WaitProxy,
           RaiseInterface, TimeOut, Ensure, WatchRestart, WatchWait, WatchRaise,
           TunnelDies, files
    <3>3. CASE job.at \in {"restart", "wait", "back"}
      BY <1>1, <3>3 DEF Inv, FilesOK, Ends, Trying, Inv, TypeOK, XrayTypeOK, JobType,
           XrayStep, Job, Watchdog, Begin, GiveUpXray, FindLatest, DownloadArchive,
           Extract, Write, RunVersion, Backup, Swap, RestartXray, WaitProxy,
           RaiseInterface, GoBack, TimeOut, Ensure, WatchRestart, WatchWait, WatchRaise,
           TunnelDies, Fall, Step
    <3>4. CASE job.at = "raise"
      BY <1>1, <3>2, <3>4 DEF Inv, FilesOK, Trying
    <3>5. CASE job.at \notin Trying \cup {"back"}
      BY <1>1, <3>2, <3>5, XrayAssumption DEF Inv, FilesOK, Ends, After, Undoing
    <3> QED
      BY <3>3, <3>4, <3>5 DEF Trying
  <2> QED
    BY <2>1, <2>2, <2>3
<1> QED
  BY <1>1, Invariant, PTL DEF Spec, AllOrNothing

-----------------------------------------------------------------------------
(***************************************************************************)
(* One installer at a time: what it announced and downloaded is newer than *)
(* what is on record, which is never ahead of the program, and nothing     *)
(* starts the service while it is stopped but the script itself.           *)
(***************************************************************************)
Lone == \A i, j \in Installer : i = j

\* The program is new and its version not on record yet.
Ahead == \E i \in Installer : order[i].at \in {"unpack", "postinst", "record"}

NewerOK ==
  /\ installed <= latest
  /\ program # None => installed <= program /\ program <= latest
  /\ faults = 0 /\ ~Ahead => installed = program
  /\ serving \in {program, None}
  /\ \A i \in Installer :
       /\ order[i].at = "latest" => order[i].had = installed
       /\ order[i].at \in {"download", "verify"}
            => order[i].want > installed /\ order[i].want <= latest
       /\ order[i].at \in {"launch", "sleep", "prerm", "unpack", "postinst", "record"}
            => order[i].pkg > installed /\ order[i].pkg <= latest
       /\ order[i].at \in {"postinst", "record"} => program = order[i].pkg
       /\ order[i].at \in {"prerm", "unpack", "postinst"} => serving = None

\* A lone installer only carries a package newer than what is on record.
LEMMA NewerStep ==
  ASSUME Lone, SelfTypeOK, PkgOK, NewerOK, NEW i \in Installer,
         faults \in Nat,
         Install(i) \/ Handle(i) \/ Prerm(i) \/ Script(i)
  PROVE  NewerOK'
<1> USE SelfAssumption
    DEF Lone, SelfTypeOK, PkgOK, NewerOK, Ahead, Version, NoOrder, Go, Fault, NoFault
<1>1. CASE Install(i)
  BY <1>1 DEF Install
<1>2. CASE GiveUp(i)
  BY <1>2 DEF GiveUp
<1>3. CASE Latest(i)
  BY <1>3 DEF Latest, NeedsUpdate
<1>4. CASE Download(i)
  BY <1>4 DEF Download
<1>5. CASE Verify(i)
  BY <1>5 DEF Verify, Genuine
<1>6. CASE Launch(i)
  BY <1>6 DEF Launch
<1>7. CASE Prerm(i)
  BY <1>7 DEF Prerm, Orphans, Handling
<1>8. CASE Refuse(i)
  BY <1>8 DEF Refuse
<1>9. CASE Abandon(i)
  BY <1>9 DEF Abandon
<1>10. CASE Unpack(i)
  BY <1>10 DEF Unpack
<1>11. CASE Unpacked(i)
  BY <1>11 DEF Unpacked
<1>12. CASE Postinst(i)
  BY <1>12 DEF Postinst, Started
<1>13. CASE Record(i)
  BY <1>13 DEF Record
<1>14. CASE Clean(i)
  BY <1>14 DEF Clean
<1>15. CASE Check(i)
  BY <1>15 DEF Check, Started
<1> QED
  BY <1>1, <1>2, <1>3, <1>4, <1>5, <1>6, <1>7, <1>8, <1>9, <1>10, <1>11, <1>12, <1>13,
     <1>14, <1>15 DEF Handle, Script

\* So it is at all times.
LEMMA NewerInv ==
  ASSUME Lone
  PROVE  Spec => []NewerOK
<1>1. Init => NewerOK
  BY SelfAssumption DEF Init, SelfInit, NewerOK, NoOrder, Ahead
<1>2. Inv /\ NewerOK /\ [Next]_vars => NewerOK'
  <2> SUFFICES ASSUME Inv, NewerOK, [Next]_vars PROVE NewerOK'
    OBVIOUS
  <2> USE DEF Inv, TypeOK
  <2>1. CASE \E i \in Installer : Install(i) \/ Handle(i) \/ Script(i) \/ Prerm(i)
    BY <2>1, NewerStep
  <2>2. CASE Publish
    BY <2>2, SelfAssumption
    DEF Publish, NewerOK, PkgOK, SelfTypeOK, Version, Ahead, NoFault
  <2>3. CASE PowerLoss
    BY <2>3 DEF PowerLoss, NewerOK, NoOrder, Ahead, Fault
  <2>4. CASE UNCHANGED <<selfVars, serving>> /\ (Fault \/ NoFault)
    BY <2>4 DEF selfVars, NewerOK, Ahead, Fault, NoFault
  <2>5. XrayStep => Fault \/ NoFault
    BY XrayStepInv DEF XrayStep, XrayActs
  <2>6. UNCHANGED vars => NoFault
    BY DEF vars, NoFault
  <2> QED
    BY <2>1, <2>2, <2>3, <2>4, <2>5, <2>6 DEF Next, SelfStep, XrayStep, Stop, Reboot, vars
<1> QED
  BY <1>1, <1>2, Invariant, PTL DEF Spec

\* With one installer at a time, no installation puts in an older version.
THEOREM OnlyForward ==
  ASSUME Lone
  PROVE  Spec => Forward
<1>1. ASSUME Inv, NewerOK, [Next]_vars, program' \notin {program, None}
      PROVE  program' > installed
  <2> USE <1>1 DEF Inv, TypeOK, SelfTypeOK, NewerOK
  <2>1. \E i \in Installer : Unpacked(i)
    BY DEF Next, SelfStep, XrayStep, Stop, Reboot, vars, selfVars, Handle, Script, Install,
           GiveUp, Latest, Download, Verify, Launch, Prerm, Refuse, Abandon, Unpack,
           Postinst, Record, Clean, Check, Publish, PowerLoss
  <2> QED
    BY <2>1 DEF Unpacked
<1> QED
  BY <1>1, Invariant, NewerInv, PTL DEF Spec, Forward

\* With one installer at a time, a running service is of the program in place,
\* and the record of opkg never ahead of it, nor behind it but for a failure.
THEOREM AlwaysServesInstalled ==
  ASSUME Lone
  PROVE  Spec => []ServesInstalled
<1>1. NewerOK => ServesInstalled
  BY DEF NewerOK, ServesInstalled, Up, Ahead
<1> QED
  BY <1>1, NewerInv, PTL
=============================================================================
