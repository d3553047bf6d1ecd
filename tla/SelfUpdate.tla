----------------------------- MODULE SelfUpdate -----------------------------
(***************************************************************************)
(* How the package replaces itself: selfupd/selfupd.go with its two users, *)
(* the update page (httpapi/selfupdate.go) and kvasweb -update on the      *)
(* console (runSelfUpdate of main.go), and the script they leave behind,   *)
(* which outlives the service it stops.                                    *)
(*                                                                         *)
(* Versions are numbers in the order of their publication.  A package is   *)
(* known by the version written in it, a file that is no package by Junk.  *)
(***************************************************************************)
EXTENDS Service

CONSTANTS
  Installer,  \* who may start an installation
  Page,       \* those of them that live in the service
  Newest      \* the last version to be published

ASSUME SelfAssumption ==
  /\ Page \subseteq Installer
  /\ Newest \in Nat \ {0}
  /\ None \notin Nat

VARIABLES
  latest,     \* version the marker file of the release names
  program,    \* version of the program's files, None while they are replaced
  installed,  \* version in the database of opkg, which it writes last
  order       \* order[i]: where installation i is, and its locals

selfVars == <<latest, program, installed, order>>

Version == 1..Newest
Junk == 0

\* The steps of handleUpdateInstall, and those of the script after it.
Handling == {"latest", "download", "verify", "launch"}
Scripting == {"sleep", "prerm", "unpack", "postinst", "record", "clean",
              "check"}

\* had and want: what is installed and what is announced, as i read it, for as
\* long as it needs to know; pkg: the version in the package it downloaded.
NoOrder == [at |-> "idle", had |-> None, want |-> None, pkg |-> None]

Go(i, at) == order' = [order EXCEPT ![i].at = at]

\* opkg runs one at a time: its lock.
OpkgFree ==
  \A i \in Installer : order[i].at \notin {"prerm", "unpack", "postinst", "record"}

-----------------------------------------------------------------------------
(***************************************************************************)
(* handleUpdateInstall and runSelfUpdate                                   *)
(***************************************************************************)

Install(i) ==
  /\ order[i].at = "idle"
  /\ i \in Page => Up
  /\ order' = [order EXCEPT ![i].at = "latest", ![i].had = installed]
  /\ UNCHANGED <<latest, program, installed, serving>> /\ NoFault

\* Giving up is free: the network may fail at any time.
GiveUp(i) ==
  /\ order[i].at \in {"latest", "download"}
  /\ order' = [order EXCEPT ![i] = NoOrder]
  /\ UNCHANGED <<latest, program, installed, serving>> /\ NoFault

NeedsUpdate(had, want) == had # None /\ want # None /\ had # want

Latest(i) ==
  /\ order[i].at = "latest"
  /\ order' = [order EXCEPT ![i] =
       IF NeedsUpdate(@.had, latest)
       THEN [@ EXCEPT !.at = "download", !.had = None, !.want = latest] ELSE NoOrder]
  /\ UNCHANGED <<latest, program, installed, serving>> /\ NoFault

\* The file has one name in all releases, so an older one may still be served.
Download(i) ==
  /\ order[i].at = "download"
  /\ \E v \in 1..latest \cup {Junk} :
       order' = [order EXCEPT ![i].at = "verify", ![i].pkg = v]
  /\ UNCHANGED <<latest, program, installed, serving>> /\ NoFault

\* A mutant of Genuine: any package will do.
Genuine_AnyPackage(i) == order[i].pkg # Junk

Genuine(i) == order[i].pkg = order[i].want

Verify(i) ==
  /\ order[i].at = "verify"
  /\ order' = [order EXCEPT ![i] =
       IF Genuine(i) THEN [@ EXCEPT !.at = "launch", !.want = None] ELSE NoOrder]
  /\ UNCHANGED <<latest, program, installed, serving>> /\ NoFault

\* The script becomes a process of its own session.  A script that cannot be
\* started leaves the package where it was downloaded to.
Launch(i) ==
  /\ order[i].at = "launch"
  /\ \/ Go(i, "sleep") /\ NoFault
     \/ order' = [order EXCEPT ![i] = NoOrder] /\ Fault
  /\ UNCHANGED <<latest, program, installed, serving>>

-----------------------------------------------------------------------------
(***************************************************************************)
(* The script: opkg install, rm, check or start                            *)
(***************************************************************************)

\* The handlers that live in the service end with it.
Orphans(i) ==
  order' = [j \in Installer |->
    CASE j = i -> [order[i] EXCEPT !.at = "prerm"]
      [] j # i /\ j \in Page /\ order[j].at \in Handling -> NoOrder
      [] OTHER -> order[j]]

\* A mutant of Prerm: the service is left running.
Prerm_Running(i) ==
  /\ order[i].at = "sleep" /\ OpkgFree
  /\ Orphans(i)
  /\ UNCHANGED <<latest, program, installed, serving>> /\ NoFault

\* opkg runs prerm, which stops the service and whatever it was doing.
Prerm(i) ==
  /\ order[i].at = "sleep" /\ OpkgFree
  /\ Orphans(i)
  /\ serving' = None
  /\ UNCHANGED <<latest, program, installed>> /\ NoFault

\* opkg fails before that: locked by another, no space.
Refuse(i) ==
  /\ order[i].at = "sleep"
  /\ Go(i, "clean")
  /\ \/ ~OpkgFree /\ NoFault
     \/ Fault
  /\ UNCHANGED <<latest, program, installed, serving>>

\* opkg gives up with the old files still in place.
Abandon(i) ==
  /\ order[i].at = "prerm"
  /\ Go(i, "clean") /\ Fault
  /\ UNCHANGED <<latest, program, installed, serving>>

Unpack(i) ==
  /\ order[i].at = "prerm"
  /\ program' = None
  /\ Go(i, "unpack") /\ NoFault
  /\ UNCHANGED <<latest, installed, serving>>

\* opkg may break off with half of the files replaced.
Unpacked(i) ==
  /\ order[i].at = "unpack"
  /\ \/ program' = order[i].pkg /\ Go(i, "postinst") /\ NoFault
     \/ UNCHANGED program /\ Go(i, "clean") /\ Fault
  /\ UNCHANGED <<latest, installed, serving>>

\* S99kvasweb start: nothing if it runs, or if there is no whole program.
Started == IF Up THEN serving ELSE program

\* opkg runs postinst on the new files, which starts the service,
Postinst(i) ==
  /\ order[i].at = "postinst"
  /\ \/ serving' = Started /\ NoFault
     \/ UNCHANGED serving /\ Fault
  /\ Go(i, "record")
  /\ UNCHANGED <<latest, program, installed>>

\* and then writes its database, or fails to: a router without space.
Record(i) ==
  /\ order[i].at = "record"
  /\ \/ installed' = order[i].pkg /\ NoFault
     \/ UNCHANGED installed /\ Fault
  /\ Go(i, "clean")
  /\ UNCHANGED <<latest, program, serving>>

Clean(i) ==
  /\ order[i].at = "clean"
  /\ order' = [order EXCEPT ![i].at = "check", ![i].pkg = None]
  /\ UNCHANGED <<latest, program, installed, serving>> /\ NoFault

\* A mutant of Check: the script relies on opkg alone.
Check_Nothing(i) ==
  /\ order[i].at = "check"
  /\ order' = [order EXCEPT ![i] = NoOrder]
  /\ UNCHANGED <<latest, program, installed, serving>> /\ NoFault

Check(i) ==
  /\ order[i].at = "check"
  /\ serving' = Started
  /\ order' = [order EXCEPT ![i] = NoOrder]
  /\ UNCHANGED <<latest, program, installed>> /\ NoFault

Publish ==
  /\ latest < Newest
  /\ latest' = latest + 1
  /\ UNCHANGED <<program, installed, order, serving>> /\ NoFault

\* Power goes; the init scripts start what there is to start.
PowerLoss ==
  /\ order' = [i \in Installer |-> NoOrder]
  /\ serving' = program
  /\ UNCHANGED <<latest, program, installed>> /\ Fault

-----------------------------------------------------------------------------
SelfInit ==
  /\ latest = 1 /\ program = 1 /\ installed = 1 /\ serving = 1
  /\ order = [i \in Installer |-> NoOrder]
  /\ faults = 0

SelfTypeOK ==
  /\ latest \in Version /\ installed \in Version
  /\ program \in Version \cup {None} /\ serving \in Version \cup {None}
  /\ order \in [Installer -> [at: Handling \cup Scripting \cup {"idle"},
                              had: Version \cup {None}, want: Version \cup {None},
                              pkg: Version \cup {Junk, None}]]

Handle(i) == Latest(i) \/ Download(i) \/ Verify(i) \/ Launch(i) \/ GiveUp(i)

\* What is left of the script once the service is stopped, and the ways past it.
Script(i) ==
  \/ Refuse(i) \/ Abandon(i) \/ Unpack(i) \/ Unpacked(i) \/ Postinst(i)
  \/ Record(i) \/ Clean(i) \/ Check(i)
=============================================================================
