------------------------------- MODULE Tunnel -------------------------------
(***************************************************************************)
(* The working tunnel of the router and the one operation that replaces    *)
(* it, Manager.Apply (autovpn/manager.go), step by step.                   *)
(*                                                                         *)
(* A process is a goroutine that may call Apply: the watchdog, a           *)
(* background check, an HTTP request.  Nothing in the code serialises      *)
(* them, so each keeps its own program counter and its own Apply frame.    *)
(* A step of Apply is one touch of shared state: a file, the xray          *)
(* process, the router interface, or Manager.state under its mutex.        *)
(***************************************************************************)
EXTENDS Naturals, Sequences

CONSTANTS
  Server,    \* keys (address:port) of the servers any subscription lists
  Url,       \* subscription links
  Proc,      \* goroutines that may run Apply
  None,      \* no file, no process, no link: the empty value
  HasIface,  \* INFACE_CLI is set: traffic needs the Keenetic proxy interface
  MaxFaults  \* bound on failures of the environment

ASSUME TunnelAssumption ==
  /\ None \notin Server
  /\ None \notin Url
  /\ HasIface \in BOOLEAN
  /\ MaxFaults \in Nat

VARIABLES
  conf,    \* server whose configuration kvas.json holds, None without file
  bak,     \* the same for kvas.json.kvasweb-bak
  xray,    \* server the listening xray was started with, None: port closed
  iface,   \* the Keenetic proxy interface is up
  sub,     \* sub[u]: servers the provider lists behind link u
  mem,     \* Manager.state
  disk,    \* subscription.json
  pc,      \* pc[p]: the next step of process p
  call,    \* call[p]: frame of the Apply that p runs
  out,     \* out[p]: stateCopy that p took under the lock and has yet to save
  gone,    \* processes whose request context is cancelled
  faults   \* failures the environment may still cause

tunnel == <<conf, bak, xray, iface>>
stateVars == <<mem, disk>>
procVars == <<pc, call, out>>

-----------------------------------------------------------------------------

\* Outcome of the last live check: LiveOK, or the LiveError that is stored.
Verdict == {"never", "ok", "nonet", "noauto", "dead"}

\* The persisted state, reduced to what Apply, the check and the watchdog use.
\* results holds the live servers of the last check, best first.
State == [url: Url \cup {None}, active: Server \cup {None}, auto: BOOLEAN,
          liveCheck: BOOLEAN, live: Verdict, results: Seq(Server)]

\* Steps of a process: inside Apply, and where its callers resume (AutoVpn).
ApplyLabel == {"fetch", "backup", "write", "restart", "wait", "raise",
               "commit", "undo", "unrestart"}
WatchLabel == {"sleep", "ensure", "look", "probe", "inet", "reprobe", "spares",
               "spareprobe"}
CheckLabel == {"servers", "measure", "decide", "refresh", "choose", "failed",
               "site", "release"}
Label == ApplyLabel \cup WatchLabel \cup CheckLabel \cup {"save", "idle"}

\* An Apply in progress: its key, where its caller resumes, and hadBackup.
Frame == [key: Server \cup {None}, ok: Label \cup {""},
          err: Label \cup {""}, had: BOOLEAN]
Copy == [st: State \cup {None}, then: Label \cup {""}]

NoCall == [key |-> None, ok |-> "", err |-> "", had |-> FALSE]
NoSave == [st |-> None, then |-> ""]

\* Servers(): what the subscription of the current settings lists.
Listed == IF mem.url = None THEN {} ELSE sub[mem.url]

Fault == faults > 0 /\ faults' = faults - 1
NoFault == UNCHANGED faults

\* A step that needs the caller's context fails for sure once it is
\* cancelled, and may fail otherwise.
Fails(p) == (p \in gone /\ NoFault) \/ Fault

Goto(p, l) == pc' = [pc EXCEPT ![p] = l]

\* Enter Apply(key); ok and err name the steps the caller resumes at.
Enter(p, key, ok, err) ==
  /\ Goto(p, "fetch")
  /\ call' = [call EXCEPT
                ![p] = [key |-> key, ok |-> ok, err |-> err, had |-> FALSE]]

Return(p, l) ==
  /\ Goto(p, l)
  /\ call' = [call EXCEPT ![p] = NoCall]

\* Leave the lock with a copy of the new state st, to be saved at leisure.
SaveLater(p, st, l) ==
  /\ mem' = st
  /\ out' = [out EXCEPT ![p] = [st |-> st, then |-> l]]
  /\ Goto(p, "save")

-----------------------------------------------------------------------------
(***************************************************************************)
(* Manager.Apply                                                           *)
(***************************************************************************)

\* Servers, the search for the key, XrayConfig and testConfig: whatever goes
\* wrong here leaves the working tunnel alone.
Fetch(p) ==
  /\ pc[p] = "fetch"
  /\ \/ /\ call[p].key \in Listed
        /\ p \notin gone
        /\ Goto(p, "backup")
        /\ UNCHANGED <<call, faults>>
     \/ call[p].key \notin Listed /\ Return(p, call[p].err) /\ NoFault
     \/ Fails(p) /\ Return(p, call[p].err)
  /\ UNCHANGED <<tunnel, sub, stateVars, out, gone>>

\* backupConfig: every Apply writes the same backup file.
BackupConfig(p) ==
  /\ pc[p] = "backup"
  /\ \/ /\ conf # None
        /\ bak' = conf
        /\ call' = [call EXCEPT ![p].had = TRUE]
        /\ Goto(p, "write")
        /\ NoFault
     \/ conf = None /\ Goto(p, "write") /\ UNCHANGED <<bak, call, faults>>
     \/ Fault /\ Return(p, call[p].err) /\ UNCHANGED bak
  /\ UNCHANGED <<conf, xray, iface, sub, stateVars, out, gone>>

WriteConf(p) ==
  /\ pc[p] = "write"
  /\ \/ /\ conf' = call[p].key
        /\ Goto(p, "restart")
        /\ UNCHANGED <<call, faults>>
     \/ Fault /\ Return(p, call[p].err) /\ UNCHANGED conf
  /\ UNCHANGED <<bak, xray, iface, sub, stateVars, out, gone>>

\* The init script: xray reads whatever kvas.json holds at this moment, and
\* the router interface loses its SOCKS upstream.  A script that reports
\* success may still leave an xray that dies at once.
Restarted(p) ==
  /\ p \notin gone
  /\ iface' = FALSE
  /\ \/ xray' = conf /\ NoFault
     \/ xray' = None /\ Fault

\* The script fails or is killed: before it touched xray, or at any point after.
RestartFailed(p) ==
  /\ Fails(p)
  /\ \/ UNCHANGED <<xray, iface>>
     \/ xray' \in {None, conf} /\ iface' = FALSE

RestartXray(p) ==
  /\ pc[p] = "restart"
  /\ \/ Restarted(p) /\ Goto(p, "wait")
     \/ RestartFailed(p) /\ Goto(p, "undo")
  /\ UNCHANGED <<conf, bak, sub, stateVars, call, out, gone>>

WaitProxy_NoRollback(p) ==
  /\ pc[p] = "wait"
  /\ \/ xray # None /\ p \notin gone /\ Goto(p, "raise") /\ UNCHANGED call
     \/ (xray = None \/ p \in gone) /\ Return(p, call[p].err)
  /\ UNCHANGED <<tunnel, sub, stateVars, out, gone, faults>>
\* waitProxy: any xray that listens on the port will do.
WaitProxy(p) ==
  /\ pc[p] = "wait"
  /\ \/ xray # None /\ p \notin gone /\ Goto(p, "raise")
     \/ (xray = None \/ p \in gone) /\ Goto(p, "undo")
  /\ UNCHANGED <<tunnel, sub, stateVars, call, out, gone, faults>>

\* raiseInterface: the interface comes up only on top of a listening xray.
RaiseInterface(p) ==
  /\ pc[p] = "raise"
  /\ \/ ~HasIface /\ Goto(p, "commit") /\ UNCHANGED <<iface, faults>>
     \/ /\ HasIface /\ xray # None /\ p \notin gone
        /\ iface' = TRUE
        /\ Goto(p, "commit")
        /\ NoFault
     \/ /\ HasIface
        /\ Fails(p) \/ (xray = None /\ NoFault)
        /\ Goto(p, "undo")
        /\ UNCHANGED iface
  /\ UNCHANGED <<conf, bak, xray, sub, stateVars, call, out, gone>>

\* The server becomes the active one; the copy is saved outside the lock.
Commit(p) ==
  /\ pc[p] = "commit"
  /\ SaveLater(p, [mem EXCEPT !.active = call[p].key], call[p].ok)
  /\ call' = [call EXCEPT ![p] = NoCall]
  /\ UNCHANGED <<tunnel, sub, disk, gone, faults>>

\* rollback: the file first; without a backup nothing is put back.
Rollback(p) ==
  /\ pc[p] = "undo"
  /\ \/ /\ call[p].had /\ bak # None
        /\ conf' = bak
        /\ Goto(p, "unrestart")
        /\ UNCHANGED <<call, faults>>
     \/ /\ \/ (~call[p].had \/ bak = None) /\ NoFault
           \/ Fault
        /\ Return(p, call[p].err)
        /\ UNCHANGED conf
  /\ UNCHANGED <<bak, xray, iface, sub, stateVars, out, gone>>

\* ... then xray, with the context of the failed Apply.  The port is not
\* awaited and the interface is not raised again.
RollbackRestart(p) ==
  /\ pc[p] = "unrestart"
  /\ Restarted(p) \/ RestartFailed(p)
  /\ Return(p, call[p].err)
  /\ UNCHANGED <<conf, bak, sub, stateVars, out, gone>>

\* saveState of a copy taken earlier, under no lock; an error is only logged.
SaveState(p) ==
  /\ pc[p] = "save"
  /\ \/ disk' = out[p].st /\ NoFault
     \/ UNCHANGED disk /\ Fault
  /\ Goto(p, out[p].then)
  /\ out' = [out EXCEPT ![p] = NoSave]
  /\ UNCHANGED <<tunnel, sub, mem, call, gone>>

ApplyStep(p) ==
  \/ Fetch(p) \/ BackupConfig(p) \/ WriteConf(p) \/ RestartXray(p)
  \/ WaitProxy(p) \/ RaiseInterface(p) \/ Commit(p) \/ Rollback(p)
  \/ RollbackRestart(p) \/ SaveState(p)

-----------------------------------------------------------------------------
(***************************************************************************)
(* What happens to the tunnel without Apply                                *)
(***************************************************************************)

\* kvas upgrade deletes /opt/etc/xray with both files; xray may be stopped.
Upgrade ==
  /\ Fault
  /\ conf' = None /\ bak' = None
  /\ xray' \in {xray, None} /\ iface' \in {iface, FALSE}
  /\ UNCHANGED <<sub, stateVars, procVars, gone>>

\* xray dies, or the interface drops on its own.
TunnelDies ==
  /\ Fault
  /\ iface' = FALSE
  /\ xray' \in {xray, None}
  /\ UNCHANGED <<conf, bak, sub, stateVars, procVars, gone>>

\* The provider takes a server off its list.
Withdraw ==
  /\ Fault
  /\ \E u \in Url, s \in Server :
       s \in sub[u] /\ sub' = [sub EXCEPT ![u] = @ \ {s}]
  /\ UNCHANGED <<tunnel, stateVars, procVars, gone>>

TunnelTypeOK ==
  /\ conf \in Server \cup {None}
  /\ bak \in Server \cup {None}
  /\ xray \in Server \cup {None}
  /\ iface \in BOOLEAN
  /\ sub \in [Url -> SUBSET Server]
  /\ mem \in State
  /\ disk \in State
  /\ call \in [Proc -> Frame]
  /\ out \in [Proc -> Copy]
  /\ gone \subseteq Proc
  /\ faults \in 0..MaxFaults
=============================================================================
