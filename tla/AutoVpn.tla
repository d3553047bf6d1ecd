------------------------------ MODULE AutoVpn ------------------------------
(***************************************************************************)
(* autovpn.Manager: the goroutines that share the subscription state and   *)
(* the tunnel.                                                             *)
(*                                                                         *)
(*   Watch   the watchdog (watch.go): repairs the tunnel, and switches to  *)
(*           a spare server when the active one is dead;                   *)
(*   Checks  background checks (manager.go, sitecheck.go), started by the  *)
(*           user or by the daily schedule, at most one at a time;         *)
(*   Users   HTTP requests that apply a server picked by hand.             *)
(*                                                                         *)
(* They meet in Manager.state (under a mutex), in subscription.json (under *)
(* none) and in the steps of Apply (under none), which module Tunnel has.  *)
(***************************************************************************)
EXTENDS Tunnel, FiniteSets

CONSTANTS
  Watch, Checks, Users,
  Settings,          \* [url, auto, liveCheck] triples the user may save
  InitStates,        \* contents of subscription.json when the run begins
  Listing,           \* what each link lists when the run begins
  MaxRepairServers,  \* spare servers the watchdog tries in a round
  LiveGap,           \* watchdog wakes from one live check to the next
  MaxBoots           \* bound on restarts of the service

ASSUME AutoVpnAssumption ==
  /\ Proc = {Watch} \cup Checks \cup Users
  /\ Watch \notin Checks \cup Users
  /\ Checks \cap Users = {}
  /\ InitStates \subseteq State
  /\ Settings \subseteq
       [url: Url \cup {None}, auto: BOOLEAN, liveCheck: BOOLEAN]
  /\ Listing \in [Url -> SUBSET Server]
  /\ MaxRepairServers \in Nat \ {0}
  /\ LiveGap \in Nat
  /\ MaxBoots \in Nat

VARIABLES
  running,   \* Manager.running: a check is under way
  snap,      \* snap[p]: what p decides by, of its copy of Manager.state
  listed,    \* listed[c]: the servers check c found in the subscription
  spares,    \* servers the watchdog has yet to try in this round
  lastLive,  \* wakes left until the next live check is due
  up,        \* servers that let traffic out
  net,       \* the router has internet
  boots      \* restarts of the service so far

env == <<up, net, boots>>
locals == <<snap, listed, spares, lastLive>>
vars == <<tunnel, sub, stateVars, procVars, gone, faults, running, locals, env>>

Elements(s) == {s[i] : i \in DOMAIN s}

\* Every order in which a set of live servers may come out of a check.
Rankings(S) ==
  UNION {{r \in [1..n -> S] : \A i, j \in 1..n : r[i] = r[j] => i = j}
         : n \in 0..Cardinality(S)}

\* The first element sinks to position i; the others keep their order.
Sink(r, i) == SubSeq(r, 2, i) \o <<Head(r)>> \o SubSeq(r, i + 1, Len(r))

Seen == [active: Server \cup {None}, auto: BOOLEAN, results: Seq(Server)]
View(st) == [active |-> st.active, auto |-> st.auto, results |-> st.results]
Snapshot(p) == snap' = [snap EXCEPT ![p] = View(mem)]
Forget(p) == snap' = [snap EXCEPT ![p] = None]

\* r without s, wherever it stands.
Without(r, s) ==
  LET rest[n \in 0..Len(r)] ==
        IF n = 0 THEN <<>>
        ELSE IF r[n] = s THEN rest[n - 1] ELSE Append(rest[n - 1], r[n])
  IN  rest[Len(r)]

Take(s, n) == SubSeq(s, 1, IF Len(s) < n THEN Len(s) ELSE n)

-----------------------------------------------------------------------------
(***************************************************************************)
(* The watchdog: watchStep, EnsureTunnel, liveVerify                       *)
(***************************************************************************)

\* tunnelHealthy sees the router's own side only.
TunnelHealthy_PortOnly == conf # None /\ xray # None
TunnelHealthy == conf # None /\ xray # None /\ (HasIface => iface)

\* The live probe goes through the SOCKS port, past the interface.
ProbeWorks == net /\ xray \in up

\* A wake nearer to the next live check; once it is due, it stays due.
Elapsed_Past(n) == n - 1
Elapsed(n) == IF n = 0 THEN 0 ELSE n - 1

\* EnsureTunnel copies the state first ...
Wake ==
  /\ pc[Watch] = "sleep"
  /\ lastLive' = Elapsed(lastLive)
  /\ Snapshot(Watch)
  /\ Goto(Watch, "ensure")
  /\ UNCHANGED <<tunnel, sub, stateVars, call, out, gone, faults, running,
                 listed, spares, env>>

\* ... and looks at the tunnel later.  When the router does not answer about
\* its interface the tunnel counts as healthy.
Ensure ==
  /\ pc[Watch] = "ensure"
  /\ LET active == snap[Watch].active
     IN \/ /\ active = None \/ TunnelHealthy
           /\ Goto(Watch, "look")
           /\ UNCHANGED <<call, faults>>
        \/ /\ active # None
           /\ conf # None /\ xray # None /\ HasIface /\ ~iface
           /\ Fault
           /\ Goto(Watch, "look")
           /\ UNCHANGED call
        \/ /\ active # None /\ ~TunnelHealthy
           /\ Enter(Watch, active, "look", "sleep")
           /\ NoFault
  /\ UNCHANGED <<tunnel, sub, stateVars, out, gone, running, locals, env>>

\* The rest of watchStep, up to the live check: a second copy of the state.
Look ==
  /\ pc[Watch] = "look"
  /\ LET due == /\ mem.liveCheck /\ mem.active # None
                /\ lastLive = 0
                /\ ~running
     IN \/ due /\ Goto(Watch, "probe") /\ Snapshot(Watch) /\ lastLive' = LiveGap
        \/ ~due /\ Goto(Watch, "sleep") /\ Forget(Watch) /\ UNCHANGED lastLive
  /\ UNCHANGED <<tunnel, sub, stateVars, call, out, gone, faults, running,
                 listed, spares, env>>

\* What recordLive writes to disk: a change of the verdict, or a repair.
Changed_RepairsOnly(verdict, repaired) == repaired
Changed(verdict, repaired) == mem.live # verdict \/ repaired

\* recordLive: always in memory, on disk only when the verdict changes or
\* a repair is counted.  The round ends here.
RecordLive(verdict, repaired) ==
  LET st == [mem EXCEPT !.live = verdict]
  IN /\ \/ Changed(verdict, repaired) /\ SaveLater(Watch, st, "sleep")
        \/ /\ ~Changed(verdict, repaired)
           /\ mem' = st
           /\ Goto(Watch, "sleep")
           /\ UNCHANGED out
     /\ Forget(Watch)
     /\ spares' = <<>>
     /\ UNCHANGED call

WatchOnly == UNCHANGED <<tunnel, sub, disk, gone, running, listed, lastLive, env>>

Probe ==
  /\ pc[Watch] = "probe"
  /\ \/ ProbeWorks /\ RecordLive("ok", FALSE)
     \/ ~ProbeWorks /\ Goto(Watch, "inet") /\ UNCHANGED <<mem, out, call, snap, spares>>
  /\ NoFault /\ WatchOnly

\* spareServers: live servers of the last check, the active one left out.
SpareServers_WithActive(st) == Take(st.results, MaxRepairServers)
SpareServers(st) == Take(Without(st.results, st.active), MaxRepairServers)

\* No internet at all: the tunnel is not to blame.  Otherwise the server
\* that was active when the round began is applied anew.
Inet ==
  /\ pc[Watch] = "inet"
  /\ \/ ~net /\ RecordLive("nonet", FALSE)
     \/ /\ net
        /\ Enter(Watch, snap[Watch].active, "reprobe", "spares")
        /\ spares' = SpareServers(snap[Watch])
        /\ UNCHANGED <<mem, out, snap>>
  /\ NoFault /\ WatchOnly

Reprobe ==
  /\ pc[Watch] = "reprobe"
  /\ \/ ProbeWorks /\ RecordLive("ok", TRUE)
     \/ ~ProbeWorks /\ Goto(Watch, "spares") /\ UNCHANGED <<mem, out, call, snap, spares>>
  /\ NoFault /\ WatchOnly

MayChangeServer_Always == TRUE
MayChangeServer == snap[Watch].auto

\* Spare servers come from the copy, and so does the permission to use them.
Spares ==
  /\ pc[Watch] = "spares"
  /\ \/ ~MayChangeServer /\ RecordLive("noauto", FALSE)
     \/ MayChangeServer /\ spares = <<>> /\ RecordLive("dead", FALSE)
     \/ /\ MayChangeServer /\ spares # <<>>
        /\ Enter(Watch, Head(spares), "spareprobe", "spares")
        /\ spares' = Tail(spares)
        /\ UNCHANGED <<mem, out, snap>>
  /\ NoFault /\ WatchOnly

SpareProbe ==
  /\ pc[Watch] = "spareprobe"
  /\ \/ ProbeWorks /\ RecordLive("ok", TRUE)
     \/ ~ProbeWorks /\ Goto(Watch, "spares") /\ UNCHANGED <<mem, out, call, snap, spares>>
  /\ NoFault /\ WatchOnly

WatchStep ==
  \/ Wake \/ Ensure \/ Look \/ Probe \/ Inet \/ Reprobe \/ Spares \/ SpareProbe

-----------------------------------------------------------------------------
(***************************************************************************)
(* Checks: StartCheck, StartSiteCheck, runCheck, refreshWinner             *)
(***************************************************************************)

\* Both kinds of check share the flag; a second one is refused.
StartCheck(c) ==
  /\ pc[c] = "idle" /\ ~running
  /\ running' = TRUE
  /\ Goto(c, "servers")
  /\ UNCHANGED <<tunnel, sub, stateVars, call, out, gone, faults, locals, env>>

StartSiteCheck_Unguarded(c) ==
  /\ pc[c] = "idle"
  /\ running' = TRUE
  /\ Goto(c, "site")
  /\ UNCHANGED <<tunnel, sub, stateVars, call, out, gone, faults, locals, env>>
StartSiteCheck(c) ==
  /\ pc[c] = "idle" /\ ~running
  /\ running' = TRUE
  /\ Goto(c, "site")
  /\ UNCHANGED <<tunnel, sub, stateVars, call, out, gone, faults, locals, env>>

\* A site check only reports to the browser.
SiteCheck(c) ==
  /\ pc[c] = "site"
  /\ Goto(c, "release")
  /\ UNCHANGED <<tunnel, sub, stateVars, call, out, gone, faults, running, locals, env>>

CheckOnly ==
  UNCHANGED <<tunnel, sub, disk, gone, running, spares, lastLive, env>>

CheckServers(c) ==
  /\ pc[c] = "servers"
  /\ \/ /\ mem.url # None
        /\ listed' = [listed EXCEPT ![c] = Listed]
        /\ Goto(c, "measure")
        /\ NoFault
     \/ /\ (mem.url = None /\ NoFault) \/ Fault
        /\ Goto(c, "failed")
        /\ UNCHANGED listed
  /\ UNCHANGED <<mem, out, call, snap>>
  /\ CheckOnly

\* CheckAll and Sort, minutes later: any live servers, in any order.  The
\* results replace those in memory, and the check goes on with its copy.
CheckResults(c) ==
  /\ pc[c] = "measure"
  /\ \E r \in Rankings(listed[c]) :
       /\ SaveLater(c, [mem EXCEPT !.results = r], "decide")
       /\ snap' = [snap EXCEPT ![c] = View(mem')]
  /\ listed' = [listed EXCEPT ![c] = {}]
  /\ UNCHANGED call
  /\ NoFault /\ CheckOnly

MayApply_AnyTime(c) == snap[c].results # <<>>
MayApply(c) == snap[c].auto /\ snap[c].results # <<>>

\* The winner may rest on a speed of an earlier day: it is measured again.
Decide(c) ==
  /\ pc[c] = "decide"
  /\ IF MayApply(c)
     THEN \E l \in {"refresh", "choose"} : Goto(c, l)
     ELSE Goto(c, "release")
  /\ UNCHANGED <<mem, out, call, snap, listed>>
  /\ NoFault /\ CheckOnly

\* refreshWinner: the same servers, the winner possibly further down.
RefreshWinner(c) ==
  /\ pc[c] = "refresh"
  /\ \E i \in DOMAIN snap[c].results :
       LET r == Sink(snap[c].results, i)
       IN /\ SaveLater(c, [mem EXCEPT !.results = r], "choose")
          /\ snap' = [snap EXCEPT ![c].results = r]
  /\ UNCHANGED <<call, listed>>
  /\ NoFault /\ CheckOnly

Choose_TryAgain(c) ==
  /\ pc[c] = "choose"
  /\ LET best == Head(snap[c].results)
     IN \/ /\ snap[c].active \in Elements(snap[c].results)
           /\ Goto(c, "release")
           /\ UNCHANGED call
        \/ /\ best # snap[c].active
           /\ Enter(c, best, "release", "choose")
  /\ UNCHANGED <<mem, out, snap, listed>>
  /\ NoFault /\ CheckOnly

\* keepCurrent may keep the active server only if the check saw it alive.
Choose(c) ==
  /\ pc[c] = "choose"
  /\ LET best == Head(snap[c].results)
     IN \/ /\ snap[c].active \in Elements(snap[c].results)
           /\ Goto(c, "release")
           /\ UNCHANGED call
        \/ /\ best # snap[c].active
           /\ Enter(c, best, "release", "failed")
  /\ UNCHANGED <<mem, out, snap, listed>>
  /\ NoFault /\ CheckOnly

\* recordError touches LastError and LastCheck only, yet saves the whole copy.
RecordError(c) ==
  /\ pc[c] = "failed"
  /\ SaveLater(c, mem, "release")
  /\ UNCHANGED <<call, snap, listed>>
  /\ NoFault /\ CheckOnly

\* The deferred release of the flag runs on every path.
Release(c) ==
  /\ pc[c] = "release"
  /\ running' = FALSE
  /\ Goto(c, "idle")
  /\ Forget(c)
  /\ UNCHANGED <<tunnel, sub, stateVars, call, out, gone, faults, listed,
                 spares, lastLive, env>>

CheckStep(c) ==
  \/ SiteCheck(c) \/ CheckServers(c) \/ CheckResults(c) \/ Decide(c)
  \/ RefreshWinner(c) \/ Choose(c) \/ RecordError(c) \/ Release(c)

-----------------------------------------------------------------------------
(***************************************************************************)
(* The user and the environment                                            *)
(***************************************************************************)

\* POST /api/subscription/apply with any key, whatever else is going on.
UserApply(u) ==
  /\ pc[u] = "idle" /\ u \notin gone
  /\ \E key \in Server : Enter(u, key, "idle", "idle")
  /\ UNCHANGED <<tunnel, sub, stateVars, out, gone, faults, running, locals, env>>

\* The tab is closed: r.Context() is cancelled under a running Apply.
CloseTab(u) ==
  /\ pc[u] \in ApplyLabel /\ u \notin gone
  /\ gone' = gone \cup {u}
  /\ UNCHANGED <<tunnel, sub, stateVars, procVars, faults, running, locals, env>>

NewTab(u) ==
  /\ pc[u] = "idle" /\ u \in gone
  /\ gone' = gone \ {u}
  /\ UNCHANGED <<tunnel, sub, stateVars, procVars, faults, running, locals, env>>

\* UpdateSettings: memory follows the file, all under the mutex; results of
\* another link are dropped.  A failed save leaves both as they were.
UpdateSettings ==
  /\ \E s \in Settings :
       /\ mem' = [mem EXCEPT !.url = s.url, !.auto = s.auto,
                             !.liveCheck = s.liveCheck,
                             !.results = IF s.url = mem.url THEN @ ELSE <<>>]
       /\ disk' = mem'
  /\ UNCHANGED <<tunnel, sub, procVars, gone, faults, running, locals, env>>

\* The service dies at any moment and starts again with what is on disk;
\* on a reboot xray comes back with the file that is there.
ServiceRestart ==
  /\ boots < MaxBoots
  /\ boots' = boots + 1
  /\ mem' = disk
  /\ pc' = [p \in Proc |-> IF p = Watch THEN "sleep" ELSE "idle"]
  /\ call' = [p \in Proc |-> NoCall]
  /\ out' = [p \in Proc |-> NoSave]
  /\ gone' = {}
  /\ running' = FALSE
  /\ snap' = [p \in Proc |-> None]
  /\ listed' = [c \in Checks |-> {}]
  /\ spares' = <<>>
  /\ lastLive' = 0
  /\ \/ UNCHANGED <<xray, iface>>
     \/ xray' = conf /\ iface' \in BOOLEAN
  /\ UNCHANGED <<conf, bak, sub, disk, faults, up, net>>

\* A server stops letting traffic out; the provider's line goes down.
ServerDies ==
  /\ Fault
  /\ \E s \in up : up' = up \ {s}
  /\ UNCHANGED <<tunnel, sub, stateVars, procVars, gone, running, locals, net, boots>>

NetDown ==
  /\ Fault
  /\ net' = FALSE
  /\ UNCHANGED <<tunnel, sub, stateVars, procVars, gone, running, locals, up, boots>>

NetUp ==
  /\ ~net
  /\ net' = TRUE
  /\ UNCHANGED <<tunnel, sub, stateVars, procVars, gone, faults, running, locals,
                 up, boots>>

Environment ==
  \/ (Upgrade \/ TunnelDies \/ Withdraw) /\ UNCHANGED <<running, locals, env>>
  \/ ServerDies \/ NetDown \/ NetUp \/ ServiceRestart

-----------------------------------------------------------------------------
Init ==
  /\ mem \in InitStates
  /\ disk = mem
  /\ conf = mem.active
  /\ bak = None
  /\ xray = conf
  /\ iface = (conf # None)
  /\ sub = Listing
  /\ pc = [p \in Proc |-> IF p = Watch THEN "sleep" ELSE "idle"]
  /\ call = [p \in Proc |-> NoCall]
  /\ out = [p \in Proc |-> NoSave]
  /\ gone = {}
  /\ faults = MaxFaults
  /\ running = FALSE
  /\ snap = [p \in Proc |-> None]
  /\ listed = [c \in Checks |-> {}]
  /\ spares = <<>>
  /\ lastLive = 0
  /\ up = Server
  /\ net = TRUE
  /\ boots = 0

Apply(p) == ApplyStep(p) /\ UNCHANGED <<running, locals, env>>

Next ==
  \/ \E p \in Proc : Apply(p)
  \/ WatchStep
  \/ \E c \in Checks : StartCheck(c) \/ StartSiteCheck(c) \/ CheckStep(c)
  \/ \E u \in Users : UserApply(u) \/ CloseTab(u) \/ NewTab(u)
  \/ UpdateSettings
  \/ Environment

Spec == Init /\ [][Next]_vars

\* Every goroutine that is in the middle of its work is scheduled again and
\* again, and the watchdog's timer always fires.  Nothing is assumed of the
\* user, of the environment, or of when a check starts.
Fairness ==
  /\ \A p \in Proc : WF_vars(Apply(p))
  /\ WF_vars(WatchStep)
  /\ \A c \in Checks : WF_vars(CheckStep(c))

FairSpec == Spec /\ Fairness

-----------------------------------------------------------------------------
(***************************************************************************)
(* Properties                                                              *)
(***************************************************************************)

TypeOK ==
  /\ TunnelTypeOK
  /\ pc \in [Proc -> Label]
  /\ running \in BOOLEAN
  /\ snap \in [Proc -> Seen \cup {None}]
  /\ listed \in [Checks -> SUBSET Server]
  /\ spares \in Seq(Server)
  /\ lastLive \in 0..LiveGap
  /\ up \subseteq Server
  /\ net \in BOOLEAN
  /\ boots \in 0..MaxBoots

\* A check lifts an xray per server, too much for the router to do twice at
\* a time: at most one check is under way, whoever started it, and the flag
\* says so exactly as long as it lasts (StartCheck, StartSiteCheck, and the
\* deferred release on every path of runCheck).
Busy(c) == pc[c] # "idle"
OneCheck ==
  /\ \A c, d \in Checks : Busy(c) /\ Busy(d) => c = d
  /\ running <=> \E c \in Checks : Busy(c)

\* The service changes the server by itself only with AutoApply on in the
\* state it decides by; without it the watchdog may only apply again the
\* server that was active (liveVerify, runCheck).
Automatic == {Watch} \cup Checks
Consent ==
  \A p \in Automatic : pc[p] \in ApplyLabel =>
    /\ snap[p] \in Seen
    /\ snap[p].auto \/ call[p].key = snap[p].active

\* A server the service picks by itself came out alive of the check whose
\* results it decides by, and the watchdog never takes the active server
\* for a spare (spareServers, runCheck).
PickedAlive ==
  /\ \A p \in Automatic : pc[p] \in ApplyLabel =>
       call[p].key \in Elements(snap[p].results) \cup {snap[p].active}
  /\ \A i \in DOMAIN spares : spares[i] # snap[Watch].active
  /\ Len(spares) <= MaxRepairServers

\* Outside Apply, the server the router is configured for; inside, until
\* the switch is committed or rolled back, the one it would go back to.
Switching == {"restart", "wait", "raise", "commit", "undo"}
Current ==
  IF \E p \in Proc : pc[p] \in Switching
  THEN LET p == CHOOSE q \in Proc : pc[q] \in Switching
       IN IF call[p].had THEN bak ELSE None
  ELSE conf

Switched == INSTANCE ServerSwitch WITH current <- Current, chosen <- mem.active

\* As long as no two Apply overlap, a switch is atomic: the configured and
\* the recorded server part only by a failure, a crash, or a failed switch
\* that found nothing to go back to.
AtomicSwitch == Switched!Spec

\* The state constraint of that reading.
OneSwitcher ==
  \A p, q \in Proc : pc[p] \in ApplyLabel /\ pc[q] \in ApplyLabel => p = q

\* Traffic gets out: the proxy answers, and the router has its interface.
Working == ProbeWorks /\ conf # None /\ (HasIface => iface)

\* What the watchdog needs: internet, permission, an active server that is
\* still listed, and a server among those it would try that works.
Repairable ==
  /\ net /\ mem.auto /\ mem.liveCheck
  /\ mem.active \in Listed
  /\ \E s \in Elements(mem.results) : s \in up \cap Listed
  /\ Cardinality(Elements(mem.results) \ {mem.active}) <= MaxRepairServers

\* The watchdog brings the tunnel back and then leaves it alone, after any
\* mix of deleted configuration, dead xray, lost interface, dead server and
\* failed repair, once these stop happening (EnsureTunnel, liveVerify).
TunnelComesBack == <>[]Repairable => <>[]Working

\* Whatever fails, a check ends and gives the flag back: the deferred
\* release of StartCheck covers every path of runCheck.
CheckEnds == running ~> ~running

\* With one writer, the state in memory is on disk or in a copy that is on
\* its way there, and only a failed save can change that: a restart loses
\* no switch and no verdict that was not just being written (Apply,
\* recordLive).
Persisted == disk = mem \/ \E p \in Proc : pc[p] = "save" /\ out[p].st = mem
SaveFailed(p) == pc[p] = "save" /\ pc'[p] # "save" /\ faults' # faults
StateSaved ==
  [][Persisted /\ (\A p \in Proc : ~SaveFailed(p)) => Persisted']_vars
=============================================================================
