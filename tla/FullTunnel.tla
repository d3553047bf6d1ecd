----------------------------- MODULE FullTunnel -----------------------------
(***************************************************************************)
(* The whole-traffic mode of fulltunnel/fulltunnel.go: the choice file     *)
(* against the mangle table of the kernel.  The mode is a chain of its own *)
(* (KVASWEB_FULL), which lets the excluded devices of kvas.conf return and *)
(* then goes to KVAS_MARK, and a hook, the jump to it from PREROUTING.     *)
(* Kvas and the firmware rebuild the table at any time; a goroutine        *)
(* (KeepApplied) puts the mode back.  Every call holds Store.mu; a step is *)
(* one run of iptables, which may fail, or the write of the choice.        *)
(***************************************************************************)
EXTENDS Routes

CONSTANTS
  Subnet,    \* the devices that iptables -S prints as they were given; it
             \* prints a single address with /32
  Mark,      \* the rule "-j KVAS_MARK"
  Users,     \* browser tabs that switch the mode
  Keeper,    \* the goroutine KeepApplied
  MaxTries,  \* deletions of the hook in one call, 8 in the code
  MaxWipes   \* bound on rebuilds of the table

ASSUME FullTunnelAssumption ==
  /\ Subnet \subseteq Device
  /\ Mark \notin Device \cup {None}
  /\ Keeper \notin Users
  /\ MaxTries \in Nat /\ MaxWipes \in Nat

VARIABLES
  choice,  \* the choice file says "on"
  marked,  \* PREROUTING has Kvas's own jump to KVAS_MARK
  hooks,   \* how many times PREROUTING has the hook
  chain,   \* the rules of KVASWEB_FULL, None: no such chain
  call,    \* call[p]: the call of Store that p is in
  wipes,   \* rebuilds of the table still to come
  lost     \* hooks that a rebuild on the fly took out and may put back

kernel == <<marked, hooks, chain>>
routes == <<conf, req>>
vars == <<conf, req, faults, choice, marked, hooks, chain, call, wipes, lost>>

-----------------------------------------------------------------------------

Caller == Users \cup {Keeper}
Rule == Device \cup {Mark}

\* applyLocked: "lan" to "hook"; restore with the mode off: "lanOff",
\* "hookOff"; removeLocked: "lanRemove" to "delete"; "save" ends Set.
At == {"idle", "lan", "check", "match", "new", "flush", "fill", "recheck",
       "hook", "lanOff", "hookOff", "lanRemove", "hookRemove", "unhook",
       "empty", "delete", "save"}

\* on: what Set is to save.  want: wantedRules.  n: rules added, or deletions.
Call == [at: At, on: BOOLEAN, want: Seq(Rule), n: Nat]
NoCall == [at |-> "idle", on |-> FALSE, want |-> <<>>, n |-> 0]

TypeOK ==
  /\ RoutesTyped
  /\ choice \in BOOLEAN /\ marked \in BOOLEAN
  /\ hooks \in Nat /\ lost \in Nat
  /\ chain = None \/ \A i \in DOMAIN chain : chain[i] \in Rule
  /\ \A p \in Caller : call[p].at \in At /\ call[p].n \in Nat
  /\ faults \in 0..MaxFaults /\ wipes \in 0..MaxWipes 

Init ==
  /\ conf \in InitConf
  /\ req = [t \in Tabs |-> NoRequest]
  /\ faults = MaxFaults /\ wipes = MaxWipes 
  /\ choice \in BOOLEAN
  /\ marked \in BOOLEAN
  /\ hooks = 0 /\ chain = None /\ lost = 0
  /\ call = [p \in Caller |-> NoCall]

Goto(p, l) == call' = [call EXCEPT ![p].at = l]

\* The call goes wrong and returns its error: Set saves nothing.
Abort(p) == call' = [call EXCEPT ![p] = NoCall]

\* The rules are as wanted: restore returns, Set goes on to save.
Done(p) == IF p = Keeper THEN Abort(p) ELSE Goto(p, "save")

\* A run of iptables does its work, or fails and does nothing.
Outcome(ok) == IF ok THEN UNCHANGED faults ELSE Fault

Unlocked(p) == \A q \in Caller : call[q].at = "idle"

\* A mutant of WantedRules: the mark comes first.
WantedRules_MarkFirst == <<Mark>> \o conf[Exclude]

\* What wantedRules makes of the list of excluded devices.
WantedRules == Append(conf[Exclude], Mark)

\* A mutant of RulesMatch: the chain is always filled anew.
RulesMatch_Never(want) == FALSE

\* rulesMatch compares what iptables prints with what was given to it.
RulesMatch(want) ==
  /\ chain = want
  /\ \A i \in DOMAIN want : want[i] \in Subnet \cup {Mark}

-----------------------------------------------------------------------------
(***************************************************************************)
(* Set and restore                                                         *)
(***************************************************************************)

SetMode(u, on) ==
  /\ Unlocked(u)
  /\ call' = [call EXCEPT ![u] = [NoCall EXCEPT
                !.at = IF on THEN "lan" ELSE "lanRemove", !.on = on]]
  /\ UNCHANGED <<routes, faults, choice, kernel, wipes, lost>>

Restore_OnlyOn ==
  /\ Unlocked(Keeper)
  /\ choice
  /\ call' = [call EXCEPT ![Keeper] = [NoCall EXCEPT !.at = "lan"]]
  /\ UNCHANGED <<routes, faults, choice, kernel, wipes, lost>>

Restore ==
  /\ Unlocked(Keeper)
  /\ call' = [call EXCEPT ![Keeper] = [NoCall EXCEPT
                !.at = IF choice THEN "lan" ELSE "lanOff"]]
  /\ UNCHANGED <<routes, faults, choice, kernel, wipes, lost>>

\* lanIface reads the interface off Kvas's own rule.  Without it applyLocked
\* fails, restore leaves things alone and removeLocked drops the chain.
LanIface(p, ok) ==
  /\ Outcome(ok)
  /\ \/ call[p].at = "lan" /\ (IF ok /\ marked THEN Goto(p, "check") ELSE Abort(p))
     \/ call[p].at = "lanOff" /\ (IF ok /\ marked THEN Goto(p, "hookOff") ELSE Abort(p))
     \/ /\ call[p].at = "lanRemove"
        /\ Goto(p, IF ok /\ marked THEN "hookRemove" ELSE "empty")
  /\ UNCHANGED <<routes, choice, kernel, wipes, lost>>

\* hookPresent: a run of iptables that fails says no.
HookPresent(p, ok) ==
  LET present == ok /\ hooks > 0 IN
  /\ Outcome(ok)
  /\ \/ /\ call[p].at = "check"
        /\ call' = [call EXCEPT ![p].at = IF present THEN "match" ELSE "new",
                                ![p].want = WantedRules]
     \/ call[p].at = "recheck" /\ (IF present THEN Done(p) ELSE Goto(p, "hook"))
     \/ /\ call[p].at = "hookOff"
        /\ IF present THEN Goto(p, "lanRemove") ELSE Abort(p)
     \/ /\ call[p].at = "hookRemove"
        /\ Goto(p, IF call[p].n < MaxTries /\ present THEN "unhook" ELSE "empty")
  /\ UNCHANGED <<routes, choice, kernel, wipes, lost>>

-----------------------------------------------------------------------------
(***************************************************************************)
(* applyLocked                                                             *)
(***************************************************************************)

MatchRules(p, ok) ==
  /\ call[p].at = "match"
  /\ Outcome(ok)
  /\ IF ok /\ RulesMatch(call[p].want) THEN Done(p) ELSE Goto(p, "new")
  /\ UNCHANGED <<routes, choice, kernel, wipes, lost>>

\* -N: the error of a chain that is there, and any other, is ignored.
NewChain(p, ok) ==
  /\ call[p].at = "new"
  /\ Outcome(ok)
  /\ chain' = IF ok /\ chain = None THEN <<>> ELSE chain
  /\ Goto(p, "flush")
  /\ UNCHANGED <<routes, choice, marked, hooks, wipes, lost>>

FlushChain(p, ok) ==
  /\ call[p].at = "flush"
  /\ Outcome(ok)
  /\ IF ok /\ chain # None THEN chain' = <<>> /\ Goto(p, "fill")
     ELSE UNCHANGED chain /\ Abort(p)
  /\ UNCHANGED <<routes, choice, marked, hooks, wipes, lost>>

AddRule_ThenHook(p, ok) ==
  LET n == call[p].n + 1
      want == call[p].want IN
  /\ call[p].at = "fill"
  /\ Outcome(ok)
  /\ IF ok /\ chain # None
     THEN /\ chain' = Append(chain, want[n])
          /\ call' = [call EXCEPT ![p].n = n,
                        ![p].at = IF n < Len(want) THEN "fill" ELSE "hook"]
     ELSE UNCHANGED chain /\ Abort(p)
  /\ UNCHANGED <<routes, choice, marked, hooks, wipes, lost>>

\* The jump to KVAS_MARK also fails while Kvas has that chain taken down.
AddRule(p, ok) ==
  LET n == call[p].n + 1
      want == call[p].want IN
  /\ call[p].at = "fill"
  /\ Outcome(ok) \/ (want[n] = Mark /\ ~marked /\ ~ok /\ UNCHANGED faults)
  /\ IF ok /\ chain # None
     THEN /\ chain' = Append(chain, want[n])
          /\ call' = [call EXCEPT ![p].n = n,
                        ![p].at = IF n < Len(want) THEN "fill" ELSE "recheck"]
     ELSE UNCHANGED chain /\ Abort(p)
  /\ UNCHANGED <<routes, choice, marked, hooks, wipes, lost>>

AddHook_ErrorIgnored(p, ok) ==
  /\ call[p].at = "hook"
  /\ Outcome(ok)
  /\ hooks' = IF ok /\ chain # None THEN hooks + 1 ELSE hooks
  /\ Done(p)
  /\ UNCHANGED <<routes, choice, marked, chain, wipes, lost>>

AddHook(p, ok) ==
  /\ call[p].at = "hook"
  /\ Outcome(ok)
  /\ IF ok /\ chain # None THEN hooks' = hooks + 1 /\ Done(p)
     ELSE UNCHANGED hooks /\ Abort(p)
  /\ UNCHANGED <<routes, choice, marked, chain, wipes, lost>>

-----------------------------------------------------------------------------
(***************************************************************************)
(* removeLocked and the end of Set                                         *)
(***************************************************************************)

Unhook(p, ok) ==
  /\ call[p].at = "unhook"
  /\ Outcome(ok)
  /\ IF ok /\ hooks > 0
     THEN /\ hooks' = hooks - 1
          /\ call' = [call EXCEPT ![p].at = "hookRemove", ![p].n = @ + 1]
     ELSE UNCHANGED hooks /\ Abort(p)
  /\ UNCHANGED <<routes, choice, marked, chain, wipes, lost>>

\* dropChain: -F and -X, whatever comes of them.  The kernel keeps a chain
\* that is not empty or that a hook jumps to.
EmptyChain(p, ok) ==
  /\ call[p].at = "empty"
  /\ Outcome(ok)
  /\ chain' = IF ok /\ chain # None THEN <<>> ELSE chain
  /\ Goto(p, "delete")
  /\ UNCHANGED <<routes, choice, marked, hooks, wipes, lost>>

DeleteChain(p, ok) ==
  /\ call[p].at = "delete"
  /\ Outcome(ok)
  /\ chain' = IF ok /\ chain = <<>> /\ hooks = 0 THEN None ELSE chain
  /\ Done(p)
  /\ UNCHANGED <<routes, choice, marked, hooks, wipes, lost>>

SaveChoice(p, ok) ==
  /\ call[p].at = "save"
  /\ Outcome(ok)
  /\ choice' = IF ok THEN call[p].on ELSE choice
  /\ Abort(p)
  /\ UNCHANGED <<routes, kernel, wipes, lost>>

-----------------------------------------------------------------------------
(***************************************************************************)
(* Kvas, the firmware and the service                                      *)
(***************************************************************************)

\* The firmware rebuilds the table from nothing, or on the fly, with the rules
\* of PREROUTING missing for a while, or Kvas takes out its rule.
Wipe ==
  /\ wipes > 0 /\ wipes' = wipes - 1
  /\ marked' = FALSE
  /\ \/ hooks' = 0 /\ chain' = None /\ lost' = 0
     \/ lost = 0 /\ hooks' = 0 /\ lost' = hooks /\ UNCHANGED chain
     \/ UNCHANGED <<hooks, chain, lost>>
  /\ UNCHANGED <<routes, faults, choice, call>>

\* The rebuild on the fly puts the hooks back, whatever was added meanwhile:
\* removeLocked knows that it leaves copies of the hook.
PutBack ==
  /\ lost > 0 /\ lost' = 0
  /\ hooks' = IF chain = None THEN hooks ELSE hooks + lost
  /\ UNCHANGED <<routes, faults, choice, marked, chain, call, wipes>>

\* kvas init, or its netfilter hook, puts Kvas's rule in.
KvasMarks ==
  /\ ~marked /\ marked' = TRUE
  /\ UNCHANGED <<routes, faults, choice, hooks, chain, call, wipes, lost>>

\* The service is killed between two steps of its calls and requests: one of
\* the faults.
Restart ==
  /\ Fault
  /\ call' = [p \in Caller |-> NoCall]
  /\ req' = [t \in Tabs |-> NoRequest]
  /\ UNCHANGED <<conf, choice, kernel, wipes, lost>>

Step(p) ==
  \E ok \in BOOLEAN :
    \/ LanIface(p, ok) \/ HookPresent(p, ok)
    \/ MatchRules(p, ok) \/ NewChain(p, ok) \/ FlushChain(p, ok)
    \/ AddRule(p, ok) \/ AddHook(p, ok)
    \/ Unhook(p, ok) \/ EmptyChain(p, ok) \/ DeleteChain(p, ok)
    \/ SaveChoice(p, ok)

Rules == UNCHANGED <<choice, kernel, call, wipes, lost>>

Next ==
  \/ \E u \in Users, on \in BOOLEAN : SetMode(u, on)
  \/ Restore
  \/ \E p \in Caller : Step(p)
  \/ \E t \in Tabs : (RouteRequest(t) \/ RouteStep(t)) /\ Rules
  \/ Wipe
  \/ PutBack
  \/ KvasMarks
  \/ Restart

Spec == Init /\ [][Next]_vars

\* iptables is killed after 15 seconds, files answer, the ticker ticks.
FairSpec ==
  /\ Spec
  /\ \A p \in Caller : WF_vars(Step(p))
  /\ \A t \in Tabs : WF_vars(RouteStep(t) /\ Rules)
  /\ WF_vars(Restore)

-----------------------------------------------------------------------------
(***************************************************************************)
(* Properties                                                              *)
(***************************************************************************)

\* A device past the tunnel is let go before the mark: nothing follows the
\* mark in the chain, whatever was wiped, failed or restarted while it was
\* built (wantedRules, applyLocked).
MarkLast ==
  chain # None => \A i \in DOMAIN chain : chain[i] = Mark => i = Len(chain)

\* When Set records that the mode is on, its rules stand, unless the table
\* was wiped: no failure on the way is taken for success.
RecordedOn ==
  \A u \in Users :
    call[u].at = "save" /\ call[u].on /\ wipes = MaxWipes =>
      hooks > 0 /\ chain = call[u].want

\* KeepApplied does not pile up hooks: a copy comes of a run of iptables that
\* failed, and passed for "no hook there", or of a rebuild on the fly, between
\* whose two ends there was none, one of each at most (applyLocked,
\* removeLocked).
FewCopies == hooks + lost <= 1 + (MaxFaults - faults) + (MaxWipes - wipes)

\* The kernel does what the choice file and kvas.conf say.
InStep == IF choice THEN hooks > 0 /\ chain = WantedRules ELSE hooks = 0

Undisturbed ==
  /\ marked
  /\ \A u \in Users : call[u].at = "idle"
  /\ \A t \in Tabs : req[t].at = "idle"

\* Whatever failed, was wiped, changed or restarted, the kernel comes to do
\* what the files say, both ways, once Kvas has its rule and the tabs are
\* quiet (restore).
Follows == <>[]Undisturbed => []<>InStep

\* And then KeepApplied leaves the rules alone, if iptables prints the
\* excluded devices as they were given; a chain it rebuilds at every tick
\* lets traffic past the tunnel meanwhile (rulesMatch).
Printable == \A i \in DOMAIN conf[Exclude] : conf[Exclude][i] \in Subnet
LeftAlone == <>[](Undisturbed /\ Printable) => <>[]InStep
=============================================================================
