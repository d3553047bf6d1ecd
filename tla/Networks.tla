------------------------------ MODULE Networks ------------------------------
(***************************************************************************)
(* The extra networks of networks/networks.go: a list on disk, which       *)
(* browser tabs edit, and the ipset table of the kernel, which Kvas wipes  *)
(* and a goroutine fills again.  Every call holds Store.mu from beginning  *)
(* to end; a step is one write of the file or one run of ipset.            *)
(***************************************************************************)
EXTENDS Naturals, FiniteSets

CONSTANTS
  Net,        \* IPv4 networks, as normalize writes them
  Junk,       \* lines normalize refuses: IPv6, typing errors
  Users,      \* browser tabs
  Keeper,     \* the goroutine KeepApplied
  MaxFaults,  \* bound on writes and ipset runs that fail
  MaxWipes,   \* bound on the times Kvas destroys the table
  MaxBoots    \* bound on restarts of the service

ASSUME NetworksAssumption ==
  /\ Net \cap Junk = {}
  /\ Keeper \notin Users
  /\ MaxFaults \in Nat /\ MaxWipes \in Nat /\ MaxBoots \in Nat

VARIABLES
  list,    \* the lines of networks.list
  table,   \* networks held in KVAS_LIST with timeout 0
  created,  \* the table KVAS_LIST is there
  call,    \* call[p]: the call of Store that p is in
  faults, wipes, boots  \* what the environment may still do

kernel == <<table, created>>
env == <<faults, wipes, boots>>
vars == <<list, table, created, call, faults, wipes, boots>>

-----------------------------------------------------------------------------

Caller == Users \cup {Keeper}
Line == Net \cup Junk

\* at: "save" before the file is written, "add" while applyLocked goes
\* through todo, "del" before ipset del.  new is the list to be saved.
Call == [at: {"idle", "saveAdd", "saveDel", "add", "del"},
         new: SUBSET Line, todo: SUBSET Line]

NoCall == [at |-> "idle", new |-> {}, todo |-> {}]

TypeOK ==
  /\ list \subseteq Line
  /\ table \subseteq Net
  /\ created \in BOOLEAN
  /\ call \in [Caller -> Call]
  /\ faults \in 0..MaxFaults /\ wipes \in 0..MaxWipes /\ boots \in 0..MaxBoots

\* Files an earlier version or the owner may have left; an empty table.
Init ==
  /\ list \in SUBSET Line
  /\ table = {}
  /\ created \in BOOLEAN
  /\ call = [p \in Caller |-> NoCall]
  /\ faults = MaxFaults /\ wipes = MaxWipes /\ boots = MaxBoots

Unlocked_KeeperBarges(p) ==
  IF p = Keeper THEN call[p].at = "idle" ELSE \A q \in Users : call[q].at = "idle"
Unlocked_TabsRace(p) == call[p].at = "idle" /\ call[Keeper].at = "idle"

\* s.mu: a call begins when nobody is inside another.
Unlocked(p) == \A q \in Caller : call[q].at = "idle"

Begin(p, at, new, todo) ==
  /\ Unlocked(p)
  /\ call' = [call EXCEPT ![p] = [at |-> at, new |-> new, todo |-> todo]]
  /\ UNCHANGED <<list, kernel, env>>

Return(p) == call' = [call EXCEPT ![p] = NoCall]

Fault == faults > 0 /\ faults' = faults - 1

-----------------------------------------------------------------------------

\* Add: one bad line among the given ones and the call returns with nothing
\* saved; nothing new and it returns with nothing applied.
Add(u, items) ==
  /\ items \subseteq Net
  /\ ~(items \subseteq list)
  /\ Begin(u, "saveAdd", list \cup items, list \cup items)

\* Remove of a listed network; a line that normalize refuses cannot be named.
Remove(u, n) ==
  /\ n \in list
  /\ Begin(u, "saveDel", list \ {n}, {n})

\* Apply, at the start and at every tick of KeepApplied.
Apply == list # {} /\ Begin(Keeper, "add", list, list)

SaveFails_GoesOn(p) ==
  /\ call[p].at \in {"saveAdd", "saveDel"}
  /\ Fault
  /\ call' = [call EXCEPT ![p].at = IF @ = "saveAdd" THEN "add" ELSE "del"]
  /\ UNCHANGED <<list, kernel, wipes, boots>>

SaveFails(p) ==
  /\ call[p].at \in {"saveAdd", "saveDel"}
  /\ Fault
  /\ Return(p)
  /\ UNCHANGED <<list, kernel, wipes, boots>>

SaveList(p) ==
  /\ list' = call[p].new
  /\ UNCHANGED <<kernel, env>>

SaveAdd(p) ==
  /\ call[p].at = "saveAdd"
  /\ call' = [call EXCEPT ![p].at = "add"]
  /\ SaveList(p)

SaveDel(p) ==
  /\ call[p].at = "saveDel"
  /\ call' = [call EXCEPT ![p].at = "del"]
  /\ SaveList(p)

\* ipset add: a failure is remembered for the answer and the rest goes on.
Put(n) ==
  \/ created /\ table' = table \cup {n} /\ UNCHANGED faults
  \/ ~created /\ UNCHANGED <<table, faults>>
  \/ Fault /\ UNCHANGED table

ApplyLine_StopAtJunk(p, n) ==
  /\ call[p].at = "add"
  /\ n \in call[p].todo
  /\ IF call[p].todo = {n} \/ n \in Junk THEN Return(p)
     ELSE call' = [call EXCEPT ![p].todo = @ \ {n}]
  /\ IF n \in Net THEN Put(n) ELSE UNCHANGED <<table, faults>>
  /\ UNCHANGED <<list, created, wipes, boots>>

\* applyLocked: one line of the list, in an order left open.
ApplyLine(p, n) ==
  /\ call[p].at = "add"
  /\ n \in call[p].todo
  /\ IF call[p].todo = {n} THEN Return(p)
     ELSE call' = [call EXCEPT ![p].todo = @ \ {n}]
  /\ IF n \in Net THEN Put(n) ELSE UNCHANGED <<table, faults>>
  /\ UNCHANGED <<list, created, wipes, boots>>

\* ipset del: what comes of it is ignored.
Delete(p) ==
  /\ call[p].at = "del"
  /\ \/ table' = table \ call[p].todo /\ UNCHANGED faults
     \/ Fault /\ UNCHANGED table
  /\ Return(p)
  /\ UNCHANGED <<list, created, wipes, boots>>

-----------------------------------------------------------------------------

\* kvas init, an upgrade, a reboot: the table is destroyed, and made again.
DestroyTable ==
  /\ wipes > 0 /\ wipes' = wipes - 1
  /\ created' = FALSE /\ table' = {}
  /\ UNCHANGED <<list, call, faults, boots>>

CreateTable ==
  /\ ~created /\ created' = TRUE
  /\ UNCHANGED <<list, table, call, env>>

\* The service is killed between two steps of a call and started again.
Restart ==
  /\ boots > 0 /\ boots' = boots - 1
  /\ call' = [p \in Caller |-> NoCall]
  /\ UNCHANGED <<list, kernel, faults, wipes>>

Step(p) ==
  \/ SaveFails(p)
  \/ SaveAdd(p)
  \/ SaveDel(p)
  \/ \E n \in Line : ApplyLine(p, n)
  \/ Delete(p)

Request(u) ==
  \/ \E items \in SUBSET Net : Add(u, items)
  \/ \E n \in Net : Remove(u, n)

Next ==
  \/ \E u \in Users : Request(u)
  \/ Apply
  \/ \E p \in Caller : Step(p)
  \/ DestroyTable
  \/ CreateTable
  \/ Restart

Spec == Init /\ [][Next]_vars

\* ipset and the file system answer, and the ticker of KeepApplied ticks.
FairSpec ==
  /\ Spec
  /\ \A p \in Caller : WF_vars(Step(p))
  /\ WF_vars(Apply)

-----------------------------------------------------------------------------
(***************************************************************************)
(* Properties                                                              *)
(***************************************************************************)

\* A network of the table that is not listed is about to be deleted: no tick
\* of KeepApplied brings back what a tab removes.  A failed ipset del and a
\* restart before it do leave such a network, until Kvas makes the table anew.
Smooth == faults = MaxFaults /\ boots = MaxBoots
OnlyListed ==
  Smooth => \A n \in table \ list :
              \E u \in Users : call[u].at = "del" /\ n \in call[u].todo

\* A line leaves the list only by a Remove of it: of two tabs that add at the
\* same time, neither takes away what the other added.
LeavesByRemove ==
  [][\A n \in list \ list' :
       \E u \in Users : call[u].at = "saveDel" /\ n \in call[u].todo]_vars

\* The table follows the file whatever fails, is wiped or restarts: what enters
\* it is listed at that very moment, and what ipset takes out no longer is,
\* though Add, Remove and KeepApplied decide by a list they read steps before.
Follower == INSTANCE KernelFollowsFile
              WITH Usable <- Net, file <- list, kernel <- table
FollowsFile == Follower!Spec

\* Whatever failed, was wiped or restarted, once Kvas has its table and the
\* tabs are quiet every usable network of the list is in it to stay, an
\* unusable line beside it or not.
Undisturbed == created /\ \A u \in Users : call[u].at = "idle"
Kept == <>[]Undisturbed => <>[](list \cap Net \subseteq table)
=============================================================================
