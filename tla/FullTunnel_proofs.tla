-------------------------- MODULE FullTunnel_proofs --------------------------
(***************************************************************************)
(* Proofs about FullTunnel for any devices, tabs and bounds.  IInv says    *)
(* that the mutex admits one call, and that the call that is about to add  *)
(* the hook has seen none, or has been deceived by a run that failed, or   *)
(* by a rebuild on the fly.                                                *)
(* Requests says what a request that moves an address has still to do, and *)
(* holds while requests take turns; ChainInv says how far the chain of a   *)
(* running call has come, and holds whatever happens.                      *)
(***************************************************************************)
EXTENDS FullTunnel, TLAPS, WellFoundedInduction

\* The failures and the rebuilds so far.
Spent == (MaxFaults - faults) + (MaxWipes - wipes)

Numbers ==
  /\ hooks \in Nat /\ lost \in Nat
  /\ faults \in Nat /\ faults <= MaxFaults
  /\ wipes \in Nat /\ wipes <= MaxWipes
  /\ lost <= Spent
Frames == DOMAIN call = Caller /\ \A p \in Caller : "at" \in DOMAIN call[p]
Mutex == \A p, q \in Caller :
           call[p].at # "idle" /\ call[q].at # "idle" => p = q
AboutToHook == \A p \in Caller : call[p].at = "hook" => hooks + lost <= Spent

IInv == Numbers /\ Frames /\ Mutex /\ AboutToHook /\ FewCopies

-----------------------------------------------------------------------------

\* At the start nobody is in a call and there is no hook.
LEMMA InitOK == Init => IInv
  BY RoutesAssumption, FullTunnelAssumption
  DEF Init, IInv, Spent, Numbers, Frames, Mutex, AboutToHook, FewCopies, NoCall

\* A step that leaves the hooks alone, spends at most a fault and moves the
\* one call there is, to "hook" only if AboutToHook allows it.
LEMMA Quietly ==
  ASSUME IInv, NEW p \in Caller,
         call[p].at # "idle",
         hooks' \in Nat, hooks' <= hooks,
         faults' = faults \/ Fault,
         UNCHANGED <<wipes, lost>>,
         DOMAIN call' = Caller,
         "at" \in DOMAIN call'[p],
         \A q \in Caller \ {p} : call'[q] = call[q],
         call'[p].at = "hook" => hooks' + lost <= Spent'
  PROVE  IInv'
  <1>1. faults' \in Nat /\ faults' <= faults
    BY DEF Fault, IInv, Numbers
  <1>2. Numbers' /\ FewCopies'
    <2> DEFINE h == hooks'
               f == faults'
               m == MaxWipes - wipes
    <2>1. h \in Nat /\ h <= hooks /\ f \in Nat /\ f <= faults
      BY <1>1
    <2>2. /\ hooks \in Nat /\ faults \in Nat /\ faults <= MaxFaults /\ MaxFaults \in Nat
          /\ lost \in Nat /\ m \in Int
          /\ lost <= (MaxFaults - faults) + m
          /\ hooks + lost <= 1 + (MaxFaults - faults) + m
      BY RoutesAssumption, FullTunnelAssumption DEF IInv, Numbers, FewCopies, Spent
    <2> HIDE DEF h, f, m
    <2>3. /\ f <= MaxFaults /\ lost <= (MaxFaults - f) + m
          /\ h + lost <= 1 + (MaxFaults - f) + m
      BY <2>1, <2>2
    <2>4. wipes \in Nat /\ wipes <= MaxWipes /\ lost \in Nat
      BY DEF IInv, Numbers
    <2> QED
      BY <2>1, <2>3, <2>4 DEF Numbers, FewCopies, Spent, h, f, m
  <1>3. Frames'
    BY DEF IInv, Frames
  <1>4. \A q \in Caller \ {p} : call[q].at = "idle" /\ call'[q].at = "idle"
    BY DEF IInv, Mutex
  <1>5. Mutex'
    BY <1>4 DEF Mutex
  <1>6. AboutToHook'
    BY <1>4 DEF AboutToHook
  <1> QED
    BY <1>2, <1>3, <1>5, <1>6 DEF IInv

\* Whoever runs iptables holds the mutex; only AddHook makes a hook.
LEMMA StepKeeps ==
  ASSUME IInv, NEW p \in Caller, Step(p)
  PROVE  IInv'
  <1> USE DEF Outcome
  <1>1. ASSUME NEW o \in BOOLEAN, LanIface(p, o) PROVE IInv'
    BY <1>1, Quietly DEF LanIface, Goto, Abort, NoCall, kernel, IInv, Numbers, Frames
  <1>2. ASSUME NEW o \in BOOLEAN, HookPresent(p, o) PROVE IInv'
    <2>1. /\ call[p].at # "idle" /\ hooks' = hooks /\ hooks \in Nat
          /\ faults' = faults \/ Fault
          /\ UNCHANGED <<wipes, lost>>
          /\ DOMAIN call' = Caller /\ "at" \in DOMAIN call'[p]
          /\ \A q \in Caller \ {p} : call'[q] = call[q]
      BY <1>2 DEF HookPresent, Goto, Abort, Done, NoCall, kernel, IInv, Numbers, Frames
    <2>2. ASSUME call'[p].at = "hook" PROVE hooks + lost <= Spent'
      <3>1. o = FALSE \/ hooks = 0
        BY <1>2, <2>2 DEF HookPresent, Goto, Abort, Done, NoCall, IInv, Numbers, Frames
      <3>2. CASE o = FALSE
        BY <1>2, <3>2, RoutesAssumption, FullTunnelAssumption
        DEF HookPresent, Fault, IInv, Numbers, FewCopies, Spent
      <3>3. CASE o = TRUE
        BY <1>2, <3>1, <3>3 DEF HookPresent, IInv, Numbers, Spent
      <3> QED
        BY <3>2, <3>3
    <2> QED
      BY <2>1, <2>2, Quietly
  <1>3. ASSUME NEW o \in BOOLEAN, MatchRules(p, o) PROVE IInv'
    BY <1>3, Quietly DEF MatchRules, Goto, Done, Abort, NoCall, kernel, IInv, Numbers, Frames
  <1>4. ASSUME NEW o \in BOOLEAN, NewChain(p, o) PROVE IInv'
    BY <1>4, Quietly DEF NewChain, Goto, IInv, Numbers, Frames
  <1>5. ASSUME NEW o \in BOOLEAN, FlushChain(p, o) PROVE IInv'
    BY <1>5, Quietly DEF FlushChain, Goto, Abort, NoCall, IInv, Numbers, Frames
  <1>6. ASSUME NEW o \in BOOLEAN, AddRule(p, o) PROVE IInv'
    <2>1. /\ call[p].at = "fill" /\ hooks' = hooks /\ hooks \in Nat
          /\ faults' = faults \/ Fault
          /\ UNCHANGED <<wipes, lost>>
      BY <1>6 DEF AddRule, IInv, Numbers
    <2>2. /\ DOMAIN call' = Caller /\ "at" \in DOMAIN call'[p]
          /\ \A q \in Caller \ {p} : call'[q] = call[q]
          /\ call'[p].at # "hook"
      <3>1. CASE Abort(p)
        BY <3>1 DEF Abort, NoCall, IInv, Frames
      <3>2. CASE \E n, l : l # "hook" /\ call' = [call EXCEPT ![p].n = n, ![p].at = l]
        BY <3>2 DEF IInv, Frames
      <3> QED
        BY <1>6, <3>1, <3>2 DEF AddRule
    <2> QED
      BY <2>1, <2>2, Quietly
  <1>7. ASSUME NEW o \in BOOLEAN, AddHook(p, o) PROVE IInv'
    <2>1. /\ call[p].at = "hook" /\ hooks \in Nat
          /\ faults' = faults \/ Fault
          /\ UNCHANGED <<wipes, lost>>
          /\ DOMAIN call' = Caller /\ "at" \in DOMAIN call'[p]
          /\ \A q \in Caller \ {p} : call'[q] = call[q]
          /\ call'[p].at # "hook"
      BY <1>7 DEF AddHook, Goto, Done, Abort, NoCall, IInv, Numbers, Frames
    <2>2. CASE hooks' = hooks
      BY <2>1, <2>2, Quietly
    <2>3. CASE hooks' = hooks + 1 /\ faults' = faults
      <3>1. hooks + lost <= Spent
        BY <2>1 DEF IInv, AboutToHook
      <3>2. Numbers' /\ FewCopies'
        BY <2>1, <2>3, <3>1, RoutesAssumption, FullTunnelAssumption
        DEF IInv, Numbers, FewCopies, Spent
      <3>3. \A q \in Caller \ {p} : call'[q].at = "idle"
        BY <2>1 DEF IInv, Mutex
      <3>4. Frames' /\ Mutex' /\ AboutToHook'
        BY <2>1, <3>3 DEF IInv, Frames, Mutex, AboutToHook
      <3> QED
        BY <3>2, <3>4 DEF IInv
    <2> QED
      BY <1>7, <2>2, <2>3 DEF AddHook
  <1>8. ASSUME NEW o \in BOOLEAN, Unhook(p, o) PROVE IInv'
    BY <1>8, Quietly DEF Unhook, Abort, NoCall, IInv, Numbers, Frames
  <1>9. ASSUME NEW o \in BOOLEAN, EmptyChain(p, o) PROVE IInv'
    BY <1>9, Quietly DEF EmptyChain, Goto, IInv, Numbers, Frames
  <1>10. ASSUME NEW o \in BOOLEAN, DeleteChain(p, o) PROVE IInv'
    BY <1>10, Quietly DEF DeleteChain, Goto, Done, Abort, NoCall, IInv, Numbers, Frames
  <1>11. ASSUME NEW o \in BOOLEAN, SaveChoice(p, o) PROVE IInv'
    BY <1>11, Quietly DEF SaveChoice, Abort, NoCall, kernel, IInv, Numbers, Frames
  <1> QED
    BY <1>1, <1>2, <1>3, <1>4, <1>5, <1>6, <1>7, <1>8, <1>9, <1>10, <1>11 DEF Step

\* Every step keeps the invariant.
LEMMA NextKeeps == IInv /\ [Next]_vars => IInv'
  <1> SUFFICES ASSUME IInv, [Next]_vars PROVE IInv'
    OBVIOUS
  <1> USE RoutesAssumption, FullTunnelAssumption DEF Spent
  <1>1. ASSUME NEW u \in Users, NEW on \in BOOLEAN, SetMode(u, on) PROVE IInv'
    BY <1>1 DEF SetMode, Unlocked, Caller, NoCall, kernel, IInv, Numbers, Frames,
                Mutex, AboutToHook, FewCopies
  <1>2. CASE Restore
    BY <1>2 DEF Restore, Unlocked, Caller, NoCall, kernel, IInv, Numbers, Frames,
                Mutex, AboutToHook, FewCopies
  <1>3. ASSUME NEW p \in Caller, Step(p) PROVE IInv'
    BY <1>3, StepKeeps
  <1>4. ASSUME NEW t \in Tabs, RouteRequest(t) \/ RouteStep(t), Rules PROVE IInv'
    <2>1. faults' = faults \/ Fault
      BY <1>4 DEF RouteRequest, RouteStep, RouteAdd, RouteDel, ClearOther,
                  OthersCleared, SetRead, SetWrite, SetFails
    <2> QED
      BY <1>4, <2>1 DEF Rules, kernel, Fault, IInv, Numbers, Frames, Mutex,
                        AboutToHook, FewCopies
  <1>5. CASE Wipe
    BY <1>5 DEF Wipe, routes, IInv, Numbers, Frames, Mutex, AboutToHook, FewCopies
  <1>6. CASE PutBack
    <2>1. /\ lost' = 0 /\ UNCHANGED <<faults, wipes, call>>
          /\ hooks' \in Nat /\ hooks' <= hooks + lost
      BY <1>6 DEF PutBack, routes, IInv, Numbers
    <2> QED
      BY <2>1 DEF IInv, Numbers, Frames, Mutex, AboutToHook, FewCopies
  <1>7. CASE KvasMarks
    BY <1>7 DEF KvasMarks, routes, IInv, Numbers, Frames, Mutex, AboutToHook, FewCopies
  <1>8. CASE Restart
    BY <1>8 DEF Restart, NoCall, kernel, Fault, IInv, Numbers, Frames, Mutex,
                AboutToHook, FewCopies
  <1>9. CASE UNCHANGED vars
    BY <1>9 DEF vars, IInv, Numbers, Frames, Mutex, AboutToHook, FewCopies
  <1> QED
    BY <1>1, <1>2, <1>3, <1>4, <1>5, <1>6, <1>7, <1>8, <1>9 DEF Next

\* However often the table is wiped and the choice changed, by any number of
\* tabs, the hook is in PREROUTING once, and once more at most for every run
\* of a command that failed and every rebuild of the table, those included that
\* a rebuild on the fly is about to put back.
THEOREM HooksDoNotPileUp == Spec => []FewCopies
  BY InitOK, NextKeeps, PTL DEF Spec, IInv

-----------------------------------------------------------------------------
(***************************************************************************)
(* Leaving an address out of a list                                        *)
(***************************************************************************)

\* A set of numbers that has one has a least one.
LEMMA Least ==
  ASSUME NEW S \in SUBSET Nat, S # {}
  PROVE  \E n \in S : \A m \in S : n <= m
<1>1. PICK n \in S : \A m \in S : <<m, n>> \notin OpToRel(<, Nat)
  BY NatLessThanWellFounded, WFMin
<1>2. \A m \in S : ~(m < n)
  BY <1>1 DEF OpToRel
<1> QED
  BY <1>2

\* The loop of Without on the first n items.
Loop(items, ip, n, out) ==
  [m \in 0..n |->
     IF m = 0 THEN <<>>
     ELSE IF items[m] = ip THEN out[m - 1] ELSE Append(out[m - 1], items[m])]

\* The loop runs to its end.
LEMMA LoopRuns ==
  ASSUME NEW items, NEW ip, NEW end \in Nat
  PROVE  \E out : out = Loop(items, ip, end, out)
<1> DEFINE Stuck == {n \in Nat : ~ \E out : out = Loop(items, ip, n, out)}
<1> SUFFICES ASSUME Stuck # {} PROVE FALSE
  OBVIOUS
<1>1. PICK n \in Stuck : \A m \in Stuck : n <= m
  <2> HIDE DEF Stuck
  <2> Stuck \in SUBSET Nat
    BY DEF Stuck
  <2> QED
    BY Least
<1>2. CASE n = 0
  <2> DEFINE out == [m \in 0..0 |-> <<>>]
  <2>1. out = Loop(items, ip, 0, out)
    BY DEF Loop
  <2> QED
    BY <1>2, <2>1
<1>3. CASE n # 0
  <2>1. n \in Nat /\ n - 1 \in Nat /\ n - 1 \notin Stuck
    BY <1>1, <1>3
  <2>2. PICK old : old = Loop(items, ip, n - 1, old)
    BY <2>1
  <2> DEFINE next == IF items[n] = ip THEN old[n - 1] ELSE Append(old[n - 1], items[n])
             out == [m \in 0..n |-> IF m = n THEN next ELSE old[m]]
  <2>3. \A m \in 0..n - 1 : old[m] =
          IF m = 0 THEN <<>>
          ELSE IF items[m] = ip THEN old[m - 1] ELSE Append(old[m - 1], items[m])
    BY <2>2 DEF Loop
  <2>4. \A m \in 0..n - 1 : out[m] = old[m]
    BY <2>1
  <2>5. \A m \in 0..n : out[m] =
          IF m = 0 THEN <<>>
          ELSE IF items[m] = ip THEN out[m - 1] ELSE Append(out[m - 1], items[m])
    <3> SUFFICES ASSUME NEW m \in 0..n
                 PROVE  out[m] =
                   IF m = 0 THEN <<>>
                   ELSE IF items[m] = ip THEN out[m - 1] ELSE Append(out[m - 1], items[m])
      OBVIOUS
    <3>1. CASE m = n
      <4>1. out[n] = next /\ out[n - 1] = old[n - 1]
        BY <2>1, <2>4
      <4> QED
        BY <1>3, <3>1, <4>1
    <3>2. CASE m # n
      <4>1. m \in 0..n - 1 /\ (m # 0 => m - 1 \in 0..n - 1)
        BY <2>1, <3>2
      <4> QED
        BY <2>3, <2>4, <4>1
    <3> QED
      BY <3>1, <3>2
  <2>6. out = Loop(items, ip, n, out)
    <3> HIDE DEF next
    <3> DEFINE F == [m \in 0..n |->
                     IF m = 0 THEN <<>>
                     ELSE IF items[m] = ip THEN out[m - 1] ELSE Append(out[m - 1], items[m])]
    <3>1. DOMAIN out = 0..n /\ DOMAIN F = 0..n /\ \A m \in 0..n : out[m] = F[m]
      BY <2>5
    <3>2. out = F
      <4> HIDE DEF F
      <4>1. out = [m \in 0..n |-> out[m]]
        OBVIOUS
      <4>2. F = [m \in 0..n |-> F[m]]
        BY DEF F
      <4> HIDE DEF out
      <4> QED
        BY <3>1, <4>1, <4>2
    <3> QED
      BY <3>2 DEF Loop
  <2> QED
    BY <2>1, <2>6
<1> QED
  BY <1>2, <1>3

\* Without leaves out an address and keeps the others.
LEMMA WithoutKeeps ==
  ASSUME NEW D, NEW items \in Seq(D), NEW ip
  PROVE  /\ Without(items, ip) \in Seq(D)
         /\ ~Contains(Without(items, ip), ip)
         /\ \A x : x # ip => (Contains(Without(items, ip), x) <=> Contains(items, x))
<1> DEFINE end == Len(items)
<1>1. end \in Nat /\ \A n \in 1..end : items[n] \in D
  OBVIOUS
<1> DEFINE out == CHOOSE o : o = Loop(items, ip, end, o)
<1>2. Without(items, ip) = out[end]
  BY DEF Without, Loop
<1>3. out = Loop(items, ip, end, out)
  BY <1>1, LoopRuns
<1>4. \A n \in 0..end : out[n] =
        IF n = 0 THEN <<>>
        ELSE IF items[n] = ip THEN out[n - 1] ELSE Append(out[n - 1], items[n])
  <2> HIDE DEF out, end
  <2> QED
    BY <1>3 DEF Loop
<1> HIDE DEF out, end
<1> DEFINE Good(n) ==
      /\ out[n] \in Seq(D)
      /\ \A x : (\E i \in 1..Len(out[n]) : out[n][i] = x)
                  <=> x # ip /\ \E i \in 1..n : items[i] = x
<1>5. Good(0)
  <2>1. out[0] = <<>>
    BY <1>1, <1>4
  <2> DEFINE first == out[0]
  <2>2. first \in Seq(D) /\ Len(first) = 0
    BY <2>1
  <2> HIDE DEF first
  <2>3. 1..Len(first) = {} /\ 1..0 = {}
    BY <2>2
  <2> QED
    BY <2>2, <2>3 DEF first
<1>6. ASSUME NEW n \in 1..end, Good(n - 1) PROVE Good(n)
  <2>1. n \in 0..end /\ n # 0 /\ n - 1 \in Nat /\ n \in Nat /\ items[n] \in D
    BY <1>1
  <2>2. \A x : (\E i \in 1..n : items[i] = x)
                 <=> items[n] = x \/ \E i \in 1..n - 1 : items[i] = x
    <3>1. 1..n = (1..n - 1) \cup {n}
      BY <2>1
    <3> QED
      BY <3>1
  <2>3. CASE items[n] = ip
    BY <1>4, <1>6, <2>1, <2>2, <2>3
  <2>4. CASE items[n] # ip
    <3> DEFINE old == out[n - 1]
               it == items[n]
    <3>1. out[n] = Append(old, it)
      BY <1>4, <2>1, <2>4
    <3>2. old \in Seq(D) /\ it \in D
      BY <1>6, <2>1
    <3>3. \A x : (\E i \in 1..Len(old) : old[i] = x)
                   <=> x # ip /\ \E i \in 1..n - 1 : items[i] = x
      BY <1>6
    <3> HIDE DEF old
    <3>4. /\ Append(old, it) \in Seq(D)
          /\ Len(Append(old, it)) = Len(old) + 1
          /\ Append(old, it)[Len(old) + 1] = it
          /\ \A i \in 1..Len(old) : Append(old, it)[i] = old[i]
      BY <3>2
    <3>5. \A x : (\E i \in 1..Len(out[n]) : out[n][i] = x)
                   <=> it = x \/ \E i \in 1..Len(old) : old[i] = x
      <4>1. Len(old) \in Nat /\ 1..Len(old) + 1 = (1..Len(old)) \cup {Len(old) + 1}
        BY <3>2
      <4> QED
        BY <3>1, <3>4, <4>1
    <3> QED
      BY <2>2, <2>4, <3>1, <3>3, <3>4, <3>5
  <2> QED
    BY <2>3, <2>4
<1>7. Good(end)
  <2> DEFINE Bad == {n \in Nat : n <= end /\ ~Good(n)}
  <2> HIDE DEF Good
  <2> SUFFICES ASSUME Bad # {} PROVE FALSE
    BY <1>1
  <2>1. PICK n \in Bad : \A m \in Bad : n <= m
    <3>1. Bad \in SUBSET Nat
      OBVIOUS
    <3> HIDE DEF Bad
    <3> QED
      BY <3>1, Least
  <2>2. n # 0
    BY <1>5
  <2>3. n \in 1..end /\ n - 1 \in Nat /\ n - 1 <= end /\ n - 1 \notin Bad
    BY <1>1, <2>1, <2>2
  <2>4. Good(n - 1)
    BY <2>3
  <2>5. Good(n)
    BY <1>6, <2>3, <2>4
  <2> QED
    BY <2>5
<1> QED
  BY <1>2, <1>1, <1>7 DEF Contains, end

-----------------------------------------------------------------------------
(***************************************************************************)
(* The device rules                                                        *)
(***************************************************************************)

\* The lists name devices, and so does a request.
RoutesOK ==
  /\ conf \in File
  /\ req \in [Tabs -> Request]
  /\ \A t \in Tabs : req[t].at # "idle" => req[t].ip \in Device

\* The values the lists and the requests begin with are of their types.
LEMMA NobodyRequests ==
  /\ NoRequest \in Request /\ Blank \in File
  /\ NoRequest.at = "idle"
  BY RoutesAssumption DEF NoRequest, Request, Blank, File

\* The requests, and the file they write, stay what they are.
LEMMA RoutesTypes ==
  ASSUME RoutesOK, NEW t \in Tabs, RouteRequest(t) \/ RouteStep(t)
  PROVE  RoutesOK'
  <1> USE NobodyRequests
  <1>1. \A k \in RouteKey : conf[k] \in Seq(Device) /\ \A ip : Without(conf[k], ip) \in Seq(Device)
    BY WithoutKeeps DEF RoutesOK, File
  <1>2. req[t] \in Request /\ (req[t].at # "idle" => req[t].ip \in Device)
    BY DEF RoutesOK
  <1>3. ASSUME conf' = conf, NEW new \in Request, req' = [req EXCEPT ![t] = new],
               new.at # "idle" => new.ip \in Device
        PROVE  RoutesOK'
    BY <1>3 DEF RoutesOK
  <1>4. ASSUME NEW type \in RouteKey, NEW ip \in Edited,
               RouteAdd(t, type, ip) \/ RouteDel(t, type, ip)
        PROVE  RoutesOK'
    <2>1. ip \in Device /\ conf' = conf
      BY <1>4, RoutesAssumption DEF RouteAdd, RouteDel
    <2>2. CASE RouteAdd(t, type, ip)
      <3> DEFINE new == [NoRequest EXCEPT !.at = "others", !.type = type, !.ip = ip,
                           !.items = conf[type], !.todo = RouteKey \ {type}]
      <3>1. new \in Request /\ new.ip \in Device
        BY <1>1, <2>1 DEF Request
      <3>2. req' = [req EXCEPT ![t] = new]
        BY <2>2 DEF RouteAdd
      <3> HIDE DEF new
      <3> QED
        BY <1>3, <2>1, <3>1, <3>2
    <2>3. CASE RouteDel(t, type, ip)
      <3> DEFINE new == [NoRequest EXCEPT !.at = "read", !.type = type, !.ip = ip,
                           !.key = type, !.value = Without(conf[type], ip)]
      <3>1. new \in Request /\ new.ip \in Device
        BY <1>1, <2>1 DEF Request
      <3>2. req' = [req EXCEPT ![t] = new]
        BY <2>3 DEF RouteDel
      <3> HIDE DEF new
      <3> QED
        BY <1>3, <2>1, <3>1, <3>2
    <2> QED
      BY <1>4, <2>2, <2>3
  <1>5. ASSUME NEW k \in RouteKey, ClearOther(t, k)
        PROVE  RoutesOK'
    <2> DEFINE old == req[t]
               cleared == [old EXCEPT !.todo = @ \ {k}, !.at = "read", !.key = k,
                                      !.value = Without(conf[k], old.ip)]
               passed == [old EXCEPT !.todo = @ \ {k}]
    <2>1. old \in Request /\ old.ip \in Device /\ conf' = conf
      BY <1>2, <1>5 DEF ClearOther
    <2>2. req' = [req EXCEPT ![t] = cleared] \/ req' = [req EXCEPT ![t] = passed]
      <3>1. CASE Contains(conf[k], old.ip)
        BY <1>5, <3>1 DEF ClearOther, RoutesOK
      <3>2. CASE ~Contains(conf[k], old.ip)
        BY <1>5, <3>2 DEF ClearOther, RoutesOK
      <3> QED
        BY <3>1, <3>2
    <2> HIDE DEF old
    <2>3. cleared \in Request /\ cleared.ip \in Device
      BY <1>1, <2>1 DEF Request
    <2>4. passed \in Request /\ passed.ip \in Device
      BY <2>1 DEF Request
    <2> HIDE DEF cleared, passed
    <2> QED
      BY <1>3, <2>1, <2>2, <2>3, <2>4
  <1>6. CASE OthersCleared(t)
    <2> DEFINE old == req[t]
               new == [old EXCEPT !.at = "read", !.key = old.type,
                                  !.value = Append(old.items, old.ip)]
    <2>1. old \in Request /\ old.ip \in Device /\ conf' = conf
      BY <1>2, <1>6 DEF OthersCleared
    <2>2. req' = [req EXCEPT ![t] = new]
      BY <1>6 DEF OthersCleared, RoutesOK
    <2> HIDE DEF old
    <2>3. Append(old.items, old.ip) \in Seq(Device) /\ old.type \in RouteKey
      BY <2>1 DEF Request
    <2>4. new \in Request /\ new.ip \in Device
      BY <2>1, <2>3 DEF Request
    <2> HIDE DEF new
    <2> QED
      BY <1>3, <2>1, <2>2, <2>4
  <1>7. CASE SetRead(t)
    <2> DEFINE old == req[t]
               new == [old EXCEPT !.at = "write", !.data = conf]
    <2>1. old \in Request /\ old.ip \in Device /\ conf' = conf /\ conf \in File
      BY <1>2, <1>7 DEF SetRead, RoutesOK
    <2>2. req' = [req EXCEPT ![t] = new]
      BY <1>7 DEF SetRead, RoutesOK
    <2> HIDE DEF old
    <2>3. new \in Request /\ new.ip \in Device
      BY <2>1 DEF Request
    <2> HIDE DEF new
    <2> QED
      BY <1>3, <2>1, <2>2, <2>3
  <1>8. CASE SetWrite(t)
    <2> DEFINE old == req[t]
               new == [old EXCEPT !.at = "others", !.value = <<>>, !.data = Blank]
    <2>1. old \in Request /\ old.ip \in Device
      BY <1>2, <1>8 DEF SetWrite
    <2>2. /\ req' = [req EXCEPT ![t] = NoRequest] \/ req' = [req EXCEPT ![t] = new]
          /\ conf' = [old.data EXCEPT ![old.key] = old.value]
      BY <1>8 DEF SetWrite
    <2> HIDE DEF old
    <2>3. new \in Request /\ new.ip \in Device
      <3>1. <<>> \in Seq(Device)
        OBVIOUS
      <3> HIDE DEF Blank
      <3> QED
        BY <2>1, <3>1 DEF Request
    <2>4. old.data \in [RouteKey -> Seq(Device)] /\ old.value \in Seq(Device)
      BY <2>1 DEF Request, File
    <2>5. conf' \in File
      BY <2>2, <2>4 DEF File
    <2> HIDE DEF new
    <2> QED
      BY <2>2, <2>3, <2>5 DEF RoutesOK
  <1>9. CASE SetFails(t)
    BY <1>3, <1>9 DEF SetFails
  <1> QED
    BY <1>4, <1>5, <1>6, <1>7, <1>8, <1>9 DEF RouteRequest, RouteStep

\* The tabs take turns: one request at a time.
TakeTurns == \A s, t \in Tabs :
               req[s].at # "idle" /\ req[t].at # "idle" => s = t

\* What a request has done so far.  What it read of its own list still stands;
\* the address is out of the lists that had their turn; what it is about to
\* write differs from the list in the file by the address.
Underway(r) ==
  /\ r.at = "others" \/ (r.at \in {"read", "write"} /\ r.key # r.type) =>
       /\ r.items = conf[r.type] /\ ~Contains(conf[r.type], r.ip)
       /\ r.type \notin r.todo
  /\ r.at = "others" =>
       \A k \in RouteKey : k \notin r.todo => ~Contains(conf[k], r.ip)
  /\ r.at \in {"read", "write"} =>
       /\ \A ip \in Device \ {r.ip} :
            Contains(r.value, ip) <=> Contains(conf[r.key], ip)
       /\ r.key = r.type /\ Contains(r.value, r.ip) =>
            \A k \in RouteKey \ {r.type} : ~Contains(conf[k], r.ip)
       /\ r.key # r.type =>
            /\ ~Contains(r.value, r.ip) /\ r.key \notin r.todo
            /\ \A k \in RouteKey \ {r.key} : k \notin r.todo => ~Contains(conf[k], r.ip)
  /\ r.at = "write" => r.data = conf

Requests == RoutesOK /\ \A t \in Tabs : Underway(req[t])

\* A request goes on and the file stays as it is.
LEMMA GoesOn ==
  ASSUME Requests, RoutesOK', conf' = conf, NEW t \in Tabs, NEW new,
         req' = [req EXCEPT ![t] = new], Underway(new)
  PROVE  Requests'
  <1>1. \A r : Underway(r) => Underway(r)'
    BY DEF Underway
  <1>2. \A s \in Tabs : req'[s] = req[s] \/ req'[s] = new
    BY DEF Requests, RoutesOK
  <1>3. ASSUME NEW s \in Tabs PROVE Underway(req[s])'
    <2>1. Underway(req'[s])
      BY <1>2 DEF Requests
    <2> QED
      BY <2>1 DEF Underway
  <1> QED
    BY <1>3 DEF Requests

\* Every step of a request does what Underway says.
LEMMA RequestKeeps ==
  ASSUME Requests, TakeTurns, NEW t \in Tabs, RouteRequest(t) \/ RouteStep(t)
  PROVE  Requests'
  <1>1. RoutesOK /\ RoutesOK' /\ Underway(req[t])
    BY RoutesTypes DEF Requests
  <1>2. \A k \in RouteKey : conf[k] \in Seq(Device)
    BY <1>1 DEF RoutesOK, File
  <1>3. \A k \in RouteKey : \A ip :
          /\ ~Contains(Without(conf[k], ip), ip)
          /\ \A x : x # ip => (Contains(Without(conf[k], ip), x) <=> Contains(conf[k], x))
    BY <1>2, WithoutKeeps
  <1>4. ASSUME NEW type \in RouteKey, NEW ip \in Edited, RouteAdd(t, type, ip)
        PROVE  Requests'
    <2> DEFINE new == [NoRequest EXCEPT !.at = "others", !.type = type, !.ip = ip,
                         !.items = conf[type], !.todo = RouteKey \ {type}]
    <2>1. conf' = conf /\ req' = [req EXCEPT ![t] = new] /\ ~Contains(conf[type], ip)
      BY <1>4 DEF RouteAdd
    <2>2. Underway(new)
      BY <2>1, NobodyRequests DEF Underway, Request
    <2> HIDE DEF new
    <2> QED
      BY <1>1, <2>1, <2>2, GoesOn
  <1>5. ASSUME NEW type \in RouteKey, NEW ip \in Edited, RouteDel(t, type, ip)
        PROVE  Requests'
    <2> DEFINE new == [NoRequest EXCEPT !.at = "read", !.type = type, !.ip = ip,
                         !.key = type, !.value = Without(conf[type], ip)]
    <2>1. conf' = conf /\ req' = [req EXCEPT ![t] = new]
      BY <1>5 DEF RouteDel
    <2>2. Underway(new)
      BY <1>3, NobodyRequests DEF Underway, Request
    <2> HIDE DEF new
    <2> QED
      BY <1>1, <2>1, <2>2, GoesOn
  <1> DEFINE old == req[t]
  <1>6. old \in Request
    BY <1>1 DEF RoutesOK
  <1>7. ASSUME NEW k \in RouteKey, ClearOther(t, k)
        PROVE  Requests'
    <2> DEFINE cleared == [old EXCEPT !.todo = @ \ {k}, !.at = "read", !.key = k,
                                      !.value = Without(conf[k], old.ip)]
               passed == [old EXCEPT !.todo = @ \ {k}]
    <2>1. conf' = conf /\ old.at = "others" /\ k \in old.todo
      BY <1>7 DEF ClearOther
    <2>2. CASE Contains(conf[k], old.ip)
      <3>1. req' = [req EXCEPT ![t] = cleared]
        BY <1>1, <1>7, <2>2 DEF ClearOther, RoutesOK
      <3>2. Underway(old)
        BY <1>1
      <3> HIDE DEF old
      <3>3. /\ cleared.at = "read" /\ cleared.key = k /\ cleared.type = old.type
            /\ cleared.ip = old.ip /\ cleared.items = old.items
            /\ cleared.todo = old.todo \ {k} /\ cleared.value = Without(conf[k], old.ip)
        BY <1>6 DEF Request
      <3> HIDE DEF cleared
      <3>4. /\ k # old.type /\ old.items = conf[old.type]
            /\ ~Contains(conf[old.type], old.ip) /\ old.type \notin old.todo
            /\ \A j \in RouteKey : j \notin old.todo => ~Contains(conf[j], old.ip)
        BY <2>1, <3>2 DEF Underway
      <3>5. /\ ~Contains(cleared.value, old.ip)
            /\ \A x : x # old.ip => (Contains(cleared.value, x) <=> Contains(conf[k], x))
        <4>1. \A ip :
                /\ ~Contains(Without(conf[k], ip), ip)
                /\ \A x : x # ip => (Contains(Without(conf[k], ip), x) <=> Contains(conf[k], x))
          BY <1>3
        <4> QED
          BY <3>3, <4>1
      <3>6. Underway(cleared)
        BY <3>3, <3>4, <3>5 DEF Underway
      <3> QED
        BY <1>1, <2>1, <3>1, <3>6, GoesOn
    <2>3. CASE ~Contains(conf[k], old.ip)
      <3>1. req' = [req EXCEPT ![t] = passed]
        BY <1>1, <1>7, <2>3 DEF ClearOther, RoutesOK
      <3>2. Underway(old)
        BY <1>1
      <3> HIDE DEF old
      <3>3. /\ passed.at = old.at /\ passed.key = old.key /\ passed.type = old.type
            /\ passed.ip = old.ip /\ passed.items = old.items
            /\ passed.todo = old.todo \ {k}
        BY <1>6 DEF Request
      <3> HIDE DEF passed
      <3>4. Underway(passed)
        BY <2>1, <2>3, <3>2, <3>3 DEF Underway
      <3> QED
        BY <1>1, <2>1, <3>1, <3>4, GoesOn
    <2> QED
      BY <2>2, <2>3
  <1>8. CASE OthersCleared(t)
    <2> DEFINE new == [old EXCEPT !.at = "read", !.key = old.type,
                                  !.value = Append(old.items, old.ip)]
    <2>1. conf' = conf /\ old.at = "others" /\ old.todo = {}
      BY <1>8 DEF OthersCleared
    <2>2. req' = [req EXCEPT ![t] = new]
      BY <1>1, <1>8 DEF OthersCleared, RoutesOK
    <2>3. Underway(old) /\ old.ip \in Device
      BY <1>1, <2>1 DEF RoutesOK
    <2> HIDE DEF old
    <2>4. /\ new.at = "read" /\ new.key = old.type /\ new.type = old.type
          /\ new.ip = old.ip /\ new.todo = {} /\ new.value = Append(old.items, old.ip)
      BY <1>6, <2>1 DEF Request
    <2> HIDE DEF new
    <2>5. \A x \in Device \ {old.ip} :
            Contains(Append(old.items, old.ip), x) <=> Contains(old.items, x)
      <3> DEFINE list == old.items
                 ip == old.ip
      <3>1. list \in Seq(Device) /\ ip \in Device
        BY <1>6, <2>3 DEF Request
      <3> HIDE DEF list, ip
      <3>2. Len(Append(list, ip)) = Len(list) + 1 /\ Append(list, ip)[Len(list) + 1] = ip
            /\ \A i \in 1..Len(list) : Append(list, ip)[i] = list[i]
        BY <3>1
      <3>3. Len(list) \in Nat /\ 1..Len(list) + 1 = (1..Len(list)) \cup {Len(list) + 1}
        BY <3>1
      <3>4. \A x : x # ip => (Contains(Append(list, ip), x) <=> Contains(list, x))
        BY <3>2, <3>3 DEF Contains
      <3> QED
        BY <3>4 DEF list, ip
    <2>6. Underway(new)
      BY <1>6, <2>1, <2>3, <2>4, <2>5 DEF Underway, Request
    <2> QED
      BY <1>1, <2>1, <2>2, <2>6, GoesOn
  <1>9. CASE SetRead(t)
    <2> DEFINE new == [old EXCEPT !.at = "write", !.data = conf]
    <2>1. conf' = conf /\ old.at = "read"
      BY <1>9 DEF SetRead
    <2>2. req' = [req EXCEPT ![t] = new]
      BY <1>1, <1>9 DEF SetRead, RoutesOK
    <2>3. Underway(old)
      BY <1>1
    <2> HIDE DEF old
    <2>4. /\ new.at = "write" /\ new.key = old.key /\ new.type = old.type
          /\ new.ip = old.ip /\ new.todo = old.todo /\ new.value = old.value
          /\ new.items = old.items /\ new.data = conf
      BY <1>6 DEF Request
    <2> HIDE DEF new
    <2>5. Underway(new)
      BY <2>1, <2>3, <2>4 DEF Underway
    <2> QED
      BY <1>1, <2>1, <2>2, <2>5, GoesOn
  <1>10. CASE SetWrite(t)
    <2>1. old.at = "write" /\ Underway(old)
      BY <1>1, <1>10 DEF SetWrite
    <2>2. conf' = [conf EXCEPT ![old.key] = old.value]
      BY <1>10, <2>1 DEF SetWrite, Underway
    <2>3. \A s \in Tabs \ {t} : req'[s].at = "idle"
      BY <1>10, <2>1 DEF SetWrite, TakeTurns
    <2>4. CASE old.key = old.type
      <3>1. req'[t].at = "idle"
        BY <1>1, <1>10, <2>4, NobodyRequests DEF SetWrite, RoutesOK
      <3> QED
        BY <1>1, <2>3, <3>1 DEF Requests, Underway
    <2>5. CASE old.key # old.type
      <3> DEFINE new == [old EXCEPT !.at = "others", !.value = <<>>, !.data = Blank]
      <3>1. req'[t] = new
        BY <1>1, <1>10, <2>5 DEF SetWrite, RoutesOK
      <3> HIDE DEF old
      <3>2. /\ new.at = "others" /\ new.type = old.type /\ new.ip = old.ip
            /\ new.items = old.items /\ new.todo = old.todo
            /\ old.type \in RouteKey /\ old.key \in RouteKey
        BY <1>6 DEF Request
      <3> HIDE DEF new
      <3>3. conf'[old.key] = old.value /\ \A k \in RouteKey \ {old.key} : conf'[k] = conf[k]
        BY <1>1, <2>2, <3>2 DEF RoutesOK, File
      <3>4. Underway(req[t])'
        BY <2>1, <2>5, <3>1, <3>2, <3>3 DEF Underway
      <3> QED
        BY <1>1, <2>3, <3>4 DEF Requests, Underway
    <2> QED
      BY <2>4, <2>5
  <1>11. CASE SetFails(t)
    <2>1. Underway(NoRequest)
      BY NobodyRequests DEF Underway
    <2> QED
      BY <1>1, <1>11, <2>1, GoesOn DEF SetFails
  <1> QED
    BY <1>4, <1>5, <1>7, <1>8, <1>9, <1>10, <1>11 DEF RouteRequest, RouteStep

\* Nobody has begun, and the lists are lists of devices.
LEMMA RequestsInit == Init => Requests
  BY RoutesAssumption, NobodyRequests DEF Init, Requests, RoutesOK, Underway, File

\* What else happens leaves the file alone, and a restart the requests as well.
LEMMA RoutesAlone ==
  ASSUME [Next]_vars, ~ \E t \in Tabs : RouteRequest(t) \/ RouteStep(t)
  PROVE  conf' = conf /\ (req' = req \/ req' = [t \in Tabs |-> NoRequest])
  <1>1. CASE \E u \in Users, on \in BOOLEAN : SetMode(u, on)
    BY <1>1 DEF SetMode, routes
  <1>2. CASE Restore
    BY <1>2 DEF Restore, routes
  <1>3. ASSUME NEW p \in Caller, Step(p) PROVE UNCHANGED routes
    BY <1>3 DEF Step, LanIface, HookPresent, MatchRules, NewChain, FlushChain, AddRule,
                AddHook, Unhook, EmptyChain, DeleteChain, SaveChoice
  <1>4. CASE Wipe \/ PutBack \/ KvasMarks
    BY <1>4 DEF Wipe, PutBack, KvasMarks, routes
  <1>5. CASE Restart
    BY <1>5 DEF Restart
  <1>6. CASE UNCHANGED vars
    BY <1>6 DEF vars
  <1> QED
    BY <1>1, <1>2, <1>3, <1>4, <1>5, <1>6 DEF Next, routes

\* Every step keeps the requests as Underway says, for tabs that take turns.
LEMMA RequestsKeep == Requests /\ TakeTurns /\ [Next]_vars => Requests'
  <1> SUFFICES ASSUME Requests, TakeTurns, [Next]_vars PROVE Requests'
    OBVIOUS
  <1>1. CASE \E t \in Tabs : RouteRequest(t) \/ RouteStep(t)
    BY <1>1, RequestKeeps
  <1>2. CASE ~ \E t \in Tabs : RouteRequest(t) \/ RouteStep(t)
    <2>1. conf' = conf /\ (req' = req \/ req' = [t \in Tabs |-> NoRequest])
      BY <1>2, RoutesAlone
    <2>2. CASE req' = req
      BY <2>1, <2>2 DEF Requests, RoutesOK, Underway
    <2>3. CASE req' = [t \in Tabs |-> NoRequest]
      BY <2>1, <2>3, NobodyRequests DEF Requests, RoutesOK, Underway
    <2> QED
      BY <2>1, <2>2, <2>3
  <1> QED
    BY <1>1, <1>2

\* Only SetWrite changes the file: one list, by one address.
LEMMA ListsChange ==
  ASSUME Requests, [Next]_vars, conf' # conf
  PROVE  \E t \in Tabs :
           /\ req[t].at = "write"
           /\ \A k \in RouteKey \ {req[t].key} : conf'[k] = conf[k]
           /\ conf'[req[t].key] = req[t].value /\ req[t].key \in RouteKey
  <1>1. PICK t \in Tabs : RouteRequest(t) \/ RouteStep(t)
    BY RoutesAlone
  <1>2. SetWrite(t)
    BY <1>1 DEF RouteRequest, RouteStep, RouteAdd, RouteDel, ClearOther, OthersCleared,
                SetRead, SetFails
  <1>3. req[t].at = "write" /\ conf' = [conf EXCEPT ![req[t].key] = req[t].value]
    BY <1>2 DEF SetWrite, Requests, Underway
  <1>4. req[t].key \in RouteKey /\ conf \in [RouteKey -> Seq(Device)]
    BY DEF Requests, RoutesOK, Request, File
  <1> QED
    BY <1>3, <1>4

\* An address that was in one list at most stays in one list at most, after
\* every write of every request, failure and restart, with any kinds of rule
\* and any number of tabs that take turns.
THEOREM AddressesInOneList == Spec /\ OneList /\ []TakeTurns => []OneList
  <1>1. Requests /\ OneList /\ [Next]_vars => OneList'
    <2> SUFFICES ASSUME Requests, OneList, [Next]_vars, conf' # conf PROVE OneList'
      BY DEF OneList
    <2>1. PICK t \in Tabs :
           /\ req[t].at = "write"
           /\ \A k \in RouteKey \ {req[t].key} : conf'[k] = conf[k]
           /\ conf'[req[t].key] = req[t].value /\ req[t].key \in RouteKey
      BY ListsChange
    <2> DEFINE r == req[t]
    <2>2. Underway(r) /\ r \in Request
      BY DEF Requests, RoutesOK
    <2> HIDE DEF r
    <2>3. \A k \in RouteKey, ip \in Device \ {r.ip} :
            Contains(conf'[k], ip) <=> Contains(conf[k], ip)
      BY <2>1, <2>2 DEF Underway, r
    <2>4. ASSUME NEW k \in RouteKey, Contains(conf'[k], r.ip)
          PROVE  \/ Contains(conf[k], r.ip)
                 \/ \A j \in RouteKey \ {k} : ~Contains(conf'[j], r.ip)
      <3>1. /\ r.at = "write" /\ conf'[r.key] = r.value
            /\ \A j \in RouteKey \ {r.key} : conf'[j] = conf[j]
        BY <2>1 DEF r
      <3>2. Contains(r.value, r.ip) =>
              r.key = r.type /\ \A j \in RouteKey \ {r.key} : ~Contains(conf[j], r.ip)
        BY <2>2, <3>1 DEF Underway
      <3>3. CASE k = r.key
        <4>1. Contains(r.value, r.ip)
          BY <2>4, <3>1, <3>3
        <4> QED
          BY <3>1, <3>2, <3>3, <4>1
      <3>4. CASE k # r.key
        BY <2>4, <3>1, <3>4
      <3> QED
        BY <3>3, <3>4
    <2>5. ASSUME NEW j \in RouteKey, NEW k \in RouteKey, NEW ip \in Device,
                 Contains(conf'[j], ip), Contains(conf'[k], ip)
          PROVE  j = k
      <3>1. CASE ip # r.ip
        BY <2>3, <2>5, <3>1 DEF OneList
      <3>2. CASE ip = r.ip
        BY <2>4, <2>5, <3>2 DEF OneList
      <3> QED
        BY <3>1, <3>2
    <2> QED
      BY <2>5 DEF OneList
  <1> QED
    BY <1>1, RequestsInit, RequestsKeep, PTL DEF Spec

\* A request changes the rules of no address but its own, for any number of
\* tabs that take turns.
THEOREM RulesOfOthersKept == Spec /\ []TakeTurns => OthersKept
  <1> DEFINE Kept == \A k \in RouteKey : \A ip \in Device :
               Contains(conf[k], ip) # Contains(conf'[k], ip) =>
                 \E t \in Tabs : req[t].ip = ip
  <1>1. Requests /\ [Next]_vars => [Kept]_conf
    <2> SUFFICES ASSUME Requests, [Next]_vars, conf' # conf PROVE Kept
      OBVIOUS
    <2>1. PICK t \in Tabs :
           /\ req[t].at = "write"
           /\ \A k \in RouteKey \ {req[t].key} : conf'[k] = conf[k]
           /\ conf'[req[t].key] = req[t].value /\ req[t].key \in RouteKey
      BY ListsChange
    <2>2. Underway(req[t])
      BY DEF Requests
    <2>3. \A k \in RouteKey, ip \in Device \ {req[t].ip} :
            Contains(conf'[k], ip) <=> Contains(conf[k], ip)
      BY <2>1, <2>2 DEF Underway
    <2> QED
      BY <2>3 DEF Contains
  <1> QED
    BY <1>1, RequestsInit, RequestsKeep, PTL DEF Spec, OthersKept

-----------------------------------------------------------------------------
(***************************************************************************)
(* The rules of the chain                                                  *)
(***************************************************************************)

Typed ==
  /\ RoutesOK
  /\ call \in [Caller -> Call]
  /\ chain = None \/ chain \in Seq(Rule)
  /\ choice \in BOOLEAN /\ marked \in BOOLEAN
  /\ wipes \in 0..MaxWipes

\* The mark, if it is in the list, ends it.
Ends(list) == \A i \in 1..Len(list) : list[i] = Mark => i = Len(list)

\* The call is about to record that the mode is on.
Recording(c) == c.at = "save" /\ c.on

\* What a call has done so far to a chain rules and h hooks, whole unless the
\* table was wiped.  Before it begins to fill the chain it has added no rule;
\* while it does, the chain is the beginning of what it wants; once it has, or
\* has found the rules in place, nothing is missing.
Progress(c, rules, h, whole) ==
  /\ c.at \in {"match", "new", "flush", "fill", "recheck", "hook"} => Ends(c.want)
  /\ c.at \in {"match", "new", "flush", "fill"} => Len(c.want) > 0
  /\ c.at \in {"lan", "check", "match", "new", "flush"} => c.n = 0
  /\ c.at = "fill" =>
       c.n < Len(c.want) /\ (rules # None => rules = SubSeq(c.want, 1, c.n))
  /\ c.at \in {"lanOff", "hookOff", "lanRemove", "hookRemove", "unhook", "empty",
               "delete"} => ~c.on
  /\ whole => /\ c.at = "match" \/ Recording(c) => h > 0
              /\ c.at \in {"recheck", "hook"} \/ Recording(c) => rules = c.want

Built == \A p \in Caller : Progress(call[p], chain, hooks, wipes = MaxWipes)

ChainInv == Typed /\ Built /\ MarkLast

\* So is the frame of a caller that is not in a call,
LEMMA NoCallType == NoCall \in Call /\ NoCall.at = "idle" /\ NoCall.n = 0 /\ NoCall.on = FALSE
  BY DEF NoCall, Call, At

\* and the chain of a table that was wiped.
LEMMA Empty == <<>> \in Seq(Rule) /\ DOMAIN <<>> = {}
  OBVIOUS

\* Adding rule n + 1 of a list to its first n rules gives its first n + 1.
LEMMA Prefix ==
  ASSUME NEW D, NEW list \in Seq(D), NEW n \in 0..Len(list)
  PROVE  /\ SubSeq(list, 1, n) \in Seq(D) /\ Len(SubSeq(list, 1, n)) = n
         /\ \A i \in 1..n : SubSeq(list, 1, n)[i] = list[i]
         /\ n < Len(list) => Append(SubSeq(list, 1, n), list[n + 1]) = SubSeq(list, 1, n + 1)
         /\ n = Len(list) => SubSeq(list, 1, n) = list
         /\ n = 0 => SubSeq(list, 1, n) = <<>>
  OBVIOUS

\* What Goto, Abort and Done make of a call.
LEMMA Moves ==
  ASSUME call \in [Caller -> Call], NEW p \in Caller
  PROVE  /\ \A l \in At : Goto(p, l) =>
              /\ call' = [call EXCEPT ![p] = call'[p]] /\ call'[p] \in Call
              /\ call'[p].at = l /\ call'[p].on = call[p].on
              /\ call'[p].want = call[p].want /\ call'[p].n = call[p].n
         /\ Abort(p) =>
              call' = [call EXCEPT ![p] = call'[p]] /\ call'[p] = NoCall
         /\ Done(p) =>
              /\ call' = [call EXCEPT ![p] = call'[p]] /\ call'[p] \in Call
              /\ \/ call'[p] = NoCall
                 \/ /\ call'[p].at = "save" /\ call'[p].on = call[p].on
                    /\ call'[p].want = call[p].want
  <1>1. ASSUME NEW l \in At, Goto(p, l)
        PROVE  /\ call' = [call EXCEPT ![p] = call'[p]] /\ call'[p] \in Call
               /\ call'[p].at = l /\ call'[p].on = call[p].on
               /\ call'[p].want = call[p].want /\ call'[p].n = call[p].n
    <2> DEFINE c == call[p]
               new == [c EXCEPT !.at = l]
    <2>1. c \in Call /\ call' = [call EXCEPT ![p] = new]
      BY <1>1 DEF Goto
    <2>2. new \in Call /\ new.at = l /\ new.on = c.on /\ new.want = c.want /\ new.n = c.n
      BY <2>1 DEF Call
    <2> HIDE DEF new
    <2>3. call'[p] = new
      BY <2>1
    <2> QED
      BY <2>1, <2>2, <2>3
  <1>2. Abort(p) => call' = [call EXCEPT ![p] = call'[p]] /\ call'[p] = NoCall
    BY DEF Abort
  <1>3. "save" \in At
    BY DEF At
  <1> QED
    BY <1>1, <1>2, <1>3, NoCallType DEF Done

\* One caller's step leaves the others where they are, outside the mutex.
LEMMA OneStep ==
  ASSUME IInv, ChainInv, NEW p \in Caller, call[p].at # "idle",
         conf' = conf /\ req' = req,
         call' = [call EXCEPT ![p] = call'[p]], call'[p] \in Call,
         chain' = None \/ chain' \in Seq(Rule),
         choice' \in BOOLEAN, marked' = marked, wipes' = wipes,
         Progress(call'[p], chain', hooks', wipes' = MaxWipes),
         MarkLast'
  PROVE  ChainInv'
  <1>1. RoutesOK'
    BY DEF ChainInv, Typed, RoutesOK
  <1>2. Typed'
    BY <1>1 DEF ChainInv, Typed
  <1>3. ASSUME NEW q \in Caller
        PROVE  Progress(call'[q], chain', hooks', wipes' = MaxWipes)
    <2>1. CASE q = p
      BY <2>1
    <2>2. CASE q # p
      <3>1. call'[q] = call[q] /\ call[q].at = "idle"
        BY <2>2 DEF IInv, Mutex, ChainInv, Typed
      <3> QED
        BY <3>1 DEF Progress, Recording
    <2> QED
      BY <2>1, <2>2
  <1> QED
    BY <1>2, <1>3 DEF ChainInv, Built

\* What wantedRules asks for ends with the mark.
LEMMA WantedEnds ==
  ASSUME RoutesOK
  PROVE  WantedRules \in Seq(Rule) /\ Ends(WantedRules) /\ Len(WantedRules) > 0
  <1> DEFINE list == conf[Exclude]
  <1>1. list \in Seq(Device) /\ Mark \notin Device
    BY RoutesAssumption, FullTunnelAssumption DEF RoutesOK, File
  <1> HIDE DEF list
  <1>2. /\ Append(list, Mark) \in Seq(Rule)
        /\ Len(Append(list, Mark)) = Len(list) + 1
        /\ \A i \in 1..Len(list) : Append(list, Mark)[i] \in Device
    BY <1>1 DEF Rule
  <1>3. WantedRules = Append(list, Mark)
    BY DEF WantedRules, list
  <1> QED
    BY <1>1, <1>2, <1>3 DEF Ends

\* Every run of iptables builds the chain, or undoes it, as Progress says.
LEMMA StepBuilds ==
  ASSUME IInv, ChainInv, NEW p \in Caller, Step(p)
  PROVE  ChainInv'
  <1> DEFINE c == call[p]
             new == call'[p]
             rules == chain'
             whole == wipes = MaxWipes
  <1>1. /\ call \in [Caller -> Call] /\ c \in Call
        /\ Progress(c, chain, hooks, whole) /\ MarkLast
        /\ chain = None \/ chain \in Seq(Rule)
        /\ choice \in BOOLEAN
    BY DEF ChainInv, Typed, Built
  <1>2. ASSUME c.at # "idle", conf' = conf, req' = req, marked' = marked, wipes' = wipes,
               choice' \in BOOLEAN, chain' = None \/ chain' \in Seq(Rule), MarkLast',
               call' = [call EXCEPT ![p] = new], new \in Call,
               Progress(new, rules, hooks', whole)
        PROVE  ChainInv'
    BY <1>2, OneStep
  <1> USE NoCallType DEF At
  <1>3. ASSUME NEW ok \in BOOLEAN, LanIface(p, ok) PROVE ChainInv'
    <2>1. UNCHANGED <<routes, choice, kernel, wipes, lost>> /\ MarkLast'
      BY <1>1, <1>3 DEF LanIface, MarkLast, kernel
    <2>2. /\ c.at # "idle" /\ call' = [call EXCEPT ![p] = new] /\ new \in Call
          /\ Progress(new, chain, hooks, whole)
      BY <1>1, <1>3, Moves DEF LanIface, Progress, Recording
    <2> QED
      BY <1>1, <1>2, <2>1, <2>2 DEF routes, kernel
  <1>4. ASSUME NEW ok \in BOOLEAN, HookPresent(p, ok) PROVE ChainInv'
    <2>1. UNCHANGED <<routes, choice, kernel, wipes, lost>> /\ MarkLast'
      BY <1>1, <1>4 DEF HookPresent, MarkLast, kernel
    <2>2. CASE c.at = "check"
      <3> DEFINE l == IF ok /\ hooks > 0 THEN "match" ELSE "new"
                 made == [c EXCEPT !.at = l, !.want = WantedRules]
      <3>1. call' = [call EXCEPT ![p] = made]
        BY <1>4, <2>2 DEF HookPresent
      <3>2. WantedRules \in Seq(Rule) /\ Ends(WantedRules) /\ Len(WantedRules) > 0
        BY WantedEnds DEF ChainInv, Typed
      <3>3. made \in Call /\ made.at = l /\ made.want = WantedRules /\ made.n = c.n
        BY <1>1, <3>2 DEF Call
      <3> HIDE DEF made
      <3>4. new = made
        BY <1>1, <3>1
      <3>5. c.n = 0
        BY <1>1, <2>2 DEF Progress
      <3>6. Progress(new, chain, hooks, whole)
        BY <3>2, <3>3, <3>4, <3>5 DEF Progress, Recording
      <3> QED
        BY <1>1, <1>2, <2>1, <2>2, <3>1, <3>3, <3>4, <3>6 DEF routes, kernel
    <2>3. CASE c.at # "check"
      <3>1. /\ c.at # "idle" /\ call' = [call EXCEPT ![p] = new] /\ new \in Call
            /\ Progress(new, chain, hooks, whole)
        BY <1>1, <1>4, <2>3, Moves DEF HookPresent, Progress, Recording
      <3> QED
        BY <1>1, <1>2, <2>1, <3>1 DEF routes, kernel
    <2> QED
      BY <2>2, <2>3
  <1>5. ASSUME NEW ok \in BOOLEAN, MatchRules(p, ok) PROVE ChainInv'
    <2>1. UNCHANGED <<routes, choice, kernel, wipes, lost>> /\ MarkLast'
      BY <1>1, <1>5 DEF MatchRules, MarkLast, kernel
    <2>2. c.at = "match" /\ ((Done(p) /\ chain = c.want) \/ Goto(p, "new"))
      BY <1>5 DEF MatchRules, RulesMatch
    <2>3. /\ call' = [call EXCEPT ![p] = new] /\ new \in Call
          /\ Progress(new, chain, hooks, whole)
      BY <1>1, <2>2, Moves DEF Progress, Recording
    <2> QED
      BY <1>1, <1>2, <2>1, <2>2, <2>3 DEF routes, kernel
  <1>6. ASSUME NEW ok \in BOOLEAN, NewChain(p, ok) PROVE ChainInv'
    <2>1. /\ UNCHANGED <<routes, choice, marked, hooks, wipes, lost>>
          /\ chain' = <<>> \/ chain' = chain
          /\ c.at = "new" /\ Goto(p, "flush")
      BY <1>6 DEF NewChain
    <2>2. MarkLast' /\ (chain' = None \/ chain' \in Seq(Rule))
      BY <1>1, <2>1, Empty DEF MarkLast
    <2>3. /\ call' = [call EXCEPT ![p] = new] /\ new \in Call
          /\ Progress(new, rules, hooks, whole)
      BY <1>1, <2>1, Moves DEF Progress, Recording
    <2> QED
      BY <1>1, <1>2, <2>1, <2>2, <2>3 DEF routes
  <1>7. ASSUME NEW ok \in BOOLEAN, FlushChain(p, ok) PROVE ChainInv'
    <2>1. /\ UNCHANGED <<routes, choice, marked, hooks, wipes, lost>>
          /\ \/ chain' = <<>> /\ Goto(p, "fill")
             \/ chain' = chain /\ Abort(p)
          /\ c.at = "flush"
      BY <1>7 DEF FlushChain
    <2>2. MarkLast' /\ (chain' = None \/ chain' \in Seq(Rule))
      BY <1>1, <2>1, Empty DEF MarkLast
    <2>3. c.want \in Seq(Rule) /\ Len(c.want) > 0 /\ c.n = 0
      BY <1>1, <2>1 DEF Progress, Call
    <2>4. SubSeq(c.want, 1, 0) = <<>>
      BY <2>3, Prefix
    <2>5. /\ call' = [call EXCEPT ![p] = new] /\ new \in Call
          /\ Progress(new, rules, hooks, whole)
      BY <1>1, <2>1, <2>3, <2>4, Moves DEF Progress, Recording
    <2> QED
      BY <1>1, <1>2, <2>1, <2>2, <2>5 DEF routes
  <1>8. ASSUME NEW ok \in BOOLEAN, AddRule(p, ok) PROVE ChainInv'
    <2> DEFINE n == c.n + 1
               want == c.want
               l == IF n < Len(want) THEN "fill" ELSE "recheck"
               made == [c EXCEPT !.n = n, !.at = l]
    <2>1. UNCHANGED <<routes, choice, marked, hooks, wipes, lost>> /\ c.at = "fill"
      BY <1>8 DEF AddRule
    <2>2. /\ want \in Seq(Rule) /\ c.n \in Nat /\ c.n < Len(want) /\ Ends(want)
          /\ chain # None => chain = SubSeq(want, 1, c.n)
      BY <1>1, <2>1 DEF Progress, Call
    <2>3. CASE UNCHANGED chain /\ Abort(p)
      <3>1. MarkLast' /\ (chain' = None \/ chain' \in Seq(Rule))
        BY <1>1, <2>3 DEF MarkLast
      <3>2. /\ call' = [call EXCEPT ![p] = new] /\ new \in Call
            /\ Progress(new, rules, hooks, whole)
        BY <1>1, <2>3, Moves DEF Progress, Recording
      <3> QED
        BY <1>1, <1>2, <2>1, <2>3, <3>1, <3>2 DEF routes
    <2>4. CASE ~(UNCHANGED chain /\ Abort(p))
      <3>1. /\ chain # None /\ chain' = Append(chain, want[n])
            /\ call' = [call EXCEPT ![p] = made]
        BY <1>8, <2>4 DEF AddRule
      <3>2. made \in Call /\ made.at = l /\ made.n = n /\ made.want = want /\ made.on = c.on
        <4>1. n \in Nat /\ l \in At
          BY <2>2
        <4> HIDE DEF l, n, At
        <4> QED
          BY <1>1, <4>1 DEF Call
      <3> HIDE DEF made
      <3>3. new = made
        BY <1>1, <3>1
      <3>4. chain' = SubSeq(want, 1, n)
        BY <2>2, <3>1, Prefix
      <3>5. /\ chain' \in Seq(Rule) /\ Len(chain') = n
            /\ \A i \in 1..n : chain'[i] = want[i]
            /\ n \in Nat /\ n <= Len(want)
            /\ n = Len(want) => chain' = want
        BY <2>2, <3>4, Prefix
      <3>6. MarkLast'
        <4>1. DOMAIN chain' = 1..n
          BY <3>5
        <4> QED
          BY <2>2, <3>5, <4>1 DEF MarkLast, Ends
      <3>7. Progress(new, rules, hooks, whole)
        <4>1. /\ n < Len(want) => l = "fill"
              /\ n = Len(want) => l = "recheck"
              /\ n < Len(want) \/ n = Len(want)
          BY <2>2, <3>5
        <4> HIDE DEF n, l
        <4> QED
          BY <2>2, <3>2, <3>3, <3>4, <3>5, <4>1 DEF Progress, Recording
      <3> QED
        BY <1>1, <1>2, <2>1, <3>1, <3>2, <3>3, <3>5, <3>6, <3>7 DEF routes
    <2> QED
      BY <2>3, <2>4
  <1>9. ASSUME NEW ok \in BOOLEAN, AddHook(p, ok) PROVE ChainInv'
    <2>1. /\ UNCHANGED <<routes, choice, marked, chain, wipes, lost>> /\ c.at = "hook"
          /\ \/ hooks' = hooks + 1 /\ Done(p)
             \/ hooks' = hooks /\ Abort(p)
      BY <1>9 DEF AddHook
    <2>2. MarkLast' /\ hooks + 1 > 0
      BY <1>1, <2>1 DEF MarkLast, IInv, Numbers
    <2>3. /\ call' = [call EXCEPT ![p] = new] /\ new \in Call
          /\ Progress(new, chain, hooks', whole)
      BY <1>1, <2>1, <2>2, Moves DEF Progress, Recording
    <2> QED
      BY <1>1, <1>2, <2>1, <2>2, <2>3 DEF routes
  <1>10. ASSUME NEW ok \in BOOLEAN, Unhook(p, ok) PROVE ChainInv'
    <2>1. /\ UNCHANGED <<routes, choice, marked, chain, wipes, lost>> /\ c.at = "unhook"
          /\ MarkLast'
      BY <1>1, <1>10 DEF Unhook, MarkLast
    <2>2. CASE Abort(p)
      <3>1. /\ call' = [call EXCEPT ![p] = new] /\ new \in Call
            /\ Progress(new, chain, hooks', whole)
        BY <1>1, <2>2, Moves DEF Progress, Recording
      <3> QED
        BY <1>1, <1>2, <2>1, <3>1 DEF routes
    <2>3. CASE ~Abort(p)
      <3> DEFINE made == [c EXCEPT !.at = "hookRemove", !.n = c.n + 1]
      <3>1. call' = [call EXCEPT ![p] = made]
        BY <1>10, <2>3 DEF Unhook
      <3>2. made \in Call /\ made.at = "hookRemove" /\ made.on = c.on
        <4>1. c.n + 1 \in Nat
          BY <1>1 DEF Call
        <4> QED
          BY <1>1, <4>1 DEF Call
      <3> HIDE DEF made
      <3>3. new = made
        BY <1>1, <3>1
      <3>4. Progress(new, chain, hooks', whole)
        BY <1>1, <2>1, <3>2, <3>3 DEF Progress, Recording
      <3> QED
        BY <1>1, <1>2, <2>1, <3>1, <3>2, <3>3, <3>4 DEF routes
    <2> QED
      BY <2>2, <2>3
  <1>11. ASSUME NEW ok \in BOOLEAN, EmptyChain(p, ok) \/ DeleteChain(p, ok)
         PROVE  ChainInv'
    <2>1. /\ UNCHANGED <<routes, choice, marked, hooks, wipes, lost>>
          /\ chain' = <<>> \/ chain' = None \/ chain' = chain
          /\ c.at \in {"empty", "delete"} /\ (Goto(p, "delete") \/ Done(p))
      BY <1>11 DEF EmptyChain, DeleteChain
    <2>2. MarkLast' /\ (chain' = None \/ chain' \in Seq(Rule))
      BY <1>1, <2>1, Empty DEF MarkLast
    <2>3. /\ call' = [call EXCEPT ![p] = new] /\ new \in Call
          /\ Progress(new, rules, hooks, whole)
      BY <1>1, <2>1, Moves DEF Progress, Recording
    <2> QED
      BY <1>1, <1>2, <2>1, <2>2, <2>3 DEF routes
  <1>12. ASSUME NEW ok \in BOOLEAN, SaveChoice(p, ok) PROVE ChainInv'
    <2>1. UNCHANGED <<routes, kernel, wipes, lost>> /\ c.at = "save" /\ Abort(p) /\ MarkLast'
      BY <1>1, <1>12 DEF SaveChoice, MarkLast, kernel
    <2>2. choice' \in BOOLEAN
      BY <1>1, <1>12 DEF SaveChoice, Call
    <2>3. /\ call' = [call EXCEPT ![p] = new] /\ new \in Call
          /\ Progress(new, chain, hooks, whole)
      BY <1>1, <2>1, Moves DEF Progress, Recording
    <2> QED
      BY <1>1, <1>2, <2>1, <2>2, <2>3 DEF routes, kernel
  <1> QED
    BY <1>3, <1>4, <1>5, <1>6, <1>7, <1>8, <1>9, <1>10, <1>11, <1>12 DEF Step

\* Every step keeps the invariant of the chain.
LEMMA NextBuilds == IInv /\ ChainInv /\ [Next]_vars => ChainInv'
  <1> SUFFICES ASSUME IInv, ChainInv, [Next]_vars PROVE ChainInv'
    OBVIOUS
  <1> USE NoCallType DEF ChainInv, Typed
  <1>1. ASSUME NEW p \in Caller, NEW new \in Call, Unlocked(p),
               call' = [call EXCEPT ![p] = new],
               new.at \in {"lan", "lanOff"} \/ (new.at = "lanRemove" /\ ~new.on),
               new.at # "lanOff" \/ ~new.on, new.n = 0,
               UNCHANGED <<routes, faults, choice, kernel, wipes, lost>>
        PROVE  ChainInv'
    <2>1. ASSUME NEW q \in Caller
          PROVE  Progress(call'[q], chain', hooks', wipes' = MaxWipes)
      <3>1. call'[q] = new \/ (call'[q] = call[q] /\ call[q].at = "idle")
        BY <1>1 DEF Unlocked
      <3> QED
        BY <1>1, <3>1 DEF Progress, Recording
    <2>2. RoutesOK' /\ MarkLast'
      BY <1>1 DEF RoutesOK, MarkLast, routes, kernel
    <2> QED
      BY <1>1, <2>1, <2>2 DEF Built, routes, kernel
  <1>2. ASSUME NEW u \in Users, NEW on \in BOOLEAN, SetMode(u, on) PROVE ChainInv'
    <2> DEFINE new == [NoCall EXCEPT !.at = IF on THEN "lan" ELSE "lanRemove", !.on = on]
    <2>1. /\ new \in Call /\ new.on = on /\ new.n = 0
          /\ new.at = IF on THEN "lan" ELSE "lanRemove"
      BY DEF Call, At
    <2>2. call' = [call EXCEPT ![u] = new] /\ u \in Caller
      BY <1>2 DEF SetMode, Caller
    <2> HIDE DEF new
    <2> QED
      BY <1>1, <1>2, <2>1, <2>2 DEF SetMode
  <1>3. CASE Restore
    <2> DEFINE new == [NoCall EXCEPT !.at = IF choice THEN "lan" ELSE "lanOff"]
    <2>1. /\ new \in Call /\ new.on = FALSE /\ new.n = 0
          /\ new.at = IF choice THEN "lan" ELSE "lanOff"
      BY DEF Call, At
    <2>2. call' = [call EXCEPT ![Keeper] = new] /\ Keeper \in Caller
      BY <1>3 DEF Restore, Caller
    <2> HIDE DEF new
    <2> QED
      BY <1>1, <1>3, <2>1, <2>2 DEF Restore
  <1>4. ASSUME NEW p \in Caller, Step(p) PROVE ChainInv'
    BY <1>4, StepBuilds
  <1>5. ASSUME NEW t \in Tabs, RouteRequest(t) \/ RouteStep(t), Rules PROVE ChainInv'
    BY <1>5, RoutesTypes DEF Rules, kernel, Built, MarkLast
  <1>6. CASE Wipe
    <2>1. wipes \in Nat /\ MaxWipes \in Nat /\ wipes' \in 0..MaxWipes /\ wipes' # MaxWipes
      BY <1>6, FullTunnelAssumption DEF Wipe
    <2>2. RoutesOK' /\ MarkLast'
      BY <1>6 DEF Wipe, RoutesOK, MarkLast, routes
    <2>3. Built'
      BY <1>6, <2>1 DEF Wipe, Built, Progress, Recording
    <2> QED
      BY <1>6, <2>1, <2>2, <2>3 DEF Wipe
  <1>7. CASE KvasMarks
    BY <1>7 DEF KvasMarks, RoutesOK, MarkLast, routes, Built
  <1>8. CASE PutBack
    <2>1. hooks > 0 => hooks' > 0
      BY <1>8 DEF PutBack, IInv, Numbers
    <2>2. RoutesOK' /\ MarkLast'
      BY <1>8 DEF PutBack, RoutesOK, MarkLast, routes
    <2>3. Built'
      BY <1>8, <2>1 DEF PutBack, Built, Progress, Recording
    <2> QED
      BY <1>8, <2>2, <2>3 DEF PutBack
  <1>9. CASE Restart
    <2>1. RoutesOK' /\ MarkLast'
      BY <1>9, NobodyRequests DEF Restart, RoutesOK, MarkLast, kernel
    <2>2. Built'
      BY <1>9 DEF Restart, Built, Progress, Recording
    <2> QED
      BY <1>9, <2>1, <2>2 DEF Restart, kernel
  <1>10. CASE UNCHANGED vars
    BY <1>10 DEF vars, RoutesOK, MarkLast, Built
  <1> QED
    BY <1>2, <1>3, <1>4, <1>5, <1>6, <1>7, <1>8, <1>9, <1>10 DEF Next

\* At the start there is no chain and nobody is in a call.
LEMMA InitBuilds == Init => ChainInv
  BY RequestsInit, NoCallType, FullTunnelAssumption
  DEF Init, ChainInv, Typed, Requests, Built, Progress, Recording, MarkLast

\* The invariant of the chain, of any devices, tabs and bounds.
LEMMA ChainBuilt == Spec => [](IInv /\ ChainInv)
  BY InitOK, NextKeeps, InitBuilds, NextBuilds, PTL DEF Spec

\* Whatever was wiped, failed or restarted while the chain was built, and
\* however the list of excluded devices was changed meanwhile, no rule follows
\* the mark.
THEOREM NothingAfterTheMark == Spec => []MarkLast
  BY ChainBuilt, PTL DEF ChainInv

\* When Set is about to record that the mode is on, the hook and all the rules
\* it wanted are in the table, unless the table was wiped.
THEOREM RecordedRulesStand == Spec => []RecordedOn
  <1>1. ChainInv => RecordedOn
    BY DEF ChainInv, Built, Progress, Recording, RecordedOn, Caller
  <1> QED
    BY <1>1, ChainBuilt, PTL

\* The calls, the rules and the lists keep their types.
THEOREM Types == Spec => []TypeOK
  <1>1. IInv /\ ChainInv => TypeOK
    BY DEF IInv, Numbers, ChainInv, Typed, RoutesOK, File, Request, Call, TypeOK, RoutesTyped
  <1> QED
    BY <1>1, ChainBuilt, PTL
=============================================================================
