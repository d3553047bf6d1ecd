--------------------------- MODULE AutoVpn_proofs ---------------------------
(***************************************************************************)
(* Proofs about AutoVpn for any number of servers, checks and users and    *)
(* any bound on failures.  The inductive invariant IInv adds to the type   *)
(* invariant what a process may rely on at each label: where it may be,    *)
(* where the Apply it runs will return to, and that the copy it decides by *)
(* is there whenever it is going to be read.  Three more invariants rest   *)
(* on it: Switches (what an Apply may rely on while it is alone), Fresh    *)
(* (a copy that waits to be saved is the state), and Picked (where the     *)
(* spare servers and the keys of the service's own Apply come from).       *)
(***************************************************************************)
EXTENDS AutoVpn, TLAPS, WellFoundedInduction

\* Labels at which a process of each kind may be outside Apply.
OwnLabel(p) == IF p = Watch THEN WatchLabel
               ELSE IF p \in Checks THEN CheckLabel \cup {"idle"} ELSE {"idle"}

\* Labels at which it resumes after an Apply that succeeds, after one that
\* fails, and after a save.
OkLabel(p) == IF p = Watch THEN {"look", "reprobe", "spareprobe"}
              ELSE IF p \in Checks THEN {"release"} ELSE {"idle"}
ErrLabel(p) == IF p = Watch THEN {"sleep", "spares"}
               ELSE IF p \in Checks THEN {"failed"} ELSE {"idle"}
ThenLabel(p) == OkLabel(p) \cup
                (IF p = Watch THEN {"sleep"}
                 ELSE IF p \in Checks THEN {"decide", "choose"} ELSE {})

\* What the copy of p must offer before p goes on at l.
Ready(p, l) ==
  /\ l \in {"ensure", "probe", "inet", "reprobe", "spares", "spareprobe",
            "decide", "refresh", "choose"} => snap[p] \in Seen
  /\ l \in {"refresh", "choose"} => snap[p].auto /\ snap[p].results # <<>>

Permitted(p) ==
  /\ snap[p] \in Seen
  /\ snap[p].auto \/ call[p].key = snap[p].active

ProcOK(p) ==
  /\ pc[p] \in OwnLabel(p) \cup ApplyLabel \cup {"save"}
  /\ pc[p] \in ApplyLabel =>
       /\ call[p].ok \in OkLabel(p)
       /\ call[p].err \in ErrLabel(p)
       /\ p \in Automatic => Permitted(p)
  /\ pc[p] = "save" =>
       /\ out[p].st \in State
       /\ out[p].then \in ThenLabel(p)
       /\ Ready(p, out[p].then)
  /\ Ready(p, pc[p])

Control == \A p \in Proc : ProcOK(p)

IInv == TypeOK /\ Control /\ OneCheck

-----------------------------------------------------------------------------
(* Lemmas about the operators on rankings. *)

\* The first servers of a ranking are a ranking.
LEMMA TakeType ==
  ASSUME NEW S, NEW s \in Seq(S), NEW n \in Nat
  PROVE  Take(s, n) \in Seq(S)
BY DEF Take

\* So is a part of it.
LEMMA SegmentType ==
  ASSUME NEW S, NEW r \in Seq(S), NEW m \in Nat \ {0}, NEW n \in 0..Len(r)
  PROVE  SubSeq(r, m, n) \in Seq(S)
OBVIOUS

\* A set of numbers that has one has a least one.
LEMMA Least ==
  ASSUME NEW S \in SUBSET Nat, S # {}
  PROVE  \E n \in S : \A m \in S : n <= m
<1>1. PICK n \in S : \A m \in S : <<m, n>> \notin OpToRel(<, Nat)
  BY NatLessThanWellFounded, WFMin
<1>2. \A m \in S : ~(m < n)
  BY <1>1 DEF OpToRel
<1> QED
  BY <1>2

\* The loop of Without on the first n r.
Loop(r, s, n, rest) ==
  [m \in 0..n |->
     IF m = 0 THEN <<>>
     ELSE IF r[m] = s THEN rest[m - 1] ELSE Append(rest[m - 1], r[m])]

\* The loop runs to its end.
LEMMA LoopRuns ==
  ASSUME NEW r, NEW s, NEW end \in Nat
  PROVE  \E rest : rest = Loop(r, s, end, rest)
<1> DEFINE Stuck == {n \in Nat : ~ \E rest : rest = Loop(r, s, n, rest)}
<1> SUFFICES ASSUME Stuck # {} PROVE FALSE
  OBVIOUS
<1>1. PICK n \in Stuck : \A m \in Stuck : n <= m
  <2> HIDE DEF Stuck
  <2> Stuck \in SUBSET Nat
    BY DEF Stuck
  <2> QED
    BY Least
<1>2. CASE n = 0
  <2> DEFINE rest == [m \in 0..0 |-> <<>>]
  <2>1. rest = Loop(r, s, 0, rest)
    BY DEF Loop
  <2> QED
    BY <1>2, <2>1
<1>3. CASE n # 0
  <2>1. n \in Nat /\ n - 1 \in Nat /\ n - 1 \notin Stuck
    BY <1>1, <1>3
  <2>2. PICK old : old = Loop(r, s, n - 1, old)
    BY <2>1
  <2> DEFINE next == IF r[n] = s THEN old[n - 1] ELSE Append(old[n - 1], r[n])
             rest == [m \in 0..n |-> IF m = n THEN next ELSE old[m]]
  <2>3. \A m \in 0..n - 1 : old[m] =
          IF m = 0 THEN <<>>
          ELSE IF r[m] = s THEN old[m - 1] ELSE Append(old[m - 1], r[m])
    BY <2>2 DEF Loop
  <2>4. \A m \in 0..n - 1 : rest[m] = old[m]
    BY <2>1
  <2>5. \A m \in 0..n : rest[m] =
          IF m = 0 THEN <<>>
          ELSE IF r[m] = s THEN rest[m - 1] ELSE Append(rest[m - 1], r[m])
    <3> SUFFICES ASSUME NEW m \in 0..n
                 PROVE  rest[m] =
                   IF m = 0 THEN <<>>
                   ELSE IF r[m] = s THEN rest[m - 1] ELSE Append(rest[m - 1], r[m])
      OBVIOUS
    <3>1. CASE m = n
      <4>1. rest[n] = next /\ rest[n - 1] = old[n - 1]
        BY <2>1, <2>4
      <4> QED
        BY <1>3, <3>1, <4>1
    <3>2. CASE m # n
      <4>1. m \in 0..n - 1 /\ (m # 0 => m - 1 \in 0..n - 1)
        BY <2>1, <3>2
      <4> QED
        BY <2>3, <2>4, <4>1
    <3> QED
      BY <3>1, <3>2
  <2>6. rest = Loop(r, s, n, rest)
    <3> HIDE DEF next
    <3> DEFINE F == [m \in 0..n |->
                     IF m = 0 THEN <<>>
                     ELSE IF r[m] = s THEN rest[m - 1] ELSE Append(rest[m - 1], r[m])]
    <3>1. DOMAIN rest = 0..n /\ DOMAIN F = 0..n /\ \A m \in 0..n : rest[m] = F[m]
      BY <2>5
    <3>2. rest = F
      <4> HIDE DEF F
      <4>1. rest = [m \in 0..n |-> rest[m]]
        OBVIOUS
      <4>2. F = [m \in 0..n |-> F[m]]
        BY DEF F
      <4> HIDE DEF rest
      <4> QED
        BY <3>1, <4>1, <4>2
    <3> QED
      BY <3>2 DEF Loop
  <2> QED
    BY <2>1, <2>6
<1> QED
  BY <1>2, <1>3

\* A ranking without a server still is one, of all the others.
LEMMA WithoutKeeps ==
  ASSUME NEW S, NEW r \in Seq(S), NEW s
  PROVE  /\ Without(r, s) \in Seq(S)
         /\ Elements(Without(r, s)) = Elements(r) \ {s}
<1> DEFINE end == Len(r)
<1>1. end \in Nat /\ \A n \in 1..end : r[n] \in S
  OBVIOUS
<1> DEFINE rest == CHOOSE o : o = Loop(r, s, end, o)
<1>2. Without(r, s) = rest[end]
  BY DEF Without, Loop
<1>3. rest = Loop(r, s, end, rest)
  BY <1>1, LoopRuns
<1>4. \A n \in 0..end : rest[n] =
        IF n = 0 THEN <<>>
        ELSE IF r[n] = s THEN rest[n - 1] ELSE Append(rest[n - 1], r[n])
  <2> HIDE DEF rest, end
  <2> QED
    BY <1>3 DEF Loop
<1> HIDE DEF rest, end
<1> DEFINE Good(n) ==
      /\ rest[n] \in Seq(S)
      /\ \A x : (\E i \in 1..Len(rest[n]) : rest[n][i] = x)
                  <=> x # s /\ \E i \in 1..n : r[i] = x
<1>5. Good(0)
  <2>1. rest[0] = <<>>
    BY <1>1, <1>4
  <2> DEFINE first == rest[0]
  <2>2. first \in Seq(S) /\ Len(first) = 0
    BY <2>1
  <2> HIDE DEF first
  <2>3. 1..Len(first) = {} /\ 1..0 = {}
    BY <2>2
  <2> QED
    BY <2>2, <2>3 DEF first
<1>6. ASSUME NEW n \in 1..end, Good(n - 1) PROVE Good(n)
  <2>1. n \in 0..end /\ n # 0 /\ n - 1 \in Nat /\ n \in Nat /\ r[n] \in S
    BY <1>1
  <2>2. \A x : (\E i \in 1..n : r[i] = x)
                 <=> r[n] = x \/ \E i \in 1..n - 1 : r[i] = x
    <3>1. 1..n = (1..n - 1) \cup {n}
      BY <2>1
    <3> QED
      BY <3>1
  <2>3. CASE r[n] = s
    BY <1>4, <1>6, <2>1, <2>2, <2>3
  <2>4. CASE r[n] # s
    <3> DEFINE old == rest[n - 1]
               it == r[n]
    <3>1. rest[n] = Append(old, it)
      BY <1>4, <2>1, <2>4
    <3>2. old \in Seq(S) /\ it \in S
      BY <1>6, <2>1
    <3>3. \A x : (\E i \in 1..Len(old) : old[i] = x)
                   <=> x # s /\ \E i \in 1..n - 1 : r[i] = x
      BY <1>6
    <3> HIDE DEF old
    <3>4. /\ Append(old, it) \in Seq(S)
          /\ Len(Append(old, it)) = Len(old) + 1
          /\ Append(old, it)[Len(old) + 1] = it
          /\ \A i \in 1..Len(old) : Append(old, it)[i] = old[i]
      BY <3>2
    <3>5. \A x : (\E i \in 1..Len(rest[n]) : rest[n][i] = x)
                   <=> it = x \/ \E i \in 1..Len(old) : old[i] = x
      <4>1. Len(old) \in Nat /\ 1..Len(old) + 1 = (1..Len(old)) \cup {Len(old) + 1}
        BY <3>2
      <4> QED
        BY <3>1, <3>4, <4>1
    <3> QED
      BY <2>2, <2>4, <3>1, <3>3, <3>4, <3>5
  <2> QED
    BY <2>3, <2>4
<1>7. Good(end)
  <2> DEFINE Bad == {n \in Nat : n <= end /\ ~Good(n)}
  <2> HIDE DEF Good
  <2> SUFFICES ASSUME Bad # {} PROVE FALSE
    BY <1>1
  <2>1. PICK n \in Bad : \A m \in Bad : n <= m
    <3>1. Bad \in SUBSET Nat
      OBVIOUS
    <3> HIDE DEF Bad
    <3> QED
      BY <3>1, Least
  <2>2. n # 0
    BY <1>5
  <2>3. n \in 1..end /\ n - 1 \in Nat /\ n - 1 <= end /\ n - 1 \notin Bad
    BY <1>1, <2>1, <2>2
  <2>4. Good(n - 1)
    BY <2>3
  <2>5. Good(n)
    BY <1>6, <2>3, <2>4
  <2> QED
    BY <2>5
<1> DEFINE w == Without(r, s)
<1>8. w \in Seq(S) /\ \A x : (\E i \in 1..Len(w) : w[i] = x)
                             <=> x # s /\ \E i \in 1..Len(r) : r[i] = x
  BY <1>2, <1>7 DEF end
<1> HIDE DEF w
<1>9. DOMAIN w = 1..Len(w) /\ DOMAIN r = 1..Len(r)
  BY <1>8
<1>10. Elements(w) = Elements(r) \ {s}
  <2>1. ASSUME NEW x PROVE x \in Elements(w) <=> x \in Elements(r) \ {s}
    BY <1>8, <1>9 DEF Elements
  <2> QED
    BY <2>1
<1> QED
  BY <1>8, <1>10 DEF w

\* A ranking whose first server sinks still is one, and not an empty one.
LEMMA SinkType ==
  ASSUME NEW S, NEW r \in Seq(S), NEW i \in DOMAIN r
  PROVE  Sink(r, i) \in Seq(S) /\ Sink(r, i) # <<>>
<1>1. i \in 1..Len(r) /\ Len(r) > 0 /\ Head(r) \in S
  OBVIOUS
<1>2. SubSeq(r, 2, i) \in Seq(S) /\ SubSeq(r, i + 1, Len(r)) \in Seq(S)
  BY <1>1
<1>3. <<Head(r)>> \in Seq(S) /\ Len(<<Head(r)>>) = 1
  BY <1>1
<1> QED
  BY <1>1, <1>2, <1>3 DEF Sink

\* A ranking is a sequence.
LEMMA RankingsType ==
  ASSUME NEW S, NEW r \in Rankings(S)
  PROVE  r \in Seq(S)
BY DEF Rankings

\* What a process decides by is part of a state.
LEMMA ViewType == ASSUME NEW st \in State PROVE View(st) \in Seen
BY DEF State, View, Seen

-----------------------------------------------------------------------------
(* Frames: what a step of p leaves of the other processes. *)

\* A step of p that leaves the others' entries alone keeps control of all.
LEMMA OthersKeep ==
  ASSUME Control, NEW p \in Proc, ProcOK(p)',
         \A q \in Proc \ {p} : /\ pc'[q] = pc[q] /\ call'[q] = call[q]
                               /\ out'[q] = out[q] /\ snap'[q] = snap[q]
  PROVE  Control'
BY DEF Control, ProcOK, Ready, Permitted

\* The flag stays right while no check comes or goes.
LEMMA FlagKept ==
  ASSUME OneCheck, running' = running,
         \A c \in Checks : Busy(c)' <=> Busy(c)
  PROVE  OneCheck'
BY DEF OneCheck

\* A process in the middle of its work moves from one label to another.
LEMMA StaysBusy ==
  ASSUME IInv, NEW p \in Proc, NEW l \in Label,
         Goto(p, l), p \in Checks => pc[p] # "idle" /\ l # "idle",
         running' = running
  PROVE  OneCheck'
<1>1. \A c \in Checks : Busy(c)' <=> Busy(c)
  BY AutoVpnAssumption DEF IInv, TypeOK, Goto, Busy
<1> QED
  BY <1>1, FlagKept DEF IInv

\* From one step of Apply to the next.
LEMMA Proceeds ==
  ASSUME IInv, NEW p \in Proc, pc[p] \in ApplyLabel, NEW l \in ApplyLabel,
         Goto(p, l),
         call' = call \/ call' = [call EXCEPT ![p].had = TRUE],
         UNCHANGED <<out, snap, running>>
  PROVE  Control' /\ OneCheck' /\ pc' \in [Proc -> Label]
<1>1. ProcOK(p)'
  <2>1. /\ call'[p].key = call[p].key
        /\ call'[p].ok = call[p].ok /\ call'[p].err = call[p].err
    <3>1. call \in [Proc -> Frame]
      BY DEF IInv, TypeOK, TunnelTypeOK
    <3>2. CASE call' = [call EXCEPT ![p].had = TRUE]
      BY <3>1, <3>2 DEF Frame
    <3> QED
      BY <3>2
  <2>2. pc'[p] = l
    BY DEF IInv, TypeOK, Goto
  <2>3. Ready(p, l)'
    BY DEF Ready, ApplyLabel
  <2> QED
    BY <2>1, <2>2, <2>3 DEF IInv, Control, ProcOK, Permitted, ApplyLabel
<1>2. Control'
  BY <1>1, OthersKeep DEF IInv, TypeOK, TunnelTypeOK, Goto
<1>3. OneCheck'
  BY StaysBusy DEF ApplyLabel, Label
<1>4. pc' \in [Proc -> Label]
  BY DEF IInv, TypeOK, Goto, Label
<1> QED
  BY <1>2, <1>3, <1>4

\* Apply fails, and its caller goes on.
LEMMA Fallen ==
  ASSUME IInv, NEW p \in Proc, pc[p] \in ApplyLabel,
         Return(p, call[p].err), UNCHANGED <<out, snap, running>>
  PROVE  Control' /\ OneCheck' /\ pc' \in [Proc -> Label]
<1>1. call[p].err \in ErrLabel(p) /\ ErrLabel(p) \subseteq OwnLabel(p) \cap Label
  BY DEF IInv, Control, ProcOK, ErrLabel, OwnLabel, Label, WatchLabel, CheckLabel
<1>2. ProcOK(p)'
  BY <1>1, AutoVpnAssumption
     DEF IInv, Control, ProcOK, TypeOK, TunnelTypeOK, Return, Goto, Ready,
         Permitted, ApplyLabel, ErrLabel, OwnLabel, WatchLabel, CheckLabel, Automatic
<1>3. Control'
  BY <1>2, OthersKeep DEF IInv, TypeOK, TunnelTypeOK, Return, Goto
<1>4. OneCheck'
  BY <1>1, StaysBusy, AutoVpnAssumption DEF Return, ApplyLabel, ErrLabel
<1>5. pc' \in [Proc -> Label]
  BY <1>1 DEF IInv, TypeOK, Return, Goto
<1> QED
  BY <1>3, <1>4, <1>5

\* The rest of the type invariant, for a step that only counts a failure.
LEMMA FaultType ==
  ASSUME IInv, Fault \/ NoFault
  PROVE  faults' \in 0..MaxFaults
BY TunnelAssumption DEF IInv, TypeOK, TunnelTypeOK, Fault, NoFault

\* Without a call and without a copy.
LEMMA EmptyTypes == NoCall \in Frame /\ NoSave \in Copy
BY DEF NoCall, NoSave, Frame, Copy

\* Frames stay frames, entered, returned from, or left alone.
LEMMA FrameType ==
  ASSUME IInv, NEW p \in Proc,
         \/ call' = call
         \/ call' = [call EXCEPT ![p].had = TRUE]
         \/ \E l \in Label : Return(p, l)
         \/ Return(p, call[p].err)
         \/ \E key \in Server \cup {None}, ok \in Label, err \in Label :
              Enter(p, key, ok, err)
  PROVE  call' \in [Proc -> Frame]
<1>1. call \in [Proc -> Frame]
  BY DEF IInv, TypeOK, TunnelTypeOK
<1>2. CASE call' = [call EXCEPT ![p].had = TRUE]
  BY <1>1, <1>2 DEF Frame
<1>3. CASE (\E l \in Label : Return(p, l)) \/ Return(p, call[p].err)
  BY <1>1, <1>3, EmptyTypes DEF Return
<1>4. CASE \E key \in Server \cup {None}, ok \in Label, err \in Label :
              Enter(p, key, ok, err)
  <2>1. PICK key \in Server \cup {None}, ok \in Label, err \in Label :
               Enter(p, key, ok, err)
    BY <1>4
  <2>2. [key |-> key, ok |-> ok, err |-> err, had |-> FALSE] \in Frame
    BY DEF Frame
  <2> QED
    BY <1>1, <2>1, <2>2 DEF Enter
<1> QED
  BY <1>1, <1>2, <1>3, <1>4

-----------------------------------------------------------------------------
(* The steps of Apply. *)

\* Fetch keeps the invariant.
LEMMA FetchInv ==
  ASSUME IInv, NEW p \in Proc, Fetch(p), UNCHANGED <<running, locals, env>>
  PROVE  IInv'
<1>1. Control' /\ OneCheck' /\ pc' \in [Proc -> Label]
  BY Proceeds, Fallen DEF Fetch, ApplyLabel, locals
<1>2. faults' \in 0..MaxFaults
  BY FaultType DEF Fetch, Fails, NoFault
<1>3. TunnelTypeOK'
  BY <1>2, FrameType DEF IInv, TypeOK, TunnelTypeOK, Fetch, tunnel, stateVars
<1> QED
  BY <1>1, <1>3 DEF IInv, TypeOK, locals, env

\* Backup keeps the invariant.
LEMMA BackupInv ==
  ASSUME IInv, NEW p \in Proc, BackupConfig(p), UNCHANGED <<running, locals, env>>
  PROVE  IInv'
<1>1. Control' /\ OneCheck' /\ pc' \in [Proc -> Label]
  BY Proceeds, Fallen DEF BackupConfig, ApplyLabel, locals
<1>2. faults' \in 0..MaxFaults
  BY FaultType DEF BackupConfig, NoFault
<1>3. TunnelTypeOK'
  BY <1>2, FrameType DEF IInv, TypeOK, TunnelTypeOK, BackupConfig, tunnel, stateVars
<1> QED
  BY <1>1, <1>3 DEF IInv, TypeOK, locals, env

\* Write keeps the invariant.
LEMMA WriteInv ==
  ASSUME IInv, NEW p \in Proc, WriteConf(p), UNCHANGED <<running, locals, env>>
  PROVE  IInv'
<1>1. Control' /\ OneCheck' /\ pc' \in [Proc -> Label]
  BY Proceeds, Fallen DEF WriteConf, ApplyLabel, locals
<1>2. faults' \in 0..MaxFaults
  BY FaultType DEF WriteConf, NoFault
<1>3. TunnelTypeOK'
  <2>1. call[p].key \in Server \cup {None}
    BY DEF IInv, TypeOK, TunnelTypeOK, Frame
  <2>2. call' \in [Proc -> Frame]
    BY FrameType DEF WriteConf
  <2> QED
    BY <1>2, <2>1, <2>2 DEF IInv, TypeOK, TunnelTypeOK, WriteConf, stateVars
<1> QED
  BY <1>1, <1>3 DEF IInv, TypeOK, locals, env

\* A restart of xray leaves the tunnel's variables typed.
LEMMA RestartType ==
  ASSUME IInv, NEW p \in Proc, Restarted(p) \/ RestartFailed(p)
  PROVE  /\ xray' \in Server \cup {None}
         /\ iface' \in BOOLEAN
         /\ faults' \in 0..MaxFaults
<1>1. faults' \in 0..MaxFaults
  BY FaultType DEF Restarted, RestartFailed, Fails
<1> QED
  BY <1>1 DEF IInv, TypeOK, TunnelTypeOK, Restarted, RestartFailed

\* Restart keeps the invariant.
LEMMA RestartInv ==
  ASSUME IInv, NEW p \in Proc, RestartXray(p), UNCHANGED <<running, locals, env>>
  PROVE  IInv'
<1>1. Control' /\ OneCheck' /\ pc' \in [Proc -> Label]
  BY Proceeds DEF RestartXray, ApplyLabel, locals
<1>2. TunnelTypeOK'
  BY RestartType DEF IInv, TypeOK, TunnelTypeOK, RestartXray, stateVars
<1> QED
  BY <1>1, <1>2 DEF IInv, TypeOK, locals, env

\* Wait keeps the invariant.
LEMMA WaitInv ==
  ASSUME IInv, NEW p \in Proc, WaitProxy(p), UNCHANGED <<running, locals, env>>
  PROVE  IInv'
<1>1. Control' /\ OneCheck' /\ pc' \in [Proc -> Label]
  BY Proceeds DEF WaitProxy, ApplyLabel, locals
<1>2. TunnelTypeOK'
  BY DEF IInv, TypeOK, TunnelTypeOK, WaitProxy, tunnel, stateVars
<1> QED
  BY <1>1, <1>2 DEF IInv, TypeOK, locals, env

\* Raise keeps the invariant.
LEMMA RaiseInv ==
  ASSUME IInv, NEW p \in Proc, RaiseInterface(p), UNCHANGED <<running, locals, env>>
  PROVE  IInv'
<1>1. Control' /\ OneCheck' /\ pc' \in [Proc -> Label]
  BY Proceeds DEF RaiseInterface, ApplyLabel, locals
<1>2. faults' \in 0..MaxFaults
  BY FaultType DEF RaiseInterface, Fails, NoFault
<1>3. TunnelTypeOK'
  BY <1>2 DEF IInv, TypeOK, TunnelTypeOK, RaiseInterface, stateVars
<1> QED
  BY <1>1, <1>3 DEF IInv, TypeOK, locals, env

\* Rollback keeps the invariant.
LEMMA RollbackInv ==
  ASSUME IInv, NEW p \in Proc, Rollback(p), UNCHANGED <<running, locals, env>>
  PROVE  IInv'
<1>1. Control' /\ OneCheck' /\ pc' \in [Proc -> Label]
  BY Proceeds, Fallen DEF Rollback, ApplyLabel, locals
<1>2. faults' \in 0..MaxFaults
  BY FaultType DEF Rollback, NoFault
<1>3. TunnelTypeOK'
  BY <1>2, FrameType DEF IInv, TypeOK, TunnelTypeOK, Rollback, stateVars
<1> QED
  BY <1>1, <1>3 DEF IInv, TypeOK, locals, env

\* RollbackRestart keeps the invariant.
LEMMA RollbackRestartInv ==
  ASSUME IInv, NEW p \in Proc, RollbackRestart(p), UNCHANGED <<running, locals, env>>
  PROVE  IInv'
<1>1. Control' /\ OneCheck' /\ pc' \in [Proc -> Label]
  BY Fallen DEF RollbackRestart, ApplyLabel, locals
<1>2. TunnelTypeOK'
  BY RestartType, FrameType DEF IInv, TypeOK, TunnelTypeOK, RollbackRestart, stateVars
<1> QED
  BY <1>1, <1>2 DEF IInv, TypeOK, locals, env

\* Commit keeps the invariant.
LEMMA CommitInv ==
  ASSUME IInv, NEW p \in Proc, Commit(p), UNCHANGED <<running, locals, env>>
  PROVE  IInv'
<1> DEFINE st == [mem EXCEPT !.active = call[p].key]
<1>1. st \in State
  BY DEF IInv, TypeOK, TunnelTypeOK, Frame, State
<1>2. /\ call[p].ok \in OkLabel(p)
      /\ p \in Automatic => snap[p] \in Seen
      /\ call[p].ok \notin {"refresh", "choose"}
      /\ p \notin Automatic => call[p].ok = "idle"
  BY AutoVpnAssumption
     DEF IInv, Control, ProcOK, Commit, ApplyLabel, Permitted, OkLabel, Automatic
<1>3. /\ pc' = [pc EXCEPT ![p] = "save"]
      /\ out' = [out EXCEPT ![p] = [st |-> st, then |-> call[p].ok]]
      /\ call' = [call EXCEPT ![p] = NoCall]
      /\ mem' = st /\ snap' = snap
  BY DEF Commit, SaveLater, Goto, locals
<1>4. ProcOK(p)'
  <2>1. pc'[p] = "save" /\ out'[p].st = st /\ out'[p].then = call[p].ok
    BY <1>3 DEF IInv, TypeOK, TunnelTypeOK
  <2>2. Ready(p, out[p].then)'
    BY <1>2, <1>3, <2>1, AutoVpnAssumption DEF Ready
  <2>3. Ready(p, pc[p])'
    BY <2>1 DEF Ready
  <2> QED
    BY <1>1, <1>2, <2>1, <2>2, <2>3 DEF ProcOK, ThenLabel, ApplyLabel
<1>5. Control'
  BY <1>3, <1>4, OthersKeep DEF IInv, TypeOK, TunnelTypeOK
<1>6. OneCheck'
  BY <1>3, StaysBusy DEF Commit, Label, Goto
<1>7. TunnelTypeOK'
  <2>1. call[p].ok \in Label \cup {""}
    BY DEF IInv, TypeOK, TunnelTypeOK, Frame
  <2>2. [st |-> st, then |-> call[p].ok] \in Copy
    BY <1>1, <2>1 DEF Copy
  <2> QED
    BY <1>1, <1>3, <2>2, EmptyTypes DEF IInv, TypeOK, TunnelTypeOK, Commit, tunnel
<1>8. pc' \in [Proc -> Label]
  BY <1>3 DEF IInv, TypeOK, Label
<1> QED
  BY <1>5, <1>6, <1>7, <1>8 DEF IInv, TypeOK, locals, env

\* Save keeps the invariant.
LEMMA SaveInv ==
  ASSUME IInv, NEW p \in Proc, SaveState(p), UNCHANGED <<running, locals, env>>
  PROVE  IInv'
<1>1. /\ out[p].st \in State
      /\ out[p].then \in ThenLabel(p)
      /\ Ready(p, out[p].then)
  BY DEF IInv, Control, ProcOK, SaveState
<1>2. ThenLabel(p) \subseteq OwnLabel(p) \cap Label /\ ThenLabel(p) \cap ApplyLabel = {}
  BY DEF ThenLabel, OkLabel, OwnLabel, Label, WatchLabel, CheckLabel, ApplyLabel
<1>3. "save" \notin ThenLabel(p) /\ (p \in Checks => "idle" \notin ThenLabel(p))
  BY AutoVpnAssumption DEF ThenLabel, OkLabel
<1>4. /\ pc' = [pc EXCEPT ![p] = out[p].then]
      /\ out' = [out EXCEPT ![p] = NoSave]
      /\ UNCHANGED <<snap, call>>
  BY DEF SaveState, Goto, locals
<1>5. ProcOK(p)'
  BY <1>1, <1>2, <1>3, <1>4 DEF IInv, TypeOK, TunnelTypeOK, ProcOK, Ready
<1>6. Control'
  BY <1>4, <1>5, OthersKeep DEF IInv, TypeOK, TunnelTypeOK
<1>7. OneCheck'
  BY <1>1, <1>2, <1>3, <1>4, StaysBusy DEF SaveState, Goto
<1>8. faults' \in 0..MaxFaults
  BY FaultType DEF SaveState
<1>9. TunnelTypeOK'
  BY <1>1, <1>4, <1>8, EmptyTypes DEF IInv, TypeOK, TunnelTypeOK, SaveState, tunnel
<1>10. pc' \in [Proc -> Label]
  BY <1>1, <1>2, <1>4 DEF IInv, TypeOK
<1> QED
  BY <1>6, <1>7, <1>9, <1>10 DEF IInv, TypeOK, locals, env

\* Every step of Apply keeps the invariant.
LEMMA ApplyInv ==
  ASSUME IInv, NEW p \in Proc, Apply(p)
  PROVE  IInv'
BY FetchInv, BackupInv, WriteInv, RestartInv, WaitInv, RaiseInv, CommitInv,
   RollbackInv, RollbackRestartInv, SaveInv DEF Apply, ApplyStep

-----------------------------------------------------------------------------
(* Frames for the steps outside Apply. *)

\* A process goes to another label.
LEMMA Moves ==
  ASSUME IInv, NEW p \in Proc, NEW l \in Label, Goto(p, l), ProcOK(p)',
         p \in Checks => pc[p] # "idle" /\ l # "idle", running' = running,
         \A q \in Proc \ {p} : /\ call'[q] = call[q] /\ out'[q] = out[q]
                               /\ snap'[q] = snap[q]
  PROVE  Control' /\ OneCheck' /\ pc' \in [Proc -> Label]
<1>1. OneCheck'
  BY StaysBusy
<1>2. pc' \in [Proc -> Label] /\ \A q \in Proc \ {p} : pc'[q] = pc[q]
  BY DEF IInv, TypeOK, Goto
<1>3. Control'
  BY <1>2, OthersKeep DEF IInv
<1> QED
  BY <1>1, <1>2, <1>3

\* No process moves.
LEMMA NobodyMoves ==
  ASSUME IInv, UNCHANGED <<pc, call, out, snap, running>>
  PROVE  Control' /\ OneCheck' /\ pc' \in [Proc -> Label]
BY DEF IInv, TypeOK, Control, ProcOK, Ready, Permitted, OneCheck, Busy

\* A process goes to a label of its own without saving or applying anything.
LEMMA GoesOn ==
  ASSUME IInv, NEW p \in Proc, NEW l \in OwnLabel(p), Goto(p, l),
         p \in Checks => pc[p] # "idle" /\ l # "idle",
         UNCHANGED <<call, out, running>>,
         snap' \in [Proc -> Seen \cup {None}],
         \A q \in Proc \ {p} : snap'[q] = snap[q],
         Ready(p, l)'
  PROVE  Control' /\ OneCheck' /\ pc' \in [Proc -> Label]
<1>1. /\ l \in Label /\ l # "save" /\ l \notin ApplyLabel
  BY DEF OwnLabel, Label, ApplyLabel, WatchLabel, CheckLabel
<1>2. pc'[p] = l
  BY DEF IInv, TypeOK, Goto
<1>3. ProcOK(p)'
  BY <1>1, <1>2 DEF ProcOK
<1> QED
  BY <1>1, <1>3, Moves

\* A process enters Apply.
LEMMA EntersApply ==
  ASSUME IInv, NEW p \in Proc, NEW key \in Server \cup {None},
         NEW ok \in OkLabel(p), NEW err \in ErrLabel(p),
         Enter(p, key, ok, err), p \in Checks => pc[p] # "idle",
         UNCHANGED <<out, snap, running>>,
         p \in Automatic => /\ snap[p] \in Seen
                            /\ snap[p].auto \/ key = snap[p].active
  PROVE  /\ Control' /\ OneCheck' /\ pc' \in [Proc -> Label]
         /\ call' \in [Proc -> Frame]
<1>1. ok \in Label /\ err \in Label
  BY DEF OkLabel, ErrLabel, Label, WatchLabel, CheckLabel
<1>2. call' \in [Proc -> Frame]
  BY <1>1, FrameType
<1>3. pc'[p] = "fetch" /\ call'[p].key = key /\ call'[p].ok = ok /\ call'[p].err = err
  BY DEF IInv, TypeOK, TunnelTypeOK, Enter, Goto
<1>4. ProcOK(p)'
  BY <1>3 DEF ProcOK, Ready, Permitted, ApplyLabel
<1>5. \A q \in Proc \ {p} : call'[q] = call[q]
  BY DEF IInv, TypeOK, TunnelTypeOK, Enter
<1>6. Goto(p, "fetch") /\ "fetch" \in Label
  BY DEF Enter, Label, ApplyLabel
<1> QED
  BY <1>2, <1>4, <1>5, <1>6, Moves

\* A process takes a copy of the state, to save it.
LEMMA Saves ==
  ASSUME IInv, NEW p \in Proc, NEW l \in ThenLabel(p),
         mem' \in State, SaveLater(p, mem', l), p \in Checks => pc[p] # "idle",
         UNCHANGED <<call, running>>,
         \A q \in Proc \ {p} : snap'[q] = snap[q],
         Ready(p, l)'
  PROVE  /\ Control' /\ OneCheck' /\ pc' \in [Proc -> Label]
         /\ out' \in [Proc -> Copy]
<1>1. l \in Label
  BY DEF ThenLabel, OkLabel, Label, WatchLabel, CheckLabel
<1>2. [st |-> mem', then |-> l] \in Copy
  BY <1>1 DEF Copy
<1>3. /\ out' = [out EXCEPT ![p] = [st |-> mem', then |-> l]]
      /\ Goto(p, "save") /\ "save" \in Label
  BY DEF SaveLater, Label
<1>4. out' \in [Proc -> Copy]
  BY <1>2, <1>3 DEF IInv, TypeOK, TunnelTypeOK
<1>5. /\ out'[p].st = mem' /\ out'[p].then = l
      /\ \A q \in Proc \ {p} : out'[q] = out[q]
  BY <1>3 DEF IInv, TypeOK, TunnelTypeOK
<1>6. pc'[p] = "save"
  BY <1>3 DEF IInv, TypeOK, Goto
<1>7. Ready(p, out[p].then)' /\ Ready(p, pc[p])'
  BY <1>5, <1>6 DEF Ready
<1>8. ProcOK(p)'
  BY <1>5, <1>6, <1>7 DEF ProcOK, ApplyLabel
<1> QED
  BY <1>3, <1>4, <1>5, <1>8, Moves

\* The watchdog is a process, and no check or user.
LEMMA WatchIsProc ==
  /\ Watch \in Proc /\ Watch \in Automatic
  /\ Watch \notin Checks /\ Watch \notin Users
BY AutoVpnAssumption DEF Automatic

\* So is a check,
LEMMA CheckIsProc ==
  ASSUME NEW c \in Checks
  PROVE  c \in Proc /\ c \in Automatic /\ c # Watch /\ c \notin Users
BY AutoVpnAssumption DEF Automatic

\* snap stays typed when p takes a copy, or drops it.
LEMMA SnapType ==
  ASSUME IInv, NEW p \in Proc, Snapshot(p) \/ Forget(p)
  PROVE  /\ snap' \in [Proc -> Seen \cup {None}]
         /\ \A q \in Proc \ {p} : snap'[q] = snap[q]
         /\ Snapshot(p) => snap'[p] \in Seen
<1>1. View(mem) \in Seen
  BY ViewType DEF IInv, TypeOK, TunnelTypeOK
<1> QED
  BY <1>1 DEF IInv, TypeOK, Snapshot, Forget

-----------------------------------------------------------------------------
(* The watchdog. *)

\* Wake keeps the invariant.
LEMMA WakeInv ==
  ASSUME IInv, Wake
  PROVE  IInv'
<1>1. /\ snap' \in [Proc -> Seen \cup {None}]
      /\ \A q \in Proc \ {Watch} : snap'[q] = snap[q]
      /\ snap'[Watch] \in Seen
  BY WatchIsProc, SnapType DEF Wake
<1>2. Ready(Watch, "ensure")'
  BY <1>1 DEF Ready
<1>3. "ensure" \in OwnLabel(Watch)
  BY DEF OwnLabel, WatchLabel
<1>4. Control' /\ OneCheck' /\ pc' \in [Proc -> Label]
  BY <1>1, <1>2, <1>3, WatchIsProc, GoesOn DEF Wake
<1>5. lastLive' \in 0..LiveGap
  BY AutoVpnAssumption DEF IInv, TypeOK, Wake, Elapsed
<1> QED
  BY <1>1, <1>4, <1>5 DEF IInv, TypeOK, TunnelTypeOK, Wake, tunnel, stateVars, env

\* Ensure keeps the invariant.
LEMMA EnsureInv ==
  ASSUME IInv, Ensure
  PROVE  IInv'
<1>1. snap[Watch] \in Seen
  BY WatchIsProc DEF IInv, Control, ProcOK, Ready, Ensure
<1>2. /\ Control' /\ OneCheck' /\ pc' \in [Proc -> Label]
      /\ call' \in [Proc -> Frame]
  <2>1. CASE Goto(Watch, "look") /\ UNCHANGED call
    <3>1. "look" \in OwnLabel(Watch)
      BY DEF OwnLabel, WatchLabel
    <3>2. Ready(Watch, "look")'
      BY DEF Ready
    <3> QED
      BY <2>1, <3>1, <3>2, WatchIsProc, GoesOn
         DEF IInv, TypeOK, TunnelTypeOK, Ensure, locals
  <2>2. CASE Enter(Watch, snap[Watch].active, "look", "sleep")
    <3>1. "look" \in OkLabel(Watch) /\ "sleep" \in ErrLabel(Watch)
      BY DEF OkLabel, ErrLabel
    <3>2. snap[Watch].active \in Server \cup {None}
      BY <1>1 DEF Seen
    <3> QED
      BY <1>1, <2>2, <3>1, <3>2, WatchIsProc, EntersApply DEF Ensure, locals
  <2> QED
    BY <2>1, <2>2 DEF Ensure
<1>3. faults' \in 0..MaxFaults
  BY FaultType DEF Ensure, NoFault
<1> QED
  BY <1>2, <1>3 DEF IInv, TypeOK, TunnelTypeOK, Ensure, tunnel, stateVars, locals, env

\* Look keeps the invariant.
LEMMA LookInv ==
  ASSUME IInv, Look
  PROVE  IInv'
<1>1. /\ snap' \in [Proc -> Seen \cup {None}]
      /\ \A q \in Proc \ {Watch} : snap'[q] = snap[q]
      /\ Goto(Watch, "probe") => snap'[Watch] \in Seen
      /\ Goto(Watch, "probe") \/ Goto(Watch, "sleep")
  BY WatchIsProc, SnapType DEF Look, Goto, IInv, TypeOK
<1>2. "probe" \in OwnLabel(Watch) /\ "sleep" \in OwnLabel(Watch)
  BY DEF OwnLabel, WatchLabel
<1>3. /\ Goto(Watch, "probe") => Ready(Watch, "probe")'
      /\ Ready(Watch, "sleep")'
  BY <1>1 DEF Ready
<1>4. Control' /\ OneCheck' /\ pc' \in [Proc -> Label]
  BY <1>1, <1>2, <1>3, WatchIsProc, GoesOn DEF Look
<1>5. lastLive' \in 0..LiveGap
  BY AutoVpnAssumption DEF IInv, TypeOK, Look
<1> QED
  BY <1>1, <1>4, <1>5 DEF IInv, TypeOK, TunnelTypeOK, Look, tunnel, stateVars, env

\* RecordLive keeps the invariant.
LEMMA RecordLiveInv ==
  ASSUME IInv, NEW verdict \in Verdict, NEW repaired \in BOOLEAN,
         RecordLive(verdict, repaired), NoFault, WatchOnly
  PROVE  IInv'
<1>1. /\ snap' \in [Proc -> Seen \cup {None}]
      /\ \A q \in Proc \ {Watch} : snap'[q] = snap[q]
  BY WatchIsProc, SnapType DEF RecordLive
<1>2. Ready(Watch, "sleep")'
  BY DEF Ready
<1>3. /\ Control' /\ OneCheck' /\ pc' \in [Proc -> Label]
      /\ mem' \in State /\ out' \in [Proc -> Copy]
  <2>1. CASE Changed(verdict, repaired)
    <3>1. SaveLater(Watch, mem', "sleep") /\ mem' = [mem EXCEPT !.live = verdict]
      BY <2>1 DEF RecordLive, SaveLater
    <3>2. mem' \in State
      BY <3>1 DEF IInv, TypeOK, TunnelTypeOK, State
    <3>3. "sleep" \in ThenLabel(Watch)
      BY DEF ThenLabel
    <3> QED
      BY <1>1, <1>2, <3>1, <3>2, <3>3, WatchIsProc, Saves DEF RecordLive, WatchOnly
  <2>2. CASE ~Changed(verdict, repaired)
    <3>1. "sleep" \in OwnLabel(Watch)
      BY DEF OwnLabel, WatchLabel
    <3>2. /\ Goto(Watch, "sleep") /\ UNCHANGED <<out, call>>
          /\ mem' = [mem EXCEPT !.live = verdict]
      BY <2>2 DEF RecordLive
    <3>3. mem' \in State
      BY <3>2 DEF IInv, TypeOK, TunnelTypeOK, State
    <3> QED
      BY <1>1, <1>2, <3>1, <3>2, <3>3, WatchIsProc, GoesOn
         DEF WatchOnly, IInv, TypeOK, TunnelTypeOK
  <2> QED
    BY <2>1, <2>2
<1>4. spares' \in Seq(Server)
  BY DEF RecordLive
<1> QED
  BY <1>1, <1>3, <1>4
     DEF IInv, TypeOK, TunnelTypeOK, RecordLive, NoFault, WatchOnly, tunnel, env

\* The watchdog goes on within its round, with the copy it has.
LEMMA WatchGoesOn ==
  ASSUME IInv, NEW l \in WatchLabel, Goto(Watch, l), snap[Watch] \in Seen,
         UNCHANGED <<mem, out, call, snap, spares>>, NoFault, WatchOnly
  PROVE  IInv'
<1>1. l \in OwnLabel(Watch)
  BY DEF OwnLabel
<1>2. Ready(Watch, l)'
  BY DEF Ready, WatchLabel
<1>3. Control' /\ OneCheck' /\ pc' \in [Proc -> Label]
  BY <1>1, <1>2, WatchIsProc, GoesOn DEF WatchOnly, IInv, TypeOK
<1> QED
  BY <1>3 DEF IInv, TypeOK, TunnelTypeOK, NoFault, WatchOnly, tunnel, env

\* The watchdog applies a server that its copy allows.
LEMMA WatchApplies ==
  ASSUME IInv, NEW key \in Server \cup {None},
         NEW ok \in {"reprobe", "spareprobe"},
         Enter(Watch, key, ok, "spares"), snap[Watch] \in Seen,
         snap[Watch].auto \/ key = snap[Watch].active,
         spares' \in Seq(Server),
         UNCHANGED <<mem, out, snap>>, NoFault, WatchOnly
  PROVE  IInv'
<1>1. ok \in OkLabel(Watch) /\ "spares" \in ErrLabel(Watch)
  BY DEF OkLabel, ErrLabel
<1>2. /\ Control' /\ OneCheck' /\ pc' \in [Proc -> Label]
      /\ call' \in [Proc -> Frame]
  BY <1>1, WatchIsProc, EntersApply DEF WatchOnly
<1> QED
  BY <1>2 DEF IInv, TypeOK, TunnelTypeOK, NoFault, WatchOnly, tunnel, env

\* The verdicts of a live check.
LEMMA VerdictType == {"ok", "nonet", "noauto", "dead"} \subseteq Verdict
BY DEF Verdict

\* While it verifies, the watchdog holds a copy.
LEMMA HasCopy ==
  ASSUME IInv, pc[Watch] \in {"probe", "inet", "reprobe", "spares", "spareprobe"}
  PROVE  /\ snap[Watch] \in Seen
         /\ snap[Watch].active \in Server \cup {None}
         /\ snap[Watch].results \in Seq(Server)
         /\ spares \in Seq(Server)
BY WatchIsProc DEF IInv, Control, ProcOK, Ready, Seen, TypeOK

\* Probe keeps the invariant.
LEMMA ProbeInv == ASSUME IInv, Probe PROVE IInv'
BY HasCopy, WatchGoesOn, RecordLiveInv, VerdictType DEF Probe, WatchLabel

\* Reprobe keeps the invariant.
LEMMA ReprobeInv == ASSUME IInv, Reprobe PROVE IInv'
BY HasCopy, WatchGoesOn, RecordLiveInv, VerdictType DEF Reprobe, WatchLabel

\* SpareProbe keeps the invariant.
LEMMA SpareProbeInv == ASSUME IInv, SpareProbe PROVE IInv'
BY HasCopy, WatchGoesOn, RecordLiveInv, VerdictType DEF SpareProbe, WatchLabel

\* Inet keeps the invariant.
LEMMA InetInv ==
  ASSUME IInv, Inet
  PROVE  IInv'
<1>1. CASE RecordLive("nonet", FALSE)
  BY <1>1, RecordLiveInv, VerdictType DEF Inet
<1>2. CASE ~RecordLive("nonet", FALSE)
  <2>1. SpareServers(snap[Watch]) \in Seq(Server)
    BY HasCopy, WithoutKeeps, TakeType, AutoVpnAssumption DEF Inet, SpareServers
  <2> QED
    BY <1>2, <2>1, HasCopy, WatchApplies DEF Inet
<1> QED
  BY <1>1, <1>2

\* Spares keeps the invariant.
LEMMA SparesInv ==
  ASSUME IInv, Spares
  PROVE  IInv'
<1>1. CASE RecordLive("noauto", FALSE) \/ RecordLive("dead", FALSE)
  BY <1>1, RecordLiveInv, VerdictType DEF Spares
<1>2. CASE /\ MayChangeServer /\ spares # <<>>
           /\ Enter(Watch, Head(spares), "spareprobe", "spares")
           /\ spares' = Tail(spares)
           /\ UNCHANGED <<mem, out, snap>>
  <2>1. Head(spares) \in Server /\ Tail(spares) \in Seq(Server)
    BY <1>2, HasCopy DEF Spares
  <2> QED
    BY <1>2, <2>1, HasCopy, WatchApplies DEF Spares, MayChangeServer
<1> QED
  BY <1>1, <1>2 DEF Spares

\* Watch keeps the invariant.
LEMMA WatchInv == ASSUME IInv, WatchStep PROVE IInv'
BY WakeInv, EnsureInv, LookInv, ProbeInv, InetInv, ReprobeInv, SparesInv,
   SpareProbeInv DEF WatchStep

-----------------------------------------------------------------------------
(* The checks. *)

\* A check goes on without touching the state.
LEMMA CheckGoesOn ==
  ASSUME IInv, NEW c \in Checks, NEW l \in CheckLabel, Goto(c, l),
         pc[c] # "idle", Ready(c, l), UNCHANGED <<mem, out, call, snap>>,
         listed' \in [Checks -> SUBSET Server], faults' \in 0..MaxFaults, CheckOnly
  PROVE  IInv'
<1>1. l \in OwnLabel(c) /\ l # "idle"
  BY CheckIsProc DEF OwnLabel, CheckLabel
<1>2. Ready(c, l)'
  BY DEF Ready
<1>3. Control' /\ OneCheck' /\ pc' \in [Proc -> Label]
  BY <1>1, <1>2, CheckIsProc, GoesOn DEF CheckOnly, IInv, TypeOK
<1> QED
  BY <1>3 DEF IInv, TypeOK, TunnelTypeOK, CheckOnly, tunnel, env

\* A check leaves the lock with a copy to save.
LEMMA CheckSaves ==
  ASSUME IInv, NEW c \in Checks, NEW l \in ThenLabel(c),
         SaveLater(c, mem', l), mem' \in State, pc[c] # "idle", Ready(c, l)',
         snap' \in [Proc -> Seen \cup {None}],
         \A q \in Proc \ {c} : snap'[q] = snap[q],
         listed' \in [Checks -> SUBSET Server],
         UNCHANGED call, NoFault, CheckOnly
  PROVE  IInv'
<1>1. /\ Control' /\ OneCheck' /\ pc' \in [Proc -> Label]
      /\ out' \in [Proc -> Copy]
  BY CheckIsProc, Saves DEF CheckOnly
<1> QED
  BY <1>1 DEF IInv, TypeOK, TunnelTypeOK, NoFault, CheckOnly, tunnel, env

\* What a check holds at each label (from Control).
LEMMA CheckHolds ==
  ASSUME IInv, NEW c \in Checks
  PROVE  /\ pc[c] \in {"decide", "refresh", "choose"} =>
              /\ snap[c] \in Seen
              /\ snap[c].active \in Server \cup {None}
              /\ snap[c].results \in Seq(Server)
         /\ pc[c] \in {"refresh", "choose"} =>
              snap[c].auto /\ snap[c].results # <<>>
         /\ listed \in [Checks -> SUBSET Server]
         /\ faults \in 0..MaxFaults
BY CheckIsProc DEF IInv, TypeOK, TunnelTypeOK, Control, ProcOK, Ready, Seen

\* CheckServers keeps the invariant.
LEMMA CheckServersInv ==
  ASSUME IInv, NEW c \in Checks, CheckServers(c)
  PROVE  IInv'
<1>1. Listed \in SUBSET Server
  BY DEF IInv, TypeOK, TunnelTypeOK, State, Listed
<1>2. listed' \in [Checks -> SUBSET Server]
  BY <1>1, CheckHolds DEF CheckServers
<1>3. faults' \in 0..MaxFaults
  BY FaultType DEF CheckServers
<1>4. Ready(c, "measure") /\ Ready(c, "failed")
  BY DEF Ready
<1>5. "measure" \in CheckLabel /\ "failed" \in CheckLabel
  BY DEF CheckLabel
<1> QED
  BY <1>2, <1>3, <1>4, <1>5, CheckGoesOn DEF CheckServers

\* CheckResults keeps the invariant.
LEMMA CheckResultsInv ==
  ASSUME IInv, NEW c \in Checks, CheckResults(c)
  PROVE  IInv'
<1>1. PICK r \in Rankings(listed[c]) :
        /\ SaveLater(c, [mem EXCEPT !.results = r], "decide")
        /\ snap' = [snap EXCEPT ![c] = View(mem')]
  BY DEF CheckResults
<1>2. r \in Seq(Server)
  <2>1. listed[c] \subseteq Server
    BY CheckHolds
  <2>2. r \in Seq(listed[c])
    BY RankingsType
  <2> QED
    BY <2>1, <2>2
<1>3. mem' \in State /\ SaveLater(c, mem', "decide")
  BY <1>1, <1>2 DEF IInv, TypeOK, TunnelTypeOK, State, SaveLater
<1>4. View(mem') \in Seen
  BY <1>3, ViewType
<1>5. /\ snap' \in [Proc -> Seen \cup {None}] /\ snap'[c] \in Seen
      /\ \A q \in Proc \ {c} : snap'[q] = snap[q]
  BY <1>1, <1>4, CheckIsProc DEF IInv, TypeOK
<1>6. Ready(c, "decide")'
  BY <1>5 DEF Ready
<1>7. listed' \in [Checks -> SUBSET Server]
  BY CheckHolds DEF CheckResults
<1>8. "decide" \in ThenLabel(c)
  BY CheckIsProc DEF ThenLabel
<1> QED
  BY <1>3, <1>5, <1>6, <1>7, <1>8, CheckSaves DEF CheckResults

\* Decide keeps the invariant.
LEMMA DecideInv ==
  ASSUME IInv, NEW c \in Checks, Decide(c)
  PROVE  IInv'
<1>1. PICK l \in {"refresh", "choose", "release"} :
        Goto(c, l) /\ (l # "release" => MayApply(c))
  BY DEF Decide
<1>2. Ready(c, l)
  BY <1>1, CheckHolds DEF Decide, Ready, MayApply
<1>3. l \in CheckLabel
  BY DEF CheckLabel
<1> QED
  BY <1>1, <1>2, <1>3, CheckHolds, CheckGoesOn DEF Decide, NoFault

\* RefreshWinner keeps the invariant.
LEMMA RefreshWinnerInv ==
  ASSUME IInv, NEW c \in Checks, RefreshWinner(c)
  PROVE  IInv'
<1>1. PICK i \in DOMAIN snap[c].results :
        /\ SaveLater(c, [mem EXCEPT !.results = Sink(snap[c].results, i)], "choose")
        /\ snap' = [snap EXCEPT ![c].results = Sink(snap[c].results, i)]
  BY DEF RefreshWinner
<1> DEFINE r == Sink(snap[c].results, i)
<1>2. r \in Seq(Server) /\ r # <<>>
  BY SinkType, CheckHolds DEF RefreshWinner
<1>3. mem' \in State /\ SaveLater(c, mem', "choose")
  BY <1>1, <1>2 DEF IInv, TypeOK, TunnelTypeOK, State, SaveLater
<1>4. [snap[c] EXCEPT !.results = r] \in Seen /\ snap[c].auto
  BY <1>2, CheckHolds DEF RefreshWinner, Seen
<1>5. snap' = [snap EXCEPT ![c] = [snap[c] EXCEPT !.results = r]]
  BY <1>1
<1>6. /\ snap' \in [Proc -> Seen \cup {None}]
      /\ snap'[c] = [snap[c] EXCEPT !.results = r]
      /\ \A q \in Proc \ {c} : snap'[q] = snap[q]
  BY <1>4, <1>5, CheckIsProc DEF IInv, TypeOK
<1>7. snap[c] \in Seen
  BY CheckHolds DEF RefreshWinner
<1>8. snap'[c].auto /\ snap'[c].results # <<>>
  BY <1>2, <1>4, <1>6, <1>7 DEF Seen
<1>9. Ready(c, "choose")'
  BY <1>4, <1>6, <1>8 DEF Ready
<1>10. "choose" \in ThenLabel(c)
  BY CheckIsProc DEF ThenLabel
<1> QED
  BY <1>3, <1>6, <1>9, <1>10, CheckHolds, CheckSaves DEF RefreshWinner

\* Choose keeps the invariant.
LEMMA ChooseInv ==
  ASSUME IInv, NEW c \in Checks, Choose(c)
  PROVE  IInv'
<1>1. CASE Goto(c, "release") /\ UNCHANGED call
  <2>1. Ready(c, "release") /\ "release" \in CheckLabel
    BY DEF Ready, CheckLabel
  <2> QED
    BY <1>1, <2>1, CheckHolds, CheckGoesOn DEF Choose, NoFault
<1>2. CASE Enter(c, Head(snap[c].results), "release", "failed")
  <2>1. Head(snap[c].results) \in Server /\ snap[c] \in Seen /\ snap[c].auto
    BY CheckHolds DEF Choose
  <2>2. "release" \in OkLabel(c) /\ "failed" \in ErrLabel(c)
    BY CheckIsProc DEF OkLabel, ErrLabel
  <2>3. /\ Control' /\ OneCheck' /\ pc' \in [Proc -> Label]
        /\ call' \in [Proc -> Frame]
    BY <1>2, <2>1, <2>2, CheckIsProc, EntersApply DEF Choose, CheckOnly
  <2> QED
    BY <2>3 DEF IInv, TypeOK, TunnelTypeOK, Choose, NoFault, CheckOnly, tunnel, env
<1> QED
  BY <1>1, <1>2 DEF Choose

\* RecordError keeps the invariant.
LEMMA RecordErrorInv ==
  ASSUME IInv, NEW c \in Checks, RecordError(c)
  PROVE  IInv'
<1>1. mem' \in State /\ SaveLater(c, mem', "release")
  BY DEF IInv, TypeOK, TunnelTypeOK, RecordError, SaveLater
<1>2. Ready(c, "release")'
  BY DEF Ready
<1>3. "release" \in ThenLabel(c)
  BY CheckIsProc DEF ThenLabel, OkLabel
<1>4. /\ snap' \in [Proc -> Seen \cup {None}]
      /\ \A q \in Proc \ {c} : snap'[q] = snap[q]
      /\ listed' \in [Checks -> SUBSET Server]
  BY DEF IInv, TypeOK, RecordError
<1> QED
  BY <1>1, <1>2, <1>3, <1>4, CheckSaves DEF RecordError

\* SiteCheck keeps the invariant.
LEMMA SiteCheckInv ==
  ASSUME IInv, NEW c \in Checks, SiteCheck(c)
  PROVE  IInv'
<1>1. Ready(c, "release") /\ "release" \in CheckLabel
  BY DEF Ready, CheckLabel
<1> QED
  BY <1>1, CheckHolds, CheckGoesOn
     DEF SiteCheck, CheckOnly, stateVars, locals, IInv, TypeOK

\* A check begins: the flag was down, so no other check is under way.
LEMMA StartInv ==
  ASSUME IInv, NEW c \in Checks, StartCheck(c) \/ StartSiteCheck(c)
  PROVE  IInv'
<1>1. PICK l \in {"servers", "site"} : pc' = [pc EXCEPT ![c] = l]
  BY DEF StartCheck, StartSiteCheck, Goto
<1>2. /\ l \in OwnLabel(c) /\ l \in Label /\ l # "idle"
      /\ l # "save" /\ l \notin ApplyLabel
  BY CheckIsProc DEF OwnLabel, Label, CheckLabel, ApplyLabel
<1>3. Ready(c, l)'
  BY DEF Ready
<1>4. pc'[c] = l /\ pc' \in [Proc -> Label] /\ \A q \in Proc \ {c} : pc'[q] = pc[q]
  BY <1>1, <1>2, CheckIsProc DEF IInv, TypeOK
<1>5. UNCHANGED <<call, out, snap>>
  BY DEF StartCheck, StartSiteCheck, locals
<1>6. Control'
  <2>1. ProcOK(c)'
    BY <1>2, <1>3, <1>4 DEF ProcOK
  <2> QED
    BY <1>4, <1>5, <2>1, CheckIsProc, OthersKeep DEF IInv
<1>7. OneCheck'
  <2>1. ~running /\ running' = TRUE
    BY DEF StartCheck, StartSiteCheck
  <2>2. \A d \in Checks : Busy(d)' <=> d = c
    BY <1>2, <1>4, <2>1, CheckIsProc DEF IInv, OneCheck, Busy
  <2> QED
    BY <2>1, <2>2 DEF OneCheck
<1>8. TypeOK'
  BY <1>4 DEF IInv, TypeOK, TunnelTypeOK, StartCheck, StartSiteCheck, tunnel,
              stateVars, locals, env
<1> QED
  BY <1>6, <1>7, <1>8 DEF IInv

\* The check that ends is the only one, so the flag may go down.
LEMMA ReleaseInv ==
  ASSUME IInv, NEW c \in Checks, Release(c)
  PROVE  IInv'
<1>1. /\ pc'[c] = "idle" /\ pc' \in [Proc -> Label]
      /\ \A q \in Proc \ {c} : pc'[q] = pc[q]
  BY CheckIsProc DEF IInv, TypeOK, Release, Goto, Label
<1>2. /\ snap' \in [Proc -> Seen \cup {None}]
      /\ \A q \in Proc \ {c} : snap'[q] = snap[q]
  BY CheckIsProc, SnapType DEF Release
<1>3. Control'
  <2>1. ProcOK(c)'
    BY <1>1, CheckIsProc DEF ProcOK, OwnLabel, ApplyLabel, Ready
  <2> QED
    BY <1>1, <1>2, <2>1, CheckIsProc, OthersKeep DEF IInv, Release
<1>4. OneCheck'
  <2>1. Busy(c)
    BY DEF Release, Busy
  <2>2. \A d \in Checks : ~Busy(d)'
    BY <1>1, <2>1, CheckIsProc DEF IInv, OneCheck, Busy
  <2> QED
    BY <2>2 DEF OneCheck, Release
<1>5. TypeOK'
  BY <1>1, <1>2 DEF IInv, TypeOK, TunnelTypeOK, Release, tunnel, stateVars, env
<1> QED
  BY <1>3, <1>4, <1>5 DEF IInv

\* Check keeps the invariant.
LEMMA CheckInv == ASSUME IInv, NEW c \in Checks, CheckStep(c) PROVE IInv'
BY SiteCheckInv, CheckServersInv, CheckResultsInv, DecideInv, RefreshWinnerInv,
   ChooseInv, RecordErrorInv, ReleaseInv DEF CheckStep

-----------------------------------------------------------------------------
(* The user and the environment. *)

\* and a user, who is not automatic.
LEMMA UserIsProc ==
  ASSUME NEW u \in Users
  PROVE  u \in Proc /\ u \notin Automatic /\ u \notin Checks /\ u # Watch
BY AutoVpnAssumption DEF Automatic

\* UserApply keeps the invariant.
LEMMA UserApplyInv ==
  ASSUME IInv, NEW u \in Users, UserApply(u)
  PROVE  IInv'
<1>1. PICK key \in Server : Enter(u, key, "idle", "idle")
  BY DEF UserApply
<1>2. "idle" \in OkLabel(u) /\ "idle" \in ErrLabel(u)
  BY UserIsProc DEF OkLabel, ErrLabel
<1>3. /\ Control' /\ OneCheck' /\ pc' \in [Proc -> Label]
      /\ call' \in [Proc -> Frame]
  BY <1>1, <1>2, UserIsProc, EntersApply DEF UserApply, locals
<1> QED
  BY <1>3 DEF IInv, TypeOK, TunnelTypeOK, UserApply, tunnel, stateVars, locals, env

\* Tab keeps the invariant.
LEMMA TabInv ==
  ASSUME IInv, NEW u \in Users, CloseTab(u) \/ NewTab(u)
  PROVE  IInv'
<1>1. Control' /\ OneCheck' /\ pc' \in [Proc -> Label]
  BY NobodyMoves DEF CloseTab, NewTab, procVars, locals
<1> QED
  BY <1>1, UserIsProc DEF IInv, TypeOK, TunnelTypeOK, CloseTab, NewTab, tunnel,
                          stateVars, procVars, locals, env

\* UpdateSettings keeps the invariant.
LEMMA UpdateSettingsInv ==
  ASSUME IInv, UpdateSettings
  PROVE  IInv'
<1>1. Control' /\ OneCheck' /\ pc' \in [Proc -> Label]
  BY NobodyMoves DEF UpdateSettings, procVars, locals
<1>2. mem' \in State /\ disk' \in State
  <2>1. PICK s \in Settings :
          mem' = [mem EXCEPT !.url = s.url, !.auto = s.auto,
                             !.liveCheck = s.liveCheck,
                             !.results = IF s.url = mem.url THEN @ ELSE <<>>]
    BY DEF UpdateSettings
  <2>2. s.url \in Url \cup {None} /\ s.auto \in BOOLEAN /\ s.liveCheck \in BOOLEAN
    BY AutoVpnAssumption
  <2>3. mem \in State
    BY DEF IInv, TypeOK, TunnelTypeOK
  <2>4. (IF s.url = mem.url THEN mem.results ELSE <<>>) \in Seq(Server)
    BY <2>3 DEF State
  <2>5. mem' \in State
    BY <2>1, <2>2, <2>3, <2>4 DEF State
  <2> QED
    BY <2>5 DEF UpdateSettings
<1> QED
  BY <1>1, <1>2 DEF IInv, TypeOK, TunnelTypeOK, UpdateSettings, tunnel, procVars,
                    locals, env

\* After a restart all processes are at their start.
LEMMA AtRest ==
  ASSUME pc' = [p \in Proc |-> IF p = Watch THEN "sleep" ELSE "idle"],
         running' = FALSE
  PROVE  Control' /\ OneCheck' /\ pc' \in [Proc -> Label]
<1>1. ASSUME NEW p \in Proc PROVE ProcOK(p)'
  BY DEF ProcOK, Ready, OwnLabel, ApplyLabel, WatchLabel
<1>2. \A c \in Checks : ~Busy(c)'
  BY CheckIsProc DEF Busy
<1>3. pc' \in [Proc -> Label]
  BY DEF Label, WatchLabel
<1> QED
  BY <1>1, <1>2, <1>3 DEF Control, OneCheck

\* RestartService keeps the invariant.
LEMMA RestartServiceInv ==
  ASSUME IInv, ServiceRestart
  PROVE  IInv'
<1>1. Control' /\ OneCheck' /\ pc' \in [Proc -> Label]
  BY AtRest DEF ServiceRestart
<1>2. call' \in [Proc -> Frame] /\ out' \in [Proc -> Copy]
  BY EmptyTypes DEF ServiceRestart
<1>3. boots' \in 0..MaxBoots /\ lastLive' \in 0..LiveGap /\ spares' \in Seq(Server)
  BY AutoVpnAssumption DEF IInv, TypeOK, ServiceRestart
<1> QED
  BY <1>1, <1>2, <1>3 DEF IInv, TypeOK, TunnelTypeOK, ServiceRestart

\* Environment keeps the invariant.
LEMMA EnvironmentInv ==
  ASSUME IInv, Environment
  PROVE  IInv'
<1>1. CASE (Upgrade \/ TunnelDies \/ Withdraw) /\ UNCHANGED <<running, locals, env>>
  <2>1. Control' /\ OneCheck' /\ pc' \in [Proc -> Label]
    BY <1>1, NobodyMoves DEF Upgrade, TunnelDies, Withdraw, procVars, locals
  <2>2. faults' \in 0..MaxFaults
    BY <1>1, FaultType DEF Upgrade, TunnelDies, Withdraw
  <2>3. sub' \in [Url -> SUBSET Server]
    BY <1>1 DEF IInv, TypeOK, TunnelTypeOK, Upgrade, TunnelDies, Withdraw
  <2> QED
    BY <1>1, <2>1, <2>2, <2>3
       DEF IInv, TypeOK, TunnelTypeOK, Upgrade, TunnelDies, Withdraw, tunnel,
           stateVars, procVars, locals, env
<1>2. CASE ServerDies \/ NetDown \/ NetUp
  <2>1. Control' /\ OneCheck' /\ pc' \in [Proc -> Label]
    BY <1>2, NobodyMoves DEF ServerDies, NetDown, NetUp, procVars, locals
  <2>2. faults' \in 0..MaxFaults
    BY <1>2, FaultType DEF ServerDies, NetDown, NetUp, NoFault
  <2> QED
    BY <1>2, <2>1, <2>2
       DEF IInv, TypeOK, TunnelTypeOK, ServerDies, NetDown, NetUp, tunnel,
           stateVars, procVars, locals
<1> QED
  BY <1>1, <1>2, RestartServiceInv DEF Environment

-----------------------------------------------------------------------------
(* The theorems. *)

\* The invariant holds at first.
LEMMA InitInv ==
  ASSUME Init
  PROVE  IInv
<1>1. ASSUME NEW p \in Proc PROVE ProcOK(p)
  BY DEF Init, ProcOK, Ready, OwnLabel, ApplyLabel, WatchLabel
<1>2. OneCheck
  BY CheckIsProc DEF Init, OneCheck, Busy
<1>3. pc \in [Proc -> Label]
  BY DEF Init, Label, WatchLabel
<1>4. mem \in State /\ conf \in Server \cup {None}
  BY AutoVpnAssumption DEF Init, State
<1>5. TunnelTypeOK
  BY <1>4, EmptyTypes, TunnelAssumption, AutoVpnAssumption DEF Init, TunnelTypeOK
<1>6. TypeOK
  <2>1. snap \in [Proc -> Seen \cup {None}] /\ listed \in [Checks -> SUBSET Server]
    BY DEF Init
  <2>2. running \in BOOLEAN /\ net \in BOOLEAN /\ up \subseteq Server
    BY DEF Init
  <2>3. spares \in Seq(Server) /\ lastLive \in 0..LiveGap /\ boots \in 0..MaxBoots
    BY AutoVpnAssumption DEF Init
  <2> QED
    BY <1>3, <1>5, <2>1, <2>2, <2>3 DEF TypeOK
<1> QED
  BY <1>1, <1>2, <1>6 DEF IInv, Control

\* Every step keeps the invariant.
LEMMA NextInv ==
  ASSUME IInv, [Next]_vars
  PROVE  IInv'
<1>1. CASE UNCHANGED vars
  BY <1>1 DEF vars, IInv, TypeOK, TunnelTypeOK, Control, ProcOK, Ready, Permitted,
              OneCheck, Busy, tunnel, stateVars, procVars, locals, env
<1>2. CASE Next
  BY <1>2, ApplyInv, WatchInv, StartInv, CheckInv, UserApplyInv, TabInv,
     UpdateSettingsInv, EnvironmentInv DEF Next
<1> QED
  BY <1>1, <1>2

\* The invariant holds for any processes and servers.
THEOREM Invariant == Spec => []IInv
BY InitInv, NextInv, PTL DEF Spec

\* Every variable keeps its type, for any number of servers, links, checks
\* and users, and any bound on failures and restarts.
THEOREM TypesHold == Spec => []TypeOK
<1>1. IInv => TypeOK
  BY DEF IInv
<1> QED
  BY <1>1, Invariant, PTL

\* StartCheck, StartSiteCheck and the deferred release: at most one check is
\* under way, and the flag says so exactly as long as it lasts.
THEOREM ChecksExclude == Spec => []OneCheck
<1>1. IInv => OneCheck
  BY DEF IInv
<1> QED
  BY <1>1, Invariant, PTL

\* liveVerify and runCheck: whenever the service is inside Apply on its own
\* account, the copy it decides by allows the change, or the key is the
\* active server of that copy.
THEOREM OnlyWithConsent == Spec => []Consent
<1>1. IInv => Consent
  <2>1. SUFFICES ASSUME IInv, NEW p \in Automatic, pc[p] \in ApplyLabel
                 PROVE  snap[p] \in Seen /\ (snap[p].auto \/ call[p].key = snap[p].active)
    BY DEF Consent
  <2>2. p \in Proc
    BY AutoVpnAssumption DEF Automatic
  <2> QED
    BY <2>1, <2>2 DEF IInv, Control, ProcOK, Permitted
<1> QED
  BY <1>1, Invariant, PTL

-----------------------------------------------------------------------------
(***************************************************************************)
(* One Apply at a time implements ServerSwitch                             *)
(***************************************************************************)

\* What an Apply may rely on while no other overlaps it: a backup it took is
\* of the configuration it replaces, and from the write to the record the
\* configuration is that of its key, unless an upgrade deleted both files.
SwitchOK(p) ==
  /\ pc[p] \in ApplyLabel \ {"fetch"} => call[p].key \in Server
  /\ pc[p] \in {"fetch", "backup"} => ~call[p].had
  /\ pc[p] = "write" => conf = IF call[p].had THEN bak ELSE None
  /\ pc[p] \in {"restart", "wait", "raise", "commit"} =>
       \/ conf = call[p].key
       \/ conf = None /\ (call[p].had => bak = None)

Switches == \A p \in Proc : SwitchOK(p)

\* A process outside Apply needs nothing.
LEMMA NotApplying ==
  ASSUME NEW p, pc[p] \notin ApplyLabel
  PROVE  SwitchOK(p)
BY DEF SwitchOK, ApplyLabel

\* What holds of an Apply goes on to hold while the files and its frame are
\* left alone, whether it moves within Apply or not.
LEMMA SwitchKept ==
  ASSUME NEW q, SwitchOK(q), pc'[q] = pc[q], call'[q] = call[q],
         \/ UNCHANGED <<conf, bak>>
         \/ conf' = None /\ bak' = None
  PROVE  SwitchOK(q)'
BY DEF SwitchOK

\* A step of p keeps Switches if it keeps it of p, and the others are left
\* alone or are outside Apply.
LEMMA SwitchesKept ==
  ASSUME Switches, OneSwitcher, NEW p \in Proc, SwitchOK(p)',
         pc[p] \in ApplyLabel \/ UNCHANGED <<conf, bak>>,
         \A q \in Proc \ {p} : pc'[q] = pc[q] /\ call'[q] = call[q]
  PROVE  Switches'
<1>1. ASSUME NEW q \in Proc \ {p} PROVE SwitchOK(q)'
  <2>1. CASE pc[p] \in ApplyLabel
    <3>1. pc[q] \notin ApplyLabel
      BY <2>1 DEF OneSwitcher
    <3> QED
      BY <3>1 DEF SwitchOK, ApplyLabel
  <2>2. CASE UNCHANGED <<conf, bak>>
    BY <2>2, SwitchKept DEF Switches
  <2> QED
    BY <2>1, <2>2
<1> QED
  BY <1>1 DEF Switches

\* Every step of Apply keeps it.
LEMMA ApplySwitches ==
  ASSUME IInv, Switches, OneSwitcher, NEW p \in Proc, Apply(p)
  PROVE  Switches'
<1>1. /\ pc \in [Proc -> Label] /\ call \in [Proc -> Frame]
      /\ conf \in Server \cup {None} /\ bak \in Server \cup {None}
      /\ Listed \subseteq Server
  BY DEF IInv, TypeOK, TunnelTypeOK, Listed, State
<1>2. SwitchOK(p)
  BY DEF Switches
<1>3. ASSUME NEW l, Return(p, l), l \notin ApplyLabel
      PROVE  /\ SwitchOK(p)'
             /\ \A q \in Proc \ {p} : pc'[q] = pc[q] /\ call'[q] = call[q]
  BY <1>1, <1>3, NotApplying DEF Return, Goto, SwitchOK, ApplyLabel
<1>4. ASSUME NEW l, Goto(p, l), UNCHANGED call
      PROVE  /\ pc'[p] = l /\ call'[p] = call[p]
             /\ \A q \in Proc \ {p} : pc'[q] = pc[q] /\ call'[q] = call[q]
  BY <1>1, <1>4 DEF Goto
<1>5. pc[p] \in ApplyLabel => call[p].err \notin ApplyLabel
  BY DEF IInv, Control, ProcOK, ErrLabel, ApplyLabel
<1>6. CASE Fetch(p)
  BY <1>1, <1>2, <1>3, <1>4, <1>5, <1>6, SwitchesKept
     DEF Fetch, SwitchOK, ApplyLabel, tunnel
<1>7. CASE BackupConfig(p)
  <2>1. CASE conf # None /\ bak' = conf /\ call' = [call EXCEPT ![p].had = TRUE] /\ Goto(p, "write")
    <3>1. /\ pc'[p] = "write" /\ call'[p].had /\ call'[p].key = call[p].key
          /\ \A q \in Proc \ {p} : pc'[q] = pc[q] /\ call'[q] = call[q]
      BY <1>1, <2>1 DEF Goto, Frame
    <3>2. SwitchOK(p)'
      BY <1>2, <1>7, <2>1, <3>1 DEF SwitchOK, BackupConfig, ApplyLabel
    <3> QED
      BY <1>7, <3>1, <3>2, SwitchesKept DEF BackupConfig, ApplyLabel
  <2>2. CASE conf = None /\ Goto(p, "write") /\ UNCHANGED <<bak, call>>
    <3>1. SwitchOK(p)'
      BY <1>2, <1>4, <1>7, <2>2 DEF SwitchOK, BackupConfig, ApplyLabel
    <3> QED
      BY <1>4, <1>7, <2>2, <3>1, SwitchesKept DEF BackupConfig, ApplyLabel
  <2>3. CASE Return(p, call[p].err) /\ UNCHANGED bak
    BY <1>3, <1>5, <1>7, <2>3, SwitchesKept DEF BackupConfig, ApplyLabel
  <2> QED
    BY <1>7, <2>1, <2>2, <2>3 DEF BackupConfig
<1>8. CASE WriteConf(p)
  <2>1. CASE conf' = call[p].key /\ Goto(p, "restart") /\ UNCHANGED call
    <3>1. SwitchOK(p)'
      BY <1>2, <1>4, <1>8, <2>1 DEF SwitchOK, WriteConf, ApplyLabel
    <3> QED
      BY <1>4, <1>8, <2>1, <3>1, SwitchesKept DEF WriteConf, ApplyLabel
  <2>2. CASE Return(p, call[p].err) /\ UNCHANGED conf
    BY <1>3, <1>5, <1>8, <2>2, SwitchesKept DEF WriteConf, ApplyLabel
  <2> QED
    BY <1>8, <2>1, <2>2 DEF WriteConf
<1>9. CASE RestartXray(p)
  <2>1. SwitchOK(p)'
    BY <1>2, <1>4, <1>9 DEF SwitchOK, RestartXray, ApplyLabel
  <2> QED
    BY <1>4, <1>9, <2>1, SwitchesKept DEF RestartXray, ApplyLabel
<1>10. CASE WaitProxy(p)
  <2>1. SwitchOK(p)'
    BY <1>2, <1>4, <1>10 DEF SwitchOK, WaitProxy, ApplyLabel, tunnel
  <2> QED
    BY <1>4, <1>10, <2>1, SwitchesKept DEF WaitProxy, ApplyLabel
<1>11. CASE RaiseInterface(p)
  <2>1. SwitchOK(p)'
    BY <1>2, <1>4, <1>11 DEF SwitchOK, RaiseInterface, ApplyLabel
  <2> QED
    BY <1>4, <1>11, <2>1, SwitchesKept DEF RaiseInterface, ApplyLabel
<1>12. CASE Commit(p)
  <2>1. /\ pc'[p] = "save"
        /\ \A q \in Proc \ {p} : pc'[q] = pc[q] /\ call'[q] = call[q]
    BY <1>1, <1>12 DEF Commit, SaveLater, Goto
  <2>2. SwitchOK(p)'
    BY <2>1 DEF SwitchOK, ApplyLabel
  <2> QED
    BY <1>12, <2>1, <2>2, SwitchesKept DEF Commit, ApplyLabel
<1>13. CASE Rollback(p)
  <2>1. CASE conf' = bak /\ Goto(p, "unrestart") /\ UNCHANGED call
    <3>1. SwitchOK(p)'
      BY <1>2, <1>4, <1>13, <2>1 DEF SwitchOK, Rollback, ApplyLabel
    <3> QED
      BY <1>4, <1>13, <2>1, <3>1, SwitchesKept DEF Rollback, ApplyLabel
  <2>2. CASE Return(p, call[p].err) /\ UNCHANGED conf
    BY <1>3, <1>5, <1>13, <2>2, SwitchesKept DEF Rollback, ApplyLabel
  <2> QED
    BY <1>13, <2>1, <2>2 DEF Rollback
<1>14. CASE RollbackRestart(p)
  BY <1>3, <1>5, <1>14, SwitchesKept DEF RollbackRestart, ApplyLabel
<1>15. CASE SaveState(p)
  <2>1. out[p].then \notin ApplyLabel
    BY <1>15, AutoVpnAssumption
       DEF IInv, Control, ProcOK, SaveState, ThenLabel, OkLabel, ApplyLabel
  <2>2. SwitchOK(p)'
    BY <1>4, <1>15, <2>1 DEF SaveState, SwitchOK, ApplyLabel
  <2> QED
    BY <1>4, <1>15, <2>2, SwitchesKept DEF SaveState, tunnel
<1> QED
  BY <1>6, <1>7, <1>8, <1>9, <1>10, <1>11, <1>12, <1>13, <1>14, <1>15
     DEF Apply, ApplyStep

\* A step that touches no running Apply, neither file, and neither the
\* active server nor the count of restarts.
Quiet ==
  /\ \A p \in Proc :
       \/ pc'[p] = pc[p] /\ call'[p] = call[p]
       \/ /\ pc[p] \notin ApplyLabel
          /\ pc'[p] \notin ApplyLabel \/ (pc'[p] = "fetch" /\ ~call'[p].had)
  /\ UNCHANGED <<conf, bak, boots>>
  /\ mem'.active = mem.active
  /\ Fault \/ NoFault

\* Such a step keeps Switches.
LEMMA QuietSwitches == ASSUME Switches, Quiet PROVE Switches'
BY SwitchKept DEF Switches, Quiet, SwitchOK, ApplyLabel

\* One process moves, outside Apply or into it.
LEMMA OneMoves ==
  ASSUME IInv, NEW p \in Proc, pc[p] \notin ApplyLabel,
         \/ \E l \in Label \ ApplyLabel : Goto(p, l) /\ UNCHANGED call
         \/ \E key, ok, err : Enter(p, key, ok, err),
         UNCHANGED <<conf, bak, boots>>, mem'.active = mem.active, Fault \/ NoFault
  PROVE  Quiet
<1>1. pc \in [Proc -> Label] /\ call \in [Proc -> Frame]
  BY DEF IInv, TypeOK, TunnelTypeOK
<1>2. CASE \E l \in Label \ ApplyLabel : Goto(p, l) /\ UNCHANGED call
  BY <1>1, <1>2 DEF Goto, Quiet
<1>3. CASE \E key, ok, err : Enter(p, key, ok, err)
  BY <1>1, <1>3 DEF Enter, Goto, Quiet
<1> QED
  BY <1>2, <1>3

\* The labels outside Apply.
LEMMA OutsideLabels ==
  /\ WatchLabel \cup CheckLabel \cup {"save", "idle"} \subseteq Label \ ApplyLabel
BY DEF WatchLabel, CheckLabel, Label, ApplyLabel

\* RecordLive is quiet.
LEMMA RecordLiveQuiet ==
  ASSUME IInv, NEW verdict, NEW repaired, RecordLive(verdict, repaired),
         pc[Watch] \notin ApplyLabel, NoFault, WatchOnly
  PROVE  Quiet
<1>1. mem' = [mem EXCEPT !.live = verdict] /\ mem \in State
  BY DEF RecordLive, SaveLater, IInv, TypeOK, TunnelTypeOK
<1>2. mem'.active = mem.active
  BY <1>1 DEF State
<1>3. (Goto(Watch, "sleep") \/ Goto(Watch, "save")) /\ UNCHANGED call
  BY DEF RecordLive, SaveLater
<1>4. {"sleep", "save"} \subseteq Label \ ApplyLabel
  BY OutsideLabels DEF WatchLabel
<1> QED
  BY <1>2, <1>3, <1>4, WatchIsProc, OneMoves DEF WatchOnly, tunnel, env

\* Every step of the watchdog outside Apply is quiet.
LEMMA WatchQuiet == ASSUME IInv, WatchStep PROVE Quiet
<1>1. WatchLabel \subseteq Label \ ApplyLabel
  BY OutsideLabels
<1>2. pc[Watch] \in WatchLabel /\ pc[Watch] \notin ApplyLabel
  BY <1>1 DEF WatchStep, Wake, Ensure, Look, Probe, Inet, Reprobe, Spares,
              SpareProbe, WatchLabel
<1>3. CASE Wake \/ Ensure \/ Look
  <2>1. \/ \E l \in WatchLabel : Goto(Watch, l) /\ UNCHANGED call
        \/ \E key, ok, err : Enter(Watch, key, ok, err)
    BY <1>3 DEF Wake, Ensure, Look, WatchLabel
  <2>2. /\ UNCHANGED <<conf, bak, boots>> /\ mem' = mem
        /\ Fault \/ NoFault
    BY <1>3 DEF Wake, Ensure, Look, NoFault, tunnel, stateVars, env
  <2> QED
    BY <1>1, <1>2, <2>1, <2>2, WatchIsProc, OneMoves
<1>4. CASE Probe \/ Reprobe \/ SpareProbe
  <2>1. CASE \E verdict, repaired : RecordLive(verdict, repaired)
    BY <1>2, <1>4, <2>1, RecordLiveQuiet DEF Probe, Reprobe, SpareProbe
  <2>2. CASE \E l \in WatchLabel : Goto(Watch, l) /\ UNCHANGED <<mem, call>>
    BY <1>1, <1>2, <1>4, <2>2, WatchIsProc, OneMoves
       DEF Probe, Reprobe, SpareProbe, WatchOnly, tunnel, env
  <2> QED
    BY <1>4, <2>1, <2>2 DEF Probe, Reprobe, SpareProbe, WatchLabel
<1>5. CASE Inet \/ Spares
  <2>1. CASE \E verdict, repaired : RecordLive(verdict, repaired)
    BY <1>2, <1>5, <2>1, RecordLiveQuiet DEF Inet, Spares
  <2>2. CASE \E key, ok, err : Enter(Watch, key, ok, err) /\ UNCHANGED mem
    BY <1>2, <1>5, <2>2, WatchIsProc, OneMoves
       DEF Inet, Spares, WatchOnly, tunnel, env
  <2> QED
    BY <1>5, <2>1, <2>2 DEF Inet, Spares
<1> QED
  BY <1>3, <1>4, <1>5 DEF WatchStep

\* So is every step of a check.
LEMMA CheckQuiet ==
  ASSUME IInv, NEW c \in Checks, StartCheck(c) \/ StartSiteCheck(c) \/ CheckStep(c)
  PROVE  Quiet
<1>1. CheckLabel \cup {"idle", "save"} \subseteq Label \ ApplyLabel
  BY OutsideLabels
<1>2. c \in Proc /\ pc[c] \notin ApplyLabel
  BY <1>1, CheckIsProc
     DEF StartCheck, StartSiteCheck, CheckStep, SiteCheck, CheckServers,
         CheckResults, Decide, RefreshWinner, Choose, RecordError, Release, CheckLabel
<1>3. mem \in State
  BY DEF IInv, TypeOK, TunnelTypeOK
<1>4. CASE StartCheck(c) \/ StartSiteCheck(c) \/ SiteCheck(c) \/ Release(c)
  BY <1>1, <1>2, <1>4, OneMoves
     DEF StartCheck, StartSiteCheck, SiteCheck, Release, CheckLabel, tunnel,
         stateVars, locals, env, NoFault
<1>5. CASE CheckServers(c) \/ Decide(c)
  BY <1>1, <1>2, <1>5, OneMoves
     DEF CheckServers, Decide, CheckOnly, CheckLabel, tunnel, env
<1>6. CASE CheckResults(c) \/ RefreshWinner(c) \/ RecordError(c)
  <2>1. \/ mem' = mem
        \/ \E r : mem' = [mem EXCEPT !.results = r]
    BY <1>6 DEF CheckResults, RefreshWinner, RecordError, SaveLater
  <2>2. mem'.active = mem.active
    BY <1>3, <2>1 DEF State
  <2>3. Goto(c, "save") /\ UNCHANGED call
    BY <1>6 DEF CheckResults, RefreshWinner, RecordError, SaveLater
  <2> QED
    BY <1>1, <1>2, <1>6, <2>2, <2>3, OneMoves
       DEF CheckResults, RefreshWinner, RecordError, CheckOnly, tunnel, env
<1>7. CASE Choose(c)
  BY <1>1, <1>2, <1>7, OneMoves DEF Choose, CheckOnly, CheckLabel, tunnel, env
<1> QED
  BY <1>4, <1>5, <1>6, <1>7 DEF CheckStep

\* So are the steps of a user.
LEMMA UserQuiet ==
  ASSUME IInv, NEW u \in Users, UserApply(u) \/ CloseTab(u) \/ NewTab(u)
  PROVE  Quiet
<1>1. CASE UserApply(u)
  BY <1>1, UserIsProc, OneMoves
     DEF UserApply, ApplyLabel, NoFault, tunnel, stateVars, locals, env
<1>2. CASE CloseTab(u) \/ NewTab(u)
  BY <1>2 DEF CloseTab, NewTab, Quiet, NoFault, tunnel, stateVars, procVars, locals, env
<1> QED
  BY <1>1, <1>2

\* New settings, too, and whatever the environment does to xray, the network
\* or the subscription.
LEMMA EnvironmentQuiet ==
  ASSUME IInv,
         \/ UpdateSettings
         \/ (TunnelDies \/ Withdraw) /\ UNCHANGED <<running, locals, env>>
         \/ ServerDies \/ NetDown \/ NetUp
  PROVE  Quiet
<1>1. CASE UpdateSettings
  <2>1. mem'.active = mem.active
    BY <1>1 DEF UpdateSettings, IInv, TypeOK, TunnelTypeOK, State
  <2> QED
    BY <1>1, <2>1 DEF UpdateSettings, Quiet, NoFault, tunnel, procVars, locals, env
<1>2. CASE ~UpdateSettings
  BY <1>2 DEF TunnelDies, Withdraw, ServerDies, NetDown, NetUp, Quiet, NoFault,
              tunnel, stateVars, procVars, locals, env
<1> QED
  BY <1>1, <1>2

\* Current, where one process is in the middle of a switch and where none is.
LEMMA CurrentWithin ==
  ASSUME OneSwitcher, NEW p \in Proc, pc[p] \in Switching
  PROVE  Current = IF call[p].had THEN bak ELSE None
<1> DEFINE q == CHOOSE q \in Proc : pc[q] \in Switching
<1>1. q \in Proc /\ pc[q] \in Switching
  OBVIOUS
<1>2. q = p
  <2> HIDE DEF q
  <2> QED
    BY <1>1 DEF OneSwitcher, Switching, ApplyLabel
<1> QED
  BY <1>2 DEF Current

\* Where no process is, Current is what the file holds.
LEMMA CurrentOutside ==
  ASSUME \A p \in Proc : pc[p] \notin Switching
  PROVE  Current = conf
BY DEF Current

\* The same in the next state.
LEMMA CurrentWithinNext ==
  ASSUME OneSwitcher', NEW p \in Proc, pc'[p] \in Switching
  PROVE  Current' = IF call'[p].had THEN bak' ELSE None
<1> DEFINE q == CHOOSE q \in Proc : pc'[q] \in Switching
<1>1. q \in Proc /\ pc'[q] \in Switching
  OBVIOUS
<1>2. q = p
  <2> HIDE DEF q
  <2> QED
    BY <1>1 DEF OneSwitcher, Switching, ApplyLabel
<1> QED
  BY <1>2 DEF Current

\* And where no process will be.
LEMMA CurrentOutsideNext ==
  ASSUME \A p \in Proc : pc'[p] \notin Switching
  PROVE  Current' = conf'
BY DEF Current

\* Current is a server or none.
LEMMA CurrentType == IInv => Current \in Server \cup {None}
BY DEF IInv, TypeOK, TunnelTypeOK, Current

\* and stays one.
LEMMA CurrentTypeNext == IInv' => Current' \in Server \cup {None}
BY DEF IInv, TypeOK, TunnelTypeOK, Current

\* A quiet step changes neither server.
LEMMA QuietRefines ==
  ASSUME IInv, IInv', OneSwitcher, OneSwitcher', Quiet
  PROVE  [Switched!Next]_(Switched!vars)
<1>1. ASSUME NEW p \in Proc
      PROVE  /\ pc'[p] \in Switching <=> pc[p] \in Switching
             /\ pc[p] \in Switching => call'[p] = call[p]
  BY DEF Quiet, Switching, ApplyLabel
<1>2. Current' = Current
  <2>1. CASE \E p \in Proc : pc[p] \in Switching
    <3>1. PICK p \in Proc : pc[p] \in Switching
      BY <2>1
    <3>2. pc'[p] \in Switching /\ call'[p] = call[p] /\ bak' = bak
      BY <1>1, <3>1 DEF Quiet
    <3> QED
      BY <3>1, <3>2, CurrentWithin, CurrentWithinNext
  <2>2. CASE \A p \in Proc : pc[p] \notin Switching
    <3>1. (\A p \in Proc : pc'[p] \notin Switching) /\ conf' = conf
      BY <1>1, <2>2 DEF Quiet
    <3> QED
      BY <2>2, <3>1, CurrentOutside, CurrentOutsideNext
  <2> QED
    BY <2>1, <2>2
<1>3. CASE NoFault
  BY <1>2, <1>3 DEF Quiet, NoFault, Switched!vars
<1>4. CASE Fault
  <2>1. Current' \in Server \cup {None}
    BY <1>2, CurrentType
  <2>2. Switched!Failure
    BY <1>4, <2>1 DEF Fault, Quiet, Switched!Failure
  <2> QED
    BY <2>2 DEF Switched!Next
<1> QED
  BY <1>3, <1>4 DEF Quiet

\* An Apply that moves from one label to another is alone in it.
LEMMA Alone ==
  ASSUME OneSwitcher, NEW p \in Proc, pc[p] \in ApplyLabel,
         \A q \in Proc \ {p} : pc'[q] = pc[q]
  PROVE  \A q \in Proc \ {p} : pc[q] \notin Switching /\ pc'[q] \notin Switching
BY DEF OneSwitcher, Switching, ApplyLabel

\* A step of Apply that counts a failure is Failure, and one that leaves all
\* of this is a stutter.
LEMMA FailureRefines ==
  ASSUME IInv', UNCHANGED <<mem, boots>>, Fault \/ (NoFault /\ Current' = Current)
  PROVE  [Switched!Next]_(Switched!vars)
<1>1. CASE Fault
  <2>1. Current' \in Server \cup {None}
    BY CurrentTypeNext
  <2>2. Switched!Failure
    BY <1>1, <2>1 DEF Fault, Switched!Failure
  <2> QED
    BY <2>2 DEF Switched!Next
<1>2. CASE NoFault /\ Current' = Current
  BY <1>2 DEF NoFault, Switched!vars
<1> QED
  BY <1>1, <1>2

\* What Switches says of the server the router stands for, at each label.
LEMMA CurrentAt ==
  ASSUME OneSwitcher, NEW p \in Proc, pc[p] \in ApplyLabel
  PROVE  Current = IF pc[p] \in Switching
                   THEN IF call[p].had THEN bak ELSE None
                   ELSE conf
<1>1. CASE pc[p] \in Switching
  BY <1>1, CurrentWithin
<1>2. CASE pc[p] \notin Switching
  <2>1. \A q \in Proc : pc[q] \notin Switching
    BY <1>2 DEF OneSwitcher, Switching, ApplyLabel
  <2> QED
    BY <1>2, <2>1, CurrentOutside
<1> QED
  BY <1>1, <1>2

\* The same after a step of p from Apply.
LEMMA CurrentAfter ==
  ASSUME OneSwitcher, OneSwitcher', NEW p \in Proc, pc[p] \in ApplyLabel,
         \A q \in Proc \ {p} : pc'[q] = pc[q]
  PROVE  Current' = IF pc'[p] \in Switching
                    THEN IF call'[p].had THEN bak' ELSE None
                    ELSE conf'
<1>1. CASE pc'[p] \in Switching
  BY <1>1, CurrentWithinNext
<1>2. CASE pc'[p] \notin Switching
  <2>1. \A q \in Proc : pc'[q] \notin Switching
    BY <1>2, Alone
  <2> QED
    BY <1>2, <2>1, CurrentOutsideNext
<1> QED
  BY <1>1, <1>2

\* The step of p that goes on, or returns, in terms of p alone.
LEMMA GoesWhere ==
  ASSUME IInv, NEW p \in Proc, NEW l
  PROVE  /\ Goto(p, l) => /\ pc'[p] = l
                          /\ \A q \in Proc \ {p} : pc'[q] = pc[q]
         /\ Return(p, l) => /\ pc'[p] = l
                            /\ \A q \in Proc \ {p} : pc'[q] = pc[q]
BY DEF Goto, Return, IInv, TypeOK

\* What there is to record at the end.
LEMMA AtCommit ==
  ASSUME NEW p, SwitchOK(p), pc[p] = "commit"
  PROVE  conf = call[p].key \/ (conf = None /\ (call[p].had => bak = None))
<1>1. pc[p] \in {"restart", "wait", "raise", "commit"}
  OBVIOUS
<1> QED
  BY <1>1 DEF SwitchOK

\* Every step of Apply is one of ServerSwitch's, or none.
LEMMA ApplyRefines ==
  ASSUME IInv, IInv', Switches, OneSwitcher, OneSwitcher', NEW p \in Proc, Apply(p)
  PROVE  [Switched!Next]_(Switched!vars)
<1>1. SwitchOK(p) /\ boots' = boots
  BY DEF Switches, Apply, env
<1>2. call \in [Proc -> Frame]
  BY DEF IInv, TypeOK, TunnelTypeOK
<1>3. pc[p] \in ApplyLabel =>
        /\ call[p].err \notin ApplyLabel \cup {"save"} /\ call[p].err \notin Switching
        /\ call[p].ok \notin ApplyLabel
  BY AutoVpnAssumption DEF IInv, Control, ProcOK, ErrLabel, OkLabel, ApplyLabel, Switching
<1>4. CASE Fetch(p)
  <2>1. /\ pc[p] \in ApplyLabel \ Switching
        /\ pc'[p] \notin Switching
        /\ \A q \in Proc \ {p} : pc'[q] = pc[q]
        /\ conf' = conf /\ mem' = mem
        /\ Fault \/ NoFault
    BY <1>3, <1>4, GoesWhere DEF Fetch, Fails, NoFault, ApplyLabel, Switching, tunnel, stateVars
  <2> QED
    BY <1>1, <2>1, CurrentAt, CurrentAfter, FailureRefines
<1>5. CASE BackupConfig(p)
  <2>1. /\ pc[p] \in ApplyLabel \ Switching
        /\ pc'[p] \notin Switching
        /\ \A q \in Proc \ {p} : pc'[q] = pc[q]
        /\ conf' = conf /\ mem' = mem
        /\ Fault \/ NoFault
    BY <1>3, <1>5, GoesWhere DEF BackupConfig, NoFault, ApplyLabel, Switching, stateVars
  <2> QED
    BY <1>1, <2>1, CurrentAt, CurrentAfter, FailureRefines
<1>6. CASE WriteConf(p)
  <2>1. pc[p] = "write" /\ pc[p] \in ApplyLabel \ Switching /\ mem' = mem
    BY <1>6 DEF WriteConf, ApplyLabel, Switching, stateVars
  <2>2. CASE Fault
    BY <1>1, <2>1, <2>2, FailureRefines
  <2>3. CASE NoFault /\ Goto(p, "restart") /\ UNCHANGED <<call, bak>>
    <3>1. pc'[p] \in Switching /\ \A q \in Proc \ {p} : pc'[q] = pc[q]
      BY <2>3, GoesWhere DEF Switching
    <3>2. Current = conf /\ Current' = IF call[p].had THEN bak ELSE None
      BY <2>1, <2>3, <3>1, CurrentAt, CurrentAfter
    <3>3. Current' = Current
      BY <1>1, <2>1, <3>2 DEF SwitchOK
    <3> QED
      BY <1>1, <2>1, <2>3, <3>3, FailureRefines
  <2> QED
    BY <1>6, <2>2, <2>3 DEF WriteConf, NoFault
<1>7. CASE RestartXray(p) \/ WaitProxy(p) \/ RaiseInterface(p)
  <2>1. /\ pc[p] \in ApplyLabel /\ pc[p] \in Switching
        /\ pc'[p] \in Switching
        /\ \A q \in Proc \ {p} : pc'[q] = pc[q]
        /\ UNCHANGED <<call, bak, mem>>
        /\ Fault \/ NoFault
    BY <1>7, GoesWhere
       DEF RestartXray, Restarted, RestartFailed, WaitProxy, RaiseInterface, Fails,
           NoFault, ApplyLabel, Switching, tunnel, stateVars
  <2>2. Current' = Current
    BY <2>1, CurrentAt, CurrentAfter
  <2> QED
    BY <1>1, <2>1, <2>2, FailureRefines
<1>8. CASE Commit(p)
  <2>1. /\ pc[p] = "commit" /\ pc[p] \in ApplyLabel /\ pc[p] \in Switching
        /\ mem' = [mem EXCEPT !.active = call[p].key]
        /\ UNCHANGED <<conf, bak, faults>>
        /\ Goto(p, "save")
    BY <1>8 DEF Commit, SaveLater, ApplyLabel, Switching, tunnel
  <2>2. Current' = conf
    BY <2>1, GoesWhere, CurrentAfter DEF Switching
  <2>3. Current = IF call[p].had THEN bak ELSE None
    BY <2>1, CurrentAt
  <2>4. mem'.active = call[p].key /\ call[p].key \in Server
    BY <1>1, <2>1 DEF IInv, TypeOK, TunnelTypeOK, State, SwitchOK, ApplyLabel
  <2>5. conf = call[p].key \/ (conf = None /\ Current = None)
    BY <1>1, <2>1, <2>3, AtCommit
  <2>6. Switched!Switch
    BY <1>1, <2>1, <2>2, <2>4, <2>5 DEF Switched!Switch
  <2> QED
    BY <2>6 DEF Switched!Next
<1>9. CASE Rollback(p)
  <2>1. pc[p] = "undo" /\ pc[p] \in ApplyLabel /\ pc[p] \in Switching /\ mem' = mem
    BY <1>9 DEF Rollback, ApplyLabel, Switching, stateVars
  <2>2. Current = IF call[p].had THEN bak ELSE None
    BY <2>1, CurrentAt
  <2>3. CASE Fault
    BY <1>1, <2>1, <2>3, FailureRefines
  <2>4. CASE /\ call[p].had /\ bak # None /\ conf' = bak
             /\ Goto(p, "unrestart") /\ NoFault
    <3>1. Current' = conf'
      BY <2>1, <2>4, GoesWhere, CurrentAfter DEF Switching
    <3> QED
      BY <1>1, <2>1, <2>2, <2>4, <3>1, FailureRefines
  <2>5. CASE /\ ~call[p].had \/ bak = None
             /\ Return(p, call[p].err) /\ UNCHANGED conf /\ NoFault
    <3>1. Current' = conf' /\ Current = None
      BY <1>3, <2>1, <2>2, <2>5, GoesWhere, CurrentAfter
    <3>2. CASE Current' = None
      BY <1>1, <2>1, <2>5, <3>1, <3>2, FailureRefines
    <3>3. CASE Current' # None
      <4>1. Current' \in Server
        BY <3>3, CurrentTypeNext
      <4>2. Switched!Stray
        BY <1>1, <2>1, <2>5, <3>1, <4>1 DEF Switched!Stray, NoFault
      <4> QED
        BY <4>2 DEF Switched!Next
    <3> QED
      BY <3>2, <3>3
  <2> QED
    BY <1>9, <2>3, <2>4, <2>5 DEF Rollback, NoFault
<1>10. CASE RollbackRestart(p)
  <2>1. /\ pc[p] \in ApplyLabel \ Switching
        /\ pc'[p] \notin Switching
        /\ \A q \in Proc \ {p} : pc'[q] = pc[q]
        /\ conf' = conf /\ mem' = mem
        /\ Fault \/ NoFault
    BY <1>3, <1>10, GoesWhere
       DEF RollbackRestart, Restarted, RestartFailed, Fails, NoFault, ApplyLabel,
           Switching, stateVars
  <2> QED
    BY <1>1, <2>1, CurrentAt, CurrentAfter, FailureRefines
<1>11. CASE SaveState(p)
  <2>1. out[p].then \notin ApplyLabel
    BY <1>11, AutoVpnAssumption
       DEF IInv, Control, ProcOK, SaveState, ThenLabel, OkLabel, ApplyLabel
  <2>2. Quiet
    BY <1>1, <1>11, <2>1, GoesWhere
       DEF SaveState, Quiet, NoFault, ApplyLabel, tunnel
  <2> QED
    BY <2>2, QuietRefines
<1> QED
  BY <1>4, <1>5, <1>6, <1>7, <1>8, <1>9, <1>10, <1>11 DEF Apply, ApplyStep

\* So is every other step.
LEMMA StepRefines ==
  ASSUME IInv, IInv', Switches, OneSwitcher, OneSwitcher', [Next]_vars
  PROVE  Switches' /\ [Switched!Next]_(Switched!vars)
<1>1. ASSUME Quiet PROVE Switches' /\ [Switched!Next]_(Switched!vars)
  BY <1>1, QuietSwitches, QuietRefines
<1>2. CASE UNCHANGED vars
  <2>1. Quiet
    BY <1>2 DEF vars, tunnel, stateVars, procVars, env, Quiet, NoFault
  <2> QED
    BY <1>1, <2>1
<1>3. ASSUME NEW p \in Proc, Apply(p)
      PROVE  Switches' /\ [Switched!Next]_(Switched!vars)
  BY <1>3, ApplySwitches, ApplyRefines
<1>4. CASE Upgrade /\ UNCHANGED <<running, locals, env>>
  <2>1. Switches'
    BY <1>4, SwitchKept DEF Switches, Upgrade, procVars
  <2>2. Fault /\ UNCHANGED <<mem, boots>>
    BY <1>4 DEF Upgrade, stateVars, env
  <2> QED
    BY <2>1, <2>2, FailureRefines
<1>5. CASE ServiceRestart
  <2>1. \A p \in Proc : pc'[p] \in {"sleep", "idle"}
    BY <1>5 DEF ServiceRestart
  <2>2. Switches'
    BY <2>1 DEF Switches, SwitchOK, ApplyLabel
  <2>3. Current' \in Server \cup {None} /\ mem'.active \in Server \cup {None}
    BY CurrentTypeNext DEF IInv, TypeOK, TunnelTypeOK, State
  <2>4. boots' = boots + 1 /\ faults' = faults
    BY <1>5 DEF ServiceRestart
  <2>5. Switched!Crash
    BY <2>3, <2>4 DEF Switched!Crash
  <2> QED
    BY <2>2, <2>5 DEF Switched!Next
<1>6. CASE \/ UpdateSettings
           \/ (TunnelDies \/ Withdraw) /\ UNCHANGED <<running, locals, env>>
           \/ ServerDies \/ NetDown \/ NetUp
  BY <1>1, <1>6, EnvironmentQuiet
<1>7. CASE WatchStep
  BY <1>1, <1>7, WatchQuiet
<1>8. ASSUME NEW c \in Checks, StartCheck(c) \/ StartSiteCheck(c) \/ CheckStep(c)
      PROVE  Switches' /\ [Switched!Next]_(Switched!vars)
  BY <1>1, <1>8, CheckQuiet
<1>9. ASSUME NEW u \in Users, UserApply(u) \/ CloseTab(u) \/ NewTab(u)
      PROVE  Switches' /\ [Switched!Next]_(Switched!vars)
  BY <1>1, <1>9, UserQuiet
<1> QED
  BY <1>2, <1>3, <1>4, <1>5, <1>6, <1>7, <1>8, <1>9 DEF Next, Environment

\* As long as no two Apply overlap, every behaviour of the manager is one of
\* ServerSwitch: the router's configuration and the recorded server change
\* together, and part only by a failure, a restart of the service, or a
\* failed switch that had no configuration to go back to (Apply, rollback).
THEOREM SwitchIsAtomic == Spec /\ []OneSwitcher => AtomicSwitch
<1>1. Init => Switches /\ Switched!Init
  <2> SUFFICES ASSUME Init PROVE Switches /\ Switched!Init
    OBVIOUS
  <2>1. \A p \in Proc : pc[p] \in {"sleep", "idle"}
    BY DEF Init
  <2>2. Switches
    BY <2>1 DEF Switches, SwitchOK, ApplyLabel
  <2>3. Current = conf
    BY <2>1, CurrentOutside DEF Switching
  <2>4. mem \in State
    BY InitInv DEF IInv, TypeOK, TunnelTypeOK
  <2> QED
    BY <2>2, <2>3, <2>4 DEF Init, Switched!Init, State
<1>2. /\ IInv /\ IInv' /\ Switches /\ OneSwitcher /\ OneSwitcher' /\ [Next]_vars
      => Switches' /\ [Switched!Next]_(Switched!vars)
  BY StepRefines
<1> QED
  BY <1>1, <1>2, Invariant, PTL DEF Spec, AtomicSwitch, Switched!Spec

-----------------------------------------------------------------------------
(***************************************************************************)
(* The state reaches the disk while its writers take turns                 *)
(***************************************************************************)

\* Nobody changes the state in memory while a copy of it waits to be saved.
TakeTurns ==
  [][mem' # mem /\ boots' = boots => \A p \in Proc : pc[p] # "save"]_vars

\* Then a copy that waits is the state itself.
Fresh == \A p \in Proc : pc[p] = "save" => out[p].st = mem

\* A step that neither changes the state nor takes or saves a copy.
Aloof ==
  /\ UNCHANGED <<mem, disk>>
  /\ \A p \in Proc :
       /\ pc'[p] = "save" <=> pc[p] = "save"
       /\ pc[p] = "save" => out'[p] = out[p]

\* A step in which p leaves the lock with a copy.
Copies(p) ==
  /\ pc[p] # "save"
  /\ pc'[p] = "save" /\ out'[p].st = mem'
  /\ disk' = disk
  /\ \A q \in Proc \ {p} : pc'[q] = pc[q] /\ out'[q] = out[q]

\* A step of p, outside "save", to another label.
LEMMA AloofMove ==
  ASSUME IInv, NEW p \in Proc, pc[p] # "save", NEW l, l # "save",
         Goto(p, l) \/ Return(p, l), UNCHANGED <<mem, disk, out>>
  PROVE  Aloof
BY DEF IInv, TypeOK, Goto, Return, Aloof

\* A step of p that takes a copy.
LEMMA CopyTaken ==
  ASSUME IInv, NEW p \in Proc, pc[p] # "save", NEW st, NEW l,
         SaveLater(p, st, l), disk' = disk
  PROVE  Copies(p)
<1>1. pc \in [Proc -> Label] /\ out \in [Proc -> Copy]
  BY DEF IInv, TypeOK, TunnelTypeOK
<1> QED
  BY <1>1 DEF SaveLater, Goto, Copies

\* What the steps of Apply are to the state.
LEMMA ApplyWrites ==
  ASSUME IInv, NEW p \in Proc, Apply(p)
  PROVE  Aloof \/ Copies(p) \/ SaveState(p)
<1>1. pc[p] \in ApplyLabel => call[p].err # "save"
  BY AutoVpnAssumption DEF IInv, Control, ProcOK, ErrLabel
<1>2. CASE Fetch(p) \/ BackupConfig(p) \/ WriteConf(p) \/ RestartXray(p)
           \/ WaitProxy(p) \/ RaiseInterface(p) \/ Rollback(p) \/ RollbackRestart(p)
  <2>1. pc[p] \in ApplyLabel /\ pc[p] # "save"
    BY <1>2 DEF Fetch, BackupConfig, WriteConf, RestartXray, WaitProxy,
                RaiseInterface, Rollback, RollbackRestart, ApplyLabel
  <2>2. /\ UNCHANGED <<mem, disk, out>>
        /\ \E l \in ApplyLabel \cup {call[p].err} : Goto(p, l) \/ Return(p, l)
    BY <1>2 DEF Fetch, BackupConfig, WriteConf, RestartXray, WaitProxy,
                RaiseInterface, Rollback, RollbackRestart, ApplyLabel, stateVars
  <2>3. \A l \in ApplyLabel \cup {call[p].err} : l # "save"
    BY <1>1, <2>1 DEF ApplyLabel
  <2> QED
    BY <2>1, <2>2, <2>3, AloofMove
<1>3. CASE Commit(p)
  BY <1>3, CopyTaken DEF Commit
<1> QED
  BY <1>2, <1>3 DEF Apply, ApplyStep

\* What the watchdog's are.
LEMMA RecordLiveWrites ==
  ASSUME IInv, NEW verdict, NEW repaired, RecordLive(verdict, repaired),
         pc[Watch] # "save", WatchOnly
  PROVE  Aloof \/ Copies(Watch)
<1>1. CASE Changed(verdict, repaired)
  BY <1>1, WatchIsProc, CopyTaken DEF RecordLive, WatchOnly
<1>2. CASE ~Changed(verdict, repaired)
  <2>1. mem' = mem
    BY <1>2 DEF RecordLive, Changed, IInv, TypeOK, TunnelTypeOK, State
  <2> QED
    BY <1>2, <2>1, WatchIsProc, AloofMove DEF RecordLive, WatchOnly
<1> QED
  BY <1>1, <1>2

\* Every step of the watchdog outside Apply leaves the state alone or copies it.
LEMMA WatchWrites == ASSUME IInv, WatchStep PROVE Aloof \/ Copies(Watch)
<1>1. pc[Watch] \in WatchLabel /\ "save" \notin WatchLabel
  BY DEF WatchStep, Wake, Ensure, Look, Probe, Inet, Reprobe, Spares, SpareProbe,
         WatchLabel
<1>2. CASE Wake \/ Ensure \/ Look
  <2>1. \E l \in WatchLabel \cup {"fetch"} : Goto(Watch, l)
    BY <1>2 DEF Wake, Ensure, Look, Enter, WatchLabel
  <2>2. UNCHANGED <<mem, disk, out>>
    BY <1>2 DEF Wake, Ensure, Look, stateVars
  <2> QED
    BY <1>1, <2>1, <2>2, WatchIsProc, AloofMove
<1>3. CASE Probe \/ Inet \/ Reprobe \/ Spares \/ SpareProbe
  <2>1. CASE \E verdict, repaired : RecordLive(verdict, repaired)
    BY <1>1, <1>3, <2>1, RecordLiveWrites DEF Probe, Inet, Reprobe, Spares, SpareProbe
  <2>2. CASE /\ \E l \in WatchLabel \cup {"fetch"} : Goto(Watch, l)
             /\ UNCHANGED <<mem, out>>
    BY <1>1, <1>3, <2>2, WatchIsProc, AloofMove
       DEF Probe, Inet, Reprobe, Spares, SpareProbe, WatchOnly
  <2> QED
    BY <1>3, <2>1, <2>2
       DEF Probe, Inet, Reprobe, Spares, SpareProbe, Enter, WatchLabel
<1> QED
  BY <1>2, <1>3 DEF WatchStep

\* And a check's.
LEMMA CheckWrites ==
  ASSUME IInv, NEW c \in Checks, StartCheck(c) \/ StartSiteCheck(c) \/ CheckStep(c)
  PROVE  Aloof \/ Copies(c)
<1>1. c \in Proc /\ pc[c] # "save"
  BY CheckIsProc
     DEF StartCheck, StartSiteCheck, CheckStep, SiteCheck, CheckServers,
         CheckResults, Decide, RefreshWinner, Choose, RecordError, Release
<1>2. CASE CheckResults(c) \/ RefreshWinner(c) \/ RecordError(c)
  BY <1>1, <1>2, CopyTaken DEF CheckResults, RefreshWinner, RecordError, CheckOnly
<1>3. CASE ~(CheckResults(c) \/ RefreshWinner(c) \/ RecordError(c))
  <2>1. UNCHANGED <<mem, disk, out>>
    BY <1>3 DEF StartCheck, StartSiteCheck, CheckStep, SiteCheck, CheckServers,
                Decide, Choose, Release, CheckOnly, stateVars
  <2>2. \E l \in CheckLabel \cup {"idle", "fetch"} : Goto(c, l)
    BY <1>3 DEF StartCheck, StartSiteCheck, CheckStep, SiteCheck, CheckServers,
                Decide, Choose, Release, Enter, CheckLabel
  <2>3. "save" \notin CheckLabel
    BY DEF CheckLabel
  <2> QED
    BY <1>1, <2>1, <2>2, <2>3, AloofMove
<1> QED
  BY <1>2, <1>3

\* Users and the environment write nothing, but for the settings and the
\* restart.
LEMMA OthersWrite ==
  ASSUME IInv,
         \/ \E u \in Users : UserApply(u) \/ CloseTab(u) \/ NewTab(u)
         \/ Environment /\ ~ServiceRestart
         \/ UNCHANGED vars
  PROVE  Aloof
<1>1. CASE \E u \in Users : UserApply(u)
  <2>1. PICK u \in Users : UserApply(u)
    BY <1>1
  <2> QED
    BY <2>1, UserIsProc, AloofMove DEF UserApply, Enter, stateVars
<1>2. CASE ~ \E u \in Users : UserApply(u)
  BY <1>2 DEF CloseTab, NewTab, Environment, Upgrade, TunnelDies, Withdraw,
              ServerDies, NetDown, NetUp, Aloof, stateVars, procVars, vars
<1> QED
  BY <1>1, <1>2

\* A step that takes its turn keeps copies fresh and, unless a save fails,
\* the state on disk or on its way there.
LEMMA StepSaves ==
  ASSUME IInv, Fresh, [Next]_vars,
         mem' # mem /\ boots' = boots => \A p \in Proc : pc[p] # "save"
  PROVE  /\ Fresh'
         /\ Persisted /\ (\A p \in Proc : ~SaveFailed(p)) => Persisted'
<1>1. CASE Aloof
  BY <1>1 DEF Aloof, Fresh, Persisted
<1>2. ASSUME NEW p \in Proc, Copies(p), boots' = boots
      PROVE  Fresh' /\ Persisted'
  <2>1. Persisted'
    BY <1>2 DEF Copies, Persisted
  <2>2. Fresh'
    BY <1>2 DEF Copies, Fresh
  <2> QED
    BY <2>1, <2>2
<1>3. ASSUME NEW p \in Proc, SaveState(p)
      PROVE  /\ Fresh'
             /\ Persisted /\ (\A q \in Proc : ~SaveFailed(q)) => Persisted'
  <2>1. out[p].then # "save"
    BY <1>3, AutoVpnAssumption
       DEF SaveState, IInv, Control, ProcOK, ThenLabel, OkLabel
  <2>2. /\ pc[p] = "save" /\ pc'[p] # "save" /\ mem' = mem
        /\ \A q \in Proc \ {p} : pc'[q] = pc[q] /\ out'[q] = out[q]
    BY <1>3, <2>1 DEF SaveState, Goto, IInv, TypeOK, TunnelTypeOK
  <2>3. Fresh'
    BY <2>2 DEF Fresh
  <2>4. CASE disk' = out[p].st
    BY <2>2, <2>3, <2>4 DEF Fresh, Persisted
  <2>5. CASE Fault
    <3>1. faults' # faults
      BY <2>5 DEF Fault, IInv, TypeOK, TunnelTypeOK
    <3> QED
      BY <2>2, <2>3, <3>1 DEF SaveFailed
  <2> QED
    BY <1>3, <2>4, <2>5 DEF SaveState
<1>4. CASE UpdateSettings
  <2>1. boots' = boots /\ UNCHANGED <<pc, out>> /\ disk' = mem'
    BY <1>4 DEF UpdateSettings, procVars, env
  <2>2. Persisted'
    BY <2>1 DEF Persisted
  <2>3. Fresh'
    BY <2>1 DEF Fresh
  <2> QED
    BY <2>2, <2>3
<1>5. CASE ServiceRestart
  <2>1. mem' = disk' /\ \A p \in Proc : pc'[p] # "save"
    BY <1>5 DEF ServiceRestart
  <2> QED
    BY <2>1 DEF Fresh, Persisted
<1>6. ASSUME NEW p \in Proc, Apply(p)
      PROVE  /\ Fresh'
             /\ Persisted /\ (\A q \in Proc : ~SaveFailed(q)) => Persisted'
  <2>1. boots' = boots
    BY <1>6 DEF Apply, env
  <2> QED
    BY <1>1, <1>2, <1>3, <1>6, <2>1, ApplyWrites
<1>7. CASE WatchStep
  <2>1. boots' = boots
    BY <1>7 DEF WatchStep, Wake, Ensure, Look, Probe, Inet, Reprobe, Spares,
                SpareProbe, WatchOnly, locals, env
  <2> QED
    BY <1>1, <1>2, <1>7, <2>1, WatchIsProc, WatchWrites
<1>8. ASSUME NEW c \in Checks, StartCheck(c) \/ StartSiteCheck(c) \/ CheckStep(c)
      PROVE  /\ Fresh'
             /\ Persisted /\ (\A q \in Proc : ~SaveFailed(q)) => Persisted'
  <2>1. boots' = boots
    BY <1>8 DEF StartCheck, StartSiteCheck, CheckStep, SiteCheck, CheckServers,
                CheckResults, Decide, RefreshWinner, Choose, RecordError, Release,
                CheckOnly, locals, env
  <2> QED
    BY <1>1, <1>2, <1>8, <2>1, CheckIsProc, CheckWrites
<1> QED
  BY <1>1, <1>4, <1>5, <1>6, <1>7, <1>8, OthersWrite DEF Next

\* While the writers of the state take turns, a restart loses no switch and
\* no verdict that was not just being written, but by a save that failed
\* (Apply, recordLive, saveState).
THEOREM NothingUnsaved == Spec /\ TakeTurns => StateSaved
<1>1. Init => Fresh
  BY DEF Init, Fresh
<1> DEFINE InTurn == mem' # mem /\ boots' = boots => \A p \in Proc : pc[p] # "save"
           Saved == Persisted /\ (\A p \in Proc : ~SaveFailed(p)) => Persisted'
<1>2. IInv /\ Fresh /\ [Next]_vars /\ [InTurn]_vars => Fresh' /\ Saved
  <2> SUFFICES ASSUME IInv, Fresh, [Next]_vars, [InTurn]_vars
               PROVE  Fresh' /\ Saved
    OBVIOUS
  <2>1. InTurn
    BY DEF vars, stateVars
  <2> QED
    BY <2>1, StepSaves
<1> QED
  BY <1>1, <1>2, Invariant, PTL DEF Spec, StateSaved, TakeTurns

-----------------------------------------------------------------------------
(***************************************************************************)
(* The servers the service picks by itself                                 *)
(***************************************************************************)

\* An Apply of p on the service's own account has its key from p's copy.
Pickable(p) ==
  pc[p] \in ApplyLabel =>
    call[p].key \in Elements(snap[p].results) \cup {snap[p].active}

\* The spare servers come from the copy of this round.
Spared ==
  /\ \A i \in DOMAIN spares :
       spares[i] \in Elements(snap[Watch].results) \ {snap[Watch].active}
  /\ Len(spares) <= MaxRepairServers

\* Between two rounds, and in a round until servers are applied in it, there
\* are none: a copy may be taken or dropped.
NoneSpared(l) == l \in {"sleep", "ensure", "look", "probe", "inet"} => spares = <<>>
RoundBegins ==
  /\ NoneSpared(pc[Watch])
  /\ pc[Watch] \in ApplyLabel => NoneSpared(call[Watch].ok) /\ NoneSpared(call[Watch].err)
  /\ pc[Watch] = "save" => NoneSpared(out[Watch].then)

Picked == (\A p \in Automatic : Pickable(p)) /\ Spared /\ RoundBegins

\* Without spare servers there is nothing to say of them.
LEMMA NoSpares == spares = <<>> => Spared
<1> SUFFICES ASSUME spares = <<>> PROVE Spared
  OBVIOUS
<1>1. DOMAIN spares = {} /\ Len(spares) = 0
  OBVIOUS
<1> QED
  BY <1>1, AutoVpnAssumption DEF Spared

\* Nor in the next state.
LEMMA NoSparesNext == spares' = <<>> => Spared' /\ RoundBegins'
<1> SUFFICES ASSUME spares' = <<>> PROVE Spared' /\ RoundBegins'
  OBVIOUS
<1>1. DOMAIN spares' = {} /\ Len(spares') = 0
  OBVIOUS
<1> QED
  BY <1>1, AutoVpnAssumption DEF Spared, RoundBegins, NoneSpared

\* What Take leaves is from the ranking, and no more than the limit.
LEMMA TakeKeeps ==
  ASSUME NEW S, NEW s \in Seq(S), NEW n \in Nat
  PROVE  /\ \A i \in DOMAIN Take(s, n) : Take(s, n)[i] \in Elements(s)
         /\ Len(Take(s, n)) <= n
<1> DEFINE k == IF Len(s) < n THEN Len(s) ELSE n
<1>1. k \in 0..Len(s) /\ k <= n
  OBVIOUS
<1> HIDE DEF k
<1>2. /\ SubSeq(s, 1, k) \in Seq(S) /\ Len(SubSeq(s, 1, k)) = k
      /\ \A i \in 1..k : SubSeq(s, 1, k)[i] = s[i]
  BY <1>1
<1>3. Take(s, n) = SubSeq(s, 1, k)
  BY DEF Take, k
<1>4. \A i \in 1..k : i \in DOMAIN s
  BY <1>1
<1>5. DOMAIN Take(s, n) = 1..k
  BY <1>1, <1>2, <1>3
<1> QED
  BY <1>1, <1>2, <1>3, <1>4, <1>5 DEF Elements

\* A process that stays where it is, with its frame and copy, is still right.
LEMMA PickKept ==
  ASSUME NEW p, Pickable(p), pc'[p] = pc[p], call'[p] = call[p], snap'[p] = snap[p]
  PROVE  Pickable(p)'
BY DEF Pickable

\* Another than the watchdog moves.
LEMMA OtherPicks ==
  ASSUME Picked, NEW p \in Proc \ {Watch}, p \in Automatic => Pickable(p)',
         \A q \in Proc \ {p} : /\ pc'[q] = pc[q] /\ call'[q] = call[q]
                               /\ out'[q] = out[q] /\ snap'[q] = snap[q],
         UNCHANGED spares
  PROVE  Picked'
<1>1. /\ pc'[Watch] = pc[Watch] /\ call'[Watch] = call[Watch]
      /\ out'[Watch] = out[Watch] /\ snap'[Watch] = snap[Watch]
  BY WatchIsProc
<1>2. Automatic \subseteq Proc
  BY AutoVpnAssumption DEF Automatic
<1>3. \A q \in Automatic : Pickable(q)'
  BY <1>2, PickKept DEF Picked
<1>4. Spared' /\ RoundBegins'
  BY <1>1 DEF Picked, Spared, RoundBegins, NoneSpared
<1> QED
  BY <1>3, <1>4 DEF Picked

\* The watchdog moves.
LEMMA WatchPicks ==
  ASSUME Picked, Pickable(Watch)', Spared', RoundBegins',
         \A q \in Proc \ {Watch} : /\ pc'[q] = pc[q] /\ call'[q] = call[q]
                                   /\ snap'[q] = snap[q]
  PROVE  Picked'
<1>1. Automatic \subseteq Proc
  BY AutoVpnAssumption DEF Automatic
<1>2. \A q \in Automatic : Pickable(q)'
  BY <1>1, PickKept DEF Picked
<1> QED
  BY <1>2 DEF Picked

\* The labels a process of Apply may be at next: within Apply, where an Apply
\* that fails returns to, "save", or where a save goes on.
LEMMA ApplyMoves ==
  ASSUME IInv, NEW p \in Proc, Apply(p)
  PROVE  /\ UNCHANGED <<snap, spares>>
         /\ \A q \in Proc \ {p} : /\ pc'[q] = pc[q] /\ call'[q] = call[q]
                                  /\ out'[q] = out[q]
         /\ \/ /\ pc[p] \in ApplyLabel /\ pc'[p] \in ApplyLabel
               /\ call'[p].key = call[p].key
               /\ call'[p].ok = call[p].ok /\ call'[p].err = call[p].err
            \/ pc[p] \in ApplyLabel /\ pc'[p] = call[p].err
            \/ /\ pc[p] \in ApplyLabel /\ pc'[p] = "save"
               /\ out'[p].then = call[p].ok
            \/ pc[p] = "save" /\ pc'[p] = out[p].then
<1>1. /\ pc \in [Proc -> Label] /\ call \in [Proc -> Frame] /\ out \in [Proc -> Copy]
  BY DEF IInv, TypeOK, TunnelTypeOK
<1>2. UNCHANGED <<snap, spares>>
  BY DEF Apply, locals
<1>3. CASE Commit(p)
  BY <1>1, <1>2, <1>3 DEF Commit, SaveLater, Goto, ApplyLabel
<1>4. CASE SaveState(p)
  BY <1>1, <1>2, <1>4 DEF SaveState, Goto
<1>5. CASE Fetch(p) \/ BackupConfig(p) \/ WriteConf(p) \/ RestartXray(p)
           \/ WaitProxy(p) \/ RaiseInterface(p) \/ Rollback(p) \/ RollbackRestart(p)
  <2>1. pc[p] \in ApplyLabel /\ out' = out
    BY <1>5 DEF Fetch, BackupConfig, WriteConf, RestartXray, WaitProxy,
                RaiseInterface, Rollback, RollbackRestart, ApplyLabel
  <2>2. \/ /\ \E l \in ApplyLabel : Goto(p, l)
           /\ call' = call \/ call' = [call EXCEPT ![p].had = TRUE]
        \/ Return(p, call[p].err)
    BY <1>5 DEF Fetch, BackupConfig, WriteConf, RestartXray, WaitProxy,
                RaiseInterface, Rollback, RollbackRestart, ApplyLabel
  <2>3. CASE Return(p, call[p].err)
    BY <1>1, <1>2, <2>1, <2>3 DEF Return, Goto
  <2>4. CASE call' = [call EXCEPT ![p].had = TRUE] /\ \E l \in ApplyLabel : Goto(p, l)
    <3>1. /\ call'[p].key = call[p].key /\ call'[p].ok = call[p].ok
          /\ call'[p].err = call[p].err
          /\ \A q \in Proc \ {p} : call'[q] = call[q]
      BY <1>1, <2>4 DEF Frame
    <3>2. pc'[p] \in ApplyLabel /\ \A q \in Proc \ {p} : pc'[q] = pc[q]
      BY <1>1, <2>4 DEF Goto
    <3> QED
      BY <1>2, <2>1, <3>1, <3>2
  <2>5. CASE call' = call /\ \E l \in ApplyLabel : Goto(p, l)
    BY <1>1, <1>2, <2>1, <2>5 DEF Goto
  <2> QED
    BY <2>2, <2>3, <2>4, <2>5
<1> QED
  BY <1>3, <1>4, <1>5 DEF Apply, ApplyStep

\* The steps of Apply keep Picked.
LEMMA ApplyPicked ==
  ASSUME IInv, Picked, NEW p \in Proc, Apply(p)
  PROVE  Picked'
<1>1. /\ pc[p] \in ApplyLabel => call[p].err \notin ApplyLabel \cup {"save"}
      /\ pc[p] = "save" => out[p].then \notin ApplyLabel \cup {"save"}
  BY AutoVpnAssumption
     DEF IInv, Control, ProcOK, ErrLabel, ThenLabel, OkLabel, ApplyLabel
<1>2. "save" \notin ApplyLabel
  BY DEF ApplyLabel
<1>3. p \in Automatic => Pickable(p)'
  BY <1>1, <1>2, ApplyMoves DEF Picked, Pickable
<1>4. CASE p # Watch
  BY <1>3, <1>4, ApplyMoves, OtherPicks
<1>5. CASE p = Watch
  <2>1. RoundBegins'
    <3>1. RoundBegins /\ spares' = spares
      BY ApplyMoves DEF Picked
    <3>2. \A l : NoneSpared(l) => NoneSpared(l)'
      BY <3>1 DEF NoneSpared
    <3>3. NoneSpared("save") /\ \A l \in ApplyLabel : NoneSpared(l)
      BY DEF NoneSpared, ApplyLabel
    <3> QED
      BY <1>1, <1>2, <1>5, <3>1, <3>2, <3>3, ApplyMoves DEF RoundBegins, NoneSpared
  <2>2. Spared'
    BY ApplyMoves DEF Picked, Spared
  <2> QED
    BY <1>3, <1>5, <2>1, <2>2, ApplyMoves, WatchPicks, WatchIsProc
<1> QED
  BY <1>4, <1>5

\* The watchdog at another label of its own, its copy and spare servers as
\* they were, or with no spare servers at all.
LEMMA WatchMovesOn ==
  ASSUME IInv, Picked, NEW l \in Label \ ApplyLabel, Goto(Watch, l), l # "save",
         call' = call, \A q \in Proc \ {Watch} : snap'[q] = snap[q],
         \/ spares' = <<>>
         \/ UNCHANGED <<spares, snap>> /\ NoneSpared(l)
  PROVE  Picked'
<1>1. pc'[Watch] = l /\ \A q \in Proc \ {Watch} : pc'[q] = pc[q]
  BY WatchIsProc DEF IInv, TypeOK, Goto
<1>2. Pickable(Watch)'
  BY <1>1 DEF Pickable
<1>3. Spared' /\ RoundBegins'
  <2>1. CASE spares' = <<>>
    BY <2>1, NoSparesNext
  <2>2. CASE UNCHANGED <<spares, snap>> /\ NoneSpared(l)
    BY <1>1, <2>2 DEF Picked, Spared, RoundBegins, NoneSpared
  <2> QED
    BY <2>1, <2>2
<1> QED
  BY <1>1, <1>2, <1>3, WatchPicks

\* The watchdog enters Apply with a key of its copy.
LEMMA WatchEnters ==
  ASSUME IInv, Picked, NEW key, NEW ok, NEW err, Enter(Watch, key, ok, err),
         snap' = snap, key \in Elements(snap[Watch].results) \cup {snap[Watch].active},
         Spared', NoneSpared(ok)' /\ NoneSpared(err)'
  PROVE  Picked'
<1>1. /\ pc'[Watch] = "fetch" /\ call'[Watch].key = key
      /\ call'[Watch].ok = ok /\ call'[Watch].err = err
      /\ \A q \in Proc \ {Watch} : pc'[q] = pc[q] /\ call'[q] = call[q]
  BY WatchIsProc DEF IInv, TypeOK, TunnelTypeOK, Enter, Goto
<1>2. Pickable(Watch)'
  BY <1>1 DEF Pickable
<1>3. RoundBegins'
  BY <1>1 DEF RoundBegins, NoneSpared
<1> QED
  BY <1>1, <1>2, <1>3, WatchPicks

\* The verdict ends the round.
LEMMA RecordLivePicked ==
  ASSUME IInv, Picked, NEW verdict, NEW repaired, RecordLive(verdict, repaired)
  PROVE  Picked'
<1>1. /\ spares' = <<>> /\ call' = call /\ Forget(Watch)
      /\ Goto(Watch, "sleep") \/ Goto(Watch, "save")
  BY DEF RecordLive, SaveLater
<1>2. \A q \in Proc \ {Watch} : snap'[q] = snap[q] /\ pc'[q] = pc[q]
  BY <1>1, WatchIsProc DEF Forget, Goto, IInv, TypeOK
<1>3. pc'[Watch] \notin ApplyLabel
  BY <1>1, WatchIsProc DEF Goto, IInv, TypeOK, ApplyLabel
<1>4. Pickable(Watch)'
  BY <1>3 DEF Pickable
<1> QED
  BY <1>1, <1>2, <1>4, NoSparesNext, WatchPicks

\* The watchdog's steps keep Picked.
LEMMA WatchPicked == ASSUME IInv, Picked, WatchStep PROVE Picked'
<1>1. WatchLabel \subseteq Label \ ApplyLabel /\ "save" \notin WatchLabel
  BY DEF WatchLabel, Label, ApplyLabel
<1>2. CASE Wake \/ Look
  <2>1. spares = <<>> /\ UNCHANGED <<spares, call>>
    BY <1>2 DEF Picked, RoundBegins, NoneSpared, Wake, Look
  <2>2. \E l \in WatchLabel : Goto(Watch, l)
    BY <1>2 DEF Wake, Look, WatchLabel
  <2>3. \A q \in Proc \ {Watch} : snap'[q] = snap[q]
    BY <1>2, WatchIsProc, SnapType DEF Wake, Look
  <2> QED
    BY <1>1, <2>1, <2>2, <2>3, WatchMovesOn
<1>3. CASE Ensure
  <2>1. spares = <<>> /\ UNCHANGED <<spares, snap>>
    BY <1>3 DEF Picked, RoundBegins, NoneSpared, Ensure, locals
  <2>2. CASE Goto(Watch, "look") /\ UNCHANGED call
    BY <1>1, <2>1, <2>2, WatchMovesOn DEF WatchLabel
  <2>3. CASE Enter(Watch, snap[Watch].active, "look", "sleep")
    BY <2>1, <2>3, NoSparesNext, WatchEnters DEF NoneSpared
  <2> QED
    BY <1>3, <2>2, <2>3 DEF Ensure
<1>4. CASE \E verdict, repaired : RecordLive(verdict, repaired)
  BY <1>4, RecordLivePicked
<1>5. CASE /\ Probe \/ Reprobe \/ SpareProbe
           /\ ~ \E verdict, repaired : RecordLive(verdict, repaired)
  <2>1. /\ UNCHANGED <<call, snap, spares>>
        /\ \/ pc[Watch] = "probe" /\ Goto(Watch, "inet")
           \/ Goto(Watch, "spares")
    BY <1>5 DEF Probe, Reprobe, SpareProbe
  <2>2. pc[Watch] = "probe" => spares = <<>>
    BY DEF Picked, RoundBegins, NoneSpared
  <2>3. NoneSpared("spares")
    BY DEF NoneSpared
  <2>4. "inet" \in WatchLabel /\ "spares" \in WatchLabel
    BY DEF WatchLabel
  <2>5. CASE pc[Watch] = "probe" /\ Goto(Watch, "inet")
    BY <1>1, <2>1, <2>2, <2>4, <2>5, WatchMovesOn
  <2>6. CASE Goto(Watch, "spares")
    BY <1>1, <2>1, <2>3, <2>4, <2>6, WatchMovesOn
  <2> QED
    BY <2>1, <2>5, <2>6
<1>6. CASE Inet /\ ~ \E verdict, repaired : RecordLive(verdict, repaired)
  <2>1. /\ Enter(Watch, snap[Watch].active, "reprobe", "spares")
        /\ spares' = SpareServers(snap[Watch]) /\ snap' = snap
    BY <1>6 DEF Inet
  <2>2. snap[Watch].results \in Seq(Server) /\ MaxRepairServers \in Nat
    BY <1>6, HasCopy, AutoVpnAssumption DEF Inet
  <2> DEFINE others == Without(snap[Watch].results, snap[Watch].active)
  <2>3. /\ others \in Seq(Server)
        /\ Elements(others) = Elements(snap[Watch].results) \ {snap[Watch].active}
    BY <2>2, WithoutKeeps
  <2>4. Spared'
    <3> HIDE DEF others
    <3>1. spares' = Take(others, MaxRepairServers)
      BY <2>1 DEF SpareServers, others
    <3> QED
      BY <2>1, <2>2, <2>3, <3>1, TakeKeeps DEF Spared
  <2>5. NoneSpared("reprobe")' /\ NoneSpared("spares")'
    BY DEF NoneSpared
  <2> QED
    BY <2>1, <2>4, <2>5, WatchEnters
<1>7. CASE Spares /\ ~ \E verdict, repaired : RecordLive(verdict, repaired)
  <2>1. /\ Enter(Watch, Head(spares), "spareprobe", "spares")
        /\ spares' = Tail(spares) /\ snap' = snap /\ spares # <<>>
    BY <1>7 DEF Spares
  <2>2. spares \in Seq(Server) /\ Len(spares) \in Nat \ {0}
    BY <2>1 DEF IInv, TypeOK
  <2>3. 1 \in DOMAIN spares /\ Head(spares) = spares[1]
    BY <2>2
  <2>4. Head(spares) \in Elements(snap[Watch].results)
    BY <2>3 DEF Picked, Spared
  <2>5. /\ Len(Tail(spares)) = Len(spares) - 1
        /\ \A i \in DOMAIN Tail(spares) : i + 1 \in DOMAIN spares /\ Tail(spares)[i] = spares[i + 1]
    BY <2>2
  <2>6. Spared'
    <3>1. Len(spares) <= MaxRepairServers /\ MaxRepairServers \in Nat
      BY AutoVpnAssumption DEF Picked, Spared
    <3>2. Len(Tail(spares)) <= MaxRepairServers
      BY <2>2, <2>5, <3>1
    <3>3. \A i \in DOMAIN Tail(spares) :
            Tail(spares)[i] \in Elements(snap[Watch].results) \ {snap[Watch].active}
      BY <2>5 DEF Picked, Spared
    <3> QED
      BY <2>1, <3>2, <3>3 DEF Spared
  <2>7. NoneSpared("spareprobe")' /\ NoneSpared("spares")'
    BY DEF NoneSpared
  <2> QED
    BY <2>1, <2>4, <2>6, <2>7, WatchEnters
<1> QED
  BY <1>2, <1>3, <1>4, <1>5, <1>6, <1>7 DEF WatchStep

\* So do the checks',
LEMMA CheckPicked ==
  ASSUME IInv, Picked, NEW c \in Checks,
         StartCheck(c) \/ StartSiteCheck(c) \/ CheckStep(c)
  PROVE  Picked'
<1>1. c \in Proc \ {Watch}
  BY CheckIsProc
<1>2. /\ pc \in [Proc -> Label] /\ call \in [Proc -> Frame]
      /\ out \in [Proc -> Copy] /\ DOMAIN snap = Proc
  BY DEF IInv, TypeOK, TunnelTypeOK
<1>3. /\ spares' = spares
      /\ \A q \in Proc \ {c} : snap'[q] = snap[q]
  BY <1>1, <1>2 DEF StartCheck, StartSiteCheck, CheckStep, SiteCheck, CheckServers,
     CheckResults, Decide, RefreshWinner, Choose, RecordError, Release, CheckOnly,
     locals, Forget
<1>4. CASE \E l \in CheckLabel \cup {"idle", "save"} : Goto(c, l) /\ call' = call
  <2>1. PICK l \in CheckLabel \cup {"idle", "save"} : Goto(c, l) /\ call' = call
    BY <1>4
  <2>2. /\ pc'[c] \notin ApplyLabel
        /\ \A q \in Proc \ {c} : pc'[q] = pc[q]
    BY <1>1, <1>2, <2>1 DEF Goto, CheckLabel, ApplyLabel
  <2>3. \A q \in Proc \ {c} : out'[q] = out[q]
    BY <1>1, <1>2 DEF StartCheck, StartSiteCheck, CheckStep, SiteCheck,
       CheckServers, CheckResults, Decide, RefreshWinner, Choose, RecordError,
       Release, SaveLater
  <2>4. Pickable(c)'
    BY <2>2 DEF Pickable
  <2> QED
    BY <1>1, <1>3, <2>1, <2>2, <2>3, <2>4, OtherPicks
<1>5. CASE Choose(c) /\ Enter(c, Head(snap[c].results), "release", "failed")
  <2>1. /\ pc'[c] = "fetch" /\ call'[c].key = Head(snap[c].results)
        /\ \A q \in Proc \ {c} : pc'[q] = pc[q] /\ call'[q] = call[q]
    BY <1>1, <1>2, <1>5 DEF Enter, Goto
  <2>2. snap' = snap /\ out' = out
    BY <1>5 DEF Choose
  <2>3. Head(snap[c].results) \in Elements(snap[c].results)
    <3>1. snap[c].results \in Seq(Server) /\ snap[c].results # <<>>
      BY <1>5, CheckHolds DEF Choose
    <3>2. 1 \in DOMAIN snap[c].results /\ Head(snap[c].results) = snap[c].results[1]
      BY <3>1
    <3> QED
      BY <3>2 DEF Elements
  <2>4. Pickable(c)'
    BY <2>1, <2>2, <2>3 DEF Pickable
  <2> QED
    BY <1>1, <1>3, <2>1, <2>2, <2>4, OtherPicks
<1>6. \/ \E l \in CheckLabel \cup {"idle", "save"} : Goto(c, l) /\ call' = call
      \/ Choose(c) /\ Enter(c, Head(snap[c].results), "release", "failed")
  <2>1. CASE StartCheck(c) \/ StartSiteCheck(c) \/ SiteCheck(c) \/ CheckServers(c)
             \/ Decide(c) \/ Release(c)
    BY <2>1 DEF StartCheck, StartSiteCheck, SiteCheck, CheckServers, Decide, Release,
                CheckLabel
  <2>2. CASE CheckResults(c) \/ RefreshWinner(c) \/ RecordError(c)
    BY <2>2 DEF CheckResults, RefreshWinner, RecordError, SaveLater
  <2>3. CASE Choose(c)
    BY <2>3 DEF Choose, CheckLabel
  <2> QED
    BY <2>1, <2>2, <2>3 DEF CheckStep
<1> QED
  BY <1>4, <1>5, <1>6

\* and those of all others.
LEMMA OthersPicked ==
  ASSUME IInv, Picked,
         \/ \E u \in Users : UserApply(u) \/ CloseTab(u) \/ NewTab(u)
         \/ UpdateSettings \/ Environment \/ UNCHANGED vars
  PROVE  Picked'
<1>1. CASE \E u \in Users : UserApply(u)
  <2>1. PICK u \in Users : UserApply(u)
    BY <1>1
  <2>2. u \in Proc \ {Watch} /\ u \notin Automatic
    BY UserIsProc
  <2>3. /\ UNCHANGED <<out, snap, spares>>
        /\ \A q \in Proc \ {u} : pc'[q] = pc[q] /\ call'[q] = call[q]
    BY <2>1, <2>2 DEF UserApply, Enter, Goto, locals, IInv, TypeOK, TunnelTypeOK
  <2> QED
    BY <2>2, <2>3, OtherPicks
<1>2. CASE ServiceRestart
  <2>1. /\ spares' = <<>>
        /\ \A p \in Proc : pc'[p] \notin ApplyLabel
    BY <1>2 DEF ServiceRestart, ApplyLabel
  <2>2. \A p \in Automatic : Pickable(p)'
    BY <2>1, AutoVpnAssumption DEF Automatic, Pickable
  <2> QED
    BY <2>1, <2>2, NoSparesNext DEF Picked
<1>3. CASE UNCHANGED <<pc, call, out, snap, spares>>
  BY <1>3 DEF Picked, Pickable, Spared, RoundBegins, NoneSpared
<1>4. \/ \E u \in Users : UserApply(u)
      \/ ServiceRestart
      \/ UNCHANGED <<pc, call, out, snap, spares>>
  BY DEF CloseTab, NewTab, UpdateSettings, Environment, Upgrade, TunnelDies,
         Withdraw, ServerDies, NetDown, NetUp, procVars, locals, vars
<1> QED
  BY <1>1, <1>2, <1>3, <1>4

\* spareServers, liveVerify and runCheck: whatever the service applies by
\* itself is from the results it decides by, or the server that was active
\* in them, and it never takes that one for a spare, nor more than the limit.
THEOREM OnlyFromResults == Spec => []PickedAlive
<1>1. Init => Picked
  <2> SUFFICES ASSUME Init PROVE Picked
    OBVIOUS
  <2>1. spares = <<>> /\ \A p \in Proc : pc[p] \notin ApplyLabel
    BY DEF Init, ApplyLabel
  <2>2. \A p \in Automatic : Pickable(p)
    BY <2>1, AutoVpnAssumption DEF Automatic, Pickable
  <2>3. RoundBegins
    BY <2>1 DEF RoundBegins, NoneSpared
  <2> QED
    BY <2>1, <2>2, <2>3, NoSpares DEF Picked
<1>2. IInv /\ Picked /\ [Next]_vars => Picked'
  <2> SUFFICES ASSUME IInv, Picked, [Next]_vars PROVE Picked'
    OBVIOUS
  <2> QED
    BY ApplyPicked, WatchPicked, CheckPicked, OthersPicked DEF Next
<1>3. Picked => PickedAlive
  BY DEF Picked, PickedAlive, Pickable, Spared
<1> QED
  BY <1>1, <1>2, <1>3, Invariant, PTL DEF Spec
=============================================================================
