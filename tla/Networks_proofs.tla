--------------------------- MODULE Networks_proofs ---------------------------
(***************************************************************************)
(* Proofs about Networks for any networks, any number of tabs and any      *)
(* bounds.  IInv adds to the type invariant that the mutex admits one      *)
(* call, and what that call may rely on at each step: the list it read is  *)
(* still the list on disk.                                                 *)
(***************************************************************************)
EXTENDS Networks, TLAPS

Mutex == \A p, q \in Caller :
           call[p].at # "idle" /\ call[q].at # "idle" => p = q

CallOK(p) ==
  /\ call[p].at = "saveAdd" => /\ list \subseteq call[p].new
                              /\ call[p].new \subseteq list \cup Net
                              /\ call[p].todo = call[p].new
  /\ call[p].at = "saveDel" => /\ p \in Users
                              /\ call[p].new = list \ call[p].todo
                              /\ \E n \in list \cap Net : call[p].todo = {n}
  /\ call[p].at = "add" => call[p].todo \subseteq list
  /\ call[p].at = "del" => p \in Users /\ \E n \in Net \ list : call[p].todo = {n}

IInv == TypeOK /\ Mutex /\ (\A p \in Caller : CallOK(p)) /\ OnlyListed

-----------------------------------------------------------------------------

\* A list on disk, an empty table and no calls are a good beginning.
LEMMA InitOK == Init => IInv
  BY NetworksAssumption
  DEF Init, IInv, TypeOK, Mutex, CallOK, OnlyListed, Line, Call, NoCall

\* Every step keeps the invariant: only the caller that holds the mutex moves,
\* and the environment touches neither the list nor the calls but to end them.
LEMMA StepOK == IInv /\ [Next]_vars => IInv'
  <1> SUFFICES ASSUME IInv, [Next]_vars PROVE IInv'
    OBVIOUS
  <1> USE NetworksAssumption DEF IInv
  <1>1. ASSUME NEW u \in Users, NEW items \in SUBSET Net, Add(u, items)
        PROVE IInv'
    BY <1>1 DEF Add, Begin, Unlocked, TypeOK, Mutex, CallOK, OnlyListed, Smooth,
                Caller, Line, Call, kernel, env
  <1>2. ASSUME NEW u \in Users, NEW n \in Net, Remove(u, n)
        PROVE IInv'
    BY <1>2 DEF Remove, Begin, Unlocked, TypeOK, Mutex, CallOK, OnlyListed, Smooth,
                Caller, Line, Call, kernel, env
  <1>3. CASE Apply
    BY <1>3 DEF Apply, Begin, Unlocked, TypeOK, Mutex, CallOK, OnlyListed, Smooth,
                Caller, Line, Call, kernel, env
  <1>4. ASSUME NEW p \in Caller, SaveFails(p)
        PROVE IInv'
    BY <1>4 DEF SaveFails, Fault, Return, NoCall, TypeOK, Mutex, CallOK, OnlyListed,
                Smooth, Caller, Line, Call, kernel
  <1>5. ASSUME NEW p \in Caller, SaveAdd(p)
        PROVE IInv'
    BY <1>5 DEF SaveAdd, SaveList, TypeOK, Mutex, CallOK, OnlyListed, Smooth,
                Caller, Line, Call, kernel, env
  <1>6. ASSUME NEW p \in Caller, SaveDel(p)
        PROVE IInv'
    BY <1>6 DEF SaveDel, SaveList, TypeOK, Mutex, CallOK, OnlyListed, Smooth,
                Caller, Line, Call, kernel, env
  <1>7. ASSUME NEW p \in Caller, NEW n \in Line, ApplyLine(p, n)
        PROVE IInv'
    BY <1>7 DEF ApplyLine, Put, Fault, Return, NoCall, TypeOK, Mutex, CallOK,
                OnlyListed, Smooth, Caller, Line, Call
  <1>8. ASSUME NEW p \in Caller, Delete(p)
        PROVE IInv'
    BY <1>8 DEF Delete, Fault, Return, NoCall, TypeOK, Mutex, CallOK, OnlyListed,
                Smooth, Caller, Line, Call
  <1>9. CASE DestroyTable
    <2>1. TypeOK'
      <3>1. wipes' \in 0..MaxWipes
        BY <1>9 DEF DestroyTable, TypeOK
      <3>2. table' \subseteq Net /\ created' \in BOOLEAN
        BY <1>9, Zenon DEF DestroyTable
      <3> QED
        BY <1>9, <3>1, <3>2 DEF DestroyTable, TypeOK
    <2>2. (Mutex /\ \A p \in Caller : CallOK(p))'
      BY <1>9 DEF DestroyTable, Mutex, CallOK
    <2>3. OnlyListed'
      BY <1>9 DEF DestroyTable, OnlyListed
    <2> QED
      BY <2>1, <2>2, <2>3
  <1>10. CASE CreateTable
    BY <1>10 DEF CreateTable, TypeOK, Mutex, CallOK, OnlyListed, Smooth, env
  <1>11. CASE Restart
    BY <1>11 DEF Restart, NoCall, TypeOK, Mutex, CallOK, OnlyListed, Smooth, Caller,
                 Line, Call, kernel
  <1>12. CASE UNCHANGED vars
    BY <1>12 DEF vars, TypeOK, Mutex, CallOK, OnlyListed, Smooth
  <1> QED
    BY <1>1, <1>2, <1>3, <1>4, <1>5, <1>6, <1>7, <1>8, <1>9, <1>10, <1>11, <1>12
    DEF Next, Request, Step

\* Every state of a run satisfies the invariant.
THEOREM NetworksInvariant == Spec => []IInv
  BY InitOK, StepOK, PTL DEF Spec

\* The list and the table only ever hold lines of their kind: applyLocked
\* hands ipset nothing that normalize refuses.
THEOREM NetworksTyped == Spec => []TypeOK
  BY NetworksInvariant, PTL DEF IInv

\* However many tabs add and remove while KeepApplied ticks, the table holds
\* nothing that was removed, but what a Remove is about to delete.
THEOREM TableListed == Spec => []OnlyListed
  BY NetworksInvariant, PTL DEF IInv

\* However many tabs there are, none undoes what another added: a line leaves
\* the list in the save of a Remove of that line.
THEOREM LinesLeaveByRemove == Spec => LeavesByRemove
  <1> DEFINE Left == \A n \in list \ list' :
               \E u \in Users : call[u].at = "saveDel" /\ n \in call[u].todo
  <1>1. IInv /\ [Next]_vars => [Left]_vars
    <2> SUFFICES ASSUME IInv, Next PROVE Left
      OBVIOUS
    <2>1. ASSUME NEW p \in Caller, SaveAdd(p) PROVE Left
      BY <2>1 DEF IInv, CallOK, SaveAdd, SaveList
    <2>2. ASSUME NEW p \in Caller, SaveDel(p) PROVE Left
      BY <2>2 DEF IInv, CallOK, SaveDel, SaveList
    <2>3. ASSUME list' = list PROVE Left
      BY <2>3
    <2> QED
      BY <2>1, <2>2, <2>3
      DEF Next, Request, Step, Add, Remove, Apply, Begin, SaveFails, ApplyLine,
          Delete, DestroyTable, CreateTable, Restart
  <1> QED
    BY <1>1, NetworksInvariant, PTL DEF Spec, LeavesByRemove

-----------------------------------------------------------------------------
(***************************************************************************)
(* Store implements KernelFollowsFile                                      *)
(***************************************************************************)

\* A step that touches neither the list nor the table is none of the table's.
LEMMA Idle ==
  ASSUME list' = list, table' = table
  PROVE  [Follower!Next]_(Follower!vars)
BY DEF Follower!vars

\* ipset add of a line is a Load: the line is on the list the file has now.
LEMMA PutFollows ==
  ASSUME NEW n \in list \cap Net, Put(n), list' = list
  PROVE  [Follower!Next]_(Follower!vars)
<1>1. CASE table' = table \cup {n}
  BY <1>1 DEF Follower!Next, Follower!Load
<1>2. CASE table' = table
  BY <1>2, Idle
<1> QED
  BY <1>1, <1>2 DEF Put

\* Every step of a call is one of the table's or none.
LEMMA CallFollows ==
  ASSUME IInv, NEW p \in Caller, Step(p)
  PROVE  [Follower!Next]_(Follower!vars)
<1>1. CASE SaveFails(p)
  BY <1>1, Idle DEF SaveFails, kernel
<1>2. CASE SaveAdd(p)
  <2>1. list' = list \cup (call[p].new \ list) /\ call[p].new \ list \in SUBSET Net
    BY <1>2 DEF SaveAdd, SaveList, IInv, CallOK
  <2>2. UNCHANGED table
    BY <1>2 DEF SaveAdd, SaveList, kernel
  <2> QED
    BY <2>1, <2>2 DEF Follower!Next, Follower!Extend
<1>3. CASE SaveDel(p)
  <2>1. PICK n \in list \cap Net : list' = list \ {n}
    BY <1>3 DEF SaveDel, SaveList, IInv, CallOK
  <2>2. UNCHANGED table
    BY <1>3 DEF SaveDel, SaveList, kernel
  <2> QED
    BY <2>1, <2>2 DEF Follower!Next, Follower!Strike
<1>4. ASSUME NEW n \in Line, ApplyLine(p, n) PROVE [Follower!Next]_(Follower!vars)
  <2>1. n \in list /\ list' = list
    BY <1>4 DEF ApplyLine, IInv, CallOK
  <2>2. CASE n \in Net
    BY <1>4, <2>1, <2>2, PutFollows DEF ApplyLine
  <2>3. CASE n \notin Net
    BY <1>4, <2>1, <2>3, Idle DEF ApplyLine
  <2> QED
    BY <2>2, <2>3
<1>5. CASE Delete(p)
  <2>1. PICK n \in Net \ list : call[p].todo = {n}
    BY <1>5 DEF Delete, IInv, CallOK
  <2>2. list' = list /\ (table' = table \/ table' = table \ {n})
    BY <1>5, <2>1 DEF Delete
  <2>3. CASE table' = table
    BY <2>2, <2>3, Idle
  <2>4. CASE table' = table \ {n} /\ n \in table
    BY <2>1, <2>2, <2>4 DEF Follower!Next, Follower!Unload
  <2>5. CASE table' = table \ {n} /\ n \notin table
    <3>1. table' = table
      BY <2>5
    <3> QED
      BY <2>2, <3>1, Idle
  <2> QED
    BY <2>2, <2>3, <2>4, <2>5
<1> QED
  BY <1>1, <1>2, <1>3, <1>4, <1>5 DEF Step

\* Every step of Networks is one of the table's or none.
LEMMA StepFollows == IInv /\ [Next]_vars => [Follower!Next]_(Follower!vars)
<1> SUFFICES ASSUME IInv, [Next]_vars PROVE [Follower!Next]_(Follower!vars)
  OBVIOUS
<1>1. ASSUME NEW u \in Users, Request(u) PROVE [Follower!Next]_(Follower!vars)
  BY <1>1, Idle DEF Request, Add, Remove, Begin, kernel
<1>2. CASE Apply
  BY <1>2, Idle DEF Apply, Begin, kernel
<1>3. CASE DestroyTable
  BY <1>3 DEF DestroyTable, Follower!Next, Follower!Wipe
<1>4. CASE CreateTable
  BY <1>4, Idle DEF CreateTable
<1>5. CASE Restart
  BY <1>5, Idle DEF Restart, kernel
<1>6. CASE UNCHANGED vars
  BY <1>6, Idle DEF vars
<1> QED
  BY <1>1, <1>2, <1>3, <1>4, <1>5, <1>6, CallFollows DEF Next

\* Whatever is wiped, fails or restarts, and however many tabs there are, only
\* what is listed at that moment enters the table, and ipset takes out only
\* what no longer is: Store implements KernelFollowsFile.
THEOREM TableFollowsFile == Spec => FollowsFile
<1>1. Init => Follower!Init
  BY DEF Init, Follower!Init
<1> QED
  BY <1>1, StepFollows, NetworksInvariant, PTL DEF Spec, FollowsFile, Follower!Spec
=============================================================================
