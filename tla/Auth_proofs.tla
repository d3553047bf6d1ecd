----------------------------- MODULE Auth_proofs -----------------------------
(***************************************************************************)
(* For any tabs and passwords: sessions are of the password in force, an   *)
(* ended session stays ended, and a pause follows few tries.               *)
(***************************************************************************)
EXTENDS Auth, FiniteSetTheorems, TLAPS

Requests == [at: {"idle", "set", "gate", "read", "compared", "revoke"},
             op: {"none", "setup", "login", "change"}, no: 0..MaxRequests,
             pass: Pass \cup {None}, new: Pass \cup {None},
             right: BOOLEAN, crossed: BOOLEAN]

\* The request of t has opened no session yet.
Unopened(t) ==
  req[t].at \in {"gate", "read", "compared"} \/ (req[t].at = "set" /\ req[t].op = "setup")

\* What a request knows of the password.
Knows(t) ==
  /\ req[t].at # "idle" => req[t].pass \in Pass
  /\ req[t].op \in {"setup", "change"} => req[t].new \in Pass
  /\ req[t].at = "set" => req[t].op \in {"setup", "change"}
  /\ req[t].at = "compared" /\ req[t].right => file # None
  /\ req[t].at = "compared" /\ req[t].right /\ ~req[t].crossed => file = req[t].pass
  /\ req[t].at = "set" /\ req[t].op = "setup" /\ ~req[t].crossed => file = None

Used == sessions \cup disk \cup ended \cup {s \in Session : \E t \in Tab : cookie[t] = s}

\* Every session has a number of its own.
Fresh ==
  /\ Used \subseteq 1..asked
  /\ \A t \in Tab : Unopened(t) => req[t].no \in 1..asked /\ req[t].no \notin Used
  /\ \A t, u \in Tab :
       t # u /\ Unopened(t) /\ Unopened(u) => req[t].no # req[u].no

Gone == ended \cap sessions = {} /\ (~lost => ended \cap disk = {})

OfPassword ==
  /\ file = None => sessions = {} /\ disk = {}
  /\ (\A t \in Tab : req[t].at # "revoke") /\ ~cut
       => \A s \in sessions \cup disk : opened[s] = file \/ s \in late

Comparing == {t \in Tab : req[t].at \in {"read", "compared"}}

\* Every request that compares may add one to the count.
Bounded ==
  /\ tries <= fails
  /\ ~recent => tries = 0
  /\ fails + Cardinality(Comparing) <= MaxFails - 1 + Cardinality(Tab)

-----------------------------------------------------------------------------
\* A tab without a request has the empty one.
LEMMA NoRequestType ==
  /\ NoRequest \in Requests
  /\ NoRequest.at = "idle" /\ NoRequest.op = "none"
BY AuthAssumption DEF NoRequest, Requests

\* The service begins well typed.
LEMMA InitTypes == Init => TypeOK
<1> SUFFICES ASSUME Init PROVE TypeOK
  OBVIOUS
<1>1. req \in [Tab -> Requests]
  BY NoRequestType DEF Init
<1>2. 0 \in 0..MaxRequests /\ 0 \in 0..MaxFaults
  BY AuthAssumption
<1> QED
  BY <1>1, <1>2 DEF Init, TypeOK, Requests, Session

\* The request of one tab changes to one of the type.
LEMMA OneRequest ==
  ASSUME req \in [Tab -> Requests], NEW t \in Tab, NEW r \in Requests,
         req' = [req EXCEPT ![t] = r]
  PROVE  req' \in [Tab -> Requests]
OBVIOUS

\* The requests that a handler's step leaves.
LEMMA RequestTypes ==
  ASSUME req \in [Tab -> Requests], NEW t \in Tab
  PROVE  /\ Answer(t) => req' \in [Tab -> Requests]
         /\ \A at \in {"set", "read"} : Go(t, at) => req' \in [Tab -> Requests]
         /\ Read(t) => req' \in [Tab -> Requests]
         /\ SetPassword(t) => req' \in [Tab -> Requests]
<1>1. Answer(t) => req' \in [Tab -> Requests]
  BY NoRequestType, OneRequest DEF Answer
<1>2. ASSUME NEW at \in {"set", "read"}, Go(t, at) PROVE req' \in [Tab -> Requests]
  <2>1. [req[t] EXCEPT !.at = at] \in Requests
    BY DEF Requests
  <2> QED
    BY <1>2, <2>1, OneRequest DEF Go
<1>3. ASSUME Read(t) PROVE req' \in [Tab -> Requests]
  <2> DEFINE r == [req[t] EXCEPT !.right = (file = req[t].pass), !.at = "compared"]
  <2>1. r \in Requests
    <3>1. CASE file = req[t].pass
      <4>1. r = [req[t] EXCEPT !.right = TRUE, !.at = "compared"]
        BY <3>1
      <4>2. [req[t] EXCEPT !.right = TRUE, !.at = "compared"] \in Requests
        BY DEF Requests
      <4> HIDE DEF r
      <4> QED
        BY <4>1, <4>2
    <3>2. CASE file # req[t].pass
      <4>1. r = [req[t] EXCEPT !.right = FALSE, !.at = "compared"]
        BY <3>2
      <4>2. [req[t] EXCEPT !.right = FALSE, !.at = "compared"] \in Requests
        BY DEF Requests
      <4> HIDE DEF r
      <4> QED
        BY <4>1, <4>2
    <3> QED
      BY <3>1, <3>2
  <2>2. req' = [req EXCEPT ![t] = r]
    BY <1>3 DEF Read, Requests
  <2> QED
    BY <2>1, <2>2, OneRequest
<1>4. ASSUME SetPassword(t) PROVE req' \in [Tab -> Requests]
  <2>1. \A u \in Tab : [req[u] EXCEPT !.crossed = TRUE] \in Requests
    BY DEF Requests
  <2>2. \A at \in {"gate", "revoke"} : [req[t] EXCEPT !.at = at] \in Requests
    BY DEF Requests
  <2> QED
    BY <1>4, <2>1, <2>2, NoRequestType DEF SetPassword
<1> QED
  BY <1>1, <1>2, <1>3, <1>4

\* Failures stay within their bound.
LEMMA FaultTypes == ASSUME TypeOK PROVE Fault \/ NoFault => faults' \in 0..MaxFaults
BY AuthAssumption DEF TypeOK, Fault, NoFault

\* The session file holds sessions, written or not.
LEMMA PersistTypes ==
  ASSUME TypeOK, Persist, sessions' \subseteq Session
  PROVE  disk' \subseteq Session /\ lost' \in BOOLEAN /\ faults' \in 0..MaxFaults
<1>1. faults' \in 0..MaxFaults
  BY FaultTypes DEF Persist
<1> QED
  BY <1>1 DEF Persist, TypeOK

\* Every step keeps the types.
LEMMA NextTypes == TypeOK /\ Fresh /\ [Next]_vars => TypeOK'
<1> SUFFICES ASSUME TypeOK, Fresh, [Next]_vars PROVE TypeOK'
  OBVIOUS
<1> USE DEF password, session, lockout
<1>f. Fault \/ NoFault => faults' \in 0..MaxFaults
  BY FaultTypes
<1>a. MaxRequests \in Nat /\ MaxFaults \in Nat /\ None \notin Pass
  BY AuthAssumption
<1>r. req \in [Tab -> Requests]
  BY DEF TypeOK, Requests
<1>s. /\ req' \in [Tab -> Requests] /\ file' \in Pass \cup {None}
      /\ sessions' \subseteq Session /\ disk' \subseteq Session
      /\ late' \subseteq Session /\ ended' \subseteq Session
      /\ fails' \in Nat /\ tries' \in Nat /\ recent' \in BOOLEAN
      /\ cookie' \in [Tab -> Session \cup {None}]
      /\ asked' \in 0..MaxRequests /\ faults' \in 0..MaxFaults
      /\ opened' \in [Session -> Pass \cup {None}]
      /\ lost' \in BOOLEAN /\ cut' \in BOOLEAN
      => TypeOK'
  BY DEF TypeOK, Requests
<1>1. ASSUME NEW t \in Tab, Setup(t) \/ Login(t) \/ ChangePassword(t) PROVE TypeOK'
  <2>1. PICK op \in {"setup", "login", "change"}, at \in {"set", "gate"},
             pass \in Pass, new \in Pass \cup {None} : Begin(t, op, at, pass, new)
    BY <1>1 DEF Setup, Login, ChangePassword
  <2> DEFINE r == [NoRequest EXCEPT !.at = at, !.op = op, !.no = asked', !.pass = pass, !.new = new]
  <2>2. asked' \in 0..MaxRequests
    BY <2>1, <1>a DEF Begin, TypeOK
  <2>3. r \in Requests
    BY <2>2 DEF NoRequest, Requests
  <2>4. req' = [req EXCEPT ![t] = r]
    BY <2>1 DEF Begin
  <2>5. req' \in [Tab -> Requests]
    BY <2>3, <2>4, <1>r, OneRequest
  <2> QED
    BY <2>1, <2>2, <2>5, <1>s, <1>f DEF Begin, TypeOK
<1>2. ASSUME NEW t \in Tab, Logout(t) PROVE TypeOK'
  <2>1. /\ sessions' \subseteq Session /\ ended' \subseteq Session
        /\ cookie' \in [Tab -> Session \cup {None}] /\ Persist
    BY <1>2 DEF Logout, Revoke, TypeOK
  <2> QED
    BY <1>2, <1>r, <1>s, <2>1, PersistTypes DEF Logout, TypeOK
<1>3. ASSUME NEW t \in Tab, Expire(t) PROVE TypeOK'
  <2>1. sessions' \subseteq Session /\ Persist
    BY <1>3 DEF Expire, TypeOK
  <2> QED
    BY <1>3, <1>r, <1>s, <2>1, PersistTypes DEF Expire, TypeOK
<1>4. ASSUME NEW t \in Tab, Gate(t) PROVE TypeOK'
  <2>1. req' \in [Tab -> Requests]
    BY <1>4, <1>r, RequestTypes DEF Gate
  <2> QED
    BY <1>4, <2>1, <1>s, <1>f DEF Gate, TypeOK
<1>5. ASSUME NEW t \in Tab, Read(t) PROVE TypeOK'
  <2>1. req' \in [Tab -> Requests]
    BY <1>5, <1>r, RequestTypes
  <2> QED
    BY <1>5, <2>1, <1>s, <1>f DEF Read, TypeOK
<1>6. ASSUME NEW t \in Tab, ReadFails(t) \/ Wrong(t) \/ SetFails(t) PROVE TypeOK'
  <2>1. req' \in [Tab -> Requests]
    BY <1>6, <1>r, RequestTypes DEF ReadFails, Wrong, SetFails
  <2>2. fails + 1 \in Nat /\ tries + 1 \in Nat
    BY DEF TypeOK
  <2>3. CASE ReadFails(t) \/ SetFails(t)
    BY <2>3, <2>1, <1>s, <1>f DEF ReadFails, SetFails, TypeOK
  <2>4. CASE Wrong(t)
    BY <2>4, <2>1, <2>2, <1>s, <1>f DEF Wrong, TypeOK
  <2> QED
    BY <1>6, <2>3, <2>4
<1>7. ASSUME NEW t \in Tab, Open(t) PROVE TypeOK'
  <2>1. req' \in [Tab -> Requests]
    BY <1>7, <1>r, RequestTypes DEF Open
  <2>2. req[t].pass \in Pass \cup {None} /\ req[t].no \in Session
    BY <1>7, <1>a, <1>r DEF Requests, Fresh, Unopened, Open, TypeOK, Session
  <2>3. sessions' \subseteq Session /\ Persist
    BY <1>7, <2>2 DEF Open, TypeOK
  <2>4. opened' \in [Session -> Pass \cup {None}] /\ late' \subseteq Session
        /\ cookie' \in [Tab -> Session \cup {None}]
    BY <1>7, <2>2 DEF Open, TypeOK
  <2> QED
    BY <1>7, <2>1, <2>3, <2>4, <1>s, PersistTypes DEF Open, TypeOK
<1>8. ASSUME NEW t \in Tab, SetPassword(t) PROVE TypeOK'
  <2>1. req' \in [Tab -> Requests]
    BY <1>8, <1>r, RequestTypes
  <2>2. file' \in Pass \cup {None} /\ cut' \in BOOLEAN
    BY <1>8, <1>r DEF SetPassword, Requests, TypeOK
  <2> QED
    BY <1>8, <2>1, <2>2, <1>s, <1>f DEF SetPassword, TypeOK
<1>9. ASSUME NEW t \in Tab, RevokeAll(t) PROVE TypeOK'
  <2>1. req' \in [Tab -> Requests]
    BY <1>9, <1>r, RequestTypes DEF RevokeAll
  <2>2. /\ sessions' \subseteq Session /\ Persist
        /\ ended' \subseteq Session /\ cut' \in BOOLEAN
    BY <1>9 DEF RevokeAll, Remaining, TypeOK
  <2> QED
    BY <1>9, <2>1, <2>2, <1>s, PersistTypes DEF RevokeAll, TypeOK
<1>10. CASE LockoutOver
  BY <1>10, <1>r, <1>s, <1>f DEF LockoutOver, TypeOK
<1>11. CASE Restart
  <2>1. req' \in [Tab -> Requests]
    BY <1>11, NoRequestType DEF Restart
  <2>2. /\ sessions' \subseteq Session /\ ended' \subseteq Session
        /\ lost' \in BOOLEAN /\ cut' \in BOOLEAN
    BY <1>11 DEF Restart, TypeOK
  <2> QED
    BY <1>11, <2>1, <2>2, <1>s, <1>f DEF Restart, TypeOK
<1>12. CASE UNCHANGED vars
  BY <1>12, <1>r, <1>s DEF vars, TypeOK
<1> QED
  BY <1>1, <1>2, <1>3, <1>4, <1>5, <1>6, <1>7, <1>8, <1>9, <1>10, <1>11, <1>12
     DEF Next, Request, Step

-----------------------------------------------------------------------------
\* All of a request but where it is.
Rest(u) ==
  /\ req'[u].op = req[u].op /\ req'[u].no = req[u].no
  /\ req'[u].pass = req[u].pass /\ req'[u].new = req[u].new

\* What a step of one request leaves of another.
LEMMA Fields ==
  ASSUME req \in [Tab -> Requests], NEW t \in Tab, NEW u \in Tab
  PROVE
  /\ \A at \in {"set", "read"} : Go(t, at) =>
       /\ req'[u].at = IF u = t THEN at ELSE req[u].at
       /\ Rest(u) /\ req'[u].right = req[u].right /\ req'[u].crossed = req[u].crossed
  /\ Answer(t) => req'[u] = IF u = t THEN NoRequest ELSE req[u]
  /\ Read(t) =>
       IF u = t
       THEN /\ req'[t].at = "compared" /\ Rest(t) /\ req'[t].crossed = req[t].crossed
            /\ req'[t].right <=> file = req[t].pass
       ELSE req'[u] = req[u]
  /\ SetPassword(t) =>
       IF u = t
       THEN /\ req'[t].at = IF req[t].op = "setup" THEN "gate" ELSE "revoke"
            /\ Rest(t)
       ELSE \/ req'[u] = NoRequest /\ req[u] = NoRequest
            \/ /\ req'[u].at = req[u].at /\ req'[u].crossed = TRUE
               /\ Rest(u) /\ req'[u].right = req[u].right
<1>1. ASSUME NEW at \in {"set", "read"}, Go(t, at)
      PROVE  /\ req'[u].at = IF u = t THEN at ELSE req[u].at
             /\ Rest(u) /\ req'[u].right = req[u].right /\ req'[u].crossed = req[u].crossed
  BY <1>1 DEF Go, Requests, Rest
<1>2. Answer(t) => req'[u] = IF u = t THEN NoRequest ELSE req[u]
  BY DEF Answer
<1>3. ASSUME Read(t)
      PROVE  IF u = t
             THEN /\ req'[t].at = "compared" /\ Rest(t) /\ req'[t].crossed = req[t].crossed
                  /\ req'[t].right <=> file = req[t].pass
             ELSE req'[u] = req[u]
  <2> DEFINE r == [req[t] EXCEPT !.right = (file = req[t].pass), !.at = "compared"]
  <2>1. req' = [req EXCEPT ![t] = r]
    BY <1>3 DEF Read, Requests
  <2>2. /\ r.at = "compared" /\ r.op = req[t].op /\ r.no = req[t].no
        /\ r.pass = req[t].pass /\ r.new = req[t].new /\ r.crossed = req[t].crossed
    BY DEF Requests
  <2>3. r.right = (file = req[t].pass)
    BY DEF Requests
  <2> HIDE DEF r
  <2> QED
    BY <2>1, <2>2, <2>3 DEF Rest
<1>4. ASSUME SetPassword(t), u = t
      PROVE  req'[t].at = (IF req[t].op = "setup" THEN "gate" ELSE "revoke") /\ Rest(t)
  BY <1>4 DEF SetPassword, Requests, Rest
<1>5. ASSUME SetPassword(t), u # t
      PROVE  \/ req'[u] = NoRequest /\ req[u] = NoRequest
             \/ /\ req'[u].at = req[u].at /\ req'[u].crossed = TRUE
                /\ Rest(u) /\ req'[u].right = req[u].right
  <2>1. req'[u] = IF req[u] = NoRequest THEN NoRequest ELSE [req[u] EXCEPT !.crossed = TRUE]
    BY <1>5 DEF SetPassword
  <2> QED
    BY <2>1 DEF Requests, Rest
<1> QED
  BY <1>1, <1>2, <1>3, <1>4, <1>5

\* The request that a handler begins with.
LEMMA Begins ==
  ASSUME TypeOK, NEW t \in Tab, Setup(t) \/ Login(t) \/ ChangePassword(t)
  PROVE  \E op \in {"setup", "login", "change"}, at \in {"set", "gate"},
            pass \in Pass, new \in Pass \cup {None} :
         /\ Begin(t, op, at, pass, new)
         /\ at = "set" <=> op = "setup"
         /\ op = "setup" => file = None
         /\ op \in {"setup", "change"} => new \in Pass
         /\ \A u \in Tab \ {t} : req'[u] = req[u]
         /\ req'[t].at = at /\ req'[t].op = op /\ req'[t].no = asked + 1
         /\ req'[t].pass = pass /\ req'[t].new = new
         /\ asked + 1 \in 1..MaxRequests
<1>1. PICK op \in {"setup", "login", "change"}, at \in {"set", "gate"},
           pass \in Pass, new \in Pass \cup {None} :
        /\ Begin(t, op, at, pass, new)
        /\ at = "set" <=> op = "setup"
        /\ op = "setup" => file = None
        /\ op \in {"setup", "change"} => new \in Pass
  BY DEF Setup, Login, ChangePassword, HasPassword
<1>2. req' = [req EXCEPT ![t] = [NoRequest EXCEPT
        !.at = at, !.op = op, !.no = asked', !.pass = pass, !.new = new]]
  BY <1>1 DEF Begin
<1>3. req \in [Tab -> Requests]
  BY DEF TypeOK, Requests
<1>4. asked' = asked + 1 /\ asked + 1 \in 1..MaxRequests
  BY <1>1, AuthAssumption DEF Begin, TypeOK
<1>5. /\ \A u \in Tab \ {t} : req'[u] = req[u]
      /\ req'[t].at = at /\ req'[t].op = op /\ req'[t].no = asked + 1
      /\ req'[t].pass = pass /\ req'[t].new = new
  BY <1>2, <1>3, <1>4 DEF NoRequest
<1> QED
  BY <1>1, <1>4, <1>5

-----------------------------------------------------------------------------
\* Every step keeps what a request that compared right knows of the file.
LEMMA NextKnows ==
  ASSUME TypeOK, \A t \in Tab : Knows(t), [Next]_vars, NEW u \in Tab
  PROVE  Knows(u)'
<1>r. req \in [Tab -> Requests]
  BY DEF TypeOK, Requests
<1>n. Knows(u) /\ (req'[u] = NoRequest \/ (req'[u] = req[u] /\ file' = file) => Knows(u)')
  BY NoRequestType DEF Knows
<1>1. ASSUME NEW t \in Tab, Setup(t) \/ Login(t) \/ ChangePassword(t) PROVE Knows(u)'
  <2>1. file' = file
    BY <1>1, Begins DEF Begin, password
  <2>2. CASE u # t
    BY <1>1, <1>n, <2>1, <2>2, Begins
  <2>3. CASE u = t
    BY <1>1, <2>1, <2>3, Begins DEF Knows
  <2> QED
    BY <2>2, <2>3
<1>2. ASSUME NEW t \in Tab,
             ReadFails(t) \/ Wrong(t) \/ SetFails(t) \/ RevokeAll(t)
      PROVE  Knows(u)'
  <2>1. Answer(t) /\ file' = file
    BY <1>2 DEF ReadFails, Wrong, SetFails, RevokeAll, password
  <2> QED
    BY <1>r, <1>n, <2>1, Fields
<1>3. ASSUME NEW t \in Tab, Gate(t) PROVE Knows(u)'
  <2>1. file' = file /\ req[t].at = "gate"
    BY <1>3 DEF Gate, password
  <2>2. CASE Answer(t)
    BY <1>r, <1>n, <2>1, <2>2, Fields
  <2>3. CASE Go(t, "read")
    BY <1>r, <1>n, <2>1, <2>3, Fields DEF Knows, Rest
  <2> QED
    BY <1>3, <2>2, <2>3 DEF Gate
<1>4. ASSUME NEW t \in Tab, Read(t) PROVE Knows(u)'
  <2>1. file' = file /\ req[t].at = "read"
    BY <1>4 DEF Read, password
  <2>2. CASE u # t
    BY <1>r, <1>n, <1>4, <2>1, <2>2, Fields
  <2>3. CASE u = t
    <3>1. /\ req'[t].at = "compared" /\ Rest(t) /\ req'[t].crossed = req[t].crossed
          /\ req'[t].right <=> file = req[t].pass
      BY <1>r, <1>4, Fields
    <3>2. req[t].pass \in Pass /\ req[t].pass # None
      BY <1>n, <2>1, <2>3, AuthAssumption DEF Knows
    <3> QED
      BY <1>n, <2>1, <2>3, <3>1, <3>2 DEF Knows, Rest
  <2> QED
    BY <2>2, <2>3
<1>5. ASSUME NEW t \in Tab, Open(t) PROVE Knows(u)'
  <2>1. file' = file /\ req[t].at = "compared"
    BY <1>5 DEF Open, password
  <2>2. CASE Answer(t)
    BY <1>r, <1>n, <2>1, <2>2, Fields
  <2>3. CASE Go(t, "set") /\ req[t].op = "change"
    BY <1>r, <1>n, <2>1, <2>3, Fields DEF Knows, Rest
  <2> QED
    BY <1>5, <2>2, <2>3 DEF Open
<1>6. ASSUME NEW t \in Tab, SetPassword(t) PROVE Knows(u)'
  <2>1. file' = req[t].new /\ req[t].at = "set" /\ req[t].new # None
    BY <1>6, AuthAssumption DEF SetPassword, Knows
  <2>2. CASE u # t
    BY <1>r, <1>n, <1>6, <2>1, <2>2, Fields, NoRequestType DEF Knows, Rest
  <2>3. CASE u = t
    BY <1>r, <1>n, <1>6, <2>1, <2>3, Fields DEF Knows, Rest
  <2> QED
    BY <2>2, <2>3
<1>7. CASE Restart
  BY <1>7, NoRequestType, <1>n DEF Restart
<1>8. CASE LockoutOver \/ UNCHANGED vars \/ \E t \in Tab : Logout(t) \/ Expire(t)
  BY <1>8, <1>n DEF LockoutOver, Logout, Expire, vars, password
<1> QED
  BY <1>1, <1>2, <1>3, <1>4, <1>5, <1>6, <1>7, <1>8 DEF Next, Request, Step

\* No session is opened twice: requests and sessions have their own numbers.
LEMMA NextFresh ==
  ASSUME TypeOK, \A t \in Tab : Knows(t), Fresh, [Next]_vars
  PROVE  Fresh'
<1>r. req \in [Tab -> Requests] /\ asked \in Nat
  BY AuthAssumption DEF TypeOK, Requests
\* Nothing is used that was not, and no request is added to those without a session.
<1>k. ASSUME asked' = asked, Used' \subseteq Used,
             \A u \in Tab : Unopened(u)' => Unopened(u) /\ req'[u].no = req[u].no
      PROVE  Fresh'
  BY <1>k DEF Fresh
<1>1. ASSUME NEW t \in Tab, Setup(t) \/ Login(t) \/ ChangePassword(t) PROVE Fresh'
  <2>1. /\ asked' = asked + 1 /\ Used' = Used
        /\ req'[t].no = asked + 1 /\ \A u \in Tab \ {t} : req'[u] = req[u]
    <3>1. /\ asked' = asked + 1 /\ UNCHANGED <<session, cookie>>
          /\ req'[t].no = asked + 1 /\ \A u \in Tab \ {t} : req'[u] = req[u]
      BY <1>1, Begins DEF Begin
    <3>2. Used' = Used
      BY <3>1 DEF session, Used
    <3> QED
      BY <3>1, <3>2
  <2>2. \A u \in Tab \ {t} : Unopened(u)' => Unopened(u) /\ req'[u].no \in 1..asked
    BY <2>1 DEF Fresh, Unopened
  <2>3. asked + 1 \notin Used /\ asked + 1 \notin 1..asked /\ 1..asked \subseteq 1..asked + 1
        /\ asked + 1 \in 1..asked + 1
    BY <1>r DEF Fresh
  <2>4. Used' \subseteq 1..asked'
    BY <2>1, <2>3 DEF Fresh
  <2>5. \A u \in Tab : Unopened(u)' => req'[u].no \in 1..asked' /\ req'[u].no \notin Used'
    BY <2>1, <2>2, <2>3 DEF Fresh
  <2>6. \A u, w \in Tab : u # w /\ Unopened(u)' /\ Unopened(w)' => req'[u].no # req'[w].no
    <3> SUFFICES ASSUME NEW u \in Tab, NEW w \in Tab, u # w, Unopened(u)', Unopened(w)'
                 PROVE  req'[u].no # req'[w].no
      OBVIOUS
    <3>1. CASE u = t
      BY <2>1, <2>2, <2>3, <3>1
    <3>2. CASE w = t
      BY <2>1, <2>2, <2>3, <3>2
    <3>3. CASE u # t /\ w # t
      BY <2>1, <2>2, <3>3 DEF Fresh
    <3> QED
      BY <3>1, <3>2, <3>3
  <2> QED
    BY <2>4, <2>5, <2>6 DEF Fresh
<1>2. ASSUME NEW t \in Tab, ReadFails(t) \/ Wrong(t) \/ SetFails(t) PROVE Fresh'
  <2>1. Answer(t) /\ asked' = asked /\ Used' = Used
    BY <1>2 DEF ReadFails, Wrong, SetFails, session, Used
  <2>2. \A u \in Tab : Unopened(u)' => Unopened(u) /\ req'[u].no = req[u].no
    BY <1>r, <2>1, Fields, NoRequestType DEF Unopened
  <2> QED
    BY <1>k, <2>1, <2>2
<1>3. ASSUME NEW t \in Tab, Gate(t) PROVE Fresh'
  <2>1. asked' = asked /\ Used' = Used /\ req[t].at = "gate"
    BY <1>3 DEF Gate, session, Used
  <2>2. ASSUME NEW u \in Tab, Unopened(u)' PROVE Unopened(u) /\ req'[u].no = req[u].no
    <3>1. CASE Answer(t)
      BY <1>r, <2>2, <3>1, Fields, NoRequestType DEF Unopened
    <3>2. CASE Go(t, "read")
      BY <1>r, <2>1, <2>2, <3>2, Fields DEF Unopened, Rest
    <3> QED
      BY <1>3, <3>1, <3>2 DEF Gate
  <2> QED
    BY <1>k, <2>1, <2>2
<1>4. ASSUME NEW t \in Tab, Read(t) PROVE Fresh'
  <2>1. asked' = asked /\ Used' = Used /\ req[t].at = "read"
    BY <1>4 DEF Read, session, Used
  <2>2. ASSUME NEW u \in Tab, Unopened(u)' PROVE Unopened(u) /\ req'[u].no = req[u].no
    <3>1. CASE u = t
      BY <1>r, <1>4, <2>1, <3>1, Fields DEF Unopened, Rest
    <3>2. CASE u # t
      BY <1>r, <1>4, <2>2, <3>2, Fields DEF Unopened
    <3> QED
      BY <3>1, <3>2
  <2> QED
    BY <1>k, <2>1, <2>2
<1>5. ASSUME NEW t \in Tab, Open(t) PROVE Fresh'
  <2>1. /\ asked' = asked /\ Used' \subseteq Used \cup {req[t].no} /\ Unopened(t)
    BY <1>5 DEF Open, Persist, Used, Unopened, TypeOK
  <2>2. ~Unopened(t)'
    BY <1>r, <1>5, Fields, NoRequestType DEF Open, Unopened, Rest
  <2>3. ASSUME NEW u \in Tab, u # t PROVE req'[u] = req[u]
    BY <1>r, <1>5, <2>3 DEF Open, Go, Answer
  <2>4. \A u \in Tab : Unopened(u)' => u # t /\ Unopened(u) /\ req'[u].no = req[u].no
    BY <2>2, <2>3 DEF Unopened
  <2> QED
    BY <2>1, <2>4 DEF Fresh
<1>6. ASSUME NEW t \in Tab, SetPassword(t) PROVE Fresh'
  <2>1. asked' = asked /\ Used' = Used /\ req[t].at = "set"
    BY <1>6 DEF SetPassword, session, Used
  <2>2. ASSUME NEW u \in Tab, Unopened(u)' PROVE Unopened(u) /\ req'[u].no = req[u].no
    <3>1. CASE u = t
      BY <1>r, <1>6, <2>1, <2>2, <3>1, Fields DEF Unopened, Rest
    <3>2. CASE u # t
      BY <1>r, <1>6, <2>2, <3>2, Fields, NoRequestType DEF Unopened, Rest
    <3> QED
      BY <3>1, <3>2
  <2> QED
    BY <1>k, <2>1, <2>2
<1>7. ASSUME NEW t \in Tab, RevokeAll(t) PROVE Fresh'
  <2>1. Answer(t) /\ asked' = asked /\ Used' \subseteq Used
    BY <1>7 DEF RevokeAll, Remaining, Persist, Used
  <2>2. \A u \in Tab : Unopened(u)' => Unopened(u) /\ req'[u].no = req[u].no
    BY <1>r, <2>1, Fields, NoRequestType DEF Unopened
  <2> QED
    BY <1>k, <2>1, <2>2
<1>8. CASE Restart
  <2>1. asked' = asked /\ Used' \subseteq Used
    BY <1>8 DEF Restart, Used
  <2>2. \A u \in Tab : ~Unopened(u)'
    BY <1>8, NoRequestType DEF Restart, Unopened
  <2> QED
    BY <1>k, <2>1, <2>2
<1>9. ASSUME NEW t \in Tab, Logout(t) PROVE Fresh'
  <2>1. cookie[t] \in Session /\ cookie[t] \in Used
    BY <1>9 DEF Logout, TypeOK, Used
  <2>2. \A u \in Tab : cookie'[u] = None \/ cookie'[u] = cookie[u]
    BY <1>9 DEF Logout, TypeOK
  <2>3. asked' = asked /\ req' = req /\ sessions' \cup disk' \cup ended' \subseteq Used
    BY <1>9, <2>1 DEF Logout, Revoke, Persist, Used
  <2>4. Used' \subseteq Used
    BY <2>2, <2>3, AuthAssumption DEF Used, Session
  <2> QED
    BY <1>k, <2>3, <2>4 DEF Unopened
<1>10. CASE LockoutOver \/ UNCHANGED vars \/ \E t \in Tab : Expire(t)
  <2>1. asked' = asked /\ req' = req /\ Used' \subseteq Used
    BY <1>10 DEF LockoutOver, Expire, Persist, vars, session, Used
  <2> QED
    BY <1>k, <2>1 DEF Unopened
<1> QED
  BY <1>1, <1>2, <1>3, <1>4, <1>5, <1>6, <1>7, <1>8, <1>9, <1>10 DEF Next, Request, Step

\* What ended stays out of memory, and out of the file unless a write was lost.
LEMMA NextGone ==
  ASSUME TypeOK, Fresh, Gone, [Next]_vars
  PROVE  Gone'
<1>1. ASSUME NEW t \in Tab, Logout(t) PROVE Gone'
  BY <1>1 DEF Logout, Revoke, Persist, Gone
<1>2. ASSUME NEW t \in Tab, Expire(t) PROVE Gone'
  BY <1>2 DEF Expire, Persist, Gone
<1>3. ASSUME NEW t \in Tab, Open(t) PROVE Gone'
  <2>1. req[t].no \notin ended
    BY <1>3 DEF Open, Fresh, Unopened, Used
  <2> QED
    BY <1>3, <2>1 DEF Open, Persist, Gone
<1>4. ASSUME NEW t \in Tab, RevokeAll(t) PROVE Gone'
  BY <1>4 DEF RevokeAll, Remaining, Persist, Gone
<1>5. CASE Restart
  BY <1>5 DEF Restart, Gone
<1>6. ASSUME UNCHANGED session PROVE Gone'
  BY <1>6 DEF Gone, session
<1>7. ASSUME NEW t \in Tab, Setup(t) \/ Login(t) \/ ChangePassword(t) PROVE Gone'
  BY <1>6, <1>7 DEF Setup, Login, ChangePassword, Begin
<1>8. ASSUME NEW t \in Tab,
             Gate(t) \/ Read(t) \/ ReadFails(t) \/ Wrong(t) \/ SetPassword(t) \/ SetFails(t)
      PROVE  Gone'
  BY <1>6, <1>8 DEF Gate, Read, ReadFails, Wrong, SetPassword, SetFails
<1>9. CASE LockoutOver \/ UNCHANGED vars
  BY <1>6, <1>9 DEF LockoutOver, vars, session
<1> QED
  BY <1>1, <1>2, <1>3, <1>4, <1>5, <1>7, <1>8, <1>9 DEF Next, Request, Step

\* Every step keeps the sessions those of the password in force.
LEMMA NextOfPassword ==
  ASSUME TypeOK, \A t \in Tab : Knows(t), Fresh, OfPassword, [Next]_vars
  PROVE  OfPassword'
<1>r. req \in [Tab -> Requests]
  BY DEF TypeOK, Requests
\* The sessions are the same or fewer, and no change is answered.
<1>k. ASSUME sessions' \cup disk' \subseteq sessions \cup disk,
             UNCHANGED <<file, opened, late>>, cut => cut',
             \A u \in Tab : req[u].at = "revoke" => req'[u].at = "revoke" \/ cut'
      PROVE  OfPassword'
  BY <1>k DEF OfPassword
<1>1. ASSUME NEW t \in Tab, Setup(t) \/ Login(t) \/ ChangePassword(t) PROVE OfPassword'
  <2>1. PICK op, at, pass, new : Begin(t, op, at, pass, new)
    BY <1>1 DEF Setup, Login, ChangePassword
  <2>2. \A u \in Tab \ {t} : req'[u] = req[u]
    BY <1>1, Begins
  <2>3. req[t].at # "revoke"
    BY <2>1, NoRequestType DEF Begin
  <2> QED
    BY <1>k, <2>1, <2>2, <2>3 DEF Begin, password, session
<1>2. ASSUME NEW t \in Tab, Logout(t) \/ Expire(t) PROVE OfPassword'
  BY <1>2, <1>k DEF Logout, Expire, Revoke, Persist, password
<1>3. ASSUME NEW t \in Tab, ReadFails(t) \/ Wrong(t) \/ SetFails(t) PROVE OfPassword'
  <2>1. Answer(t) /\ UNCHANGED <<password, session>> /\ req[t].at # "revoke"
    BY <1>3 DEF ReadFails, Wrong, SetFails
  <2> QED
    BY <1>r, <1>k, <2>1, Fields DEF password, session
<1>4. ASSUME NEW t \in Tab, Gate(t) PROVE OfPassword'
  <2>1. (Answer(t) \/ Go(t, "read")) /\ UNCHANGED <<password, session>> /\ req[t].at = "gate"
    BY <1>4 DEF Gate
  <2> QED
    BY <1>r, <1>k, <2>1, Fields DEF password, session
<1>5. ASSUME NEW t \in Tab, Read(t) PROVE OfPassword'
  <2>1. UNCHANGED <<password, session>> /\ req[t].at = "read"
    BY <1>5 DEF Read
  <2> QED
    BY <1>r, <1>k, <1>5, <2>1, Fields DEF password, session
<1>6. ASSUME NEW t \in Tab, Open(t) PROVE OfPassword'
  <2> DEFINE s == req[t].no
  <2>1. /\ req[t].at = "compared" /\ req[t].right /\ UNCHANGED <<file, cut>>
        /\ sessions' = sessions \cup {s} /\ disk' \subseteq sessions' \cup disk
        /\ opened' = [opened EXCEPT ![s] = req[t].pass]
        /\ late' = IF req[t].crossed THEN late \cup {s} ELSE late
    BY <1>6 DEF Open, Persist, password
  <2>2. file # None /\ (req[t].crossed \/ file = req[t].pass)
    BY <2>1 DEF Knows
  <2>3. s \in Session /\ s \notin sessions \cup disk
    BY <2>1, AuthAssumption DEF Fresh, Unopened, Used, TypeOK, Session
  <2>4. opened'[s] = file \/ s \in late'
    BY <2>1, <2>2, <2>3, <1>r DEF TypeOK, Requests
  <2>5. \A i \in sessions \cup disk : opened'[i] = opened[i]
    BY <2>1, <2>3 DEF TypeOK
  <2>6. \A u \in Tab : req[u].at = "revoke" => req'[u].at = "revoke"
    BY <1>r, <1>6, <2>1, Fields DEF Open
  <2> QED
    BY <2>1, <2>2, <2>4, <2>5, <2>6 DEF OfPassword
<1>7. ASSUME NEW t \in Tab, SetPassword(t) PROVE OfPassword'
  <2>1. /\ req[t].at = "set" /\ file' = req[t].new /\ UNCHANGED <<sessions, disk, opened, late>>
        /\ cut' = (cut \/ (req[t].op = "setup" /\ req[t].crossed))
    BY <1>7 DEF SetPassword, session
  <2>2. file' # None
    BY <2>1, AuthAssumption DEF Knows
  <2>3. CASE req[t].op = "setup"
    BY <2>1, <2>2, <2>3 DEF Knows, OfPassword
  <2>4. CASE req[t].op # "setup"
    <3>1. req'[t].at = "revoke"
      BY <1>r, <1>7, <2>4, Fields
    <3> QED
      BY <2>2, <3>1 DEF OfPassword
  <2> QED
    BY <2>3, <2>4
<1>8. ASSUME NEW t \in Tab, RevokeAll(t) PROVE OfPassword'
  <2>1. /\ sessions' = {} /\ UNCHANGED <<file, opened, late>>
        /\ disk' \subseteq disk /\ cut' = (cut \/ disk' # sessions')
    BY <1>8 DEF RevokeAll, Remaining, Persist
  <2> QED
    BY <2>1 DEF OfPassword
<1>9. CASE Restart
  BY <1>9, <1>k DEF Restart
<1>10. CASE LockoutOver \/ UNCHANGED vars
  BY <1>10, <1>k DEF LockoutOver, vars, password, session
<1> QED
  BY <1>1, <1>2, <1>3, <1>4, <1>5, <1>6, <1>7, <1>8, <1>9, <1>10 DEF Next, Request, Step

-----------------------------------------------------------------------------
\* Counting the tabs that compare, one more or one less.
LEMMA ComparingCount ==
  ASSUME NEW S \in SUBSET Tab, NEW t \in Tab
  PROVE  /\ Cardinality(S) \in Nat /\ Cardinality(Tab) \in Nat
         /\ Cardinality(S) <= Cardinality(Tab)
         /\ t \in S => Cardinality(S \ {t}) = Cardinality(S) - 1
         /\ \A R \in SUBSET S : Cardinality(R) \in Nat /\ Cardinality(R) <= Cardinality(S)
<1>1. IsFiniteSet(Tab)
  BY AuthAssumption
<1>2. IsFiniteSet(S) /\ Cardinality(S) <= Cardinality(Tab)
  BY <1>1, FS_Subset
<1> QED
  BY <1>1, <1>2, FS_Subset, FS_RemoveElement, FS_CardinalityType

\* Wrong tries and comparisons under way stay below the limit together.
LEMMA NextBounded ==
  ASSUME TypeOK, Bounded, [Next]_vars
  PROVE  Bounded'
<1>r. req \in [Tab -> Requests] /\ fails \in Nat /\ tries \in Nat
  BY DEF TypeOK, Requests
<1>a. MaxFails \in Nat \ {0}
  BY AuthAssumption
<1>c. \A S \in SUBSET Tab : /\ Cardinality(S) \in Nat /\ Cardinality(Tab) \in Nat
                            /\ Cardinality(S) <= Cardinality(Tab)
                            /\ \A R \in SUBSET S : Cardinality(R) <= Cardinality(S)
  BY ComparingCount, AuthAssumption
<1>s. Comparing \in SUBSET Tab /\ Comparing' \in SUBSET Tab
  BY DEF Comparing
\* No more requests compare, and the counts are as before.
<1>k. ASSUME UNCHANGED lockout, Comparing' \subseteq Comparing PROVE Bounded'
  BY <1>k, <1>r, <1>a, <1>c, <1>s DEF Bounded, lockout
<1>1. ASSUME NEW t \in Tab, Setup(t) \/ Login(t) \/ ChangePassword(t) PROVE Bounded'
  <2>1. UNCHANGED lockout
    BY <1>1 DEF Setup, Login, ChangePassword, Begin
  <2>2. /\ req'[t].at \notin {"read", "compared"}
        /\ \A u \in Tab \ {t} : req'[u] = req[u]
    BY <1>1, Begins
  <2> QED
    BY <1>k, <2>1, <2>2 DEF Comparing
<1>2. ASSUME NEW t \in Tab, ReadFails(t) \/ SetFails(t) \/ RevokeAll(t) PROVE Bounded'
  <2>1. Answer(t) /\ UNCHANGED lockout
    BY <1>2 DEF ReadFails, SetFails, RevokeAll, lockout
  <2> QED
    BY <1>r, <1>k, <2>1, Fields, NoRequestType DEF Comparing
<1>3. ASSUME NEW t \in Tab, Logout(t) \/ Expire(t) PROVE Bounded'
  BY <1>k, <1>3 DEF Logout, Expire, lockout, Comparing
<1>4. ASSUME NEW t \in Tab, Read(t) PROVE Bounded'
  <2>1. UNCHANGED lockout /\ req[t].at = "read"
    BY <1>4 DEF Read
  <2> QED
    BY <1>r, <1>k, <1>4, <2>1, Fields DEF Comparing
<1>5. ASSUME NEW t \in Tab, SetPassword(t) PROVE Bounded'
  <2>1. UNCHANGED lockout
    BY <1>5 DEF SetPassword
  <2>2. ASSUME NEW u \in Comparing' PROVE u \in Comparing
    BY <1>r, <1>5, Fields, NoRequestType DEF Comparing
  <2> QED
    BY <1>k, <2>1, <2>2
<1>6. ASSUME NEW t \in Tab, Gate(t) PROVE Bounded'
  <2>1. UNCHANGED <<recent, tries>>
    BY <1>6 DEF Gate
  <2>2. CASE Locked
    <3>1. Answer(t) /\ UNCHANGED lockout
      BY <1>6, <2>2 DEF Gate, lockout
    <3> QED
      BY <1>r, <1>k, <3>1, Fields, NoRequestType DEF Comparing
  <2>3. CASE ~Locked
    <3>1. fails' = IF fails >= MaxFails THEN 0 ELSE fails
      BY <1>6, <2>3 DEF Gate
    <3>2. fails' <= MaxFails - 1 /\ fails' \in Nat
      BY <3>1, <1>r, <1>a
    <3>3. fails >= MaxFails => tries = 0
      BY <2>3 DEF Locked, Bounded
    <3>4. tries' <= fails'
      BY <2>1, <3>1, <3>3, <1>r DEF Bounded
    <3> QED
      BY <2>1, <3>2, <3>4, <1>a, <1>c, <1>s DEF Bounded
  <2> QED
    BY <2>2, <2>3
<1>7. ASSUME NEW t \in Tab, Wrong(t) PROVE Bounded'
  <2>1. /\ Answer(t) /\ t \in Comparing
        /\ fails' = fails + 1 /\ recent' = TRUE /\ tries' = tries + 1
    BY <1>7 DEF Wrong, Comparing
  <2>2. Comparing' = Comparing \ {t}
    BY <1>r, <2>1, Fields, NoRequestType DEF Comparing
  <2>3. Cardinality(Comparing') = Cardinality(Comparing) - 1
    BY <1>s, <2>1, <2>2, ComparingCount
  <2> QED
    BY <1>r, <1>a, <1>c, <1>s, <2>1, <2>3 DEF Bounded
<1>8. ASSUME fails' = 0, tries' = 0 PROVE Bounded'
  BY <1>8, <1>a, <1>c, <1>s DEF Bounded
<1>9. CASE Restart \/ \E t \in Tab : Open(t)
  BY <1>8, <1>9 DEF Restart, Open
<1>10. CASE LockoutOver
  <2>1. tries' = 0 /\ fails' = fails /\ Comparing' = Comparing
    BY <1>10 DEF LockoutOver, Comparing
  <2> QED
    BY <2>1, <1>r DEF Bounded
<1>11. CASE UNCHANGED vars
  BY <1>k, <1>11 DEF vars, lockout, Comparing
<1> QED
  BY <1>1, <1>2, <1>3, <1>4, <1>5, <1>6, <1>7, <1>9, <1>10, <1>11 DEF Next, Request, Step

-----------------------------------------------------------------------------
Inv ==
  /\ TypeOK
  /\ \A t \in Tab : Knows(t)
  /\ Fresh
  /\ Gone
  /\ OfPassword
  /\ Bounded

\* The invariant holds of the service, whatever the number of tabs.
THEOREM Invariant == Spec => []Inv
<1>1. Init => Inv
  <2> SUFFICES ASSUME Init PROVE Inv
    OBVIOUS
  <2>1. /\ \A t \in Tab : req[t] = NoRequest /\ ~Unopened(t) /\ Knows(t)
        /\ Comparing = {}
    BY NoRequestType DEF Init, Unopened, Knows, Comparing
  <2>2. Used = {}
    BY AuthAssumption DEF Init, Used, Session
  <2>3. Cardinality({}) = 0 /\ Cardinality(Tab) \in Nat /\ MaxFails \in Nat \ {0}
    BY AuthAssumption, FS_EmptySet, FS_CardinalityType
  <2>4. Cardinality(Tab) >= 1
    BY AuthAssumption, FS_EmptySet, <2>3
  <2>5. Bounded
    BY <2>1, <2>3, <2>4 DEF Bounded, Init
  <2> QED
    BY <2>1, <2>2, <2>5, InitTypes DEF Inv, Init, Fresh, Gone, OfPassword
<1>2. Inv /\ [Next]_vars => Inv'
  BY NextTypes, NextKnows, NextFresh, NextGone, NextOfPassword, NextBounded DEF Inv
<1> QED
  BY <1>1, <1>2, PTL DEF Spec

\* The model is well typed for every set of tabs and passwords.
THEOREM Types == Spec => []TypeOK
<1>1. Inv => TypeOK
  BY DEF Inv
<1> QED
  BY <1>1, Invariant, PTL

\* However many tabs log in, set and change the password at once, and however
\* often the service restarts, sessions are of the password in force.
THEOREM AlwaysOfPassword == Spec => []SessionsOfPassword
<1>1. Inv => SessionsOfPassword
  BY DEF Inv, OfPassword, SessionsOfPassword
<1> QED
  BY <1>1, Invariant, PTL

\* For any number of tabs, failed writes and restarts, an ended session stays
\* ended.
THEOREM AlwaysEnded == Spec => []EndedStays
<1>1. Inv => EndedStays
  BY DEF Inv, Gone, EndedStays
<1> QED
  BY <1>1, Invariant, PTL

\* For any number of tabs and any maxFails, few tries end in a pause.
THEOREM AlwaysFewTries == Spec => []FewTries
<1>1. Inv => FewTries
  <2> SUFFICES ASSUME Inv PROVE FewTries
    OBVIOUS
  <2>1. Comparing \in SUBSET Tab /\ MaxFails \in Nat /\ fails \in Nat /\ tries \in Nat
    BY AuthAssumption DEF Comparing, Inv, TypeOK
  <2>2. Cardinality(Comparing) \in Nat /\ Cardinality(Tab) \in Nat
    BY <2>1, ComparingCount, AuthAssumption
  <2> QED
    BY <2>1, <2>2 DEF Inv, Bounded, FewTries
<1> QED
  BY <1>1, Invariant, PTL
=============================================================================
