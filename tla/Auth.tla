-------------------------------- MODULE Auth --------------------------------
(***************************************************************************)
(* The password and the sessions: auth/auth.go and its handlers,           *)
(* httpapi/auth.go.  Verify holds the mutex before and after it compares,  *)
(* not while it does; a first setup and a change of password are several   *)
(* calls in a row.                                                         *)
(***************************************************************************)
EXTENDS FiniteSets, Integers

CONSTANTS
  Tab,          \* where requests come from
  Pass,         \* passwords
  MaxFails,     \* maxFails
  MaxRequests,  \* requests that verify a password, in a behaviour
  MaxFaults,    \* failed writes and restarts in a behaviour
  None

ASSUME AuthAssumption ==
  /\ IsFiniteSet(Tab) /\ Tab # {}
  /\ None \notin Pass /\ None \notin 1..MaxRequests
  /\ MaxFails \in Nat \ {0} /\ MaxRequests \in Nat /\ MaxFaults \in Nat

VARIABLES
  file,      \* the password in the password file, None before the first setup
  sessions,  \* the sessions in memory
  disk,      \* those in the session file
  fails,     \* wrong passwords in a row
  recent,    \* the last of them is less than lockoutTime old
  tries,     \* wrong passwords since the last right one or the last pause of that length
  req,       \* req[t]: the request of tab t
  cookie,    \* cookie[t]: the session of tab t, None without one
  asked,     \* requests so far; a session has the number of the one it is of
  faults,    \* failures so far
  opened,    \* opened[s]: the password session s was opened with
  late,      \* sessions opened while another request replaced the password
  ended,     \* sessions ended by a logout or a change of password
  lost,      \* the session file is older than the last end of a session
  cut        \* a change has not ended the sessions, or two setups met

vars == <<file, sessions, disk, fails, recent, tries, req, cookie, asked, faults,
          opened, late, ended, lost, cut>>
password == <<file, cut>>
session == <<sessions, disk, opened, late, ended, lost>>
lockout == <<fails, recent, tries>>

Session == 1..MaxRequests

\* pass: the password to be verified; new: the one to be set; right: what the
\* comparison said; crossed: another request set a password meanwhile.
NoRequest == [at |-> "idle", op |-> "none", no |-> 0, pass |-> None, new |-> None,
              right |-> FALSE, crossed |-> FALSE]

Fault == faults < MaxFaults /\ faults' = faults + 1
NoFault == faults' = faults

Go(t, at) == req' = [req EXCEPT ![t].at = at]
Answer(t) == req' = [req EXCEPT ![t] = NoRequest]

-----------------------------------------------------------------------------
(***************************************************************************)
(* The handlers                                                            *)
(***************************************************************************)

HasPassword == file # None

Begin(t, op, at, pass, new) ==
  /\ req[t] = NoRequest /\ asked < MaxRequests
  /\ asked' = asked + 1
  /\ req' = [req EXCEPT ![t] = [NoRequest EXCEPT
       !.at = at, !.op = op, !.no = asked', !.pass = pass, !.new = new]]
  /\ UNCHANGED <<password, session, lockout, cookie>> /\ NoFault

\* handleAuthSetup sets the password and logs in with it.
Setup(t) ==
  /\ ~HasPassword
  /\ \E new \in Pass : Begin(t, "setup", "set", new, new)

Login(t) ==
  /\ HasPassword
  /\ \E pass \in Pass : Begin(t, "login", "gate", pass, None)

\* handleAuthChangePassword, behind requireAuth.
ChangePassword(t) ==
  /\ cookie[t] \in sessions
  /\ \E pass, new \in Pass : Begin(t, "change", "gate", pass, new)

\* persistLocked, whose failure goes unnoticed.
Persist ==
  \/ disk' = sessions' /\ lost' = FALSE /\ NoFault
  \/ disk' = disk /\ lost' = TRUE /\ Fault

\* A mutant of Revoke: the session file is left as it is.
Revoke_Unsaved(s) ==
  /\ sessions' = sessions \ {s} /\ ended' = ended \cup {s}
  /\ UNCHANGED <<disk, lost>> /\ NoFault

Revoke(s) ==
  /\ sessions' = sessions \ {s} /\ ended' = ended \cup {s}
  /\ Persist

Logout(t) ==
  /\ req[t] = NoRequest /\ cookie[t] # None
  /\ Revoke(cookie[t])
  /\ cookie' = [cookie EXCEPT ![t] = None]
  /\ UNCHANGED <<password, lockout, req, asked, opened, late>>

\* Valid drops a session that was not used for SessionTTL.
Expire(t) ==
  /\ cookie[t] \in sessions
  /\ sessions' = sessions \ {cookie[t]} /\ UNCHANGED ended
  /\ Persist
  /\ UNCHANGED <<password, lockout, req, cookie, asked, opened, late>>

-----------------------------------------------------------------------------
(***************************************************************************)
(* Verify                                                                  *)
(***************************************************************************)

\* A mutant of Locked: one try more.
Locked_Over == fails > MaxFails /\ recent

Locked == fails >= MaxFails /\ recent

Gate(t) ==
  /\ req[t].at = "gate"
  /\ IF Locked
     THEN Answer(t) /\ UNCHANGED fails
     ELSE Go(t, "read") /\ fails' = (IF fails >= MaxFails THEN 0 ELSE fails)
  /\ UNCHANGED <<password, session, recent, tries, cookie, asked>> /\ NoFault

\* The file is read, and compared with the mutex free.
Read(t) ==
  /\ req[t].at = "read"
  /\ req' = [req EXCEPT ![t].right = (file = req[t].pass), ![t].at = "compared"]
  /\ UNCHANGED <<password, session, lockout, cookie, asked>> /\ NoFault

\* The file cannot be read.
ReadFails(t) ==
  /\ req[t].at = "read"
  /\ Answer(t)
  /\ UNCHANGED <<password, session, lockout, cookie, asked>> /\ NoFault

Wrong(t) ==
  /\ req[t].at = "compared" /\ ~req[t].right
  /\ fails' = fails + 1 /\ recent' = TRUE /\ tries' = tries + 1
  /\ Answer(t)
  /\ UNCHANGED <<password, session, cookie, asked>> /\ NoFault

\* A change of password does not hand out the session it opens.
Open(t) ==
  /\ req[t].at = "compared" /\ req[t].right
  /\ fails' = 0 /\ tries' = 0
  /\ sessions' = sessions \cup {req[t].no} /\ Persist
  /\ opened' = [opened EXCEPT ![req[t].no] = req[t].pass]
  /\ late' = IF req[t].crossed THEN late \cup {req[t].no} ELSE late
  /\ IF req[t].op = "change"
     THEN Go(t, "set") /\ UNCHANGED cookie
     ELSE Answer(t) /\ cookie' = [cookie EXCEPT ![t] = req[t].no]
  /\ UNCHANGED <<password, recent, asked, ended>>

-----------------------------------------------------------------------------
(***************************************************************************)
(* SetPassword and RevokeAll                                               *)
(***************************************************************************)

\* The file is replaced whole; the other requests under way were crossed.
SetPassword(t) ==
  /\ req[t].at = "set"
  /\ file' = req[t].new
  /\ req' = [u \in Tab |->
       IF u = t THEN [req[t] EXCEPT !.at = IF req[t].op = "setup" THEN "gate" ELSE "revoke"]
       ELSE IF req[u] = NoRequest THEN NoRequest ELSE [req[u] EXCEPT !.crossed = TRUE]]
  /\ cut' = (cut \/ (req[t].op = "setup" /\ req[t].crossed))
  /\ UNCHANGED <<session, lockout, cookie, asked>> /\ NoFault

\* It is too short, or cannot be written.
SetFails(t) ==
  /\ req[t].at = "set"
  /\ Answer(t)
  /\ UNCHANGED <<password, session, lockout, cookie, asked>> /\ NoFault

\* A mutant of Remaining: the tab stays logged in.
Remaining_Own(t) == sessions \cap {cookie[t]}

Remaining(t) == {}

RevokeAll(t) ==
  /\ req[t].at = "revoke"
  /\ sessions' = Remaining(t) /\ ended' = ended \cup (sessions \ sessions')
  /\ Persist
  /\ cut' = (cut \/ disk' # sessions')
  /\ Answer(t)
  /\ UNCHANGED <<file, lockout, cookie, asked, opened, late>>

-----------------------------------------------------------------------------
LockoutOver ==
  /\ recent /\ recent' = FALSE /\ tries' = 0
  /\ UNCHANGED <<password, session, fails, req, cookie, asked>> /\ NoFault

\* New: sessions that were not used for long by what the file says of them are
\* left out, and those whose end did not reach it are back.
Restart ==
  /\ sessions' \in SUBSET disk
  /\ fails' = 0 /\ recent' = FALSE /\ tries' = 0
  /\ req' = [t \in Tab |-> NoRequest]
  /\ cut' = (cut \/ \E t \in Tab : req[t].at = "revoke")
  /\ ended' = (IF lost THEN ended \ disk ELSE ended) /\ lost' = FALSE
  /\ UNCHANGED <<file, disk, cookie, asked, opened, late>> /\ Fault

Init ==
  /\ file = None /\ sessions = {} /\ disk = {}
  /\ fails = 0 /\ recent = FALSE /\ tries = 0
  /\ req = [t \in Tab |-> NoRequest] /\ cookie = [t \in Tab |-> None]
  /\ asked = 0 /\ faults = 0
  /\ opened = [s \in Session |-> None] /\ late = {} /\ ended = {}
  /\ lost = FALSE /\ cut = FALSE

Request(t) == Setup(t) \/ Login(t) \/ ChangePassword(t) \/ Logout(t) \/ Expire(t)

Step(t) ==
  \/ Gate(t) \/ Read(t) \/ ReadFails(t) \/ Wrong(t) \/ Open(t)
  \/ SetPassword(t) \/ SetFails(t) \/ RevokeAll(t)

Next == (\E t \in Tab : Request(t) \/ Step(t)) \/ LockoutOver \/ Restart

Spec == Init /\ [][Next]_vars

-----------------------------------------------------------------------------
TypeOK ==
  /\ file \in Pass \cup {None}
  /\ sessions \subseteq Session /\ disk \subseteq Session
  /\ late \subseteq Session /\ ended \subseteq Session
  /\ fails \in Nat /\ tries \in Nat /\ recent \in BOOLEAN
  /\ req \in [Tab -> [at: {"idle", "set", "gate", "read", "compared", "revoke"},
                      op: {"none", "setup", "login", "change"}, no: 0..MaxRequests,
                      pass: Pass \cup {None}, new: Pass \cup {None},
                      right: BOOLEAN, crossed: BOOLEAN]]
  /\ cookie \in [Tab -> Session \cup {None}]
  /\ asked \in 0..MaxRequests /\ faults \in 0..MaxFaults
  /\ opened \in [Session -> Pass \cup {None}]
  /\ lost \in BOOLEAN /\ cut \in BOOLEAN

\* Sessions are of the password in force: once a change has been answered, the
\* sessions of the earlier password are gone, but for those of logins that were
\* under way when it was replaced; a change that died half way, one whose end
\* of sessions did not reach the disk, and two first setups that met are the
\* exceptions (handleAuthChangePassword, handleAuthSetup).
SessionsOfPassword ==
  (\A t \in Tab : req[t].at # "revoke") /\ ~cut
    => \A s \in sessions : opened[s] = file \/ s \in late

\* A session that was ended does not come back, not by a restart either unless
\* its end could not be written before it (persistLocked, loadSessions).
EndedStays == ended \cap sessions = {}

\* However many tabs try at once, wrong passwords pause after maxFails of them,
\* and the others that were being compared (Verify counts after it compares).
FewTries == tries <= MaxFails + Cardinality(Tab) - 1
=============================================================================
