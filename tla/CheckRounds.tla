---------------------------- MODULE CheckRounds ----------------------------
(***************************************************************************)
(* What the daily check of the subscription measures, how it ranks the     *)
(* servers and when it switches (probe/run.go, probe/probe.go and runCheck *)
(* of autovpn/manager.go), round after round.  A round is the only process *)
(* here, besides whoever else applies a server (a tab, the watchdog), at   *)
(* any moment: the round measures by the active server it read when it     *)
(* began and decides by the one it read when the measuring was over.       *)
(*                                                                         *)
(* Times are whole milliseconds and speeds whole units.  The servers come  *)
(* in the order of the subscription, up to 20 of them: up to there         *)
(* sort.SliceStable is one insertion sort, which matters because Better is *)
(* not transitive.  A subscription without servers is refused before.      *)
(***************************************************************************)
EXTENDS Integers, SequencesExt

CONSTANTS
  Subscription,  \* the servers, in the order of the subscription
  Quality,       \* what a server may be like
  SpeedTopN,     \* servers whose speed is measured in a check
  None           \* no active server

Servers == ToSet(Subscription)
Size == Len(Subscription)

ASSUME RoundsAssumption ==
  /\ Subscription \in Seq(Servers) /\ Size \in 1..20
  /\ \A i, j \in 1..Size : Subscription[i] = Subscription[j] => i = j
  /\ Quality \subseteq [reach: BOOLEAN, works: BOOLEAN, latency: Nat \ {0},
                        tunnel: Nat \ {0}, speed: Nat]
  /\ SpeedTopN \in 1..20
  /\ None \notin Servers

VARIABLES
  world,    \* world[s]: what server s is like now; speed 0: no measurement
  outcomes, \* results of CheckAll, in the order of the subscription
  results,  \* State.Results, ranked
  active,   \* State.ActiveKey
  told,     \* opt.ActiveKey: the active server as the round began
  copied,   \* stateCopy.ActiveKey: the active server as CheckAll was done
  ended,    \* how CheckAll ended
  phase     \* the next thing runCheck does

vars == <<world, outcomes, results, active, told, copied, ended, phase>>

Phases == {"latency", "tunnel", "speed", "winner", "switch"}

\* CheckAll went through, ran out of time, or could not start xray.
Endings == {"whole", "late", "broken"}

-----------------------------------------------------------------------------
(***************************************************************************)
(* Results and their order                                                 *)
(***************************************************************************)

Alive(r) == r.reach /\ r.works

LatencyOf(r) == IF r.tunnel > 0 THEN r.tunnel ELSE r.latency

Significance == 10

\* The slower of two speeds is within 15% of the faster.
Close(v, w) == 100 * v >= 85 * w /\ 100 * w >= 85 * v

Abs(n) == IF n < 0 THEN -n ELSE n

\* Speed decides, unless it is close and the latency differs noticeably.
Better(a, b) ==
  /\ Alive(a)
  /\ \/ ~Alive(b)
     \/ a.speed = 0 /\ b.speed = 0 /\ LatencyOf(a) < LatencyOf(b)
     \/ a.speed > 0 /\ b.speed = 0
     \/ /\ a.speed > 0 /\ b.speed > 0
        /\ IF /\ Close(a.speed, b.speed)
              /\ Abs(LatencyOf(a) - LatencyOf(b)) >= Significance
           THEN LatencyOf(a) < LatencyOf(b)
           ELSE a.speed > b.speed

\* x sinks in front of the longest tail of those done all of which it precedes.
Sunk(done, x, before) ==
  LET i == CHOOSE i \in 1..Len(done) + 1 :
             /\ \A j \in i..Len(done) : <<x, done[j]>> \in before
             /\ i > 1 => <<x, done[i - 1]>> \notin before
  IN  InsertAt(done, i, x)

\* A stable insertion sort of those of the positions 1..n that are kept.
Positions(n, kept, before) ==
  LET done[m \in 0..n] ==
        IF m = 0 THEN <<>>
        ELSE IF m \in kept THEN Sunk(done[m - 1], m, before) ELSE done[m - 1]
  IN  done[n]

Sort(rs) ==
  LET before == {p \in (DOMAIN rs) \X (DOMAIN rs) : Better(rs[p[1]], rs[p[2]])}
      order == Positions(Len(rs), DOMAIN rs, before)
  IN  [k \in DOMAIN order |-> rs[order[k]]]

-----------------------------------------------------------------------------
(***************************************************************************)
(* CheckAll                                                                *)
(***************************************************************************)

\* A mutant of Known: the mark of an unknown speed is taken for a speed.
Known_Unset(s) ==
  IF \E i \in DOMAIN results : results[i].key = s /\ results[i].speed > 0
  THEN 1 ELSE -1

\* The speed an earlier round left for s, 0 without one.
Known(s) ==
  LET old == {i \in DOMAIN results : results[i].key = s}
  IN IF old = {} THEN 0 ELSE results[CHOOSE i \in old : TRUE].speed

\* The entry node answers.  The speed of an earlier round is shown until
\* this one measures it.
Reached(s) ==
  [key |-> s, reach |-> TRUE, works |-> TRUE, latency |-> world[s].latency,
   tunnel |-> 0, speed |-> Known(s), stale |-> Known(s) > 0, failed |-> FALSE]

Unreached(s) ==
  [key |-> s, reach |-> FALSE, works |-> TRUE, latency |-> 0, tunnel |-> 0,
   speed |-> 0, stale |-> FALSE, failed |-> FALSE]

Blocked(r) == [r EXCEPT !.works = FALSE, !.tunnel = 0, !.speed = 0, !.stale = FALSE]

\* What the request through the tunnel says of a server that was reached.
Through(r) ==
  IF ~r.reach THEN r
  ELSE IF world[r.key].works THEN [r EXCEPT !.tunnel = world[r.key].tunnel]
  ELSE Blocked(r)

Untimed(r) == [r EXCEPT !.failed = TRUE]

\* A measurement that fails leaves the earlier speed in place.
Timed(r) ==
  IF world[r.key].speed = 0 THEN Untimed(r)
  ELSE [r EXCEPT !.speed = world[r.key].speed, !.stale = FALSE]

\* Mutants of Urgent: no server goes first; the servers of known
\* speed go first.
Urgent_NoActive(a, b) ==
  \/ a.speed = 0 /\ b.speed > 0
  \/ a.speed > 0 /\ b.speed > 0 /\ a.speed > b.speed
  \/ a.speed = 0 /\ b.speed = 0 /\ LatencyOf(a) < LatencyOf(b)

Urgent_KnownFirst(a, b) ==
  \/ a.key = told /\ b.key # told
  \/ /\ (a.key = told) = (b.key = told)
     /\ \/ a.speed > b.speed
        \/ a.speed = 0 /\ b.speed = 0 /\ LatencyOf(a) < LatencyOf(b)

\* The server told of first, then those of unknown speed, the quickest to
\* answer first, then the fastest of the others.
Urgent(a, b) ==
  \/ a.key = told /\ b.key # told
  \/ /\ (a.key = told) = (b.key = told)
     /\ \/ a.speed = 0 /\ b.speed > 0
        \/ a.speed > 0 /\ b.speed > 0 /\ a.speed > b.speed
        \/ a.speed = 0 /\ b.speed = 0 /\ LatencyOf(a) < LatencyOf(b)

\* The first SpeedTopN of the live servers in that order.
SpeedCandidates(rs) ==
  LET before == {p \in (DOMAIN rs) \X (DOMAIN rs) : Urgent(rs[p[1]], rs[p[2]])}
      order == Positions(Len(rs), {i \in DOMAIN rs : Alive(rs[i])}, before)
      top == IF Len(order) < SpeedTopN THEN Len(order) ELSE SpeedTopN
  IN  [k \in 1..top |-> rs[order[k]]]

End(how, rs) ==
  /\ ended' = how
  /\ results' = Sort(rs)
  /\ outcomes' = <<>>
  /\ phase' = "winner"
  /\ copied' = active
  /\ UNCHANGED <<world, active>>

GoOn(next, rs) ==
  /\ phase' = next
  /\ outcomes' = rs
  /\ UNCHANGED <<world, results, active, copied, ended>>

\* First stage: the entry nodes, all at once.  Time may run out before the
\* servers of late have answered.
FirstStage(late) ==
  [i \in 1..Size |->
     LET s == Subscription[i]
     IN IF world[s].reach /\ s \notin late THEN Reached(s) ELSE Unreached(s)]

Latency ==
  /\ phase = "latency"
  /\ GoOn("tunnel", FirstStage({}))
  /\ told' = active

LatencyCut ==
  /\ phase = "latency"
  /\ \E late \in SUBSET Servers : End("late", FirstStage(late))
  /\ told' = active

\* Second stage: is there a way out through the first n servers.
SecondStage(n) ==
  [i \in 1..Size |-> IF i <= n THEN Through(outcomes[i]) ELSE outcomes[i]]

Tunnel ==
  /\ phase = "tunnel"
  /\ GoOn("speed", SecondStage(Size))
  /\ UNCHANGED told

\* Running out of time while a server is checked is held against it, an xray
\* that does not start against nobody.
TunnelCut ==
  /\ phase = "tunnel"
  /\ \E n \in 0..Size :
       \/ End("late", SecondStage(n))
       \/ /\ n < Size /\ outcomes[n + 1].reach
          /\ \/ End("late", [SecondStage(n) EXCEPT ![n + 1] = Blocked(@)])
             \/ End("broken", SecondStage(n))
  /\ UNCHANGED told

\* Third stage: the speed of the servers in cands, one after another.
ThirdStage(cands, hopeless) ==
  [i \in 1..Size |->
     LET r == outcomes[i]
     IN CASE r.key \in hopeless -> Untimed(r)
          [] r.key \in cands \ hopeless -> Timed(r)
          [] OTHER -> r]

Candidates(m) ==
  LET cands == SpeedCandidates(outcomes)
  IN {cands[j].key : j \in 1..m}

Speed ==
  /\ phase = "speed"
  /\ End("whole", ThirdStage(Candidates(Len(SpeedCandidates(outcomes))), {}))
  /\ UNCHANGED told

\* Time runs out in the measurement of the last of m candidates, or before
\* that of the next.
SpeedCut ==
  /\ phase = "speed"
  /\ \E m \in 0..Len(SpeedCandidates(outcomes)) :
       \E last \in {Candidates(m) \ Candidates(m - 1), {}} :
         End("late", ThirdStage(Candidates(m), last))
  /\ UNCHANGED told

-----------------------------------------------------------------------------
(***************************************************************************)
(* runCheck                                                                *)
(***************************************************************************)

\* The winner's speed is of an earlier round: it is measured now, and what
\* cannot be measured counts for nothing.
Unmeasured(r) == [r EXCEPT !.speed = 0, !.stale = FALSE, !.failed = TRUE]

Remeasured(r) ==
  IF world[r.key].speed > 0
  THEN [r EXCEPT !.speed = world[r.key].speed, !.stale = FALSE]
  ELSE Unmeasured(r)

MustRefresh == Alive(Head(results)) /\ Head(results).stale

\* A mutant of Rerank: the winner stays first whatever its new speed.
Rerank_NoSort(winner) ==
  /\ results' = [results EXCEPT ![1] = winner]
  /\ phase' = "switch"
  /\ UNCHANGED <<world, outcomes, active, told, copied>>

Rerank(winner) ==
  /\ results' = Sort([results EXCEPT ![1] = winner])
  /\ phase' = "switch"
  /\ UNCHANGED <<world, outcomes, active, told, copied>>

Refresh ==
  /\ phase = "winner" /\ MustRefresh /\ ended # "late"
  /\ Rerank(Remeasured(Head(results)))
  /\ UNCHANGED ended

\* The measurement fails, for want of time or as any measurement may.
RefreshCut ==
  /\ phase = "winner" /\ MustRefresh
  /\ Rerank(Unmeasured(Head(results)))
  /\ ended' \in {ended, "late"}

\* A mutant of KeepCurrent: any gain is worth a switch.
KeepCurrent_Never == FALSE

\* keepCurrent: the best one must be better by 15%, by speed if both are
\* known, by the latency of the entry node otherwise.
KeepCurrent ==
  \E i \in DOMAIN results :
    LET best == Head(results)
        cur == results[i]
    IN /\ cur.key = copied /\ Alive(cur)
       /\ IF best.speed > 0 /\ cur.speed > 0
          THEN 100 * best.speed < 115 * cur.speed
          ELSE 115 * best.latency > 100 * cur.latency

\* The check switches, or stays: as it must, or because Apply fails, which it
\* does when time is up.
Choose ==
  /\ \/ phase = "switch"
     \/ phase = "winner" /\ ~MustRefresh
  /\ LET best == Head(results)
         switch == Alive(best) /\ best.key # copied /\ ~KeepCurrent
     IN \/ switch /\ ended # "late" /\ active' = best.key
        \/ UNCHANGED active
  /\ phase' = "latency"
  /\ ended' = "whole"
  /\ told' = None /\ copied' = None
  /\ UNCHANGED <<world, outcomes, results>>

\* Without AutoApply the check only stores what it found.
Stay ==
  /\ phase = "winner"
  /\ phase' = "latency"
  /\ ended' = "whole"
  /\ told' = None /\ copied' = None
  /\ UNCHANGED <<world, outcomes, results, active>>

\* The user, or the watchdog, picks another server: between two checks or
\* while one is measuring, which nothing holds back.
UserApply ==
  /\ \E s \in Servers : active' = s
  /\ UNCHANGED <<world, outcomes, results, told, copied, ended, phase>>

\* From one day to the next; a check itself is short.
Change ==
  /\ phase = "latency"
  /\ \E s \in Servers, q \in Quality : world' = [world EXCEPT ![s] = q]
  /\ UNCHANGED <<outcomes, results, active, told, copied, ended, phase>>

-----------------------------------------------------------------------------
Init ==
  /\ world \in [Servers -> Quality]
  /\ outcomes = <<>>
  /\ results = <<>>
  /\ active = None
  /\ told = None
  /\ copied = None
  /\ ended = "whole"
  /\ phase = "latency"

WholeCheck == Latency \/ Tunnel \/ Speed \/ Refresh \/ Choose

Next ==
  \/ WholeCheck \/ LatencyCut \/ TunnelCut \/ SpeedCut \/ RefreshCut
  \/ Stay \/ UserApply \/ Change

Spec == Init /\ [][Next]_vars

\* Day after day: the scheduler starts a check every day, and the check has
\* the time it needs and comes to its end.
DailySpec ==
  /\ Init /\ [][WholeCheck \/ Change]_vars
  /\ WF_vars(Latency) /\ []<>(phase = "latency")

-----------------------------------------------------------------------------
(***************************************************************************)
(* Properties                                                              *)
(***************************************************************************)

Outcome == [key: Servers, reach: BOOLEAN, works: BOOLEAN, latency: Nat,
            tunnel: Nat, speed: Nat, stale: BOOLEAN, failed: BOOLEAN]

TypeOK ==
  /\ world \in [Servers -> Quality]
  /\ outcomes \in Seq(Outcome)
  /\ results \in Seq(Outcome)
  /\ {active, told, copied} \subseteq Servers \cup {None}
  /\ ended \in Endings
  /\ phase \in Phases

\* The check ends with another server applied.
Switches == phase # "latency" /\ phase' = "latency" /\ active' # active

\* A check that went through replaces the server it takes for the active one
\* only after measuring it: what that one is compared by is not an earlier
\* round's number, unless the attempt at a new one failed (speedCandidates:
\* the active server first).  A server applied by someone else during the
\* measuring is excepted: the check was not told of it, and compares it by
\* whatever it has.
FairComparison ==
  [][Switches /\ ended = "whole" /\ told = copied => \A i \in DOMAIN results :
       results[i].key = copied /\ results[i].stale => results[i].failed]_vars

\* Faster by what a switch must gain.
Gains(best, cur) ==
  best.speed > 0 /\ cur.speed > 0 /\ 100 * best.speed >= 115 * cur.speed

\* No check replaces the server it takes for the active one by one the server
\* order ranks after it, although the head of the sorted results need not
\* precede all of the rest, unless both have a speed and the new one is faster
\* by the gain a switch needs (Better, Sort, keepCurrent).  A server applied
\* by someone else while the winner is measured again is not looked at.
NoDowngrade ==
  [][Switches => \A i \in DOMAIN results : results[i].key = copied =>
       ~Better(results[i], Head(results)) \/ Gains(Head(results), results[i])]_vars

\* When servers differ by no more than their speeds do from day to day, the
\* check stops switching, although old measurements are compared with new and
\* some fail (switchGain: the tunnel is not to be pulled about every night).
Settles == <>[][active' = active]_vars

\* A server whose speed can be measured.
Measurable(s) == Alive(world[s]) /\ world[s].speed > 0

\* Live servers whose measurement fails: of unknown speed, they go first.
Blank(s) == Alive(world[s]) /\ world[s].speed = 0

\* With the active one and the blank ones measured, one measurement is left.
Room(s) ==
  Cardinality({t \in Servers \ {s} : t = active \/ Blank(t)}) < SpeedTopN

\* A server whose speed can be measured is measured some day, if it stays that
\* way and if from then on the servers that go first every day, the active one
\* and those whose measurement fails, leave room for it.  speedCandidates
\* claims for a few daily checks to cover the subscription; it does not where
\* as many measurements fail as there are, day after day.
Covered ==
  \A s \in Servers : <>[](Measurable(s) /\ Room(s)) => <>(Known(s) > 0)
=============================================================================
