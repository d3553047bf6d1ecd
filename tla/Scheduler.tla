----------------------------- MODULE Scheduler ------------------------------
(***************************************************************************)
(* The daily check and its clock: RunScheduler and dueNow of               *)
(* autovpn/scheduler.go, NextRun of autovpn/state.go, and what of          *)
(* autovpn/manager.go they depend on.                                      *)
(*                                                                         *)
(* Time runs in ticks of the scheduler's ticker and is absolute; a day of  *)
(* the calendar begins at one and may be shorter or longer than 24 hours   *)
(* (daylight saving time).                                                 *)
(***************************************************************************)
EXTENDS Integers

CONSTANTS
  Day,        \* 24 hours, in ticks
  Rest,       \* two minutes, in ticks
  Shift,      \* how much a day may be longer or shorter than that
  Begins,     \* Begins[d]: when day d of the calendar begins
  LastDay,
  Times,      \* the times of day a check may be set to
  Moment,     \* Moment[d][t]: when it is t on day d
  MaxEvents,  \* changes of settings and restarts in a behaviour
  None

ASSUME ClockAssumption ==
  /\ {Day, Rest, LastDay} \subseteq Nat \ {0} /\ {Shift, MaxEvents} \subseteq Nat
  /\ Begins \in [0..LastDay + 1 -> Int]
  /\ Moment \in [0..LastDay -> [Times -> Int]]
  /\ \A d \in 0..LastDay :
       Begins[d + 1] - Begins[d] \in Day - Shift .. Day + Shift
  /\ \A d \in 0..LastDay, t \in Times :
       Begins[d] <= Moment[d][t] /\ Moment[d][t] < Begins[d + 1]
  /\ \A d \in 1..LastDay, t \in Times :
       Moment[d][t] - Moment[d - 1][t] \in Day - Shift .. Day + Shift
  /\ Begins[0] + Day < Begins[LastDay]
  /\ None \notin Int

VARIABLES
  clock,   \* the time
  tick,    \* the tick the loop has not taken yet, None without one
  last,    \* when the loop last found a check due, None for never
  time,    \* CheckTime
  enabled, \* Enabled, with a link
  done,    \* LastCheck, None for the zero time
  saved,   \* LastCheck on disk
  check,   \* the check that runs
  events,  \* changes and restarts so far
  begun,   \* when the schedule last began a check still on record, None once
           \* the time of day or the link has changed since
  quiet    \* ticks since the last change, restart or check

vars == <<clock, tick, last, time, enabled, done, saved, check, events, begun, quiet>>
settings == <<time, enabled>>
ghosts == <<events, begun, quiet>>

\* by: whose check it is; recorded: it has set LastCheck.
Idle == [by |-> "nobody", recorded |-> FALSE]

Earliest == Begins[0] + Day
Horizon == Begins[LastDay] - 1

-----------------------------------------------------------------------------
DayOf(at) == CHOOSE d \in 0..LastDay : Begins[d] <= at /\ at < Begins[d + 1]

\* A mutant of NextRun: time.Date is of today, even if that is over.
NextRun_Today(after) == Moment[DayOf(after)][time]

NextRun(after) ==
  LET next == Moment[DayOf(after)][time]
  IN  IF next > after THEN next ELSE Moment[DayOf(after) + 1][time]

\* A check before the zero time's is before everything.
Before(at, moment) == at = None \/ at < moment

DueNow(now) ==
  LET scheduled == NextRun(now - Day)
  IN  /\ last = None \/ now - last >= Rest
      /\ scheduled <= now
      /\ Before(done, scheduled)

\* The ticker keeps one tick for a loop that is busy, and drops the others.
Tick ==
  /\ clock < Horizon
  /\ tick # None => check.by = "schedule"
  /\ clock' = clock + 1
  /\ tick' = IF tick = None THEN clock + 1 ELSE tick
  /\ quiet' = IF check = Idle /\ quiet < Day THEN quiet + 1 ELSE quiet
  /\ UNCHANGED <<last, settings, done, saved, check, events, begun>>

\* RunScheduler takes a tick, unless it waits for its own check to end.
Look ==
  /\ tick # None /\ check.by # "schedule"
  /\ tick' = None
  /\ IF enabled /\ DueNow(tick)
     THEN /\ last' = tick
          /\ IF check = Idle
             THEN /\ check' = [Idle EXCEPT !.by = "schedule"]
                  /\ begun' = clock /\ quiet' = 0
             ELSE UNCHANGED <<check, begun, quiet>>
     ELSE UNCHANGED <<last, check, begun, quiet>>
  /\ UNCHANGED <<clock, settings, done, saved, events>>

\* The page starts a check, of servers or of sites.
StartCheck(by) ==
  /\ check = Idle
  /\ check' = [Idle EXCEPT !.by = by, !.recorded = (by = "sites")]
  /\ quiet' = 0
  /\ UNCHANGED <<clock, tick, last, settings, done, saved, events, begun>>

\* A mutant of Recorded: a check that fails leaves no trace.
Recorded_Good == done' \in {done, clock}

\* runCheck and recordError set LastCheck, whether the check succeeded or not.
Recorded == done' = clock

\* Saving it may fail.
Record ==
  /\ check # Idle /\ ~check.recorded
  /\ Recorded
  /\ saved' \in {saved, done'}
  /\ check' = [check EXCEPT !.recorded = TRUE]
  /\ UNCHANGED <<clock, tick, last, settings, ghosts>>

End ==
  /\ check.recorded
  /\ check' = Idle /\ quiet' = 0
  /\ UNCHANGED <<clock, tick, last, settings, done, saved, events, begun>>

-----------------------------------------------------------------------------
Event == events < MaxEvents /\ events' = events + 1 /\ quiet' = 0

\* UpdateSettings; another link has not been checked yet.
UpdateSettings ==
  /\ time' \in Times /\ enabled' \in BOOLEAN
  /\ settings' # settings
  /\ saved' = done
  /\ begun' = IF time' = time THEN begun ELSE None
  /\ UNCHANGED <<clock, tick, last, done, check>> /\ Event

ChangeLink ==
  /\ done' = None /\ saved' = None /\ begun' = None
  /\ UNCHANGED <<clock, tick, last, settings, check>> /\ Event

\* The record of the last check may not have reached the disk.
Restart ==
  /\ done' = saved
  /\ begun' = IF begun = None \/ Before(saved, begun) THEN None ELSE begun
  /\ tick' = None /\ last' = None /\ check' = Idle
  /\ UNCHANGED <<clock, settings, saved>> /\ Event

-----------------------------------------------------------------------------
Init ==
  /\ clock = Earliest /\ tick = None /\ last = None
  /\ time \in Times /\ enabled \in BOOLEAN
  /\ done = None /\ saved = None
  /\ check = Idle
  /\ events = 0 /\ begun = None /\ quiet = 0

Next ==
  \/ Tick \/ Look \/ StartCheck("user") \/ StartCheck("sites") \/ Record \/ End
  \/ UpdateSettings \/ ChangeLink \/ Restart

Spec == Init /\ [][Next]_vars

-----------------------------------------------------------------------------
TypeOK ==
  /\ clock \in Earliest..Horizon
  /\ {tick, last, done, saved, begun} \subseteq {None} \cup Earliest..Horizon
  /\ time \in Times /\ enabled \in BOOLEAN
  /\ check \in [by: {"nobody", "schedule", "user", "sites"}, recorded: BOOLEAN]
  /\ events \in 0..MaxEvents /\ quiet \in 0..Day

\* The schedule begins one check a day: between two of them a moment of the
\* schedule has passed, however long the first took, whether it succeeded, and
\* whatever the ticker held back meanwhile; only another time of day, another
\* link or a restart that lost the record allows a check more.
Daily ==
  [][check.by # "schedule" /\ check'.by = "schedule" /\ begun # None =>
       \E d \in 0..LastDay : begun < Moment[d][time] /\ Moment[d][time] <= clock]_vars

\* No moment is passed over: once the service has been left alone for a while,
\* every moment older than that has been followed by a check, on days of 23
\* and of 25 hours as on others, and after a restart or a refusal too (dueNow).
Prompt ==
  enabled /\ quiet > Rest + Shift =>
    \A d \in 0..LastDay :
      Earliest <= Moment[d][time] /\ Moment[d][time] < clock - Rest - Shift
        => ~Before(done, Moment[d][time])
=============================================================================
