-------------------------- MODULE Scheduler_proofs ---------------------------
(***************************************************************************)
(* For any calendar whose days are about 24 hours long and any times of    *)
(* day: the scheduler begins one check a day and passes over no moment.    *)
(***************************************************************************)
EXTENDS Scheduler, TLAPS, WellFoundedInduction

\* The schedule's last check is under way, or LastCheck is not older.
OnRecord ==
  begun # None => \/ check.by = "schedule" /\ check.recorded = FALSE
                  \/ done # None /\ done >= begun

Inv ==
  /\ TypeOK
  /\ tick # None => tick <= clock
  /\ begun # None => begun <= clock
  /\ OnRecord

Checks == [by: {"nobody", "schedule", "user", "sites"}, recorded: BOOLEAN]
Instants == {None} \cup Earliest..Horizon

-----------------------------------------------------------------------------
\* What the proofs need of the calendar.
LEMMA CalendarType ==
  /\ Day \in Nat /\ Rest \in Nat /\ Shift \in Nat /\ MaxEvents \in Nat
  /\ Day >= 1 /\ Rest >= 1
  /\ LastDay \in Nat /\ LastDay >= 1
  /\ \A d \in 0..LastDay + 1 : Begins[d] \in Int
  /\ Begins[0] + Day < Begins[LastDay]
  /\ \A d \in 0..LastDay, t \in Times : Moment[d][t] \in Int
  /\ None \notin Int
<1>1. {Shift, MaxEvents} \subseteq Nat /\ None \notin Int
  BY ClockAssumption
<1>2. {Day, Rest, LastDay} \subseteq Nat \ {0} /\ Begins[0] + Day < Begins[LastDay]
  BY ClockAssumption
<1>3. Begins \in [0..LastDay + 1 -> Int]
  BY ClockAssumption
<1>4. Moment \in [0..LastDay -> [Times -> Int]]
  BY ClockAssumption
<1>5. /\ Day \in Nat \ {0} /\ Rest \in Nat \ {0} /\ LastDay \in Nat \ {0}
      /\ Shift \in Nat /\ MaxEvents \in Nat
  BY <1>1, <1>2
<1> QED
  BY <1>1, <1>2, <1>3, <1>4, <1>5

\* The times kept are None or lie between the first and the last.
LEMMA InstantsType ==
  /\ Earliest \in Int /\ Horizon \in Int /\ Earliest <= Horizon
  /\ Instants \ {None} = Earliest..Horizon
<1>1. Begins[0] \in Int /\ Begins[LastDay] \in Int
  BY CalendarType
<1> QED
  BY <1>1, CalendarType DEF Earliest, Horizon, Instants

\* Without a check nobody checks.
LEMMA IdleType == Idle \in Checks /\ Idle.by = "nobody" /\ Idle.recorded = FALSE
BY DEF Idle, Checks

\* Every instant before the last day is in one of the days before it.
LEMMA DayOfDay ==
  ASSUME NEW at \in Int, Begins[0] <= at, at < Begins[LastDay]
  PROVE  /\ DayOf(at) \in 0..LastDay - 1
         /\ Begins[DayOf(at)] <= at /\ at < Begins[DayOf(at) + 1]
<1> USE CalendarType
<1> DEFINE Later == {d \in Nat : d <= LastDay /\ at < Begins[d]}
<1>1. Later \subseteq Nat /\ LastDay \in Later
  OBVIOUS
<1>2. PICK first \in Later : \A d \in Later : ~(d < first)
  <2>1. PICK d \in Later : \A e \in Later : <<e, d>> \notin OpToRel(<, Nat)
    BY <1>1, NatLessThanWellFounded, WFMin
  <2>2. \A e \in Nat : e < d => <<e, d>> \in OpToRel(<, Nat)
    BY <1>1 DEF OpToRel
  <2> QED
    BY <1>1, <2>1, <2>2
<1>3. first \in Nat \ {0} /\ first <= LastDay
  OBVIOUS
<1>4. first - 1 \in 0..LastDay - 1 /\ Begins[first - 1] \in Int
  BY <1>3
<1>5. Begins[first - 1] <= at
  BY <1>2, <1>3, <1>4
<1>6. \E d \in 0..LastDay : Begins[d] <= at /\ at < Begins[d + 1]
  <2>1. first - 1 \in 0..LastDay /\ (first - 1) + 1 = first
    BY <1>3
  <2> QED
    BY <1>5, <2>1
<1>7. /\ DayOf(at) \in 0..LastDay
      /\ Begins[DayOf(at)] <= at /\ at < Begins[DayOf(at) + 1]
  BY <1>6 DEF DayOf
<1>8. DayOf(at) # LastDay
  BY <1>7
<1> QED
  BY <1>7, <1>8

-----------------------------------------------------------------------------
\* The invariant holds at first.
LEMMA InitInv == Init => Inv
BY CalendarType, InstantsType, IdleType
   DEF Init, Inv, TypeOK, OnRecord, Checks, Instants

\* Every step keeps the invariant.
LEMMA NextInv == Inv /\ [Next]_vars => Inv'
<1> SUFFICES ASSUME Inv, [Next]_vars PROVE Inv'
  OBVIOUS
<1> USE CalendarType, InstantsType, IdleType DEF Inv, Instants, Checks
<1>1. /\ clock \in Int /\ check \in Checks /\ Earliest <= clock /\ clock <= Horizon
      /\ events \in 0..MaxEvents /\ quiet \in 0..Day
  BY DEF TypeOK
<1>2. CASE Tick
  <2>1. clock' = clock + 1 /\ clock' \in Earliest..Horizon
    BY <1>1, <1>2 DEF Tick
  <2>2. tick' \in Instants /\ (tick' # None => tick' <= clock')
    <3>1. CASE tick = None
      BY <1>2, <2>1, <3>1 DEF Tick
    <3>2. CASE tick # None
      BY <1>1, <1>2, <2>1, <3>2 DEF Tick, TypeOK
    <3> QED
      BY <3>1, <3>2
  <2>3. quiet' \in 0..Day
    BY <1>1, <1>2 DEF Tick
  <2> QED
    BY <1>1, <1>2, <2>1, <2>2, <2>3 DEF Tick, TypeOK, OnRecord, settings
<1>3. CASE Look
  BY <1>1, <1>3 DEF Look, TypeOK, OnRecord, settings
<1>4. ASSUME NEW by \in {"user", "sites"}, StartCheck(by) PROVE Inv'
  <2>1. check' \in Checks /\ quiet' \in 0..Day
    <3>1. check' = [by |-> by, recorded |-> (by = "sites")]
      BY <1>4 DEF StartCheck, Idle
    <3>2. quiet' = 0 /\ (by = "sites") \in BOOLEAN
      BY <1>4 DEF StartCheck
    <3> QED
      BY <3>1, <3>2
  <2>2. check.by = "nobody" /\ check'.by # "schedule"
    BY <1>4 DEF StartCheck, Idle
  <2> QED
    BY <1>1, <1>4, <2>1, <2>2 DEF StartCheck, TypeOK, OnRecord, settings
<1>5. CASE Record
  BY <1>1, <1>5 DEF Record, Recorded, TypeOK, OnRecord, settings, ghosts
<1>6. CASE End
  BY <1>1, <1>6 DEF End, TypeOK, OnRecord, settings
<1>7. CASE UpdateSettings
  BY <1>1, <1>7 DEF UpdateSettings, Event, TypeOK, OnRecord, settings
<1>8. CASE ChangeLink
  BY <1>1, <1>8 DEF ChangeLink, Event, TypeOK, OnRecord, settings
<1>9. CASE Restart
  BY <1>1, <1>9 DEF Restart, Before, Event, TypeOK, OnRecord, settings
<1>10. CASE UNCHANGED vars
  BY <1>1, <1>10 DEF vars, TypeOK, OnRecord, settings, ghosts
<1> QED
  BY <1>2, <1>3, <1>4, <1>5, <1>6, <1>7, <1>8, <1>9, <1>10 DEF Next

\* The invariant holds on any calendar: what is on record lies in the past.
THEOREM Invariant == Spec => []Inv
BY InitInv, NextInv, PTL DEF Spec

\* The times the scheduler and the checks keep are times gone by, on any calendar.
THEOREM Types == Spec => []TypeOK
<1>1. Inv => TypeOK
  BY DEF Inv
<1> QED
  BY <1>1, Invariant, PTL

-----------------------------------------------------------------------------
\* A moment the loop acts upon is in a day of the calendar and has come.
LEMMA DueMoment ==
  ASSUME NEW now \in Earliest..Horizon, time \in Times, DueNow(now)
  PROVE  \E d \in 0..LastDay :
           /\ Moment[d][time] \in Int /\ Moment[d][time] <= now
           /\ Before(done, Moment[d][time])
<1> DEFINE after == now - Day
<1>1. after \in Int /\ Begins[0] <= after /\ after < Begins[LastDay]
  BY CalendarType, InstantsType DEF Earliest, Horizon
<1>2. DayOf(after) \in 0..LastDay - 1
  BY <1>1, DayOfDay
<1>3. DayOf(after) \in 0..LastDay /\ DayOf(after) + 1 \in 0..LastDay
  BY <1>2, CalendarType
<1>4. PICK d \in 0..LastDay : NextRun(after) = Moment[d][time]
  BY <1>3 DEF NextRun
<1>5. Moment[d][time] \in Int
  BY CalendarType
<1> QED
  BY <1>4, <1>5 DEF DueNow

\* Between two checks of the schedule a moment of the schedule has passed, on
\* any calendar.
THEOREM OneADay == Spec => Daily
<1> DEFINE Passed == check.by # "schedule" /\ check'.by = "schedule" /\ begun # None =>
      \E d \in 0..LastDay : begun < Moment[d][time] /\ Moment[d][time] <= clock
<1>1. Inv /\ [Next]_vars => [Passed]_vars
  <2> SUFFICES ASSUME Inv, Next, check.by # "schedule", check'.by = "schedule",
                      begun # None
               PROVE  \E d \in 0..LastDay :
                        begun < Moment[d][time] /\ Moment[d][time] <= clock
    OBVIOUS
  <2>1. Look
    BY IdleType DEF Next, Tick, StartCheck, Record, End, UpdateSettings, ChangeLink,
       Restart, Inv, TypeOK, Idle, ghosts
  <2>2. DueNow(tick)
    BY <2>1 DEF Look
  <2>3. /\ tick \in Earliest..Horizon /\ tick <= clock /\ time \in Times
        /\ clock \in Int /\ begun \in Int /\ done \in Int /\ done >= begun
    BY <2>1, CalendarType, InstantsType DEF Look, Inv, TypeOK, OnRecord
  <2>4. PICK d \in 0..LastDay :
          /\ Moment[d][time] \in Int /\ Moment[d][time] <= tick
          /\ Before(done, Moment[d][time])
    BY <2>2, <2>3, DueMoment
  <2> QED
    BY <2>3, <2>4, CalendarType DEF Before
<1> QED
  BY <1>1, Invariant, PTL DEF Spec, Daily

-----------------------------------------------------------------------------
(***************************************************************************)
(* No moment is passed over                                                *)
(***************************************************************************)

\* While no check runs, every tick is looked at before the next, and the loop
\* has last found a check due before that.
Quietly ==
  /\ check # Idle => quiet = 0
  /\ quiet > 0 => tick \in {None, clock}
  /\ last # None => last <= clock - quiet
  /\ quiet <= clock - Earliest

\* At none of them was a check due.
Looked ==
  \A t \in clock - quiet + 1 .. clock :
    \/ t = clock /\ tick # None
    \/ ~enabled
    \/ ~DueNow(t)

QuietInv == Inv /\ Quietly /\ Looked

\* Whether a check is due depends on nothing else.
LEMMA SameDue ==
  ASSUME NEW t, last' = last, done' = done, time' = time
  PROVE  DueNow(t)' <=> DueNow(t)
BY DEF DueNow, NextRun, Before

\* No tick has come since the last.
LEMMA NoneSince ==
  ASSUME NEW now \in Int
  PROVE  now - 0 + 1 .. now = {}
OBVIOUS

\* With a new beginning of the quiet, nothing is claimed.
LEMMA QuietAnew ==
  ASSUME Inv', quiet' = 0, last' # None => last' <= clock'
  PROVE  Quietly' /\ Looked'
<1>1. clock' \in Int /\ Earliest <= clock' /\ Earliest \in Int
  BY InstantsType DEF Inv, TypeOK
<1>2. last' # None => last' \in Int
  BY InstantsType DEF Inv, TypeOK, Instants
<1>3. Quietly'
  BY <1>1, <1>2 DEF Quietly, Earliest
<1>4. clock' - quiet' + 1 .. clock' = {}
  BY <1>1, NoneSince
<1>5. Looked'
  BY <1>4 DEF Looked
<1> QED
  BY <1>3, <1>5

\* The quiet of the first moment.
LEMMA InitQuiet == Init => QuietInv
<1> SUFFICES ASSUME Init PROVE QuietInv
  OBVIOUS
<1>1. Inv
  BY InitInv
<1>2. clock = Earliest /\ quiet = 0 /\ last = None /\ check = Idle
  BY DEF Init
<1>3. Quietly /\ Looked
  BY <1>2, InstantsType DEF Quietly, Looked
<1> QED
  BY <1>1, <1>3 DEF QuietInv

\* Every step keeps the quiet.
LEMMA NextQuiet == QuietInv /\ [Next]_vars => QuietInv'
<1> SUFFICES ASSUME QuietInv, [Next]_vars PROVE QuietInv'
  OBVIOUS
<1>1. Inv /\ Quietly /\ Looked /\ Inv'
  BY NextInv DEF QuietInv
<1>2. /\ clock \in Int /\ quiet \in 0..Day /\ Day \in Nat /\ Earliest \in Int
      /\ Earliest <= clock
      /\ tick # None => tick \in Int /\ tick <= clock
      /\ last # None => last \in Int
      /\ None \notin Int
  BY <1>1, CalendarType, InstantsType DEF Inv, TypeOK, Instants
<1>3. /\ check # Idle => quiet = 0
      /\ quiet > 0 => tick \in {None, clock}
      /\ last # None => last <= clock - quiet
      /\ quiet <= clock - Earliest
  BY <1>1 DEF Quietly
<1>4. last # None => last <= clock
  BY <1>2, <1>3
<1> SUFFICES Quietly' /\ Looked'
  BY <1>1 DEF QuietInv
<1>5. CASE Tick
  <2>1. /\ clock' = clock + 1 /\ last' = last /\ done' = done /\ check' = check
        /\ time' = time /\ enabled' = enabled
    BY <1>5 DEF Tick, settings
  <2>2. CASE check # Idle
    <3>1. quiet' = 0
      BY <1>3, <1>5, <2>2 DEF Tick
    <3>2. last' # None => last' <= clock'
      BY <1>2, <1>4, <2>1
    <3> QED
      BY <1>1, <3>1, <3>2, QuietAnew
  <2>3. CASE check = Idle
    <3>1. tick = None /\ tick' = clock + 1
      BY <1>5, <2>3, IdleType DEF Tick
    <3>2. quiet' = IF quiet < Day THEN quiet + 1 ELSE quiet
      BY <1>5, <2>3 DEF Tick
    <3>3. Quietly'
      BY <1>2, <1>3, <2>1, <2>3, <3>1, <3>2 DEF Quietly, Earliest
    <3>4. ASSUME NEW t \in clock' - quiet' + 1 .. clock', ~(t = clock' /\ tick' # None),
                 enabled', DueNow(t)'
          PROVE  FALSE
      <4>1. t # clock + 1
        BY <1>2, <2>1, <3>1, <3>4
      <4>2. t \in clock - quiet + 1 .. clock
        BY <1>2, <2>1, <3>2, <3>4, <4>1
      <4>3. ~enabled \/ ~DueNow(t)
        BY <1>1, <3>1, <4>2 DEF Looked
      <4> QED
        BY <2>1, <3>4, <4>3, SameDue
    <3>5. Looked'
      BY <3>4 DEF Looked
    <3> QED
      BY <3>3, <3>5
  <2> QED
    BY <2>2, <2>3
<1>6. CASE Look
  <2>1. CASE enabled /\ DueNow(tick)
    <3>1. last' = tick /\ clock' = clock /\ tick # None
      BY <1>6, <2>1 DEF Look
    <3>2. quiet' = 0
      BY <1>3, <1>6, <2>1 DEF Look
    <3> QED
      BY <1>1, <1>2, <3>1, <3>2, QuietAnew
  <2>2. CASE ~(enabled /\ DueNow(tick))
    <3>1. /\ tick' = None /\ last' = last /\ check' = check /\ quiet' = quiet
          /\ clock' = clock /\ done' = done /\ time' = time /\ enabled' = enabled
      BY <1>6, <2>2 DEF Look, settings
    <3>2. Quietly'
      BY <1>3, <3>1 DEF Quietly
    <3>3. ASSUME NEW t \in clock' - quiet' + 1 .. clock', enabled', DueNow(t)'
          PROVE  FALSE
      <4>1. t \in clock - quiet + 1 .. clock /\ enabled /\ DueNow(t)
        BY <3>1, <3>3, SameDue
      <4>2. t = clock /\ tick # None
        BY <1>1, <4>1 DEF Looked
      <4>3. quiet > 0
        BY <1>2, <4>1, <4>2
      <4>4. tick = t
        BY <1>3, <4>2, <4>3
      <4> QED
        BY <2>2, <4>1, <4>4
    <3>4. Looked'
      BY <3>3 DEF Looked
    <3> QED
      BY <3>2, <3>4
  <2> QED
    BY <2>1, <2>2
<1>7. ASSUME quiet' = 0, clock' = clock, last' \in {last, None}
      PROVE  Quietly' /\ Looked'
  BY <1>1, <1>4, <1>7, QuietAnew
<1>8. CASE StartCheck("user") \/ StartCheck("sites")
  BY <1>7, <1>8 DEF StartCheck
<1>9. CASE Record
  BY <1>3, <1>7, <1>9 DEF Record, ghosts
<1>10. CASE End
  BY <1>7, <1>10 DEF End
<1>11. CASE UpdateSettings
  BY <1>7, <1>11 DEF UpdateSettings, Event
<1>12. CASE ChangeLink
  BY <1>7, <1>12 DEF ChangeLink, Event
<1>13. CASE Restart
  BY <1>7, <1>13 DEF Restart, Event
<1>14. CASE UNCHANGED vars
  <2>1. /\ quiet' = quiet /\ clock' = clock /\ tick' = tick /\ last' = last
        /\ check' = check /\ done' = done /\ time' = time /\ enabled' = enabled
    BY <1>14 DEF vars, settings, ghosts
  <2>2. Quietly'
    BY <1>3, <2>1 DEF Quietly
  <2>3. Looked'
    BY <1>1, <2>1, SameDue DEF Looked
  <2> QED
    BY <2>2, <2>3
<1> QED
  BY <1>5, <1>6, <1>8, <1>9, <1>10, <1>11, <1>12, <1>13, <1>14 DEF Next

\* A set of numbers that has one has a least one.
LEMMA Least ==
  ASSUME NEW S \in SUBSET Nat, S # {}
  PROVE  \E n \in S : \A m \in S : n <= m
<1>1. PICK n \in S : \A m \in S : <<m, n>> \notin OpToRel(<, Nat)
  BY NatLessThanWellFounded, WFMin
<1>2. \A m \in S : ~(m < n)
  BY <1>1 DEF OpToRel
<1> QED
  BY <1>2

\* What the proof needs of the moments of one time of day: each is in its day,
\* and a day, more or less, after the one before.
LEMMA MomentType ==
  ASSUME NEW t \in Times
  PROVE  /\ \A d \in 0..LastDay : /\ Moment[d][t] \in Int
                                  /\ Begins[d] <= Moment[d][t]
                                  /\ Moment[d][t] < Begins[d + 1]
         /\ \A d \in 1..LastDay :
              /\ Moment[d][t] - Moment[d - 1][t] >= Day - Shift
              /\ Moment[d][t] - Moment[d - 1][t] <= Day + Shift
<1>1. ASSUME NEW d \in 0..LastDay
      PROVE  Begins[d] <= Moment[d][t] /\ Moment[d][t] < Begins[d + 1]
  BY ClockAssumption
<1>2. ASSUME NEW d \in 1..LastDay
      PROVE  Moment[d][t] - Moment[d - 1][t] \in Day - Shift .. Day + Shift
  BY ClockAssumption
<1>3. \A d \in 0..LastDay : Moment[d][t] \in Int
  BY CalendarType
<1> QED
  BY <1>1, <1>2, <1>3, CalendarType

\* Days follow each other, if a check may be set to any time at all.
LEMMA DaysInOrder ==
  ASSUME NEW t \in Times, NEW a \in 0..LastDay + 1, NEW b \in 0..LastDay + 1, a <= b
  PROVE  Begins[a] <= Begins[b]
<1> DEFINE Wrong == {d \in 0..LastDay + 1 : a <= d /\ ~(Begins[a] <= Begins[d])}
<1>1. LastDay \in Nat /\ \A d \in 0..LastDay + 1 : Begins[d] \in Int
  BY CalendarType
<1>2. ASSUME Wrong # {} PROVE FALSE
  <2>1. PICK d \in Wrong : \A e \in Wrong : d <= e
    <3>1. Wrong \in SUBSET Nat
      BY <1>1
    <3> HIDE DEF Wrong
    <3> QED
      BY <1>2, <3>1, Least
  <2>2. d \in 0..LastDay + 1 /\ a <= d /\ ~(Begins[a] <= Begins[d])
    BY <2>1
  <2>3. d # a
    BY <1>1, <2>2
  <2> DEFINE e == d - 1
  <2>4. e \in 0..LastDay /\ e \in 0..LastDay + 1 /\ a <= e /\ e + 1 = d /\ e \notin Wrong
    BY <1>1, <2>1, <2>2, <2>3
  <2>5. Begins[a] <= Begins[e]
    BY <2>4
  <2> HIDE DEF e
  <2>6. Begins[e] < Begins[d]
    BY <1>1, <2>2, <2>4, MomentType
  <2> QED
    BY <1>1, <2>2, <2>4, <2>5, <2>6
<1> QED
  BY <1>2

\* So do the moments of a time of day.
LEMMA MomentsInOrder ==
  ASSUME NEW t \in Times, NEW a \in 0..LastDay, NEW b \in 0..LastDay, a < b
  PROVE  Moment[a][t] < Moment[b][t]
<1>1. LastDay \in Nat /\ \A d \in 0..LastDay + 1 : Begins[d] \in Int
  BY CalendarType
<1>2. a + 1 \in 0..LastDay + 1 /\ b \in 0..LastDay + 1 /\ a + 1 <= b
  BY <1>1
<1>3. Begins[a + 1] <= Begins[b]
  BY <1>2, DaysInOrder
<1>4. /\ Moment[a][t] < Begins[a + 1] /\ Begins[b] <= Moment[b][t]
      /\ Moment[a][t] \in Int /\ Moment[b][t] \in Int
  BY MomentType
<1> QED
  BY <1>1, <1>2, <1>3, <1>4

\* The next run is the first moment after an instant.
LEMMA NextRunFirst ==
  ASSUME NEW after \in Int, Begins[0] <= after, after < Begins[LastDay],
         time \in Times
  PROVE  \E d \in 0..LastDay :
           /\ NextRun(after) = Moment[d][time] /\ after < Moment[d][time]
           /\ \A e \in 0..LastDay : e < d => Moment[e][time] <= after
<1> DEFINE day == DayOf(after)
<1>1. LastDay \in Nat /\ \A d \in 0..LastDay + 1 : Begins[d] \in Int
  BY CalendarType
<1>2. /\ day \in 0..LastDay - 1
      /\ Begins[day] <= after /\ after < Begins[day + 1]
  BY DayOfDay
<1> HIDE DEF day
<1>3. day \in 0..LastDay /\ day + 1 \in 0..LastDay
  BY <1>1, <1>2
<1>4. \A d \in 0..LastDay : /\ Moment[d][time] \in Int
                            /\ Begins[d] <= Moment[d][time]
                            /\ Moment[d][time] < Begins[d + 1]
  BY MomentType
<1>5. NextRun(after) = IF Moment[day][time] > after THEN Moment[day][time]
                       ELSE Moment[day + 1][time]
  BY DEF NextRun, day
<1>6. CASE Moment[day][time] > after
  <2>1. ASSUME NEW e \in 0..LastDay, e < day PROVE Moment[e][time] <= after
    <3>1. e + 1 \in 0..LastDay + 1 /\ day \in 0..LastDay + 1 /\ e + 1 <= day
      BY <1>1, <1>3, <2>1
    <3>2. Begins[e + 1] <= Begins[day]
      BY <3>1, DaysInOrder
    <3> QED
      BY <1>1, <1>2, <1>4, <3>1, <3>2
  <2> QED
    BY <1>3, <1>4, <1>5, <1>6, <2>1
<1>7. CASE ~(Moment[day][time] > after)
  <2>1. Moment[day][time] <= after
    BY <1>3, <1>4, <1>7
  <2>2. after < Moment[day + 1][time]
    <3>1. Begins[day + 1] <= Moment[day + 1][time] /\ Moment[day + 1][time] \in Int
      BY <1>3, <1>4
    <3>2. Begins[day + 1] \in Int
      BY <1>1, <1>3
    <3> QED
      BY <1>2, <3>1, <3>2
  <2>3. ASSUME NEW e \in 0..LastDay, e < day + 1 PROVE Moment[e][time] <= after
    <3>1. CASE e = day
      BY <2>1, <3>1
    <3>2. CASE e # day
      <4>1. e < day
        BY <1>3, <2>3, <3>2
      <4>2. Moment[e][time] < Moment[day][time]
        BY <1>3, <4>1, MomentsInOrder
      <4> QED
        BY <1>3, <1>4, <2>1, <4>2
    <3> QED
      BY <3>1, <3>2
  <2> QED
    BY <1>3, <1>5, <1>7, <2>2, <2>3
<1> QED
  BY <1>6, <1>7

\* A tick of the quiet at which a moment has just come: were no check on
\* record since, one would have begun.
LEMMA TickOfQuiet ==
  ASSUME QuietInv, enabled, NEW t \in clock - quiet + 1 .. clock - 1,
         last # None => t - last >= Rest, NextRun(t - Day) <= t
  PROVE  ~Before(done, NextRun(t - Day))
<1>1. clock \in Int /\ quiet \in Int
  BY DEF QuietInv, Inv, TypeOK, Earliest, Horizon
<1>2. t \in clock - quiet + 1 .. clock /\ t # clock
  BY <1>1
<1>3. ~DueNow(t)
  BY <1>2 DEF QuietInv, Looked
<1> QED
  BY <1>3 DEF DueNow

\* The moment a tick of the quiet acts upon is not later than the check on
\* record: the tick either found the moment recorded, or none before it.
LEMMA RecordedSince ==
  ASSUME QuietInv, enabled, NEW t \in clock - quiet + 1 .. clock - 1,
         last # None => t - last >= Rest, NEW e \in 0..LastDay,
         NextRun(t - Day) = Moment[e][time], Moment[e][time] <= t
  PROVE  done # None /\ done >= Moment[e][time]
<1>1. ~Before(done, Moment[e][time])
  BY TickOfQuiet
<1>2. time \in Times /\ (done # None => done \in Int)
  BY InstantsType DEF QuietInv, Inv, TypeOK, Instants
<1>3. Moment[e][time] \in Int
  BY <1>2, CalendarType
<1> QED
  BY <1>1, <1>2, <1>3 DEF Before

\* The invariant of the quiet implies that no moment is passed over: the tick
\* before this one has looked 24 hours back, and found either the latest moment
\* or, on a long day, one to come; then a tick just after the moment of the day
\* before has found that one.
LEMMA QuietPrompt == QuietInv => Prompt
<1> SUFFICES ASSUME QuietInv, enabled, quiet > Rest + Shift,
                    NEW d \in 0..LastDay, Earliest <= Moment[d][time],
                    Moment[d][time] < clock - Rest - Shift
             PROVE  ~Before(done, Moment[d][time])
  BY DEF Prompt
<1> DEFINE M(x) == Moment[x][time]
           t == clock - 1
<1>1. /\ clock \in Int /\ quiet \in 0..Day /\ time \in Times
      /\ Earliest <= clock /\ clock <= Horizon
      /\ last # None => last \in Int
      /\ done # None => done \in Int
  BY InstantsType DEF QuietInv, Inv, TypeOK, Instants
<1>2. /\ Day \in Nat /\ Rest \in Nat /\ Shift \in Nat /\ Day >= 1 /\ Rest >= 1
      /\ LastDay \in Nat /\ Begins[0] \in Int /\ Begins[LastDay] \in Int
      /\ Earliest = Begins[0] + Day /\ Horizon = Begins[LastDay] - 1
  BY CalendarType DEF Earliest, Horizon
<1>3. /\ last # None => last <= clock - quiet
      /\ quiet <= clock - Earliest
  BY DEF QuietInv, Quietly
<1>4. /\ \A x \in 0..LastDay : M(x) \in Int
      /\ \A x \in 1..LastDay : /\ M(x) - M(x - 1) >= Day - Shift
                               /\ M(x) - M(x - 1) <= Day + Shift
  BY <1>1, MomentType
<1>5. \A x, y \in 0..LastDay : x < y => M(x) < M(y)
  BY <1>1, MomentsInOrder
<1>6. Earliest <= M(d) /\ M(d) < clock - Rest - Shift
  OBVIOUS
<1> SUFFICES done # None /\ done >= M(d)
  BY <1>1, <1>4 DEF Before
<1> HIDE DEF M, t
<1>7. /\ t = clock - 1 /\ t \in clock - quiet + 1 .. clock - 1
      /\ last # None => t - last >= Rest
  BY <1>1, <1>2, <1>3 DEF t
<1>8. t - Day \in Int /\ Begins[0] <= t - Day /\ t - Day < Begins[LastDay]
  BY <1>1, <1>2, <1>3, <1>7
<1>9. PICK e \in 0..LastDay :
        /\ NextRun(t - Day) = M(e) /\ t - Day < M(e)
        /\ \A x \in 0..LastDay : x < e => M(x) <= t - Day
  BY <1>1, <1>8, NextRunFirst DEF M
<1>10. CASE M(e) <= t
  <2>1. done # None /\ done >= M(e)
    BY <1>7, <1>9, <1>10, RecordedSince DEF M
  <2>2. ~(e < d)
    <3> SUFFICES ASSUME e < d PROVE FALSE
      OBVIOUS
    <3> DEFINE f == e + 1
    <3>1. f \in 1..LastDay /\ f \in 0..LastDay /\ f - 1 = e /\ (f = d \/ f < d)
      BY <1>2
    <3> HIDE DEF f
    <3>2. M(f) <= M(d)
      BY <1>4, <1>5, <3>1
    <3>3. M(f) >= M(e) + Day - Shift
      BY <1>2, <1>4, <3>1
    <3> QED
      BY <1>1, <1>2, <1>4, <1>6, <1>7, <1>9, <3>1, <3>2, <3>3
  <2>3. M(d) <= M(e)
    BY <1>4, <1>5, <2>2
  <2> QED
    BY <1>1, <1>4, <2>1, <2>3
<1>11. CASE M(e) > t
  <2>1. d < e
    <3>1. M(d) < M(e)
      BY <1>1, <1>2, <1>4, <1>6, <1>7, <1>11
    <3> QED
      BY <1>4, <1>5, <3>1
  <2> DEFINE f == e - 1
             s == M(f) + Day - 1
  <2>2. f \in 0..LastDay /\ e \in 1..LastDay /\ f = e - 1 /\ f < e /\ (d = f \/ d < f)
    BY <1>2, <2>1
  <2> HIDE DEF f
  <2>3. M(d) <= M(f)
    BY <1>4, <1>5, <2>2
  <2>4. M(f) <= t - Day /\ M(f) >= M(e) - Day - Shift
    BY <1>2, <1>4, <1>9, <2>2
  <2>5. /\ s \in Int /\ s - Day = M(f) - 1 /\ s >= clock - 1 - Shift /\ s <= clock - 2
        /\ M(f) <= s
    BY <1>1, <1>2, <1>4, <1>7, <1>11, <2>2, <2>4
  <2> HIDE DEF s
  <2>6. s \in clock - quiet + 1 .. clock - 1 /\ (last # None => s - last >= Rest)
    BY <1>1, <1>2, <1>3, <2>5
  <2>7. s - Day \in Int /\ Begins[0] <= s - Day /\ s - Day < Begins[LastDay]
    BY <1>1, <1>2, <1>4, <1>6, <2>2, <2>3, <2>5
  <2>8. PICK g \in 0..LastDay :
          /\ NextRun(s - Day) = M(g) /\ s - Day < M(g)
          /\ \A x \in 0..LastDay : x < g => M(x) <= s - Day
    BY <1>1, <2>7, NextRunFirst DEF M
  <2>9. g = f
    <3>1. ~(f < g)
      BY <1>4, <2>2, <2>5, <2>8
    <3>2. ~(g < f)
      <4> SUFFICES ASSUME g < f PROVE FALSE
        OBVIOUS
      <4>1. M(g) < M(f)
        BY <1>5, <2>2
      <4> QED
        BY <1>4, <2>2, <2>5, <2>8, <4>1
    <3> QED
      BY <2>2, <3>1, <3>2
  <2>10. done # None /\ done >= M(f)
    BY <2>2, <2>5, <2>6, <2>8, <2>9, RecordedSince DEF M
  <2> QED
    BY <1>1, <1>4, <2>2, <2>3, <2>10
<1> QED
  BY <1>1, <1>4, <1>7, <1>9, <1>10, <1>11

\* Once the service has been left alone for a little more than two minutes and
\* the change of the clocks, every moment older than that has been followed by
\* a check: the look 24 hours back passes over none, on any calendar and at
\* any time of day, after a restart or a refusal too (dueNow, NextRun).
THEOREM NoMomentPassedOver == Spec => []Prompt
BY InitQuiet, NextQuiet, QuietPrompt, PTL DEF Spec
=============================================================================
