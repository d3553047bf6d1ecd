---------------------------- MODULE MCScheduler -----------------------------
(* Values for the constants of Scheduler: days of six ticks, the second one *)
(* a tick shorter and the third a tick longer, the clock being changed      *)
(* between the early and the late time of day.                              *)
EXTENDS Scheduler

CONSTANTS early, late

Start == <<6, 11, 18, 24, 30>>
DayBegins == [d \in 0..5 |-> IF d = 0 THEN 0 ELSE Start[d]]
DayMoments == [d \in 0..4 |-> [t \in {early, late} |->
  DayBegins[d] + (IF t = early THEN 1 ELSE 4)
    + (CASE <<d, t>> = <<1, late>> -> -1 [] <<d, t>> = <<2, late>> -> 1 [] OTHER -> 0)]]
=============================================================================
