---------------------------- MODULE ReportSteps ----------------------------
(***************************************************************************)
(* What the simulation promises about time, without small steps, Newton    *)
(* iterations and retries: the clock moves forward through the dates of    *)
(* the schedule, stops at each of them, and every date is reported exactly *)
(* once and in order.  The run ends after the last report, or with an      *)
(* exception in the middle of an interval.                                 *)
(***************************************************************************)
EXTENDS Integers, Sequences

CONSTANT Reports    \* the dates of the schedule, in order

VARIABLES
  clock,    \* time since the first date
  done,     \* number of intervals reported
  status    \* "running", "end" or "exception"

vars == <<clock, done, status>>

Intervals == Len(Reports) - 1
Due       == Reports[done + 2] - Reports[1]

Init == clock = 0 /\ done = 0 /\ status = "running"

(* The clock moves, but not past the next date.                            *)
Advance ==
  /\ status = "running" /\ done < Intervals
  /\ clock' \in clock + 1 .. Due
  /\ UNCHANGED <<done, status>>

ReportDate ==
  /\ status = "running" /\ done < Intervals
  /\ clock = Due
  /\ done' = done + 1
  /\ UNCHANGED <<clock, status>>

Finish ==
  /\ status = "running" /\ done = Intervals
  /\ status' = "end"
  /\ UNCHANGED <<clock, done>>

Abort ==
  /\ status = "running" /\ done < Intervals /\ clock < Due
  /\ status' = "exception"
  /\ UNCHANGED <<clock, done>>

Next == Advance \/ ReportDate \/ Finish \/ Abort

Spec == Init /\ [][Next]_vars
=============================================================================
