---------------------------- MODULE StepControl ----------------------------
(***************************************************************************)
(* Selection of the length of a small time step: decrease_ts and           *)
(* increase_ts of bs_bos_core/include/main_loop_calc.h, as pure operators.  *)
(*                                                                         *)
(* Time is counted in whole ticks.  One tick stands for the smallest step  *)
(* the simulator tells apart (EPS_DIFF, 1e-12 and the fractions of a step  *)
(* are below it), so the comparisons of doubles against these tolerances   *)
(* become comparisons of integers.  A float parameter that multiplies a    *)
(* step is a fraction Num/Den; a product is rounded down to a tick, and    *)
(* the half of the remaining time is rounded up, so that a positive length *)
(* stays positive as it does in the code.                                  *)
(***************************************************************************)
EXTENDS Integers

CONSTANTS
  MinTS,              \* fi_params::MIN_TS, in ticks
  MaxTS,              \* fi_params::MAX_TS
  IncNum, IncDen,     \* fi_params::TS_INC_MULT
  DecNum, DecDen,     \* fi_params::TS_DEC_MULT
  OdNum, OdDen,       \* fi_params::OVERDRAFT
  NewtonItersNum,     \* fi_params::NEWTON_ITERS_NUM
  NewtonItersInc      \* fi_params::NEWTON_ITERS_INC

ASSUME StepParams ==
  /\ MinTS \in Nat \ {0} /\ MaxTS \in Nat /\ MinTS <= MaxTS
  /\ IncDen \in Nat \ {0} /\ IncNum \in Nat /\ IncNum >= IncDen
  /\ DecDen \in Nat \ {0} /\ DecNum \in Nat /\ DecNum <= DecDen
  /\ OdDen \in Nat \ {0} /\ OdNum \in Nat /\ OdNum >= OdDen
  /\ NewtonItersNum \in Nat \ {0} /\ NewtonItersInc \in Nat

Times(ts, num, den) == (ts * num) \div den

(* The two tests against MIN_TS and MAX_TS, in the order both functions    *)
(* make them.                                                              *)
Clamp(ts) ==
  IF ts < MinTS THEN MinTS ELSE IF ts > MaxTS THEN MaxTS ELSE ts

(* new_ts * OVERDRAFT > max_ts: the step is stretched to the end of the    *)
(* report interval.                                                        *)
Overdraft(ts, max_ts) == ts * OdNum > max_ts * OdDen

(* decrease_ts: the length of the next attempt after a failed one.         *)
decrease_ts(old_ts, max_ts) ==
  LET new_ts == Clamp(Times(old_ts, DecNum, DecDen))
  IN  IF Overdraft(new_ts, max_ts) THEN max_ts ELSE new_ts

(* The multipliers increase_ts may reach.  Both selection algorithms grow  *)
(* the step by a factor between 1 and TS_INC_MULT, and by none when the    *)
(* last step needed too many Newton iterations; the new algorithm takes    *)
(* the factor from the largest change of pressure, saturation and gas-oil  *)
(* ratio, which is left open here.                                         *)
Grown(old_ts, n_iters) ==
  IF n_iters <= NewtonItersNum - NewtonItersInc
    THEN old_ts .. Times(old_ts, IncNum, IncDen)
    ELSE {old_ts}

(* The length selection at the end of increase_ts: stretch to the end of   *)
(* the interval, never beyond it, and halve what is left when the rest     *)
(* would be shorter than the step.                                         *)
FitIntervalUncapped(ts, max_ts) ==
  IF Overdraft(max_ts, ts) THEN ts
  ELSE IF max_ts - ts < ts THEN (max_ts + 1) \div 2
  ELSE ts

FitInterval(ts, max_ts) ==
  IF Overdraft(ts, max_ts) \/ ts > max_ts THEN max_ts
  ELSE IF max_ts - ts < ts THEN (max_ts + 1) \div 2
  ELSE ts

(* increase_ts: the lengths a new small step may get.                      *)
increase_ts(old_ts, max_ts, n_iters) ==
  { FitInterval(Clamp(ts), max_ts) : ts \in Grown(old_ts, n_iters) }
=============================================================================
