----------------------------- MODULE WellCalls -----------------------------
(***************************************************************************)
(* The order in which the simulation loop calls a well: the contract       *)
(* between main_loop_calc and the facilities of a reservoir.  Events and   *)
(* pre_large_step come between small steps; a small step saves the well    *)
(* and then evaluates it in every Newton iteration, each evaluation being  *)
(* followed by a correction of the solution, by a restart of the step or   *)
(* by its acceptance.  A step is only accepted when the solution was       *)
(* corrected since the step, or its last restart, began.                   *)
(***************************************************************************)
VARIABLES
  stage,     \* "schedule", "step", "evaluate", "evaluated" or "stopped"
  attempt    \* in a small step: "first", "retry" or, once corrected, "corrected"

calls == <<stage, attempt>>

Move(from, to) == stage = from /\ stage' = to

CallsInit == stage = "schedule" /\ attempt = "none"

(* reservoir::pre_large_step, after the events of the date.                *)
CallPreLargeStep == Move("schedule", "step") /\ UNCHANGED attempt

(* The small steps of the interval are done.                               *)
CallReport == Move("step", "schedule") /\ UNCHANGED attempt

(* reservoir::pre_small_step, from save_base_vars.                         *)
CallPreSmallStep == Move("step", "evaluate") /\ attempt' = "first"

(* reservoir::calc_wells, from fi_operator.                                *)
CallCalcWells == Move("evaluate", "evaluated") /\ UNCHANGED attempt

(* reservoir::restore_wells_solution, after the cells were corrected.      *)
CallRestoreSolution == Move("evaluated", "evaluate") /\ attempt' = "corrected"

(* reservoir::restart_small_step, from restore_base_vars.                  *)
CallRestartSmallStep == Move("evaluated", "evaluate") /\ attempt' = "retry"

(* compute_acc_rates, from newton_iter_success.                            *)
CallAccRates ==
  /\ attempt = "corrected"
  /\ Move("evaluated", "step")
  /\ attempt' = "none"

(* The run ends between two dates, or with an exception.                   *)
CallsEnd ==
  /\ stage \in {"schedule", "evaluated"}
  /\ stage' = "stopped" /\ attempt' = "none"

CallsNext ==
  \/ CallPreLargeStep \/ CallReport \/ CallPreSmallStep \/ CallCalcWells
  \/ CallRestoreSolution \/ CallRestartSmallStep \/ CallAccRates \/ CallsEnd

CallsSpec == CallsInit /\ [][CallsNext]_calls
=============================================================================
