---------------------------- MODULE WellControl ----------------------------
(***************************************************************************)
(* One default_well under its well_controller, driven in the order of      *)
(* WellCalls: the bottom hole pressure and the rate of the well, the       *)
(* switches between control by pressure and control by rate, and what is   *)
(* saved and restored when a small step fails.                             *)
(*                                                                         *)
(* The well has one perforation in one cell and one phase; its inflow is   *)
(* linear with slope one, so that a rate is the drawdown between cell and  *)
(* well.  A rate is written without its sign (the code keeps the rates of  *)
(* producers negative).  Densities, and the depth of the perforation below *)
(* the reference depth, are zero; the exploitation factor and the length   *)
(* of a step are one.  The corrections of the linear solver are arbitrary. *)
(***************************************************************************)
EXTENDS WellCalls, Integers

CONSTANTS
  Pressures,    \* pressures the cell may take
  Corrected,    \* pressures restore_solution may bring the well to
  BhpLimits,    \* limits of an event
  RateLimits,
  BhpTop,       \* calc_well_pressure accepts 1 .. BhpTop (1 to 1000 bar)
  TotalBound,   \* where the model stops counting rate_total_
  NaN           \* the value of 0 * 1/0

ASSUME WellParams ==
  /\ Pressures \subseteq Int /\ Corrected \subseteq Int
  /\ BhpLimits \subseteq Int /\ RateLimits \subseteq Nat
  /\ BhpTop \in Nat /\ TotalBound \in Nat
  /\ NaN \notin Int

VARIABLES
  pressure,   \* of the perforated cell
  base,       \* its copy in calc_model::old_data_
  well,       \* the well: see Well
  control,    \* well_controller::current_control_, but for is_bhp
  limit,      \* well_controller::bhp_ and rate_
  saved,      \* saved_well_state_ and saved_control_
  perf,       \* is the perforation open
  total       \* rate_total_

setup == <<control, limit, perf>>
wvars == <<stage, attempt, pressure, base, well, setup, saved, total>>

ControlTypes == {"bhp", "rate"}
Controls == [is_production : BOOLEAN, control_type : ControlTypes]
Limits   == [bhp : BhpLimits, rate : RateLimits]

(* well_state_ and is_bhp, bhp_, rate_ and init_approx_is_calc_.           *)
Well == [open : BOOLEAN, is_work : BOOLEAN, is_bhp : BOOLEAN,
         bhp : Int \cup {NaN}, rate : Nat, approx : BOOLEAN]

Saved == [open : BOOLEAN, is_work : BOOLEAN, is_bhp : BOOLEAN, control : Controls]

Saving == [open |-> well.open, is_work |-> well.is_work,
           is_bhp |-> well.is_bhp, control |-> control]

(* A well as WELSPECS, COMPDAT and a first control event leave it.         *)
Init ==
  /\ CallsInit
  /\ pressure \in Pressures /\ base = pressure
  /\ control \in Controls /\ limit \in Limits /\ perf = TRUE
  /\ well = [open |-> TRUE, is_work |-> FALSE,
             is_bhp |-> control.control_type = "bhp",
             bhp |-> limit.bhp, rate |-> 0, approx |-> FALSE]
  /\ saved = Saving
  /\ total = 0
-----------------------------------------------------------------------------
(* Inflow.  A producer flows when the cell is above the well, an injector  *)
(* when it is below (is_valid_connection_bhp, check_connections_bhp).      *)
Sign        == IF control.is_production THEN 1 ELSE -1
Drawdown(b) == Sign * (pressure - b)
Flows(b)    == perf /\ b # NaN /\ Drawdown(b) > 0

(* A producer under pressure control controls no phase: its target leaves  *)
(* no residual (compute_bw) and no coefficient to divide by (calc_prod).   *)
Controlled == ~(control.is_production /\ control.control_type = "bhp")

(* The pressure at which the well meets its rate limit.                    *)
TargetBhp == pressure - Sign * limit.rate

SwitchToBhp(w) == [w EXCEPT !.is_bhp = TRUE, !.bhp = limit.bhp]

(* calc_well_pressure: a first value for the pressure of a well under rate *)
(* control, or control by pressure when there is none.                     *)
calc_well_pressure(w) ==
  IF w.is_bhp THEN w
  ELSE IF perf /\ Controlled /\ TargetBhp \in 1 .. BhpTop
         THEN [w EXCEPT !.bhp = TargetBhp]
         ELSE SwitchToBhp(w)

calc_rate(w) == [w EXCEPT !.rate = Drawdown(w.bhp)]

(* well_controller::check.                                                 *)
check_unsigned(w) ==
  IF ~w.is_bhp /\ limit.bhp > w.bhp THEN SwitchToBhp(w)
  ELSE IF w.is_bhp /\ w.rate > limit.rate THEN [w EXCEPT !.is_bhp = FALSE]
  ELSE w
check(w) ==
  IF ~w.is_bhp /\ Sign * (limit.bhp - w.bhp) > 0 THEN SwitchToBhp(w)
  ELSE IF w.is_bhp /\ w.rate > limit.rate THEN [w EXCEPT !.is_bhp = FALSE]
  ELSE w

(* calc_rate_and_derivs_concrete.  A well that stops flowing when it is    *)
(* switched keeps the rates computed before.                               *)
calc_rates_once(w) ==
  LET s == check(calc_rate(w)) IN
  IF Flows(s.bhp) THEN s ELSE [s EXCEPT !.is_work = FALSE]
calc_rate_and_derivs(w) ==
  LET s == check(calc_rate(w)) IN
  IF Flows(s.bhp) THEN calc_rate(s) ELSE [s EXCEPT !.is_work = FALSE]

(* process_internal.                                                       *)
process_internal(w) ==
  LET cleared == [w EXCEPT !.rate = 0, !.approx = TRUE]
      c == IF w.approx THEN cleared ELSE calc_well_pressure(cleared)
  IN  IF Flows(c.bhp) THEN calc_rate_and_derivs([c EXCEPT !.is_work = TRUE])
                      ELSE [c EXCEPT !.is_work = FALSE]

(* bw_value, for a well under rate control.                                *)
Residual(w) == IF w.is_work /\ Controlled THEN w.rate - limit.rate ELSE 0

(* process_impl: the correction of the well's own equation, which one      *)
(* pass solves as the inflow is linear.                                    *)
process_impl(w) ==
  LET f == process_internal(w) IN
  IF ~f.is_bhp /\ Residual(f) # 0
    THEN process_internal([f EXCEPT !.bhp = TargetBhp])
    ELSE f

(* process: a shut well is left alone.                                     *)
process(w) == IF w.open THEN process_impl(w) ELSE w

(* control_state::operator != joins its tests with &&; is_bhp is a field   *)
(* of it.                                                                  *)
DiffersAny(s) ==
  \/ well.is_bhp # s.is_bhp
  \/ control.is_production # s.control.is_production
  \/ control.control_type # s.control.control_type
Differs(s) ==
  /\ well.is_bhp # s.is_bhp
  /\ control.is_production # s.control.is_production
  /\ control.control_type # s.control.control_type
-----------------------------------------------------------------------------
(* The events of the schedule, between two small steps.                    *)
Event == stage = "schedule" /\ UNCHANGED <<calls, pressure, base, saved, total>>

(* set_state: shutting a well clears its rates.                            *)
set_state_keeping(open) == [well EXCEPT !.open = open]
set_state(open) ==
  [well EXCEPT !.open = open, !.rate = IF open THEN @ ELSE 0]

(* WCONPROD, WCONHIST and WCONINJE: state, limits and control; the         *)
(* pressure of the well becomes its limit whatever controls it.            *)
SetControl ==
  /\ Event
  /\ control' \in Controls /\ limit' \in Limits
  /\ \E open \in BOOLEAN :
       well' = [set_state(open) EXCEPT !.bhp = limit'.bhp,
                                       !.is_bhp = control'.control_type = "bhp"]
  /\ UNCHANGED perf

(* WELTARG with BHP.                                                       *)
SetBhpLimit ==
  /\ Event
  /\ \E b \in BhpLimits :
       /\ limit' = [limit EXCEPT !.bhp = b]
       /\ well' = IF well.is_bhp THEN [well EXCEPT !.bhp = b] ELSE well
  /\ UNCHANGED <<control, perf>>

(* WELTARG with a rate, for a producer: set_rate knows none of the types   *)
(* WELTARG gives for an injector and throws.                               *)
SetRateLimit ==
  /\ Event
  /\ control.is_production
  /\ \E r \in RateLimits : limit' = [limit EXCEPT !.rate = r]
  /\ UNCHANGED <<well, control, perf>>

(* COMPDAT on the perforated cell.                                         *)
SetPerforation ==
  /\ Event
  /\ perf' \in BOOLEAN
  /\ UNCHANGED <<well, control, limit>>

(* The run ends, or an exception ends it.                                  *)
Stop == CallsEnd /\ UNCHANGED <<pressure, base, well, setup, saved, total>>
-----------------------------------------------------------------------------
(* pre_large_step: connection factors and counts, which no rule here reads. *)
PreLargeStep ==
  /\ CallPreLargeStep
  /\ UNCHANGED <<pressure, base, well, setup, saved, total>>

Report == CallReport /\ UNCHANGED <<pressure, base, well, setup, saved, total>>

(* pre_small_step, with the copy of the cells it is called beside.         *)
PreSmallStep ==
  /\ CallPreSmallStep
  /\ base' = pressure
  /\ saved' = Saving
  /\ UNCHANGED <<pressure, well, setup, total>>

CalcWells ==
  /\ CallCalcWells
  /\ well' = process(well)
  /\ UNCHANGED <<pressure, base, setup, saved, total>>

(* The Newton correction moves the cell and, if the well works under rate  *)
(* control, the well with it; (1 / ww_value) * bw_value has no number when *)
(* no phase is controlled.                                                 *)
RestoreSolution ==
  /\ CallRestoreSolution
  /\ pressure' \in Pressures
  /\ IF well.open /\ well.is_work /\ ~well.is_bhp
       THEN \E b \in IF Controlled THEN Corrected ELSE {NaN} :
              well' = [well EXCEPT !.bhp = b]
       ELSE well' = well
  /\ UNCHANGED <<base, setup, saved, total>>

(* restart_small_step, after the cells went back: the state and the        *)
(* control of the well return, its pressure and rates do not.              *)
RestartSmallStep ==
  /\ CallRestartSmallStep
  /\ pressure' = base
  /\ well' = [well EXCEPT !.open = saved.open, !.is_work = saved.is_work,
                          !.is_bhp = saved.is_bhp, !.approx = Differs(saved)]
  /\ control' = saved.control
  /\ UNCHANGED <<base, limit, perf, saved, total>>

(* compute_acc_rates: whatever the state of the well.                      *)
AccRates ==
  /\ CallAccRates
  /\ total' = IF total + well.rate > TotalBound THEN TotalBound ELSE total + well.rate
  /\ UNCHANGED <<pressure, base, well, setup, saved>>

Next ==
  \/ SetControl \/ SetBhpLimit \/ SetRateLimit \/ SetPerforation
  \/ PreLargeStep \/ Report \/ PreSmallStep \/ CalcWells
  \/ RestoreSolution \/ RestartSmallStep \/ AccRates \/ Stop

Spec == Init /\ [][Next]_wvars
-----------------------------------------------------------------------------
(* The well keeps its types; a rate is never negative.                     *)
TypeOK ==
  /\ pressure \in Pressures /\ base \in Pressures
  /\ well \in Well
  /\ control \in Controls /\ limit \in Limits /\ saved \in Saved
  /\ perf \in BOOLEAN
  /\ total \in 0 .. TotalBound

Works == stage = "evaluated" /\ well.open /\ well.is_work

(* The rates a Newton iteration assembles belong to the pressure the well  *)
(* ends the evaluation with, and flow the right way, however often control *)
(* was switched and the pressure corrected on the way.                     *)
FlowIsConsistent ==
  Works => Flows(well.bhp) /\ well.rate = Drawdown(well.bhp)

(* A working well under rate control produces its target within its        *)
(* pressure limit: one that cannot has been switched to pressure control.  *)
TargetMet ==
  Works /\ ~well.is_bhp /\ Controlled =>
    /\ well.rate = limit.rate
    /\ Sign * (limit.bhp - well.bhp) <= 0

(* A retry under rate control does not depend on the pressure the failed   *)
(* attempt left in the well, although restart_small_step does not restore  *)
(* it.                                                                     *)
RetryForgets ==
  stage = "evaluate" /\ attempt = "retry" /\ well.open /\ ~well.is_bhp =>
    \A b \in Corrected \cup {NaN} : process([well EXCEPT !.bhp = b]) = process(well)

(* The totals of a well only grow, and only while it is open.              *)
TotalsOfOpenWells ==
  [][total' >= total /\ (~well.open => total' = total)]_wvars
=============================================================================
