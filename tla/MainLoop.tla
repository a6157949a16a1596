------------------------------ MODULE MainLoop ------------------------------
(***************************************************************************)
(* The simulation loop of bs_bos_core/include/main_loop_calc.h: report      *)
(* intervals (large steps) cut into small steps, each small step solved by *)
(* Newton iterations and retried from its start with another length when   *)
(* they fail.                                                              *)
(*                                                                         *)
(* The fields of the solution (pressure, saturation, gas-oil ratio, main   *)
(* variable) are abstracted to a version <<t, n>>: the result of n Newton  *)
(* corrections made while current_time_ was t.  The same versions tag the  *)
(* copies the code keeps: old_data_ (the start of the small step), data_   *)
(* (the cell properties, recomputed by fi_operator) and prev_fluid_volume. *)
(* Wells are the subject of WellControl; the linear solver appears by the  *)
(* verdict of solve_jacobian.  A change of main variables, with which      *)
(* fi_operator begins, belongs to the version it works on.                 *)
(***************************************************************************)
EXTENDS StepControl, Sequences

CONSTANTS
  Reports,     \* keys of event_manager::event_list, in map order
  NumEvents,   \* number of events in the list of each date
  FirstTS,     \* fi_params::FIRST_TS
  SavePeriod,  \* fi_params::SAVE_STEP_DATA_PERIOD
  ReducesDt,   \* can do_dt_reduce shorten a step (MAX_NORM_ON_FIRST_N reached)
  RestartsBound \* where the model stops counting restarts

ASSUME LoopParams ==
  /\ Reports \in Seq(Int) /\ Len(Reports) >= 1
  /\ \A i, j \in 1 .. Len(Reports) : i < j => Reports[i] < Reports[j]
  /\ NumEvents \in [1 .. Len(Reports) -> Nat]
  /\ FirstTS \in Nat \ {0}
  /\ SavePeriod \in Nat \ {0}
  /\ ReducesDt \in BOOLEAN
  /\ RestartsBound \in Nat

VARIABLES
  pc,         \* where the loop stands
  it,         \* position of the iterator of go() in Reports
  dt,         \* dt_
  time,       \* current_time_
  lstart,     \* large_time_step_start_
  lend,       \* large_time_step_end_
  newt,       \* num_last_newton_iters_, also the index of the Newton loop
  nsmall,     \* number_of_small_time_steps
  nlarge,     \* number_of_large_time_steps
  restarts,   \* number_of_restarts and number_of_fi_operator_restarts
  calcPrev,   \* do_calc_prev_fluid_volume_
  sol,        \* the solution in calc_model
  old,        \* calc_model::old_data_
  props,      \* the solution calc_model::data_ was computed from
  prevVol,    \* <<data_, solution>> prev_fluid_volume was computed from
  saved       \* /results of the storage: times and solutions, as appended

interval == <<it, lstart, lend, nlarge>>
fields   == <<sol, old, props, prevVol>>
vars == <<pc, it, dt, time, lstart, lend, newt, nsmall, nlarge, restarts,
          calcPrev, sol, old, props, prevVol, saved>>

Outer    == {"ready", "report", "events", "step"}
Inner    == {"fi_operator", "solve", "failed", "solved"}
Finished == {"end", "exception"}

Elapsed(i) == Reports[i] - Reports[1]
Remaining  == lend - time
InitialSol == <<0, 0>>

Goto(from, to) == pc = from /\ pc' = to
-----------------------------------------------------------------------------
(* The constructor, and the state init() of the simulator leaves.          *)
Init ==
  /\ pc = "ready"
  /\ it = 1
  /\ dt = 0 /\ time = 0 /\ lstart = 0 /\ lend = 0
  /\ newt = 0 /\ nsmall = 0 /\ nlarge = 1
  /\ restarts = 0
  /\ calcPrev = TRUE
  /\ sol = InitialSol /\ old = InitialSol /\ props = InitialSol
  /\ prevVol = <<InitialSol, InitialSol>>
  /\ saved = <<>>

(* save_base_vars and restore_base_vars, for the fields of calc_model.     *)
SaveBase == old' = sol

RestoreBaseNothing == sol' = sol
RestoreBase == sol' = old

(* The condition of the small-step loop: there is time left in the interval. *)
TimeLeftCoarse == time + 1 < lend
TimeLeft == time < lend

(* ready(): the cell properties of the initial state, the first length and *)
(* a first copy of the solution.                                           *)
Ready ==
  /\ Goto("ready", "report")
  /\ props' = sol
  /\ dt' = FirstTS
  /\ SaveBase
  /\ UNCHANGED <<interval, time, newt, nsmall, restarts, calcPrev, sol, prevVol, saved>>

(* go() and iteration(): the next pair of dates.  update_large_time_step_  *)
(* length accepts the positive lengths the map order guarantees.           *)
BeginReport ==
  /\ it < Len(Reports)
  /\ Goto("report", "events")
  /\ lstart' = lend
  /\ lend' = lend + Reports[it + 1] - Reports[it]
  /\ UNCHANGED <<it, nlarge, dt, time, newt, nsmall, restarts, calcPrev, fields, saved>>

(* rs_->pre_large_step: the events of the date are applied to the wells    *)
(* and the small steps begin.                                              *)
ApplyEvents ==
  /\ Goto("events", "step")
  /\ nsmall' = 0
  /\ UNCHANGED <<interval, dt, time, newt, restarts, calcPrev, fields, saved>>

(* An event that cannot be applied (a target of a rate an injector does not *)
(* have) throws in the middle of the events of its date.                   *)
EventFails ==
  /\ Goto("events", "exception")
  /\ UNCHANGED <<interval, dt, time, newt, nsmall, restarts, calcPrev, fields, saved>>

(* The head of the loop of process_small_steps.                            *)
BeginSmallStep ==
  /\ TimeLeft
  /\ Goto("step", "fi_operator")
  /\ calcPrev' = TRUE
  /\ dt' \in increase_ts(dt, Remaining, newt)
  /\ SaveBase
  /\ newt' = 0
  /\ UNCHANGED <<interval, time, nsmall, restarts, sol, props, prevVol, saved>>
-----------------------------------------------------------------------------
(* do_dt_reduce: on the first iteration dt_ is multiplied by a factor      *)
(* below 0.95 when the norm is too large.                                  *)
DtReduced(d) == { r \in 1 .. d : r * 20 < d * 19 }

DtAfterFiOperator ==
  {dt} \cup (IF ReducesDt /\ newt = 0 THEN DtReduced(dt) ELSE {})

(* i == max_n_iters in compute_small_time_step, i running over             *)
(* 0 .. max_n_iters.                                                       *)
LastIteration == newt = NewtonItersNum

(* check_norm is not asked on the first iteration.                         *)
CheckNormAlways == TRUE
CheckNorm == newt > 0

(* The part of one pass of compute_small_time_step up to the verdict of    *)
(* fi_operator: prev_fluid_volume on the first iteration of the first      *)
(* attempt, then the properties of the cells.                              *)
Evaluate ==
  /\ prevVol' = IF calcPrev /\ newt = 0 THEN <<props, sol>> ELSE prevVol
  /\ props' = sol
  /\ UNCHANGED <<sol, old>>

(* The norms are small enough; the last iteration is a failure whatever    *)
(* they are.                                                               *)
Converged ==
  /\ Goto("fi_operator", "solved")
  /\ CheckNorm /\ ~LastIteration
  /\ Evaluate
  /\ UNCHANGED <<interval, dt, time, newt, nsmall, restarts, calcPrev, saved>>

(* The last iteration: compute_small_time_step returns max_n_iters + 1.    *)
Exhausted ==
  /\ Goto("fi_operator", "failed")
  /\ LastIteration
  /\ Evaluate
  /\ UNCHANGED <<interval, dt, time, newt, nsmall, restarts, calcPrev, saved>>

NotConverged ==
  /\ Goto("fi_operator", "solve")
  /\ ~LastIteration
  /\ Evaluate
  /\ dt' \in DtAfterFiOperator
  /\ UNCHANGED <<interval, time, newt, nsmall, restarts, calcPrev, saved>>

(* solve_jacobian found a solution within the tolerance; it is applied to  *)
(* the cells (apply_newton_correction has no failing outcome) and the loop *)
(* goes on.                                                                *)
Correct ==
  /\ Goto("solve", "fi_operator")
  /\ newt' = newt + 1
  /\ sol' = <<time, newt + 1>>
  /\ UNCHANGED <<interval, dt, time, nsmall, restarts, calcPrev, old, props, prevVol, saved>>

SolverFailed ==
  /\ Goto("solve", "failed")
  /\ UNCHANGED <<interval, dt, time, newt, nsmall, restarts, calcPrev, fields, saved>>

(* The solver cannot be set up for the matrix: an exception leaves go().   *)
SetupFailed ==
  /\ Goto("solve", "exception")
  /\ UNCHANGED <<interval, dt, time, newt, nsmall, restarts, calcPrev, fields, saved>>
-----------------------------------------------------------------------------
(* The loop gives up when the new length is the failed one.                *)
GaveUpAtZero(new) == new = 0
GaveUp(new) == new = dt

(* do_calc_prev_fluid_volume_ of a retry: the volumes of the start of the  *)
(* step are in place, and data_ no longer holds its properties.            *)
RetryAnew == calcPrev' = calcPrev
RetryFlag == calcPrev' = FALSE

(* newton_iter_fail.  Every failure returns max_n_iters + 1, so every one  *)
(* counts as a restart of fi_operator and the branch that counts           *)
(* number_of_max_iters_restarts is never taken.                            *)
NewtonIterFail ==
  LET new == decrease_ts(dt, Remaining) IN
  /\ pc = "failed"
  /\ RestoreBase
  /\ dt' = new
  /\ IF GaveUp(new)
       THEN /\ pc' = "exception"
            /\ UNCHANGED <<restarts, calcPrev, newt>>
       ELSE /\ pc' = "fi_operator"
            /\ restarts' = IF restarts < RestartsBound THEN restarts + 1 ELSE restarts
            /\ RetryFlag
            /\ newt' = 0
  /\ UNCHANGED <<interval, time, nsmall, old, props, prevVol, saved>>

(* newton_iter_success and the increment of the small-step loop.           *)
NewtonIterSuccess ==
  /\ Goto("solved", "step")
  /\ time' = time + dt
  /\ nsmall' = nsmall + 1
  /\ UNCHANGED <<interval, dt, newt, restarts, calcPrev, fields, saved>>

(* write_calc_model_data of bs_bos_core/src/data_saver_hdf5.h: its numbers *)
(* only decide whether there is something to write.                        *)
Saves(num, total) == num % SavePeriod = 0 \/ num = total \/ num = 1

(* The number it is given: update_large_time_step_num comes before         *)
(* write_step_to_storage.                                                  *)
ReportNumberBefore == nlarge
ReportNumber == nlarge + 1

(* time_step_end, with the number of events of the date as the total       *)
(* number of steps, and the advance of the iterator in go().  A write      *)
(* extends the "values" and the "dates" of each array by one entry.        *)
TimeStepEnd ==
  /\ ~TimeLeft
  /\ Goto("step", "report")
  /\ nlarge' = nlarge + 1
  /\ saved' = IF Saves(ReportNumber, NumEvents[it])
                THEN Append(saved, [at |-> time, sol |-> sol]) ELSE saved
  /\ it' = it + 1
  /\ UNCHANGED <<dt, time, lstart, lend, newt, nsmall, restarts, calcPrev, fields>>

(* go() leaves at the last date, and end() prints the totals.              *)
End ==
  /\ it = Len(Reports)
  /\ Goto("report", "end")
  /\ UNCHANGED <<interval, dt, time, newt, nsmall, restarts, calcPrev, fields, saved>>

Next ==
  \/ Ready \/ BeginReport \/ ApplyEvents \/ EventFails \/ BeginSmallStep
  \/ Converged \/ Exhausted \/ NotConverged
  \/ Correct \/ SolverFailed \/ SetupFailed
  \/ NewtonIterFail \/ NewtonIterSuccess \/ TimeStepEnd \/ End

Spec == Init /\ [][Next]_vars

(* The loop is one thread that never waits: as long as it can go on it does. *)
FairSpec == Spec /\ WF_vars(Next)
-----------------------------------------------------------------------------
Version == Nat \X (0 .. NewtonItersNum)
Entry   == [at : Nat, sol : Version]

(* The loop's counters and clocks keep their ranges: in particular the     *)
(* index of the Newton loop never passes NEWTON_ITERS_NUM, and a step that *)
(* is being computed has a positive length.                                *)
TypeOK ==
  /\ pc \in Outer \cup Inner \cup Finished
  /\ it \in 1 .. Len(Reports)
  /\ dt \in Nat /\ (pc # "ready" => dt > 0)
  /\ time \in Nat /\ lstart \in Nat /\ lend \in Nat
  /\ newt \in 0 .. NewtonItersNum
  /\ nsmall \in Nat /\ nlarge \in Nat \ {0}
  /\ restarts \in 0 .. RestartsBound
  /\ calcPrev \in BOOLEAN
  /\ sol \in Version /\ old \in Version /\ props \in Version
  /\ prevVol \in Version \X Version
  /\ saved \in Seq(Entry)

(* No small step reaches over the next date: whatever the sequence of      *)
(* growths, cuts, clamps and reductions, the step being computed ends      *)
(* inside the report interval, so events are never applied late.           *)
StepInsideInterval ==
  /\ lstart <= time /\ time <= lend
  /\ pc \in Inner => time + dt <= lend

(* Every attempt at a small step starts from the solution the step started *)
(* from, however many attempts failed before it.                           *)
AttemptFromBase ==
  pc = "fi_operator" /\ newt = 0 => sol = old

(* The accumulation term of every Newton iteration is taken against the    *)
(* fluid volumes of the start of the step: prev_fluid_volume was computed  *)
(* with the solution saved in old_data_ and with cell properties data_ of  *)
(* that same solution, although data_ is overwritten by every iteration    *)
(* and is not restored with the solution.                                  *)
VolumeOfBase ==
  pc \in {"solve", "failed", "solved"} => prevVol = <<old, old>>

(* The storage holds, in order and each once, exactly the dates passed     *)
(* whose place in the schedule the test of the period lets through, every  *)
(* one with its time and with a solution that was accepted in the interval *)
(* before it: not of an attempt, and not left from an earlier interval.    *)
Written(i) == \E n \in DOMAIN saved : saved[n].at = Elapsed(i)
ResultOf(entry, i) ==
  /\ entry.at = Elapsed(i)
  /\ Elapsed(i - 1) <= entry.sol[1] /\ entry.sol[1] < Elapsed(i)
SavedAtReport ==
  /\ \A i \in 2 .. it : Written(i) <=> Saves(i, NumEvents[i - 1])
  /\ \A n \in DOMAIN saved : \E i \in 2 .. it : ResultOf(saved[n], i)
  /\ \A m, n \in DOMAIN saved : m < n => saved[m].at < saved[n].at

(* The loop visits the dates in order and reports each of them once.       *)
Report == INSTANCE ReportSteps WITH
  clock  <- time,
  done   <- nlarge - 1,
  status <- IF pc \in Finished THEN pc ELSE "running"
RefinesReportSteps == Report!Spec

(* The wells are called in the order the well model relies on: saved once  *)
(* per small step, restarted only after an evaluation, and accounted for   *)
(* only after a correction (WellControl is built on this contract).        *)
WellStage ==
  CASE pc \in {"ready", "report", "events"}    -> "schedule"
    [] pc = "step"                            -> "step"
    [] pc = "fi_operator"                     -> "evaluate"
    [] pc \in {"solve", "failed", "solved"}   -> "evaluated"
    [] pc \in Finished                        -> "stopped"
WellAttempt ==
  IF pc \notin Inner THEN "none"
  ELSE IF newt > 0 THEN "corrected"
  ELSE IF calcPrev THEN "first" ELSE "retry"
Calls == INSTANCE WellCalls WITH stage <- WellStage, attempt <- WellAttempt
RefinesWellCalls == Calls!CallsSpec

(* The run ends, at the last date or with an exception, unless do_dt_reduce *)
(* shortens steps for ever: neither the retries of a small step nor the    *)
(* small steps of an interval go on without end, whatever the iterations   *)
(* come to.                                                                *)
DtIsReduced == NotConverged /\ dt' # dt
Terminates == []<><<DtIsReduced>>_vars \/ <>(pc \in Finished)
-----------------------------------------------------------------------------
(* A statement of the comments of the code that the code does not keep.    *)

(* "Decreases time-step if newton iteration failed" (main_loop_calc.h,     *)
(* decrease_ts) and "minimum allowed time step length" (fi_params.h,       *)
(* MIN_TS): lengths that only decrease down to a minimum run out, so the   *)
(* retries of a step end.                                                  *)
RetriesEnd == pc = "failed" ~> pc \in {"solved", "exception"}
=============================================================================
