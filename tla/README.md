# A specification of the BlueSky reservoir simulator (bs-eagle)

bs-eagle is the reservoir simulation plugin family of the BlueSky platform: a
keyword deck is read into a data model, a mesh and the properties of the
fluids are built, and a fully implicit simulator marches a model of the
reservoir and its wells through the dates of a schedule.  The modules here
specify the discrete part of that program: how time is cut into steps, how a
step is iterated, failed and tried again, what is saved and restored on the
way, how a well is controlled, and what is stored; how the schedule it runs over
is built; which unknowns a cell is solved for; when an iterative solver stops and
how its answer is judged; and how the algebraic multigrid solver sets up its levels,
from the splitting of the points of a matrix to the matrix of the next level.  The
real arithmetic is left out; its outcomes are choices of the models.

`PROJECT.json` lists, for every definition that models code, the lines it was
translated from.

## Inventory

The whole simulator is one thread.  What is hard in it is not interleaving but
*protocol over shared mutable state*: the solution, the cell properties, the
volumes of the start of a step, and the state of every well are each updated in
place by different calls, saved at different moments and restored by different
calls, and a failed step must leave none of its traces behind.

| Component | State | Operations | Interacts with |
|---|---|---|---|
| simulation loop (`main_loop_calc.h`) | clocks, step length, counters, `do_calc_prev_fluid_volume_` | `ready`, `go`, `iteration`, `process_small_steps`, `compute_small_time_step`, `newton_iter_fail/success`, `save/restore_base_vars`, `decrease_ts`, `increase_ts`, `time_step_end` | everything below, by direct calls |
| fully implicit operator (`fi_operator.h` and its parts) | `data_` (cell properties), `prev_fluid_volume`, norms | one evaluation: properties, main variables, wells, residual, norm check, `do_dt_reduce` | calc_model, reservoir, jacobian |
| calc_model (`calc_model.cpp`) | pressure, saturation, gas-oil ratio, main variable, the copy `old_data_` | initialise, save, restore, apply the Newton correction | loop, operator |
| main variables (`switch_main_vars.h`, head of `fi_operator`) | which of gas saturation, dissolved gas or masses a cell is solved for | switch, evaluate | calc_model, operator |
| jacobian and linear solution (`jacobian.cpp`, `solve_jacobian`) | matrices, the solver and its preconditioner | set up, solve, judge | loop, linear solvers |
| linear solvers (`bs_lsolvers`) | work vectors; the properties `success`, `iters`, `final_residual`, which survive between calls | `setup`, `solve` of gmres, bicgstab, cgs, tfqmr | jacobian, preconditioners, matrices |
| algebraic multigrid (`amg_solver.cpp`) | the matrices, markers and work vectors of all levels, which survive between setups | `setup`, `solve` | coarsenings, interpolation builders, matrices |
| interpolation builders (`direct_pbuild`, `standart_pbuild`, `standart2_pbuild`, `standart3_pbuild`) | markers of columns | `build`: count, allocate, fill | setup of the levels |
| matrices (`bs_mtx`, `bcsr.cpp`) | block CSR arrays | products, transposition, triple product | everything that solves |
| reservoir and facility manager (`reservoir.cpp`, `facility_manager.cpp`) | list of wells, sums of rates | `pre_large_step`, `pre_small_step`, `restart_small_step`, `calc_wells`, `restore_wells_solution`, accumulation | loop, wells |
| wells (`calc_well.cpp`, `default_well.cpp`, `calc_well_pressure.cpp`, `default_well_calc_rate.h`) | open/shut, works or not, bottom hole pressure, rates, totals, approximation flag, saved state | `process`, `restore_solution`, save and restart | controller, reservoir, calc_model |
| well controller (`well_controller.cpp`) | current and saved control, limits | `check`, `switch_to_bhp`, `set_rate`, save and restore | wells, events |
| well events (`well_event_apply_methods.cpp`) | parameters of one event | apply to a well | schedule, wells |
| event schedule (`event_manager.cpp`, `event_manager_keywords.cpp`) | dates and their events, current date | `DATE`, `TSTEP`, `process_event`, `finalize_events` | deck reader, loop |
| data saver, result storages | arrays of values and of their dates, extended by every write | write a step, if its number is let through | loop |
| well reporter | none | prints tables | loop |
| equilibrium, explicit initialisation | arrays of the initial state | one pass each | calc_model |
| multigrid coarsening (`pmis_coarse`, `pmis2_coarse`, `cljp_coarse`, `ruge_coarse`, `coarse_tools`, `link_list.h`) | markers of points, marks of edges, measures, the graph of undecided points | `build` | setup of the multigrid levels (`amg_solver`), interpolation builders |
| keyword manager, deck reader (`bs_bos_core_data_storage`, `bos_reader.cpp`) | handler tables, include stack, pools | register, handle, read | everything built from the deck |
| well storage (`sql_well`) | an SQLite database | statements, export | deck, events |
| mesh (`bs_mesh`) | geometry, connections | build, compute | calc_model, jacobian |
| fluids, relative permeability (`bs_pvt`, `bs_scal`, `hdm_fluid`) | tables | interpolate | operator |
| HDF5 storage (`hdf5_storage`) | open files, groups | create, write, read | savers, pools |
| base plugin, common types | none of the run | | |

What makes each of the modelled components correct:

* **Step selection**: a step is positive, never passes the next date, is
  retried from the state it started from, and its retries end.
* **Newton loop**: what is accepted was corrected and checked after the last
  restart; the accumulation term compares with the start of the step.
* **Reports**: the dates are visited in order, each is reported once; those the
  period lets through, and no others, are written, each with a solution of its own
  interval.
* **Wells**: the rates an iteration assembles are those of the pressure and of
  the control the well ends the evaluation with; a working well meets its
  target or is at its pressure limit; a failed attempt leaves no trace; totals
  only grow, by open wells.
* **Schedule**: dates count from where the code's documents say they count; no
  line of an event is lost; the simulation does not stop before an event.
* **Main variables**: whatever a correction left, the equations are built for a
  variable the cell fits; evaluating a state again, as a retry does, changes nothing
  but the states the code itself leaves unsettled, and those once.
* **Linear solution**: a method reports the residual of the solution it returns; an
  iteration is judged by its own system; every call returns or throws.
* **Multigrid levels**: the vectors hold the levels in use and every level fits its
  neighbours, whatever the setups before were; no correction is left over from
  another cycle.
* **Interpolation and product**: the pass that fills an array finds what the pass that
  counted found; every row of the next matrix begins with its diagonal.
* **Coarsening**: every point is decided once, to be coarse or fine; the loop
  ends; the number returned is that of the coarse points; coarse points are
  independent, fine ones have coarse points to be interpolated from; the
  strength matrix, which the interpolation reads next, is intact.

The hazards listed in `PROJECT.json` name the lines where these can break.

## Modules

| Module | What it is |
|---|---|
| `StepControl` | `decrease_ts` and `increase_ts` as operators over ticks |
| `MainLoop` | the simulation loop, extends `StepControl` |
| `ReportSteps` | abstract: what the loop promises about dates |
| `WellCalls` | abstract: the order in which a well is called |
| `WellControl` | one well and its controller, on top of `WellCalls` |
| `EventSchedule` | the event manager and the keywords that fill it |
| `StrengthGraph` | strength relations and measures, which the coarsenings share |
| `CFSplitting` | abstract: what the interface of the coarsenings promises |
| `Pmis`, `Pmis2`, `Cljp`, `Ruge` | the four coarsenings, on top of `StrengthGraph` |
| `MeasureLists` | the linked lists of `link_list.h`, which `Ruge` keeps its points in |
| `Multigrid` | setup and V-cycles of `amg_solver`, by the vectors they read and write |
| `Interpolation` | the four builders of the prolongation matrix |
| `Galerkin` | one level in detail: `Interpolation`, then the transpose and the triple product |
| `MainVariables` | one cell of three phases through Newton iterations and retries |
| `LinearSolver` | `solve_jacobian` with gmres, bicgstab or tfqmr |
| `MCMainLoop`, `MCWellControl`, `MCEventSchedule`, `MCPmis`, `MCPmis2`, `MCCljp`, `MCRuge`, `MCGraphs`, `MCMultigrid`, `MCGalerkin` | values for TLC |
| `MainLoopProofs` (`StepControl`, `MainLoop`, `EventSchedule`), `WellControlProofs`, `NewtonProofs` (`MainVariables`, `LinearSolver`), `PmisProofs`, `Pmis2Proofs`, `CljpProofs`, `RugeProofs`, `MultigridProofs` (`Multigrid`, `Galerkin`) | theorems |

### StepControl and MainLoop

`StepControl` counts time in ticks.  The float parameters of `fi_params` that
multiply a length are fractions; the tolerances of the code (1e-12) lie below a
tick.  `increase_ts` returns the set of lengths the two selection algorithms can
produce, since the factor of the new one depends on floating-point changes of
the solution.

`MainLoop` follows the call structure of `go()`: `pc` says where the thread
stands.

| `pc` | code | leaves by |
|---|---|---|
| `ready` | `ready ()` | `Ready` |
| `report` | head of the loop of `go ()` | `BeginReport`, `End` |
| `events` | `rs_->pre_large_step` | `ApplyEvents`, `EventFails` |
| `step` | head of the loop of `process_small_steps` | `BeginSmallStep`, `TimeStepEnd` |
| `fi_operator` | head of the loop of `compute_small_time_step` | `Converged`, `NotConverged`, `Exhausted` |
| `solve` | `solve_jacobian`, correction | `Correct`, `SolverFailed`, `SetupFailed` |
| `failed` | `newton_iter_fail` | `NewtonIterFail` |
| `solved` | `newton_iter_success` | `NewtonIterSuccess` |

The solution is a *version* `<<t, n>>`, the result of `n` corrections made at
time `t`, and so are the copies of it: this is enough to tell whether a value
that is read belongs to the start of the step, to the failed attempt or to the
current one, which is what the properties ask.  `process_well_model` has no
outcome but false in this code (its checks are assertions compiled out), so a
step that converged is accepted.  `FI_OPERATOR_RETURN_RESTART` is returned by
nothing, so only the last index of the Newton loop fails that way.

An event that throws (`WELTARG` with a rate for an injector does) ends the run in the
middle of a date, which the model takes as `EventFails`.

`MainLoop` implements two contracts, both checked as `PROPERTY`:

* `ReportSteps` (`RefinesReportSteps`): the clock only advances, stops at every
  date, every date is reported once.
* `WellCalls` (`RefinesWellCalls`): wells are saved once per small step,
  restarted only after an evaluation, accumulated only after a correction.

### WellCalls and WellControl

`WellControl` extends `WellCalls`: each of its actions is a call of the contract
with its effect on a well.  What the loop is proved to do is thus exactly what
the well model assumes of it.  The well has one perforation in one cell, one
phase, and an inflow of slope one, so its rate is the drawdown.  The cell takes
arbitrary pressures of a set at each correction, and the correction of the well
itself, which comes from the linear solver, is arbitrary too.

`process` is written as the code composes it: `process_impl` calls
`process_internal`, which may compute a first pressure (`calc_well_pressure`),
looks whether the perforation flows, computes rates, and lets `check` switch
control in the middle, after which the rates are computed again.

`NaN` stands for the value of `(1 / ww_value) * bw_value` with both zero
(`default_well.cpp:189`), which a producer of type BHP under rate control gets.

### EventSchedule

The schedule is a set of dates and a sequence of events, each with its date and
the number of lines it was given.  The operations are those of `event_manager`:
`Date` and `Tstep` for the keywords, `AddNextLine` and `CreateEvent` for the two
branches of `process_event`, `EndEvent`, `FinalizeEvents`.  The current date is
uninitialized in the constructor, so it starts with any value of `Unset`.  The
variable `ordered`, chosen once at the start, says whether the deck names its
dates in ascending order, which the code does not ask of it.  The handler that would
call `process_event` for the keywords of wells is commented out in `keywords_handlers.cpp`; the model takes the calls its
text makes, with dates of the list only, since `create_event` has no defined
behaviour for others.  The definitions that `MainLoop` has too carry the prefix
`Schedule`, since `MainLoopProofs` extends both.

### StrengthGraph, CFSplitting and the coarsenings

`simple_smbuilder` marks, row by row, the columns a point strongly depends on.
Because the threshold is taken from the row, the marks need not be symmetric, so
the models take any irreflexive relation; the properties that need symmetry say
so.  A measure (a count plus `rand () / RAND_MAX`) is multiplied by `RandMax`, so
draws of zero, of one and ties between points are exact.

| Model | Code | One action is |
|---|---|---|
| `Pmis` | `pmis_coarse` | a search, a step of the climb, a choice of a coarse point with its marking |
| `Pmis2` | `pmis2_coarse` (the default of `amg_solver`) | the independent set of a pass, the visit of one point, the end of a pass |
| `Cljp` | `cljp_coarse` | the independent set of a pass, the update by one point, the look at one entry of the graph, the restoration of the marks |
| `Ruge` | `ruge_coarse` | the scan of a row, the choice of the head of the lists, the visit of one column |

In `Cljp` the graph is kept as the sequence it is, because a point that leaves is
replaced by the last one and looked at next.  In `Ruge` the points are in the lists of
`MeasureLists`, with the links of their points as the code writes them, those that
removed points keep included; of the chain of lists, which only these two functions
touch, the model keeps the order.  The head of the first list is thus the coarse point
the code chooses; what is left open is the order of the columns of a row.  In `Pmis2` the points of a
pass are visited in any order.  The numbers of fine points, read by nobody, are
left out.

`Pmis`, `Pmis2` and `Ruge` implement `CFSplitting` (`RefinesSplitting`, with its
liveness): points are decided once, all are decided in the end, coarse ones are
counted.  `Cljp` does not, since it decides a point to be fine by dropping it from
the graph and can change its mind; its guarantees are stated on the end of `build`.

The number `Cljp` returns is right only when no draw is at an end of its range
(`InnerDraws`).  A draw of zero shows that on four points.  A draw of `RAND_MAX` does it
on five, where TLC no longer takes every relation: a point that nobody depends on any
more, with a measure of exactly one, leaves nothing and pushes nobody, so that the
next marker is not given to any point still in the graph, and a point that left the
graph with it is taken for a coarse one, is made coarse and is not counted.  The
attempt to prove the count for all draws above zero ended at this case.

### Multigrid, Interpolation and Galerkin

The setup of `amg_solver` is modelled twice, at two distances.

`Multigrid` takes the hierarchy as a whole: a matrix is its numbers of rows and
columns and the setup it was completely built in, a work vector is its size and the
cycle whose values it holds.  One object serves any number of setups, each with a
matrix and a depth of its own, so that the vectors of levels are those of the deepest
setup so far.  `BuildLevel` is one turn of the loop of `setup`; `CoarseFails` and
`LastLevel` end it; `SkipLevel` is the turn in which the builder returned -1, which
the code does not look at.  `StartCycle`, `Down`, `SolveLast`, `Up` and `EndCycle`
are the V-cycle of `solve`.  What happens outside the arrays is `pc = "undefined"`.

`Galerkin` takes one turn in detail, over `Interpolation`: one action is one row of
one pass, and the arrays of the code are functions from 0.  Of the entries of the
matrix the builders look at the strong ones, at the other negative ones (`weak`) and
at the sign of the diagonal; the weights are left out.  `Shares` keeps one comparison
the code gets wrong in one place: `standart` clears markers to 0, which is a position.
`EnterAll` is what the passes of the builders and of the product share: a column gets
the next position unless its mark shows that the row has it already.

### MainVariables

One cell with water, oil and gas.  Saturations are whole parts of `One`; the 1e-7 and
EPS_DIFF of the code lie below a part, and the 1e-4 of a switch is `SwitchStep` parts.
The ratio is counted in units of EPS_DIFF, the 1e-4 of a switch being `RatioStep` of
them.  The pressure stands for the ratio it saturates oil at, which is one of `Ratios`:
it is 0 at the lowest pressure where the tables set it (`pvt_dead_oil.cpp:231`), at a
table that begins with no dissolved gas, and negative where `other_case` continues the
table below its first pressure.  `FiOperator` is the switch and the
evaluation, `RestoreSolution` the correction of `calc_model` with its cuts, `Converged`
an accepted step or another evaluation, `RestoreBaseVars` a retry.  What the linear
solver returns is arbitrary within `MaxChange`.

Where free gas vanishes the oil gets the saturated ratio less 1e-4, but at least
EPS_DIFF (`VanishedRatio`, `switch_main_vars.h:136`).  At a pressure that saturates oil
at less than EPS_DIFF this is more than the oil can hold: the equations are then built
for undersaturated oil above saturation, and the next evaluation of the same state, in
a retry or the next step, takes free gas out of it again.  Oil that negative gas more
than used up is the other state an evaluation leaves unsettled; it becomes water.
`VariableFitsCell` and `SwitchSettles` name the two (`HoldsTooMuch`, `OilUsedUp`) and
say that there are no more, and that a second evaluation settles them; each of the
exceptions is needed, since TLC refutes the property without it.

### LinearSolver

`LinearSolver` opens what `MainLoop` leaves to chance: its `Correct` is a call whose
`valid` is true, `SolverFailed` one whose `valid` is false, `SetupFailed` an exception.
A residual is its norm, by how many updates the solution it is of is ahead of the one
in the vector that is returned, and whether the matrix or a recurrence gave it.  The
norms are whole parts, with `NaN` for a norm that is not a number, and otherwise
arbitrary, except that the rotations of gmres do not enlarge its estimate.  The names
`restart`, `column`, `update` of `stage` are the two loops of gmres, `iterate` and
`correct` those of the others.

## Runs

| Run | Asks | Outcome |
|---|---|---|
| `loop_safety` | step inside the interval, attempts from the base, volumes of the base, which dates are written and with what, both contracts, end unless `do_dt_reduce` goes on for ever | holds |
| `loop_livelock` | the retries of a step end, with `do_dt_reduce` | violated |
| `well_safety` | rates of the final pressure, targets met, retries forget, totals | holds |
| `schedule_safety` | no event lost, steps count from the last date | holds |
| `mainvars_safety` | the variable fits the cell, switching settles at the second look, oil that appears is saturated, sums of saturations | holds |
| `solver_safety` | reports of the solution returned, verdicts of the right system, end | holds |
| `multigrid_safety` | levels allocated, levels that fit, new corrections, both calls return | holds |
| `galerkin_safety` | rows as counted, shares inside their row, the product as counted | holds |
| `pmis_safety` | the search finds, independent and covering, `CFSplitting` | holds |
| `pmis2_safety` | fine points depend on coarse ones, independent up to ties, `CFSplitting` | holds |
| `cljp_safety` | measures count open edges, fine points share a coarse one and are covered, marks and number intact, end | holds |
| `ruge_safety` | links of the lists, measures, independent and covering, `CFSplitting` | holds |

The violated property is a statement of a comment; `findings` in `PROJECT.json`
quotes it with what the run shows.  The type invariants are theorems where the module
has proofs, and otherwise `LevelsAllocated` and `RowsAsCounted` include theirs.

**Bounds.** `loop_safety` has three intervals of 9, 5 and 2 ticks with MIN_TS 2
and MAX_TS 6: an odd one that is halved, one that is stretched to its end and
one of a single minimal step, so every branch of the length selection is taken.
Three Newton iterations give a first, a middle and a last one; `do_dt_reduce` may
shorten every attempt.  The intervals have 2, 1 and 1 events,
any of which may throw, and SAVE_STEP_DATA_PERIOD is 3: report 2 is written since its
number is that of the events, report 3 by the period, and report 4, the last, is not
written, so that both counters and both answers of the test occur.  The counter
`restarts`, which only reports read, stops at `RestartsBound`.  `loop_livelock`
has intervals of 6 and 2 ticks with MIN_TS 4: one and a half minimal steps, and
half of one.
`well_safety` takes two cell pressures, two limits of each kind and four
pressures the solver may bring the well to (below every limit, between, at one,
above the cells): every order of cell, well and limit that `check` and the inflow
distinguish occurs.  `rate_total_` is counted up to `TotalBound`.
The schedule has three dates a deck may name, TSTEP lists of one and of two
lengths that land on and between them, events of one and of several lines, and
two lines, so that a date can be named again, be reached by a TSTEP, and have an
event or none when the schedule is closed (`LinesBound`, `LastDate`).
The coarsenings run on four points (`Pmis2` on three, since all visiting orders
are tried): enough for a path whose ends share no neighbour, a star, a cycle and
two components.  `Ruge`, `Cljp` and `Pmis2` take every strength relation; `Pmis`
every symmetric one and every other one with up to `FewMarks` marks.  Draws are all
functions to `0 .. RandMax` (`AllDraws`), so ties and both ends occur; `cljp_safety`
takes those that are all at the ends or all inside (`InnerOrEndDraws`).
`multigrid_safety` has matrices of up to four rows (up to three levels below the
first, since the last has one point), three setups, so that a shallow one can follow
a deep one and a deep one again, and solves as a preconditioner (one cycle, no
residual) and as a solver of two.  `galerkin_safety` has four points, every symmetric
relation and every other one with up to `FewMarks` marks, every proper choice of
coarse points and at most one diagonal that is not positive.
`mainvars_safety` counts three parts to a saturation, a switch of one, saturated ratios
from one below 0 to three with a vanishing of one, and changes up to two: enough to
make each saturation negative, whole, or cut, and to have pressures at which the ratio of
vanished gas is clamped to EPS_DIFF above, at and below what the oil can hold.
`solver_safety` has three iterations and two columns per restart, so that gmres can
leave by each of its exits and restart once, norms on both sides of both tolerances
(1/2 and 1/3 of the right hand side) and two calls, so that one can read what the
other left.

**Deadlock** is checked in `mainvars_safety`, where some iteration always follows.
Elsewhere the system may stop: the loop at its last date or with an exception, a well
when its totals reach their bound, a deck at its end, `build` when it returns, a
solver or a multigrid object after the calls the bounds allow.

**Fairness.** `FairSpec` is weak fairness of `Next`: one thread that never waits
and whose calls return.  It says nothing about which outcome a Newton iteration
has; `Terminates` holds because failures shorten the step until the loop gives
up, not because iterations converge, and only of runs in which `do_dt_reduce` stops
shortening: the other runs are the subject of `RetriesEnd`.  `Multigrid` and
`LinearSolver` assume weak fairness of the steps inside a call only, since nobody is
obliged to call them; `CallsReturn` and `Returns` are then about the loops of the call,
which end because levels shrink and iterations are counted.  `build` of a coarsening
is a loop of one thread, so weak fairness of `Next` is what it means that the call goes on.

## Theorems

For every value of the constants the assumptions admit:

* `MainLoopProofs`, steps and loop: `decrease_ts` and `increase_ts` return a positive
  length within the time left; type correctness, `StepInsideInterval`,
  `AttemptFromBase`, `VolumeOfBase`, `SavedAtReport`, and the refinements of
  `ReportSteps` and of `WellCalls` (so that what `WellControl` assumes of its caller is
  a theorem).  None of them is inductive alone.  The invariant `IInv` adds: where the
  clocks stand at each `pc` relative to the dates, that outside an attempt the cell
  properties are those of the current solution, that `prev_fluid_volume` is of the
  base as soon as the flag asks for no more computation, and that the number of
  corrections in the version is that of the loop.  `VolumeOfBase` needs the
  clause on the cell properties: a step is accepted only right after an
  evaluation, so `data_` is of the accepted solution when the next step reads it.
  `SavedAtReport`, for any period and numbers of events, needs that the solution was
  accepted in the interval before the date once a step of it was (`AcceptedInv`), and that
  `nlarge` keeps pace with the iterator over the dates.
* `MainLoopProofs`, schedule: `NoEventLost` and `StepsFromLastDate`, for decks of any
  length and TSTEP lists of any number, and `LoopMeetsEveryEvent`, which joins the two
  modules: for the dates `FinalizeEvents` leaves, in order, every event is of a date at
  which an interval of `MainLoop` begins.  `EventInv` adds that the list has a latest
  date and that the current date is in it, and is the latest while the deck is read in
  order.  Both properties speak of a recursion over a list; `RecursionExists` shows
  once, by the least number it would fail for, that such a function exists, and
  `SumStep` and `TstepsOneByOne` give its equations.  The dates are integers, not
  naturals: before the first date a TSTEP counts from whatever `current_date_` was.
* `WellControlProofs`: type correctness, `FlowIsConsistent`, `TargetMet`,
  `RetryForgets`, `TotalsOfOpenWells`.  The lemmas follow the calls: inflow,
  rates after `check`, the approximation, one pass, a whole evaluation; `IInv`
  then says that outside an evaluation nothing is claimed, and after one the
  well is as the lemma `Evaluation` left it.
* `PmisProofs`: type correctness, `SearchFinds`, `CoarseInOrder`,
  `IndependentAndCovering`, and that every step of `Pmis` is a step of
  `CFSplitting` (its liveness excepted), for every number of points, relation and
  draw.  `IInv` adds what is known of undecided points: nothing a coarse point
  depends on is undecided, no undecided point that depends on a coarse one has a
  larger measure (the climb ended there because of that), and the counters are
  the number of decided points, from which the search must find one.  The
  independence of coarse points follows from their order alone: two neighbours
  would each come before the other.
* `Pmis2Proofs`: type correctness, `FineDependsOnCoarse`, `IndependentUpToTies` and
  the safety of `CFSplitting`, in every order of the visits of a pass.  `IInv` adds how
  the markers of a pass stand to the measures: two neighbours with the marker of the
  current pass tie, what was pushed has a coarse point it depends on, and what is still
  to be visited is undecided.
* `CljpProofs`: `MeasureCountsOpenEdges`, `FineInterpolates` and `ResultIntact`.  The
  measure is a count of edges that are closed from either end, so the lemmas on
  cardinalities say what each closing takes from which count.  `IInv` adds the markers
  the points in the graph can have at each place of a pass, why an edge was closed (an
  end is coarse, or both ends share a coarse point), that the row of a point that left
  the graph has no open edge, nor that of a point updated in this pass where a coarse
  point closes it (with a symmetric relation), and, for draws inside their range, that
  nobody who left has the marker of the current pass.
* `RugeProofs`: `ListsMatch`, `IndependentAndCovering` and the safety of `CFSplitting`,
  for every order of the columns of a row.  Most of it is about `MeasureLists`: what
  `remove_point` and `enter_on_lists` do to a chain of doubly linked lists, by the five
  cases of the code.  A list is described by the order in which its links visit its
  points (`Ordered`), and the lemmas say how that order loses its first, last or an
  inner point and gains a last one, while the links of all other lists stay
  (`Kept`).  `IInv` adds to `ListsMatch` that during the scan of the rows nobody is
  coarse and nobody depends on a fine point, and that with a symmetric relation the
  points that depend on a coarse one are fine, except those the loop over the
  dependents of the last coarse point has yet to visit.
* `NewtonProofs`, main variables: type correctness and the four properties of
  `MainVariables`, for every bound on the ratios and the corrections.  `IInv` adds that a
  cell of masses is water alone also between evaluations and in the saved state, which
  is what a retry needs.  `SwitchFits` says what the switch makes of any cell,
  `FittingSettles` that a cell that fits its variable (`Fits`) settles at the second
  evaluation at the latest; `SwitchSettles` is the two together.
* `NewtonProofs`, linear solver: type correctness, `ReportDescribesSolution` and
  `VerdictOfThisSolve`, for every limit of iterations and every tolerance.
  `SolverInv` says at each place of gmres and of bicgstab by how much the residual is
  ahead of the solution, and that what is stored when `solve_jacobian` looks is of this
  call unless the method returned at once.
* `MultigridProofs`: `LevelsAllocated` (with type correctness), `LevelsFit` and
  `CorrectionsAreNew`, for every size of matrix, every sequence of setups and solves,
  and whatever coarsers and builders return.  `IInv` adds how far the vectors have
  grown when `setup` stands at a level, which of the levels built so far fit, that the
  matrix after a prolongation that was never built has no rows (which bounds the levels
  after a failed builder), and which cycle the vectors of a V-cycle hold.
* `MultigridProofs`, one level: `RowsAsCounted` (with type correctness),
  `SharesStayInRow` and `ProductAsCounted` of `Galerkin`, for every size of matrix,
  strength relation without loops, choice of coarse points and builder.  The chain of
  lemmas goes from sets put in order and sequences put one after the other to what
  entering a row leaves in the arrays (`EntersRow`): each column gets one position of
  its own from the start of the row on.  `LevelInv` says, of the builder, that the rows
  before the current one are filled with the numbers of their interpolating points or,
  under a diagonal that is not positive, left blank, and that no mark reaches into the
  current row but the zeros of `standart`; of the product, that its marks lie before
  its counter and its rows begin where they were counted to.  Neither pass is inductive
  without the marks.  That the counted and the filled rows agree rests on the diagonal
  being in every row of the product (`DiagonalMet`), since a coarse point has itself as
  its only column.

Only model-checked: liveness (`Terminates`, `CallsReturn`, `Returns`, the liveness in
`RefinesSplitting`, the violated `RetriesEnd`), which the prover can not reach.  What a
recursive function computes can be proved where its step is a function: the numbers a
claim holds for are made a set, whose complement has no least member
(`InductionUpTo`).  The theorem modules restate what they need of this, since they
extend different specifications.

## Where comments and code part

The models do what the code does in the following places too, where a comment or
an assertion beside it says otherwise.  No run is spent on them, since reading
the two lines together settles each.

| Code | A comment, assertion or message says | What it does |
|---|---|---|
| `decrease_ts`, `main_loop_calc.h:812` | `:803`: decreases the step | below MIN_TS a retry may be longer than the failed attempt |
| `do_dt_reduce`, `fi_operator.h:1081` | `fi_params.h:31`: MIN_TS is the minimum | shortens a step below it |
| `get_dt`, `main_loop_calc.h:245` | `fi_params.h:32`: FIRST_TS is the length of the first step | the first step is grown by `increase_ts` before it is taken |
| `restore_control`, `well_controller.cpp:241` | `well_controller.h:388`: returns whether it restored | restores always, and returns that all three parts of the state differ (`:455`) |
| `get_input_rate`, `calc_well.cpp:385` | asserts that it is not reached | reached by a producer of type BHP that `well_controller.cpp:300` allows under rate control |
| early return, `default_well.cpp:460` | prints that the well does not work | the rates it had before `check` stay, and enter the totals |
| marking, `pmis_coarse.cpp:119` | `:116`: marks the points dependent on the coarse one | marks the points it depends on |
| `build_independent_set`, `coarse_tools.cpp:111` | `coarse_tools.h:53`: an independent set | only for a symmetric strength, and up to ties |
| end of `build`, `cljp_coarse.cpp:209` | `:206`: the previous values of the marks | only for a symmetric strength |
| `set_current_date`, `event_manager.cpp:88` | `event_manager_iface.hpp:47`: sets the current date | a date that is in the list already is not made current |
| `finalize_events`, `event_manager.cpp:104` | `reservoir_simulator.cpp:89`: an empty list gets two events | throws |
| `time_step_end`, `main_loop_calc.h:1164` | `:1170`: passes the number of all time steps | passes the number of events of one date, so that with SAVE_STEP_DATA_PERIOD above 1 the last report may not be written (`data_saver_hdf5.h:192`), as in `loop_safety` |
| `restart_small_step`, `calc_well.cpp:462` | `calc_well.h:599`: restores the state of the well | restores state and control, but not `bhp_` and the rates |
| update by one point, `cljp_coarse.cpp:136` | `amg_coarse_iface.h:49`: returns the number of coarse points | with a draw of zero or of RAND_MAX a point made fine becomes coarse uncounted |
| `direct_pbuild.cpp:146` | `amg_pbuild_iface.h:53`: returns a prolongation matrix | a row whose diagonal vanishes keeps the columns -1 it was allocated with |
| `setup`, `amg_solver.cpp:399` | the builders return an error | it is not looked at, and `setup` returns 0 |
| end of `solve`, `amg_solver.cpp:254` | `:95`: `success` is true if the solver converged | it is set always; `final_residual` is absolute, the tolerance relative |
| norms, `fi_operator.h:1019` | the norms of the sums of saturations are computed | their check is commented out (`:1021`) |
| `switch_main_vars.h:155` and `:167` | saturations are fractions | oil may become negative by the gas it takes or gives |
| clamp of vanished gas, `switch_main_vars.h:136` | the test of `:127`: `FI_RO_VAR` is undersaturated oil | the ratio EPS_DIFF is above saturation at a pressure that saturates oil at less |
| masses, `calc_model.cpp:987` | `calc_approx_so_sg_ro` returns the ratio | it is added to the ratio the cell had |
| early return, `bicgstab_solver.cpp:139`, `cgs_solver.cpp:179`, `tfqmr_solver.cpp:185` | `main_loop_calc.h:546`: true if the tolerance is met | no results are stored, so an earlier system decides |
| end of `solve`, `bicgstab_solver.cpp:314`, `cgs_solver.cpp:312`, `tfqmr_solver.cpp:319` | `success`: converged | set whatever ended the loop |
| norm, `bicgstab_solver.cpp:137` | `:149`: norm of r over norm of b against eps | compares the square of the norm of r with eps squared times the norm of b, and reports that square over the norm of b |
| iterations, `gmres_solver.cpp:370` | `lsolver_iface.h:128`: at most the allowed number | one more, when they are used up |
| `jacobian.cpp:117` | GMRES_ORTONORM_VLEN is the length of a restart | sets a property gmres does not read (it reads `m`) |
| `gmres_solver.cpp:275` | `m` is any number | with 1 the index is -1 |
| `tfqmr_solver.cpp:273` | the comment beside it: `eta`, `nu` of the step before | in the first step they have no value, times a vector of zeros |
| `cgs_solver.cpp:119` | the pointers are used as arrays of `n` numbers | takes the addresses of vectors it resizes after that |

The files are those of `bs_bos_core`, of `bs_lsolvers`, of `bs_pvt`
(`switch_main_vars.h`), of `bs_bos_core_data_storage` (`event_manager_iface.hpp`) and
of `bs_swift` (coarsenings and multigrid).

## Not modelled, and the plan

Left out, since what they do is floating point: the properties of fluids and rocks,
the residuals and the jacobian, equilibrium, transmissibilities and the geometry of the
mesh (`bs_mesh`, the largest part of the source), the weights of the interpolation,
smoothers and factorisations.  Left out as input and output: HDF5, SQLite (`sql_well`),
the readers of text, reports, Python wrappers.  Left out because the code has no
defined behaviour to model: `cgs_solver`, whose first call works on vectors it has not
sized.  The registration of keywords and the include stack of the deck reader have
control worth modelling, but each is a table filled once or a stack of files, read in
the order of the deck; they were left behind what the steps of a run depend on.

What would extend the models:

1. Several wells: the composition of `WellControl` instances with the sums of
   `reservoir`, and several perforations.
2. The two-stage preconditioner, as a caller of `Multigrid` between two solvers.
