---------------------------- MODULE LinearSolver ----------------------------
(***************************************************************************)
(* The linear systems of the Newton iterations: solve_jacobian of the       *)
(* simulation loop sets up and calls an iterative solver and judges the     *)
(* iteration by two properties the solver keeps between its calls, the      *)
(* final residual and the number of iterations.  Three methods are          *)
(* modelled: gmres with restarts, bicgstab and tfqmr.                       *)
(*                                                                          *)
(* Of the vectors only the norms of residuals are kept, as whole parts,     *)
(* Unit being 1, and whose residual a norm is: by how many updates that     *)
(* solution is ahead of the one in the vector that is returned.  The value  *)
(* of a norm is arbitrary, NaN included, where the code does not bound it.  *)
(***************************************************************************)
EXTENDS Integers

CONSTANTS
  Methods,     \* the methods the jacobian may be given
  MaxIters,    \* property maxiters, LIN_ITERS_NUM
  VLen,        \* m of gmres: one more than the columns of a restart
  Unit,        \* parts of a norm of 1
  MaxNorm,     \* bound on norms, in parts
  Tol,         \* tolerance, LIN_SOLV_RESIDUAL, is 1 / Tol
  Allowed,     \* MAX_ALLOWED_LIN_SOLV_RESID is 1 / Allowed
  MaxSolves,   \* bound on calls of solve_jacobian
  NaN          \* a norm that is not a number

GMRES    == "gmres"
BICGSTAB == "bicgstab"
TFQMR    == "tfqmr"

ASSUME LinearSolverAssumption ==
  /\ Methods \subseteq {GMRES, BICGSTAB, TFQMR}
  /\ MaxIters \in Nat \ {0}
  /\ VLen \in Nat \ {0, 1}
  /\ {Unit, MaxNorm, Tol, Allowed, MaxSolves} \subseteq Nat \ {0}
  /\ NaN \notin Nat

VARIABLES
  stage,        \* where solve_jacobian or solve stands
  method,    \* the solver the jacobian was given
  rhs,       \* the norm of the right hand side
  iter,      \* iter of solve
  col,       \* i of gmres: the column of the restart
  residual,  \* r_norm: its value, the solution it is of, how it was found
  prop,      \* the properties success, iters, final_residual
  solved,    \* calls of solve
  valid,     \* valid_tolerance of the last call of solve_jacobian
  nliters    \* iterations of the calls that were valid

solver_vars == <<stage, method, rhs, iter, col, residual, prop, solved, valid, nliters>>

Norms == (0 .. MaxNorm) \cup {NaN}
Measured(x) == [norm |-> x, ahead |-> 0, by |-> "matrix"]
Recurred(x, n) == [norm |-> x, ahead |-> n, by |-> "recurrence"]
AfterUpdate(r) == [r EXCEPT !.ahead = @ - 1]

(* The norm x of a residual meets the tolerance of solver m for a right     *)
(* hand side of norm b: the methods that keep squares compare them with     *)
(* tol * tol * |b|.                                                         *)
Meets(m, b, x) ==
  x # NaN /\ IF m = GMRES THEN x * Tol <= b ELSE x * x * Tol * Tol <= b * Unit

(* What is stored as final_residual, a fraction or NaN.                     *)
Fraction(m, b, x) ==
  IF x = NaN THEN NaN
  ELSE IF m = GMRES THEN <<x, IF b = 0 THEN Unit ELSE b>> ELSE <<x * x, b * Unit>>

(* "Initial guess quite good": the square of |b| against tol * tol.         *)
Small(b) == b * Tol <= Unit

AtMost(f, inverse) == f # NaN /\ f[1] * inverse <= f[2]

Within    == Meets(method, rhs, residual.norm)
Final     == Fraction(method, rhs, residual.norm)
GoodGuess == method # GMRES /\ Small(rhs)

SolverInit ==
  /\ stage = "idle"
  /\ method \in Methods
  /\ rhs = 0
  /\ iter = 0
  /\ col = 0
  /\ residual = Measured(0)
  /\ prop = [success |-> FALSE, iters |-> 0, final |-> <<1, 1>>]
  /\ solved = 0
  /\ valid = FALSE
  /\ nliters = 0
-----------------------------------------------------------------------------
(* The solver or its preconditioner can not be set up: an exception.        *)
SetupFails ==
  /\ stage = "idle"
  /\ solved < MaxSolves
  /\ stage' = "thrown"
  /\ UNCHANGED <<method, rhs, iter, col, residual, prop, solved, valid, nliters>>

(* solve begins with the solution 0, whose residual is the right hand side. *)
BeginSolve ==
  /\ stage = "idle"
  /\ solved < MaxSolves
  /\ stage' = "begin"
  /\ rhs' \in 0 .. MaxNorm
  /\ iter' = 0
  /\ col' = 0
  /\ residual' = Measured(rhs')
  /\ prop' = [prop EXCEPT !.success = FALSE]
  /\ solved' = solved + 1
  /\ UNCHANGED <<method, valid, nliters>>

(* gmres goes to its loop; the others return at once from a good guess.     *)
FirstResidual ==
  /\ stage = "begin"
  /\ stage' = IF method = GMRES THEN "restart" ELSE IF GoodGuess THEN "judge" ELSE "iterate"
  /\ UNCHANGED <<method, rhs, iter, col, residual, prop, solved, valid, nliters>>

(* A preconditioner that returns an error ends every method by an           *)
(* exception; tfqmr calls it before it looks at its first residual.         *)
PreconditionerFails ==
  /\ \/ stage \in {"column", "update", "iterate", "correct"}
     \/ stage = "begin" /\ method = TFQMR
  /\ stage = "iterate" /\ method = BICGSTAB => iter < MaxIters
  /\ stage' = "thrown"
  /\ UNCHANGED <<method, rhs, iter, col, residual, prop, solved, valid, nliters>>

(* A method that divides by zero stores what it has and throws.             *)
Breakdown ==
  /\ \/ method = BICGSTAB /\ stage = "correct"
     \/ method = BICGSTAB /\ stage = "iterate" /\ iter < MaxIters
     \/ method = TFQMR /\ stage = "iterate" /\ iter \in 1 .. MaxIters - 1
  /\ prop' = [prop EXCEPT !.final = Final]
  /\ stage' = "thrown"
  /\ UNCHANGED <<method, rhs, iter, col, residual, solved, valid, nliters>>

(* Every method leaves its loop when the iterations are used up.            *)
Exhausted ==
  /\ stage \in {"restart", "iterate"}
  /\ iter >= MaxIters
  /\ stage' = "report"
  /\ UNCHANGED <<method, rhs, iter, col, residual, prop, solved, valid, nliters>>
-----------------------------------------------------------------------------
(* gmres: the head of the outer loop.                                       *)
Restart ==
  /\ stage = "restart"
  /\ iter < MaxIters
  /\ IF Within THEN stage' = "report" /\ UNCHANGED col
               ELSE stage' = "column" /\ col' = 1
  /\ UNCHANGED <<method, rhs, iter, residual, prop, solved, valid, nliters>>

(* The rotations of gmres never enlarge the estimate of the residual.       *)
Estimates(x) == IF x = NaN THEN {NaN} ELSE (0 .. x) \cup {NaN}

(* One more vector of the Krylov space.  The estimate is of the solution    *)
(* the columns would give.                                                  *)
Column ==
  /\ stage = "column"
  /\ col < VLen
  /\ iter < MaxIters
  /\ \E x \in Estimates(residual.norm) :
       /\ residual' = Recurred(x, 1)
       /\ IF Meets(method, rhs, x)
          THEN stage' = "update" /\ UNCHANGED <<iter, col>>
          ELSE stage' = "column" /\ iter' = iter + 1 /\ col' = col + 1
  /\ UNCHANGED <<method, rhs, prop, solved, valid, nliters>>

(* No column converged: the last one is col - 1.                            *)
LastColumn ==
  /\ stage = "column"
  /\ col = VLen \/ iter = MaxIters
  /\ stage' = "update"
  /\ col' = col - 1
  /\ UNCHANGED <<method, rhs, iter, residual, prop, solved, valid, nliters>>

SameIter(i) == i

(* An iteration whose estimate proved wrong is counted.                     *)
NextIter(i) == i + 1

UpdateUnmeasured ==
  /\ stage = "update"
  /\ stage' = IF Within THEN "report" ELSE "restart"
  /\ residual' = AfterUpdate(residual)
  /\ UNCHANGED <<method, rhs, iter, col, prop, solved, valid, nliters>>

(* The solution is updated by the columns.  Only an estimate within the     *)
(* tolerance is looked at again, with the matrix; the rounding of the       *)
(* columns can make any difference between the two.                         *)
Update ==
  /\ stage = "update"
  /\ IF Within
     THEN \E x \in Norms :
            /\ residual' = Measured(x)
            /\ IF Meets(method, rhs, x)
               THEN stage' = "report" /\ UNCHANGED <<iter, col>>
               ELSE stage' = "restart" /\ iter' = NextIter(iter) /\ col' = 0
     ELSE stage' = "restart" /\ residual' = AfterUpdate(residual) /\ UNCHANGED <<iter, col>>
  /\ UNCHANGED <<method, rhs, prop, solved, valid, nliters>>
-----------------------------------------------------------------------------
(* bicgstab: the first half of an iteration.  The residual is measured when *)
(* that of the recurrence is small, and the iteration goes on if it is not. *)
HalfStep ==
  /\ method = BICGSTAB
  /\ stage = "iterate"
  /\ iter < MaxIters
  /\ \/ stage' = "correct" /\ residual' = AfterUpdate(residual)
     \/ \E x \in Norms : /\ residual' = Measured(x)
                         /\ stage' = IF Meets(method, rhs, x) THEN "report" ELSE "correct"
  /\ UNCHANGED <<method, rhs, iter, col, prop, solved, valid, nliters>>

(* The second half ends with the norm of the recurrence.                    *)
Correct ==
  /\ method = BICGSTAB
  /\ stage = "correct"
  /\ \E x \in Norms :
       /\ residual' = Recurred(x, 0)
       /\ IF Meets(method, rhs, x)
          THEN stage' = "report" /\ UNCHANGED iter
          ELSE stage' = "iterate" /\ iter' = iter + 1
  /\ UNCHANGED <<method, rhs, col, prop, solved, valid, nliters>>

(* tfqmr takes the norm of a solution it never forms, and then makes two    *)
(* updates, or one when the norm is small.  Nothing is tested before a      *)
(* division, so that the norm may stop being a number.                      *)
QuasiMinimalStep ==
  /\ method = TFQMR
  /\ stage = "iterate"
  /\ iter < MaxIters
  /\ \E x \in (IF residual.norm = NaN THEN {NaN} ELSE Norms) :
       /\ residual' = Recurred(x, 1)
       /\ IF Meets(method, rhs, x)
          THEN stage' = "report" /\ UNCHANGED iter
          ELSE stage' = "iterate" /\ iter' = iter + 1
  /\ UNCHANGED <<method, rhs, col, prop, solved, valid, nliters>>
-----------------------------------------------------------------------------
Results == [success |-> method = GMRES => iter < MaxIters,
            iters   |-> iter + 1,
            final   |-> Final]

ReportIfIterated ==
  /\ stage = "report"
  /\ prop' = IF iter = 0 THEN prop ELSE Results
  /\ stage' = "judge"
  /\ UNCHANGED <<method, rhs, iter, col, residual, solved, valid, nliters>>

(* What solve stores when it leaves its loop.                               *)
Report ==
  /\ stage = "report"
  /\ prop' = Results
  /\ stage' = "judge"
  /\ UNCHANGED <<method, rhs, iter, col, residual, solved, valid, nliters>>

(* The tests of solve_jacobian: the tolerance asked of the solver, and the  *)
(* residual that is allowed.                                                *)
Acceptable(f) == (f = NaN \/ AtMost(f, Tol)) /\ AtMost(f, Allowed)

Judge ==
  /\ stage = "judge"
  /\ valid' = Acceptable(prop.final)
  /\ nliters' = IF valid' THEN nliters + prop.iters ELSE nliters
  /\ stage' = "idle"
  /\ UNCHANGED <<method, rhs, iter, col, residual, prop, solved>>

SolveStep ==
  \/ FirstResidual \/ PreconditionerFails \/ Breakdown \/ Exhausted
  \/ Restart \/ Column \/ LastColumn \/ Update
  \/ HalfStep \/ Correct \/ QuasiMinimalStep
  \/ Report \/ Judge

SolverNext == SetupFails \/ BeginSolve \/ SolveStep

SolverSpec == SolverInit /\ [][SolverNext]_solver_vars

(* solve_jacobian is one sequential call.                                   *)
FairSolverSpec == SolverSpec /\ WF_solver_vars(SolveStep)
-----------------------------------------------------------------------------
(* The norm gmres and bicgstab report is that of the solution they return,  *)
(* not of an earlier or of a planned one, and gmres reports success only of *)
(* a residual it measured with the matrix: an estimate, which restarts make *)
(* unreliable, is never enough.                                             *)
ReportDescribesSolution ==
  stage = "judge" =>
    /\ method \in {GMRES, BICGSTAB} => residual.ahead = 0
    /\ method = GMRES =>
         /\ prop.final = Final
         /\ prop.success = Within
         /\ prop.success => residual.by = "matrix"

(* An iteration of Newton is judged by the solution it is about to apply.   *)
(* The exception is a right hand side the other methods find good as it is: *)
(* they return the solution 0 and leave the results of an earlier system,   *)
(* by which it is judged.                                                   *)
VerdictOfThisSolve ==
  stage = "idle" /\ solved > 0 =>
    \/ valid = (AtMost(Final, Tol) /\ AtMost(Final, Allowed))
    \/ GoodGuess /\ iter = 0

(* Every call returns or throws: no method can restart for ever, not even   *)
(* when its estimates say each time that it converged and are wrong.        *)
Returns == stage # "idle" ~> stage \in {"idle", "thrown"}
=============================================================================
