----------------------------- MODULE Multigrid -----------------------------
(***************************************************************************)
(* amg_solver (bs_swift): setup builds a hierarchy of coarser matrices and  *)
(* solve runs V-cycles over it.  One object serves every Newton iteration:  *)
(* the vectors of matrices, markers and work vectors live from one setup to *)
(* the next, are only ever appended to, and are reused level by level.      *)
(*                                                                         *)
(* A matrix is its numbers of rows and columns and the number of the setup  *)
(* it was completely built in, zero when it never was.  The coarsening of a *)
(* level is the number the coarser returns; it may miscount (as CLJP does:  *)
(* Cljp, ResultIntact), and then the interpolation builder returns -1.      *)
(***************************************************************************)
EXTENDS Integers, FiniteSets

CONSTANTS
  MaxRows,     \* rows of the largest matrix passed to setup
  LastPoints,  \* n_last_level_points
  MaxIters,    \* the values of max_iters considered
  MaySkip,     \* whether a coarser may return a number it did not mark
  MaxSetups    \* bound on the calls of setup

ASSUME MultigridAssumption ==
  /\ MaxRows \in Nat \ {0}
  /\ LastPoints \in Nat \ {0}
  /\ MaxIters \subseteq Nat
  /\ MaySkip \in BOOLEAN
  /\ MaxSetups \in Nat

VARIABLES
  pc,          \* where the object stands
  setups,      \* calls of setup so far
  level,       \* the level a loop is at
  a,           \* matrices, by level
  p,           \* prolongation matrices, by level
  r_matrix,    \* the transposed prolongation matrix of the last level built
  marks,       \* sizes of the s and cf markers, by level
  sol, rhs,    \* work vectors, by level
  lu_fact,     \* the dense matrix of the last level
  n_levels, n_levels_max,
  missed,      \* a builder of this setup returned -1, which nobody looked at
  max_iter, iter, below   \* the loop of solve; below: resid <= tol

levels == <<a, p, r_matrix, marks, lu_fact, n_levels, n_levels_max, missed>>
vectors == <<sol, rhs>>
loop == <<max_iter, iter, below>>
vars == <<pc, setups, level, levels, vectors, loop>>

(* Vectors are functions from 0: push_back extends one.                    *)
Size(v) == Cardinality(DOMAIN v)
Push(v, x) == [l \in 0 .. Size(v) |-> IF l = Size(v) THEN x ELSE v[l]]

NewMatrix == [rows |-> 0, cols |-> 0, of |-> 0]
Matrix(m, n) == [rows |-> m, cols |-> n, of |-> setups]

(* A work vector: its size and the cycle whose values it holds, zero when  *)
(* it holds none.                                                          *)
Vector(n) == [size |-> n, cycle |-> 0]

Init ==
  /\ pc = "idle" /\ setups = 0 /\ level = 0
  /\ a = <<>> /\ p = <<>> /\ marks = <<>> /\ sol = <<>> /\ rhs = <<>>
  /\ r_matrix = NewMatrix /\ lu_fact = NewMatrix
  /\ n_levels = 0 /\ n_levels_max = 0
  /\ missed = FALSE
  /\ max_iter = 0 /\ iter = 0 /\ below = FALSE
-----------------------------------------------------------------------------
(* setup: the matrix takes level 0, whose vectors solve will replace.      *)
Setup(n) ==
  LET matrix == [rows |-> n, cols |-> n, of |-> setups + 1] IN
  /\ pc = "idle" /\ setups < MaxSetups
  /\ setups' = setups + 1
  /\ IF Size(a) = 0
       THEN /\ a' = Push(a, matrix)
            /\ sol' = Push(sol, Vector(0)) /\ rhs' = Push(rhs, Vector(0))
       ELSE /\ a' = [a EXCEPT ![0] = matrix]
            /\ UNCHANGED vectors
  /\ level' = 0
  /\ missed' = FALSE
  /\ pc' = "setup"
  /\ UNCHANGED <<p, r_matrix, marks, lu_fact, n_levels, n_levels_max, loop>>

(* set_n_levels: the depth of the deepest setup so far is kept.            *)
LastDepth == level
Deepest == IF level > n_levels_max THEN level ELSE n_levels_max

(* What ends setup: the levels are counted and the last matrix factored,   *)
(* unless it has no rows, which dens_matrix::init refuses unheard.         *)
EndSetup ==
  /\ n_levels' = level
  /\ n_levels_max' = Deepest
  /\ lu_fact' = IF a[level].rows = 0 THEN lu_fact ELSE a[level]
  /\ pc' = "idle"
  /\ UNCHANGED <<setups, level, a, p, r_matrix, vectors, missed, loop>>

LastLevel ==
  /\ pc = "setup"
  /\ a[level].rows <= LastPoints
  /\ EndSetup
  /\ UNCHANGED marks

(* The markers of a level, made when it is deeper than any before.         *)
MarkLevel ==
  LET known == IF level >= n_levels_max THEN Push(marks, 0) ELSE marks IN
  marks' = [known EXCEPT ![level] = a[level].rows]

CoarseFails(n_coarse) ==
  /\ pc = "setup"
  /\ a[level].rows > LastPoints
  /\ n_coarse = a[level].rows \/ n_coarse < 1
  /\ MarkLevel
  /\ EndSetup

(* The matrices and vectors of the next level, made one level too early:   *)
(* the deepest level of the setups before always finds its own again and   *)
(* appends new ones all the same.                                          *)
NeedsLevel == level + 1 >= n_levels_max
Grown(v, new) == IF NeedsLevel THEN Push(v, new) ELSE v

ResizedIfNew(v, n) ==
  [Grown(v, Vector(0)) EXCEPT ![level + 1].size = IF NeedsLevel THEN n ELSE @]
Resized(v, n) == [Grown(v, Vector(0)) EXCEPT ![level + 1].size = n]
NextVectors(n_coarse) ==
  /\ sol' = Resized(sol, n_coarse)
  /\ rhs' = Resized(rhs, n_coarse)

Coarsens(n_coarse) ==
  /\ pc = "setup"
  /\ a[level].rows > LastPoints
  /\ n_coarse \in 1 .. a[level].rows - 1

(* P is built, R is its transpose and R A P is the next matrix.            *)
BuildLevel(n_coarse) ==
  LET n == a[level].rows IN
  /\ Coarsens(n_coarse)
  /\ MarkLevel
  /\ p' = [Grown(p, NewMatrix) EXCEPT ![level] = Matrix(n, n_coarse)]
  /\ r_matrix' = Matrix(n_coarse, n)
  /\ a' = [Grown(a, NewMatrix) EXCEPT ![level + 1] = Matrix(n_coarse, n_coarse)]
  /\ NextVectors(n_coarse)
  /\ level' = level + 1
  /\ UNCHANGED <<pc, setups, lu_fact, n_levels, n_levels_max, missed, loop>>

(* The builder finds other than n_coarse coarse points and returns -1 with *)
(* empty rows and the columns P had from an earlier setup.  The transpose  *)
(* refuses a P without columns and R stays; one row of R gives a one by    *)
(* one product of nothing, and any other R writes or reads outside the     *)
(* arrays.                                                                 *)
SkipLevel(n_coarse) ==
  LET grown == Grown(p, NewMatrix)
      cols  == grown[level].cols
  IN
  /\ Coarsens(n_coarse)
  /\ MaySkip
  /\ MarkLevel
  /\ p' = [grown EXCEPT ![level] = [rows |-> a[level].rows, cols |-> cols, of |-> 0]]
  /\ missed' = TRUE
  /\ \/ /\ cols = 0 /\ r_matrix.rows = 0
        /\ a' = Grown(a, NewMatrix)
        /\ UNCHANGED <<pc, r_matrix>>
     \/ /\ cols = 1
        /\ r_matrix' = [rows |-> 1, cols |-> a[level].rows, of |-> 0]
        /\ a' = [Grown(a, NewMatrix) EXCEPT ![level + 1] = [rows |-> 1, cols |-> 1, of |-> 0]]
        /\ UNCHANGED pc
     \/ /\ cols > 1 \/ (cols = 0 /\ r_matrix.rows > 0)
        /\ pc' = "undefined"
        /\ a' = Grown(a, NewMatrix)
        /\ UNCHANGED r_matrix
  /\ NextVectors(n_coarse)
  /\ level' = level + 1
  /\ UNCHANGED <<setups, lu_fact, n_levels, n_levels_max, loop>>
-----------------------------------------------------------------------------
(* solve: the arguments take level 0.  With max_iters = 1 it serves as a   *)
(* preconditioner and no residual is computed.                             *)
Solve(max) ==
  LET args == [size |-> a[0].rows, cycle |-> 0] IN
  /\ pc = "idle" /\ setups > 0
  /\ rhs' = [rhs EXCEPT ![0] = args]
  /\ sol' = [sol EXCEPT ![0] = args]
  /\ max_iter' = max
  /\ iter' = 0
  /\ below' \in IF max > 1 THEN BOOLEAN ELSE {FALSE}
  /\ level' = 0
  /\ pc' = "iterate"
  /\ UNCHANGED <<setups, levels>>

Iterating == iter < max_iter /\ ~below

StartCycle ==
  /\ pc = "iterate"
  /\ Iterating
  /\ rhs' = [rhs EXCEPT ![0].cycle = iter + 1]
  /\ sol' = [sol EXCEPT ![0].cycle = iter + 1]
  /\ level' = 0
  /\ pc' = "down"
  /\ UNCHANGED <<setups, levels, loop>>

(* Values restricted or corrected from another cycle belong to none.       *)
Mixed(c, d) == IF c = d THEN c ELSE 0

(* The initial guess of the next level: its solution is assigned zero.     *)
KeptGuess(c) == c
ZeroGuess(c) == iter + 1

(* The next level starts from zero, this one is smoothed, and its residual *)
(* restricted.                                                             *)
Down ==
  /\ pc = "down" /\ level < n_levels
  /\ sol' = [sol EXCEPT ![level + 1].cycle = ZeroGuess(@)]
  /\ rhs' = [rhs EXCEPT ![level + 1].cycle = Mixed(sol[level].cycle, rhs[level].cycle)]
  /\ level' = level + 1
  /\ UNCHANGED <<pc, setups, levels, loop>>

(* The factors of another matrix may be larger than the vectors.           *)
SolveLast ==
  /\ pc = "down" /\ level = n_levels
  /\ IF lu_fact.rows > rhs[level].size
       THEN pc' = "undefined" /\ UNCHANGED sol
       ELSE /\ pc' = "up"
            /\ sol' = [sol EXCEPT ![level].cycle =
                         IF lu_fact.of = setups THEN rhs[level].cycle ELSE 0]
  /\ level' = level - 1
  /\ UNCHANGED <<setups, levels, rhs, loop>>

Up ==
  /\ pc = "up" /\ level >= 0
  /\ sol' = [sol EXCEPT ![level].cycle = Mixed(@, sol[level + 1].cycle)]
  /\ level' = level - 1
  /\ UNCHANGED <<pc, setups, levels, rhs, loop>>

SameIter == iter
NextIter == iter + 1
EndCycle ==
  /\ pc = "up" /\ level < 0
  /\ iter' = NextIter
  /\ below' \in IF max_iter > 1 THEN BOOLEAN ELSE {FALSE}
  /\ pc' = "iterate"
  /\ UNCHANGED <<setups, level, levels, vectors, max_iter>>

(* The end of solve.  Its property success is set whatever ended the loop. *)
EndSolve ==
  /\ pc = "iterate"
  /\ ~Iterating
  /\ pc' = "idle"
  /\ UNCHANGED <<setups, level, levels, vectors, loop>>

SetupStep ==
  \/ LastLevel
  \/ \E n \in 0 .. MaxRows : CoarseFails(n) \/ BuildLevel(n) \/ SkipLevel(n)

SolveStep == StartCycle \/ Down \/ SolveLast \/ Up \/ EndCycle \/ EndSolve

Next ==
  \/ \E n \in 1 .. MaxRows : Setup(n)
  \/ \E max \in MaxIters : Solve(max)
  \/ SetupStep
  \/ SolveStep

Spec == Init /\ [][Next]_vars

(* Both are sequential procedures; nothing obliges anybody to call them.   *)
FairSpec == Spec /\ WF_vars(SetupStep) /\ WF_vars(SolveStep)
-----------------------------------------------------------------------------
MatrixRecord == [rows : 0 .. MaxRows, cols : 0 .. MaxRows, of : 0 .. MaxSetups]
VectorRecord == [size : 0 .. MaxRows, cycle : Nat]
IsVector(v, T) == DOMAIN v = 0 .. Size(v) - 1 /\ \A l \in DOMAIN v : v[l] \in T

TypeOK ==
  /\ pc \in {"idle", "setup", "iterate", "down", "up", "undefined"}
  /\ setups \in 0 .. MaxSetups
  /\ level \in -1 .. MaxRows
  /\ IsVector(a, MatrixRecord) /\ IsVector(p, MatrixRecord)
  /\ IsVector(marks, 0 .. MaxRows)
  /\ IsVector(sol, VectorRecord) /\ IsVector(rhs, VectorRecord)
  /\ r_matrix \in MatrixRecord /\ lu_fact \in MatrixRecord
  /\ n_levels \in 0 .. MaxRows /\ n_levels_max \in 0 .. MaxRows
  /\ missed \in BOOLEAN
  /\ max_iter \in MaxIters \cup {0} /\ iter \in 0 .. max_iter
  /\ below \in BOOLEAN

(* The vectors always hold the levels in use, however the depths of the    *)
(* setups follow each other, and what is appended too much is at most one  *)
(* spare entry for each setup.                                             *)
LevelsAllocated ==
  /\ TypeOK
  /\ n_levels <= n_levels_max
  /\ setups > 0 =>
       /\ Size(a) = Size(p) + 1 /\ Size(sol) = Size(a) /\ Size(rhs) = Size(a)
       /\ Size(p) >= n_levels_max /\ Size(marks) >= n_levels_max
       /\ pc = "idle" => Size(p) < n_levels_max + setups
                         /\ Size(marks) <= n_levels_max + setups

(* After a setup whose builders all succeeded, every level solve uses was  *)
(* built in that setup, fits its neighbours, its markers and vectors, and  *)
(* is smaller than the one before; the factors are those of the last.      *)
(* Nothing else leads to undefined behaviour than a failed builder.        *)
Fits(l) ==
  /\ a[l].rows > a[l + 1].rows
  /\ p[l] = Matrix(a[l].rows, a[l + 1].rows)
  /\ a[l + 1] = Matrix(a[l + 1].rows, a[l + 1].rows)
  /\ sol[l + 1].size = a[l + 1].rows /\ rhs[l + 1].size = a[l + 1].rows
  /\ marks[l] = a[l].rows
LevelsFit ==
  pc # "setup" /\ setups > 0 /\ ~missed =>
    /\ pc # "undefined"
    /\ \A l \in 0 .. n_levels - 1 : Fits(l)
    /\ a[0].of = setups
    /\ lu_fact = a[n_levels]

(* The correction a level takes from the next was computed in this cycle,  *)
(* from the residual of this cycle: no vector left from another cycle or   *)
(* another hierarchy is added to the solution.                             *)
CorrectionsAreNew ==
  pc = "up" /\ ~missed =>
    \A l \in level + 1 .. n_levels : sol[l].cycle = iter + 1

(* setup and solve return: the levels shrink, and the cycles are bounded.  *)
CallsReturn == pc # "idle" ~> pc \in {"idle", "undefined"}
=============================================================================
