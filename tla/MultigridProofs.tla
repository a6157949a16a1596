-------------------------- MODULE MultigridProofs --------------------------
(***************************************************************************)
(* The levels of amg_solver are allocated, fit each other and give new      *)
(* corrections, for every size of matrix, every sequence of setups and      *)
(* solves, and whatever the coarsers and builders return; and the builders  *)
(* of one level and the product R A P fill the rows they counted, for every *)
(* matrix, strength relation and choice of coarse points.                   *)
(***************************************************************************)
EXTENDS Multigrid, Galerkin, FiniteSetTheorems, SequenceTheorems, TLAPS

(* A vector of the code: its indices are those below its size.              *)
Vec(v, T) == IsVector(v, T) /\ Size(v) \in Nat

Sized ==
  /\ Vec(a, MatrixRecord) /\ Vec(p, MatrixRecord) /\ Vec(marks, 0 .. MaxRows)
  /\ Vec(sol, VectorRecord) /\ Vec(rhs, VectorRecord)

Scalars ==
  /\ pc \in {"idle", "setup", "iterate", "down", "up", "undefined"}
  /\ setups \in 0 .. MaxSetups
  /\ level \in -1 .. MaxRows
  /\ r_matrix \in MatrixRecord /\ lu_fact \in MatrixRecord
  /\ n_levels \in 0 .. MaxRows /\ n_levels_max \in 0 .. MaxRows
  /\ missed \in BOOLEAN
  /\ max_iter \in MaxIters \cup {0} /\ iter \in 0 .. max_iter
  /\ below \in BOOLEAN

Unused ==
  setups = 0 => /\ pc = "idle"
                /\ Size(a) = 0 /\ Size(p) = 0 /\ Size(marks) = 0
                /\ Size(sol) = 0 /\ Size(rhs) = 0
                /\ n_levels_max = 0

Deeper == IF level > n_levels_max THEN level ELSE n_levels_max

(* How far the vectors of levels have grown when setup stands at level.     *)
Growing ==
  pc = "setup" =>
    /\ setups > 0
    /\ level >= 0
    /\ Size(p) >= Deeper /\ Size(p) < Deeper + setups
    /\ level < n_levels_max => Size(p) <= n_levels_max + setups - 2
    /\ Size(marks) >= Deeper /\ Size(marks) < Deeper + setups

Spare ==
  pc \in {"idle", "iterate", "down", "up"} /\ setups > 0 =>
    Size(p) < n_levels_max + setups /\ Size(marks) <= n_levels_max + setups

(* The matrices shrink from level to level; the one of a level whose        *)
(* prolongation was never built has no rows.                                *)
Shrinking ==
  /\ pc = "setup" => a[level].rows + level <= MaxRows
  /\ setups > 0 => \A l \in DOMAIN p : p[l].cols = 0 => a[l + 1].rows = 0

(* Where solve stands.                                                      *)
Solving ==
  pc \in {"iterate", "down", "up"} =>
    /\ setups > 0
    /\ level <= n_levels
    /\ rhs[0].size = a[0].rows
    /\ pc # "iterate" => iter < max_iter
    /\ pc = "down" => level >= 0
    /\ pc = "up" => level < n_levels

(* The levels setup built so far.                                           *)
Built ==
  pc = "setup" /\ ~missed =>
    /\ \A l \in 0 .. level - 1 : Fits(l)
    /\ a[0].of = setups
    /\ a[level].rows > 0
    /\ a[level] = Matrix(a[level].rows, a[level].rows)

(* The vectors solve wrote in this cycle.                                   *)
NewVectors ==
  ~missed =>
    /\ pc = "down" => \A l \in 0 .. level : sol[l].cycle = iter + 1 /\ rhs[l].cycle = iter + 1
    /\ pc = "up"   => \A l \in 0 .. n_levels : sol[l].cycle = iter + 1

IInv ==
  /\ Sized /\ Unused /\ Growing /\ Spare /\ Shrinking /\ Solving /\ Built /\ NewVectors
  /\ LevelsAllocated /\ LevelsFit
-----------------------------------------------------------------------------
LEMMA Parameters ==
  /\ MaxRows \in Nat /\ MaxRows > 0
  /\ LastPoints \in Nat /\ LastPoints > 0
  /\ MaxIters \subseteq Nat
  /\ MaxSetups \in Nat
  BY MultigridAssumption DEF MultigridAssumption

(* The size of what is indexed from 0.                                      *)
LEMMA SizeOf ==
  ASSUME NEW v, NEW n \in Nat, DOMAIN v = 0 .. n - 1
  PROVE  Size(v) = n
<1>1. Cardinality(0 .. n - 1) = IF 0 > n - 1 THEN 0 ELSE n - 1 - 0 + 1
  BY FS_Interval
<1> QED
  BY <1>1 DEF Size

LEMMA EmptyVec ==
  ASSUME NEW T
  PROVE  Vec(<<>>, T) /\ Size(<<>>) = 0
<1>1. DOMAIN <<>> = 0 .. 0 - 1
  OBVIOUS
<1>2. Size(<<>>) = 0
  BY <1>1, SizeOf
<1> QED
  BY <1>1, <1>2 DEF Vec, IsVector

LEMMA PushVec ==
  ASSUME NEW T, NEW v, Vec(v, T), NEW x \in T
  PROVE  /\ Vec(Push(v, x), T)
         /\ Size(Push(v, x)) = Size(v) + 1
         /\ Push(v, x)[Size(v)] = x
         /\ \A l \in 0 .. Size(v) - 1 : Push(v, x)[l] = v[l]
<1> DEFINE n == Size(v)
           w == Push(v, x)
<1>1. n \in Nat /\ DOMAIN v = 0 .. n - 1 /\ \A l \in 0 .. n - 1 : v[l] \in T
  BY DEF Vec, IsVector
<1>2. DOMAIN w = 0 .. n
  BY DEF Push
<1>3. DOMAIN w = 0 .. (n + 1) - 1
  BY <1>1, <1>2
<1>4. Size(w) = n + 1
  BY <1>1, <1>3, SizeOf
<1>5. w[n] = x /\ \A l \in 0 .. n - 1 : w[l] = v[l]
  BY <1>1 DEF Push
<1>6. \A l \in 0 .. n : w[l] \in T
  BY <1>1, <1>5
<1> QED
  BY <1>1, <1>2, <1>3, <1>4, <1>5, <1>6 DEF Vec, IsVector

(* A vector one entry of which was assigned.                                *)
Set(v, i, x) == [v EXCEPT ![i] = x]

LEMMA SetVec ==
  ASSUME NEW T, NEW v, Vec(v, T), NEW i \in 0 .. Size(v) - 1, NEW x \in T
  PROVE  /\ Vec(Set(v, i, x), T)
         /\ Size(Set(v, i, x)) = Size(v)
         /\ Set(v, i, x)[i] = x
         /\ \A l \in 0 .. Size(v) - 1 : l # i => Set(v, i, x)[l] = v[l]
<1> DEFINE n == Size(v)
           w == Set(v, i, x)
<1>1. n \in Nat /\ DOMAIN v = 0 .. n - 1 /\ \A l \in 0 .. n - 1 : v[l] \in T
  BY DEF Vec, IsVector
<1>2. DOMAIN w = 0 .. n - 1
  BY <1>1 DEF Set
<1>3. Size(w) = n
  BY <1>1, <1>2, SizeOf
<1>4. w[i] = x /\ \A l \in 0 .. n - 1 : l # i => w[l] = v[l]
  BY <1>1 DEF Set
<1>5. \A l \in 0 .. n - 1 : w[l] \in T
  BY <1>1, <1>4
<1> QED
  BY <1>1, <1>2, <1>3, <1>4, <1>5 DEF Vec, IsVector

(* A vector of levels when setup goes on to the next level.                 *)
LEMMA GrownVec ==
  ASSUME NEW T, NEW v, Vec(v, T), NEW x \in T
  PROVE  /\ Vec(Grown(v, x), T)
         /\ Size(Grown(v, x)) = Size(v) + IF NeedsLevel THEN 1 ELSE 0
         /\ \A l \in 0 .. Size(v) - 1 : Grown(v, x)[l] = v[l]
         /\ NeedsLevel => Grown(v, x)[Size(v)] = x
<1>1. CASE NeedsLevel
  BY <1>1, PushVec DEF Grown
<1>2. CASE ~NeedsLevel
  BY <1>2 DEF Grown, Vec
<1> QED
  BY <1>1, <1>2

SetCycle(v, i, c) == [v EXCEPT ![i].cycle = c]
SetSize(v, i, n) == [v EXCEPT ![i].size = n]

(* w is v but for the cycle of entry i.                                     *)
Cycled(v, i, c, w) ==
  /\ Vec(w, VectorRecord) /\ Size(w) = Size(v)
  /\ \A l \in 0 .. Size(v) - 1 : w[l].size = v[l].size
  /\ \A l \in 0 .. Size(v) - 1 : w[l].cycle = IF l = i THEN c ELSE v[l].cycle

LEMMA CycleVec ==
  ASSUME NEW v, Vec(v, VectorRecord), NEW i \in 0 .. Size(v) - 1, NEW c \in Nat
  PROVE  Cycled(v, i, c, SetCycle(v, i, c))
<1> DEFINE x == [v[i] EXCEPT !.cycle = c]
<1>1. v[i] \in VectorRecord
  BY DEF Vec, IsVector
<1>2. x \in VectorRecord /\ x.cycle = c /\ x.size = v[i].size
  BY <1>1 DEF VectorRecord
<1>3. SetCycle(v, i, c) = Set(v, i, x)
  BY DEF Set, SetCycle
<1> HIDE DEF x
<1> QED
  BY <1>2, <1>3, SetVec DEF Cycled

LEMMA SizeVec ==
  ASSUME NEW v, Vec(v, VectorRecord), NEW i \in 0 .. Size(v) - 1, NEW n \in 0 .. MaxRows
  PROVE  LET w == SetSize(v, i, n) IN
         /\ Vec(w, VectorRecord) /\ Size(w) = Size(v)
         /\ w[i].size = n
         /\ \A l \in 0 .. Size(v) - 1 : l # i => w[l] = v[l]
<1> DEFINE x == [v[i] EXCEPT !.size = n]
<1>1. v[i] \in VectorRecord
  BY DEF Vec, IsVector
<1>2. x \in VectorRecord /\ x.size = n
  BY <1>1 DEF VectorRecord
<1>3. SetSize(v, i, n) = Set(v, i, x)
  BY DEF Set, SetSize
<1> HIDE DEF x
<1> QED
  BY <1>2, <1>3, SetVec

LEMMA TypeParts == Sized => (TypeOK <=> Scalars)
  BY DEF TypeOK, Scalars, Sized, Vec

LEMMA Initially == Init => IInv
<1> SUFFICES ASSUME Init PROVE IInv
  OBVIOUS
<1>1. Sized
  BY EmptyVec DEF Init, Sized
<1>2. Unused
  BY EmptyVec DEF Init, Unused
<1>3. Growing /\ Spare /\ Shrinking /\ Solving /\ Built /\ NewVectors /\ LevelsFit
  BY DEF Init, Growing, Spare, Shrinking, Solving, Built, NewVectors, LevelsFit
<1>4. TypeOK
  <2>1. NewMatrix \in MatrixRecord
    BY Parameters DEF NewMatrix, MatrixRecord
  <2>2. /\ pc = "idle" /\ setups = 0 /\ level = 0
        /\ r_matrix = NewMatrix /\ lu_fact = NewMatrix
        /\ n_levels = 0 /\ n_levels_max = 0 /\ missed = FALSE
        /\ max_iter = 0 /\ iter = 0 /\ below = FALSE
    BY Zenon DEF Init
  <2>3. 0 \in 0 .. MaxRows /\ 0 \in -1 .. MaxRows /\ 0 \in 0 .. MaxSetups /\ 0 \in 0 .. 0
    BY Parameters
  <2>4. Scalars
    BY <2>1, <2>2, <2>3, Zenon DEF Scalars
  <2> QED
    BY <1>1, <2>4, TypeParts
<1>5. LevelsAllocated
  BY <1>4 DEF Init, LevelsAllocated
<1> QED
  BY <1>1, <1>2, <1>3, <1>4, <1>5 DEF IInv
-----------------------------------------------------------------------------
(* solve writes the vectors in place: their sizes, and with them the levels *)
(* of setup, stay as they are.                                              *)
InPlace ==
  /\ Vec(sol', VectorRecord) /\ Vec(rhs', VectorRecord)
  /\ Size(sol') = Size(sol) /\ Size(rhs') = Size(rhs)
  /\ \A l \in 1 .. Size(sol) - 1 : sol'[l].size = sol[l].size
  /\ \A l \in 1 .. Size(rhs) - 1 : rhs'[l].size = rhs[l].size

LEMMA LevelsKept ==
  ASSUME IInv, InPlace, UNCHANGED <<setups, levels>>, Scalars', setups > 0,
         pc \in {"idle", "iterate", "down", "up"}, pc' \in {"idle", "iterate", "down", "up", "undefined"},
         pc' = "undefined" => missed
  PROVE  Sized' /\ Unused' /\ Growing' /\ Spare' /\ Shrinking' /\ Built'
         /\ LevelsAllocated' /\ LevelsFit'
<1> USE DEF levels, InPlace
<1>1. Sized'
  BY DEF IInv, Sized, Vec, IsVector
<1>2. Unused' /\ Growing' /\ Built'
  BY DEF Unused, Growing, Built
<1>3. Spare'
  BY DEF IInv, Spare
<1>4. Shrinking'
  BY DEF IInv, Shrinking
<1>5. TypeOK'
  BY <1>1, TypeParts, PTL
<1>6. LevelsAllocated'
  BY <1>5, <1>3 DEF IInv, LevelsAllocated, Spare
<1>7. LevelsFit'
  <2>1. n_levels \in Nat /\ n_levels <= Size(sol) - 1 /\ n_levels <= Size(rhs) - 1
        /\ Size(sol) \in Nat /\ Size(rhs) \in Nat
    BY DEF IInv, LevelsAllocated, TypeOK, Sized, Vec
  <2>2. SUFFICES ASSUME ~missed PROVE pc' # "undefined" /\ (\A l \in 0 .. n_levels - 1 : Fits(l)')
                                      /\ a[0].of = setups /\ lu_fact = a[n_levels]
    BY DEF LevelsFit
  <2>3. (\A l \in 0 .. n_levels - 1 : Fits(l)) /\ a[0].of = setups /\ lu_fact = a[n_levels]
    BY <2>2 DEF IInv, LevelsFit
  <2>4. ASSUME NEW l \in 0 .. n_levels - 1 PROVE Fits(l)'
    <3>1. l + 1 \in 1 .. Size(sol) - 1 /\ l + 1 \in 1 .. Size(rhs) - 1
      BY <2>1
    <3>2. sol'[l + 1].size = sol[l + 1].size /\ rhs'[l + 1].size = rhs[l + 1].size
      BY <3>1
    <3> QED
      BY <2>3, <3>2 DEF Fits, Matrix
  <2> QED
    BY <2>2, <2>3, <2>4
<1> QED
  BY <1>1, <1>2, <1>3, <1>4, <1>6, <1>7

LEMMA Known ==
  ASSUME IInv
  PROVE  /\ Sized /\ Scalars
         /\ setups > 0 => /\ Size(a) = Size(p) + 1
                          /\ Size(sol) = Size(p) + 1 /\ Size(rhs) = Size(p) + 1
                          /\ n_levels <= Size(p)
         /\ Size(p) \in Nat /\ n_levels \in Nat /\ level \in Int
         /\ setups \in Nat /\ iter \in Nat /\ max_iter \in Nat
<1>1. Sized /\ TypeOK
  BY DEF IInv, LevelsAllocated
<1>2. Scalars
  BY <1>1, TypeParts
<1>3. Size(p) \in Nat
  BY <1>1 DEF Sized, Vec
<1>4. n_levels \in Nat /\ n_levels_max \in Nat /\ level \in Int /\ setups \in Nat
  BY <1>2, Parameters DEF Scalars
<1>5. iter \in Nat /\ max_iter \in Nat
  BY <1>2, Parameters DEF Scalars
<1>6. setups > 0 => /\ Size(a) = Size(p) + 1
                    /\ Size(sol) = Size(p) + 1 /\ Size(rhs) = Size(p) + 1
                    /\ n_levels <= Size(p)
  BY <1>3, <1>4 DEF IInv, LevelsAllocated
<1> QED
  BY <1>1, <1>2, <1>3, <1>4, <1>5, <1>6

LEMMA SolveKeeps ==
  ASSUME IInv, NEW max \in MaxIters, Solve(max)
  PROVE  IInv'
<1> DEFINE args == [size |-> a[0].rows, cycle |-> 0]
<1>1. Sized /\ Scalars /\ setups \in Nat /\ setups > 0 /\ Size(a) \in Nat \ {0}
      /\ Size(sol) = Size(a) /\ Size(rhs) = Size(a)
  BY Known DEF Solve, Scalars
<1>2. args \in VectorRecord
  <2>1. a[0] \in MatrixRecord
    BY <1>1 DEF Sized, Vec, IsVector
  <2> QED
    BY <2>1 DEF MatrixRecord, VectorRecord
<1>3. sol' = Set(sol, 0, args) /\ rhs' = Set(rhs, 0, args)
  BY DEF Solve, Set
<1> HIDE DEF args
<1>4. /\ Vec(sol', VectorRecord) /\ Size(sol') = Size(sol)
      /\ Vec(rhs', VectorRecord) /\ Size(rhs') = Size(rhs) /\ rhs'[0] = args
      /\ \A l \in 1 .. Size(sol) - 1 : sol'[l] = sol[l]
      /\ \A l \in 1 .. Size(rhs) - 1 : rhs'[l] = rhs[l]
  <2>1. 0 \in 0 .. Size(sol) - 1 /\ 0 \in 0 .. Size(rhs) - 1
    BY <1>1
  <2>2. Vec(sol, VectorRecord) /\ Vec(rhs, VectorRecord)
    BY <1>1 DEF Sized
  <2>3. /\ Vec(sol', VectorRecord) /\ Size(sol') = Size(sol)
        /\ \A l \in 0 .. Size(sol) - 1 : l # 0 => sol'[l] = sol[l]
    BY <2>1, <2>2, <1>2, <1>3, SetVec
  <2>4. /\ Vec(rhs', VectorRecord) /\ Size(rhs') = Size(rhs) /\ rhs'[0] = args
        /\ \A l \in 0 .. Size(rhs) - 1 : l # 0 => rhs'[l] = rhs[l]
    BY <2>1, <2>2, <1>2, <1>3, SetVec
  <2> QED
    BY <2>3, <2>4, <1>1
<1>5. InPlace
  BY <1>4 DEF InPlace
<1>6. /\ pc = "idle" /\ pc' = "iterate" /\ max_iter' = max /\ iter' = 0 /\ level' = 0
      /\ below' \in BOOLEAN /\ UNCHANGED <<setups, levels>>
  BY DEF Solve
<1>7. Scalars'
  BY <1>1, <1>6, Parameters DEF Scalars, levels
<1>8. Solving'
  <2>1. n_levels \in Nat
    BY Known
  <2>2. rhs'[0].size = a[0].rows
    BY <1>4 DEF args
  <2> QED
    BY <1>1, <1>6, <2>1, <2>2 DEF Solving, levels
<1>9. NewVectors'
  BY <1>6 DEF NewVectors
<1> QED
  BY <1>1, <1>5, <1>6, <1>7, <1>8, <1>9, LevelsKept DEF IInv

(* The vectors an action of solve finds.                                    *)
LEMMA Cycling ==
  ASSUME IInv, pc \in {"iterate", "down", "up"}
  PROVE  /\ Sized /\ Scalars
         /\ setups > 0 /\ setups \in Nat
         /\ n_levels \in Nat /\ level \in Int /\ level <= n_levels
         /\ iter \in Nat /\ max_iter \in Nat
         /\ Size(sol) \in Nat /\ Size(rhs) = Size(sol) /\ n_levels < Size(sol)
         /\ rhs[0].size = a[0].rows
         /\ pc # "iterate" => iter < max_iter
  BY Known DEF IInv, Solving

LEMMA StartCycleKeeps ==
  ASSUME IInv, StartCycle
  PROVE  IInv'
<1>1. /\ Sized /\ Scalars /\ setups > 0 /\ n_levels \in Nat
      /\ Size(sol) \in Nat /\ Size(rhs) = Size(sol) /\ n_levels < Size(sol)
      /\ iter \in Nat /\ max_iter \in Nat /\ rhs[0].size = a[0].rows
  BY Cycling DEF StartCycle
<1>2. sol' = SetCycle(sol, 0, iter + 1) /\ rhs' = SetCycle(rhs, 0, iter + 1)
  BY DEF StartCycle, SetCycle
<1>3. Cycled(sol, 0, iter + 1, sol')
  <2>1. Vec(sol, VectorRecord) /\ 0 \in 0 .. Size(sol) - 1 /\ iter + 1 \in Nat
    BY <1>1 DEF Sized
  <2> QED
    BY <1>2, <2>1, CycleVec, Zenon
<1>4. Cycled(rhs, 0, iter + 1, rhs')
  <2>1. Vec(rhs, VectorRecord) /\ 0 \in 0 .. Size(rhs) - 1 /\ iter + 1 \in Nat
    BY <1>1 DEF Sized
  <2> QED
    BY <1>2, <2>1, CycleVec, Zenon
<1>5. InPlace
  BY <1>1, <1>3, <1>4 DEF InPlace, Cycled
<1>6. /\ pc = "iterate" /\ pc' = "down" /\ level' = 0 /\ iter < max_iter
      /\ UNCHANGED <<setups, levels, loop>>
  BY DEF StartCycle, Iterating
<1>7. Scalars'
  BY <1>1, <1>6, Parameters DEF Scalars, levels, loop
<1>8. Solving'
  BY <1>1, <1>4, <1>6 DEF Solving, Cycled, levels, loop
<1>9. NewVectors'
  BY <1>1, <1>3, <1>4, <1>6 DEF NewVectors, Cycled, levels, loop
<1> QED
  BY <1>1, <1>5, <1>6, <1>7, <1>8, <1>9, LevelsKept DEF IInv

LEMMA DownKeeps ==
  ASSUME IInv, Down
  PROVE  IInv'
<1> DEFINE c == Mixed(sol[level].cycle, rhs[level].cycle)
<1>1. /\ Sized /\ Scalars /\ setups > 0 /\ n_levels \in Nat
      /\ Size(sol) \in Nat /\ Size(rhs) = Size(sol) /\ n_levels < Size(sol)
      /\ iter \in Nat /\ max_iter \in Nat /\ rhs[0].size = a[0].rows
      /\ level \in Nat /\ level < n_levels
  BY Cycling DEF Down, IInv, Solving
<1>2. level + 1 \in 0 .. Size(sol) - 1 /\ level + 1 \in 0 .. Size(rhs) - 1
      /\ level \in 0 .. Size(sol) - 1 /\ 0 \in 0 .. Size(rhs) - 1
  BY <1>1
<1>3. sol[level].cycle \in Nat /\ rhs[level].cycle \in Nat
  BY <1>1, <1>2 DEF Sized, Vec, IsVector, VectorRecord
<1>4. c \in Nat
  BY <1>3 DEF Mixed
<1>5. sol' = SetCycle(sol, level + 1, iter + 1) /\ rhs' = SetCycle(rhs, level + 1, c)
  BY DEF Down, SetCycle, ZeroGuess
<1>6. ~missed => c = iter + 1
  BY <1>1 DEF IInv, NewVectors, Down, Mixed
<1> HIDE DEF c
<1>7. Cycled(sol, level + 1, iter + 1, sol')
  <2>1. Vec(sol, VectorRecord) /\ iter + 1 \in Nat
    BY <1>1 DEF Sized
  <2> QED
    BY <1>2, <1>5, <2>1, CycleVec, Zenon
<1>8. Cycled(rhs, level + 1, c, rhs')
  <2>1. Vec(rhs, VectorRecord)
    BY <1>1 DEF Sized
  <2> QED
    BY <1>2, <1>4, <1>5, <2>1, CycleVec, Zenon
<1>9. InPlace
  BY <1>1, <1>7, <1>8 DEF InPlace, Cycled
<1>10. /\ pc = "down" /\ pc' = "down" /\ level' = level + 1
       /\ UNCHANGED <<setups, levels, loop>>
  BY DEF Down
<1>11. Scalars'
  BY <1>1, <1>10, Parameters DEF Scalars, levels, loop
<1>12. Solving'
  BY <1>1, <1>2, <1>8, <1>10, Cycling DEF Solving, Cycled, levels, loop
<1>13. NewVectors'
  BY <1>1, <1>6, <1>7, <1>8, <1>10 DEF IInv, NewVectors, Cycled, levels, loop
<1> QED
  BY <1>1, <1>9, <1>10, <1>11, <1>12, <1>13, LevelsKept DEF IInv

LEMMA SolveLastKeeps ==
  ASSUME IInv, SolveLast
  PROVE  IInv'
<1> DEFINE c == IF lu_fact.of = setups THEN rhs[level].cycle ELSE 0
<1>1. /\ Sized /\ Scalars /\ setups > 0 /\ n_levels \in Nat
      /\ Size(sol) \in Nat /\ Size(rhs) = Size(sol) /\ n_levels < Size(sol)
      /\ iter \in Nat /\ max_iter \in Nat /\ rhs[0].size = a[0].rows
      /\ pc = "down" /\ level = n_levels /\ iter < max_iter
  BY Cycling DEF SolveLast
<1>2. level \in 0 .. Size(sol) - 1
  BY <1>1
<1>3. c \in Nat
  <2>1. rhs[level].cycle \in Nat
    BY <1>1, <1>2 DEF Sized, Vec, IsVector, VectorRecord
  <2> QED
    BY <2>1
<1>4. level' = level - 1 /\ UNCHANGED <<setups, levels, rhs, loop>> /\ pc' \in {"up", "undefined"}
  BY DEF SolveLast
<1>5. ASSUME ~missed
      PROVE  pc' = "up" /\ c = iter + 1 /\ (\A l \in 0 .. n_levels : sol[l].cycle = iter + 1)
  <2>1. /\ \A l \in 0 .. n_levels - 1 : Fits(l)
        /\ a[0].of = setups /\ lu_fact = a[n_levels]
    BY <1>1, <1>5 DEF IInv, LevelsFit
  <2>2. rhs[level].size = a[n_levels].rows /\ lu_fact.of = setups
    <3>1. CASE n_levels = 0
      BY <3>1, <1>1, <2>1
    <3>2. CASE n_levels > 0
      <4>1. n_levels - 1 \in 0 .. n_levels - 1 /\ (n_levels - 1) + 1 = n_levels
        BY <1>1, <3>2
      <4>2. Fits(n_levels - 1)
        BY <2>1, <4>1
      <4> QED
        BY <1>1, <2>1, <4>1, <4>2 DEF Fits, Matrix
    <3> QED
      BY <1>1, <3>1, <3>2
  <2>3. lu_fact.rows = rhs[level].size /\ rhs[level].size \in Nat
    <3>1. rhs[level].size \in Nat
      BY <1>1, <1>2, Parameters DEF Sized, Vec, IsVector, VectorRecord
    <3> QED
      BY <2>1, <2>2, <3>1
  <2>4. pc' = "up"
    BY <2>3 DEF SolveLast
  <2>5. rhs[level].cycle = iter + 1 /\ (\A l \in 0 .. n_levels : sol[l].cycle = iter + 1)
    BY <1>1, <1>5 DEF IInv, NewVectors
  <2> QED
    BY <2>2, <2>4, <2>5
<1>6. CASE pc' = "undefined"
  <2>1. UNCHANGED sol
    BY <1>6 DEF SolveLast
  <2>2. InPlace
    BY <1>1, <1>4, <2>1 DEF InPlace, Cycled, Sized
  <2>3. Scalars'
    BY <1>1, <1>4, <1>6, Parameters DEF Scalars, levels, loop
  <2>4. Solving' /\ NewVectors'
    BY <1>6 DEF Solving, NewVectors
  <2> QED
    BY <1>1, <1>4, <1>5, <1>6, <2>2, <2>3, <2>4, LevelsKept DEF IInv
<1>7. CASE pc' = "up"
  <2>1. sol' = SetCycle(sol, level, c)
    BY <1>7 DEF SolveLast, SetCycle
  <2> HIDE DEF c
  <2>2. Cycled(sol, level, c, sol')
    <3>1. Vec(sol, VectorRecord)
      BY <1>1 DEF Sized
    <3> QED
      BY <1>2, <1>3, <2>1, <3>1, CycleVec, Zenon
  <2>3. InPlace
    BY <1>1, <1>4, <2>2 DEF InPlace, Cycled, Sized
  <2>4. Scalars'
    BY <1>1, <1>4, <1>7, Parameters DEF Scalars, levels, loop
  <2>5. Solving'
    BY <1>1, <1>4, <1>7 DEF Solving, Cycled, levels, loop
  <2>6. NewVectors'
    BY <1>1, <1>4, <1>5, <1>7, <2>2 DEF NewVectors, Cycled, levels, loop
  <2> QED
    BY <1>1, <1>4, <1>7, <2>3, <2>4, <2>5, <2>6, LevelsKept DEF IInv
<1> QED
  BY <1>4, <1>6, <1>7

LEMMA UpKeeps ==
  ASSUME IInv, Up
  PROVE  IInv'
<1> DEFINE c == Mixed(sol[level].cycle, sol[level + 1].cycle)
<1>1. /\ Sized /\ Scalars /\ setups > 0 /\ n_levels \in Nat
      /\ Size(sol) \in Nat /\ Size(rhs) = Size(sol) /\ n_levels < Size(sol)
      /\ iter \in Nat /\ max_iter \in Nat /\ rhs[0].size = a[0].rows
      /\ pc = "up" /\ iter < max_iter
      /\ level \in Nat /\ level < n_levels
  BY Cycling DEF Up, IInv, Solving
<1>2. level + 1 \in 0 .. Size(sol) - 1 /\ level \in 0 .. Size(sol) - 1
      /\ level \in 0 .. n_levels /\ level + 1 \in 0 .. n_levels
  BY <1>1
<1>3. c \in Nat
  <2>1. sol[level].cycle \in Nat /\ sol[level + 1].cycle \in Nat
    BY <1>1, <1>2 DEF Sized, Vec, IsVector, VectorRecord
  <2> QED
    BY <2>1 DEF Mixed
<1>4. ~missed => c = iter + 1 /\ \A l \in 0 .. n_levels : sol[l].cycle = iter + 1
  BY <1>1, <1>2 DEF IInv, NewVectors, Mixed
<1>5. sol' = SetCycle(sol, level, c)
  BY DEF Up, SetCycle
<1> HIDE DEF c
<1>6. Cycled(sol, level, c, sol')
  <2>1. Vec(sol, VectorRecord)
    BY <1>1 DEF Sized
  <2> QED
    BY <1>2, <1>3, <1>5, <2>1, CycleVec, Zenon
<1>7. /\ pc' = "up" /\ level' = level - 1
      /\ UNCHANGED <<setups, levels, rhs, loop>>
  BY DEF Up
<1>8. InPlace
  BY <1>1, <1>6, <1>7 DEF InPlace, Cycled, Sized
<1>9. Scalars'
  BY <1>1, <1>7, Parameters DEF Scalars, levels, loop
<1>10. Solving'
  BY <1>1, <1>7 DEF Solving, levels, loop
<1>11. NewVectors'
  BY <1>1, <1>4, <1>6, <1>7 DEF NewVectors, Cycled, levels, loop
<1> QED
  BY <1>1, <1>7, <1>8, <1>9, <1>10, <1>11, LevelsKept DEF IInv

LEMMA EndCycleKeeps ==
  ASSUME IInv, EndCycle
  PROVE  IInv'
<1>1. /\ Sized /\ Scalars /\ setups > 0 /\ n_levels \in Nat
      /\ Size(sol) \in Nat /\ Size(rhs) = Size(sol)
      /\ iter \in Nat /\ max_iter \in Nat /\ rhs[0].size = a[0].rows
      /\ pc = "up" /\ iter < max_iter /\ level <= n_levels
  BY Cycling DEF EndCycle
<1>2. /\ pc' = "iterate" /\ iter' = iter + 1 /\ below' \in BOOLEAN
      /\ UNCHANGED <<setups, level, levels, vectors, max_iter>>
  BY DEF EndCycle, NextIter
<1>3. InPlace
  BY <1>1, <1>2 DEF InPlace, Sized, vectors
<1>4. Scalars'
  BY <1>1, <1>2, Parameters DEF Scalars, levels
<1>5. Solving' /\ NewVectors'
  BY <1>1, <1>2 DEF Solving, NewVectors, levels, vectors
<1> QED
  BY <1>1, <1>2, <1>3, <1>4, <1>5, LevelsKept DEF IInv

LEMMA EndSolveKeeps ==
  ASSUME IInv, EndSolve
  PROVE  IInv'
<1>1. /\ Sized /\ Scalars /\ setups > 0 /\ pc = "iterate"
      /\ Size(sol) \in Nat /\ Size(rhs) = Size(sol)
  BY Cycling DEF EndSolve
<1>2. pc' = "idle" /\ UNCHANGED <<setups, level, levels, vectors, loop>>
  BY DEF EndSolve
<1>3. InPlace
  BY <1>1, <1>2 DEF InPlace, Sized, vectors
<1>4. Scalars'
  BY <1>1, <1>2 DEF Scalars, levels, loop
<1>5. Solving' /\ NewVectors'
  BY <1>2 DEF Solving, NewVectors
<1> QED
  BY <1>1, <1>2, <1>3, <1>4, <1>5, LevelsKept DEF IInv
-----------------------------------------------------------------------------
LEMMA SetupKeeps ==
  ASSUME IInv, NEW n \in 1 .. MaxRows, Setup(n)
  PROVE  IInv'
<1> DEFINE matrix == [rows |-> n, cols |-> n, of |-> setups + 1]
<1>1. /\ Sized /\ Scalars /\ setups \in Nat /\ setups < MaxSetups /\ MaxSetups \in Nat
      /\ Size(p) \in Nat /\ n_levels_max \in Nat /\ Size(marks) \in Nat
      /\ n \in Nat \ {0} /\ n <= MaxRows /\ MaxRows \in Nat
      /\ setups > 0 => Size(a) = Size(p) + 1 /\ Size(sol) = Size(a) /\ Size(rhs) = Size(a)
  BY Known, Parameters DEF Setup, Scalars, Sized, Vec
<1>2. matrix \in MatrixRecord
  BY <1>1 DEF MatrixRecord
<1>3. Vector(0) \in VectorRecord
  BY <1>1 DEF VectorRecord, Vector
<1>4. /\ pc = "idle" /\ pc' = "setup" /\ setups' = setups + 1 /\ level' = 0 /\ missed' = FALSE
      /\ p' = p /\ r_matrix' = r_matrix /\ marks' = marks /\ lu_fact' = lu_fact
      /\ n_levels' = n_levels /\ n_levels_max' = n_levels_max
      /\ max_iter' = max_iter /\ iter' = iter /\ below' = below
  BY DEF Setup, loop
<1>15. Size(p') = Size(p) /\ Size(marks') = Size(marks)
  BY <1>4, Zenon
<1>5. /\ Vec(a', MatrixRecord) /\ Vec(sol', VectorRecord) /\ Vec(rhs', VectorRecord)
      /\ Size(a') = Size(p) + 1 /\ Size(sol') = Size(a') /\ Size(rhs') = Size(a')
      /\ a'[0] = matrix
      /\ \A l \in 1 .. Size(p) : a'[l] = a[l]
  <2>1. CASE Size(a) = 0
    <3>1. setups = 0 /\ Size(p) = 0 /\ Size(sol) = 0 /\ Size(rhs) = 0
      BY <2>1, <1>1 DEF IInv, Unused
    <3>2. a' = Push(a, matrix) /\ sol' = Push(sol, Vector(0)) /\ rhs' = Push(rhs, Vector(0))
      BY <2>1 DEF Setup
    <3>3. Vec(a, MatrixRecord) /\ Vec(sol, VectorRecord) /\ Vec(rhs, VectorRecord)
      BY <1>1 DEF Sized
    <3> HIDE DEF matrix
    <3>4. Vec(a', MatrixRecord) /\ Size(a') = 1 /\ a'[0] = matrix
      BY <1>2, <2>1, <3>2, <3>3, PushVec
    <3>5. Vec(sol', VectorRecord) /\ Size(sol') = 1
      BY <1>3, <3>1, <3>2, <3>3, PushVec
    <3>6. Vec(rhs', VectorRecord) /\ Size(rhs') = 1
      BY <1>3, <3>1, <3>2, <3>3, PushVec
    <3> QED
      BY <3>1, <3>4, <3>5, <3>6
  <2>2. CASE Size(a) # 0
    <3>1. setups > 0
      BY <2>2, <1>1 DEF IInv, Unused
    <3>2. a' = Set(a, 0, matrix) /\ sol' = sol /\ rhs' = rhs
      BY <2>2 DEF Setup, Set, vectors
    <3>3. Vec(a, MatrixRecord) /\ Vec(sol, VectorRecord) /\ Vec(rhs, VectorRecord)
      BY <1>1 DEF Sized
    <3>4. 0 \in 0 .. Size(a) - 1
      BY <1>1, <3>1
    <3> HIDE DEF matrix
    <3>5. /\ Vec(a', MatrixRecord) /\ Size(a') = Size(a) /\ a'[0] = matrix
          /\ \A l \in 0 .. Size(a) - 1 : l # 0 => a'[l] = a[l]
      BY <1>2, <3>2, <3>3, <3>4, SetVec
    <3> QED
      BY <1>1, <3>1, <3>2, <3>3, <3>5
  <2> QED
    BY <2>1, <2>2
<1>6. Sized' /\ Unused'
  <2>1. Vec(p, MatrixRecord) /\ Vec(marks, 0 .. MaxRows)
    BY <1>1 DEF Sized
  <2>2. Sized'
    BY <1>4, <1>5, <2>1, Zenon DEF Sized
  <2>3. setups' # 0
    BY <1>1, <1>4
  <2> QED
    BY <2>2, <2>3 DEF Unused
<1>7. Scalars'
  <2>1. setups' \in 0 .. MaxSetups /\ level' \in -1 .. MaxRows
    BY <1>1, <1>4
  <2> QED
    BY <1>1, <1>4, <2>1 DEF Scalars
<1>8. /\ n_levels <= n_levels_max /\ Size(p) >= n_levels_max /\ Size(marks) >= n_levels_max
      /\ Size(p) <= n_levels_max + setups /\ Size(marks) <= n_levels_max + setups
      /\ n_levels_max > 0 => Size(p) < n_levels_max + setups
  <2>1. n_levels <= n_levels_max
    BY DEF IInv, LevelsAllocated
  <2>2. CASE setups = 0
    BY <1>1, <2>1, <2>2 DEF IInv, Unused
  <2>3. CASE setups > 0
    <3>1. Size(p) >= n_levels_max /\ Size(marks) >= n_levels_max
      BY <2>3 DEF IInv, LevelsAllocated
    <3>2. Size(p) < n_levels_max + setups /\ Size(marks) <= n_levels_max + setups
      BY <1>4, <2>3 DEF IInv, Spare
    <3> QED
      BY <1>1, <2>1, <3>1, <3>2
  <2> QED
    BY <1>1, <2>2, <2>3
<1>9. Growing'
  <2>1. Deeper' = n_levels_max
    BY <1>1, <1>4 DEF Deeper
  <2> QED
    BY <1>1, <1>4, <1>15, <1>8, <2>1 DEF Growing
<1>10. Shrinking'
  <2>1. a'[level'].rows + level' <= MaxRows
    BY <1>1, <1>4, <1>5
  <2>2. ASSUME NEW l \in DOMAIN p, p[l].cols = 0 PROVE a'[l + 1].rows = 0
    <3>1. l \in 0 .. Size(p) - 1
      BY <1>1 DEF Sized, Vec, IsVector
    <3>2. setups > 0
      BY <1>1, <3>1 DEF IInv, Unused
    <3>3. a[l + 1].rows = 0
      BY <2>2, <3>2 DEF IInv, Shrinking
    <3>4. l + 1 \in 1 .. Size(p)
      BY <1>1, <3>1
    <3> QED
      BY <1>5, <3>3, <3>4
  <2> QED
    BY <1>4, <2>1, <2>2 DEF Shrinking
<1>11. Built'
  <2>1. a'[0].of = setups' /\ a'[0].rows = n /\ a'[0] = Matrix(n, n)'
    BY <1>4, <1>5 DEF Matrix
  <2>2. Matrix(a[0].rows, a[0].rows)' = Matrix(n, n)'
    BY <2>1
  <2> QED
    BY <1>1, <1>4, <2>1, <2>2 DEF Built
<1>12. Spare' /\ Solving' /\ NewVectors' /\ LevelsFit'
  BY <1>4 DEF Spare, Solving, NewVectors, LevelsFit
<1>13. TypeOK'
  BY <1>6, <1>7, TypeParts, PTL
<1>14. LevelsAllocated'
  <2>1. n_levels' <= n_levels_max' /\ Size(p') >= n_levels_max' /\ Size(marks') >= n_levels_max'
    BY <1>4, <1>15, <1>8
  <2>2. Size(a') = Size(p') + 1 /\ Size(sol') = Size(a') /\ Size(rhs') = Size(a')
    BY <1>4, <1>5
  <2>3. pc' # "idle"
    BY <1>4
  <2> QED
    BY <1>13, <2>1, <2>2, <2>3 DEF LevelsAllocated
<1> QED
  BY <1>6, <1>7, <1>9, <1>10, <1>11, <1>12, <1>14 DEF IInv

(* What setup finds at a level.                                             *)
LEMMA InSetup ==
  ASSUME IInv, pc = "setup"
  PROVE  /\ Sized /\ Scalars
         /\ setups \in Nat /\ setups > 0 /\ setups <= MaxSetups
         /\ level \in Nat /\ level <= MaxRows /\ MaxRows \in Nat /\ LastPoints \in Nat \ {0}
         /\ n_levels \in Nat /\ n_levels_max \in Nat /\ n_levels <= n_levels_max
         /\ Size(p) \in Nat /\ Size(marks) \in Nat
         /\ Size(a) = Size(p) + 1 /\ Size(sol) = Size(p) + 1 /\ Size(rhs) = Size(p) + 1
         /\ Deeper \in Nat /\ Deeper >= level /\ Deeper >= n_levels_max
         /\ Deeper = level \/ Deeper = n_levels_max
         /\ Size(p) >= Deeper /\ Size(p) < Deeper + setups
         /\ level < n_levels_max => Size(p) <= n_levels_max + setups - 2
         /\ Size(marks) >= Deeper /\ Size(marks) < Deeper + setups
         /\ a[level] \in MatrixRecord /\ a[level].rows \in Nat
         /\ a[level].rows + level <= MaxRows
<1>1. Sized /\ Scalars /\ level \in Int /\ setups \in Nat /\ Size(p) \in Nat /\ n_levels \in Nat
      /\ setups > 0 /\ level >= 0
      /\ Size(a) = Size(p) + 1 /\ Size(sol) = Size(p) + 1 /\ Size(rhs) = Size(p) + 1
  BY Known DEF IInv, Growing
<1>2. level \in Nat /\ level <= MaxRows /\ MaxRows \in Nat /\ LastPoints \in Nat \ {0}
      /\ n_levels_max \in Nat /\ Size(marks) \in Nat /\ setups <= MaxSetups
  BY <1>1, Parameters DEF Scalars, Sized, Vec
<1>3. Deeper \in Nat /\ Deeper >= level /\ Deeper >= n_levels_max
      /\ (Deeper = level \/ Deeper = n_levels_max)
  BY <1>2 DEF Deeper
<1>4. /\ Size(p) >= Deeper /\ Size(p) < Deeper + setups
      /\ level < n_levels_max => Size(p) <= n_levels_max + setups - 2
      /\ Size(marks) >= Deeper /\ Size(marks) < Deeper + setups
      /\ n_levels <= n_levels_max
      /\ a[level].rows + level <= MaxRows
  BY DEF IInv, Growing, LevelsAllocated, Shrinking
<1>5. level \in 0 .. Size(a) - 1
  BY <1>1, <1>2, <1>3, <1>4
<1>6. a[level] \in MatrixRecord
  BY <1>1, <1>5 DEF Sized, Vec, IsVector
<1>7. a[level].rows \in Nat
  BY <1>6, <1>2 DEF MatrixRecord
<1> QED
  BY <1>1, <1>2, <1>3, <1>4, <1>6, <1>7

LEMMA Marked ==
  ASSUME IInv, pc = "setup", MarkLevel
  PROVE  /\ Vec(marks', 0 .. MaxRows)
         /\ Size(marks') = Size(marks) + IF level >= n_levels_max THEN 1 ELSE 0
         /\ level < Size(marks')
         /\ marks'[level] = a[level].rows
         /\ \A l \in 0 .. level - 1 : marks'[l] = marks[l]
<1> DEFINE T == 0 .. MaxRows
           known == IF level >= n_levels_max THEN Push(marks, 0) ELSE marks
<1>1. /\ Vec(marks, T) /\ Size(marks) \in Nat
      /\ level \in Nat /\ n_levels_max \in Nat /\ Deeper \in Nat
      /\ Deeper >= level /\ Deeper >= n_levels_max /\ Size(marks) >= Deeper
      /\ 0 \in T /\ a[level].rows \in T
  BY InSetup DEF Sized
<1> HIDE DEF T
<1>2. /\ Vec(known, T)
      /\ Size(known) = Size(marks) + IF level >= n_levels_max THEN 1 ELSE 0
      /\ \A l \in 0 .. Size(marks) - 1 : known[l] = marks[l]
  <2>1. /\ Vec(Push(marks, 0), T)
        /\ Size(Push(marks, 0)) = Size(marks) + 1
        /\ \A l \in 0 .. Size(marks) - 1 : Push(marks, 0)[l] = marks[l]
    BY <1>1, PushVec
  <2>2. CASE level >= n_levels_max
    BY <2>1, <2>2
  <2>3. CASE ~(level >= n_levels_max)
    BY <1>1, <2>3
  <2> QED
    BY <2>2, <2>3
<1>3. marks' = Set(known, level, a[level].rows)
  BY DEF MarkLevel, Set
<1> HIDE DEF known
<1>4. level \in 0 .. Size(known) - 1
  BY <1>1, <1>2
<1>5. /\ Vec(marks', T) /\ Size(marks') = Size(known)
      /\ marks'[level] = a[level].rows
      /\ \A l \in 0 .. Size(known) - 1 : l # level => marks'[l] = known[l]
  <2>1. Vec(known, T) /\ a[level].rows \in T
    BY <1>1, <1>2
  <2> QED
    BY <1>3, <1>4, <2>1, SetVec
<1> QED
  BY <1>1, <1>2, <1>4, <1>5 DEF T

LEMMA EndSetupKeeps ==
  ASSUME IInv, pc = "setup", EndSetup, MarkLevel \/ UNCHANGED marks
  PROVE  IInv'
<1>1. /\ Sized /\ Scalars
      /\ setups \in Nat /\ setups > 0
      /\ level \in Nat /\ level <= MaxRows /\ MaxRows \in Nat
      /\ n_levels_max \in Nat
      /\ Size(p) \in Nat /\ Size(marks) \in Nat
      /\ Size(a) = Size(p) + 1 /\ Size(sol) = Size(p) + 1 /\ Size(rhs) = Size(p) + 1
      /\ Deeper \in Nat /\ Deeper >= level /\ Deeper >= n_levels_max
      /\ Deeper = level \/ Deeper = n_levels_max
      /\ Size(p) >= Deeper /\ Size(p) < Deeper + setups
      /\ Size(marks) >= Deeper /\ Size(marks) < Deeper + setups
      /\ a[level] \in MatrixRecord /\ a[level].rows \in Nat
  BY InSetup
<1>2. /\ n_levels' = level /\ n_levels_max' = Deeper /\ pc' = "idle"
      /\ lu_fact' = (IF a[level].rows = 0 THEN lu_fact ELSE a[level])
      /\ setups' = setups /\ level' = level /\ a' = a /\ p' = p /\ r_matrix' = r_matrix
      /\ sol' = sol /\ rhs' = rhs /\ missed' = missed
      /\ max_iter' = max_iter /\ iter' = iter /\ below' = below
  BY DEF EndSetup, Deepest, Deeper, vectors, loop
<1>3. /\ Vec(marks', 0 .. MaxRows)
      /\ Size(marks') >= Size(marks)
      /\ Size(marks') <= Size(marks) + 1
      /\ \A l \in 0 .. level - 1 : marks'[l] = marks[l]
  <2>1. CASE MarkLevel
    BY <1>1, <2>1, Marked
  <2>2. CASE UNCHANGED marks
    BY <1>1, <2>2 DEF Sized
  <2> QED
    BY <2>1, <2>2
<1>4. Size(a') = Size(a) /\ Size(p') = Size(p) /\ Size(sol') = Size(sol) /\ Size(rhs') = Size(rhs)
  BY <1>2, Zenon
<1>5. Size(marks') \in Nat
  BY <1>3 DEF Vec
<1>6. Sized'
  BY <1>1, <1>2, <1>3, Zenon DEF Sized
<1>7. Unused' /\ Growing' /\ Solving' /\ Built' /\ NewVectors'
  BY <1>1, <1>2 DEF Unused, Growing, Solving, Built, NewVectors
<1>8. Scalars'
  <2>1. level \in 0 .. MaxRows /\ Deeper \in 0 .. MaxRows
    BY <1>1 DEF Scalars
  <2> QED
    BY <1>1, <1>2, <2>1 DEF Scalars
<1>9. Spare'
  BY <1>1, <1>2, <1>3, <1>4, <1>5 DEF Spare
<1>10. Shrinking'
  BY <1>1, <1>2 DEF IInv, Shrinking
<1>11. TypeOK'
  BY <1>6, <1>8, TypeParts, PTL
<1>12. LevelsAllocated'
  <2>1. n_levels' <= n_levels_max' /\ Size(p') >= n_levels_max' /\ Size(marks') >= n_levels_max'
    BY <1>1, <1>2, <1>3, <1>4, <1>5
  <2>2. Size(a') = Size(p') + 1 /\ Size(sol') = Size(a') /\ Size(rhs') = Size(a')
    BY <1>1, <1>4
  <2>3. Size(p') < n_levels_max' + setups' /\ Size(marks') <= n_levels_max' + setups'
    BY <1>1, <1>2, <1>3, <1>4, <1>5
  <2> QED
    BY <1>11, <2>1, <2>2, <2>3 DEF LevelsAllocated
<1>13. LevelsFit'
  <2>1. SUFFICES ASSUME ~missed
                 PROVE  (\A l \in 0 .. level - 1 : Fits(l)') /\ a[0].of = setups /\ lu_fact' = a[level]
    BY <1>2 DEF LevelsFit
  <2>2. (\A l \in 0 .. level - 1 : Fits(l)) /\ a[0].of = setups /\ a[level].rows > 0
    BY <2>1 DEF IInv, Built
  <2>3. ASSUME NEW l \in 0 .. level - 1 PROVE Fits(l)'
    BY <1>2, <1>3, <2>2 DEF Fits, Matrix
  <2> QED
    BY <1>1, <1>2, <2>2, <2>3
<1> QED
  BY <1>6, <1>7, <1>8, <1>9, <1>10, <1>12, <1>13 DEF IInv

(* The vectors of levels are as long as the next level needs them.          *)
LEMMA NextVec ==
  ASSUME IInv, pc = "setup", NEW T, NEW v, Vec(v, T), Size(v) = Size(p) + 1, NEW x \in T
  PROVE  /\ Vec(Grown(v, x), T)
         /\ Size(Grown(v, x)) = Size(p) + 1 + IF NeedsLevel THEN 1 ELSE 0
         /\ level + 1 \in 0 .. Size(Grown(v, x)) - 1
         /\ \A l \in 0 .. Size(p) : Grown(v, x)[l] = v[l]
         /\ NeedsLevel => Grown(v, x)[Size(p) + 1] = x
<1>1. /\ level \in Nat /\ n_levels_max \in Nat /\ Size(p) \in Nat
      /\ Deeper \in Nat /\ Deeper >= level /\ Deeper >= n_levels_max /\ Size(p) >= Deeper
  BY InSetup
<1>2. /\ Vec(Grown(v, x), T)
      /\ Size(Grown(v, x)) = Size(v) + IF NeedsLevel THEN 1 ELSE 0
      /\ \A l \in 0 .. Size(v) - 1 : Grown(v, x)[l] = v[l]
      /\ NeedsLevel => Grown(v, x)[Size(v)] = x
  BY GrownVec
<1>3. level + 1 \in 0 .. Size(Grown(v, x)) - 1
  BY <1>1, <1>2 DEF NeedsLevel
<1> QED
  BY <1>1, <1>2, <1>3

LEMMA ResizedVec ==
  ASSUME IInv, pc = "setup", NEW v, Vec(v, VectorRecord), Size(v) = Size(p) + 1,
         NEW n \in 0 .. MaxRows
  PROVE  /\ Vec(Resized(v, n), VectorRecord)
         /\ Size(Resized(v, n)) = Size(p) + 1 + IF NeedsLevel THEN 1 ELSE 0
         /\ Resized(v, n)[level + 1].size = n
         /\ \A l \in 0 .. level : Resized(v, n)[l] = v[l]
<1> DEFINE g == Grown(v, Vector(0))
<1>1. Vector(0) \in VectorRecord
  BY Parameters DEF Vector, VectorRecord
<1>2. /\ Vec(g, VectorRecord)
      /\ Size(g) = Size(p) + 1 + IF NeedsLevel THEN 1 ELSE 0
      /\ level + 1 \in 0 .. Size(g) - 1
      /\ \A l \in 0 .. Size(p) : g[l] = v[l]
  BY <1>1, NextVec
<1>3. Resized(v, n) = SetSize(g, level + 1, n)
  BY DEF Resized, SetSize
<1> HIDE DEF g
<1>4. /\ Vec(Resized(v, n), VectorRecord) /\ Size(Resized(v, n)) = Size(g)
      /\ Resized(v, n)[level + 1].size = n
      /\ \A l \in 0 .. Size(g) - 1 : l # level + 1 => Resized(v, n)[l] = g[l]
  BY <1>2, <1>3, SizeVec
<1>5. level \in Nat /\ level <= Size(p) /\ Size(p) \in Nat
  BY InSetup
<1> QED
  BY <1>2, <1>4, <1>5

(* How the vectors stand at the next level.                                 *)
LEMMA NextGrowing ==
  ASSUME IInv, pc = "setup", MarkLevel, level' = level + 1,
         setups' = setups, n_levels_max' = n_levels_max, n_levels' = n_levels,
         Size(p') = Size(p) + IF NeedsLevel THEN 1 ELSE 0
  PROVE  /\ Size(p') >= Deeper' /\ Size(p') < Deeper' + setups
         /\ level' < n_levels_max => Size(p') <= n_levels_max + setups - 2
         /\ Size(marks') >= Deeper' /\ Size(marks') < Deeper' + setups
         /\ Deeper' \in Nat /\ Deeper' >= n_levels_max
<1>1. /\ setups \in Nat /\ setups > 0
      /\ level \in Nat /\ n_levels_max \in Nat
      /\ Size(p) \in Nat /\ Size(marks) \in Nat
      /\ Deeper \in Nat /\ Size(p) >= Deeper /\ Size(p) < Deeper + setups
      /\ level < n_levels_max => Size(p) <= n_levels_max + setups - 2
      /\ Size(marks) >= Deeper /\ Size(marks) < Deeper + setups
  BY InSetup
<1>2. Size(marks') = Size(marks) + IF level >= n_levels_max THEN 1 ELSE 0
  BY Marked
<1>3. /\ Deeper = IF level > n_levels_max THEN level ELSE n_levels_max
      /\ Deeper' = IF level + 1 > n_levels_max THEN level + 1 ELSE n_levels_max
  BY DEF Deeper
<1>4. Deeper' \in Nat /\ Deeper' >= n_levels_max
  BY <1>1, <1>3
<1>5. Size(p') >= Deeper' /\ Size(p') < Deeper' + setups
      /\ (level' < n_levels_max => Size(p') <= n_levels_max + setups - 2)
  <2>1. CASE level + 1 >= n_levels_max
    BY <1>1, <1>3, <2>1 DEF NeedsLevel
  <2>2. CASE level + 1 < n_levels_max
    BY <1>1, <1>3, <2>2 DEF NeedsLevel
  <2> QED
    BY <1>1, <2>1, <2>2
<1>6. Size(marks') >= Deeper' /\ Size(marks') < Deeper' + setups
  BY <1>1, <1>2, <1>3
<1> QED
  BY <1>4, <1>5, <1>6

(* What remains to be shown once the next matrices are known.               *)
LEMMA LevelAdded ==
  ASSUME IInv, pc = "setup", MarkLevel, level' = level + 1,
         NEW n \in 1 .. a[level].rows - 1, NextVectors(n),
         setups' = setups, n_levels_max' = n_levels_max, n_levels' = n_levels,
         lu_fact' = lu_fact, max_iter' = max_iter, iter' = iter, below' = below,
         missed' \in BOOLEAN, r_matrix' \in MatrixRecord, pc' \in {"setup", "undefined"},
         Vec(p', MatrixRecord), Size(p') = Size(p) + (IF NeedsLevel THEN 1 ELSE 0),
         Vec(a', MatrixRecord), Size(a') = Size(a) + (IF NeedsLevel THEN 1 ELSE 0)
  PROVE  /\ Sized' /\ Unused' /\ Growing' /\ Spare' /\ Solving' /\ NewVectors'
         /\ LevelsAllocated'
         /\ sol'[level + 1].size = n /\ rhs'[level + 1].size = n
         /\ \A l \in 0 .. level : sol'[l] = sol[l] /\ rhs'[l] = rhs[l]
<1>1. /\ Sized /\ Scalars /\ setups \in Nat /\ setups > 0 /\ setups <= MaxSetups
      /\ level \in Nat /\ level <= MaxRows /\ MaxRows \in Nat
      /\ n_levels \in Nat /\ n_levels_max \in Nat /\ n_levels <= n_levels_max
      /\ Size(p) \in Nat
      /\ Size(a) = Size(p) + 1 /\ Size(sol) = Size(p) + 1 /\ Size(rhs) = Size(p) + 1
      /\ a[level] \in MatrixRecord /\ a[level].rows \in Nat
      /\ a[level].rows + level <= MaxRows
  BY InSetup
<1>2. n \in 0 .. MaxRows /\ level + 1 \in -1 .. MaxRows
  BY <1>1
<1>3. Vec(sol, VectorRecord) /\ Vec(rhs, VectorRecord)
  BY <1>1 DEF Sized
<1>4. sol' = Resized(sol, n) /\ rhs' = Resized(rhs, n)
  BY DEF NextVectors
<1>5. /\ Vec(sol', VectorRecord) /\ Size(sol') = Size(p) + 1 + IF NeedsLevel THEN 1 ELSE 0
      /\ sol'[level + 1].size = n
      /\ \A l \in 0 .. level : sol'[l] = sol[l]
  BY <1>1, <1>2, <1>3, <1>4, ResizedVec
<1>6. /\ Vec(rhs', VectorRecord) /\ Size(rhs') = Size(p) + 1 + IF NeedsLevel THEN 1 ELSE 0
      /\ rhs'[level + 1].size = n
      /\ \A l \in 0 .. level : rhs'[l] = rhs[l]
  BY <1>1, <1>2, <1>3, <1>4, ResizedVec
<1>7. Vec(marks', 0 .. MaxRows)
  BY Marked
<1>8. Sized'
  BY <1>5, <1>6, <1>7, Zenon DEF Sized
<1>9. /\ Size(p') >= Deeper' /\ Size(p') < Deeper' + setups
      /\ level' < n_levels_max => Size(p') <= n_levels_max + setups - 2
      /\ Size(marks') >= Deeper' /\ Size(marks') < Deeper' + setups
      /\ Deeper' \in Nat /\ Deeper' >= n_levels_max
  BY NextGrowing
<1>10. Unused' /\ Growing' /\ Spare' /\ Solving' /\ NewVectors'
  BY <1>1, <1>9 DEF Unused, Growing, Spare, Solving, NewVectors
<1>11. Scalars'
  BY <1>1, <1>2 DEF Scalars
<1>12. TypeOK'
  BY <1>8, <1>11, TypeParts, PTL
<1>13. LevelsAllocated'
  <2>1. Size(p') \in Nat /\ Size(marks') \in Nat
    BY <1>7 DEF Vec
  <2>2. n_levels' <= n_levels_max' /\ Size(p') >= n_levels_max' /\ Size(marks') >= n_levels_max'
    BY <1>1, <1>9, <2>1
  <2>3. Size(a') = Size(p') + 1 /\ Size(sol') = Size(a') /\ Size(rhs') = Size(a')
    BY <1>1, <1>5, <1>6
  <2> QED
    BY <1>12, <2>2, <2>3 DEF LevelsAllocated
<1> QED
  BY <1>5, <1>6, <1>8, <1>10, <1>13

(* The matrices of the next level: those there were, and perhaps new ones,  *)
(* which have no rows yet.                                                  *)
LEMMA NextMatrices ==
  ASSUME IInv, pc = "setup"
  PROVE  LET ga == Grown(a, NewMatrix)
             gp == Grown(p, NewMatrix)
         IN
         /\ Vec(ga, MatrixRecord) /\ Size(ga) = Size(a) + IF NeedsLevel THEN 1 ELSE 0
         /\ level + 1 \in 0 .. Size(ga) - 1
         /\ \A l \in 0 .. level : ga[l] = a[l]
         /\ Vec(gp, MatrixRecord) /\ Size(gp) = Size(p) + IF NeedsLevel THEN 1 ELSE 0
         /\ level \in 0 .. Size(gp) - 1
         /\ \A l \in 0 .. level - 1 : gp[l] = p[l]
         /\ \A l \in 0 .. Size(gp) - 1 : gp[l].cols = 0 => ga[l + 1].rows = 0
<1> DEFINE ga == Grown(a, NewMatrix)
           gp == Grown(p, NewMatrix)
<1>1. /\ Sized /\ setups \in Nat /\ setups > 0 /\ level \in Nat /\ level <= Size(p) /\ Size(p) \in Nat
      /\ Size(a) = Size(p) + 1
  BY InSetup
<1>2. NewMatrix \in MatrixRecord
  BY Parameters DEF NewMatrix, MatrixRecord
<1>3. Vec(a, MatrixRecord) /\ Vec(p, MatrixRecord)
  BY <1>1 DEF Sized
<1>4. /\ Vec(ga, MatrixRecord)
      /\ Size(ga) = Size(p) + 1 + IF NeedsLevel THEN 1 ELSE 0
      /\ level + 1 \in 0 .. Size(ga) - 1
      /\ \A l \in 0 .. Size(p) : ga[l] = a[l]
      /\ NeedsLevel => ga[Size(p) + 1] = NewMatrix
  BY <1>1, <1>2, <1>3, NextVec
<1>5. /\ Vec(gp, MatrixRecord)
      /\ Size(gp) = Size(p) + IF NeedsLevel THEN 1 ELSE 0
      /\ \A l \in 0 .. Size(p) - 1 : gp[l] = p[l]
  BY <1>2, <1>3, GrownVec
<1> HIDE DEF ga, gp
<1>6. level \in 0 .. Size(gp) - 1
  BY <1>1, <1>4, <1>5
<1>7. ASSUME NEW l \in 0 .. Size(gp) - 1, gp[l].cols = 0
      PROVE  ga[l + 1].rows = 0
  <2>1. CASE l < Size(p)
    <3>1. l \in DOMAIN p /\ gp[l] = p[l] /\ l + 1 \in 0 .. Size(p)
      BY <1>1, <1>3, <1>5, <2>1 DEF Vec, IsVector
    <3>2. a[l + 1].rows = 0
      BY <1>1, <1>7, <3>1 DEF IInv, Shrinking
    <3> QED
      BY <1>4, <3>1, <3>2
  <2>2. CASE l >= Size(p)
    <3>1. NeedsLevel /\ l = Size(p)
      BY <1>1, <1>5, <2>2
    <3> QED
      BY <1>4, <3>1 DEF NewMatrix
  <2> QED
    BY <1>1, <2>1, <2>2
<1> QED
  BY <1>1, <1>4, <1>5, <1>6, <1>7 DEF ga, gp

LEMMA BuildLevelKeeps ==
  ASSUME IInv, NEW n \in 0 .. MaxRows, BuildLevel(n)
  PROVE  IInv'
<1> DEFINE rows == a[level].rows
           ga == Grown(a, NewMatrix)
           gp == Grown(p, NewMatrix)
<1>1. /\ pc = "setup" /\ rows > LastPoints /\ n \in 1 .. rows - 1 /\ MarkLevel /\ NextVectors(n)
      /\ p' = Set(gp, level, Matrix(rows, n)) /\ a' = Set(ga, level + 1, Matrix(n, n))
      /\ r_matrix' = Matrix(n, rows) /\ level' = level + 1
      /\ pc' = pc /\ setups' = setups /\ lu_fact' = lu_fact /\ missed' = missed
      /\ n_levels' = n_levels /\ n_levels_max' = n_levels_max
      /\ max_iter' = max_iter /\ iter' = iter /\ below' = below
  BY DEF BuildLevel, Coarsens, Set, loop
<1>2. /\ Sized /\ Scalars /\ setups \in Nat /\ setups > 0 /\ setups <= MaxSetups
      /\ level \in Nat /\ MaxRows \in Nat /\ Size(p) \in Nat
      /\ Size(a) = Size(p) + 1 /\ rows \in Nat /\ rows + level <= MaxRows
  BY <1>1, InSetup
<1>3. /\ Vec(ga, MatrixRecord) /\ Size(ga) = Size(a) + IF NeedsLevel THEN 1 ELSE 0
      /\ level + 1 \in 0 .. Size(ga) - 1
      /\ \A l \in 0 .. level : ga[l] = a[l]
      /\ Vec(gp, MatrixRecord) /\ Size(gp) = Size(p) + IF NeedsLevel THEN 1 ELSE 0
      /\ level \in 0 .. Size(gp) - 1
      /\ \A l \in 0 .. level - 1 : gp[l] = p[l]
      /\ \A l \in 0 .. Size(gp) - 1 : gp[l].cols = 0 => ga[l + 1].rows = 0
  BY <1>1, NextMatrices
<1> HIDE DEF ga, gp, rows
<1>4. Matrix(rows, n) \in MatrixRecord /\ Matrix(n, n) \in MatrixRecord /\ Matrix(n, rows) \in MatrixRecord
  <2>1. rows \in 0 .. MaxRows /\ n \in 0 .. MaxRows /\ setups \in 0 .. MaxSetups
    BY <1>1, <1>2, Parameters
  <2> QED
    BY <2>1 DEF Matrix, MatrixRecord
<1>5. /\ Vec(a', MatrixRecord) /\ Size(a') = Size(ga)
      /\ a'[level + 1] = Matrix(n, n)
      /\ \A l \in 0 .. Size(ga) - 1 : l # level + 1 => a'[l] = ga[l]
  BY <1>1, <1>3, <1>4, SetVec
<1>6. /\ Vec(p', MatrixRecord) /\ Size(p') = Size(gp)
      /\ p'[level] = Matrix(rows, n)
      /\ \A l \in 0 .. Size(gp) - 1 : l # level => p'[l] = gp[l]
  <2>1. /\ Vec(gp, MatrixRecord) /\ level \in 0 .. Size(gp) - 1
        /\ Matrix(rows, n) \in MatrixRecord /\ p' = Set(gp, level, Matrix(rows, n))
    BY <1>1, <1>3, <1>4
  <2> QED
    BY <2>1, SetVec
<1>7. missed' \in BOOLEAN
  BY <1>1, <1>2 DEF Scalars
<1>8. /\ Sized' /\ Unused' /\ Growing' /\ Spare' /\ Solving' /\ NewVectors'
      /\ LevelsAllocated'
      /\ sol'[level + 1].size = n /\ rhs'[level + 1].size = n
      /\ \A l \in 0 .. level : sol'[l] = sol[l] /\ rhs'[l] = rhs[l]
  <2>1. n \in 1 .. a[level].rows - 1
    BY <1>1 DEF rows
  <2>2. /\ r_matrix' \in MatrixRecord /\ pc' \in {"setup", "undefined"}
        /\ Size(p') = Size(p) + (IF NeedsLevel THEN 1 ELSE 0)
        /\ Size(a') = Size(a) + (IF NeedsLevel THEN 1 ELSE 0)
    BY <1>1, <1>3, <1>4, <1>5, <1>6
  <2> QED
    BY <1>1, <1>5, <1>6, <1>7, <2>1, <2>2, LevelAdded
<1>9. \A l \in 0 .. level : a'[l] = a[l]
  BY <1>2, <1>3, <1>5
<1>10. \A l \in 0 .. level - 1 : p'[l] = p[l]
  BY <1>2, <1>3, <1>6
<1>11. a'[level + 1].rows = n /\ p'[level].cols = n
  BY <1>5, <1>6 DEF Matrix
<1>12. Shrinking'
  <2>1. a'[level'].rows + level' <= MaxRows
    BY <1>1, <1>2, <1>11
  <2>2. ASSUME NEW l \in DOMAIN p', p'[l].cols = 0 PROVE a'[l + 1].rows = 0
    <3>1. l \in 0 .. Size(gp) - 1
      BY <1>6 DEF Vec, IsVector
    <3>2. l # level
      BY <1>1, <1>11, <2>2
    <3>3. ga[l + 1].rows = 0
      BY <1>3, <1>6, <2>2, <3>1, <3>2
    <3>4. l + 1 \in 0 .. Size(ga) - 1 /\ l + 1 # level + 1
      BY <1>2, <1>3, <3>1, <3>2
    <3> QED
      BY <1>5, <3>3, <3>4
  <2> QED
    BY <2>1, <2>2 DEF Shrinking
<1>13. Built'
  <2>1. SUFFICES ASSUME ~missed
                 PROVE  /\ \A l \in 0 .. level : Fits(l)'
                        /\ a'[0].of = setups
                        /\ a'[level + 1].rows > 0
                        /\ a'[level + 1] = Matrix(a'[level + 1].rows, a'[level + 1].rows)
    BY <1>1, <1>2 DEF Built, Matrix
  <2>2. (\A l \in 0 .. level - 1 : Fits(l)) /\ a[0].of = setups
    BY <1>1, <2>1 DEF IInv, Built
  <2>3. marks'[level] = rows /\ \A l \in 0 .. level - 1 : marks'[l] = marks[l]
    BY <1>1, Marked DEF rows
  <2>4. ASSUME NEW l \in 0 .. level - 1 PROVE Fits(l)'
    <3>1. l \in 0 .. level /\ l + 1 \in 0 .. level
      BY <1>2
    <3>2. /\ a'[l] = a[l] /\ a'[l + 1] = a[l + 1] /\ p'[l] = p[l]
          /\ sol'[l + 1] = sol[l + 1] /\ rhs'[l + 1] = rhs[l + 1] /\ marks'[l] = marks[l]
      BY <1>8, <1>9, <1>10, <2>3, <3>1
    <3> QED
      BY <1>1, <2>2, <3>2 DEF Fits, Matrix
  <2>5. ASSUME NEW l, l = level PROVE Fits(l)'
    <3>1. /\ a'[l].rows = rows /\ a'[l + 1] = Matrix(n, n) /\ p'[l] = Matrix(rows, n)
          /\ sol'[l + 1].size = n /\ rhs'[l + 1].size = n /\ marks'[l] = rows
      BY <1>2, <1>5, <1>6, <1>8, <1>9, <2>3, <2>5 DEF rows
    <3>2. a'[l + 1].rows = n /\ rows > n
      BY <1>1, <1>2, <3>1 DEF Matrix
    <3> QED
      BY <1>1, <3>1, <3>2 DEF Fits, Matrix
  <2>6. a'[0].of = setups
    BY <1>2, <1>9, <2>2
  <2> QED
    <3>1. \A l \in 0 .. level : Fits(l)'
      BY <1>2, <2>4, <2>5
    <3> QED
      BY <1>1, <1>2, <1>5, <1>11, <2>6, <3>1
<1>14. LevelsFit'
  BY <1>1 DEF LevelsFit
<1> QED
  BY <1>8, <1>12, <1>13, <1>14 DEF IInv

LEMMA SkipLevelKeeps ==
  ASSUME IInv, NEW n \in 0 .. MaxRows, SkipLevel(n)
  PROVE  IInv'
<1> DEFINE rows == a[level].rows
           ga == Grown(a, NewMatrix)
           gp == Grown(p, NewMatrix)
           cols == gp[level].cols
           m == [rows |-> rows, cols |-> cols, of |-> 0]
           one == [rows |-> 1, cols |-> 1, of |-> 0]
<1>1. /\ pc = "setup" /\ rows > LastPoints /\ n \in 1 .. rows - 1 /\ MarkLevel /\ NextVectors(n)
      /\ missed' = TRUE /\ level' = level + 1
      /\ pc' \in {"setup", "undefined"} /\ setups' = setups /\ lu_fact' = lu_fact
      /\ n_levels' = n_levels /\ n_levels_max' = n_levels_max
      /\ max_iter' = max_iter /\ iter' = iter /\ below' = below
      /\ \/ pc' = "undefined" /\ cols > 1 /\ a' = ga /\ r_matrix' = r_matrix
         \/ pc' = "undefined" /\ cols = 0 /\ a' = ga /\ r_matrix' = r_matrix
         \/ pc' = "setup" /\ cols = 0 /\ a' = ga /\ r_matrix' = r_matrix
         \/ /\ pc' = "setup" /\ cols = 1 /\ a' = Set(ga, level + 1, one)
            /\ r_matrix' = [rows |-> 1, cols |-> rows, of |-> 0]
  BY DEF SkipLevel, Coarsens, Set, loop
<1>2. p' = Set(gp, level, m)
  BY DEF SkipLevel, Set
<1>3. /\ Sized /\ Scalars /\ setups \in Nat /\ setups > 0 /\ setups <= MaxSetups
      /\ level \in Nat /\ MaxRows \in Nat /\ Size(p) \in Nat /\ LastPoints \in Nat \ {0}
      /\ Size(a) = Size(p) + 1 /\ rows \in Nat /\ rows + level <= MaxRows
  BY <1>1, InSetup
<1>4. /\ Vec(ga, MatrixRecord) /\ Size(ga) = Size(a) + IF NeedsLevel THEN 1 ELSE 0
      /\ level + 1 \in 0 .. Size(ga) - 1
      /\ Vec(gp, MatrixRecord) /\ Size(gp) = Size(p) + IF NeedsLevel THEN 1 ELSE 0
      /\ level \in 0 .. Size(gp) - 1
      /\ \A l \in 0 .. Size(gp) - 1 : gp[l].cols = 0 => ga[l + 1].rows = 0
  BY <1>1, NextMatrices
<1> HIDE DEF ga, gp, rows
<1>5. gp[level] \in MatrixRecord
  BY <1>4 DEF Vec, IsVector
<1>6. rows \in 0 .. MaxRows
  BY <1>3
<1>7. m \in MatrixRecord /\ m.cols = cols /\ one \in MatrixRecord /\ r_matrix' \in MatrixRecord
  <2>1. cols \in 0 .. MaxRows /\ 0 \in 0 .. MaxSetups /\ 1 \in 0 .. MaxRows
    BY <1>1, <1>3, <1>5, Parameters DEF MatrixRecord
  <2>2. [rows |-> 1, cols |-> rows, of |-> 0] \in MatrixRecord
    BY <1>6, <2>1 DEF MatrixRecord
  <2>3. r_matrix \in MatrixRecord
    BY <1>3 DEF Scalars
  <2> QED
    BY <1>1, <1>6, <2>1, <2>2, <2>3 DEF MatrixRecord
<1> HIDE DEF m, one, cols
<1>8. /\ Vec(p', MatrixRecord) /\ Size(p') = Size(gp)
      /\ p'[level] = m
      /\ \A l \in 0 .. Size(gp) - 1 : l # level => p'[l] = gp[l]
  <2>1. Vec(gp, MatrixRecord) /\ level \in 0 .. Size(gp) - 1 /\ m \in MatrixRecord
    BY <1>4, <1>7
  <2> QED
    BY <1>2, <2>1, SetVec
<1>9. /\ Vec(a', MatrixRecord) /\ Size(a') = Size(ga)
      /\ \A l \in 0 .. Size(ga) - 1 : l # level + 1 => a'[l] = ga[l]
      /\ cols = 1 => pc' = "undefined" \/ a'[level + 1] = one
      /\ cols # 1 => a'[level + 1] = ga[level + 1]
  <2>1. CASE a' = ga /\ (pc' = "undefined" \/ cols # 1)
    BY <1>4, <2>1
  <2>2. CASE cols = 1 /\ a' = Set(ga, level + 1, one)
    <3>1. Vec(ga, MatrixRecord) /\ level + 1 \in 0 .. Size(ga) - 1 /\ one \in MatrixRecord
      BY <1>4, <1>7
    <3> QED
      BY <2>2, <3>1, SetVec
  <2>3. \/ a' = ga /\ (pc' = "undefined" \/ cols # 1)
        \/ cols = 1 /\ a' = Set(ga, level + 1, one)
    BY <1>1
  <2> QED
    BY <2>1, <2>2, <2>3
<1>10. /\ Sized' /\ Unused' /\ Growing' /\ Spare' /\ Solving' /\ NewVectors'
       /\ LevelsAllocated'
  <2>1. n \in 1 .. a[level].rows - 1
    BY <1>1 DEF rows
  <2>2. /\ missed' \in BOOLEAN
        /\ Size(p') = Size(p) + (IF NeedsLevel THEN 1 ELSE 0)
        /\ Size(a') = Size(a) + (IF NeedsLevel THEN 1 ELSE 0)
    BY <1>1, <1>4, <1>8, <1>9
  <2> QED
    BY <1>1, <1>7, <1>8, <1>9, <2>1, <2>2, LevelAdded
<1>11. cols = 0 => ga[level + 1].rows = 0
  BY <1>4 DEF cols
<1>12. Shrinking'
  <2>1. ASSUME pc' = "setup" PROVE a'[level'].rows + level' <= MaxRows
    <3>1. CASE cols = 0
      BY <1>1, <1>3, <1>9, <1>11, <3>1
    <3>2. CASE cols = 1
      BY <1>1, <1>3, <1>9, <2>1, <3>2 DEF one
    <3> QED
      BY <1>1, <2>1, <3>1, <3>2
  <2>2. ASSUME NEW l \in DOMAIN p', p'[l].cols = 0 PROVE a'[l + 1].rows = 0
    <3>1. l \in 0 .. Size(gp) - 1
      BY <1>8 DEF Vec, IsVector
    <3>2. CASE l = level
      <4>1. cols = 0
        BY <1>7, <1>8, <2>2, <3>2
      <4> QED
        BY <1>9, <1>11, <3>2, <4>1
    <3>3. CASE l # level
      <4>1. ga[l + 1].rows = 0
        BY <1>4, <1>8, <2>2, <3>1, <3>3
      <4>2. l + 1 \in 0 .. Size(ga) - 1 /\ l + 1 # level + 1
        BY <1>3, <1>4, <3>1, <3>3
      <4> QED
        BY <1>9, <4>1, <4>2
    <3> QED
      BY <3>2, <3>3
  <2> QED
    BY <2>1, <2>2 DEF Shrinking
<1>13. Built' /\ LevelsFit'
  BY <1>1 DEF Built, LevelsFit
<1> QED
  BY <1>10, <1>12, <1>13 DEF IInv
-----------------------------------------------------------------------------
LEMMA Stutters ==
  ASSUME IInv, UNCHANGED vars
  PROVE  IInv'
<1>1. /\ pc' = pc /\ setups' = setups /\ level' = level /\ a' = a /\ p' = p /\ r_matrix' = r_matrix
      /\ marks' = marks /\ lu_fact' = lu_fact /\ n_levels' = n_levels
      /\ n_levels_max' = n_levels_max /\ missed' = missed /\ sol' = sol /\ rhs' = rhs
      /\ max_iter' = max_iter /\ iter' = iter /\ below' = below
  BY DEF vars, levels, vectors, loop
<1>2. Sized' /\ Unused' /\ Growing' /\ Spare' /\ Shrinking'
  BY <1>1, Zenon DEF IInv, Sized, Unused, Growing, Spare, Shrinking, Deeper
<1>3. Solving' /\ Built' /\ NewVectors' /\ LevelsFit'
  BY <1>1, Zenon DEF IInv, Solving, Built, NewVectors, LevelsFit, Fits, Matrix
<1>4. TypeOK /\ TypeOK'
  BY <1>1, Zenon DEF IInv, LevelsAllocated, TypeOK
<1>5. LevelsAllocated'
  BY <1>1, <1>4, Zenon DEF IInv, LevelsAllocated
<1> QED
  BY <1>2, <1>3, <1>5 DEF IInv

LEMMA Inductive == IInv /\ [Next]_vars => IInv'
<1> SUFFICES ASSUME IInv, [Next]_vars PROVE IInv'
  OBVIOUS
<1>1. CASE \E n \in 1 .. MaxRows : Setup(n)
  BY <1>1, SetupKeeps
<1>2. CASE \E max \in MaxIters : Solve(max)
  BY <1>2, SolveKeeps
<1>3. CASE SetupStep
  <2>1. CASE LastLevel
    BY <2>1, EndSetupKeeps DEF LastLevel
  <2>2. ASSUME NEW n \in 0 .. MaxRows, CoarseFails(n) PROVE IInv'
    BY <2>2, EndSetupKeeps DEF CoarseFails
  <2>3. ASSUME NEW n \in 0 .. MaxRows, BuildLevel(n) PROVE IInv'
    BY <2>3, BuildLevelKeeps
  <2>4. ASSUME NEW n \in 0 .. MaxRows, SkipLevel(n) PROVE IInv'
    BY <2>4, SkipLevelKeeps
  <2> QED
    BY <1>3, <2>1, <2>2, <2>3, <2>4 DEF SetupStep
<1>4. CASE SolveStep
  BY <1>4, StartCycleKeeps, DownKeeps, SolveLastKeeps, UpKeeps, EndCycleKeeps, EndSolveKeeps
     DEF SolveStep
<1>5. CASE UNCHANGED vars
  BY <1>5, Stutters
<1> QED
  BY <1>1, <1>2, <1>3, <1>4, <1>5 DEF Next

(* However the depths of the setups follow each other, no level is missing  *)
(* its matrices, markers and vectors, and no setup leaves more than one     *)
(* spare entry behind.                                                      *)
THEOREM Allocated == Spec => []LevelsAllocated
<1>1. IInv => LevelsAllocated
  BY DEF IInv
<1> QED
  BY <1>1, Initially, Inductive, PTL DEF Spec

(* After a setup whose builders succeeded every level was built in that     *)
(* setup, is smaller than the one before and fits it.                       *)
THEOREM EveryLevelFits == Spec => []LevelsFit
<1>1. IInv => LevelsFit
  BY DEF IInv
<1> QED
  BY <1>1, Initially, Inductive, PTL DEF Spec

(* What a V-cycle adds to the solution was computed in that cycle.          *)
THEOREM OnlyNewCorrections == Spec => []CorrectionsAreNew
<1>1. IInv => CorrectionsAreNew
  <2> SUFFICES ASSUME IInv, pc = "up", ~missed, NEW l \in level + 1 .. n_levels
               PROVE  sol[l].cycle = iter + 1
    BY DEF CorrectionsAreNew
  <2>1. level \in Int /\ n_levels \in Nat /\ level >= -1
    BY Known, Parameters DEF Scalars
  <2>2. l \in 0 .. n_levels
    BY <2>1
  <2> QED
    BY <2>2 DEF IInv, NewVectors
<1> QED
  BY <1>1, Initially, Inductive, PTL DEF Spec
-----------------------------------------------------------------------------
(* One level: the builders of P and the product.  First what the proofs     *)
(* need of sets, sequences and recursive functions.                         *)

(* A function on 1 .. n is a sequence.                                     *)
LEMMA IsASeqOf ==
  ASSUME NEW T, NEW n \in Nat, NEW s \in [1 .. n -> T]
  PROVE  s \in Seq(T) /\ Len(s) = n /\ DOMAIN s = 1 .. n
<1>1. s \in Seq(T)
  BY IsASeq
<1>2. DOMAIN s = 1 .. n
  OBVIOUS
<1>3. Len(s) = n
  BY <1>1, <1>2, LenProperties
<1>4. QED
  BY <1>1, <1>2, <1>3

(* The numbers 0 .. x, whose inclusion is the order of the naturals.       *)
UpTo(x) == 0 .. x

(* A set of naturals has a least element.                                  *)
LEMMA LeastNatural ==
  ASSUME NEW T \in SUBSET Nat, T # {}
  PROVE  \E m \in T : \A y \in T : m <= y
<1> DEFINE Segments == { UpTo(x) : x \in T }
<1>1. IsWellFoundedOn(StrictSubsetOrdering(Nat), FiniteSubsetsOf(Nat))
  BY FS_StrictSubsetOrderingWellFounded
<1>2. Segments \subseteq FiniteSubsetsOf(Nat)
  <2> SUFFICES ASSUME NEW x \in T PROVE UpTo(x) \in FiniteSubsetsOf(Nat)
    OBVIOUS
  <2> IsFiniteSet(0 .. x)
    BY FS_Interval
  <2> QED
    BY DEF UpTo, FiniteSubsetsOf
<1>3. Segments # {}
  OBVIOUS
<1>4. PICK s \in Segments :
        \A t \in Segments : <<t, s>> \notin StrictSubsetOrdering(Nat)
  <2> HIDE DEF Segments
  <2> QED
    BY <1>1, <1>2, <1>3, WFMin
<1>5. PICK m \in T : s = UpTo(m)
  OBVIOUS
<1>6. \A y \in T : m <= y
  <2> SUFFICES ASSUME NEW y \in T, y < m PROVE FALSE
    OBVIOUS
  <2>1. UpTo(y) \subseteq UpTo(m) /\ UpTo(y) # UpTo(m)
    BY DEF UpTo
  <2>2. UpTo(y) \in SUBSET Nat /\ UpTo(m) \in SUBSET Nat
    BY DEF UpTo
  <2>3. <<UpTo(y), UpTo(m)>> \in StrictSubsetOrdering(Nat)
    BY <2>1, <2>2 DEF StrictSubsetOrdering
  <2> QED
    BY <1>4, <1>5, <2>3
<1>7. QED
  BY <1>6

(* Induction, with the numbers a claim holds for as a set.                 *)
LEMMA InductionUpTo ==
  ASSUME NEW len \in Nat, NEW T, 0 \in T,
         \A n \in 1 .. len : n - 1 \in T => n \in T
  PROVE  0 .. len \subseteq T
<1> SUFFICES ASSUME NEW k \in 0 .. len, k \notin T PROVE FALSE
  OBVIOUS
<1> DEFINE Bad == { n \in 0 .. len : n \notin T }
<1>1. Bad \in SUBSET Nat /\ Bad # {}
  OBVIOUS
<1> HIDE DEF Bad
<1>2. PICK m \in Bad : \A y \in Bad : m <= y
  BY <1>1, LeastNatural
<1>3. m \in 1 .. len /\ m \notin T
  BY DEF Bad
<1>4. m - 1 \in 0 .. len /\ m - 1 \notin Bad
  BY <1>1, <1>2, <1>3
<1>5. QED
  BY <1>3, <1>4 DEF Bad

(* Primitive recursion over 1 .. len: F is the step, from a value in V and *)
(* a number to the next value.                                             *)
Follows(g, c, len, F) ==
  g[0] = c /\ \A n \in 1 .. len : g[n] = F[<<g[n - 1], n>>]

(* There is a function that follows the steps.                             *)
LEMMA RecursionExists ==
  ASSUME NEW V, NEW c \in V, NEW len \in Nat, NEW F \in [V \X (1 .. len) -> V]
  PROVE  \E g \in [0 .. len -> V] : Follows(g, c, len, F)
<1> DEFINE Good(g, k) == Follows(g, c, k, F)
           T == { k \in 0 .. len : \E g \in [0 .. k -> V] : Good(g, k) }
<1>1. 0 \in T
  <2> DEFINE g == [n \in 0 .. 0 |-> c]
  <2>1. g \in [0 .. 0 -> V] /\ Good(g, 0)
    BY DEF Follows
  <2> HIDE DEF g, Good
  <2>2. QED
    BY <2>1
<1>2. ASSUME NEW k \in 1 .. len, k - 1 \in T PROVE k \in T
  <2>1. PICK f \in [0 .. k - 1 -> V] : Good(f, k - 1)
    BY <1>2
  <2> DEFINE v == F[<<f[k - 1], k>>]
             g == [n \in 0 .. k |-> IF n < k THEN f[n] ELSE v]
  <2>2. k - 1 \in 0 .. k - 1 /\ f[k - 1] \in V
    OBVIOUS
  <2>3. v \in V
    BY <2>2
  <2>4. \A n \in 0 .. k : n < k => n \in 0 .. k - 1 /\ g[n] = f[n] /\ f[n] \in V
    OBVIOUS
  <2>5. g[k] = v
    OBVIOUS
  <2>6. g \in [0 .. k -> V]
    BY <2>3
  <2>7. g[0] = c
    BY <2>1, <2>4 DEF Follows
  <2> HIDE DEF g
  <2>8. ASSUME NEW n \in 1 .. k PROVE g[n] = F[<<g[n - 1], n>>]
    <3>1. n - 1 \in 0 .. k /\ n - 1 < k /\ n \in 0 .. k
      OBVIOUS
    <3>2. g[n - 1] = f[n - 1]
      BY <2>4, <3>1
    <3>3. CASE n = k
      BY <2>5, <3>2, <3>3
    <3>4. CASE n < k
      <4>1. n \in 1 .. k - 1 /\ g[n] = f[n]
        BY <2>4, <3>1, <3>4
      <4>2. QED
        BY <2>1, <3>2, <4>1 DEF Follows
    <3>5. QED
      BY <3>3, <3>4
  <2>9. QED
    BY <2>6, <2>7, <2>8 DEF Follows
<1> HIDE DEF T
<1>3. 0 .. len \subseteq T
  BY <1>1, <1>2, InductionUpTo
<1>4. len \in T
  BY <1>3
<1>5. QED
  BY <1>4 DEF T
-----------------------------------------------------------------------------
(* Sets in order and sequences.                                            *)

(* The ranks in a finite set of numbers are 0 .. Cardinality(T) - 1, each   *)
(* the rank of one element.                                                *)
LEMMA RanksOfSet ==
  ASSUME NEW T \in SUBSET Int, IsFiniteSet(T)
  PROVE  /\ Cardinality(T) \in Nat
         /\ \A x \in T : Cardinality(Before(T, x)) \in 0 .. Cardinality(T) - 1
         /\ \A x, y \in T :
              Cardinality(Before(T, x)) = Cardinality(Before(T, y)) => x = y
         /\ \A k \in 0 .. Cardinality(T) - 1 :
              \E x \in T : Cardinality(Before(T, x)) = k
<1>1. Cardinality(T) \in Nat
  BY FS_CardinalityType
<1>2. \A x \in T : Before(T, x) \subseteq T /\ Before(T, x) # T
  BY DEF Before
<1>3. ASSUME NEW A, NEW B, IsFiniteSet(B), A \subseteq B, A # B
      PROVE  /\ Cardinality(A) \in Nat /\ Cardinality(B) \in Nat
             /\ Cardinality(A) < Cardinality(B)
  <2>1. /\ IsFiniteSet(A) /\ Cardinality(A) <= Cardinality(B)
        /\ Cardinality(A) = Cardinality(B) => A = B
    BY <1>3, FS_Subset
  <2>2. Cardinality(A) \in Nat /\ Cardinality(B) \in Nat
    BY <1>3, <2>1, FS_CardinalityType
  <2>3. QED
    BY <1>3, <2>1, <2>2
<1>4. \A x \in T : Cardinality(Before(T, x)) \in 0 .. Cardinality(T) - 1
  <2> SUFFICES ASSUME NEW x \in T
               PROVE  Cardinality(Before(T, x)) \in 0 .. Cardinality(T) - 1
    OBVIOUS
  <2>1. QED
    BY <1>1, <1>2, <1>3
<1>5. ASSUME NEW x \in T, NEW y \in T, x < y
      PROVE  Cardinality(Before(T, x)) < Cardinality(Before(T, y))
  <2>1. Before(T, x) \subseteq Before(T, y)
    <3> SUFFICES ASSUME NEW z \in T, z < x PROVE z < y
      BY DEF Before
    <3>1. x \in Int /\ y \in Int /\ z \in Int
      OBVIOUS
    <3>2. QED
      BY <1>5, <3>1
  <2>2. x \in Before(T, y) /\ x \notin Before(T, x)
    BY <1>5 DEF Before
  <2>3. IsFiniteSet(Before(T, y))
    <3>1. Before(T, y) \in SUBSET T
      BY <1>2
    <3>2. QED
      BY <3>1, FS_Subset
  <2>4. Before(T, x) # Before(T, y)
    BY <2>2
  <2>5. QED
    BY <1>3, <2>1, <2>3, <2>4
<1>6. \A x, y \in T : Cardinality(Before(T, x)) = Cardinality(Before(T, y)) => x = y
  <2> SUFFICES ASSUME NEW x \in T, NEW y \in T, x # y
               PROVE  Cardinality(Before(T, x)) # Cardinality(Before(T, y))
    OBVIOUS
  <2>1. Cardinality(Before(T, x)) \in Nat /\ Cardinality(Before(T, y)) \in Nat
    BY <1>1, <1>4
  <2>2. CASE x < y
    BY <1>5, <2>1, <2>2
  <2>3. CASE y < x
    BY <1>5, <2>1, <2>3
  <2>4. QED
    BY <2>2, <2>3
<1>7. \A k \in 0 .. Cardinality(T) - 1 : \E x \in T : Cardinality(Before(T, x)) = k
  <2> DEFINE R == 0 .. Cardinality(T) - 1
             rank == [x \in T |-> Cardinality(Before(T, x))]
  <2>1. rank \in [T -> R]
    BY <1>4
  <2>2. rank \in Injection(T, R)
    BY <1>6, <2>1 DEF Injection, IsInjective
  <2>3. IsFiniteSet(R) /\ Cardinality(R) = Cardinality(T)
    BY <1>1, FS_Interval
  <2>4. rank \in Surjection(T, R)
    <3> HIDE DEF R, rank
    <3>1. QED
      BY <2>2, <2>3, FS_Injection
  <2>5. \A k \in R : \E x \in T : rank[x] = k
    BY <2>4 DEF Surjection
  <2>6. QED
    BY <2>5
<1>8. QED
  BY <1>1, <1>4, <1>6, <1>7

(* A set in order is a sequence of its elements, each once.                *)
LEMMA OrderedElements ==
  ASSUME NEW T \in SUBSET Int, IsFiniteSet(T)
  PROVE  /\ InOrder(T) \in Seq(T) /\ Len(InOrder(T)) = Cardinality(T)
         /\ DOMAIN InOrder(T) = 1 .. Cardinality(T)
         /\ ToSet(InOrder(T)) = T
         /\ IsInjective(InOrder(T))
<1> DEFINE n == Cardinality(T)
           s == InOrder(T)
           Rank(x) == Cardinality(Before(T, x))
<1>1. /\ n \in Nat
      /\ \A x \in T : Rank(x) \in 0 .. n - 1
      /\ \A x, y \in T : Rank(x) = Rank(y) => x = y
      /\ \A k \in 0 .. n - 1 : \E x \in T : Rank(x) = k
  BY RanksOfSet
<1>2. s = [k \in 1 .. n |-> CHOOSE x \in T : Rank(x) = k - 1]
  BY DEF InOrder
<1> HIDE DEF n, s, Rank
<1>3. \A k \in 1 .. n : s[k] \in T /\ Rank(s[k]) = k - 1
  <2> SUFFICES ASSUME NEW k \in 1 .. n PROVE s[k] \in T /\ Rank(s[k]) = k - 1
    OBVIOUS
  <2>1. k - 1 \in 0 .. n - 1
    BY <1>1
  <2>2. \E x \in T : Rank(x) = k - 1
    BY <1>1, <2>1
  <2>3. s[k] = CHOOSE x \in T : Rank(x) = k - 1
    BY <1>2
  <2>4. QED
    BY <2>2, <2>3
<1>4. s \in [1 .. n -> T] /\ DOMAIN s = 1 .. n
  BY <1>2, <1>3
<1>5. s \in Seq(T) /\ Len(s) = n
  BY <1>1, <1>4, IsASeqOf
<1>6. IsInjective(s)
  <2> SUFFICES ASSUME NEW k \in 1 .. n, NEW l \in 1 .. n, s[k] = s[l] PROVE k = l
    BY <1>4 DEF IsInjective
  <2>1. Rank(s[k]) = k - 1 /\ Rank(s[l]) = l - 1
    BY <1>3
  <2>2. k - 1 = l - 1
    BY <2>1
  <2>3. QED
    BY <1>1, <2>2
<1>7. ToSet(s) = T
  <2>1. \A x \in T : \E k \in 1 .. n : s[k] = x
    <3> SUFFICES ASSUME NEW x \in T PROVE \E k \in 1 .. n : s[k] = x
      OBVIOUS
    <3>1. PICK k \in 0 .. n - 1 : k = Rank(x)
      BY <1>1
    <3>2. k + 1 \in 1 .. n /\ k + 1 - 1 = k
      BY <1>1
    <3>3. s[k + 1] \in T /\ Rank(s[k + 1]) = k
      BY <1>3, <3>2
    <3>4. s[k + 1] = x
      BY <1>1, <3>1, <3>3
    <3>5. QED
      BY <3>2, <3>4
  <2>2. QED
    BY <1>3, <1>4, <2>1 DEF ToSet
<1>8. QED
  BY <1>4, <1>5, <1>6, <1>7 DEF n, s

(* Leaving out repetitions keeps the members.                              *)
LEMMA OnceElements ==
  ASSUME NEW V, NEW seq \in Seq(V)
  PROVE  Once(seq) \in Seq(V) /\ ToSet(Once(seq)) = ToSet(seq)
<1> DEFINE len == Len(seq)
           K == { k \in DOMAIN seq : \A l \in 1 .. k - 1 : seq[l] # seq[k] }
           firsts == InOrder(K)
           n == Cardinality(K)
           s == Once(seq)
<1>1. len \in Nat /\ DOMAIN seq = 1 .. len /\ \A k \in 1 .. len : seq[k] \in V
  BY LenProperties, ElementOfSeq
<1>2. K \subseteq 1 .. len /\ K \in SUBSET Int
  BY <1>1
<1>3. IsFiniteSet(K)
  <2>1. IsFiniteSet(1 .. len)
    BY <1>1, FS_Interval
  <2> HIDE DEF K, len
  <2>2. K \in SUBSET (1 .. len)
    BY <1>2
  <2>3. QED
    BY <2>1, <2>2, FS_Subset
<1>4. s = [m \in DOMAIN firsts |-> seq[firsts[m]]]
  BY DEF Once
<1>5. \A x \in ToSet(seq) : \E k \in K : seq[k] = x
  <2> SUFFICES ASSUME NEW x \in ToSet(seq) PROVE \E k \in K : seq[k] = x
    OBVIOUS
  <2> DEFINE T == { k \in 1 .. len : seq[k] = x }
  <2>1. T \in SUBSET Nat /\ T # {}
    BY <1>1 DEF ToSet
  <2> HIDE DEF T
  <2>2. PICK m \in T : \A y \in T : m <= y
    BY <2>1, LeastNatural
  <2>3. m \in 1 .. len /\ seq[m] = x
    BY DEF T
  <2>4. \A l \in 1 .. m - 1 : seq[l] # seq[m]
    <3> SUFFICES ASSUME NEW l \in 1 .. m - 1, seq[l] = x PROVE FALSE
      BY <2>3
    <3>1. l \in T
      BY <1>1, <2>3 DEF T
    <3>2. QED
      BY <2>2, <2>3, <3>1
  <2>5. QED
    BY <1>1, <2>3, <2>4
<1> HIDE DEF K
<1>6. /\ n \in Nat /\ DOMAIN firsts = 1 .. n
      /\ ToSet(firsts) = K
  BY <1>2, <1>3, OrderedElements, FS_CardinalityType
<1> HIDE DEF firsts, n, s
<1>7. /\ \A m \in 1 .. n : firsts[m] \in K
      /\ \A k \in K : \E m \in 1 .. n : firsts[m] = k
  BY <1>6 DEF ToSet
<1>8. s \in [1 .. n -> V]
  BY <1>1, <1>2, <1>4, <1>6, <1>7
<1>9. s \in Seq(V)
  BY <1>6, <1>8, IsASeqOf
<1>10. ToSet(s) = ToSet(seq)
  <2>1. \A m \in 1 .. n : s[m] \in ToSet(seq)
    BY <1>1, <1>2, <1>4, <1>6, <1>7 DEF ToSet
  <2>2. \A x \in ToSet(seq) : \E m \in 1 .. n : s[m] = x
    BY <1>4, <1>5, <1>6, <1>7
  <2>3. QED
    BY <1>8, <2>1, <2>2 DEF ToSet
<1>11. QED
  BY <1>9, <1>10 DEF s

(* The members of a concatenation.                                         *)
LEMMA ConcatElements ==
  ASSUME NEW V, NEW s \in Seq(V), NEW t \in Seq(V)
  PROVE  s \o t \in Seq(V) /\ ToSet(s \o t) = ToSet(s) \cup ToSet(t)
<1>1. /\ Len(s) \in Nat /\ DOMAIN s = 1 .. Len(s)
      /\ Len(t) \in Nat /\ DOMAIN t = 1 .. Len(t)
  BY LenProperties
<1>2. /\ s \o t \in Seq(V) /\ Len(s \o t) = Len(s) + Len(t)
      /\ \A i \in 1 .. Len(s) + Len(t) :
           (s \o t)[i] = IF i <= Len(s) THEN s[i] ELSE t[i - Len(s)]
  BY ConcatProperties
<1> DEFINE u == s \o t
<1>3. DOMAIN u = 1 .. Len(s) + Len(t)
  BY <1>2, LenProperties
<1> HIDE DEF u
<1>4. \A i \in 1 .. Len(s) : u[i] = s[i] /\ i \in DOMAIN u
  BY <1>1, <1>2, <1>3 DEF u
<1>5. \A i \in 1 .. Len(t) : u[Len(s) + i] = t[i] /\ Len(s) + i \in DOMAIN u
  <2> SUFFICES ASSUME NEW i \in 1 .. Len(t)
               PROVE  u[Len(s) + i] = t[i] /\ Len(s) + i \in DOMAIN u
    OBVIOUS
  <2>1. /\ Len(s) + i \in 1 .. Len(s) + Len(t) /\ ~(Len(s) + i <= Len(s))
        /\ Len(s) + i - Len(s) = i
    BY <1>1
  <2>2. QED
    BY <1>2, <1>3, <2>1 DEF u
<1>6. \A i \in DOMAIN u : u[i] \in ToSet(s) \/ u[i] \in ToSet(t)
  <2> SUFFICES ASSUME NEW i \in 1 .. Len(s) + Len(t)
               PROVE  u[i] \in ToSet(s) \/ u[i] \in ToSet(t)
    BY <1>3
  <2>1. CASE i <= Len(s)
    BY <1>1, <1>4, <2>1 DEF ToSet
  <2>2. CASE ~(i <= Len(s))
    <3>1. i - Len(s) \in 1 .. Len(t)
      BY <1>1, <2>2
    <3>2. u[i] = t[i - Len(s)]
      BY <1>2, <2>2 DEF u
    <3>3. QED
      BY <1>1, <3>1, <3>2 DEF ToSet
  <2>3. QED
    BY <2>1, <2>2
<1>7. ToSet(s) \subseteq ToSet(u) /\ ToSet(t) \subseteq ToSet(u)
  BY <1>1, <1>4, <1>5 DEF ToSet
<1>8. ToSet(u) \subseteq ToSet(s) \cup ToSet(t)
  BY <1>6 DEF ToSet
<1>9. QED
  BY <1>2, <1>7, <1>8 DEF u

(* The members of a flattened sequence.                                    *)
LEMMA FlattenElements ==
  ASSUME NEW V, NEW n \in Nat, NEW s \in [1 .. n -> Seq(V)]
  PROVE  /\ FlattenSeq(s) \in Seq(V)
         /\ ToSet(FlattenSeq(s)) = UNION { ToSet(s[k]) : k \in 1 .. n }
<1>1. Len(s) = n
  BY IsASeqOf
<1>2. CASE n = 0
  <2>1. FlattenSeq(s) = s
    BY <1>1, <1>2 DEF FlattenSeq
  <2>2. s \in [1 .. n -> V]
    BY <1>2
  <2>3. s \in Seq(V)
    BY <2>2, IsASeqOf
  <2>4. ToSet(s) = {} /\ 1 .. n = {}
    BY <1>2, <2>2 DEF ToSet
  <2>5. QED
    BY <2>1, <2>3, <2>4
<1>3. CASE n # 0
  <2> DEFINE IsFlat(f) ==
               f = [i \in 1 .. Len(s) |-> IF i = 1 THEN s[i] ELSE f[i - 1] \o s[i]]
             flat == CHOOSE f : IsFlat(f)
             W == Seq(V)
             F == [pair \in W \X (1 .. n) |-> pair[1] \o s[pair[2]]]
             Below(k) == UNION { ToSet(s[j]) : j \in 1 .. k }
  <2>1. FlattenSeq(s) = flat[n]
    BY <1>1, <1>3 DEF FlattenSeq
  <2>2. \A x \in W, i \in 1 .. n : s[i] \in W /\ x \o s[i] \in W
    BY ConcatElements
  <2>3. \A x \in W, i \in 1 .. n : F[<<x, i>>] = x \o s[i]
    OBVIOUS
  <2>4. F \in [W \X (1 .. n) -> W] /\ <<>> \in W
    BY <2>2
  <2> HIDE DEF F, W
  <2>5. PICK g \in [0 .. n -> W] : Follows(g, <<>>, n, F)
    BY <2>4, RecursionExists
  <2> DEFINE f == [i \in 1 .. n |-> g[i]]
  <2>6. IsFlat(f)
    <3>1. \A i \in 1 .. n : f[i] = g[i - 1] \o s[i] /\ g[i - 1] \in W
      <4> SUFFICES ASSUME NEW i \in 1 .. n
                   PROVE  f[i] = g[i - 1] \o s[i] /\ g[i - 1] \in W
        OBVIOUS
      <4>1. g[i - 1] \in W /\ g[i] = F[<<g[i - 1], i>>]
        BY <2>5 DEF Follows
      <4>2. QED
        BY <2>3, <4>1
    <3>2. g[0] = <<>> /\ \A x \in W : <<>> \o x = x
      BY <2>5, ConcatEmptySeq DEF W, Follows
    <3>3. \A i \in 1 .. n : f[i] = IF i = 1 THEN s[i] ELSE f[i - 1] \o s[i]
      <4> SUFFICES ASSUME NEW i \in 1 .. n
                   PROVE  f[i] = IF i = 1 THEN s[i] ELSE f[i - 1] \o s[i]
        OBVIOUS
      <4>1. CASE i = 1
        <5>1. f[i] = g[i - 1] \o s[i] /\ i - 1 = 0
          BY <3>1, <4>1
        <5>2. s[i] \in W
          BY <2>2
        <5> HIDE DEF f
        <5>3. f[i] = <<>> \o s[i]
          BY <3>2, <5>1
        <5>4. f[i] = s[i]
          BY <3>2, <5>2, <5>3
        <5>5. QED
          BY <4>1, <5>4
      <4>2. CASE i # 1
        <5>1. i - 1 \in 1 .. n
          BY <4>2
        <5>2. f[i - 1] = g[i - 1]
          BY <5>1
        <5>3. QED
          BY <3>1, <4>2, <5>2
      <4>3. QED
        BY <4>1, <4>2
    <3> HIDE DEF f
    <3>4. f = [i \in 1 .. n |-> f[i]]
      BY DEF f
    <3>5. QED
      BY <1>1, <3>3, <3>4
  <2>7. IsFlat(flat)
    <3> HIDE DEF IsFlat, f
    <3>1. QED
      BY <2>6
  <2>8. \A i \in 1 .. n : flat[i] = IF i = 1 THEN s[i] ELSE flat[i - 1] \o s[i]
    BY <1>1, <2>7
  <2> HIDE DEF flat
  <2> DEFINE T == { k \in 0 .. n : k # 0 => flat[k] \in Seq(V) /\ ToSet(flat[k]) = Below(k) }
  <2>9. 0 \in T
    OBVIOUS
  <2>10. ASSUME NEW k \in 1 .. n, k - 1 \in T PROVE k \in T
    <3> SUFFICES ASSUME TRUE PROVE flat[k] \in Seq(V) /\ ToSet(flat[k]) = Below(k)
      OBVIOUS
    <3>1. s[k] \in Seq(V)
      OBVIOUS
    <3>2. 1 .. k = (1 .. k - 1) \cup {k}
      OBVIOUS
    <3>3. Below(k) = Below(k - 1) \cup ToSet(s[k])
      BY <3>2
    <3>4. CASE k = 1
      <4>1. flat[k] = s[k]
        BY <2>8, <3>4
      <4>2. Below(k - 1) = {}
        BY <3>4
      <4> HIDE DEF Below
      <4>3. QED
        BY <3>1, <3>3, <4>1, <4>2
    <3>5. CASE k # 1
      <4>1. k - 1 \in 0 .. n /\ k - 1 # 0
        BY <3>5
      <4>2. flat[k - 1] \in Seq(V) /\ ToSet(flat[k - 1]) = Below(k - 1)
        BY <2>10, <4>1
      <4>3. flat[k] = flat[k - 1] \o s[k]
        BY <2>8, <3>5
      <4> HIDE DEF Below
      <4>4. flat[k] \in Seq(V) /\ ToSet(flat[k]) = Below(k - 1) \cup ToSet(s[k])
        BY <3>1, <4>2, <4>3, ConcatElements
      <4>5. QED
        BY <3>3, <4>4
    <3>6. QED
      BY <3>4, <3>5
  <2> HIDE DEF T
  <2>11. 0 .. n \subseteq T
    BY <2>9, <2>10, InductionUpTo
  <2>12. n \in T
    BY <2>11
  <2>13. QED
    BY <1>3, <2>1, <2>12 DEF T
<1>4. QED
  BY <1>2, <1>3
-----------------------------------------------------------------------------
(* Entering the columns of a row.                                          *)

Arrays == UNION { [A -> Int] : A \in SUBSET Int }

(* Marks, next position and columns, for points or columns in K.           *)
Entries(K) == [marks : [K -> Int], next : Int, cols : Arrays]

(* What st has become when the members of W, the first of them x, were     *)
(* entered: each has a position of its own from st.next on.                *)
Entered(t, st, W, x, column, K) ==
  /\ t.next >= st.next
  /\ \A y \in K \ W : t.marks[y] = st.marks[y]
  /\ \A y \in W : t.marks[y] \in st.next .. t.next - 1 /\ t.cols[t.marks[y]] = column[y]
  /\ \A y, z \in W : t.marks[y] = t.marks[z] => y = z
  /\ \A pos \in st.next .. t.next - 1 : \E y \in W : t.marks[y] = pos
  /\ DOMAIN t.cols = DOMAIN st.cols \cup st.next .. t.next - 1
  /\ \A pos \in DOMAIN st.cols \ (st.next .. t.next - 1) : t.cols[pos] = st.cols[pos]
  /\ W # {} => t.marks[x] = st.next

Holds(w, cols, pos, x) ==
  /\ DOMAIN w = DOMAIN cols \cup {pos}
  /\ w[pos] = x
  /\ \A q \in DOMAIN cols \ {pos} : w[q] = cols[q]

(* Writing at a position leaves the others as they are.                     *)
LEMMA WrittenArray ==
  ASSUME NEW cols \in Arrays, NEW pos \in Int, NEW x \in Int
  PROVE  /\ Written(cols, pos, x) \in Arrays
         /\ Holds(Written(cols, pos, x), cols, pos, x)
<1>1. PICK A \in SUBSET Int : cols \in [A -> Int]
  BY DEF Arrays
<1> DEFINE B == A \cup {pos}
           w == Written(cols, pos, x)
<1>2. w = [q \in B |-> IF q = pos THEN x ELSE cols[q]]
  BY <1>1 DEF Written
<1> HIDE DEF w
<1>3. B \in SUBSET Int /\ DOMAIN cols = A
  BY <1>1
<1>4. w \in [B -> Int] /\ DOMAIN w = B
  BY <1>1, <1>2
<1>5. w \in Arrays
  <2> HIDE DEF B
  <2>1. QED
    BY <1>3, <1>4 DEF Arrays
<1>6. QED
  BY <1>2, <1>3, <1>4, <1>5 DEF w, Holds

(* The parts of the result of Enter.                                       *)
LEMMA EnterParts ==
  ASSUME NEW K, NEW t \in Entries(K), NEW c \in K, NEW column, column[c] \in Int,
         NEW start \in Int, NEW lookup \in BOOLEAN
  PROVE  LET u == Enter(t, c, column, start, lookup)
             known == lookup /\ t.marks[c] >= start
         IN  /\ u \in Entries(K)
             /\ known => u = t
             /\ ~known => /\ u.next = t.next + 1
                          /\ u.marks[c] = t.next
                          /\ \A y \in K \ {c} : u.marks[y] = t.marks[y]
                          /\ u.cols = Written(t.cols, t.next, column[c])
<1> DEFINE u == Enter(t, c, column, start, lookup)
           known == lookup /\ t.marks[c] >= start
           remarked == [t.marks EXCEPT ![c] = t.next]
           cols == Written(t.cols, t.next, column[c])
<1>1. t.marks \in [K -> Int] /\ t.next \in Int /\ t.cols \in Arrays
  BY DEF Entries
<1>2. CASE known
  BY <1>2 DEF Enter
<1>3. CASE ~known
  <2>1. u = [marks |-> remarked, next |-> t.next + 1, cols |-> cols]
    BY <1>3 DEF Enter
  <2>2. remarked \in [K -> Int] /\ t.next + 1 \in Int
    BY <1>1
  <2>5. cols \in Arrays
    BY <1>1, WrittenArray
  <2>3. remarked[c] = t.next /\ \A y \in K \ {c} : remarked[y] = t.marks[y]
    BY <1>1
  <2> HIDE DEF remarked, cols, u
  <2>4. u \in Entries(K) /\ u.next = t.next + 1 /\ u.marks = remarked /\ u.cols = cols
    BY <2>1, <2>2, <2>5 DEF Entries
  <2>6. QED
    BY <1>3, <2>3, <2>4 DEF cols, u
<1>4. QED
  BY <1>2, <1>3

(* Entering one more.                                                      *)
LEMMA EnterOne ==
  ASSUME NEW K, NEW st \in Entries(K), NEW t \in Entries(K), NEW W \in SUBSET K,
         NEW x \in K, NEW c \in K, NEW column, column[c] \in Int, NEW lookup \in BOOLEAN,
         Entered(t, st, W, x, column, K),
         IF lookup THEN st.marks[c] < st.next ELSE c \notin W,
         IF W = {} THEN c = x ELSE x \in W
  PROVE  Entered(Enter(t, c, column, st.next, lookup), st, W \cup {c}, x, column, K)
<1> DEFINE u == Enter(t, c, column, st.next, lookup)
           known == lookup /\ t.marks[c] >= st.next
           X == W \cup {c}
           s == st.next
           n == t.next
<1>1. /\ s \in Int /\ st.marks \in [K -> Int]
      /\ n \in Int /\ t.marks \in [K -> Int] /\ t.cols \in Arrays
  BY DEF Entries
<1>2. /\ n >= s
      /\ \A y \in K \ W : t.marks[y] = st.marks[y]
      /\ \A y \in W : t.marks[y] \in s .. n - 1 /\ t.cols[t.marks[y]] = column[y]
      /\ \A y, z \in W : t.marks[y] = t.marks[z] => y = z
      /\ \A pos \in s .. n - 1 : \E y \in W : t.marks[y] = pos
      /\ DOMAIN t.cols = DOMAIN st.cols \cup s .. n - 1
      /\ \A pos \in DOMAIN st.cols \ (s .. n - 1) : t.cols[pos] = st.cols[pos]
      /\ W # {} => t.marks[x] = s
  BY DEF Entered
<1>3. /\ known => u = t
      /\ ~known => /\ u.next = n + 1
                   /\ u.marks[c] = n
                   /\ \A y \in K \ {c} : u.marks[y] = t.marks[y]
                   /\ u.cols = Written(t.cols, n, column[c])
  BY <1>1, EnterParts
<1>4. CASE known
  <2>1. c \in W
    BY <1>1, <1>2, <1>4
  <2>2. X = W
    BY <2>1
  <2>3. QED
    BY <1>3, <1>4, <2>2
<1>5. CASE ~known
  <2>1. c \notin W
    <3> SUFFICES ASSUME c \in W PROVE FALSE
      OBVIOUS
    <3>1. lookup
      OBVIOUS
    <3>2. t.marks[c] \in s .. n - 1
      BY <1>2
    <3>3. QED
      BY <1>1, <1>5, <3>1, <3>2
  <2> DEFINE cols == Written(t.cols, n, column[c])
  <2>2. /\ u.next = n + 1 /\ u.marks[c] = n /\ u.cols = cols
        /\ \A y \in K \ {c} : u.marks[y] = t.marks[y]
    BY <1>3, <1>5
  <2>3. /\ DOMAIN cols = DOMAIN t.cols \cup {n} /\ cols[n] = column[c]
        /\ \A q \in DOMAIN t.cols \ {n} : cols[q] = t.cols[q]
    <3>1. Holds(cols, t.cols, n, column[c])
      BY <1>1, WrittenArray
    <3>2. QED
      BY <3>1 DEF Holds
  <2>4. s .. n = s .. n - 1 \cup {n} /\ n \notin s .. n - 1 /\ n + 1 - 1 = n
    BY <1>1, <1>2
  <2> HIDE DEF u, cols, known, s, n
  <2>5. n + 1 >= s
    BY <1>1, <1>2
  <2>6. \A y \in K \ X : u.marks[y] = st.marks[y]
    BY <1>2, <2>2
  <2>7. \A y \in W : u.marks[y] = t.marks[y] /\ u.marks[y] \in s .. n - 1
    BY <1>2, <2>1, <2>2
  <2>8. \A y \in X : u.marks[y] \in s .. n /\ cols[u.marks[y]] = column[y]
    <3> SUFFICES ASSUME NEW y \in X
                 PROVE  u.marks[y] \in s .. n /\ cols[u.marks[y]] = column[y]
      OBVIOUS
    <3>1. CASE y = c
      BY <1>1, <2>2, <2>3, <2>4, <3>1
    <3>2. CASE y \in W
      <4>1. t.marks[y] \in s .. n - 1 /\ t.cols[t.marks[y]] = column[y]
        BY <1>2, <3>2
      <4>2. t.marks[y] \in DOMAIN t.cols \ {n}
        BY <1>2, <2>4, <4>1
      <4>3. QED
        BY <2>3, <2>4, <2>7, <3>2, <4>1, <4>2
    <3>3. QED
      BY <3>1, <3>2
  <2>9. \A y, z \in X : u.marks[y] = u.marks[z] => y = z
    BY <1>2, <2>2, <2>4, <2>7
  <2>10. \A pos \in s .. n : \E y \in X : u.marks[y] = pos
    <3> SUFFICES ASSUME NEW pos \in s .. n PROVE \E y \in X : u.marks[y] = pos
      OBVIOUS
    <3>1. CASE pos = n
      BY <2>2, <3>1
    <3>2. CASE pos \in s .. n - 1
      <4>1. PICK y \in W : t.marks[y] = pos
        BY <1>2, <3>2
      <4>2. QED
        BY <2>7, <4>1
    <3>3. QED
      BY <2>4, <3>1, <3>2
  <2>11. DOMAIN cols = DOMAIN st.cols \cup s .. n
    BY <1>2, <2>3, <2>4
  <2>12. \A pos \in DOMAIN st.cols \ (s .. n) : cols[pos] = st.cols[pos]
    BY <1>2, <2>3, <2>4
  <2>13. u.marks[x] = s
    <3>1. CASE W = {}
      <4>1. s .. n - 1 = {}
        BY <1>2, <3>1
      <4>2. n = s
        BY <1>1, <1>2, <4>1
      <4>3. QED
        BY <2>2, <3>1, <4>2
    <3>2. CASE W # {}
      BY <1>2, <2>7, <3>2
    <3>3. QED
      BY <3>1, <3>2
  <2>14. QED
    BY <2>2, <2>4, <2>5, <2>6, <2>8, <2>9, <2>10, <2>11, <2>12, <2>13 DEF Entered, u, s
<1>6. QED
  BY <1>4, <1>5

(* Entering a row: no column twice, in positions from st.next on, the first *)
(* of the row at the first.  Without a look at the marks the row must not   *)
(* repeat itself; with it the marks of the row must lie before st.next.     *)
LEMMA EntersRow ==
  ASSUME NEW K, NEW D \in SUBSET K, NEW st \in Entries(K), NEW seq \in Seq(D),
         NEW column \in [D -> Int], NEW lookup \in BOOLEAN,
         IF lookup THEN \A c \in ToSet(seq) : st.marks[c] < st.next ELSE IsInjective(seq)
  PROVE  LET t == EnterAll(st, seq, column, lookup)
         IN  t \in Entries(K) /\ Entered(t, st, ToSet(seq), seq[1], column, K)
<1> DEFINE n == Len(seq)
           V == Entries(K)
           Step(u, k) == Enter(u, seq[k], column, st.next, lookup)
           F == [pair \in V \X (1 .. n) |-> Step(pair[1], pair[2])]
           IsAfter(f) == f = [k \in 0 .. Len(seq) |-> IF k = 0 THEN st ELSE Step(f[k - 1], k)]
           after == CHOOSE f : IsAfter(f)
           Seen(k) == { seq[j] : j \in 1 .. k }
<1>1. /\ n \in Nat /\ DOMAIN seq = 1 .. n
      /\ \A k \in 1 .. n : seq[k] \in D /\ column[seq[k]] \in Int
  BY LenProperties, ElementOfSeq
<1>2. EnterAll(st, seq, column, lookup) = after[n]
  BY DEF EnterAll
<1>3. st.next \in Int /\ st \in V
  BY DEF Entries
<1>4. \A u \in V, k \in 1 .. n : Step(u, k) \in V
  <2> SUFFICES ASSUME NEW u \in V, NEW k \in 1 .. n PROVE Step(u, k) \in V
    OBVIOUS
  <2>1. seq[k] \in K /\ column[seq[k]] \in Int
    BY <1>1
  <2>2. QED
    BY <1>3, <2>1, EnterParts
<1> HIDE DEF V, Step
<1>5. \A u \in V, k \in 1 .. n : F[<<u, k>>] = Step(u, k)
  OBVIOUS
<1>6. F \in [V \X (1 .. n) -> V]
  BY <1>4
<1> HIDE DEF F
<1>7. PICK g \in [0 .. n -> V] : Follows(g, st, n, F)
  BY <1>1, <1>3, <1>6, RecursionExists
<1>8. IsAfter(g)
  <2>1. \A k \in 0 .. n : g[k] = IF k = 0 THEN st ELSE Step(g[k - 1], k)
    <3> SUFFICES ASSUME NEW k \in 0 .. n
                 PROVE  g[k] = IF k = 0 THEN st ELSE Step(g[k - 1], k)
      OBVIOUS
    <3>1. CASE k = 0
      BY <1>7, <3>1 DEF Follows
    <3>2. CASE k # 0
      <4>1. k \in 1 .. n /\ k - 1 \in 0 .. n
        BY <1>1, <3>2
      <4>2. g[k] = F[<<g[k - 1], k>>] /\ g[k - 1] \in V
        BY <1>7, <4>1 DEF Follows
      <4>3. QED
        BY <1>5, <3>2, <4>1, <4>2
    <3>3. QED
      BY <3>1, <3>2
  <2>2. QED
    BY <2>1
<1>9. IsAfter(after)
  <2> HIDE DEF IsAfter
  <2>1. QED
    BY <1>8
<1> HIDE DEF after
<1>10. after[0] = st /\ \A k \in 1 .. n : after[k] = Step(after[k - 1], k)
  <2>1. \A k \in 0 .. n : after[k] = IF k = 0 THEN st ELSE Step(after[k - 1], k)
    BY <1>9
  <2>2. QED
    BY <1>1, <2>1
<1> HIDE DEF IsAfter
<1> DEFINE Good(k) == after[k] \in V /\ Entered(after[k], st, Seen(k), seq[1], column, K)
           T == { k \in 0 .. n : Good(k) }
<1>11. 0 \in T
  <2>1. Seen(0) = {}
    OBVIOUS
  <2> HIDE DEF Seen
  <2>2. Entered(st, st, {}, seq[1], column, K)
    <3>1. st.next .. st.next - 1 = {} /\ st.next >= st.next
      BY <1>3
    <3>2. QED
      BY <3>1 DEF Entered
  <2>3. after[0] = st /\ 0 \in 0 .. n
    BY <1>1, <1>10
  <2>4. Entered(after[0], st, Seen(0), seq[1], column, K)
    BY <2>1, <2>2, <2>3
  <2>5. after[0] \in V
    BY <1>3, <2>3
  <2>6. QED
    BY <2>3, <2>4, <2>5
<1>12. ASSUME NEW k \in 1 .. n, k - 1 \in T PROVE k \in T
  <2> DEFINE c == seq[k]
             u == after[k - 1]
             W == Seen(k - 1)
  <2>1. Good(k - 1)
    BY <1>12
  <2>2. /\ c \in K /\ column[c] \in Int /\ W \in SUBSET K /\ 1 \in 1 .. n /\ seq[1] \in K
        /\ k \in 0 .. n
    BY <1>1
  <2>3. Seen(k) = W \cup {c}
    <3>1. 1 .. k = (1 .. k - 1) \cup {k}
      OBVIOUS
    <3>2. QED
      BY <3>1
  <2>4. IF lookup THEN st.marks[c] < st.next ELSE c \notin W
    <3>1. CASE lookup
      BY <1>1, <3>1 DEF ToSet
    <3>2. CASE ~lookup
      <4> SUFFICES ASSUME NEW j \in 1 .. k - 1, seq[j] = seq[k] PROVE FALSE
        BY <3>2
      <4>1. j \in 1 .. n /\ j # k
        BY <1>1
      <4>2. QED
        BY <1>1, <3>2, <4>1 DEF IsInjective
    <3>3. QED
      BY <3>1, <3>2
  <2>5. IF W = {} THEN c = seq[1] ELSE seq[1] \in W
    <3>1. CASE k = 1
      BY <3>1
    <3>2. CASE k # 1
      <4>1. 1 \in 1 .. k - 1
        BY <3>2
      <4>2. QED
        BY <4>1
    <3>3. QED
      BY <3>1, <3>2
  <2> HIDE DEF W, c, Seen
  <2>6. u \in Entries(K) /\ Entered(u, st, W, seq[1], column, K)
    BY <2>1 DEF V, W
  <2>7. Entered(Enter(u, c, column, st.next, lookup), st, W \cup {c}, seq[1], column, K)
    BY <2>2, <2>4, <2>5, <2>6, EnterOne
  <2>8. after[k] = Enter(u, c, column, st.next, lookup)
    BY <1>10 DEF Step, c
  <2>9. after[k] \in V
    BY <1>4, <1>10, <2>1
  <2>10. QED
    BY <2>2, <2>3, <2>7, <2>8, <2>9
<1> HIDE DEF T
<1>13. 0 .. n \subseteq T
  BY <1>1, <1>11, <1>12, InductionUpTo
<1>14. Good(n)
  <2>1. n \in T
    BY <1>1, <1>13
  <2>2. QED
    BY <2>1 DEF T
<1>15. Seen(n) = ToSet(seq)
  BY <1>1 DEF ToSet
<1> HIDE DEF Seen, n
<1>16. QED
  BY <1>2, <1>14, <1>15 DEF V

(* The columns of W fill the positions from .. to - 1, each once.          *)
Fills(cols, from, to, W) ==
  /\ \A pos \in from .. to - 1 : cols[pos] \in W
  /\ \A pos, q \in from .. to - 1 : cols[pos] = cols[q] => pos = q
  /\ \A w \in W : \E pos \in from .. to - 1 : cols[pos] = w

(* A row filled so is a sequence of its columns.                           *)
LEMMA FilledRow ==
  ASSUME NEW cols, NEW from \in Int, NEW to \in Int, from <= to, NEW W,
         Fills(cols, from, to, W)
  PROVE  LET s == [k \in 1 .. to - from |-> cols[from + k - 1]]
         IN  s \in Seq(W) /\ ToSet(s) = W /\ IsInjective(s) /\ DOMAIN s = 1 .. to - from
<1> DEFINE n == to - from
           s == [k \in 1 .. n |-> cols[from + k - 1]]
<1>1. n \in Nat /\ DOMAIN s = 1 .. n
  OBVIOUS
<1>2. \A k \in 1 .. n : from + k - 1 \in from .. to - 1 /\ s[k] = cols[from + k - 1]
  OBVIOUS
<1>3. \A pos \in from .. to - 1 : pos - from + 1 \in 1 .. n /\ from + (pos - from + 1) - 1 = pos
  OBVIOUS
<1> HIDE DEF n, s
<1>4. \A pos \in from .. to - 1 : s[pos - from + 1] = cols[pos]
  <2> SUFFICES ASSUME NEW pos \in from .. to - 1 PROVE s[pos - from + 1] = cols[pos]
    OBVIOUS
  <2>1. QED
    BY <1>2, <1>3
<1>5. \A k \in 1 .. n : s[k] \in W
  BY <1>2 DEF Fills
<1>6. s \in [1 .. n -> W]
  <2>1. s = [k \in 1 .. n |-> s[k]]
    BY DEF s
  <2>2. QED
    BY <1>5, <2>1
<1>7. s \in Seq(W)
  BY <1>1, <1>6, IsASeqOf
<1>8. ToSet(s) = W
  <2>1. \A w \in W : \E k \in 1 .. n : s[k] = w
    BY <1>3, <1>4 DEF Fills
  <2>2. QED
    BY <1>1, <1>5, <2>1 DEF ToSet
<1>9. IsInjective(s)
  <2> SUFFICES ASSUME NEW k \in 1 .. n, NEW l \in 1 .. n, s[k] = s[l] PROVE k = l
    BY <1>1 DEF IsInjective
  <2>1. from + k - 1 = from + l - 1
    BY <1>2 DEF Fills
  <2>2. QED
    BY <2>1
<1>10. QED
  BY <1>1, <1>7, <1>8, <1>9 DEF n, s

(* The columns of the members of W are those of C, each of one member.     *)
Named(column, W, C) ==
  /\ \A y, z \in W : column[y] = column[z] => y = z
  /\ \A y \in W : column[y] \in C
  /\ \A w \in C : \E y \in W : column[y] = w

(* What was entered fills its positions, and they are as many as there are *)
(* different columns.                                                      *)
LEMMA EnteredFills ==
  ASSUME NEW K, NEW W \in SUBSET K, NEW st \in Entries(K), NEW t \in Entries(K), NEW x,
         NEW column, NEW C, Named(column, W, C),
         Entered(t, st, W, x, column, K)
  PROVE  /\ Fills(t.cols, st.next, t.next, C)
         /\ IsFiniteSet(W) /\ Cardinality(W) = t.next - st.next
<1> DEFINE s == st.next
           n == t.next
           R == s .. n - 1
<1>1. s \in Int /\ n \in Int /\ n >= s
  BY DEF Entries, Entered
<1>2. /\ \A y \in W : t.marks[y] \in R /\ t.cols[t.marks[y]] = column[y]
      /\ \A y, z \in W : t.marks[y] = t.marks[z] => y = z
      /\ \A pos \in R : \E y \in W : t.marks[y] = pos
  BY DEF Entered
<1>3. IsFiniteSet(R) /\ Cardinality(R) = n - s
  <2>1. IsFiniteSet(R) /\ Cardinality(R) = IF s > n - 1 THEN 0 ELSE n - 1 - s + 1
    BY <1>1, FS_Interval
  <2>2. QED
    BY <1>1, <2>1
<1> HIDE DEF s, n, R
<1>4. IsFiniteSet(W) /\ Cardinality(W) = n - s
  <2> DEFINE f == [y \in W |-> t.marks[y]]
  <2>1. f \in Injection(W, R) /\ f \in Surjection(W, R)
    BY <1>2 DEF Injection, Surjection, IsInjective
  <2> HIDE DEF f
  <2>2. QED
    BY <1>3, <2>1, FS_Injection
<1>5. \A pos \in R : \E y \in W : t.marks[y] = pos /\ t.cols[pos] = column[y]
  BY <1>2
<1>6. Fills(t.cols, s, n, C)
  <2>1. \A pos \in R : t.cols[pos] \in C
    BY <1>5 DEF Named
  <2>2. \A pos, q \in R : t.cols[pos] = t.cols[q] => pos = q
    BY <1>5 DEF Named
  <2>3. \A w \in C : \E pos \in R : t.cols[pos] = w
    BY <1>2 DEF Named
  <2>4. QED
    BY <2>1, <2>2, <2>3 DEF Fills, R
<1>7. QED
  BY <1>4, <1>6 DEF s, n
-----------------------------------------------------------------------------
(* What the passes work on.                                                *)

Inputs ==
  /\ S \subseteq Points \X Points
  /\ weak \in BOOLEAN
  /\ coarse \subseteq Points
  /\ diag \in [Points -> DiagonalSigns]

(* The columns of row i of P.                                              *)
Columns(i) == { Number(c) : c \in Interpolating(i) }

(* The points are finitely many, and so are those of any set of them.       *)
LEMMA PointSets ==
  /\ N \in Nat \ {0}
  /\ Points \in SUBSET Int /\ IsFiniteSet(Points) /\ Cardinality(Points) = N
  /\ \A T \in SUBSET Points : T \in SUBSET Int /\ IsFiniteSet(T)
<1>1. N \in Nat \ {0}
  BY InterpolationAssumption
<1>2. IsFiniteSet(Points) /\ Cardinality(Points) = IF 0 > N - 1 THEN 0 ELSE N - 1 - 0 + 1
  BY <1>1, FS_Interval DEF Points
<1>3. Points \in SUBSET Int
  BY DEF Points
<1>4. \A T \in SUBSET Points : T \in SUBSET Int /\ IsFiniteSet(T)
  BY <1>2, <1>3, FS_Subset
<1>5. Cardinality(Points) = N
  BY <1>1, <1>2
<1>6. QED
  BY <1>1, <1>2, <1>3, <1>4, <1>5

(* The numbering of the coarse points, up to their number.                 *)
LEMMA NumbersOfPoints ==
  ASSUME coarse \subseteq Points
  PROVE  /\ Cardinality(coarse) \in 0 .. N
         /\ CoarsePoints \subseteq 0 .. N - 1
         /\ \A c \in coarse : Number(c) \in CoarsePoints
         /\ \A c, d \in coarse : Number(c) = Number(d) => c = d
         /\ \A k \in CoarsePoints : \E c \in coarse : Number(c) = k
         /\ Numbers \in [coarse -> Int]
         /\ \A c \in coarse : Numbers[c] = Number(c)
<1>1. coarse \in SUBSET Int /\ IsFiniteSet(coarse) /\ N \in Nat
  BY PointSets
<1>2. Cardinality(coarse) \in Nat /\ Cardinality(coarse) <= N
  BY <1>1, PointSets, FS_Subset, FS_CardinalityType
<1>3. /\ \A c \in coarse : Number(c) \in 0 .. Cardinality(coarse) - 1
      /\ \A c, d \in coarse : Number(c) = Number(d) => c = d
      /\ \A k \in 0 .. Cardinality(coarse) - 1 : \E c \in coarse : Number(c) = k
  BY <1>1, RanksOfSet DEF Number
<1>4. \A c \in coarse : Number(c) \in Int
  BY <1>2, <1>3
<1>5. Numbers \in [coarse -> Int] /\ \A c \in coarse : Numbers[c] = Number(c)
  BY <1>4 DEF Numbers
<1>6. QED
  BY <1>1, <1>2, <1>3, <1>5 DEF CoarsePoints

(* The coarse points a row strongly depends on, each once.                  *)
LEMMA CoarseElements ==
  ASSUME Inputs, NEW i \in Points
  PROVE  /\ CoarseOf(i) \in Seq(coarse)
         /\ ToSet(CoarseOf(i)) = StrongRow(i) \cap coarse
         /\ IsInjective(CoarseOf(i))
<1> DEFINE T == StrongRow(i) \cap coarse
<1>1. T \in SUBSET Points /\ T \subseteq coarse
  BY DEF Inputs
<1> HIDE DEF T
<1>2. T \in SUBSET Int /\ IsFiniteSet(T)
  BY <1>1, PointSets
<1>3. InOrder(T) \in Seq(T) /\ ToSet(InOrder(T)) = T /\ IsInjective(InOrder(T))
  BY <1>2, OrderedElements
<1>4. InOrder(T) \in Seq(coarse)
  BY <1>1, <1>3, SeqMonotonic
<1>5. QED
  BY <1>3, <1>4 DEF CoarseOf, T

(* The coarse points a fine row meets are those that interpolate it; the   *)
(* builders that look at near points only meet each of them once.          *)
LEMMA MetElements ==
  ASSUME Inputs, NEW i \in Points \ coarse
  PROVE  /\ Met(i) \in Seq(coarse)
         /\ ToSet(Met(i)) = Interpolating(i)
         /\ UsesFarPoints \/ IsInjective(Met(i))
         /\ UsesFarPoints \in BOOLEAN
<1>1. UsesFarPoints \in BOOLEAN
  BY DEF UsesFarPoints
<1>2. CASE ~UsesFarPoints
  <2>1. Met(i) = CoarseOf(i) /\ Interpolating(i) = StrongRow(i) \cap coarse
    BY <1>2 DEF Met, Interpolating
  <2>2. QED
    BY <1>1, <2>1, CoarseElements
<1>3. CASE UsesFarPoints
  <2> DEFINE strong == InOrder(StrongRow(i))
             n == Cardinality(StrongRow(i))
             via(j) == IF j \in coarse THEN <<j>> ELSE CoarseOf(j)
             s == [k \in DOMAIN strong |-> via(strong[k])]
             Far(j) == IF j \in coarse THEN {j} ELSE StrongRow(j) \cap coarse
  <2>1. Met(i) = FlattenSeq(s)
    BY <1>3 DEF Met
  <2>2. StrongRow(i) \in SUBSET Int /\ IsFiniteSet(StrongRow(i)) /\ StrongRow(i) \subseteq Points
    BY PointSets DEF StrongRow
  <2>3. n \in Nat /\ DOMAIN strong = 1 .. n /\ ToSet(strong) = StrongRow(i)
    BY <2>2, OrderedElements, FS_CardinalityType
  <2>4. \A j \in Points : via(j) \in Seq(coarse) /\ ToSet(via(j)) = Far(j)
    <3> SUFFICES ASSUME NEW j \in Points
                 PROVE  via(j) \in Seq(coarse) /\ ToSet(via(j)) = Far(j)
      OBVIOUS
    <3>1. CASE j \in coarse
      <4>1. <<j>> \in Seq(coarse) /\ DOMAIN <<j>> = {1} /\ <<j>>[1] = j
        BY <3>1
      <4>2. ToSet(<<j>>) = {j}
        BY <4>1 DEF ToSet
      <4>3. QED
        BY <3>1, <4>1, <4>2
    <3>2. CASE j \notin coarse
      BY <3>2, CoarseElements
    <3>3. QED
      BY <3>1, <3>2
  <2> HIDE DEF via, n, strong
  <2>5. /\ \A k \in 1 .. n : strong[k] \in StrongRow(i)
        /\ \A j \in StrongRow(i) : \E k \in 1 .. n : strong[k] = j
    BY <2>3 DEF ToSet
  <2>6. s \in [1 .. n -> Seq(coarse)]
    BY <2>2, <2>3, <2>4, <2>5
  <2>7. \A k \in 1 .. n : ToSet(s[k]) = Far(strong[k])
    BY <2>2, <2>3, <2>4, <2>5
  <2> HIDE DEF s, Far
  <2>8. /\ FlattenSeq(s) \in Seq(coarse)
        /\ ToSet(FlattenSeq(s)) = UNION { ToSet(s[k]) : k \in 1 .. n }
    BY <2>3, <2>6, FlattenElements
  <2>9. UNION { ToSet(s[k]) : k \in 1 .. n } = UNION { Far(j) : j \in StrongRow(i) }
    BY <2>5, <2>7
  <2>10. UNION { Far(j) : j \in StrongRow(i) } = Interpolating(i)
    BY <1>3 DEF Interpolating, Far
  <2>11. QED
    BY <1>1, <1>3, <2>1, <2>8, <2>9, <2>10
<1>4. QED
  BY <1>1, <1>2, <1>3

(* The interpolating points are coarse; a coarse point has only itself.     *)
LEMMA InterpolatingPoints ==
  ASSUME Inputs, NEW i \in Points
  PROVE  /\ Interpolating(i) \subseteq coarse /\ IsFiniteSet(Interpolating(i))
         /\ Cardinality(Interpolating(i)) \in Nat
         /\ Columns(i) \subseteq CoarsePoints /\ Columns(i) \subseteq 0 .. N - 1
         /\ i \in coarse => Cardinality(Interpolating(i)) = 1 /\ Columns(i) = {Number(i)}
<1>1. Interpolating(i) \subseteq coarse
  BY DEF Interpolating
<1>2. coarse \subseteq Points /\ IsFiniteSet(Interpolating(i))
  BY <1>1, PointSets DEF Inputs
<1>3. Cardinality(Interpolating(i)) \in Nat
  BY <1>2, FS_CardinalityType
<1>4. Columns(i) \subseteq CoarsePoints /\ CoarsePoints \subseteq 0 .. N - 1
  BY <1>1, <1>2, NumbersOfPoints DEF Columns
<1>5. ASSUME i \in coarse
      PROVE  Cardinality(Interpolating(i)) = 1 /\ Columns(i) = {Number(i)}
  <2>1. Interpolating(i) = {i}
    BY <1>5 DEF Interpolating
  <2>2. Cardinality({i}) = 1
    BY FS_Singleton
  <2>3. QED
    BY <2>1, <2>2 DEF Columns
<1>6. QED
  BY <1>1, <1>2, <1>3, <1>4, <1>5

(* What entering the columns of row i from position start on leads to.     *)
MetEntered(t, m, start, cols, i) ==
  /\ t.marks \in [Points -> Int] /\ t.next \in Int /\ t.cols \in Arrays
  /\ t.next = start + Cardinality(Interpolating(i))
  /\ Fills(t.cols, start, t.next, Columns(i))
  /\ \A c \in Points : IF c \in Interpolating(i)
                         THEN t.marks[c] \in start .. t.next - 1
                         ELSE t.marks[c] = m[c]
  /\ DOMAIN t.cols = DOMAIN cols \cup start .. t.next - 1
  /\ \A pos \in DOMAIN cols \ (start .. t.next - 1) : t.cols[pos] = cols[pos]

(* A fine row enters its columns.                                          *)
LEMMA EntersMet ==
  ASSUME Inputs, row \in Points \ coarse,
         NEW m \in [Points -> Int], NEW start \in Int, NEW cols \in Arrays,
         UsesFarPoints => \A c \in Points : m[c] < start
  PROVE  MetEntered(EnterMet(m, start, cols), m, start, cols, row)
<1> DEFINE st == [marks |-> m, next |-> start, cols |-> cols]
           t == EnterMet(m, start, cols)
           seq == Met(row)
           W == Interpolating(row)
<1>1. /\ seq \in Seq(coarse) /\ ToSet(seq) = W
      /\ UsesFarPoints \/ IsInjective(seq)
      /\ UsesFarPoints \in BOOLEAN
  BY MetElements
<1>2. /\ coarse \in SUBSET Points /\ W \subseteq coarse /\ W \in SUBSET Points
      /\ Numbers \in [coarse -> Int]
      /\ \A c \in coarse : Numbers[c] = Number(c)
      /\ \A c, d \in coarse : Number(c) = Number(d) => c = d
  BY InterpolatingPoints, NumbersOfPoints DEF Inputs
<1>3. st \in Entries(Points) /\ st.marks = m /\ st.next = start /\ st.cols = cols
  BY DEF Entries
<1>4. t = EnterAll(st, seq, Numbers, UsesFarPoints)
  BY DEF EnterMet
<1>5. IF UsesFarPoints THEN \A c \in ToSet(seq) : st.marks[c] < st.next ELSE IsInjective(seq)
  BY <1>1, <1>2, <1>3
<1> HIDE DEF st, t, seq, W
<1>6. t \in Entries(Points) /\ Entered(t, st, W, seq[1], Numbers, Points)
  BY <1>1, <1>2, <1>3, <1>4, <1>5, EntersRow
<1>7. /\ \A c, d \in W : Numbers[c] = Numbers[d] => c = d
      /\ \A c \in W : Numbers[c] \in Columns(row)
      /\ \A d \in Columns(row) : \E c \in W : Numbers[c] = d
  BY <1>2 DEF Columns, W
<1>8. Named(Numbers, W, Columns(row))
  BY <1>7 DEF Named
<1>9. /\ Fills(t.cols, st.next, t.next, Columns(row))
      /\ IsFiniteSet(W) /\ Cardinality(W) = t.next - st.next
  BY <1>2, <1>3, <1>6, <1>8, EnteredFills
<1>10. t.marks \in [Points -> Int] /\ t.next \in Int /\ t.cols \in Arrays
  BY <1>6 DEF Entries
<1>11. Cardinality(W) \in Nat /\ t.next = start + Cardinality(W)
  BY <1>3, <1>9, <1>10, FS_CardinalityType
<1>12. QED
  BY <1>3, <1>6, <1>9, <1>10, <1>11 DEF Entered, MetEntered, t, W
-----------------------------------------------------------------------------
(* The inductive invariant.  While the rows are counted the lengths are     *)
(* those of the interpolating points.  From the allocation on they are      *)
(* positions, the rows before the current one are filled or, in the direct  *)
(* builder, left blank, and no mark reaches into the current row but the    *)
(* zeros standart cleared its markers to.  The product starts from filled   *)
(* rows only, and its own marks lie before its counter.                     *)
RowFilled(i) == Fills(p_cols_ind, p_rows_ptr[i], p_rows_ptr[i + 1], Columns(i))
RowBlank(i) == \A pos \in p_rows_ptr[i] .. p_rows_ptr[i + 1] - 1 : p_cols_ind[pos] = -1

Counting ==
  /\ \A i \in 0 .. row - 1 : p_rows_ptr[i + 1] = Cardinality(Interpolating(i))
  /\ strayed = {} /\ p_cols_ind = <<>>
  /\ IF builder = "standart2" THEN \A c \in Points : markers[c] < next
     ELSE markers = Cleared

Laid ==
  /\ p_rows_ptr[0] = 0
  /\ \A i \in Points : p_rows_ptr[i + 1] = p_rows_ptr[i] + Cardinality(Interpolating(i))
  /\ p_cols_ind \in [0 .. p_rows_ptr[N] - 1 -> Int]

MarkBefore(m, start) == m < start \/ (builder = "standart" /\ m = 0)

Filling ==
  /\ \A i \in 0 .. row - 1 : RowFilled(i) \/ RowBlank(i)
  /\ \A pos \in p_rows_ptr[row] .. p_rows_ptr[N] - 1 : p_cols_ind[pos] = -1
  /\ (\A i \in Points \ coarse : diag[i] = "positive") =>
       \A pos \in 0 .. p_rows_ptr[row] - 1 : p_cols_ind[pos] >= 0
  /\ \A c \in Points : MarkBefore(markers[c], p_rows_ptr[row])

ProductRow(c) == { d \in CoarsePoints : Product(c, d) }

Multiplying ==
  /\ \A i \in Points : RowFilled(i)
  /\ r = [c \in CoarsePoints |-> InOrder({ i \in Points : c \in ToSet(RowOfP(i)) })]
  /\ p_marker \in [CoarsePoints -> Int]
  /\ counter \in Nat
  /\ \A d \in CoarsePoints : p_marker[d] < counter
  /\ row \in 0 .. Cardinality(coarse)
  /\ rap_ptr \in [0 .. Cardinality(coarse) -> Nat]
  /\ rap_ptr[0] = 0
  /\ counter = rap_ptr[row]
  /\ \A c \in 0 .. (IF pass = "count_product" THEN row ELSE Cardinality(coarse)) - 1 :
       rap_ptr[c + 1] = rap_ptr[c] + Cardinality(ProductRow(c))

RowMultiplied(c) ==
  /\ Fills(rap_cols, rap_ptr[c], rap_ptr[c + 1], ProductRow(c))
  /\ rap_ptr[c] < rap_ptr[c + 1]
  /\ rap_cols[rap_ptr[c]] = c

LevelInv ==
  /\ Inputs /\ LevelTypeOK /\ SharesStayInRow
  /\ pass = "count" => Counting /\ counter = 0 /\ rap_cols = <<>>
  /\ pass = "fill" => Laid /\ Filling /\ counter = 0 /\ rap_cols = <<>>
  /\ BuiltP => Laid /\ Multiplying
  /\ pass = "count_product" => rap_cols = <<>>
  /\ pass = "fill_product" =>
       /\ rap_cols \in [0 .. counter - 1 -> Int]
       /\ \A c \in 0 .. row - 1 : RowMultiplied(c)
  /\ pass \in {"failed", "undefined"} => \E i \in Points \ coarse : diag[i] # "positive"
-----------------------------------------------------------------------------
(* The builders keep it.                                                   *)

(* The columns and lengths depend on the inputs alone.                     *)
LEMMA InputsKept ==
  ASSUME UNCHANGED inputs
  PROVE  /\ Inputs => Inputs'
         /\ \A i \in Points : Interpolating(i)' = Interpolating(i) /\ Columns(i)' = Columns(i)
         /\ CoarsePoints' = CoarsePoints /\ Cleared' = Cleared
         /\ \A m, start : MarkBefore(m, start)' = MarkBefore(m, start)
         /\ builder' = builder /\ coarse' = coarse /\ diag' = diag
<1>1. builder' = builder /\ S' = S /\ weak' = weak /\ coarse' = coarse /\ diag' = diag
  BY DEF inputs
<1>2. Inputs => Inputs'
  BY <1>1 DEF Inputs
<1>3. \A i \in Points : Interpolating(i)' = Interpolating(i)
  BY <1>1 DEF Interpolating, UsesFarPoints, StrongRow
<1>4. \A i \in Points : Columns(i)' = Columns(i)
  BY <1>1, <1>3 DEF Columns, Number
<1>5. CoarsePoints' = CoarsePoints /\ Cleared' = Cleared
  BY <1>1 DEF CoarsePoints, Cleared, Unmarked
<1>6. \A m, start : MarkBefore(m, start)' = MarkBefore(m, start)
  BY <1>1 DEF MarkBefore
<1>7. QED
  BY <1>1, <1>2, <1>3, <1>4, <1>5, <1>6

(* A level begins with nothing counted.                                     *)
LEMMA LevelStarts == InitLevel => LevelInv
<1> SUFFICES ASSUME InitLevel PROVE LevelInv
  OBVIOUS
<1> USE DEF InitLevel, BuilderInit
<1>1. N \in Nat \ {0} /\ Relations \subseteq SUBSET (Points \X Points)
  BY InterpolationAssumption
<1>2. Cleared \in [Points -> Int]
  BY DEF Cleared, Unmarked
<1>3. Inputs
  <2>1. \A i \in Points : diag[i] \in DiagonalSigns
    BY DEF DiagonalSigns
  <2>2. diag \in [Points -> DiagonalSigns]
    BY <2>1
  <2>3. QED
    BY <1>1, <2>2 DEF Inputs
<1>4. LevelTypeOK
  BY <1>1, <1>2 DEF LevelTypeOK
<1>5. SharesStayInRow
  BY DEF SharesStayInRow
<1>6. Counting
  <2>1. 0 .. row - 1 = {}
    OBVIOUS
  <2>2. builder = "standart2" => \A c \in Points : markers[c] < next
    BY DEF Cleared, Unmarked
  <2>3. QED
    BY <2>1, <2>2 DEF Counting
<1>7. QED
  BY <1>3, <1>4, <1>5, <1>6 DEF LevelInv, BuiltP

(* The lengths of the rows counted so far and of one more.                 *)
LEMMA CountsOne ==
  ASSUME LevelInv, pass = "count", row < N, UNCHANGED inputs,
         p_rows_ptr' = [p_rows_ptr EXCEPT ![row + 1] = Cardinality(Interpolating(row))],
         row' = row + 1,
         UNCHANGED <<p_cols_ind, strayed>>
  PROVE  /\ row \in Points /\ row' \in 0 .. N
         /\ p_rows_ptr' \in [0 .. N -> Nat]
         /\ \A i \in 0 .. row' - 1 : p_rows_ptr'[i + 1] = Cardinality(Interpolating(i))'
         /\ strayed' = {} /\ p_cols_ind' = <<>>
<1>1. /\ N \in Nat /\ row \in 0 .. N /\ p_rows_ptr \in [0 .. N -> Nat]
      /\ \A i \in 0 .. row - 1 : p_rows_ptr[i + 1] = Cardinality(Interpolating(i))
      /\ strayed = {} /\ p_cols_ind = <<>>
  BY PointSets DEF LevelInv, LevelTypeOK, Counting
<1>2. row \in Points /\ row' \in 0 .. N /\ row + 1 \in 0 .. N
  BY <1>1 DEF Points
<1>3. Cardinality(Interpolating(row)) \in Nat
  BY <1>2, InterpolatingPoints DEF LevelInv
<1>4. p_rows_ptr' \in [0 .. N -> Nat]
  BY <1>1, <1>2, <1>3
<1>5. ASSUME NEW i \in 0 .. row' - 1
      PROVE  p_rows_ptr'[i + 1] = Cardinality(Interpolating(i))'
  <2>1. i \in 0 .. row /\ i \in Points /\ i + 1 \in 0 .. N
    BY <1>1, <1>2 DEF Points
  <2>2. Interpolating(i)' = Interpolating(i)
    BY <2>1, InputsKept
  <2>3. CASE i = row
    BY <1>1, <1>2, <2>2, <2>3
  <2>4. CASE i # row
    <3>1. i \in 0 .. row - 1 /\ i + 1 # row + 1
      BY <1>1, <2>1, <2>4
    <3>2. QED
      BY <1>1, <1>2, <2>1, <2>2, <3>1
  <2>5. QED
    BY <2>3, <2>4
<1>6. QED
  BY <1>1, <1>2, <1>4, <1>5

(* A coarse row is counted with one column, its own.                        *)
LEMMA CountCoarseKeeps == LevelInv /\ CountCoarse /\ UNCHANGED product => LevelInv'
<1> SUFFICES ASSUME LevelInv, CountCoarse, UNCHANGED product PROVE LevelInv'
  OBVIOUS
<1>1. /\ pass = "count" /\ row < N /\ row \in coarse /\ row' = row + 1
      /\ p_rows_ptr' = [p_rows_ptr EXCEPT ![row + 1] = 1]
      /\ UNCHANGED <<pass, inputs, markers, next, p_cols_ind, strayed>>
  BY DEF CountCoarse
<1>2. Inputs /\ LevelTypeOK /\ Counting /\ counter = 0 /\ rap_cols = <<>>
  BY <1>1 DEF LevelInv
<1>3. row \in Points
  BY <1>1, <1>2 DEF Inputs
<1>4. Cardinality(Interpolating(row)) = 1
  BY <1>1, <1>2, <1>3, InterpolatingPoints
<1>5. UNCHANGED inputs
  BY <1>1
<1>6. /\ row \in Points /\ row' \in 0 .. N
      /\ p_rows_ptr' \in [0 .. N -> Nat]
      /\ \A i \in 0 .. row' - 1 : p_rows_ptr'[i + 1] = Cardinality(Interpolating(i))'
      /\ strayed' = {} /\ p_cols_ind' = <<>>
  BY <1>1, <1>4, CountsOne
<1>7. Inputs' /\ Cleared' = Cleared /\ builder' = builder /\ coarse' = coarse
  BY <1>2, <1>5, InputsKept
<1>8. markers' = markers /\ next' = next /\ pass' = "count" /\ counter' = 0 /\ rap_cols' = <<>>
  BY <1>1, <1>2 DEF product
<1>9. LevelTypeOK'
  BY <1>2, <1>6, <1>7, <1>8 DEF LevelTypeOK
<1>10. Counting'
  BY <1>2, <1>6, <1>7, <1>8 DEF Counting
<1>11. SharesStayInRow'
  BY <1>6 DEF SharesStayInRow
<1>12. QED
  BY <1>7, <1>8, <1>9, <1>10, <1>11 DEF LevelInv, BuiltP

(* What is not allocated yet is an array without positions.                 *)
LEMMA EmptyArray == <<>> \in Arrays
<1>1. <<>> \in [{} -> Int] /\ {} \in SUBSET Int
  OBVIOUS
<1>2. QED
  BY <1>1 DEF Arrays

(* A fine row is counted with as many columns as it has interpolating       *)
(* points, whether standart2 counts its marks or the others a set.          *)
LEMMA CountFineKeeps == LevelInv /\ CountFine /\ UNCHANGED product => LevelInv'
<1> SUFFICES ASSUME LevelInv, CountFine, UNCHANGED product PROVE LevelInv'
  OBVIOUS
<1> DEFINE st == EnterMet(markers, next, <<>>)
           size == Cardinality(Interpolating(row))
<1>1. /\ pass = "count" /\ row < N /\ row \notin coarse /\ row' = row + 1
      /\ IF builder = "standart2"
           THEN /\ p_rows_ptr' = [p_rows_ptr EXCEPT ![row + 1] = st.next - next]
                /\ markers' = st.marks
                /\ next' = st.next
           ELSE /\ p_rows_ptr' =
                     [p_rows_ptr EXCEPT ![row + 1] = Cardinality(ToSet(Met(row)))]
                /\ UNCHANGED <<markers, next>>
      /\ UNCHANGED <<pass, inputs, p_cols_ind, strayed>>
  BY DEF CountFine
<1>2. Inputs /\ LevelTypeOK /\ Counting /\ counter = 0 /\ rap_cols = <<>>
  BY <1>1 DEF LevelInv
<1>3. /\ row \in Points \ coarse /\ markers \in [Points -> Int] /\ next \in Nat
      /\ N \in Nat
  BY <1>1, <1>2, PointSets DEF LevelTypeOK, Points
<1>4. size \in Nat
  BY <1>2, <1>3, InterpolatingPoints
<1> HIDE DEF st, size
<1>5. ASSUME builder = "standart2"
      PROVE  /\ st.marks \in [Points -> Int] /\ st.next = next + size
             /\ \A c \in Points : st.marks[c] < st.next
  <2>1. \A c \in Points : markers[c] < next
    BY <1>2, <1>5 DEF Counting
  <2>2. /\ st.marks \in [Points -> Int] /\ st.next = next + size
        /\ \A c \in Points : IF c \in Interpolating(row)
                               THEN st.marks[c] \in next .. st.next - 1
                               ELSE st.marks[c] = markers[c]
    <3>1. MetEntered(st, markers, next, <<>>, row)
      BY <1>2, <1>3, <2>1, EmptyArray, EntersMet DEF st
    <3>2. QED
      BY <3>1 DEF MetEntered, size
  <2>3. \A c \in Points : st.marks[c] < st.next
    <3> SUFFICES ASSUME NEW c \in Points PROVE st.marks[c] < st.next
      OBVIOUS
    <3>1. st.marks[c] \in Int /\ markers[c] \in Int /\ st.next \in Int
      BY <1>3, <1>4, <2>2
    <3>2. CASE c \in Interpolating(row)
      BY <1>3, <2>2, <3>1, <3>2
    <3>3. CASE c \notin Interpolating(row)
      BY <1>3, <1>4, <2>1, <2>2, <3>1, <3>3
    <3>4. QED
      BY <3>2, <3>3
  <2>4. QED
    BY <2>2, <2>3
<1>6. /\ p_rows_ptr' = [p_rows_ptr EXCEPT ![row + 1] = size]
      /\ markers' \in [Points -> Int] /\ next' \in Nat
      /\ IF builder = "standart2" THEN \A c \in Points : markers'[c] < next'
         ELSE markers' = markers
  <2>1. CASE builder = "standart2"
    <3>1. st.next - next = size /\ st.next \in Nat
      BY <1>3, <1>4, <1>5, <2>1
    <3>2. QED
      BY <1>1, <1>5, <2>1, <3>1
  <2>2. CASE builder # "standart2"
    <3>1. ToSet(Met(row)) = Interpolating(row)
      BY <1>2, <1>3, MetElements
    <3>2. QED
      BY <1>1, <1>3, <2>2, <3>1 DEF size
  <2>3. QED
    BY <2>1, <2>2
<1>7. UNCHANGED inputs
  BY <1>1
<1>8. /\ row \in Points /\ row' \in 0 .. N
      /\ p_rows_ptr' \in [0 .. N -> Nat]
      /\ \A i \in 0 .. row' - 1 : p_rows_ptr'[i + 1] = Cardinality(Interpolating(i))'
      /\ strayed' = {} /\ p_cols_ind' = <<>>
  BY <1>1, <1>6, CountsOne DEF size
<1>9. Inputs' /\ Cleared' = Cleared /\ builder' = builder /\ coarse' = coarse
  BY <1>2, <1>7, InputsKept
<1>10. pass' = "count" /\ counter' = 0 /\ rap_cols' = <<>>
  BY <1>1, <1>2 DEF product
<1>11. LevelTypeOK'
  BY <1>2, <1>6, <1>8, <1>9, <1>10 DEF LevelTypeOK
<1>12. Counting'
  BY <1>2, <1>6, <1>8, <1>9, <1>10 DEF Counting
<1>13. SharesStayInRow'
  BY <1>8 DEF SharesStayInRow
<1>14. QED
  BY <1>9, <1>10, <1>11, <1>12, <1>13 DEF LevelInv, BuiltP

(* The positions of the rows: sums of the lengths before.                  *)
LEMMA PositionsOfRows ==
  ASSUME p_rows_ptr \in [0 .. N -> Nat]
  PROVE  /\ Positions \in [0 .. N -> Nat]
         /\ Positions[0] = 0
         /\ \A i \in 1 .. N : Positions[i] = Positions[i - 1] + p_rows_ptr[i]
<1> DEFINE V == Nat
           zero == 0
           F == [pair \in V \X (1 .. N) |-> pair[1] + p_rows_ptr[pair[2]]]
           IsUpto(f) == f = [i \in 0 .. N |-> IF i = 0 THEN 0 ELSE f[i - 1] + p_rows_ptr[i]]
           upto == CHOOSE f : IsUpto(f)
<1>1. N \in Nat
  BY PointSets
<1>2. Positions = upto
  BY DEF Positions
<1>3. /\ F \in [V \X (1 .. N) -> V] /\ zero \in V
      /\ \A x \in V, i \in 1 .. N : F[<<x, i>>] = x + p_rows_ptr[i]
  OBVIOUS
<1>4. PICK g \in [0 .. N -> V] : Follows(g, zero, N, F)
  <2> HIDE DEF V, zero, F
  <2>1. QED
    BY <1>1, <1>3, RecursionExists
<1> HIDE DEF F
<1>5. IsUpto(g)
  <2>1. \A i \in 0 .. N : g[i] = IF i = 0 THEN 0 ELSE g[i - 1] + p_rows_ptr[i]
    <3> SUFFICES ASSUME NEW i \in 0 .. N
                 PROVE  g[i] = IF i = 0 THEN 0 ELSE g[i - 1] + p_rows_ptr[i]
      OBVIOUS
    <3>1. CASE i = 0
      BY <1>4, <3>1 DEF Follows
    <3>2. CASE i # 0
      <4>1. i \in 1 .. N /\ i - 1 \in 0 .. N
        BY <1>1, <3>2
      <4>2. g[i] = F[<<g[i - 1], i>>] /\ g[i - 1] \in V
        BY <1>4, <4>1 DEF Follows
      <4>3. QED
        BY <1>3, <3>2, <4>1, <4>2
    <3>3. QED
      BY <3>1, <3>2
  <2>2. QED
    BY <2>1
<1>6. IsUpto(upto)
  <2> HIDE DEF IsUpto
  <2>1. QED
    BY <1>5
<1> HIDE DEF upto
<1>7. /\ upto[0] = 0 /\ DOMAIN upto = 0 .. N
      /\ \A i \in 1 .. N : upto[i] = upto[i - 1] + p_rows_ptr[i]
  <2>1. \A i \in 0 .. N : upto[i] = IF i = 0 THEN 0 ELSE upto[i - 1] + p_rows_ptr[i]
    BY <1>6
  <2>2. DOMAIN upto = 0 .. N
    BY <1>6
  <2>3. QED
    BY <1>1, <2>1, <2>2
<1>8. upto = [i \in 0 .. N |-> upto[i]]
  <2>1. upto = [i \in 0 .. N |-> IF i = 0 THEN 0 ELSE upto[i - 1] + p_rows_ptr[i]]
    BY <1>6
  <2>2. QED
    BY <2>1
<1> HIDE DEF IsUpto
<1> DEFINE T == { i \in 0 .. N : upto[i] \in Nat }
<1>9. 0 \in T
  BY <1>1, <1>7
<1>10. \A i \in 1 .. N : i - 1 \in T => i \in T
  BY <1>7
<1> HIDE DEF T
<1>11. 0 .. N \subseteq T
  BY <1>1, <1>9, <1>10, InductionUpTo
<1>12. \A i \in 0 .. N : upto[i] \in Nat
  BY <1>11 DEF T
<1>13. upto \in [0 .. N -> Nat]
  BY <1>8, <1>12
<1>14. QED
  BY <1>2, <1>7, <1>13

(* The lengths become positions, with nothing filled and nothing marked.    *)
LEMMA AllocateKeeps == LevelInv /\ Allocate /\ UNCHANGED product => LevelInv'
<1> SUFFICES ASSUME LevelInv, Allocate, UNCHANGED product PROVE LevelInv'
  OBVIOUS
<1>1. /\ pass = "count" /\ row = N /\ p_rows_ptr' = Positions
      /\ p_cols_ind' = [k \in 0 .. Positions[N] - 1 |-> -1]
      /\ markers' = ClearedMarkers /\ row' = 0 /\ pass' = "fill"
      /\ UNCHANGED <<inputs, next, strayed>>
  BY DEF Allocate
<1>2. Inputs /\ LevelTypeOK /\ Counting /\ counter = 0 /\ rap_cols = <<>>
  BY <1>1 DEF LevelInv
<1>3. /\ N \in Nat /\ next \in Nat /\ strayed = {}
      /\ \A i \in Points : p_rows_ptr[i + 1] = Cardinality(Interpolating(i))
  BY <1>1, <1>2, PointSets DEF LevelTypeOK, Counting, Points
<1>4. /\ Positions \in [0 .. N -> Nat] /\ Positions[0] = 0
      /\ \A i \in 1 .. N : Positions[i] = Positions[i - 1] + p_rows_ptr[i]
  BY <1>2, PositionsOfRows DEF LevelTypeOK
<1>5. Positions[N] \in Nat
  BY <1>3, <1>4
<1>6. \A i \in Points : Positions[i + 1] = Positions[i] + Cardinality(Interpolating(i))
  <2> SUFFICES ASSUME NEW i \in Points
               PROVE  Positions[i + 1] = Positions[i] + Cardinality(Interpolating(i))
    OBVIOUS
  <2> PICK j \in 1 .. N : j = i + 1
    BY <1>3 DEF Points
  <2>1. j - 1 = i
    BY DEF Points
  <2>2. p_rows_ptr[j] = Cardinality(Interpolating(i))
    BY <1>3
  <2> HIDE DEF Positions
  <2>3. Positions[j] = Positions[i] + p_rows_ptr[j]
    BY <1>4, <2>1
  <2>4. QED
    BY <2>2, <2>3
<1>7. /\ Inputs' /\ Cleared' = Cleared /\ builder' = builder /\ coarse' = coarse
      /\ \A i \in Points : Interpolating(i)' = Interpolating(i)
  BY <1>1, <1>2, InputsKept
<1>8. counter' = 0 /\ rap_cols' = <<>> /\ strayed' = {} /\ next' = next
  BY <1>1, <1>2, <1>3 DEF product
<1>9. markers' = Cleared
  BY <1>1, <1>2 DEF ClearedMarkers, Counting
<1>10. markers' \in [Points -> Int]
  BY <1>9 DEF Cleared, Unmarked
<1> HIDE DEF Positions
<1>11. /\ p_cols_ind' \in [0 .. p_rows_ptr'[N] - 1 -> Int]
       /\ \A pos \in 0 .. p_rows_ptr'[N] - 1 : p_cols_ind'[pos] = -1
       /\ DOMAIN p_cols_ind' = 0 .. p_rows_ptr'[N] - 1
  BY <1>1, <1>5
<1>12. LevelTypeOK'
  BY <1>1, <1>3, <1>4, <1>8, <1>10, <1>11 DEF LevelTypeOK
<1>13. Laid'
  BY <1>1, <1>4, <1>6, <1>7, <1>11 DEF Laid
<1>14. Filling'
  <2>1. 0 .. row' - 1 = {} /\ 0 .. p_rows_ptr'[row'] - 1 = {} /\ p_rows_ptr'[row'] = 0
    BY <1>1, <1>4
  <2>2. \A c \in Points : MarkBefore(markers[c], p_rows_ptr[row])'
    <3> SUFFICES ASSUME NEW c \in Points PROVE MarkBefore(markers[c], p_rows_ptr[row])'
      OBVIOUS
    <3>1. markers'[c] = IF builder = "standart" THEN 0 ELSE -1
      BY <1>9 DEF Cleared, Unmarked
    <3>2. QED
      BY <1>7, <2>1, <3>1 DEF MarkBefore
  <2>3. QED
    BY <1>11, <2>1, <2>2 DEF Filling
<1>15. SharesStayInRow'
  BY <1>8 DEF SharesStayInRow
<1>16. QED
  BY <1>1, <1>7, <1>8, <1>12, <1>13, <1>14, <1>15 DEF LevelInv, BuiltP

(* Where each value is no greater than the next, an earlier one is no      *)
(* greater than a later one.                                               *)
LEMMA Rising ==
  ASSUME NEW n \in Nat, NEW f \in [0 .. n -> Int], \A i \in 0 .. n - 1 : f[i] <= f[i + 1]
  PROVE  \A i, j \in 0 .. n : i <= j => f[i] <= f[j]
<1> DEFINE T == { j \in 0 .. n : \A i \in 0 .. j : f[i] <= f[j] }
<1>1. 0 \in T
  <2>1. f[0] \in Int
    OBVIOUS
  <2>2. QED
    BY <2>1
<1>2. ASSUME NEW j \in 1 .. n, j - 1 \in T PROVE j \in T
  <2> SUFFICES ASSUME NEW i \in 0 .. j PROVE f[i] <= f[j]
    OBVIOUS
  <2>1. j - 1 \in 0 .. n - 1 /\ j - 1 + 1 = j
    OBVIOUS
  <2>2. f[j - 1] <= f[j]
    BY <2>1
  <2>3. f[i] \in Int /\ f[j] \in Int /\ f[j - 1] \in Int
    BY <2>1
  <2>4. CASE i = j
    BY <2>3, <2>4
  <2>5. CASE i # j
    <3>1. i \in 0 .. j - 1
      BY <2>5
    <3>2. f[i] <= f[j - 1]
      BY <1>2, <3>1
    <3>3. QED
      BY <2>2, <2>3, <3>2
  <2>6. QED
    BY <2>4, <2>5
<1> HIDE DEF T
<1>3. 0 .. n \subseteq T
  BY <1>1, <1>2, InductionUpTo
<1>4. QED
  BY <1>3 DEF T

(* The rows of P lie one after the other.                                   *)
LEMMA RowPositions ==
  ASSUME Inputs, Laid, p_rows_ptr \in [0 .. N -> Nat]
  PROVE  /\ \A i \in 0 .. N : p_rows_ptr[i] \in Nat
         /\ \A i, j \in 0 .. N : i <= j => p_rows_ptr[i] <= p_rows_ptr[j]
<1>1. N \in Nat /\ \A i \in 0 .. N : p_rows_ptr[i] \in Nat
  BY PointSets
<1>2. p_rows_ptr \in [0 .. N -> Int]
  BY <1>1
<1>3. \A i \in 0 .. N - 1 : p_rows_ptr[i] <= p_rows_ptr[i + 1]
  <2> SUFFICES ASSUME NEW i \in Points PROVE p_rows_ptr[i] <= p_rows_ptr[i + 1]
    BY DEF Points
  <2>1. Cardinality(Interpolating(i)) \in Nat
    BY InterpolatingPoints
  <2>2. i \in 0 .. N /\ p_rows_ptr[i + 1] = p_rows_ptr[i] + Cardinality(Interpolating(i))
    BY <1>1 DEF Laid, Points
  <2>3. QED
    BY <1>1, <2>1, <2>2
<1>4. QED
  BY <1>1, <1>2, <1>3, Rising

(* A row whose positions are not written stays filled.                      *)
LEMMA FillsSame ==
  ASSUME NEW old, NEW new, NEW from, NEW to, NEW W, Fills(old, from, to, W),
         \A pos \in from .. to - 1 : new[pos] = old[pos]
  PROVE  Fills(new, from, to, W)
BY DEF Fills

(* What the filling of one row leaves to show.                             *)
RowWritten(cols) ==
  /\ cols \in [0 .. p_rows_ptr[N] - 1 -> Int]
  /\ Fills(cols, p_rows_ptr[row], p_rows_ptr[row + 1], Columns(row))
  /\ \A pos \in (0 .. p_rows_ptr[N] - 1) \ (p_rows_ptr[row] .. p_rows_ptr[row + 1] - 1) :
       cols[pos] = p_cols_ind[pos]

(* One more row is filled or left blank, and the others stay as they are.   *)
LEMMA FillsOne ==
  ASSUME LevelInv, pass = "fill", row < N, UNCHANGED <<inputs, p_rows_ptr>>,
         row' = row + 1,
         RowWritten(p_cols_ind') \/ (/\ p_cols_ind' = p_cols_ind
                                     /\ row \notin coarse /\ diag[row] # "positive")
  PROVE  /\ Laid' /\ row' \in 0 .. N
         /\ \A k \in DOMAIN p_cols_ind' : p_cols_ind'[k] \in -1 .. N - 1
         /\ \A i \in 0 .. row' - 1 : RowFilled(i)' \/ RowBlank(i)'
         /\ \A pos \in p_rows_ptr[row'] .. p_rows_ptr[N] - 1 : p_cols_ind'[pos] = -1
         /\ (\A i \in Points \ coarse : diag[i] = "positive") =>
              \A pos \in 0 .. p_rows_ptr[row'] - 1 : p_cols_ind'[pos] >= 0
<1> DEFINE ptr == p_rows_ptr
           nnz == ptr[N]
           begin == ptr[row]
           end == ptr[row + 1]
           old == p_cols_ind
<1> PICK new : new = p_cols_ind'
  OBVIOUS
<1>1. /\ Inputs /\ LevelTypeOK /\ Laid /\ Filling
  BY DEF LevelInv
<1>2. /\ N \in Nat /\ row \in Points /\ row \in 0 .. N /\ row + 1 \in 0 .. N
      /\ p_rows_ptr \in [0 .. N -> Nat]
  BY <1>1, PointSets DEF LevelTypeOK, Points
<1>3. /\ \A i \in 0 .. N : ptr[i] \in Nat
      /\ \A i, j \in 0 .. N : i <= j => ptr[i] <= ptr[j]
  BY <1>1, <1>2, RowPositions
<1>4. /\ begin \in Nat /\ end \in Nat /\ nnz \in Nat /\ begin <= end /\ end <= nnz
  BY <1>2, <1>3
<1>5. /\ old \in [0 .. nnz - 1 -> Int]
      /\ \A pos \in 0 .. nnz - 1 : old[pos] \in -1 .. N - 1
      /\ \A pos \in begin .. nnz - 1 : old[pos] = -1
  BY <1>1 DEF Laid, LevelTypeOK, Filling
<1>6. /\ \A i \in Points : Interpolating(i)' = Interpolating(i) /\ Columns(i)' = Columns(i)
      /\ Columns(row) \subseteq 0 .. N - 1
  BY <1>1, <1>2, InputsKept, InterpolatingPoints
<1>7. new \in [0 .. nnz - 1 -> Int]
  BY <1>5 DEF RowWritten
<1>8. \A pos \in (0 .. nnz - 1) \ (begin .. end - 1) : new[pos] = old[pos]
  BY <1>5 DEF RowWritten
<1>9. \/ Fills(new, begin, end, Columns(row))
      \/ /\ row \notin coarse /\ diag[row] # "positive"
         /\ \A pos \in begin .. end - 1 : new[pos] = -1
  <2>1. CASE RowWritten(p_cols_ind')
    BY <2>1 DEF RowWritten
  <2>2. CASE ~RowWritten(p_cols_ind')
    <3>1. begin .. end - 1 \subseteq begin .. nnz - 1
      BY <1>4
    <3>2. QED
      BY <1>5, <2>2, <3>1
  <2>3. QED
    BY <2>1, <2>2
<1>10. Laid'
  BY <1>1, <1>6, <1>7 DEF Laid
<1>11. \A pos \in 0 .. nnz - 1 : new[pos] \in -1 .. N - 1
  <2> SUFFICES ASSUME NEW pos \in 0 .. nnz - 1 PROVE new[pos] \in -1 .. N - 1
    OBVIOUS
  <2>1. CASE pos \in begin .. end - 1
    <3>1. new[pos] \in Columns(row) \/ new[pos] = -1
      BY <1>9, <2>1 DEF Fills
    <3>2. QED
      BY <1>2, <1>6, <3>1
  <2>2. CASE pos \notin begin .. end - 1
    BY <1>5, <1>8, <2>2
  <2>3. QED
    BY <2>1, <2>2
<1>12. ASSUME NEW i \in 0 .. row' - 1
       PROVE  RowFilled(i)' \/ RowBlank(i)'
  <2>1. i \in 0 .. row /\ i \in Points
    BY <1>2 DEF Points
  <2>2. SUFFICES \/ Fills(new, ptr[i], ptr[i + 1], Columns(i))
                 \/ \A pos \in ptr[i] .. ptr[i + 1] - 1 : new[pos] = -1
    BY <1>6, <2>1 DEF RowFilled, RowBlank
  <2>3. CASE i = row
    BY <1>9, <2>3
  <2>4. CASE i # row
    <3>1. /\ i \in 0 .. row - 1 /\ i \in 0 .. N /\ i + 1 \in 0 .. N
          /\ 0 <= ptr[i] /\ ptr[i + 1] <= begin /\ ptr[i] \in Nat /\ ptr[i + 1] \in Nat
      BY <1>2, <1>3, <2>1, <2>4
    <3>2. \A pos \in ptr[i] .. ptr[i + 1] - 1 : pos \in (0 .. nnz - 1) \ (begin .. end - 1)
      BY <1>4, <3>1
    <3>3. \A pos \in ptr[i] .. ptr[i + 1] - 1 : new[pos] = old[pos]
      BY <1>8, <3>2
    <3>4. RowFilled(i) \/ RowBlank(i)
      BY <1>1, <3>1 DEF Filling
    <3>5. CASE RowFilled(i)
      BY <3>3, <3>5, FillsSame DEF RowFilled
    <3>6. CASE RowBlank(i)
      BY <3>3, <3>6 DEF RowBlank
    <3>7. QED
      BY <3>4, <3>5, <3>6
  <2>5. QED
    BY <2>3, <2>4
<1>13. \A pos \in ptr[row'] .. nnz - 1 : new[pos] = -1
  <2> SUFFICES ASSUME NEW pos \in end .. nnz - 1 PROVE new[pos] = -1
    OBVIOUS
  <2>1. pos \in begin .. nnz - 1 /\ pos \in (0 .. nnz - 1) \ (begin .. end - 1)
    BY <1>4
  <2>2. QED
    BY <1>5, <1>8, <2>1
<1>14. ASSUME \A i \in Points \ coarse : diag[i] = "positive", NEW pos \in 0 .. end - 1
       PROVE  new[pos] >= 0
  <2>1. \A q \in 0 .. begin - 1 : old[q] >= 0
    BY <1>1, <1>14 DEF Filling
  <2>2. Fills(new, begin, end, Columns(row))
    BY <1>2, <1>9, <1>14
  <2>3. CASE pos \in begin .. end - 1
    <3>1. new[pos] \in Columns(row)
      BY <2>2, <2>3 DEF Fills
    <3>2. QED
      BY <1>2, <1>6, <3>1
  <2>4. CASE pos \notin begin .. end - 1
    <3>1. pos \in 0 .. begin - 1 /\ pos \in (0 .. nnz - 1) \ (begin .. end - 1)
      BY <1>4, <2>4
    <3>2. QED
      BY <1>8, <2>1, <3>1
  <2>5. QED
    BY <2>3, <2>4
<1>15. row' \in 0 .. N /\ row' = row + 1
  BY <1>2
<1>16. QED
  BY <1>7, <1>10, <1>11, <1>12, <1>13, <1>14, <1>15

(* A coarse row is filled with its own number.                              *)
LEMMA FillCoarseKeeps == LevelInv /\ FillCoarse /\ UNCHANGED product => LevelInv'
<1> SUFFICES ASSUME LevelInv, FillCoarse, UNCHANGED product PROVE LevelInv'
  OBVIOUS
<1> DEFINE begin == p_rows_ptr[row]
           end == p_rows_ptr[row + 1]
           nnz == p_rows_ptr[N]
<1>1. /\ pass = "fill" /\ row < N /\ row \in coarse
      /\ p_cols_ind' = [p_cols_ind EXCEPT ![begin] = Number(row)]
      /\ row' = row + 1
      /\ UNCHANGED <<pass, inputs, markers, next, p_rows_ptr, strayed>>
  BY DEF FillCoarse
<1>2. /\ Inputs /\ LevelTypeOK /\ Laid /\ Filling /\ SharesStayInRow
      /\ counter = 0 /\ rap_cols = <<>>
  BY <1>1 DEF LevelInv
<1>3. /\ N \in Nat /\ row \in Points /\ row \in 0 .. N /\ row + 1 \in 0 .. N /\ N \in 0 .. N
      /\ p_rows_ptr \in [0 .. N -> Nat]
  BY <1>1, <1>2, PointSets DEF LevelTypeOK, Points
<1>4. begin \in Nat /\ end \in Nat /\ nnz \in Nat /\ begin <= end /\ end <= nnz
  BY <1>2, <1>3, RowPositions
<1>5. Cardinality(Interpolating(row)) = 1 /\ Columns(row) = {Number(row)}
  BY <1>1, <1>2, <1>3, InterpolatingPoints
<1>6. end = begin + 1
  BY <1>2, <1>3, <1>5 DEF Laid
<1>7. begin \in 0 .. nnz - 1 /\ begin .. end - 1 = {begin}
  BY <1>4, <1>6
<1>8. Number(row) \in Int
  BY <1>2, <1>3, <1>5, InterpolatingPoints
<1>9. p_cols_ind \in [0 .. nnz - 1 -> Int]
  BY <1>2 DEF Laid
<1>10. RowWritten(p_cols_ind')
  <2> PICK new : new = p_cols_ind'
    OBVIOUS
  <2>1. new = [p_cols_ind EXCEPT ![begin] = Number(row)]
    BY <1>1
  <2>2. /\ new \in [0 .. nnz - 1 -> Int] /\ new[begin] = Number(row)
        /\ \A pos \in (0 .. nnz - 1) \ {begin} : new[pos] = p_cols_ind[pos]
    BY <1>7, <1>8, <1>9, <2>1
  <2>3. Fills(new, begin, end, Columns(row))
    BY <1>5, <1>7, <2>2 DEF Fills
  <2>4. QED
    BY <1>7, <2>2, <2>3 DEF RowWritten
<1>11. UNCHANGED <<inputs, p_rows_ptr>>
  BY <1>1
<1>12. /\ Laid' /\ row' \in 0 .. N
       /\ \A k \in DOMAIN p_cols_ind' : p_cols_ind'[k] \in -1 .. N - 1
       /\ \A i \in 0 .. row' - 1 : RowFilled(i)' \/ RowBlank(i)'
       /\ \A pos \in p_rows_ptr[row'] .. p_rows_ptr[N] - 1 : p_cols_ind'[pos] = -1
       /\ (\A i \in Points \ coarse : diag[i] = "positive") =>
            \A pos \in 0 .. p_rows_ptr[row'] - 1 : p_cols_ind'[pos] >= 0
  BY <1>1, <1>10, <1>11, FillsOne
<1>13. /\ Inputs' /\ coarse' = coarse /\ diag' = diag
       /\ \A m, start : MarkBefore(m, start)' = MarkBefore(m, start)
  BY <1>2, <1>11, InputsKept
<1>14. /\ p_rows_ptr' = p_rows_ptr /\ markers' = markers /\ pass' = "fill" /\ next' = next
       /\ strayed' = strayed /\ counter' = 0 /\ rap_cols' = <<>>
  BY <1>1, <1>2 DEF product
<1>15. LevelTypeOK'
  BY <1>2, <1>12, <1>13, <1>14 DEF LevelTypeOK
<1>16. \A c \in Points : MarkBefore(markers[c], p_rows_ptr[row])'
  <2> SUFFICES ASSUME NEW c \in Points PROVE MarkBefore(markers[c], p_rows_ptr[row])'
    OBVIOUS
  <2>1. MarkBefore(markers[c], begin) /\ markers[c] \in Int
    BY <1>2 DEF Filling, LevelTypeOK
  <2>2. MarkBefore(markers[c], end)
    BY <1>4, <2>1 DEF MarkBefore
  <2>3. markers'[c] = markers[c] /\ p_rows_ptr'[row'] = end /\ builder' = builder
    BY <1>1, <1>14 DEF inputs
  <2>4. QED
    BY <2>2, <2>3 DEF MarkBefore
<1>17. Filling'
  BY <1>12, <1>13, <1>14, <1>16 DEF Filling
<1>18. SharesStayInRow'
  BY <1>2, <1>14 DEF SharesStayInRow
<1>19. QED
  BY <1>12, <1>13, <1>14, <1>15, <1>17, <1>18 DEF LevelInv, BuiltP

(* Filling a fine row whose diagonal is positive.                          *)
FillRow ==
  LET st == EnterMet(IF builder = "standart3" THEN Cleared ELSE markers,
                     p_rows_ptr[row], p_cols_ind)
  IN
  /\ p_cols_ind' = st.cols
  /\ markers' = IF builder \in {"standart", "standart2"} THEN st.marks ELSE markers
  /\ strayed' =
       IF builder = "standart"
          /\ \E f \in StrongRow(row) \ coarse :
               ~ (Shares(st.marks, row, f) \subseteq StrongRow(row) \cap coarse)
       THEN strayed \cup {row} ELSE strayed
  /\ IF st.next = p_rows_ptr[row + 1]
       THEN row' = row + 1 /\ UNCHANGED pass
       ELSE pass' = "failed" /\ UNCHANGED row

(* A fine row with a positive diagonal is filled up to the next row, so     *)
(* that the builder does not fail; a share leaves it only through the zeros *)
(* standart cleared its markers to, which count as positions where the row  *)
(* begins at 0.                                                             *)
LEMMA FillRowKeeps ==
  ASSUME LevelInv, pass = "fill", row < N, row \notin coarse, FillRow,
         UNCHANGED <<inputs, next, p_rows_ptr>>, UNCHANGED product
  PROVE  LevelInv'
<1> DEFINE begin == p_rows_ptr[row]
           end == p_rows_ptr[row + 1]
           nnz == p_rows_ptr[N]
           fresh == IF builder = "standart3" THEN Cleared ELSE markers
           st == EnterMet(fresh, begin, p_cols_ind)
           W == Interpolating(row)
<1>1. /\ Inputs /\ LevelTypeOK /\ Laid /\ Filling /\ SharesStayInRow
      /\ counter = 0 /\ rap_cols = <<>>
  BY DEF LevelInv
<1>2. /\ N \in Nat /\ row \in Points \ coarse /\ row \in 0 .. N /\ row + 1 \in 0 .. N
      /\ N \in 0 .. N /\ p_rows_ptr \in [0 .. N -> Nat] /\ markers \in [Points -> Int]
  BY <1>1, PointSets DEF LevelTypeOK, Points
<1>3. begin \in Nat /\ end \in Nat /\ nnz \in Nat /\ begin <= end /\ end <= nnz
  BY <1>1, <1>2, RowPositions
<1>4. /\ p_cols_ind \in [0 .. nnz - 1 -> Int] /\ end = begin + Cardinality(W)
  BY <1>1, <1>2 DEF Laid
<1>5. p_cols_ind \in Arrays
  <2>1. 0 .. nnz - 1 \in SUBSET Int
    OBVIOUS
  <2>2. QED
    BY <1>4, <2>1 DEF Arrays
<1>6. fresh \in [Points -> Int]
  BY <1>2 DEF Cleared, Unmarked
<1>7. \A c \in Points : fresh[c] < begin \/ (builder = "standart" /\ fresh[c] = 0)
  <2> SUFFICES ASSUME NEW c \in Points
               PROVE  fresh[c] < begin \/ (builder = "standart" /\ fresh[c] = 0)
    OBVIOUS
  <2>1. CASE builder = "standart3"
    BY <1>3, <2>1 DEF Cleared, Unmarked
  <2>2. CASE builder # "standart3"
    <3>1. MarkBefore(markers[c], begin)
      BY <1>1 DEF Filling
    <3>2. QED
      BY <2>2, <3>1 DEF MarkBefore
  <2>3. QED
    BY <2>1, <2>2
<1>8. UsesFarPoints => \A c \in Points : fresh[c] < begin
  BY <1>7 DEF UsesFarPoints
<1> HIDE DEF st, fresh, W
<1>9. /\ st.marks \in [Points -> Int] /\ st.next = end
      /\ Fills(st.cols, begin, end, Columns(row))
      /\ \A c \in Points : IF c \in W THEN st.marks[c] \in begin .. end - 1
                           ELSE st.marks[c] = fresh[c]
      /\ st.cols \in Arrays
      /\ DOMAIN st.cols = (0 .. nnz - 1) \cup begin .. end - 1
      /\ \A pos \in (0 .. nnz - 1) \ (begin .. end - 1) : st.cols[pos] = p_cols_ind[pos]
  <2>1. DOMAIN p_cols_ind = 0 .. nnz - 1 /\ begin \in Int
    BY <1>3, <1>4
  <2>2. /\ st.marks \in [Points -> Int] /\ st.next \in Int /\ st.cols \in Arrays
        /\ st.next = begin + Cardinality(W)
        /\ Fills(st.cols, begin, st.next, Columns(row))
        /\ \A c \in Points : IF c \in W THEN st.marks[c] \in begin .. st.next - 1
                             ELSE st.marks[c] = fresh[c]
        /\ DOMAIN st.cols = DOMAIN p_cols_ind \cup begin .. st.next - 1
        /\ \A pos \in DOMAIN p_cols_ind \ (begin .. st.next - 1) : st.cols[pos] = p_cols_ind[pos]
    <3> HIDE DEF begin
    <3>1. MetEntered(st, fresh, begin, p_cols_ind, row)
      BY <1>1, <1>2, <1>5, <1>6, <1>8, <2>1, EntersMet DEF st
    <3>2. QED
      BY <3>1 DEF MetEntered, W
  <2>3. st.next = end
    BY <1>4, <2>2
  <2>4. QED
    BY <2>1, <2>2, <2>3
<1>10. (0 .. nnz - 1) \cup begin .. end - 1 = 0 .. nnz - 1
  BY <1>3
<1>11. st.cols \in [0 .. nnz - 1 -> Int]
  BY <1>9, <1>10 DEF Arrays
<1>12. /\ p_cols_ind' = st.cols /\ row' = row + 1 /\ pass' = pass
       /\ markers' = IF builder \in {"standart", "standart2"} THEN st.marks ELSE markers
       /\ strayed' =
            IF builder = "standart"
               /\ \E f \in StrongRow(row) \ coarse :
                    ~ (Shares(st.marks, row, f) \subseteq StrongRow(row) \cap coarse)
            THEN strayed \cup {row} ELSE strayed
  BY <1>9 DEF FillRow, st, fresh
<1>13. RowWritten(p_cols_ind')
  BY <1>9, <1>11, <1>12 DEF RowWritten
<1>14. /\ Laid' /\ row' \in 0 .. N
       /\ \A k \in DOMAIN p_cols_ind' : p_cols_ind'[k] \in -1 .. N - 1
       /\ \A i \in 0 .. row' - 1 : RowFilled(i)' \/ RowBlank(i)'
       /\ \A pos \in p_rows_ptr[row'] .. p_rows_ptr[N] - 1 : p_cols_ind'[pos] = -1
       /\ (\A i \in Points \ coarse : diag[i] = "positive") =>
            \A pos \in 0 .. p_rows_ptr[row'] - 1 : p_cols_ind'[pos] >= 0
  BY <1>12, <1>13, FillsOne
<1>15. Inputs' /\ coarse' = coarse /\ diag' = diag /\ builder' = builder
  BY <1>1, InputsKept
<1>16. /\ p_rows_ptr' = p_rows_ptr /\ pass' = "fill" /\ next' = next
       /\ counter' = 0 /\ rap_cols' = <<>>
  BY <1>1, <1>12 DEF product
<1>17. markers' \in [Points -> Int]
  BY <1>2, <1>9, <1>12
<1>18. \A c \in Points : MarkBefore(markers[c], p_rows_ptr[row])'
  <2> SUFFICES ASSUME NEW c \in Points PROVE MarkBefore(markers[c], p_rows_ptr[row])'
    OBVIOUS
  <2>1. MarkBefore(markers[c], begin) /\ markers[c] \in Int
    BY <1>1, <1>2 DEF Filling
  <2>2. st.marks[c] < end \/ (builder = "standart" /\ st.marks[c] = 0)
    <3>1. st.marks[c] \in Int /\ fresh[c] \in Int
      BY <1>6, <1>9
    <3>2. CASE c \in W
      BY <1>3, <1>9, <3>2
    <3>3. CASE c \notin W
      BY <1>3, <1>7, <1>9, <3>1, <3>3
    <3>4. QED
      BY <3>2, <3>3
  <2>3. markers[c] < end \/ (builder = "standart" /\ markers[c] = 0)
    BY <1>3, <2>1 DEF MarkBefore
  <2>4. markers'[c] < end \/ (builder = "standart" /\ markers'[c] = 0)
    BY <1>12, <2>2, <2>3
  <2>5. p_rows_ptr'[row'] = end
    BY <1>12, <1>16
  <2>6. QED
    BY <1>15, <2>4, <2>5 DEF MarkBefore
<1>19. Filling'
  BY <1>14, <1>15, <1>16, <1>18 DEF Filling
<1>20. strayed' \subseteq Points \ coarse
  BY <1>1, <1>2, <1>12 DEF LevelTypeOK
<1>21. LevelTypeOK'
  BY <1>1, <1>14, <1>15, <1>16, <1>17, <1>20 DEF LevelTypeOK
<1>22. ASSUME row \in strayed', row \notin strayed
       PROVE  begin = 0
  <2>1. PICK f \in StrongRow(row) \ coarse :
              ~ (Shares(st.marks, row, f) \subseteq StrongRow(row) \cap coarse)
    BY <1>12, <1>22
  <2>2. builder = "standart"
    BY <1>12, <1>22
  <2>3. PICK j \in Shares(st.marks, row, f) : j \notin StrongRow(row) \cap coarse
    BY <2>1
  <2>4. j \in Points /\ st.marks[j] >= begin
    BY <2>3 DEF Shares, NegativeRow, StrongRow
  <2>5. W = StrongRow(row) \cap coarse
    BY <1>2, <2>2 DEF W, Interpolating, UsesFarPoints
  <2>6. st.marks[j] = fresh[j] /\ fresh[j] \in Int
    BY <1>6, <1>9, <2>3, <2>4, <2>5
  <2>7. fresh[j] < begin \/ fresh[j] = 0
    BY <1>7, <2>4
  <2>8. QED
    BY <1>3, <2>4, <2>6, <2>7
<1>23. SharesStayInRow'
  <2> SUFFICES ASSUME NEW i \in strayed' PROVE p_rows_ptr[i] = 0
    BY <1>16 DEF SharesStayInRow
  <2>1. i \in strayed \/ i = row
    BY <1>12
  <2>2. QED
    BY <1>1, <1>22, <2>1 DEF SharesStayInRow
<1>24. QED
  BY <1>14, <1>15, <1>16, <1>19, <1>21, <1>23 DEF LevelInv, BuiltP

(* A fine row is filled, left blank, or ends the builder.                   *)
LEMMA FillFineKeeps == LevelInv /\ FillFine /\ UNCHANGED product => LevelInv'
<1> SUFFICES ASSUME LevelInv, FillFine, UNCHANGED product PROVE LevelInv'
  OBVIOUS
<1>1. /\ pass = "fill" /\ row < N /\ row \notin coarse
      /\ UNCHANGED <<inputs, next, p_rows_ptr>>
      /\ \/ /\ diag[row] = "negative"
            /\ pass' = "failed"
            /\ UNCHANGED <<row, markers, p_cols_ind, strayed>>
         \/ /\ diag[row] = "vanishing"
            /\ row' = row + 1
            /\ UNCHANGED <<pass, markers, p_cols_ind, strayed>>
         \/ FillRow
  BY DEF FillFine, FillRow
<1>2. /\ Inputs /\ LevelTypeOK /\ Laid /\ Filling /\ SharesStayInRow
      /\ counter = 0 /\ rap_cols = <<>>
  BY <1>1 DEF LevelInv
<1>3. /\ N \in Nat /\ row \in Points /\ row \in 0 .. N /\ row + 1 \in 0 .. N
      /\ p_rows_ptr \in [0 .. N -> Nat]
  BY <1>1, <1>2, PointSets DEF LevelTypeOK, Points
<1>4. /\ Inputs' /\ coarse' = coarse /\ diag' = diag /\ builder' = builder
  BY <1>1, <1>2, InputsKept
<1>5. next' = next /\ p_rows_ptr' = p_rows_ptr /\ counter' = 0 /\ rap_cols' = <<>>
  BY <1>1, <1>2 DEF product
<1>6. CASE /\ diag[row] = "negative" /\ pass' = "failed"
           /\ UNCHANGED <<row, markers, p_cols_ind, strayed>>
  <2>1. LevelTypeOK' /\ SharesStayInRow'
    BY <1>2, <1>4, <1>5, <1>6 DEF LevelTypeOK, SharesStayInRow
  <2>2. \E i \in Points \ coarse : diag[i] # "positive"
    BY <1>1, <1>3, <1>6
  <2>3. QED
    BY <1>4, <1>6, <2>1, <2>2 DEF LevelInv, BuiltP
<1>7. CASE /\ diag[row] = "vanishing" /\ row' = row + 1
           /\ UNCHANGED <<pass, markers, p_cols_ind, strayed>>
  <2>1. /\ p_cols_ind' = p_cols_ind /\ row \notin coarse /\ diag[row] # "positive"
        /\ UNCHANGED <<inputs, p_rows_ptr>>
    BY <1>1, <1>7
  <2>2. /\ Laid' /\ row' \in 0 .. N
        /\ \A k \in DOMAIN p_cols_ind' : p_cols_ind'[k] \in -1 .. N - 1
        /\ \A i \in 0 .. row' - 1 : RowFilled(i)' \/ RowBlank(i)'
        /\ \A pos \in p_rows_ptr[row'] .. p_rows_ptr[N] - 1 : p_cols_ind'[pos] = -1
        /\ (\A i \in Points \ coarse : diag[i] = "positive") =>
             \A pos \in 0 .. p_rows_ptr[row'] - 1 : p_cols_ind'[pos] >= 0
    BY <1>1, <1>7, <2>1, FillsOne
  <2>3. pass' = "fill" /\ markers' = markers /\ strayed' = strayed
    BY <1>1, <1>7
  <2>4. LevelTypeOK' /\ SharesStayInRow'
    BY <1>2, <1>4, <1>5, <2>2, <2>3 DEF LevelTypeOK, SharesStayInRow
  <2>5. \A c \in Points : MarkBefore(markers[c], p_rows_ptr[row])'
    <3> SUFFICES ASSUME NEW c \in Points PROVE MarkBefore(markers[c], p_rows_ptr[row])'
      OBVIOUS
    <3>1. MarkBefore(markers[c], p_rows_ptr[row]) /\ markers[c] \in Int
      BY <1>2 DEF Filling, LevelTypeOK
    <3>2. /\ p_rows_ptr[row] \in Nat /\ p_rows_ptr[row + 1] \in Nat
          /\ p_rows_ptr[row] <= p_rows_ptr[row + 1]
      BY <1>2, <1>3, RowPositions
    <3>3. MarkBefore(markers[c], p_rows_ptr[row + 1])
      BY <3>1, <3>2 DEF MarkBefore
    <3>4. QED
      BY <1>4, <1>5, <1>7, <2>3, <3>3 DEF MarkBefore
  <2>6. Filling'
    BY <1>4, <1>5, <2>2, <2>5 DEF Filling
  <2>7. QED
    BY <1>4, <1>5, <2>2, <2>3, <2>4, <2>6 DEF LevelInv, BuiltP
<1>8. CASE FillRow
  BY <1>1, <1>8, FillRowKeeps
<1>9. QED
  BY <1>1, <1>6, <1>7, <1>8
-----------------------------------------------------------------------------
(* The product keeps it.                                                   *)

(* A row of P that is filled is the sequence of its columns, each once.    *)
LEMMA RowOfPElements ==
  ASSUME Inputs, Laid, p_rows_ptr \in [0 .. N -> Nat],
         NEW i \in Points, RowFilled(i)
  PROVE  /\ RowOfP(i) \in Seq(Columns(i)) /\ RowOfP(i) \in Seq(CoarsePoints)
         /\ ToSet(RowOfP(i)) = Columns(i)
         /\ IsInjective(RowOfP(i))
<1> DEFINE from == p_rows_ptr[i]
           to == p_rows_ptr[i + 1]
           W == Columns(i)
           s == [k \in 1 .. to - from |-> p_cols_ind[from + k - 1]]
<1>1. i \in 0 .. N /\ i + 1 \in 0 .. N /\ i <= i + 1
  BY PointSets DEF Points
<1>2. from \in Int /\ to \in Int /\ from <= to
  BY <1>1, RowPositions
<1>3. Fills(p_cols_ind, from, to, W)
  BY DEF RowFilled
<1>4. W \subseteq CoarsePoints
  BY InterpolatingPoints
<1>5. RowOfP(i) = s
  BY DEF RowOfP
<1> HIDE DEF from, to, W
<1>6. s \in Seq(W) /\ ToSet(s) = W /\ IsInjective(s)
  BY <1>2, <1>3, FilledRow
<1> HIDE DEF s
<1>7. s \in Seq(CoarsePoints)
  BY <1>4, <1>6, SeqMonotonic
<1>8. QED
  BY <1>5, <1>6, <1>7 DEF W

(* Blank rows that are empty are filled.                                   *)
LEMMA RowsFilled ==
  ASSUME Inputs, Laid, p_rows_ptr \in [0 .. N -> Nat],
         \A k \in DOMAIN p_cols_ind : p_cols_ind[k] >= 0,
         NEW i \in Points, RowFilled(i) \/ RowBlank(i)
  PROVE  RowFilled(i)
<1> SUFFICES ASSUME RowBlank(i) PROVE RowFilled(i)
  OBVIOUS
<1>1. i \in 0 .. N /\ i + 1 \in 0 .. N /\ N \in 0 .. N /\ i <= i + 1 /\ i + 1 <= N
  BY PointSets DEF Points
<1> DEFINE from == p_rows_ptr[i]
           to == p_rows_ptr[i + 1]
           nnz == p_rows_ptr[N]
<1>2. from \in Nat /\ to \in Nat /\ nnz \in Nat /\ from <= to /\ to <= nnz
  BY <1>1, RowPositions
<1>3. DOMAIN p_cols_ind = 0 .. nnz - 1
  BY DEF Laid
<1>4. \A pos \in from .. to - 1 : p_cols_ind[pos] = -1
  BY DEF RowBlank
<1>5. from .. to - 1 \subseteq 0 .. nnz - 1
  BY <1>2
<1>6. \A pos \in from .. to - 1 : FALSE
  <2> SUFFICES ASSUME NEW pos \in from .. to - 1 PROVE FALSE
    OBVIOUS
  <2>1. p_cols_ind[pos] = -1 /\ p_cols_ind[pos] >= 0
    BY <1>3, <1>4, <1>5
  <2>2. QED
    BY <2>1
<1>7. to = from
  <2>1. ~(from <= to - 1)
    BY <1>2, <1>6
  <2>2. QED
    BY <1>2, <2>1
<1>8. Cardinality(Interpolating(i)) = 0
  <2>1. to = from + Cardinality(Interpolating(i)) /\ Cardinality(Interpolating(i)) \in Nat
    BY InterpolatingPoints DEF Laid
  <2>2. QED
    BY <1>2, <1>7, <2>1
<1>9. Interpolating(i) = {}
  BY <1>8, InterpolatingPoints, FS_EmptySet
<1>10. Columns(i) = {}
  BY <1>9 DEF Columns
<1>11. QED
  BY <1>6, <1>10 DEF RowFilled, Fills

(* Either a column is still at -1, which only a diagonal that is not        *)
(* positive leaves behind, or all rows are filled and the product begins.   *)
LEMMA TransposeKeeps == LevelInv /\ Transpose => LevelInv'
<1> SUFFICES ASSUME LevelInv, Transpose PROVE LevelInv'
  OBVIOUS
<1>1. /\ pass = "fill" /\ row = N /\ row' = 0
      /\ UNCHANGED <<inputs, markers, next, p_rows_ptr, p_cols_ind, strayed>>
  BY DEF Transpose
<1>2. /\ Inputs /\ LevelTypeOK /\ Laid /\ Filling /\ SharesStayInRow
      /\ counter = 0 /\ rap_cols = <<>>
  BY <1>1 DEF LevelInv
<1>3. /\ N \in Nat /\ p_rows_ptr \in [0 .. N -> Nat] /\ N \in 0 .. N
      /\ p_rows_ptr[N] \in Nat
  BY <1>2, PointSets DEF LevelTypeOK
<1>4. /\ Inputs' /\ coarse' = coarse /\ diag' = diag /\ builder' = builder
      /\ CoarsePoints' = CoarsePoints
      /\ \A i \in Points : Interpolating(i)' = Interpolating(i) /\ Columns(i)' = Columns(i)
  BY <1>1, <1>2, InputsKept
<1>5. /\ markers' = markers /\ next' = next /\ p_rows_ptr' = p_rows_ptr
      /\ p_cols_ind' = p_cols_ind /\ strayed' = strayed
  BY <1>1
<1>6. SharesStayInRow'
  BY <1>2, <1>5 DEF SharesStayInRow
<1>7. CASE /\ \E k \in DOMAIN p_cols_ind : p_cols_ind[k] < 0
           /\ pass' = "undefined"
           /\ UNCHANGED product
  <2>1. PICK k \in DOMAIN p_cols_ind : p_cols_ind[k] < 0
    BY <1>7
  <2>2. k \in 0 .. p_rows_ptr[N] - 1 /\ p_cols_ind[k] \in Int
    BY <1>2, <2>1 DEF Laid
  <2>3. ~(\A i \in Points \ coarse : diag[i] = "positive")
    <3>1. (\A i \in Points \ coarse : diag[i] = "positive") =>
            \A pos \in 0 .. p_rows_ptr[N] - 1 : p_cols_ind[pos] >= 0
      BY <1>1, <1>2 DEF Filling
    <3>2. QED
      BY <2>1, <2>2, <3>1
  <2>4. LevelTypeOK'
    BY <1>1, <1>2, <1>3, <1>4, <1>5, <1>7 DEF LevelTypeOK
  <2>5. QED
    BY <1>4, <1>6, <1>7, <2>3, <2>4 DEF LevelInv, BuiltP
<1>8. CASE /\ \A k \in DOMAIN p_cols_ind : p_cols_ind[k] >= 0
           /\ pass' = "count_product"
           /\ r' = [c \in CoarsePoints |->
                      InOrder({ i \in Points : c \in ToSet(RowOfP(i)) })]
           /\ p_marker' = NoMarks
           /\ rap_ptr' = [c \in 0 .. Cardinality(coarse) |-> 0]
           /\ UNCHANGED <<counter, rap_cols>>
  <2>1. \A i \in Points : RowFilled(i)
    <3> SUFFICES ASSUME NEW i \in Points PROVE RowFilled(i)
      OBVIOUS
    <3>1. RowFilled(i) \/ RowBlank(i)
      BY <1>1, <1>2 DEF Filling, Points
    <3>2. QED
      BY <1>2, <1>3, <1>8, <3>1, RowsFilled
  <2>2. Cardinality(coarse) \in Nat
    BY <1>2, <1>3, NumbersOfPoints DEF Inputs
  <2>3. LevelTypeOK'
    BY <1>1, <1>2, <1>3, <1>4, <1>5, <1>8 DEF LevelTypeOK
  <2>4. Laid'
    BY <1>2, <1>4, <1>5 DEF Laid
  <2>5. \A i \in Points : RowFilled(i)'
    BY <1>4, <1>5, <2>1 DEF RowFilled
  <2>6. \A i : RowOfP(i)' = RowOfP(i)
    BY <1>5 DEF RowOfP
  <2>7. r' = [c \in CoarsePoints |-> InOrder({ i \in Points : c \in ToSet(RowOfP(i)) })]'
    BY <1>4, <1>8, <2>6
  <2>8. p_marker' \in [CoarsePoints' -> Int] /\ \A d \in CoarsePoints' : p_marker'[d] < 0
    BY <1>4, <1>8 DEF NoMarks
  <2>9. /\ rap_ptr' \in [0 .. Cardinality(coarse') -> Nat] /\ rap_ptr'[0] = 0
        /\ counter' = 0 /\ rap_cols' = <<>> /\ row' \in 0 .. Cardinality(coarse')
    BY <1>1, <1>2, <1>4, <1>8, <2>2
  <2>10. 0 .. row' - 1 = {}
    BY <1>1
  <2>11. Multiplying'
    BY <1>1, <1>8, <2>5, <2>7, <2>8, <2>9, <2>10 DEF Multiplying
  <2>12. QED
    BY <1>4, <1>6, <1>8, <2>3, <2>4, <2>9, <2>11 DEF LevelInv, BuiltP
<1>9. QED
  BY <1>7, <1>8 DEF Transpose

(* What row after row has together: the members of the rows.               *)
Gathers(all, s, n, V) ==
  all \in Seq(V) /\ ToSet(all) = UNION { ToSet(s[k]) : k \in 1 .. n }

GathersRows(all, seq, f, V) ==
  /\ all \in Seq(V)
  /\ \A v \in V : v \in ToSet(all) <=> \E u \in ToSet(seq) : v \in ToSet(f[u])

(* FlattenElements, in a form to be cited.                                  *)
LEMMA Gathered ==
  ASSUME NEW V, NEW n \in Nat, NEW s \in [1 .. n -> Seq(V)]
  PROVE  Gathers(FlattenSeq(s), s, n, V)
BY FlattenElements DEF Gathers

(* The rows of the members of a sequence, put one after the other.         *)
LEMMA RowsElements ==
  ASSUME NEW U, NEW V, NEW seq \in Seq(U), NEW f \in [U -> Seq(V)]
  PROVE  GathersRows(FlattenSeq([k \in DOMAIN seq |-> f[seq[k]]]), seq, f, V)
<1> DEFINE n == Len(seq)
           s == [k \in DOMAIN seq |-> f[seq[k]]]
<1>1. n \in Nat /\ DOMAIN seq = 1 .. n /\ \A k \in 1 .. n : seq[k] \in U
  BY LenProperties, ElementOfSeq
<1>2. s \in [1 .. n -> Seq(V)] /\ \A k \in 1 .. n : s[k] = f[seq[k]]
  BY <1>1
<1> HIDE DEF n, s
<1>3. Gathers(FlattenSeq(s), s, n, V)
  BY <1>1, <1>2, Gathered
<1>4. ASSUME NEW v \in V
      PROVE  v \in ToSet(FlattenSeq(s)) <=> \E u \in ToSet(seq) : v \in ToSet(f[u])
  <2>1. v \in ToSet(FlattenSeq(s)) <=> \E k \in 1 .. n : v \in ToSet(s[k])
    BY <1>3 DEF Gathers
  <2>2. \A k \in 1 .. n : s[k] = f[seq[k]] /\ seq[k] \in ToSet(seq)
    BY <1>1, <1>2 DEF ToSet
  <2>3. \A u \in ToSet(seq) : \E k \in 1 .. n : u = seq[k]
    BY <1>1 DEF ToSet
  <2>4. QED
    BY <2>1, <2>2, <2>3
<1>5. GathersRows(FlattenSeq(s), seq, f, V)
  BY <1>3, <1>4 DEF Gathers, GathersRows
<1>6. QED
  BY <1>5 DEF s

(* A row of A has the diagonal among its points.                           *)
LEMMA RowOfAElements ==
  ASSUME Inputs, NEW i \in Points
  PROVE  RowOfA(i) \in Seq(Points) /\ i \in ToSet(RowOfA(i))
<1> DEFINE T == StrongRow(i) \cup NegativeRow(i)
           s == <<i>>
<1>1. T \in SUBSET Points
  BY DEF StrongRow, NegativeRow
<1> HIDE DEF T
<1>2. T \in SUBSET Int /\ IsFiniteSet(T)
  BY <1>1, PointSets
<1>3. InOrder(T) \in Seq(T)
  BY <1>2, OrderedElements
<1>4. InOrder(T) \in Seq(Points)
  BY <1>1, <1>3, SeqMonotonic
<1>5. s \in Seq(Points) /\ i \in ToSet(s)
  <2>1. s \in Seq(Points) /\ DOMAIN s = {1} /\ s[1] = i
    OBVIOUS
  <2>2. QED
    BY <2>1 DEF ToSet
<1>6. RowOfA(i) = s \o InOrder(T)
  BY DEF RowOfA, T
<1> HIDE DEF s
<1>7. QED
  BY <1>4, <1>5, <1>6, ConcatElements

(* The state the product starts from and keeps.                            *)
Producing ==
  Inputs /\ Laid /\ Multiplying /\ p_rows_ptr \in [0 .. N -> Nat]

(* The points row c of the product meets.                                  *)
LEMMA PointsMetElements ==
  ASSUME Producing, NEW c \in CoarsePoints
  PROVE  /\ PointsMet(c) \in Seq(Points)
         /\ \A j \in Points : j \in ToSet(PointsMet(c)) <=>
              \E i \in Points : c \in ToSet(RowOfP(i)) /\ j \in ToSet(RowOfA(i))
<1> DEFINE T == { i \in Points : c \in ToSet(RowOfP(i)) }
           f == [i \in Points |-> RowOfA(i)]
           seq == r[c]
           s == [k \in DOMAIN seq |-> f[seq[k]]]
<1>1. Inputs /\ r[c] = InOrder(T)
  BY DEF Producing, Multiplying
<1>2. T \in SUBSET Points
  OBVIOUS
<1> HIDE DEF T
<1>3. T \in SUBSET Int /\ IsFiniteSet(T)
  BY <1>2, PointSets
<1>4. seq \in Seq(T) /\ ToSet(seq) = T
  BY <1>1, <1>3, OrderedElements
<1>5. seq \in Seq(Points)
  BY <1>2, <1>4, SeqMonotonic
<1>6. f \in [Points -> Seq(Points)]
  BY <1>1, RowOfAElements
<1>7. \A k \in DOMAIN seq : f[seq[k]] = RowOfA(r[c][k])
  BY <1>5
<1>8. PointsMet(c) = FlattenSeq(s)
  <2>1. s = [k \in DOMAIN r[c] |-> RowOfA(r[c][k])]
    BY <1>7
  <2>2. QED
    BY <2>1 DEF PointsMet
<1>9. \A i \in Points : f[i] = RowOfA(i)
  OBVIOUS
<1> HIDE DEF f, seq
<1>10. /\ FlattenSeq(s) \in Seq(Points)
       /\ \A j \in Points :
            j \in ToSet(FlattenSeq(s)) <=> \E i \in ToSet(seq) : j \in ToSet(f[i])
  <2>1. GathersRows(FlattenSeq(s), seq, f, Points)
    BY <1>5, <1>6, RowsElements
  <2> HIDE DEF s
  <2>2. QED
    BY <2>1 DEF GathersRows
<1>11. \A i \in Points : i \in ToSet(seq) <=> c \in ToSet(RowOfP(i))
  BY <1>4 DEF T
<1>12. ToSet(seq) \subseteq Points
  BY <1>2, <1>4
<1> HIDE DEF s
<1>13. QED
  BY <1>8, <1>9, <1>10, <1>11, <1>12

(* The columns it meets are those of the product.                          *)
LEMMA ColumnsMetElements ==
  ASSUME Producing, NEW c \in CoarsePoints
  PROVE  ColumnsMet(c) \in Seq(CoarsePoints) /\ ToSet(ColumnsMet(c)) = ProductRow(c)
<1> DEFINE points == Once(PointsMet(c))
           f == [i \in Points |-> RowOfP(i)]
           s == [k \in DOMAIN points |-> f[points[k]]]
<1>1. /\ Inputs /\ Laid /\ p_rows_ptr \in [0 .. N -> Nat]
      /\ \A i \in Points : RowFilled(i)
  BY DEF Producing, Multiplying
<1>2. points \in Seq(Points) /\ ToSet(points) = ToSet(PointsMet(c))
  BY PointsMetElements, OnceElements
<1>3. f \in [Points -> Seq(CoarsePoints)]
  BY <1>1, RowOfPElements
<1>4. ColumnsMet(c) = FlattenSeq(s)
  <2> HIDE DEF points
  <2>1. \A k \in DOMAIN points : points[k] \in Points
    BY <1>2
  <2>2. \A k \in DOMAIN points : f[points[k]] = RowOfP(points[k])
    BY <2>1
  <2>3. s = [k \in DOMAIN points |-> RowOfP(points[k])]
    BY <2>2
  <2>4. QED
    BY <2>3 DEF ColumnsMet, points
<1>5. \A i \in Points : f[i] = RowOfP(i)
  OBVIOUS
<1> HIDE DEF f, points
<1>6. /\ FlattenSeq(s) \in Seq(CoarsePoints)
      /\ \A d \in CoarsePoints :
           d \in ToSet(FlattenSeq(s)) <=> \E j \in ToSet(points) : d \in ToSet(f[j])
  <2>1. GathersRows(FlattenSeq(s), points, f, CoarsePoints)
    BY <1>2, <1>3, RowsElements
  <2> HIDE DEF s
  <2>2. QED
    BY <2>1 DEF GathersRows
<1> HIDE DEF s
<1>7. \A j \in ToSet(points) : j \in Points
  <2>1. \A k \in DOMAIN points : points[k] \in Points
    BY <1>2
  <2>2. QED
    BY <2>1 DEF ToSet
<1>8. ToSet(ColumnsMet(c)) \subseteq CoarsePoints
  <2>1. ColumnsMet(c) \in Seq(CoarsePoints)
    BY <1>4, <1>6
  <2>2. \A k \in DOMAIN ColumnsMet(c) : ColumnsMet(c)[k] \in CoarsePoints
    BY <2>1
  <2>3. QED
    BY <2>2 DEF ToSet
<1>9. \A j \in Points : j \in ToSet(points) <=>
        \E i \in Points : c \in ToSet(RowOfP(i)) /\ j \in ToSet(RowOfA(i))
  BY <1>2, PointsMetElements
<1>10. \A d \in CoarsePoints : d \in ToSet(ColumnsMet(c)) <=> Product(c, d)
  BY <1>4, <1>5, <1>6, <1>7, <1>9 DEF Product
<1>11. ToSet(ColumnsMet(c)) = ProductRow(c)
  BY <1>8, <1>10 DEF ProductRow
<1>12. QED
  BY <1>4, <1>6, <1>11

(* Each row of the product has its diagonal: the coarse point itself, whose *)
(* row of P has only its own column.                                        *)
LEMMA DiagonalMet ==
  ASSUME Producing, NEW c \in CoarsePoints
  PROVE  c \in ProductRow(c)
<1>1. /\ Inputs /\ Laid /\ p_rows_ptr \in [0 .. N -> Nat] /\ coarse \subseteq Points
      /\ \A i \in Points : RowFilled(i)
  BY DEF Producing, Multiplying, Inputs
<1>2. PICK i \in coarse : Number(i) = c
  BY <1>1, NumbersOfPoints
<1>3. i \in Points /\ Columns(i) = {c}
  BY <1>1, <1>2, InterpolatingPoints
<1>4. c \in ToSet(RowOfP(i))
  BY <1>1, <1>3, RowOfPElements
<1>5. i \in ToSet(RowOfA(i))
  BY <1>1, <1>3, RowOfAElements
<1>6. QED
  BY <1>3, <1>4, <1>5 DEF ProductRow, Product

(* What entering the columns W of a row, the first of them x, leads to.     *)
Visited(t, cols, W, x) ==
  /\ t.marks \in [CoarsePoints -> Int] /\ t.next \in Nat /\ t.cols \in Arrays
  /\ Cardinality(W) \in Nat /\ t.next = counter + Cardinality(W)
  /\ \A d \in CoarsePoints : t.marks[d] < t.next
  /\ Fills(t.cols, counter, t.next, W)
  /\ DOMAIN t.cols = DOMAIN cols \cup counter .. t.next - 1
  /\ \A pos \in DOMAIN cols \ (counter .. t.next - 1) : t.cols[pos] = cols[pos]
  /\ W # {} => t.cols[counter] = x

(* A row of the product enters its columns.                                 *)
LEMMA Visiting ==
  ASSUME Inputs, p_marker \in [CoarsePoints -> Int], counter \in Nat,
         \A d \in CoarsePoints : p_marker[d] < counter,
         NEW cols \in Arrays, NEW seq \in Seq(CoarsePoints)
  PROVE  Visited(VisitAll(cols, seq), cols, ToSet(seq), seq[1])
<1> DEFINE K == CoarsePoints
           st == [marks |-> p_marker, next |-> counter, cols |-> cols]
           t == VisitAll(cols, seq)
           W == ToSet(seq)
<1>1. st \in Entries(K) /\ st.marks = p_marker /\ st.next = counter /\ st.cols = cols
  BY DEF Entries
<1>2. K \in SUBSET K /\ K \subseteq Int
  BY DEF CoarsePoints
<1>3. Themselves \in [K -> Int] /\ \A d \in K : Themselves[d] = d
  BY <1>2 DEF Themselves
<1>4. t = EnterAll(st, seq, Themselves, TRUE)
  BY DEF VisitAll
<1>5. W \subseteq K
  BY DEF ToSet
<1>6. \A c \in W : st.marks[c] < st.next
  BY <1>1, <1>5
<1> HIDE DEF st, t, K
<1>7. t \in Entries(K) /\ Entered(t, st, W, seq[1], Themselves, K)
  <2>1. seq \in Seq(K)
    BY DEF K
  <2>2. QED
    BY <1>1, <1>2, <1>3, <1>4, <1>6, <2>1, EntersRow
<1> DEFINE x == seq[1]
<1>8. W # {} => x \in W
  <2> SUFFICES ASSUME W # {} PROVE x \in W
    OBVIOUS
  <2>1. Len(seq) \in Nat /\ DOMAIN seq = 1 .. Len(seq)
    BY LenProperties
  <2>2. 1 .. Len(seq) # {}
    BY <2>1 DEF ToSet
  <2>3. 1 \in 1 .. Len(seq)
    BY <2>1, <2>2
  <2>4. QED
    BY <2>1, <2>3 DEF ToSet
<1> HIDE DEF W, x
<1>9. Named(Themselves, W, W)
  BY <1>3, <1>5 DEF Named
<1>10. /\ Fills(t.cols, st.next, t.next, W)
       /\ IsFiniteSet(W) /\ Cardinality(W) = t.next - st.next
  BY <1>1, <1>5, <1>7, <1>9, EnteredFills DEF x
<1>11. t.marks \in [K -> Int] /\ t.next \in Int /\ t.cols \in Arrays
  BY <1>7 DEF Entries
<1>12. Cardinality(W) \in Nat /\ t.next = counter + Cardinality(W) /\ t.next \in Nat
  BY <1>1, <1>10, <1>11, FS_CardinalityType
<1>13. \A d \in K : t.marks[d] < t.next
  <2> SUFFICES ASSUME NEW d \in K PROVE t.marks[d] < t.next
    OBVIOUS
  <2>1. p_marker[d] \in Int /\ p_marker[d] < counter /\ t.marks[d] \in Int
    BY <1>11 DEF K
  <2>2. CASE d \in W
    <3>1. t.marks[d] \in counter .. t.next - 1
      BY <1>1, <1>7, <2>2 DEF Entered
    <3>2. QED
      BY <1>12, <3>1
  <2>3. CASE d \notin W
    <3>1. t.marks[d] = p_marker[d]
      BY <1>1, <1>7, <2>3 DEF Entered
    <3>2. QED
      BY <1>12, <2>1, <3>1
  <2>4. QED
    BY <2>2, <2>3
<1>14. /\ DOMAIN t.cols = DOMAIN cols \cup counter .. t.next - 1
       /\ \A pos \in DOMAIN cols \ (counter .. t.next - 1) : t.cols[pos] = cols[pos]
  BY <1>1, <1>7 DEF Entered
<1>15. W # {} => t.cols[counter] = x
  <2> SUFFICES ASSUME W # {} PROVE t.cols[counter] = x
    OBVIOUS
  <2>1. t.marks[x] = counter
    BY <1>1, <1>7 DEF Entered, x
  <2>2. t.cols[t.marks[x]] = Themselves[x]
    BY <1>7, <1>8 DEF Entered
  <2>3. QED
    BY <1>3, <1>5, <1>8, <2>1, <2>2
<1>16. Visited(t, cols, W, x)
  BY <1>1, <1>10, <1>11, <1>12, <1>13, <1>14, <1>15 DEF Visited, K
<1>17. QED
  BY <1>16 DEF t, W, x

(* What a step of the product leaves of the builder's work.                *)
LEMMA BuiltKept ==
  ASSUME LevelInv, BuiltP,
         UNCHANGED <<inputs, markers, next, p_rows_ptr, p_cols_ind, strayed>>,
         pass' \in {"count_product", "fill_product"}, row' \in 0 .. Cardinality(coarse)
  PROVE  /\ Producing /\ Inputs' /\ LevelTypeOK' /\ SharesStayInRow' /\ Laid'
         /\ CoarsePoints' = CoarsePoints /\ coarse' = coarse
         /\ \A i \in Points : RowFilled(i)'
         /\ \A i : RowOfP(i)' = RowOfP(i)
         /\ \A c : ProductRow(c)' = ProductRow(c)
         /\ Cardinality(coarse) \in 0 .. N
<1>1. /\ Inputs /\ LevelTypeOK /\ SharesStayInRow /\ Laid /\ Multiplying
      /\ p_rows_ptr \in [0 .. N -> Nat]
  BY DEF LevelInv, LevelTypeOK
<1>2. /\ Inputs' /\ CoarsePoints' = CoarsePoints /\ coarse' = coarse
      /\ \A i \in Points : Interpolating(i)' = Interpolating(i) /\ Columns(i)' = Columns(i)
  BY <1>1, InputsKept
<1>3. /\ p_rows_ptr' = p_rows_ptr /\ p_cols_ind' = p_cols_ind /\ strayed' = strayed
      /\ markers' = markers /\ next' = next /\ S' = S /\ weak' = weak
  BY DEF inputs
<1>4. Cardinality(coarse) \in 0 .. N
  BY <1>1, NumbersOfPoints DEF Inputs
<1>5. row' \in 0 .. N
  BY <1>4, PointSets
<1>6. LevelTypeOK'
  BY <1>1, <1>2, <1>3, <1>5 DEF LevelTypeOK
<1>7. SharesStayInRow' /\ Laid'
  BY <1>1, <1>2, <1>3 DEF SharesStayInRow, Laid
<1>8. \A i \in Points : RowFilled(i)'
  BY <1>1, <1>2, <1>3 DEF RowFilled, Multiplying
<1>9. \A i : RowOfP(i)' = RowOfP(i)
  BY <1>3 DEF RowOfP
<1>10. \A i : RowOfA(i)' = RowOfA(i)
  BY <1>3 DEF RowOfA, StrongRow, NegativeRow
<1>11. \A c : ProductRow(c)' = ProductRow(c)
  BY <1>2, <1>9, <1>10 DEF ProductRow, Product
<1>12. Producing
  BY <1>1 DEF Producing
<1>13. QED
  BY <1>2, <1>4, <1>6, <1>7, <1>8, <1>9, <1>11, <1>12

(* A row of the product is counted with the columns it has.                 *)
LEMMA CountProductKeeps == LevelInv /\ CountProduct => LevelInv'
<1> SUFFICES ASSUME LevelInv, CountProduct PROVE LevelInv'
  OBVIOUS
<1> DEFINE st == VisitAll(<<>>, ColumnsMet(row))
           n == Cardinality(coarse)
           seq == ColumnsMet(row)
<1>1. /\ pass = "count_product" /\ row < n
      /\ p_marker' = st.marks /\ counter' = st.next
      /\ rap_ptr' = [rap_ptr EXCEPT ![row + 1] = st.next]
      /\ row' = row + 1 /\ pass' = "count_product"
      /\ UNCHANGED <<inputs, markers, next, p_rows_ptr, p_cols_ind, strayed, r, rap_cols>>
  BY DEF CountProduct
<1>2. Multiplying /\ Inputs /\ BuiltP /\ rap_cols = <<>>
  BY <1>1 DEF LevelInv, BuiltP
<1>3. n \in Nat /\ row \in 0 .. n
  BY <1>2, NumbersOfPoints DEF Inputs, Multiplying
<1>4. row \in CoarsePoints /\ row' \in 0 .. n /\ row + 1 \in 0 .. n
  BY <1>1, <1>3 DEF CoarsePoints
<1>5. /\ Producing /\ Inputs' /\ LevelTypeOK' /\ SharesStayInRow' /\ Laid'
      /\ CoarsePoints' = CoarsePoints /\ coarse' = coarse
      /\ \A i \in Points : RowFilled(i)'
      /\ \A i : RowOfP(i)' = RowOfP(i)
      /\ \A c : ProductRow(c)' = ProductRow(c)
  BY <1>1, <1>2, <1>4, BuiltKept
<1>6. seq \in Seq(CoarsePoints) /\ ToSet(seq) = ProductRow(row)
  BY <1>4, <1>5, ColumnsMetElements
<1>7. /\ p_marker \in [CoarsePoints -> Int] /\ counter \in Nat
      /\ \A d \in CoarsePoints : p_marker[d] < counter
  BY <1>2 DEF Multiplying
<1> HIDE DEF seq
<1>8. Visited(VisitAll(<<>>, seq), <<>>, ToSet(seq), seq[1])
  BY <1>2, <1>6, <1>7, EmptyArray, Visiting
<1>9. st = VisitAll(<<>>, seq)
  BY DEF seq
<1> HIDE DEF st
<1>10. /\ st.marks \in [CoarsePoints -> Int] /\ st.next \in Nat
       /\ st.next = counter + Cardinality(ProductRow(row))
       /\ \A d \in CoarsePoints : st.marks[d] < st.next
  BY <1>6, <1>8, <1>9 DEF Visited
<1> HIDE DEF n
<1>11. /\ rap_ptr \in [0 .. n -> Nat] /\ rap_ptr[0] = 0 /\ counter = rap_ptr[row]
       /\ \A c \in 0 .. row - 1 : rap_ptr[c + 1] = rap_ptr[c] + Cardinality(ProductRow(c))
       /\ r = [c \in CoarsePoints |-> InOrder({ i \in Points : c \in ToSet(RowOfP(i)) })]
  BY <1>1, <1>2 DEF Multiplying, n
<1>12. /\ rap_ptr' \in [0 .. n -> Nat] /\ rap_ptr'[0] = 0 /\ counter' = rap_ptr'[row']
       /\ \A c \in 0 .. row : rap_ptr'[c] = rap_ptr[c]
       /\ rap_ptr'[row + 1] = st.next
  BY <1>1, <1>3, <1>4, <1>10, <1>11
<1>13. ASSUME NEW c \in 0 .. row' - 1
       PROVE  rap_ptr'[c + 1] = rap_ptr'[c] + Cardinality(ProductRow(c))
  <2>1. c \in 0 .. row
    BY <1>1, <1>3
  <2>2. CASE c = row
    BY <1>3, <1>10, <1>11, <1>12, <2>1, <2>2
  <2>3. CASE c # row
    <3>1. c \in 0 .. row - 1 /\ c + 1 \in 0 .. row
      BY <1>3, <2>1, <2>3
    <3>2. QED
      BY <1>11, <1>12, <2>1, <3>1
  <2>4. QED
    BY <2>2, <2>3
<1>14. r' = [c \in CoarsePoints |-> InOrder({ i \in Points : c \in ToSet(RowOfP(i)) })]'
  BY <1>1, <1>5, <1>11
<1>15. /\ p_marker' \in [CoarsePoints' -> Int] /\ counter' \in Nat
       /\ \A d \in CoarsePoints' : p_marker'[d] < counter'
  BY <1>1, <1>5, <1>10
<1>16. n = Cardinality(coarse') /\ row' \in 0 .. n
  BY <1>4, <1>5 DEF n
<1>17. \A c \in 0 .. row' - 1 : rap_ptr'[c + 1] = rap_ptr'[c] + Cardinality(ProductRow(c)')
  BY <1>5, <1>13
<1>18. Multiplying'
  BY <1>1, <1>5, <1>12, <1>14, <1>15, <1>16, <1>17 DEF Multiplying
<1>19. rap_cols' = <<>>
  BY <1>1, <1>2
<1>20. QED
  BY <1>1, <1>5, <1>18, <1>19 DEF LevelInv, BuiltP

(* The second pass of the product begins, with no marks.                    *)
LEMMA AllocateProductKeeps == LevelInv /\ AllocateProduct => LevelInv'
<1> SUFFICES ASSUME LevelInv, AllocateProduct PROVE LevelInv'
  OBVIOUS
<1> DEFINE n == Cardinality(coarse)
<1>1. /\ pass = "count_product" /\ row = n /\ p_marker' = NoMarks /\ counter' = 0
      /\ row' = 0 /\ pass' = "fill_product"
      /\ UNCHANGED <<inputs, markers, next, p_rows_ptr, p_cols_ind, strayed,
                     r, rap_ptr, rap_cols>>
  BY DEF AllocateProduct, MarksOfFill
<1>2. Multiplying /\ Inputs /\ BuiltP /\ rap_cols = <<>>
  BY <1>1 DEF LevelInv, BuiltP
<1>3. n \in Nat /\ row' \in 0 .. n
  BY <1>1, <1>2, NumbersOfPoints DEF Inputs
<1>4. /\ Producing /\ Inputs' /\ LevelTypeOK' /\ SharesStayInRow' /\ Laid'
      /\ CoarsePoints' = CoarsePoints /\ coarse' = coarse
      /\ \A i \in Points : RowFilled(i)'
      /\ \A i : RowOfP(i)' = RowOfP(i)
      /\ \A c : ProductRow(c)' = ProductRow(c)
  BY <1>1, <1>2, <1>3, BuiltKept
<1>5. /\ rap_ptr \in [0 .. n -> Nat] /\ rap_ptr[0] = 0
      /\ \A c \in 0 .. n - 1 : rap_ptr[c + 1] = rap_ptr[c] + Cardinality(ProductRow(c))
      /\ r = [c \in CoarsePoints |-> InOrder({ i \in Points : c \in ToSet(RowOfP(i)) })]
  BY <1>1, <1>2 DEF Multiplying
<1>6. r' = [c \in CoarsePoints |-> InOrder({ i \in Points : c \in ToSet(RowOfP(i)) })]'
  BY <1>1, <1>4, <1>5
<1>7. p_marker' \in [CoarsePoints' -> Int] /\ \A d \in CoarsePoints' : p_marker'[d] < counter'
  BY <1>1, <1>4 DEF NoMarks
<1>8. /\ rap_ptr' \in [0 .. Cardinality(coarse') -> Nat] /\ rap_ptr'[0] = 0
      /\ counter' = rap_ptr'[row'] /\ counter' \in Nat /\ row' \in 0 .. Cardinality(coarse')
      /\ \A c \in 0 .. Cardinality(coarse') - 1 :
           rap_ptr'[c + 1] = rap_ptr'[c] + Cardinality(ProductRow(c)')
  BY <1>1, <1>3, <1>4, <1>5
<1>9. Multiplying'
  BY <1>1, <1>4, <1>6, <1>7, <1>8 DEF Multiplying
<1>10. rap_cols' \in [0 .. counter' - 1 -> Int] /\ 0 .. row' - 1 = {}
  <2>1. <<>> \in [{} -> Int] /\ 0 .. 0 - 1 = {}
    OBVIOUS
  <2>2. QED
    BY <1>1, <1>2, <2>1
<1>11. QED
  BY <1>1, <1>4, <1>9, <1>10 DEF LevelInv, BuiltP

(* The second pass meets the same columns, the diagonal first.             *)
LEMMA DiagonalFirst ==
  ASSUME Producing, NEW c \in CoarsePoints
  PROVE  /\ DiagonalAndRow(c) \in Seq(CoarsePoints)
         /\ ToSet(DiagonalAndRow(c)) = ProductRow(c)
         /\ DiagonalAndRow(c)[1] = c
<1> DEFINE s == <<c>>
           t == ColumnsMet(c)
<1>1. s \in Seq(CoarsePoints) /\ Len(s) = 1 /\ DOMAIN s = {1} /\ s[1] = c
  OBVIOUS
<1>2. ToSet(s) = {c}
  BY <1>1 DEF ToSet
<1>3. t \in Seq(CoarsePoints) /\ ToSet(t) = ProductRow(c) /\ c \in ProductRow(c)
  BY ColumnsMetElements, DiagonalMet
<1>4. DiagonalAndRow(c) = s \o t
  BY DEF DiagonalAndRow
<1> HIDE DEF s, t
<1>5. s \o t \in Seq(CoarsePoints) /\ ToSet(s \o t) = ToSet(s) \cup ToSet(t)
  BY <1>1, <1>3, ConcatElements
<1>6. (s \o t)[1] = s[1]
  <2>1. Len(t) \in Nat /\ 1 \in 1 .. Len(s) + Len(t)
    BY <1>1, <1>3, LenProperties
  <2>2. QED
    BY <1>1, <1>3, <2>1, ConcatProperties
<1>7. QED
  BY <1>1, <1>2, <1>3, <1>4, <1>5, <1>6

(* A row of the product is filled from where it was counted to begin, with  *)
(* its diagonal first.                                                      *)
LEMMA FillProductKeeps == LevelInv /\ FillProduct => LevelInv'
<1> SUFFICES ASSUME LevelInv, FillProduct PROVE LevelInv'
  OBVIOUS
<1> DEFINE st == VisitAll(rap_cols, DiagonalAndRow(row))
           n == Cardinality(coarse)
           seq == DiagonalAndRow(row)
           R == ProductRow(row)
<1>1. /\ pass = "fill_product" /\ row < n
      /\ p_marker' = st.marks /\ counter' = st.next /\ rap_cols' = st.cols
      /\ row' = row + 1 /\ pass' = "fill_product"
      /\ UNCHANGED <<inputs, markers, next, p_rows_ptr, p_cols_ind, strayed, r, rap_ptr>>
  BY DEF FillProduct
<1>2. /\ Multiplying /\ Inputs /\ BuiltP /\ rap_cols \in [0 .. counter - 1 -> Int]
      /\ \A c \in 0 .. row - 1 : RowMultiplied(c)
  BY <1>1 DEF LevelInv, BuiltP
<1>3. n \in Nat /\ row \in 0 .. n
  BY <1>2, NumbersOfPoints DEF Inputs, Multiplying
<1>4. row \in CoarsePoints /\ row' \in 0 .. n /\ row + 1 \in 0 .. n /\ row \in 0 .. n - 1
  BY <1>1, <1>3 DEF CoarsePoints
<1>5. /\ Producing /\ Inputs' /\ LevelTypeOK' /\ SharesStayInRow' /\ Laid'
      /\ CoarsePoints' = CoarsePoints /\ coarse' = coarse
      /\ \A i \in Points : RowFilled(i)'
      /\ \A i : RowOfP(i)' = RowOfP(i)
      /\ \A c : ProductRow(c)' = ProductRow(c)
  BY <1>1, <1>2, <1>4, BuiltKept
<1>6. seq \in Seq(CoarsePoints) /\ ToSet(seq) = R /\ seq[1] = row /\ row \in R
  BY <1>4, <1>5, DiagonalFirst, DiagonalMet
<1>7. /\ p_marker \in [CoarsePoints -> Int] /\ counter \in Nat
      /\ \A d \in CoarsePoints : p_marker[d] < counter
  BY <1>2 DEF Multiplying
<1>8. rap_cols \in Arrays
  <2>1. 0 .. counter - 1 \in SUBSET Int
    OBVIOUS
  <2>2. QED
    BY <1>2, <2>1 DEF Arrays
<1>9. st = VisitAll(rap_cols, seq)
  OBVIOUS
<1> HIDE DEF seq, st, n, R
<1>10. Visited(st, rap_cols, R, row)
  <2>1. Visited(VisitAll(rap_cols, seq), rap_cols, ToSet(seq), seq[1])
    BY <1>2, <1>6, <1>7, <1>8, Visiting
  <2>2. QED
    BY <1>6, <1>9, <2>1
<1>11. /\ st.marks \in [CoarsePoints -> Int] /\ st.next \in Nat /\ st.cols \in Arrays
       /\ Cardinality(R) \in Nat /\ st.next = counter + Cardinality(R)
       /\ \A d \in CoarsePoints : st.marks[d] < st.next
       /\ Fills(st.cols, counter, st.next, R)
       /\ DOMAIN st.cols = DOMAIN rap_cols \cup counter .. st.next - 1
       /\ \A pos \in DOMAIN rap_cols \ (counter .. st.next - 1) : st.cols[pos] = rap_cols[pos]
       /\ st.cols[counter] = row
  BY <1>6, <1>10 DEF Visited
<1>12. /\ rap_ptr \in [0 .. n -> Nat] /\ rap_ptr[0] = 0 /\ counter = rap_ptr[row]
       /\ \A c \in 0 .. n - 1 : rap_ptr[c + 1] = rap_ptr[c] + Cardinality(ProductRow(c))
       /\ r = [c \in CoarsePoints |-> InOrder({ i \in Points : c \in ToSet(RowOfP(i)) })]
  BY <1>1, <1>2 DEF Multiplying, n
<1>13. st.next = rap_ptr[row + 1]
  BY <1>4, <1>11, <1>12 DEF R
<1>14. counter < st.next
  <2>1. \E pos \in counter .. st.next - 1 : st.cols[pos] = row
    BY <1>6, <1>11 DEF Fills
  <2>2. QED
    BY <1>7, <1>11, <2>1
<1>15. DOMAIN rap_cols = 0 .. counter - 1
  BY <1>2
<1>16. DOMAIN st.cols = 0 .. st.next - 1
  <2>1. (0 .. counter - 1) \cup counter .. st.next - 1 = 0 .. st.next - 1
    BY <1>7, <1>11, <1>14
  <2>2. QED
    BY <1>11, <1>15, <2>1
<1>17. st.cols \in [0 .. st.next - 1 -> Int]
  BY <1>11, <1>16 DEF Arrays
<1>18. \A pos \in 0 .. counter - 1 : st.cols[pos] = rap_cols[pos]
  BY <1>7, <1>11, <1>15
<1>19. \A c \in 0 .. row - 1 : /\ rap_ptr[c] \in Nat /\ rap_ptr[c + 1] \in Nat
                               /\ rap_ptr[c + 1] <= counter
  <2>1. ASSUME NEW c \in 0 .. row - 1
        PROVE  rap_ptr[c] <= rap_ptr[c + 1]
    <3>1. RowMultiplied(c)
      BY <1>2
    <3>2. c \in 0 .. n /\ c + 1 \in 0 .. n
      BY <1>3
    <3>3. QED
      BY <1>12, <3>1, <3>2 DEF RowMultiplied
  <2> DEFINE f == [c \in 0 .. row |-> rap_ptr[c]]
  <2>2. /\ f \in [0 .. row -> Int] /\ row \in Nat
        /\ \A c \in 0 .. row : rap_ptr[c] \in Nat /\ f[c] = rap_ptr[c]
    BY <1>3, <1>12
  <2>3. \A c \in 0 .. row - 1 : c \in 0 .. row /\ c + 1 \in 0 .. row /\ c + 1 <= row
    BY <1>3
  <2> HIDE DEF f
  <2>4. \A c \in 0 .. row - 1 : f[c] <= f[c + 1]
    BY <2>1, <2>2, <2>3
  <2>5. \A i, j \in 0 .. row : i <= j => f[i] <= f[j]
    BY <2>2, <2>4, Rising
  <2>6. row \in 0 .. row
    BY <1>3
  <2>7. QED
    BY <1>12, <2>2, <2>3, <2>5, <2>6
<1>20. ASSUME NEW c \in 0 .. row' - 1
       PROVE  RowMultiplied(c)'
  <2>1. c \in 0 .. row
    BY <1>1, <1>3
  <2> PICK new : new = rap_cols'
    OBVIOUS
  <2>2. new = st.cols /\ rap_ptr' = rap_ptr /\ ProductRow(c)' = ProductRow(c)
    BY <1>1, <1>5
  <2>3. SUFFICES /\ Fills(new, rap_ptr[c], rap_ptr[c + 1], ProductRow(c))
                 /\ rap_ptr[c] < rap_ptr[c + 1]
                 /\ new[rap_ptr[c]] = c
    BY <2>2 DEF RowMultiplied
  <2>4. CASE c = row
    BY <1>11, <1>12, <1>13, <1>14, <2>2, <2>4 DEF R
  <2>5. CASE c # row
    <3>1. c \in 0 .. row - 1
      BY <1>3, <2>1, <2>5
    <3>2. RowMultiplied(c) /\ rap_ptr[c] \in Nat /\ rap_ptr[c + 1] \in Nat
          /\ rap_ptr[c + 1] <= counter
      BY <1>2, <1>19, <3>1
    <3>3. /\ Fills(rap_cols, rap_ptr[c], rap_ptr[c + 1], ProductRow(c))
          /\ rap_ptr[c] < rap_ptr[c + 1] /\ rap_cols[rap_ptr[c]] = c
      BY <3>2 DEF RowMultiplied
    <3>4. \A pos \in rap_ptr[c] .. rap_ptr[c + 1] - 1 : pos \in 0 .. counter - 1
      BY <1>7, <3>2
    <3>5. \A pos \in rap_ptr[c] .. rap_ptr[c + 1] - 1 : new[pos] = rap_cols[pos]
      BY <1>18, <2>2, <3>4
    <3>6. Fills(new, rap_ptr[c], rap_ptr[c + 1], ProductRow(c))
      BY <3>3, <3>5, FillsSame
    <3>7. rap_ptr[c] \in rap_ptr[c] .. rap_ptr[c + 1] - 1
      BY <3>2, <3>3
    <3>8. QED
      BY <3>3, <3>5, <3>6, <3>7
  <2>6. QED
    BY <2>4, <2>5
<1>21. r' = [c \in CoarsePoints |-> InOrder({ i \in Points : c \in ToSet(RowOfP(i)) })]'
  BY <1>1, <1>5, <1>12
<1>22. /\ p_marker' \in [CoarsePoints' -> Int] /\ counter' \in Nat
       /\ \A d \in CoarsePoints' : p_marker'[d] < counter'
  BY <1>1, <1>5, <1>11
<1>23. n = Cardinality(coarse')
  BY <1>5 DEF n
<1>24. /\ rap_ptr' \in [0 .. n -> Nat] /\ rap_ptr'[0] = 0 /\ counter' = rap_ptr'[row']
       /\ row' \in 0 .. n
       /\ \A c \in 0 .. n - 1 : rap_ptr'[c + 1] = rap_ptr'[c] + Cardinality(ProductRow(c)')
  BY <1>1, <1>4, <1>5, <1>12, <1>13
<1>25. Multiplying'
  BY <1>1, <1>5, <1>21, <1>22, <1>23, <1>24 DEF Multiplying
<1>26. rap_cols' \in [0 .. counter' - 1 -> Int]
  BY <1>1, <1>17
<1>27. QED
  BY <1>1, <1>5, <1>20, <1>25, <1>26 DEF LevelInv, BuiltP

(* Every step of a level keeps the invariant.                               *)
LEMMA LevelInductive == LevelInv /\ [NextLevel]_allVars => LevelInv'
<1> SUFFICES ASSUME LevelInv, [NextLevel]_allVars PROVE LevelInv'
  OBVIOUS
<1>1. CASE BuildP
  BY <1>1, CountCoarseKeeps, CountFineKeeps, AllocateKeeps, FillCoarseKeeps, FillFineKeeps
     DEF BuildP, Build
<1>2. CASE Transpose
  BY <1>2, TransposeKeeps
<1>3. CASE CountProduct
  BY <1>3, CountProductKeeps
<1>4. CASE AllocateProduct
  BY <1>4, AllocateProductKeeps
<1>5. CASE FillProduct
  BY <1>5, FillProductKeeps
<1>6. CASE UNCHANGED allVars
  <2> USE <1>6 DEF allVars, build_vars, inputs, product
  <2>1. Inputs' /\ LevelTypeOK' /\ SharesStayInRow' /\ Laid' = Laid
    BY DEF LevelInv, Inputs, LevelTypeOK, SharesStayInRow, Laid, Interpolating,
           UsesFarPoints, StrongRow
  <2>2. /\ Counting' = Counting /\ Filling' = Filling
    BY DEF Counting, Filling, Interpolating, UsesFarPoints, StrongRow, Cleared, Unmarked,
           RowFilled, RowBlank, Columns, Number, MarkBefore
  <2>3. /\ Multiplying' = Multiplying /\ \A c : RowMultiplied(c)' = RowMultiplied(c)
    BY DEF Multiplying, RowMultiplied, ProductRow, Product, RowFilled, Columns, Number,
           Interpolating, UsesFarPoints, StrongRow, NegativeRow, RowOfP, RowOfA, CoarsePoints
  <2>4. QED
    BY <2>1, <2>2, <2>3 DEF LevelInv, BuiltP
<1>7. QED
  BY <1>1, <1>2, <1>3, <1>4, <1>5, <1>6 DEF NextLevel

(* Every state of a level satisfies the invariant.                         *)
LEMMA LevelKeepsInv == LevelSpec => []LevelInv
BY LevelStarts, LevelInductive, PTL DEF LevelSpec
-----------------------------------------------------------------------------
(* What it says of the two passes.                                         *)

(* The columns of each row of P are its interpolating points, each once,    *)
(* and a builder fails or leaves columns unwritten only where a diagonal is *)
(* not positive.                                                            *)
THEOREM RowsCounted == LevelSpec => []RowsAsCounted
<1>1. LevelInv => RowsAsCounted
  <2> SUFFICES ASSUME LevelInv PROVE RowsAsCounted
    OBVIOUS
  <2>1. LevelTypeOK /\ (pass \in {"failed", "undefined"} =>
                          \E i \in Points \ coarse : diag[i] # "positive")
    BY DEF LevelInv
  <2>2. ASSUME BuiltP, NEW i \in Points
        PROVE  /\ IsInjective(RowOfP(i))
               /\ ToSet(RowOfP(i)) = { Number(c) : c \in Interpolating(i) }
    <3>1. Inputs /\ Laid /\ p_rows_ptr \in [0 .. N -> Nat] /\ RowFilled(i)
      BY <2>2 DEF LevelInv, LevelTypeOK, Multiplying
    <3>2. QED
      BY <3>1, RowOfPElements DEF Columns
  <2>3. QED
    BY <2>1, <2>2 DEF RowsAsCounted
<1>2. QED
  BY <1>1, LevelKeepsInv, PTL

(* The shares standart gives away stay with the columns of the row, but in  *)
(* rows that begin at position 0.                                           *)
THEOREM SharesStay == LevelSpec => []SharesStayInRow
<1>1. LevelInv => SharesStayInRow
  BY DEF LevelInv
<1>2. QED
  BY <1>1, LevelKeepsInv, PTL

(* The product fills each row with as many columns as it counted, those of  *)
(* the composed relation, each once, and the diagonal first.                *)
THEOREM ProductCounted == LevelSpec => []ProductAsCounted
<1>1. LevelInv => ProductAsCounted
  <2> SUFFICES ASSUME LevelInv, pass = "fill_product" PROVE ProductAsCounted
    BY DEF ProductAsCounted
  <2>1. Multiplying /\ Inputs /\ \A c \in 0 .. row - 1 : RowMultiplied(c)
    BY DEF LevelInv, BuiltP
  <2>2. counter = rap_ptr[row]
    BY <2>1 DEF Multiplying
  <2>3. ASSUME NEW c \in 0 .. row - 1
        PROVE  /\ IsInjective(RowOfProduct(c))
               /\ ToSet(RowOfProduct(c)) = { d \in CoarsePoints : Product(c, d) }
               /\ RowOfProduct(c)[1] = c
    <3> DEFINE from == rap_ptr[c]
               to == rap_ptr[c + 1]
               W == ProductRow(c)
               s == [k \in 1 .. to - from |-> rap_cols[from + k - 1]]
    <3>1. /\ Fills(rap_cols, from, to, W) /\ from < to /\ rap_cols[from] = c
      BY <2>1 DEF RowMultiplied
    <3>2. Cardinality(coarse) \in Nat /\ row \in 0 .. Cardinality(coarse)
      BY <2>1, NumbersOfPoints DEF Inputs, Multiplying
    <3>3. c \in 0 .. Cardinality(coarse) /\ c + 1 \in 0 .. Cardinality(coarse)
      BY <3>2
    <3>4. from \in Int /\ to \in Int
      BY <2>1, <3>3 DEF Multiplying
    <3>5. RowOfProduct(c) = s /\ W = { d \in CoarsePoints : Product(c, d) }
      BY DEF RowOfProduct, ProductRow
    <3>6. 1 \in 1 .. to - from /\ from + 1 - 1 = from
      BY <3>1, <3>4
    <3>7. s[1] = c
      BY <3>1, <3>6
    <3> HIDE DEF from, to, W
    <3>8. from <= to
      BY <3>1, <3>4
    <3>9. ToSet(s) = W /\ IsInjective(s)
      BY <3>1, <3>4, <3>8, FilledRow
    <3>10. QED
      BY <3>5, <3>7, <3>9
  <2>4. QED
    BY <2>2, <2>3 DEF ProductAsCounted
<1>2. QED
  BY <1>1, LevelKeepsInv, PTL
=============================================================================
