--------------------------- MODULE StrengthGraph ---------------------------
(***************************************************************************)
(* The graph the coarsening algorithms of bs_swift/src work on.  A pair     *)
(* <<i, j>> of a strength relation S stands for a non-zero mark in row i,   *)
(* column j of s_markers: point i strongly depends on point j.  The marks   *)
(* of the diagonal are zero (simple_smbuilder), and the pattern of the      *)
(* matrix is symmetric although the marks need not be.                      *)
(*                                                                         *)
(* A measure is a real number in the code, a count plus rand () / RAND_MAX. *)
(* Here it is multiplied by RandMax, so both ends of the random part and    *)
(* the comparisons of measures with each other and with one are exact.      *)
(***************************************************************************)
EXTENDS Integers, FiniteSets

CONSTANTS
  N,          \* number of rows of the matrix
  RandMax,    \* RAND_MAX
  Relations,  \* the strength relations considered
  Draws       \* the outcomes of rand () for the points

Points == 1 .. N

ASSUME GraphAssumption ==
  /\ N \in Nat \ {0}
  /\ RandMax \in Nat \ {0}
  /\ Relations \subseteq SUBSET (Points \X Points)
  /\ \A S \in Relations, i \in Points : <<i, i>> \notin S
  /\ Draws \subseteq [Points -> 0 .. RandMax]

Influences(S, i) == { j \in Points : <<i, j>> \in S }

(* build_transposed_strength_matrix: the rows of the transposed relation.  *)
Dependents(S, i) == { j \in Points : <<j, i>> \in S }

Symmetric(S) == \A i, j \in Points : <<i, j>> \in S => <<j, i>> \in S

(* The measure of a point: how many points depend on it, and a draw.       *)
Count(S, i) == RandMax * Cardinality(Dependents(S, i))
Measure(S, draw) == [i \in Points |-> Count(S, i) + draw[i]]

(* Markers of a finished splitting: coarse points are numbered from one,   *)
(* fine points have a negative mark.                                       *)
CoarseIn(cf) == { i \in Points : cf[i] > 0 }
FineIn(cf)   == { i \in Points : cf[i] < 0 }

(* A fine point somebody depends on depends on a coarse point: what        *)
(* interpolation between symmetric neighbours needs.                       *)
Covered(S, cf) ==
  \A i \in FineIn(cf) :
    Dependents(S, i) # {} => Influences(S, i) \cap CoarseIn(cf) # {}
=============================================================================
