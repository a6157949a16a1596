-------------------------------- MODULE Pmis --------------------------------
(***************************************************************************)
(* pmis_coarse::build.  A coarse point is found by climbing: from the first *)
(* undecided point to a dependent with a larger measure, as long as there   *)
(* is one.  The undecided points it depends on become fine.  The numbers    *)
(* of the fine points, which nothing reads, are left out.                   *)
(***************************************************************************)
EXTENDS StrengthGraph, FiniteSetsExt

VARIABLES
  pc,       \* where build stands
  S,        \* s_markers, not changed here
  measure,  \* meassure_array
  cf,       \* cf_markers
  first,    \* b_ind: no point before it is undecided
  at,       \* the point the climb has reached
  ncoarse,  \* c_counter
  nfine     \* f_counter

vars == <<pc, S, measure, cf, first, at, ncoarse, nfine>>
matrix == <<S, measure>>

Undecided == { i \in Points : cf[i] = 0 }

(* Points nobody depends on are fine from the start.                       *)
Init ==
  /\ S \in Relations
  /\ \E draw \in Draws : measure = Measure(S, draw)
  /\ cf = [i \in Points |-> IF Dependents(S, i) = {} THEN -1 ELSE 0]
  /\ pc = "search"
  /\ first = 1 /\ at = 0
  /\ ncoarse = 0
  /\ nfine = Cardinality({ i \in Points : Dependents(S, i) = {} })

LeftToSearch == { i \in first .. N : cf[i] = 0 }

(* The search that follows looks at the same point again: the climb may    *)
(* choose another one.                                                     *)
NextFirstPast(i) == i + 1
NextFirst(i) == i

(* The first undecided point, from where the last search ended.  If there  *)
(* is none build returns -1 (SearchFinds says that this does not happen).  *)
FindFirst ==
  /\ pc = "search"
  /\ nfine + ncoarse < N
  /\ LeftToSearch # {}
  /\ at' = Min(LeftToSearch)
  /\ first' = NextFirst(at')
  /\ pc' = "climb"
  /\ UNCHANGED <<matrix, cf, ncoarse, nfine>>

(* The dependents of a point that climb past it, in the transposed matrix. *)
Larger(i) ==
  { j \in Dependents(S, i) : cf[j] = 0 /\ measure[i] < measure[j] }

(* Rows of the transposed matrix are filled in ascending order.            *)
Climb ==
  /\ pc = "climb"
  /\ Larger(at) # {}
  /\ at' = Min(Larger(at))
  /\ UNCHANGED <<pc, matrix, cf, first, ncoarse, nfine>>

MarkedAnyway(i) == Influences(S, i)
MarkedSmaller(i) == { j \in Influences(S, i) : cf[j] = 0 /\ measure[j] < measure[i] }
Marked(i) == { j \in Influences(S, i) : cf[j] = 0 }

(* The point the climb ended at is coarse.                                 *)
Select ==
  /\ pc = "climb"
  /\ Larger(at) = {}
  /\ ncoarse' = ncoarse + 1
  /\ cf' = [i \in Points |-> IF i = at THEN ncoarse + 1
                             ELSE IF i \in Marked(at) THEN -1 ELSE cf[i]]
  /\ nfine' = nfine + Cardinality(Marked(at))
  /\ pc' = "search"
  /\ UNCHANGED <<matrix, first, at>>

Finish ==
  /\ pc = "search"
  /\ nfine + ncoarse >= N
  /\ pc' = "done"
  /\ UNCHANGED <<matrix, cf, first, at, ncoarse, nfine>>

Next == FindFirst \/ Climb \/ Select \/ Finish

Spec == Init /\ [][Next]_vars

(* build is a sequential procedure.                                        *)
FairSpec == Spec /\ WF_vars(Next)
-----------------------------------------------------------------------------
(* The climb stands on an undecided point and the counters never pass the  *)
(* number of points.                                                       *)
TypeOK ==
  /\ pc \in {"search", "climb", "done"}
  /\ S \in Relations
  /\ measure \in [Points -> Nat]
  /\ cf \in [Points -> Int]
  /\ first \in 1 .. N
  /\ pc = "climb" => at \in Points /\ cf[at] = 0
  /\ ncoarse \in 0 .. N /\ nfine \in 0 .. N

(* As long as the counters say that points are left, the search, which     *)
(* starts where the last one ended, finds one: build never returns -1.     *)
SearchFinds ==
  pc = "search" /\ nfine + ncoarse < N => LeftToSearch # {}

(* When a coarse point depends on another one, the other came first and    *)
(* with a measure at least as large.  The climb looks only at dependents   *)
(* and the marking only at influences, so this is all that can be said of  *)
(* a strength that is not symmetric.                                       *)
CoarseInOrder ==
  \A c, d \in CoarseIn(cf) :
    <<d, c>> \in S => cf[c] < cf[d] /\ measure[d] <= measure[c]

(* With a symmetric strength the coarse points are independent and every   *)
(* fine point that has a neighbour has a coarse one.                       *)
IndependentAndCovering ==
  Symmetric(S) =>
    /\ \A c, d \in CoarseIn(cf) : <<d, c>> \notin S
    /\ Covered(S, cf)

(* build keeps the promise of its interface: points are decided once and   *)
(* all of them in the end, and the coarse ones are counted.                *)
Splitting == INSTANCE CFSplitting WITH
  coarse <- CoarseIn(cf), fine <- FineIn(cf), count <- ncoarse
RefinesSplitting == Splitting!LiveSpec
=============================================================================
