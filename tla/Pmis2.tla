------------------------------- MODULE Pmis2 -------------------------------
(***************************************************************************)
(* pmis2_coarse::build, the default coarsening of amg_solver, with          *)
(* coarse_tools::build_independent_set.  Each pass pushes the undecided     *)
(* points that a point of larger measure depends on to the next pass, makes *)
(* the others coarse, and makes fine those pushed points that depend on a   *)
(* coarse one.  A marker ff is lowered with every pass, so that pushed and  *)
(* remaining points are told apart without a second array.                 *)
(*                                                                         *)
(* A point that is decided is replaced in the array graph by the last one,  *)
(* so the order of the points changes from pass to pass; the model visits   *)
(* the points of a pass in any order.  The branch for OpenMP, which uses an *)
(* array declared nowhere, is not modelled.                                *)
(***************************************************************************)
EXTENDS StrengthGraph

VARIABLES
  pc,       \* where build stands
  S,        \* s_markers, not changed here
  measure,  \* meassure_array
  cf,       \* cf_markers
  ff,       \* the marker of the undecided points of the pass
  graph,    \* the undecided points
  todo,     \* those of them the pass has yet to visit
  ncoarse   \* c_counter

vars == <<pc, S, measure, cf, ff, graph, todo, ncoarse>>
matrix == <<S, measure>>

Fine == -1

(* Points nobody depends on are fine from the start.                       *)
Init ==
  /\ S \in Relations
  /\ \E draw \in Draws : measure = Measure(S, draw)
  /\ pc = "mark"
  /\ ff = -2
  /\ graph = { i \in Points : Dependents(S, i) # {} }
  /\ cf = [i \in Points |-> IF i \in graph THEN ff ELSE Fine]
  /\ todo = {}
  /\ ncoarse = 0

Pushes(k) == measure[k] > RandMax

(* build_independent_set: a point goes to the next pass when a point of    *)
(* the graph with a larger measure depends on it.                          *)
Pushed(i) ==
  /\ cf[i] = ff
  /\ \E k \in graph : Pushes(k) /\ i \in Influences(S, k) /\ measure[k] > measure[i]

BuildIndependentSet ==
  /\ pc = "mark"
  /\ graph # {}
  /\ cf' = [i \in Points |-> IF Pushed(i) THEN ff - 1 ELSE cf[i]]
  /\ todo' = graph
  /\ pc' = "visit"
  /\ UNCHANGED <<matrix, ff, graph, ncoarse>>

(* The points that were not pushed are coarse, those already visited and   *)
(* those to come.                                                          *)
CoarseNotFine(j) == cf[j] # Fine
CoarseVisited(j) == cf[j] > 0
IsCoarse(j) == cf[j] > 0 \/ cf[j] = ff

Visit(i) ==
  /\ pc = "visit"
  /\ todo' = todo \ {i}
  /\ \/ /\ cf[i] = ff
        /\ ncoarse' = ncoarse + 1
        /\ cf' = [cf EXCEPT ![i] = ncoarse + 1]
        /\ graph' = graph \ {i}
     \/ /\ cf[i] # ff
        /\ \E j \in Influences(S, i) : IsCoarse(j)
        /\ cf' = [cf EXCEPT ![i] = Fine]
        /\ graph' = graph \ {i}
        /\ UNCHANGED ncoarse
     \/ /\ cf[i] # ff
        /\ \A j \in Influences(S, i) : ~IsCoarse(j)
        /\ UNCHANGED <<cf, graph, ncoarse>>
  /\ UNCHANGED <<pc, matrix, ff>>

SameMarker == ff
NextMarker == ff - 1

EndPass ==
  /\ pc = "visit"
  /\ todo = {}
  /\ ff' = NextMarker
  /\ pc' = "mark"
  /\ UNCHANGED <<matrix, cf, graph, todo, ncoarse>>

Finish ==
  /\ pc = "mark"
  /\ graph = {}
  /\ pc' = "done"
  /\ UNCHANGED <<matrix, cf, ff, graph, todo, ncoarse>>

Next ==
  \/ BuildIndependentSet
  \/ \E i \in todo : Visit(i)
  \/ EndPass
  \/ Finish

Spec == Init /\ [][Next]_vars

(* build is a sequential procedure.                                        *)
FairSpec == Spec /\ WF_vars(Next)
-----------------------------------------------------------------------------
Decided == Points \ graph

(* The markers tell the points apart as the code reads them: a decided     *)
(* point has a positive marker or -1, an undecided one the marker of this  *)
(* pass or of the next, and between passes that of the pass to come.  The  *)
(* code compares cf_markers[cl] with ff without asking whether cl is still *)
(* in the graph.                                                           *)
TypeOK ==
  /\ pc \in {"mark", "visit", "done"}
  /\ S \in Relations
  /\ measure \in [Points -> Nat]
  /\ ff \in Int /\ ff < Fine
  /\ cf \in [Points -> Int]
  /\ todo \subseteq graph /\ graph \subseteq Points
  /\ \A i \in Decided : cf[i] > 0 \/ cf[i] = Fine
  /\ \A i \in graph : cf[i] = ff \/ (pc = "visit" /\ cf[i] = ff - 1)
  /\ ncoarse \in Nat

(* Every fine point that somebody depends on depends itself on a coarse    *)
(* point, whatever the strength and the draws, so that it can be           *)
(* interpolated.                                                           *)
FineDependsOnCoarse ==
  \A i \in FineIn(cf) \cap Decided :
    Dependents(S, i) # {} => \E j \in Influences(S, i) : IsCoarse(j)

(* With a symmetric strength two neighbours are both coarse only when      *)
(* their measures are equal.                                               *)
IndependentUpToTies ==
  Symmetric(S) =>
    \A i, j \in CoarseIn(cf) : <<i, j>> \in S => measure[i] = measure[j]

(* build keeps the promise of its interface.  In particular every pass     *)
(* decides a point: the undecided one with the largest measure is pushed   *)
(* by nobody.                                                              *)
Splitting == INSTANCE CFSplitting WITH
  coarse <- CoarseIn(cf),
  fine   <- { i \in Points : cf[i] = Fine },
  count  <- ncoarse
RefinesSplitting == Splitting!LiveSpec
=============================================================================
