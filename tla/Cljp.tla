-------------------------------- MODULE Cljp --------------------------------
(***************************************************************************)
(* cljp_coarse::build, the method of Cleary, Luby, Jones and Plassmann.     *)
(* The marks of the strength matrix are used as the state of its edges: one *)
(* while the edge is open, minus one when it has been dealt with, because   *)
(* its row is coarse, its column is, or both ends depend on a common coarse *)
(* point.  The measure of a point falls with the open edges to it; a point  *)
(* whose measure falls below one leaves the graph and is fine.             *)
(***************************************************************************)
EXTENDS StrengthGraph, Sequences

VARIABLES
  pc,       \* where build stands
  S,        \* the edges: the non-zero elements of s_markers
  mark,     \* s_markers on those edges
  draw,     \* the draws of the measures, for the properties
  measure,  \* meassure_array
  cf,       \* cf_markers
  ff,       \* the marker of the undecided points of the pass
  graph,    \* the array graph up to last_in_graph
  k,        \* the index of the loop over it
  ncoarse   \* c_counter

vars == <<pc, S, mark, draw, measure, cf, ff, graph, k, ncoarse>>
matrix == <<S, draw>>

InGraph == { graph[n] : n \in DOMAIN graph }

Init ==
  /\ S \in Relations
  /\ draw \in Draws
  /\ measure = Measure(S, draw)
  /\ mark = [e \in S |-> 1]
  /\ pc = "mark"
  /\ ff = -2
  /\ cf = [i \in Points |-> ff]
  /\ graph = [n \in Points |-> n]
  /\ k = 1
  /\ ncoarse = 0

(* build_independent_set, which asks for marks that are not zero.          *)
PushedByOpen(i) ==
  /\ cf[i] = ff
  /\ \E p \in InGraph : /\ measure[p] > RandMax
                         /\ i \in Influences(S, p) /\ mark[<<p, i>>] > 0
                         /\ measure[p] > measure[i]
Pushed(i) ==
  /\ cf[i] = ff
  /\ \E p \in InGraph : /\ measure[p] > RandMax
                         /\ i \in Influences(S, p)
                         /\ measure[p] > measure[i]

BuildIndependentSet ==
  /\ pc = "mark"
  /\ graph # <<>>
  /\ cf' = [i \in Points |-> IF Pushed(i) THEN ff - 1 ELSE cf[i]]
  /\ k' = 1
  /\ pc' = "update"
  /\ UNCHANGED <<matrix, mark, measure, ff, graph, ncoarse>>

IsCoarse(j) == cf[j] = ff \/ cf[j] > 0

OpenOrClosed(i) == Influences(S, i)
Open(i) == { j \in Influences(S, i) : mark[<<i, j>>] > 0 }

(* The columns of row i in done are dealt with; the measure of those in    *)
(* lowered falls by one.                                                   *)
Close(i, done, lowered) ==
  /\ mark' = [e \in S |-> IF e[1] = i /\ e[2] \in done THEN -1 ELSE mark[e]]
  /\ measure' = [j \in Points |-> IF j \in lowered THEN measure[j] - RandMax
                                                   ELSE measure[j]]

(* A coarse point needs no interpolation: its open edges are closed.       *)
UpdateCoarse ==
  LET i == graph[k] IN
  /\ pc = "update" /\ k <= Len(graph)
  /\ IsCoarse(i)
  /\ cf' = [cf EXCEPT ![i] = 1]
  /\ Close(i, Open(i), Open(i))
  /\ ncoarse' = ncoarse + 1
  /\ k' = k + 1
  /\ UNCHANGED <<pc, matrix, ff, graph>>

CoarseInfluences(i) == { j \in Influences(S, i) : IsCoarse(j) }

(* The open neighbours of i that depend on a coarse point i depends on.    *)
(* The code marks those coarse points with 2 while it looks for them.      *)
AnyCoarse(i) ==
  { j \in Open(i) \ CoarseInfluences(i) : CoarseInfluences(j) # {} }
ShareCoarse(i) ==
  { j \in Open(i) \ CoarseInfluences(i) :
      Influences(S, j) \cap CoarseInfluences(i) # {} }

(* Another point closes its edges to coarse points and to the neighbours   *)
(* it shares one with; its coarse neighbours are given their marker.       *)
UpdateOther ==
  LET i == graph[k] IN
  /\ pc = "update" /\ k <= Len(graph)
  /\ ~IsCoarse(i)
  /\ cf' = [j \in Points |-> IF j \in CoarseInfluences(i) THEN 1 ELSE cf[j]]
  /\ Close(i, CoarseInfluences(i) \cup ShareCoarse(i), ShareCoarse(i))
  /\ k' = k + 1
  /\ UNCHANGED <<pc, matrix, ff, graph, ncoarse>>

EndUpdate ==
  /\ pc = "update" /\ k > Len(graph)
  /\ k' = 1
  /\ pc' = "prune"
  /\ UNCHANGED <<matrix, mark, measure, cf, ff, graph, ncoarse>>

Leaves(i) == cf[i] > 0 \/ measure[i] < RandMax

(* A point that leaves is replaced by the last one, which is looked at     *)
(* next.                                                                   *)
ReplacedByLast(s, n) == SubSeq([s EXCEPT ![n] = s[Len(s)]], 1, Len(s) - 1)

Prune ==
  /\ pc = "prune" /\ k <= Len(graph)
  /\ IF Leaves(graph[k])
       THEN graph' = ReplacedByLast(graph, k) /\ k' = k
       ELSE graph' = graph /\ k' = k + 1
  /\ UNCHANGED <<pc, matrix, mark, measure, cf, ff, ncoarse>>

SameMarker == ff
NextMarker == ff - 1

EndPass ==
  /\ pc = "prune" /\ k > Len(graph)
  /\ ff' = NextMarker
  /\ k' = 1
  /\ pc' = "mark"
  /\ UNCHANGED <<matrix, mark, measure, cf, graph, ncoarse>>

(* The marks change sign.                                                  *)
Restore ==
  /\ pc = "mark"
  /\ graph = <<>>
  /\ mark' = [e \in S |-> - mark[e]]
  /\ pc' = "done"
  /\ UNCHANGED <<matrix, measure, cf, ff, graph, k, ncoarse>>

Next ==
  \/ BuildIndependentSet
  \/ UpdateCoarse \/ UpdateOther \/ EndUpdate
  \/ Prune \/ EndPass
  \/ Restore

Spec == Init /\ [][Next]_vars

(* build is a sequential procedure.                                        *)
FairSpec == Spec /\ WF_vars(Next)
-----------------------------------------------------------------------------
(* The marks, the markers and the graph keep their ranges; no point is in   *)
(* the graph twice, and at most N are counted.                             *)
TypeOK ==
  /\ pc \in {"mark", "update", "prune", "done"}
  /\ S \in Relations /\ draw \in Draws
  /\ mark \in [S -> {-1, 1}]
  /\ measure \in [Points -> Int]
  /\ cf \in [Points -> Int]
  /\ ff \in Int /\ ff <= -2
  /\ graph \in Seq(Points) /\ Cardinality(InGraph) = Len(graph)
  /\ k \in 1 .. N + 1
  /\ ncoarse \in 0 .. N

(* A point that is in no graph is coarse or has a measure below one, and   *)
(* the measure of a point without the mark of a coarse one is its number   *)
(* of open edges and its draw, through every closing of an edge, whichever *)
(* end did it.                                                             *)
OpenEdgesTo(j) == { i \in Dependents(S, j) : mark[<<i, j>>] > 0 }
MeasureCountsOpenEdges ==
  /\ TypeOK
  /\ \A i \in Points \ InGraph : cf[i] > 0 \/ measure[i] < RandMax
  /\ pc # "done" =>
       \A j \in FineIn(cf) :
         measure[j] = RandMax * Cardinality(OpenEdgesTo(j)) + draw[j]

(* Two fine points of which one depends on the other depend on a common    *)
(* coarse point, which is what the method is for, whatever the strength;   *)
(* when it is symmetric every fine point has a coarse neighbour.           *)
FineInterpolates ==
  pc = "done" =>
    /\ \A i, j \in FineIn(cf) : <<i, j>> \in S =>
         Influences(S, i) \cap Influences(S, j) \cap CoarseIn(cf) # {}
    /\ Symmetric(S) => Covered(S, cf)

(* What build gives back.  The marks are those it was given when the       *)
(* strength is symmetric.  The number returned is that of the coarse       *)
(* points when no draw was at an end of its range: a point that left the   *)
(* graph is never taken for a coarse one then, although it keeps the       *)
(* marker of some pass and markers go down.                                *)
InnerDraws == \A i \in Points : 0 < draw[i] /\ draw[i] < RandMax
ResultIntact ==
  pc = "done" =>
    /\ Symmetric(S) => \A e \in S : mark[e] = 1
    /\ InnerDraws => ncoarse = Cardinality(CoarseIn(cf))

(* build ends, whatever the strength and the draws: no pass leaves the     *)
(* marks and the graph as it found them.                                   *)
Terminates == <>(pc = "done")
=============================================================================
