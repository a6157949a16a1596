----------------------------- MODULE CljpProofs -----------------------------
(***************************************************************************)
(* Theorems about Cljp, for every matrix size, every strength relation and *)
(* every outcome of rand ().                                               *)
(***************************************************************************)
EXTENDS Cljp, FiniteSetTheorems, SequenceTheorems, TLAPS

(***************************************************************************)
(* The inductive invariant.  The set of the points IsCoarse holds of stays *)
(* the same during the update of a pass, and so does the set of edges the  *)
(* pass closes, whichever end is visited first.                            *)
(***************************************************************************)
ToCome == IF pc = "update" THEN { graph[n] : n \in k .. Len(graph) } ELSE {}
Seen == InGraph \ ToCome

Types ==
  /\ pc \in {"mark", "update", "prune", "done"}
  /\ S \in Relations /\ draw \in Draws
  /\ mark \in [S -> {-1, 1}]
  /\ measure \in [Points -> Int]
  /\ cf \in [Points -> Int]
  /\ ff \in Int /\ ff <= -2
  /\ graph \in Seq(Points)
  /\ k \in Nat /\ 1 <= k /\ k <= Len(graph) + 1
  /\ ncoarse \in Nat

NoneTwice == \A m, n \in 1 .. Len(graph) : graph[m] = graph[n] => m = n

(* The markers of a pass: those of the points in the graph, what those     *)
(* outside can have, and what is known of the points that stay.            *)
Markers ==
  /\ \A i \in Points : cf[i] = 1 \/ cf[i] < 0
  /\ pc = "mark" => \A i \in InGraph : cf[i] = ff
  /\ pc = "update" => \A i \in ToCome : cf[i] \in {1, ff, ff - 1}
  /\ pc = "update" => \A i \in Seen : cf[i] \in {1, ff - 1}
  /\ pc = "prune" => \A i \in InGraph : cf[i] \in {1, ff - 1}
  /\ pc = "prune" => \A n \in 1 .. k - 1 : ~Leaves(graph[n])
  /\ pc = "mark" => InGraph = Points \/ \A i \in InGraph : measure[i] >= RandMax
  /\ pc = "done" => graph = <<>>

Measures ==
  /\ \A i \in Points \ InGraph : cf[i] > 0 \/ measure[i] < RandMax
  /\ pc # "done" =>
       \A j \in FineIn(cf) :
         measure[j] = RandMax * Cardinality(OpenEdgesTo(j)) + draw[j]

(* A point that left the graph is not taken for a coarse one.              *)
NoneTakenForCoarse ==
  pc = "update" /\ InnerDraws =>
    \A p \in InGraph : \A i \in Influences(S, p) \ InGraph : cf[i] # ff

Counted == CoarseIn(cf) \ ToCome
CountedOnce ==
  /\ ncoarse <= Cardinality(Counted)
  /\ InnerDraws => ncoarse = Cardinality(Counted)

(* Why an edge was closed.                                                 *)
Shared(i, j) == Influences(S, i) \cap Influences(S, j)
ClosedEdges ==
  pc # "done" =>
    \A i, j \in Points : <<i, j>> \in S /\ mark[<<i, j>>] = -1 =>
      cf[i] > 0 \/ cf[j] > 0 \/ Shared(i, j) \cap CoarseIn(cf) # {}

(* The edges a pass closes, when it has visited their rows.                *)
Closable(i, j) == IsCoarse(i) \/ IsCoarse(j) \/ \E c \in Shared(i, j) : IsCoarse(c)

Closed(i, j) == <<i, j>> \in S => mark[<<i, j>>] = -1
SameMarks(i, j) == <<i, j>> \in S => mark[<<i, j>>] = mark[<<j, i>>]

SymmetricMarks ==
  Symmetric(S) /\ pc # "done" =>
    /\ pc # "update" => \A i, j \in Points : SameMarks(i, j)
    /\ pc = "update" => \A i, j \in Points : ~Closable(i, j) => SameMarks(i, j)
    /\ pc = "update" => \A i \in Seen, j \in Points : Closable(i, j) => Closed(i, j)
    /\ pc = "prune" => \A i \in InGraph, j \in Points : cf[i] > 0 => Closed(i, j)
    /\ \A i \in Points \ InGraph, j \in Points : Closed(i, j) /\ Closed(j, i)

IInv ==
  /\ Types
  /\ NoneTwice
  /\ Markers
  /\ Measures
  /\ NoneTakenForCoarse
  /\ CountedOnce
  /\ ClosedEdges
  /\ SymmetricMarks
  /\ FineInterpolates
  /\ ResultIntact
-----------------------------------------------------------------------------
LEMMA PointsFinite ==
  /\ IsFiniteSet(Points) /\ Cardinality(Points) = N
  /\ \A T \in SUBSET Points :
       IsFiniteSet(T) /\ Cardinality(T) \in Nat /\ Cardinality(T) <= N
<1>1. IsFiniteSet(Points) /\ Cardinality(Points) = N
  BY GraphAssumption, FS_Interval DEF Points
<1>2. QED
  BY <1>1, FS_Subset, FS_CardinalityType

(* A sequence that names no point twice is as long as the set it names.    *)
LEMMA AsLongAsItsSet ==
  ASSUME NEW s \in Seq(Points),
         \A m, n \in 1 .. Len(s) : s[m] = s[n] => m = n
  PROVE  Cardinality({ s[n] : n \in DOMAIN s }) = Len(s) /\ Len(s) <= N
<1> DEFINE R == { s[n] : n \in DOMAIN s }
<1>1. Len(s) \in Nat /\ DOMAIN s = 1 .. Len(s) /\ s \in [1 .. Len(s) -> Points]
  BY LenProperties
<1>2. IsFiniteSet(1 .. Len(s)) /\ Cardinality(1 .. Len(s)) = Len(s)
  BY <1>1, FS_Interval
<1>3. R \subseteq Points
  BY <1>1
<1>4. s \in Injection(1 .. Len(s), R)
  BY <1>1 DEF Injection, IsInjective
<1>5. s \in Surjection(1 .. Len(s), R)
  BY <1>1 DEF Surjection
<1>6. Cardinality(R) = Cardinality(1 .. Len(s))
  <2> HIDE DEF R
  <2> QED
    BY <1>2, <1>4, <1>5, FS_Surjection
<1>7. QED
  BY <1>2, <1>3, <1>6, PointsFinite

(* The graph when its point number k is replaced by the last one.          *)
LEMMA ReplacedByLastType ==
  ASSUME NEW s \in Seq(Points), NEW m \in 1 .. Len(s)
  PROVE  /\ ReplacedByLast(s, m) \in Seq(Points)
         /\ Len(ReplacedByLast(s, m)) = Len(s) - 1
         /\ \A n \in 1 .. Len(s) - 1 :
              ReplacedByLast(s, m)[n] = IF n = m THEN s[Len(s)] ELSE s[n]
<1> DEFINE u == [s EXCEPT ![m] = s[Len(s)]]
<1>1. Len(s) \in Nat /\ Len(s) \in 1 .. Len(s) /\ s[Len(s)] \in Points
  BY ElementOfSeq
<1>2. u \in Seq(Points) /\ Len(u) = Len(s)
  BY <1>1, ExceptSeq
<1>3. \A n \in 1 .. Len(s) : u[n] = IF n = m THEN s[Len(s)] ELSE s[n]
  BY <1>1, ExceptSeq
<1>4. ReplacedByLast(s, m) = SubSeq(u, 1, Len(s) - 1)
  BY DEF ReplacedByLast
<1> HIDE DEF u
<1>5. /\ SubSeq(u, 1, Len(s) - 1) \in Seq(Points)
      /\ Len(SubSeq(u, 1, Len(s) - 1)) = Len(s) - 1
      /\ \A n \in 1 .. Len(s) - 1 : SubSeq(u, 1, Len(s) - 1)[n] = u[n]
  BY <1>1, <1>2, SubSeqProperties
<1>6. QED
  BY <1>1, <1>3, <1>4, <1>5

(* The number of open edges to a point when the edge from i is closed.     *)
LEMMA OneLess ==
  ASSUME NEW T \in SUBSET Points, NEW i \in T
  PROVE  RandMax * Cardinality(T \ {i}) = RandMax * Cardinality(T) - RandMax
<1>1. Cardinality(T \ {i}) = Cardinality(T) - 1 /\ Cardinality(T) \in Nat
  BY PointsFinite, FS_RemoveElement
<1>2. RandMax * (Cardinality(T) - 1) = RandMax * Cardinality(T) - RandMax
  BY <1>1, GraphAssumption
<1>3. QED
  BY <1>1, <1>2
-----------------------------------------------------------------------------
(* What the types say of the graph.                                        *)
LEMMA GraphFacts ==
  ASSUME Types
  PROVE  /\ Len(graph) \in Nat /\ DOMAIN graph = 1 .. Len(graph)
         /\ \A n \in 1 .. Len(graph) : graph[n] \in Points /\ graph[n] \in InGraph
         /\ InGraph \subseteq Points /\ ToCome \subseteq InGraph
         /\ graph = <<>> <=> InGraph = {}
<1>1. /\ Len(graph) \in Nat /\ DOMAIN graph = 1 .. Len(graph)
      /\ \A n \in 1 .. Len(graph) : graph[n] \in Points
  BY LenProperties, ElementOfSeq DEF Types
<1>2. graph # <<>> => 1 \in 1 .. Len(graph)
  BY <1>1, EmptySeq DEF Types
<1>3. k \in Nat /\ k >= 1
  BY DEF Types
<1>4. ToCome \subseteq InGraph
  BY <1>1, <1>3 DEF ToCome, InGraph
<1>5. graph = <<>> => Len(graph) = 0
  BY EmptySeq
<1>6. QED
  BY <1>1, <1>2, <1>4, <1>5 DEF InGraph

(* The parts of a measure.                                                 *)
LEMMA MeasureParts ==
  ASSUME Types, NEW j \in Points
  PROVE  /\ draw[j] \in Nat /\ draw[j] <= RandMax /\ RandMax \in Nat \ {0}
         /\ OpenEdgesTo(j) \in SUBSET Points
         /\ Cardinality(OpenEdgesTo(j)) \in Nat
         /\ RandMax * Cardinality(OpenEdgesTo(j)) \in Nat
<1>1. draw \in [Points -> 0 .. RandMax]
  BY GraphAssumption DEF Types
<1>2. OpenEdgesTo(j) \in SUBSET Points
  BY DEF OpenEdgesTo, Dependents
<1>3. Cardinality(OpenEdgesTo(j)) \in Nat /\ RandMax \in Nat \ {0}
  BY <1>2, PointsFinite, GraphAssumption
<1>4. QED
  BY <1>1, <1>2, <1>3

LEMMA InitIInv == Init => IInv
<1> SUFFICES ASSUME Init PROVE IInv
  OBVIOUS
<1>1. graph \in Seq(Points) /\ Len(graph) = N /\ InGraph = Points
  BY GraphAssumption DEF Init, Points, InGraph
<1>2. \A i \in Points : IsFiniteSet(Dependents(S, i)) /\ Cardinality(Dependents(S, i)) \in Nat
  BY PointsFinite DEF Dependents
<1>3. draw \in [Points -> 0 .. RandMax]
  BY GraphAssumption DEF Init
<1>4. \A i \in Points : measure[i] = RandMax * Cardinality(Dependents(S, i)) + draw[i]
  BY DEF Init, Measure, Count
<1>5. \A i \in Points : measure[i] \in Int
  <2> TAKE i \in Points
  <2>1. RandMax * Cardinality(Dependents(S, i)) \in Nat
    BY <1>2, GraphAssumption
  <2>2. QED
    BY <2>1, <1>3, <1>4
<1>6. Types
  BY <1>1, <1>5, GraphAssumption DEF Init, Types, Measure
<1>7. NoneTwice
  BY <1>1 DEF Init, NoneTwice, Points
<1>8. Markers
  BY <1>1 DEF Init, Markers, Points
<1>9. Measures
  <2>1. \A j \in Points : OpenEdgesTo(j) = Dependents(S, j)
    BY DEF Init, OpenEdgesTo, Dependents
  <2>2. QED
    BY <1>1, <1>4, <2>1 DEF Measures, FineIn
<1>10. NoneTakenForCoarse
  BY DEF Init, NoneTakenForCoarse
<1>11. CountedOnce
  <2>1. Counted = {}
    BY DEF Init, Counted, CoarseIn
  <2>2. QED
    BY <2>1, FS_EmptySet DEF Init, CountedOnce
<1>12. ClosedEdges
  BY DEF Init, ClosedEdges
<1>13. SymmetricMarks
  BY <1>1 DEF Init, SymmetricMarks, Symmetric, SameMarks
<1>14. QED
  BY <1>6, <1>7, <1>8, <1>9, <1>10, <1>11, <1>12, <1>13
     DEF Init, IInv, FineInterpolates, ResultIntact

(* The ranges of the type invariant follow.                                *)
LEMMA IInvType == IInv => TypeOK /\ MeasureCountsOpenEdges
<1> SUFFICES ASSUME IInv PROVE TypeOK /\ MeasureCountsOpenEdges
  OBVIOUS
<1>1. Types /\ NoneTwice /\ Measures /\ CountedOnce
  BY DEF IInv
<1>2. Cardinality(InGraph) = Len(graph) /\ Len(graph) <= N
  BY <1>1, AsLongAsItsSet DEF Types, NoneTwice, InGraph
<1>3. Cardinality(Counted) \in Nat /\ Cardinality(Counted) <= N
  BY PointsFinite DEF Counted, CoarseIn
<1>4. N \in Nat /\ Len(graph) \in Nat
  BY <1>1, GraphFacts, GraphAssumption
<1>5. TypeOK
  BY <1>1, <1>2, <1>3, <1>4 DEF Types, CountedOnce, TypeOK
<1>6. QED
  BY <1>1, <1>5 DEF Measures, MeasureCountsOpenEdges
-----------------------------------------------------------------------------
(* The points of a pass get its two markers, and nothing is coarse yet.    *)
LEMMA BuildIndependentSetKeeps ==
  ASSUME IInv, BuildIndependentSet PROVE IInv'
<1> USE DEF BuildIndependentSet, matrix
<1>1. Types /\ NoneTwice /\ Markers /\ Measures /\ CountedOnce /\ ClosedEdges /\ SymmetricMarks
  BY DEF IInv
<1>2. ff \in Int /\ ff <= -2 /\ cf \in [Points -> Int]
  BY <1>1 DEF Types
<1>3. \A i \in Points : cf'[i] = IF Pushed(i) THEN ff - 1 ELSE cf[i]
  OBVIOUS
<1>4. \A i \in Points : Pushed(i) => cf[i] = ff
  BY DEF Pushed
<1>5. CoarseIn(cf') = CoarseIn(cf) /\ FineIn(cf') = FineIn(cf)
  BY <1>2, <1>3, <1>4 DEF CoarseIn, FineIn
<1>6. InGraph' = InGraph /\ ToCome' = InGraph /\ Seen' = {}
  <2>1. InGraph' = InGraph
    BY DEF InGraph
  <2>2. ToCome' = InGraph
    BY <1>1, GraphFacts DEF ToCome, InGraph
  <2>3. QED
    BY <2>1, <2>2 DEF Seen
<1>7. Types'
  BY <1>1, <1>2, GraphFacts DEF Types
<1>8. NoneTwice'
  BY <1>1 DEF NoneTwice
<1>9. Markers'
  <2>1. \A i \in InGraph : cf'[i] \in {ff, ff - 1}
    BY <1>1, <1>3, GraphFacts DEF Markers
  <2>2. \A i \in Points : cf'[i] = 1 \/ cf'[i] < 0
    BY <1>1, <1>2, <1>3 DEF Markers
  <2>3. QED
    BY <1>6, <2>1, <2>2 DEF Markers
<1>10. Measures'
  <2>1. \A i \in Points : cf'[i] > 0 <=> cf[i] > 0
    BY <1>2, <1>3, <1>4
  <2>2. \A j : OpenEdgesTo(j)' = OpenEdgesTo(j)
    BY DEF OpenEdgesTo
  <2>3. QED
    BY <1>1, <1>5, <1>6, <2>1, <2>2 DEF Measures
<1>11. NoneTakenForCoarse'
  <2>1. SUFFICES ASSUME InnerDraws, NEW p \in InGraph, NEW i \in Influences(S, p),
                        i \notin InGraph, cf'[i] = ff
                 PROVE  FALSE
    BY <1>6 DEF NoneTakenForCoarse, InnerDraws
  <2>2. i \in Points /\ p \in Points
    BY <1>1, GraphFacts DEF Influences
  <2>3. cf[i] = ff /\ ~Pushed(i)
    BY <1>2, <1>3, <2>1, <2>2
  <2>4. measure[i] < RandMax
    BY <1>1, <1>2, <2>1, <2>2, <2>3 DEF Measures
  <2>5. measure[p] >= RandMax /\ cf[p] = ff
    BY <1>1, <2>1, <2>2 DEF Markers
  <2>6. measure[p] = RandMax * Cardinality(OpenEdgesTo(p)) + draw[p]
    BY <1>1, <1>2, <2>2, <2>5 DEF Measures, FineIn
  <2>7. /\ draw[p] \in Int /\ 0 < draw[p] /\ draw[p] < RandMax
        /\ RandMax \in Nat /\ Cardinality(OpenEdgesTo(p)) \in Nat
    BY <1>1, <2>1, <2>2, MeasureParts DEF InnerDraws
  <2>8. measure[p] # RandMax
    <3>1. SUFFICES ASSUME RandMax * Cardinality(OpenEdgesTo(p)) = RandMax - draw[p]
                   PROVE  FALSE
      BY <2>6, <2>7
    <3>2. CASE Cardinality(OpenEdgesTo(p)) = 0
      BY <2>7, <3>1, <3>2
    <3>3. CASE Cardinality(OpenEdgesTo(p)) >= 1
      <4>1. RandMax * Cardinality(OpenEdgesTo(p)) >= RandMax
        BY <2>7, <3>3
      <4>2. QED
        BY <2>7, <3>1, <4>1
    <3>4. QED
      BY <2>7, <3>2, <3>3
  <2>9. measure[p] \in Int /\ measure[i] \in Int
    BY <1>1, <2>2 DEF Types
  <2>10. QED
    BY <2>1, <2>3, <2>4, <2>5, <2>7, <2>8, <2>9 DEF Pushed
<1>12. CountedOnce'
  <2>1. Counted' = Counted
    <3>1. \A i \in InGraph : i \notin CoarseIn(cf)
      BY <1>1, <1>2 DEF Markers, CoarseIn
    <3>2. QED
      BY <1>5, <1>6, <3>1 DEF Counted, ToCome
  <2>2. QED
    BY <1>1, <2>1 DEF CountedOnce, InnerDraws
<1>13. ClosedEdges'
  <2>1. \A i \in Points : cf'[i] > 0 <=> cf[i] > 0
    BY <1>2, <1>3, <1>4
  <2>2. QED
    BY <1>1, <1>5, <2>1 DEF ClosedEdges, Shared
<1>14. SymmetricMarks'
  BY <1>1, <1>6 DEF SymmetricMarks, SameMarks, Closed
<1>15. QED
  BY <1>7, <1>8, <1>9, <1>10, <1>11, <1>12, <1>13, <1>14
     DEF IInv, FineInterpolates, ResultIntact

(* All rows of the graph were visited.                                     *)
LEMMA EndUpdateKeeps ==
  ASSUME IInv, EndUpdate PROVE IInv'
<1> USE DEF EndUpdate, matrix
<1>1. Types /\ NoneTwice /\ Markers /\ Measures /\ CountedOnce /\ ClosedEdges /\ SymmetricMarks
  BY DEF IInv
<1>2. ToCome = {} /\ Seen = InGraph /\ InGraph' = InGraph /\ ToCome' = {}
  <2>1. ToCome = {}
    BY <1>1, GraphFacts DEF ToCome, Types
  <2>2. QED
    BY <2>1 DEF Seen, InGraph, ToCome
<1>3. Types'
  BY <1>1, GraphFacts DEF Types
<1>4. NoneTwice'
  BY <1>1 DEF NoneTwice
<1>5. Markers'
  BY <1>1, <1>2 DEF Markers
<1>6. Measures'
  <2>1. \A j : OpenEdgesTo(j)' = OpenEdgesTo(j)
    BY DEF OpenEdgesTo
  <2>2. QED
    BY <1>1, <1>2, <2>1 DEF Measures
<1>7. NoneTakenForCoarse'
  BY DEF NoneTakenForCoarse
<1>8. CountedOnce'
  BY <1>1, <1>2 DEF CountedOnce, Counted, InnerDraws
<1>9. ClosedEdges'
  BY <1>1 DEF ClosedEdges, Shared
<1>10. SymmetricMarks'
  <2>1. SUFFICES ASSUME Symmetric(S)
                 PROVE  /\ \A i, j \in Points : SameMarks(i, j)
                        /\ \A i \in InGraph, j \in Points : cf[i] > 0 => Closed(i, j)
                        /\ \A i \in Points \ InGraph, j \in Points : Closed(i, j) /\ Closed(j, i)
    BY <1>2 DEF SymmetricMarks, SameMarks, Closed
  <2>2. \A i \in InGraph, j \in Points : Closable(i, j) => Closed(i, j)
    BY <1>1, <1>2, <2>1 DEF SymmetricMarks
  <2>3. \A i \in Points \ InGraph, j \in Points : Closed(i, j) /\ Closed(j, i)
    BY <1>1, <2>1 DEF SymmetricMarks
  <2>4. \A i \in InGraph, j \in Points : cf[i] > 0 => Closed(i, j)
    BY <2>2 DEF Closable, IsCoarse
  <2>5. ASSUME NEW i \in Points, NEW j \in Points PROVE SameMarks(i, j)
    <3>1. <<i, j>> \in S => <<j, i>> \in S
      BY <2>1 DEF Symmetric
    <3>2. CASE Closable(i, j)
      <4>1. Closable(j, i)
        BY <3>2 DEF Closable, Shared
      <4>2. Closed(i, j) /\ Closed(j, i)
        BY <2>2, <2>3, <3>2, <4>1
      <4>3. QED
        BY <3>1, <4>2 DEF Closed, SameMarks
    <3>3. CASE ~Closable(i, j)
      BY <1>1, <2>1, <3>3 DEF SymmetricMarks
    <3>4. QED
      BY <3>2, <3>3
  <2>6. QED
    BY <2>3, <2>4, <2>5
<1>11. QED
  BY <1>3, <1>4, <1>5, <1>6, <1>7, <1>8, <1>9, <1>10
     DEF IInv, FineInterpolates, ResultIntact

(* The points that stay have the marker of the next pass.                  *)
LEMMA EndPassKeeps ==
  ASSUME IInv, EndPass PROVE IInv'
<1> USE DEF EndPass, matrix, NextMarker
<1>1. Types /\ NoneTwice /\ Markers /\ Measures /\ CountedOnce /\ ClosedEdges /\ SymmetricMarks
  BY DEF IInv
<1>2. ToCome = {} /\ InGraph' = InGraph /\ ToCome' = {}
  BY DEF ToCome, InGraph
<1>3. \A i \in InGraph : cf[i] = ff - 1 /\ measure[i] >= RandMax
  <2> TAKE i \in InGraph
  <2>1. PICK n \in 1 .. Len(graph) : i = graph[n]
    BY <1>1, GraphFacts DEF InGraph
  <2>2. ~Leaves(i)
    <3>1. n \in 1 .. k - 1
      BY <1>1, <2>1, GraphFacts DEF Types
    <3>2. QED
      BY <1>1, <2>1, <3>1 DEF Markers
  <2>3. i \in Points /\ cf[i] \in {1, ff - 1} /\ measure[i] \in Int
    BY <1>1, GraphFacts DEF Types, Markers
  <2>4. QED
    BY <2>2, <2>3, GraphAssumption DEF Leaves
<1>4. Types'
  BY <1>1, GraphFacts DEF Types
<1>5. NoneTwice'
  BY <1>1 DEF NoneTwice
<1>6. Markers'
  BY <1>1, <1>2, <1>3 DEF Markers
<1>7. Measures'
  <2>1. \A j : OpenEdgesTo(j)' = OpenEdgesTo(j)
    BY DEF OpenEdgesTo
  <2>2. QED
    BY <1>1, <1>2, <2>1 DEF Measures
<1>8. NoneTakenForCoarse'
  BY DEF NoneTakenForCoarse
<1>9. CountedOnce'
  BY <1>1, <1>2 DEF CountedOnce, Counted, InnerDraws
<1>10. ClosedEdges'
  BY <1>1 DEF ClosedEdges, Shared
<1>11. SymmetricMarks'
  BY <1>1, <1>2 DEF SymmetricMarks, SameMarks, Closed
<1>12. QED
  BY <1>4, <1>5, <1>6, <1>7, <1>8, <1>9, <1>10, <1>11
     DEF IInv, FineInterpolates, ResultIntact

(* No edge to a fine point of measure below one is open.                   *)
LEMMA NoOpenEdgeToLight ==
  ASSUME Types, Measures, pc # "done", NEW i \in Points, NEW j \in FineIn(cf),
         measure[j] < RandMax, <<i, j>> \in S
  PROVE  mark[<<i, j>>] = -1
<1>1. j \in Points /\ cf[j] < 0
  BY DEF FineIn
<1>2. measure[j] = RandMax * Cardinality(OpenEdgesTo(j)) + draw[j]
  BY DEF Measures
<1>3. Cardinality(OpenEdgesTo(j)) = 0
  <2>1. SUFFICES ASSUME Cardinality(OpenEdgesTo(j)) >= 1 PROVE FALSE
    BY <1>1, MeasureParts
  <2>2. RandMax * Cardinality(OpenEdgesTo(j)) >= RandMax
    BY <1>1, <2>1, MeasureParts
  <2>3. QED
    BY <1>1, <1>2, <2>2, MeasureParts
<1>4. OpenEdgesTo(j) = {}
  BY <1>1, <1>3, MeasureParts, PointsFinite, FS_EmptySet
<1>5. mark[<<i, j>>] \in {-1, 1}
  BY DEF Types
<1>6. QED
  BY <1>4, <1>5 DEF OpenEdgesTo, Dependents

(* The graph is empty: the result is known, and the marks are given back.  *)
LEMMA RestoreKeeps ==
  ASSUME IInv, Restore PROVE IInv'
<1> USE DEF Restore, matrix
<1>1. Types /\ NoneTwice /\ Markers /\ Measures /\ CountedOnce /\ ClosedEdges /\ SymmetricMarks
  BY DEF IInv
<1>2. InGraph = {} /\ InGraph' = InGraph /\ ToCome = {} /\ ToCome' = {}
  BY <1>1, GraphFacts DEF ToCome, InGraph
<1>3. Types'
  <2>1. mark' \in [S -> {-1, 1}]
    BY <1>1 DEF Types
  <2>2. QED
    BY <1>1, <2>1, GraphFacts DEF Types
<1>4. NoneTwice'
  BY <1>1 DEF NoneTwice
<1>5. Markers'
  BY <1>1 DEF Markers
<1>6. Measures'
  BY <1>1, <1>2 DEF Measures
<1>7. NoneTakenForCoarse' /\ ClosedEdges' /\ SymmetricMarks'
  BY DEF NoneTakenForCoarse, ClosedEdges, SymmetricMarks
<1>8. CountedOnce'
  BY <1>1, <1>2 DEF CountedOnce, Counted, InnerDraws
<1>9. FineInterpolates'
  <2>1. ASSUME NEW i \in FineIn(cf), NEW j \in FineIn(cf), <<i, j>> \in S
        PROVE  Influences(S, i) \cap Influences(S, j) \cap CoarseIn(cf) # {}
    <3>1. i \in Points /\ j \in Points /\ ~(cf[i] > 0) /\ ~(cf[j] > 0)
      BY <1>1 DEF FineIn, Types
    <3>2. mark[<<i, j>>] = -1
      <4>1. measure[j] < RandMax
        BY <1>1, <1>2, <3>1 DEF Measures
      <4>2. QED
        BY <1>1, <2>1, <3>1, <4>1, NoOpenEdgeToLight
    <3>3. QED
      BY <1>1, <2>1, <3>1, <3>2 DEF ClosedEdges, Shared
  <2>2. ASSUME Symmetric(S) PROVE Covered(S, cf)
    <3>1. SUFFICES ASSUME NEW i \in FineIn(cf), NEW j \in Dependents(S, i)
                   PROVE  Influences(S, i) \cap CoarseIn(cf) # {}
      BY DEF Covered
    <3>2. i \in Points /\ j \in Points /\ <<i, j>> \in S /\ j \in Influences(S, i)
      BY <2>2, <3>1 DEF FineIn, Dependents, Influences, Symmetric
    <3>3. CASE j \in FineIn(cf)
      BY <2>1, <3>2, <3>3
    <3>4. CASE j \notin FineIn(cf)
      BY <1>1, <3>2, <3>4 DEF FineIn, CoarseIn, Markers
    <3>5. QED
      BY <3>3, <3>4
  <2>3. QED
    BY <2>1, <2>2 DEF FineInterpolates
<1>10. ResultIntact'
  <2>1. ASSUME Symmetric(S), NEW e \in S PROVE mark'[e] = 1
    <3>1. PICK i \in Points, j \in Points : e = <<i, j>>
      BY <1>1, GraphAssumption DEF Types
    <3>2. Closed(i, j)
      BY <1>1, <1>2, <2>1 DEF SymmetricMarks
    <3>3. QED
      BY <2>1, <3>1, <3>2 DEF Closed
  <2>2. ASSUME InnerDraws PROVE ncoarse = Cardinality(CoarseIn(cf))
    BY <1>1, <1>2, <2>2 DEF CountedOnce, Counted
  <2>3. QED
    BY <2>1, <2>2 DEF ResultIntact, InnerDraws
<1>11. QED
  BY <1>3, <1>4, <1>5, <1>6, <1>7, <1>8, <1>9, <1>10 DEF IInv

(* A point that leaves is coarse or has no open edge to it, and the others *)
(* are still in the graph.                                                 *)
LEMMA PruneKeeps ==
  ASSUME IInv, Prune PROVE IInv'
<1> USE DEF Prune, matrix
<1>1. Types /\ NoneTwice /\ Markers /\ Measures /\ CountedOnce /\ ClosedEdges /\ SymmetricMarks
  BY DEF IInv
<1>2. k \in 1 .. Len(graph) /\ Len(graph) \in Nat /\ graph[k] \in Points /\ graph[k] \in InGraph
  BY <1>1, GraphFacts DEF Types
<1>3. ToCome = {} /\ ToCome' = {}
  BY DEF ToCome
<1>4. \A j : OpenEdgesTo(j)' = OpenEdgesTo(j)
  BY DEF OpenEdgesTo
<1>5. NoneTakenForCoarse'
  BY DEF NoneTakenForCoarse
<1>6. CountedOnce'
  BY <1>1, <1>3 DEF CountedOnce, Counted, InnerDraws
<1>7. ClosedEdges'
  BY <1>1 DEF ClosedEdges, Shared
<1>8. CASE ~Leaves(graph[k])
  <2>1. graph' = graph /\ k' = k + 1 /\ InGraph' = InGraph
    BY <1>8 DEF InGraph
  <2>2. Types'
    BY <1>1, <1>2, <2>1 DEF Types
  <2>3. NoneTwice'
    BY <1>1, <2>1 DEF NoneTwice
  <2>4. Markers'
    <3>1. \A n \in 1 .. k : ~Leaves(graph[n])
      BY <1>1, <1>2, <1>8 DEF Markers
    <3>2. \A i : Leaves(i)' = Leaves(i)
      BY DEF Leaves
    <3>3. \A n \in 1 .. k' - 1 : ~Leaves(graph[n])'
      BY <1>2, <2>1, <3>1, <3>2
    <3>4. QED
      BY <1>1, <2>1, <3>3 DEF Markers
  <2>5. Measures'
    BY <1>1, <1>4, <2>1 DEF Measures
  <2>6. SymmetricMarks'
    BY <1>1, <2>1 DEF SymmetricMarks, SameMarks, Closed
  <2>7. QED
    BY <1>5, <1>6, <1>7, <2>2, <2>3, <2>4, <2>5, <2>6
       DEF IInv, FineInterpolates, ResultIntact
<1>9. CASE Leaves(graph[k])
  <2>1. /\ k' = k
        /\ graph' \in Seq(Points) /\ Len(graph') = Len(graph) - 1
        /\ \A n \in 1 .. Len(graph) - 1 :
             graph'[n] = IF n = k THEN graph[Len(graph)] ELSE graph[n]
    <3>1. k' = k /\ graph' = ReplacedByLast(graph, k)
      BY <1>2, <1>9
    <3>2. graph \in Seq(Points)
      BY <1>1 DEF Types
    <3>3. QED
      BY <1>2, <3>1, <3>2, ReplacedByLastType
  <2>2. NoneTwice'
    BY <1>1, <1>2, <2>1 DEF NoneTwice
  <2>3. InGraph' = InGraph \ {graph[k]}
    <3>1. DOMAIN graph = 1 .. Len(graph) /\ DOMAIN graph' = 1 .. Len(graph) - 1
      BY <1>1, <2>1, LenProperties DEF Types
    <3>2. ASSUME NEW n \in 1 .. Len(graph) - 1
          PROVE  graph'[n] \in InGraph /\ graph'[n] # graph[k]
      BY <1>1, <1>2, <2>1, <3>1 DEF InGraph, NoneTwice
    <3>3. ASSUME NEW n \in 1 .. Len(graph), n # k
          PROVE  graph[n] \in InGraph'
      <4>1. CASE n = Len(graph)
        <5>1. k \in 1 .. Len(graph) - 1 /\ graph'[k] = graph[n]
          BY <1>2, <2>1, <3>3, <4>1
        <5>2. QED
          BY <3>1, <5>1 DEF InGraph
      <4>2. CASE n # Len(graph)
        <5>1. n \in 1 .. Len(graph) - 1 /\ graph'[n] = graph[n]
          BY <1>2, <2>1, <3>3, <4>2
        <5>2. QED
          BY <3>1, <5>1 DEF InGraph
      <4>3. QED
        BY <4>1, <4>2
    <3>4. InGraph = { graph[n] : n \in 1 .. Len(graph) }
      BY <3>1 DEF InGraph
    <3>5. InGraph' = { graph'[n] : n \in 1 .. Len(graph) - 1 }
      BY <3>1 DEF InGraph
    <3>6. InGraph \ {graph[k]} \subseteq InGraph'
      BY <3>3, <3>4
    <3>7. InGraph' \subseteq InGraph \ {graph[k]}
      BY <3>2, <3>5
    <3>8. QED
      BY <3>6, <3>7
  <2>4. Types'
    BY <1>1, <1>2, <2>1 DEF Types
  <2>5. Markers'
    <3>1. \A n \in 1 .. k - 1 : graph'[n] = graph[n]
      BY <1>2, <2>1
    <3>2. \A i : Leaves(i)' = Leaves(i)
      BY DEF Leaves
    <3>3. \A n \in 1 .. k' - 1 : ~Leaves(graph'[n])
      BY <1>1, <2>1, <3>1 DEF Markers
    <3>4. QED
      BY <1>1, <2>3, <3>2, <3>3 DEF Markers
  <2>6. Measures'
    <3>1. cf[graph[k]] > 0 \/ measure[graph[k]] < RandMax
      BY <1>9 DEF Leaves
    <3>2. QED
      BY <1>1, <1>4, <2>3, <3>1 DEF Measures
  <2>7. SymmetricMarks'
    <3>1. SUFFICES ASSUME Symmetric(S), NEW j \in Points
                   PROVE  Closed(graph[k], j) /\ Closed(j, graph[k])
      BY <1>1, <2>3 DEF SymmetricMarks, SameMarks, Closed
    <3>2. SameMarks(graph[k], j) /\ SameMarks(j, graph[k])
      BY <1>1, <1>2, <3>1 DEF SymmetricMarks
    <3>3. Closed(graph[k], j) <=> Closed(j, graph[k])
      BY <1>2, <3>1, <3>2 DEF Symmetric, SameMarks, Closed
    <3>4. CASE cf[graph[k]] > 0
      BY <1>1, <1>2, <3>1, <3>3, <3>4 DEF SymmetricMarks
    <3>5. CASE ~(cf[graph[k]] > 0)
      <4>1. graph[k] \in FineIn(cf) /\ measure[graph[k]] < RandMax
        BY <1>1, <1>2, <1>9, <3>5 DEF Markers, FineIn, Leaves
      <4>2. Closed(j, graph[k])
        BY <1>1, <1>2, <4>1, NoOpenEdgeToLight DEF Closed
      <4>3. QED
        BY <3>3, <4>2
    <3>6. QED
      BY <3>4, <3>5
  <2>8. QED
    BY <1>5, <1>6, <1>7, <2>2, <2>4, <2>5, <2>6, <2>7
       DEF IInv, FineInterpolates, ResultIntact
<1>10. QED
  BY <1>8, <1>9
-----------------------------------------------------------------------------
(***************************************************************************)
(* What the visits of a coarse point and of another one have in common:    *)
(* the edges of row i to the points of done are closed, the measures of    *)
(* those in lowered fall, and the points in new get their marker.          *)
(***************************************************************************)
RowVisit(i, done, lowered, new) ==
  /\ pc = "update" /\ k <= Len(graph) /\ i = graph[k]
  /\ Close(i, done, lowered)
  /\ cf' = [j \in Points |-> IF j \in new THEN 1 ELSE cf[j]]
  /\ k' = k + 1
  /\ UNCHANGED <<pc, S, draw, ff, graph>>
  /\ ncoarse' \in {ncoarse, ncoarse + 1}
  /\ done \subseteq Influences(S, i)
  /\ lowered \subseteq done \cap Open(i) /\ (done \cap Open(i)) \ lowered \subseteq new
  /\ \A j \in new : j \in Points /\ IsCoarse(j)
  /\ IsCoarse(i) => i \in new
  /\ \A j \in done : i \in new \/ j \in new \/ Shared(i, j) \cap new # {}
  /\ \A j \in Influences(S, i) : Closable(i, j) => j \in done \/ mark[<<i, j>>] = -1

(* Nobody becomes coarse or stops being so in the eyes of the update.      *)
LEMMA SameCoarse ==
  ASSUME IInv, NEW i, NEW done, NEW lowered, NEW new, RowVisit(i, done, lowered, new)
  PROVE  /\ \A j \in Points : /\ IsCoarse(j)' <=> IsCoarse(j)
                              /\ cf'[j] = IF j \in new THEN 1 ELSE cf[j]
                              /\ cf'[j] < 0 <=> cf[j] < 0 /\ j \notin new
         /\ \A j, l \in Points : Closable(j, l)' <=> Closable(j, l)
         /\ CoarseIn(cf') = CoarseIn(cf) \cup new
         /\ FineIn(cf') = FineIn(cf) \ new
<1> USE DEF RowVisit
<1>1. Types /\ Markers
  BY DEF IInv
<1>2. cf \in [Points -> Int] /\ ff \in Int /\ ff <= -2
  BY <1>1 DEF Types
<1>3. \A j \in Points : cf'[j] = IF j \in new THEN 1 ELSE cf[j]
  OBVIOUS
<1>4. \A j \in Points : IsCoarse(j)' <=> IsCoarse(j)
  BY <1>2, <1>3 DEF IsCoarse
<1>5. \A j \in Points : cf'[j] < 0 <=> cf[j] < 0 /\ j \notin new
  BY <1>2, <1>3
<1>6. \A j, l \in Points : Closable(j, l)' <=> Closable(j, l)
  BY <1>4 DEF Closable, Shared, Influences
<1>7. CoarseIn(cf') = CoarseIn(cf) \cup new
  BY <1>2, <1>3 DEF CoarseIn
<1>8. FineIn(cf') = FineIn(cf) \ new
  BY <1>2, <1>3 DEF FineIn
<1>9. QED
  BY <1>3, <1>4, <1>5, <1>6, <1>7, <1>8

(* The visited point is no longer among those to come.                     *)
LEMMA OneFewerToCome ==
  ASSUME IInv, NEW i, NEW done, NEW lowered, NEW new, RowVisit(i, done, lowered, new)
  PROVE  /\ i \in Points /\ i \in ToCome
         /\ InGraph' = InGraph /\ ToCome' = ToCome \ {i} /\ Seen' = Seen \cup {i}
<1> USE DEF RowVisit
<1>1. Types /\ NoneTwice
  BY DEF IInv
<1>2. k \in 1 .. Len(graph) /\ Len(graph) \in Nat /\ i \in Points /\ i \in InGraph
  BY <1>1, GraphFacts DEF Types
<1>3. ToCome = { graph[n] : n \in k .. Len(graph) }
  BY DEF ToCome
<1>4. ToCome' = { graph[n] : n \in k + 1 .. Len(graph) }
  BY DEF ToCome
<1>5. i \in ToCome
  BY <1>2, <1>3
<1>6. \A n \in k + 1 .. Len(graph) : graph[n] # i
  BY <1>1, <1>2 DEF NoneTwice
<1>7. \A n \in k .. Len(graph) : n = k \/ n \in k + 1 .. Len(graph)
  BY <1>2
<1>8. \A n \in k + 1 .. Len(graph) : n \in k .. Len(graph)
  BY <1>2
<1>9. ToCome' = ToCome \ {i}
  BY <1>3, <1>4, <1>6, <1>7, <1>8
<1>10. InGraph' = InGraph
  BY DEF InGraph
<1>11. QED
  BY <1>2, <1>5, <1>9, <1>10 DEF Seen

(* A measure falls with the open edges to its point, unless the point is   *)
(* given the mark of a coarse one.                                         *)
LEMMA RowVisitMeasures ==
  ASSUME IInv, NEW i, NEW done, NEW lowered, NEW new, RowVisit(i, done, lowered, new)
  PROVE  measure' \in [Points -> Int] /\ mark' \in [S -> {-1, 1}] /\ Measures'
<1> USE DEF RowVisit
<1>1. Types /\ Measures
  BY DEF IInv
<1>2. i \in Points /\ InGraph' = InGraph
  BY OneFewerToCome
<1>3. RandMax \in Nat \ {0}
  BY GraphAssumption
<1>4. \A j \in Points : measure'[j] = IF j \in lowered THEN measure[j] - RandMax ELSE measure[j]
  BY DEF Close
<1>5. measure' \in [Points -> Int] /\ mark' \in [S -> {-1, 1}]
  <2>1. measure' = [j \in Points |-> IF j \in lowered THEN measure[j] - RandMax ELSE measure[j]]
    BY DEF Close
  <2>2. \A j \in Points : measure[j] \in Int /\ measure[j] - RandMax \in Int
    BY <1>1, <1>3 DEF Types
  <2>3. measure' \in [Points -> Int]
    BY <2>1, <2>2
  <2>4. mark' = [e \in S |-> IF e[1] = i /\ e[2] \in done THEN -1 ELSE mark[e]]
    BY DEF Close
  <2>5. \A e \in S : mark[e] \in {-1, 1}
    BY <1>1 DEF Types
  <2>6. mark' \in [S -> {-1, 1}]
    BY <2>4, <2>5
  <2>7. QED
    BY <2>3, <2>6
<1>6. \A j \in Points : measure'[j] <= measure[j]
  <2> TAKE j \in Points
  <2>1. measure[j] \in Int
    BY <1>1 DEF Types
  <2>2. measure'[j] = measure[j] \/ measure'[j] = measure[j] - RandMax
    BY <1>4
  <2>3. QED
    BY <1>3, <2>1, <2>2
<1>7. \A j \in Points \ InGraph : cf'[j] > 0 \/ measure'[j] < RandMax
  <2> TAKE j \in Points \ InGraph
  <2>1. measure[j] \in Int /\ measure'[j] \in Int
    BY <1>1, <1>5 DEF Types
  <2>2. cf[j] > 0 => cf'[j] > 0
    BY SameCoarse
  <2>3. QED
    BY <1>1, <1>3, <1>6, <2>1, <2>2 DEF Measures
<1>8. ASSUME NEW j \in FineIn(cf), j \notin new
      PROVE  measure'[j] = RandMax * Cardinality(OpenEdgesTo(j)') + draw[j]
  <2>1. j \in Points /\ measure[j] = RandMax * Cardinality(OpenEdgesTo(j)) + draw[j]
    BY <1>1, <1>8 DEF FineIn, Measures
  <2>2. \A e \in S : mark'[e] = IF e[1] = i /\ e[2] \in done THEN -1 ELSE mark[e]
    BY DEF Close
  <2>3. OpenEdgesTo(j) \in SUBSET Points
    BY <1>1, <2>1, MeasureParts
  <2>4. CASE j \in lowered
    <3>1. i \in OpenEdgesTo(j) /\ j \in done
      BY <1>2, <2>4 DEF Open, OpenEdgesTo, Dependents, Influences
    <3>2. OpenEdgesTo(j)' = OpenEdgesTo(j) \ {i}
      BY <2>2, <3>1 DEF OpenEdgesTo, Dependents
    <3>3. RandMax * Cardinality(OpenEdgesTo(j)') = RandMax * Cardinality(OpenEdgesTo(j)) - RandMax
      BY <2>3, <3>1, <3>2, OneLess
    <3>4. measure'[j] = measure[j] - RandMax
      BY <1>4, <2>1, <2>4
    <3>5. RandMax * Cardinality(OpenEdgesTo(j)) \in Nat /\ draw[j] \in Nat
      BY <1>1, <2>1, MeasureParts
    <3>6. QED
      BY <1>3, <2>1, <3>3, <3>4, <3>5
  <2>5. CASE j \notin lowered
    <3>1. j \in done => ~(mark[<<i, j>>] > 0)
      BY <1>8, <2>5 DEF Open
    <3>2. OpenEdgesTo(j)' = OpenEdgesTo(j)
      BY <2>2, <3>1 DEF OpenEdgesTo, Dependents
    <3>3. QED
      BY <1>4, <2>1, <2>5, <3>2
  <2>6. QED
    BY <2>4, <2>5
<1>9. FineIn(cf') = FineIn(cf) \ new
  BY SameCoarse
<1>10. QED
  BY <1>2, <1>5, <1>7, <1>8, <1>9 DEF Measures


(* The closed edges are those the visit may close, in both directions when *)
(* both rows have been visited.                                            *)
LEMMA RowVisitMarks ==
  ASSUME IInv, NEW i, NEW done, NEW lowered, NEW new, RowVisit(i, done, lowered, new)
  PROVE  ClosedEdges' /\ SymmetricMarks'
<1> USE DEF RowVisit
<1>1. Types /\ ClosedEdges /\ SymmetricMarks
  BY DEF IInv
<1>2. i \in Points /\ i \in InGraph /\ InGraph' = InGraph /\ Seen' = Seen \cup {i}
  BY <1>1, OneFewerToCome, GraphFacts
<1>3. \A a, b \in Points : <<a, b>> \in S =>
        mark'[<<a, b>>] = IF a = i /\ b \in done THEN -1 ELSE mark[<<a, b>>]
  BY DEF Close
<1>4. \A a, b \in Points : <<a, b>> \in S => mark[<<a, b>>] \in {-1, 1}
  BY <1>1 DEF Types
<1>5. \A b \in done : b \in Points /\ Closable(i, b)
  BY <1>2 DEF Influences, Closable, Shared
<1>6. ClosedEdges'
  <2>1. SUFFICES ASSUME NEW a \in Points, NEW b \in Points, <<a, b>> \in S, mark'[<<a, b>>] = -1
                 PROVE  cf'[a] > 0 \/ cf'[b] > 0 \/ Shared(a, b) \cap CoarseIn(cf') # {}
    <3>1. \A a, b : Shared(a, b)' = Shared(a, b)
      BY DEF Shared
    <3>2. QED
      BY <3>1 DEF ClosedEdges, CoarseIn
  <2>2. \A j \in Points : (j \in new => cf'[j] > 0) /\ (cf[j] > 0 => cf'[j] > 0)
    BY SameCoarse
  <2>3. CoarseIn(cf') = CoarseIn(cf) \cup new
    BY SameCoarse
  <2>4. CASE a = i /\ b \in done
    BY <2>1, <2>2, <2>3, <2>4
  <2>5. CASE ~(a = i /\ b \in done)
    <3>1. mark[<<a, b>>] = -1
      BY <1>3, <2>1, <2>5
    <3>2. cf[a] > 0 \/ cf[b] > 0 \/ Shared(a, b) \cap CoarseIn(cf) # {}
      BY <1>1, <2>1, <3>1 DEF ClosedEdges
    <3>3. QED
      BY <2>1, <2>2, <2>3, <3>2
  <2>6. QED
    BY <2>4, <2>5
<1>7. SymmetricMarks'
  <2>1. \A a, b \in Points : Closable(a, b)' <=> Closable(a, b)
    BY SameCoarse
  <2>2. \A a, b \in Points : Closed(a, b) => Closed(a, b)'
    BY <1>3 DEF Closed
  <2>3. SUFFICES ASSUME Symmetric(S)
                 PROVE  /\ \A a, b \in Points : ~Closable(a, b) => SameMarks(a, b)'
                        /\ \A a \in Seen \cup {i}, b \in Points : Closable(a, b) => Closed(a, b)'
                        /\ \A a \in Points \ InGraph, b \in Points : Closed(a, b)' /\ Closed(b, a)'
    <3>1. Seen \cup {i} \subseteq Points
      BY <1>1, <1>2, GraphFacts DEF Seen
    <3>2. QED
      BY <1>2, <2>1, <3>1 DEF SymmetricMarks
  <2>4. ASSUME NEW a \in Points, NEW b \in Points, ~Closable(a, b) PROVE SameMarks(a, b)'
    <3>1. SameMarks(a, b)
      BY <1>1, <2>3, <2>4 DEF SymmetricMarks
    <3>2. ~Closable(b, a)
      BY <2>4 DEF Closable, Shared
    <3>3. ~(a = i /\ b \in done) /\ ~(b = i /\ a \in done)
      BY <1>5, <2>4, <3>2
    <3>4. <<a, b>> \in S => <<b, a>> \in S
      BY <2>3 DEF Symmetric
    <3>5. QED
      BY <1>3, <3>1, <3>3, <3>4 DEF SameMarks
  <2>5. ASSUME NEW a \in Seen \cup {i}, NEW b \in Points, Closable(a, b) PROVE Closed(a, b)'
    <3>1. a \in Points
      BY <1>1, <1>2, GraphFacts DEF Seen
    <3>2. CASE a = i
      <4>1. b \in Influences(S, i) => b \in done \/ mark[<<i, b>>] = -1
        BY <2>5, <3>2
      <4>2. QED
        BY <1>2, <1>3, <2>5, <3>2, <4>1 DEF Closed, Influences
    <3>3. CASE a # i
      <4>1. Closed(a, b)
        BY <1>1, <2>3, <2>5, <3>3 DEF SymmetricMarks
      <4>2. QED
        BY <2>2, <3>1, <4>1
    <3>4. QED
      BY <3>2, <3>3
  <2>6. \A a \in Points \ InGraph, b \in Points : Closed(a, b)' /\ Closed(b, a)'
    BY <1>1, <2>2, <2>3 DEF SymmetricMarks
  <2>7. QED
    BY <2>4, <2>5, <2>6
<1>8. QED
  BY <1>6, <1>7

(* All conjuncts but the one on the counter, which the two visits change   *)
(* differently.                                                            *)
LEMMA RowVisitKeeps ==
  ASSUME IInv, NEW i, NEW done, NEW lowered, NEW new, RowVisit(i, done, lowered, new),
         CountedOnce'
  PROVE  IInv'
<1> USE DEF RowVisit
<1>1. Types /\ NoneTwice /\ Markers /\ NoneTakenForCoarse
  BY DEF IInv
<1>2. i \in Points /\ i \in InGraph /\ InGraph' = InGraph
        /\ ToCome' = ToCome \ {i} /\ Seen' = Seen \cup {i} /\ i \in ToCome
  BY <1>1, OneFewerToCome, GraphFacts
<1>3. \A j \in Points : cf'[j] = IF j \in new THEN 1 ELSE cf[j]
  OBVIOUS
<1>4. Types'
  <2>1. cf' \in [Points -> Int]
    BY <1>1 DEF Types
  <2>2. measure' \in [Points -> Int] /\ mark' \in [S -> {-1, 1}]
    BY RowVisitMeasures
  <2>3. k' \in Nat /\ 1 <= k' /\ k' <= Len(graph) + 1
    BY <1>1, GraphFacts DEF Types
  <2>4. QED
    BY <1>1, <2>1, <2>2, <2>3 DEF Types
<1>5. NoneTwice'
  BY <1>1 DEF NoneTwice
<1>6. Markers'
  <2>1. \A j \in Points : cf'[j] = 1 \/ cf'[j] < 0
    BY <1>1, <1>3 DEF Markers
  <2>2. \A j \in ToCome \ {i} : cf'[j] \in {1, ff, ff - 1}
    BY <1>1, <1>3, GraphFacts DEF Markers
  <2>3. \A j \in Seen : cf'[j] \in {1, ff - 1}
    BY <1>1, <1>3, GraphFacts DEF Markers, Seen
  <2>4. cf'[i] \in {1, ff - 1}
    <3>1. cf[i] \in {1, ff, ff - 1}
      BY <1>1, <1>2 DEF Markers
    <3>2. QED
      BY <1>2, <1>3, <3>1 DEF IsCoarse
  <2>5. QED
    BY <1>2, <2>1, <2>2, <2>3, <2>4 DEF Markers
<1>7. NoneTakenForCoarse'
  <2>1. SUFFICES ASSUME InnerDraws, NEW p \in InGraph, NEW j \in Influences(S, p), j \notin InGraph
                 PROVE  cf'[j] # ff
    BY <1>2 DEF NoneTakenForCoarse, InnerDraws
  <2>2. cf[j] # ff /\ j \in Points
    BY <1>1, <2>1 DEF NoneTakenForCoarse, Influences
  <2>3. QED
    BY <1>1, <1>3, <2>2 DEF Types
<1>8. QED
  BY <1>4, <1>5, <1>6, <1>7, RowVisitMeasures, RowVisitMarks
     DEF IInv, FineInterpolates, ResultIntact


(* A coarse point is counted when its row is visited, and not again.       *)
LEMMA UpdateCoarseKeeps ==
  ASSUME IInv, UpdateCoarse PROVE IInv'
<1> DEFINE i == graph[k]
<1>1. Types /\ Markers /\ CountedOnce
  BY DEF IInv
<1>2. k \in 1 .. Len(graph) /\ i \in Points
  BY <1>1, GraphFacts DEF UpdateCoarse, Types
<1>3. RowVisit(i, Open(i), Open(i), {i})
  <2>1. cf' = [j \in Points |-> IF j \in {i} THEN 1 ELSE cf[j]]
    BY <1>1 DEF UpdateCoarse, Types
  <2>2. \A j \in Influences(S, i) : j \in Open(i) \/ mark[<<i, j>>] = -1
    BY <1>1 DEF Open, Influences, Types
  <2>3. QED
    BY <1>2, <2>1, <2>2 DEF RowVisit, UpdateCoarse, matrix, Open
<1> HIDE DEF i
<1>4. ToCome' = ToCome \ {i} /\ i \in ToCome /\ CoarseIn(cf') = CoarseIn(cf) \cup {i}
  BY <1>3, OneFewerToCome, SameCoarse
<1>5. Counted' = Counted \cup {i} /\ i \notin Counted
  BY <1>4 DEF Counted, CoarseIn
<1>6. IsFiniteSet(Counted) /\ Cardinality(Counted) \in Nat
  BY PointsFinite DEF Counted, CoarseIn
<1>7. Cardinality(Counted') = Cardinality(Counted) + 1
  BY <1>5, <1>6, FS_AddElement
<1>8. ncoarse' = ncoarse + 1 /\ ncoarse \in Nat /\ draw' = draw
  BY <1>1 DEF UpdateCoarse, matrix, Types
<1>9. CountedOnce'
  BY <1>1, <1>6, <1>7, <1>8 DEF CountedOnce, InnerDraws
<1>10. QED
  BY <1>3, <1>9, RowVisitKeeps

(* Another point gives their marker to coarse points, which are counted in *)
(* their turn: none of them has left the graph without it.                 *)
LEMMA UpdateOtherKeeps ==
  ASSUME IInv, UpdateOther PROVE IInv'
<1> DEFINE i == graph[k]
           C == CoarseInfluences(i)
<1>1. Types /\ Markers /\ NoneTakenForCoarse /\ CountedOnce
  BY DEF IInv
<1>2. k \in 1 .. Len(graph) /\ i \in Points /\ i \in InGraph /\ ~IsCoarse(i)
  BY <1>1, GraphFacts DEF UpdateOther, Types
<1>3. RowVisit(i, C \cup ShareCoarse(i), ShareCoarse(i), C)
  <2>1. C \subseteq Influences(S, i) /\ ShareCoarse(i) \subseteq Open(i)
        /\ Open(i) \subseteq Influences(S, i)
    BY DEF CoarseInfluences, ShareCoarse, Open
  <2>2. \A j \in C : j \in Points /\ IsCoarse(j)
    BY DEF CoarseInfluences, Influences
  <2>3. \A j \in ShareCoarse(i) : Shared(i, j) \cap C # {}
    BY DEF ShareCoarse, Shared, CoarseInfluences
  <2>4. ASSUME NEW j \in Influences(S, i), Closable(i, j)
        PROVE  j \in C \cup ShareCoarse(i) \/ mark[<<i, j>>] = -1
    <3>1. mark[<<i, j>>] \in {-1, 1}
      BY <1>1 DEF Influences, Types
    <3>2. CASE IsCoarse(j)
      BY <2>4, <3>2 DEF CoarseInfluences
    <3>3. CASE ~IsCoarse(j) /\ mark[<<i, j>>] = 1
      <4>1. PICK c \in Shared(i, j) : IsCoarse(c)
        BY <1>2, <2>4, <3>3 DEF Closable
      <4>2. c \in Influences(S, j) \cap C
        BY <4>1 DEF Shared, CoarseInfluences
      <4>3. j \in Open(i) \ C
        BY <2>4, <3>3 DEF Open, CoarseInfluences
      <4>4. QED
        BY <4>2, <4>3 DEF ShareCoarse
    <3>4. QED
      BY <3>1, <3>2, <3>3
  <2>5. QED
    BY <1>2, <2>1, <2>2, <2>3, <2>4 DEF RowVisit, UpdateOther, matrix
<1> HIDE DEF i, C
<1>4. ToCome' = ToCome \ {i} /\ Seen' = Seen \cup {i} /\ InGraph' = InGraph
        /\ CoarseIn(cf') = CoarseIn(cf) \cup C
  BY <1>3, OneFewerToCome, SameCoarse
<1>5. i \notin CoarseIn(cf') /\ i \notin C
  BY <1>2 DEF CoarseIn, IsCoarse, C, CoarseInfluences, UpdateOther, i
<1>6. Counted' = Counted \cup (C \ ToCome)
  BY <1>4, <1>5 DEF Counted
<1>7. Cardinality(Counted) <= Cardinality(Counted')
  <2>1. Counted' \in SUBSET Points
    BY DEF Counted, CoarseIn
  <2>2. Counted \in SUBSET Counted'
    BY <1>6
  <2>3. QED
    BY <2>1, <2>2, PointsFinite, FS_Subset
<1>8. ASSUME InnerDraws PROVE Counted' = Counted
  <2>1. SUFFICES ASSUME NEW j \in C, j \notin ToCome PROVE j \in Counted
    BY <1>6
  <2>2. j \in Points /\ j \in Influences(S, i) /\ (cf[j] = ff \/ cf[j] > 0)
    BY DEF C, CoarseInfluences, Influences, IsCoarse
  <2>3. cf[j] # ff
    <3>1. CASE j \in InGraph
      <4>1. cf[j] \in {1, ff - 1} /\ ff \in Int /\ ff <= -2
        BY <1>1, <2>1, <3>1 DEF Markers, Seen, Types, UpdateOther
      <4>2. QED
        BY <4>1
    <3>2. CASE j \notin InGraph
      BY <1>1, <1>2, <1>8, <2>2, <3>2 DEF NoneTakenForCoarse, UpdateOther
    <3>3. QED
      BY <3>1, <3>2
  <2>4. QED
    BY <2>1, <2>2, <2>3 DEF Counted, CoarseIn
<1>9. ncoarse' = ncoarse /\ ncoarse \in Nat /\ draw' = draw
  BY <1>1 DEF UpdateOther, matrix, Types
<1>10. Cardinality(Counted) \in Nat /\ Cardinality(Counted') \in Nat
  BY PointsFinite DEF Counted, CoarseIn
<1>11. CountedOnce'
  BY <1>1, <1>7, <1>8, <1>9, <1>10 DEF CountedOnce, InnerDraws
<1>12. QED
  BY <1>3, <1>11, RowVisitKeeps
-----------------------------------------------------------------------------
LEMMA NextIInv == IInv /\ [Next]_vars => IInv'
<1> SUFFICES ASSUME IInv, [Next]_vars PROVE IInv'
  OBVIOUS
<1>1. CASE BuildIndependentSet
  BY <1>1, BuildIndependentSetKeeps
<1>2. CASE UpdateCoarse
  BY <1>2, UpdateCoarseKeeps
<1>3. CASE UpdateOther
  BY <1>3, UpdateOtherKeeps
<1>4. CASE EndUpdate
  BY <1>4, EndUpdateKeeps
<1>5. CASE Prune
  BY <1>5, PruneKeeps
<1>6. CASE EndPass
  BY <1>6, EndPassKeeps
<1>7. CASE Restore
  BY <1>7, RestoreKeeps
<1>8. CASE UNCHANGED vars
  <2> USE <1>8 DEF vars
  <2>1. InGraph' = InGraph /\ ToCome' = ToCome
    BY DEF InGraph, ToCome
  <2>2. \A i \in Points : Leaves(i)' = Leaves(i) /\ IsCoarse(i)' = IsCoarse(i)
                          /\ OpenEdgesTo(i)' = OpenEdgesTo(i)
    BY DEF Leaves, IsCoarse, OpenEdgesTo
  <2>3. Types' /\ NoneTwice' /\ Measures' /\ NoneTakenForCoarse' /\ CountedOnce'
    BY <2>1, <2>2 DEF IInv, Types, NoneTwice, Measures, FineIn, NoneTakenForCoarse,
       CountedOnce, Counted, InnerDraws
  <2>4. Markers'
    BY <2>1, <2>2 DEF IInv, Markers, Seen, Leaves
  <2>5. ClosedEdges'
    BY DEF IInv, ClosedEdges, Shared
  <2>6. SymmetricMarks'
    BY <2>1, <2>2 DEF IInv, SymmetricMarks, SameMarks, Closed, Closable, Shared, IsCoarse, Seen
  <2>7. FineInterpolates' /\ ResultIntact'
    BY DEF IInv, FineInterpolates, ResultIntact, InnerDraws
  <2>8. QED
    BY <2>3, <2>4, <2>5, <2>6, <2>7 DEF IInv
<1>9. QED
  BY <1>1, <1>2, <1>3, <1>4, <1>5, <1>6, <1>7, <1>8 DEF Next

LEMMA Invariance == Spec => []IInv
BY InitIInv, NextIInv, PTL DEF Spec

(* A point outside the graph is decided, and every other measure is the    *)
(* number of open edges, whichever end closed the others.                  *)
THEOREM MeasuresAreCounts == Spec => []MeasureCountsOpenEdges
BY Invariance, IInvType, PTL

(* What interpolation needs of the splitting, for every strength relation  *)
(* and every outcome of rand ().                                           *)
THEOREM FinePointsInterpolate == Spec => []FineInterpolates
<1>1. IInv => FineInterpolates
  BY DEF IInv
<1>2. QED
  BY <1>1, Invariance, PTL

(* The marks come back as they were, and the number returned is that of    *)
(* the coarse points when no draw is at an end of its range.               *)
THEOREM ResultIsIntact == Spec => []ResultIntact
<1>1. IInv => ResultIntact
  BY DEF IInv
<1>2. QED
  BY <1>1, Invariance, PTL
=============================================================================
