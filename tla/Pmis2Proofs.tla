---------------------------- MODULE Pmis2Proofs ----------------------------
(***************************************************************************)
(* Theorems about Pmis2, the default coarsening, for every matrix size,     *)
(* every strength relation and every outcome of rand ().                    *)
(*                                                                         *)
(* A pass pushes points on the word of markers that it changes itself, so   *)
(* the invariant says what the markers of a pass mean at each of its        *)
(* stages: which of the points called coarse are coarse already, and that   *)
(* no point left in the graph behind the visits depends on one.             *)
(***************************************************************************)
EXTENDS Pmis2, FiniteSetTheorems, TLAPS

(* Only a point nobody depends on has a measure below one.                 *)
GraphMeasures == \A i \in graph : measure[i] >= RandMax

(* A point that was not pushed is still to be visited.                     *)
ToVisit == pc = "visit" => \A i \in graph : cf[i] = ff => i \in todo

(* Before a pass a fine point depends on a point that is coarse already.   *)
FineHasCoarse ==
  \A i \in FineIn(cf) \cap Decided :
    Dependents(S, i) # {} =>
      \E j \in Influences(S, i) : cf[j] > 0 \/ (pc = "visit" /\ cf[j] = ff)

(* What is left in the graph depends on no coarse point.                   *)
LeftIsFree ==
  \A i \in graph : \A j \in Influences(S, i) :
    /\ pc = "mark" => ~(cf[j] > 0)
    /\ pc = "visit" /\ i \notin todo => ~IsCoarse(j)

(* The coarse points of a pass tie with the coarse ones they depend on.    *)
NewTies ==
  Symmetric(S) /\ pc = "visit" =>
    \A i \in graph : \A j \in Influences(S, i) :
      cf[i] = ff /\ IsCoarse(j) => measure[i] = measure[j]

IInv ==
  /\ TypeOK
  /\ GraphMeasures
  /\ ToVisit
  /\ FineHasCoarse
  /\ LeftIsFree
  /\ NewTies
  /\ IndependentUpToTies

(* A point somebody depends on has a measure of at least one.              *)
LEMMA MeasureOfInfluence ==
  ASSUME NEW R \in Relations, NEW draw \in Draws, NEW i \in Points
  PROVE  /\ Measure(R, draw)[i] \in Nat
         /\ Dependents(R, i) # {} => Measure(R, draw)[i] >= RandMax
<1>1. IsFiniteSet(Points)
  BY FS_Interval, GraphAssumption DEF Points
<1>2. Dependents(R, i) \subseteq Points
  BY DEF Dependents
<1>3. IsFiniteSet(Dependents(R, i))
  BY <1>1, <1>2, FS_Subset
<1>4. Cardinality(Dependents(R, i)) \in Nat
  BY <1>3, FS_CardinalityType
<1>5. Dependents(R, i) # {} => Cardinality(Dependents(R, i)) >= 1
  BY <1>3, <1>4, FS_EmptySet
<1>6. draw[i] \in Nat
  BY GraphAssumption
<1> DEFINE c == Cardinality(Dependents(R, i))
<1>7. c \in Nat /\ (Dependents(R, i) # {} => c >= 1)
  BY <1>4, <1>5
<1> HIDE DEF c
<1>8. RandMax * c \in Nat /\ (c >= 1 => RandMax * c >= RandMax)
  BY <1>7, GraphAssumption
<1>9. Measure(R, draw)[i] = RandMax * c + draw[i]
  BY DEF Measure, Count, c
<1> QED
  BY <1>6, <1>7, <1>8, <1>9, GraphAssumption

LEMMA InitInv == Init => IInv
<1> SUFFICES ASSUME Init PROVE IInv
  OBVIOUS
<1>1. PICK draw \in Draws : measure = Measure(S, draw)
  BY DEF Init
<1>2. S \in Relations /\ pc = "mark" /\ ff = -2 /\ ncoarse = 0 /\ todo = {}
      /\ graph = { i \in Points : Dependents(S, i) # {} }
      /\ cf = [i \in Points |-> IF i \in graph THEN -2 ELSE -1]
  BY DEF Init, Fine
<1>3. measure \in [Points -> Nat]
  BY <1>1, <1>2, MeasureOfInfluence DEF Measure
<1>4. TypeOK
  BY <1>2, <1>3 DEF TypeOK, Decided, Fine
<1>5. GraphMeasures
  BY <1>1, <1>2, MeasureOfInfluence DEF GraphMeasures
<1>6. ToVisit /\ NewTies
  BY <1>2 DEF ToVisit, NewTies
<1>7. FineHasCoarse
  BY <1>2 DEF FineHasCoarse, Decided, FineIn
<1>8. \A j \in Points : ~(cf[j] > 0)
  BY <1>2
<1>9. LeftIsFree /\ IndependentUpToTies
  BY <1>2, <1>8 DEF LeftIsFree, IndependentUpToTies, CoarseIn, Influences
<1> QED
  BY <1>4, <1>5, <1>6, <1>7, <1>9 DEF IInv

(* build_independent_set leaves two points of the graph one of which        *)
(* depends on the other only with equal measures, if the strength is        *)
(* symmetric.                                                              *)
LEMMA BuildIndependentSetInv ==
  ASSUME IInv, BuildIndependentSet
  PROVE  IInv'
<1> USE DEF BuildIndependentSet
<1>1. /\ pc = "mark" /\ pc' = "visit" /\ todo' = graph
      /\ cf' = [i \in Points |-> IF Pushed(i) THEN ff - 1 ELSE cf[i]]
      /\ UNCHANGED <<S, measure, ff, graph, ncoarse>>
  BY DEF matrix
<1>2. /\ ff \in Int /\ ff < -1 /\ cf \in [Points -> Int] /\ graph \subseteq Points
      /\ \A i \in graph : cf[i] = ff
      /\ \A i \in Points \ graph : cf[i] > 0 \/ cf[i] = -1
  BY <1>1 DEF IInv, TypeOK, Decided, Fine
<1>3. \A i \in Points \ graph : cf'[i] = cf[i]
  BY <1>1, <1>2 DEF Pushed
<1>4. \A i \in graph : cf'[i] = ff \/ cf'[i] = ff - 1
  BY <1>1, <1>2
<1>5. cf' \in [Points -> Int]
  BY <1>1, <1>2
<1>6. TypeOK'
  BY <1>1, <1>2, <1>3, <1>4, <1>5 DEF IInv, TypeOK, Decided, Fine
<1>7. GraphMeasures' /\ ToVisit'
  BY <1>1 DEF IInv, GraphMeasures, ToVisit
<1>8. \A i \in Points : cf'[i] > 0 <=> cf[i] > 0
  BY <1>2, <1>3, <1>4
<1>9. CoarseIn(cf)' = CoarseIn(cf)
  BY <1>8 DEF CoarseIn
<1>10. FineHasCoarse'
  <2> SUFFICES ASSUME NEW i \in FineIn(cf)' \cap Decided', Dependents(S, i) # {}
               PROVE  \E j \in Influences(S, i) : cf'[j] > 0
    BY <1>1 DEF FineHasCoarse, Dependents, Influences
  <2>1. i \in FineIn(cf) \cap Decided
    BY <1>1, <1>3 DEF FineIn, Decided
  <2>2. PICK j \in Influences(S, i) : cf[j] > 0
    BY <1>1, <2>1 DEF IInv, FineHasCoarse
  <2> QED
    BY <2>2, <1>8 DEF Influences
<1>11. LeftIsFree'
  BY <1>1 DEF LeftIsFree
<1>12. NewTies'
  <2> SUFFICES ASSUME Symmetric(S), NEW i \in graph, NEW j \in Influences(S, i),
                      cf'[i] = ff, cf'[j] > 0 \/ cf'[j] = ff
               PROVE  measure[i] = measure[j]
    BY <1>1 DEF NewTies, IsCoarse, Symmetric, Influences
  <2>1. i \in Points /\ j \in Points /\ <<i, j>> \in S /\ <<j, i>> \in S
    BY <1>2 DEF Influences, Symmetric
  <2>2. ~(cf'[j] > 0)
    BY <1>1, <1>8, <2>1 DEF IInv, LeftIsFree
  <2>3. j \in graph /\ cf'[j] = ff
    BY <1>2, <1>3, <2>1, <2>2
  <2>4. ~Pushed(i) /\ ~Pushed(j)
    BY <1>1, <1>2, <2>1, <2>3
  <2>5. /\ Pushes(j) => ~(measure[j] > measure[i])
        /\ Pushes(i) => ~(measure[i] > measure[j])
    BY <1>2, <2>1, <2>3, <2>4 DEF Pushed, Influences
  <2>6. measure[i] \in Nat /\ measure[j] \in Nat /\ RandMax \in Nat
        /\ measure[i] >= RandMax /\ measure[j] >= RandMax
    BY <2>1, <2>3, GraphAssumption DEF IInv, GraphMeasures, TypeOK
  <2> QED
    BY <2>5, <2>6 DEF Pushes
<1>13. IndependentUpToTies'
  BY <1>1, <1>9 DEF IInv, IndependentUpToTies, Symmetric
<1> QED
  BY <1>6, <1>7, <1>10, <1>11, <1>12, <1>13 DEF IInv

(* What a visit changes: the point alone, and never which points count as  *)
(* coarse.                                                                 *)
LEMMA VisitMarks ==
  ASSUME IInv, NEW i \in todo, Visit(i)
  PROVE  /\ i \in graph /\ i \in Points
         /\ pc = "visit" /\ UNCHANGED <<pc, S, measure, ff>>
         /\ todo' = todo \ {i}
         /\ cf' \in [Points -> Int]
         /\ \A j \in Points : j # i => cf'[j] = cf[j]
         /\ \A j \in Points : IsCoarse(j)' <=> IsCoarse(j)
         /\ \/ /\ cf[i] = ff /\ cf'[i] > 0
               /\ ncoarse \in Nat /\ ncoarse' = ncoarse + 1
               /\ graph' = graph \ {i}
            \/ /\ cf[i] = ff - 1 /\ cf'[i] = -1
               /\ \E j \in Influences(S, i) : IsCoarse(j)
               /\ ncoarse' = ncoarse /\ graph' = graph \ {i}
            \/ /\ cf[i] = ff - 1 /\ UNCHANGED <<cf, graph, ncoarse>>
               /\ \A j \in Influences(S, i) : ~IsCoarse(j)
<1>1. /\ pc = "visit" /\ todo' = todo \ {i}
      /\ UNCHANGED <<pc, S, measure, ff>>
  BY DEF Visit, matrix
<1>2. /\ i \in graph /\ i \in Points
      /\ cf \in [Points -> Int] /\ ff \in Int /\ ff < -1 /\ ncoarse \in Nat
      /\ cf[i] = ff \/ cf[i] = ff - 1
  BY <1>1 DEF IInv, TypeOK, Fine
<1>3. CASE /\ cf[i] = ff
           /\ ncoarse' = ncoarse + 1
           /\ cf' = [cf EXCEPT ![i] = ncoarse + 1]
           /\ graph' = graph \ {i}
  <2>1. cf' \in [Points -> Int] /\ cf'[i] = ncoarse + 1
        /\ \A j \in Points : j # i => cf'[j] = cf[j]
    BY <1>2, <1>3
  <2>2. cf'[i] > 0
    BY <1>2, <2>1
  <2>3. \A j \in Points : IsCoarse(j)' <=> IsCoarse(j)
    <3> SUFFICES ASSUME NEW j \in Points PROVE IsCoarse(j)' <=> IsCoarse(j)
      OBVIOUS
    <3>1. CASE j = i
      BY <3>1, <1>3, <2>2 DEF IsCoarse
    <3>2. CASE j # i
      BY <3>2, <1>1, <2>1 DEF IsCoarse
    <3> QED
      BY <3>1, <3>2
  <2> QED
    BY <1>1, <1>2, <1>3, <2>1, <2>2, <2>3
<1>4. CASE /\ cf[i] # ff
           /\ \E j \in Influences(S, i) : IsCoarse(j)
           /\ cf' = [cf EXCEPT ![i] = Fine]
           /\ graph' = graph \ {i}
           /\ ncoarse' = ncoarse
  <2>1. cf' \in [Points -> Int] /\ cf'[i] = -1 /\ cf[i] = ff - 1
        /\ \A j \in Points : j # i => cf'[j] = cf[j]
    BY <1>2, <1>4 DEF Fine
  <2>2. \A j \in Points : IsCoarse(j)' <=> IsCoarse(j)
    <3> SUFFICES ASSUME NEW j \in Points PROVE IsCoarse(j)' <=> IsCoarse(j)
      OBVIOUS
    <3>1. CASE j = i
      BY <3>1, <1>1, <1>2, <2>1 DEF IsCoarse
    <3>2. CASE j # i
      BY <3>2, <1>1, <2>1 DEF IsCoarse
    <3> QED
      BY <3>1, <3>2
  <2> QED
    BY <1>1, <1>2, <1>4, <2>1, <2>2
<1>5. CASE /\ cf[i] # ff
           /\ \A j \in Influences(S, i) : ~IsCoarse(j)
           /\ UNCHANGED <<cf, graph, ncoarse>>
  <2>1. \A j \in Points : IsCoarse(j)' <=> IsCoarse(j)
    BY <1>1, <1>5 DEF IsCoarse
  <2> QED
    BY <1>1, <1>2, <1>5, <2>1
<1> QED
  BY <1>3, <1>4, <1>5 DEF Visit

LEMMA VisitInv ==
  ASSUME IInv, NEW i \in todo, Visit(i)
  PROVE  IInv'
<1>1. /\ i \in graph /\ i \in Points
      /\ pc = "visit" /\ UNCHANGED <<pc, S, measure, ff>>
      /\ todo' = todo \ {i}
      /\ cf' \in [Points -> Int]
      /\ \A j \in Points : j # i => cf'[j] = cf[j]
      /\ \A j \in Points : IsCoarse(j)' <=> IsCoarse(j)
      /\ graph' \subseteq graph
  BY VisitMarks
<1>2. /\ ff \in Int /\ ff < -1 /\ graph \subseteq Points /\ todo \subseteq graph
      /\ \A j \in graph : cf[j] = ff \/ cf[j] = ff - 1
      /\ \A j \in Points \ graph : cf[j] > 0 \/ cf[j] = -1
  BY <1>1 DEF IInv, TypeOK, Decided, Fine
<1>3. /\ \A j \in graph' : cf'[j] = cf[j]
      /\ graph' = graph \/ graph' = graph \ {i}
  BY <1>1, <1>2, VisitMarks
<1>4. TypeOK'
  <2>1. todo' \subseteq graph'
    BY <1>1, <1>2, <1>3
  <2>2. \A j \in Points \ graph' : cf'[j] > 0 \/ cf'[j] = -1
    <3> SUFFICES ASSUME NEW j \in Points \ graph' PROVE cf'[j] > 0 \/ cf'[j] = -1
      OBVIOUS
    <3>1. CASE j = i
      BY <3>1, <1>1, VisitMarks
    <3>2. CASE j # i
      BY <3>2, <1>1, <1>2, <1>3
    <3> QED
      BY <3>1, <3>2
  <2>3. ncoarse' \in Nat
    BY VisitMarks DEF IInv, TypeOK
  <2> QED
    BY <1>1, <1>2, <1>3, <2>1, <2>2, <2>3 DEF IInv, TypeOK, Decided, Fine
<1>5. GraphMeasures'
  BY <1>1 DEF IInv, GraphMeasures
<1>6. ToVisit'
  <2> SUFFICES ASSUME NEW j \in graph', cf'[j] = ff PROVE j \in todo \ {i}
    BY <1>1 DEF ToVisit
  <2>1. j \in todo
    BY <1>1, <1>3 DEF IInv, ToVisit
  <2>2. j # i
    BY <1>2, <1>3, VisitMarks
  <2> QED
    BY <2>1, <2>2
<1>7. FineHasCoarse'
  <2> SUFFICES ASSUME NEW f \in FineIn(cf)' \cap Decided', Dependents(S, f) # {}
               PROVE  \E j \in Influences(S, f) : IsCoarse(j)'
    BY <1>1 DEF FineHasCoarse, IsCoarse, Dependents, Influences
  <2>1. \E j \in Influences(S, f) : IsCoarse(j)
    <3>1. CASE f = i
      BY <3>1, <1>1, <1>2, VisitMarks DEF FineIn, Decided
    <3>2. CASE f # i
      <4>1. f \in FineIn(cf) \cap Decided
        BY <3>2, <1>1, <1>3 DEF FineIn, Decided
      <4> QED
        BY <4>1, <1>1 DEF IInv, FineHasCoarse, IsCoarse
    <3> QED
      BY <3>1, <3>2
  <2> QED
    BY <2>1, <1>1 DEF Influences
<1>8. LeftIsFree'
  <2> SUFFICES ASSUME NEW g \in graph', NEW j \in Influences(S, g), g \notin todo \ {i}
               PROVE  ~IsCoarse(j)'
    BY <1>1 DEF LeftIsFree, Influences
  <2>1. j \in Points /\ g \in graph
    BY <1>1 DEF Influences
  <2>2. ~IsCoarse(j)
    <3>1. CASE g = i
      BY <3>1, <1>3, VisitMarks
    <3>2. CASE g # i
      BY <3>2, <2>1, <1>1 DEF IInv, LeftIsFree
    <3> QED
      BY <3>1, <3>2
  <2> QED
    BY <1>1, <2>1, <2>2
<1>9. NewTies'
  <2> SUFFICES ASSUME Symmetric(S), NEW g \in graph', NEW j \in Influences(S, g),
                      cf'[g] = ff, IsCoarse(j)'
               PROVE  measure[g] = measure[j]
    BY <1>1 DEF NewTies, Symmetric, Influences
  <2>1. g \in graph /\ cf[g] = ff /\ IsCoarse(j)
    BY <1>1, <1>3 DEF Influences
  <2> QED
    BY <2>1, <1>1 DEF IInv, NewTies
<1>10. IndependentUpToTies'
  <2> SUFFICES ASSUME Symmetric(S), NEW c \in CoarseIn(cf)', NEW d \in CoarseIn(cf)',
                      <<c, d>> \in S
               PROVE  measure[c] = measure[d]
    BY <1>1 DEF IndependentUpToTies, Symmetric
  <2>1. /\ c \in Points /\ d \in Points /\ <<d, c>> \in S
        /\ IsCoarse(c) /\ IsCoarse(d)
        /\ c # i => c \in CoarseIn(cf)
        /\ d # i => d \in CoarseIn(cf)
    BY <1>1 DEF CoarseIn, IsCoarse, Symmetric
  <2>2. c = i \/ d = i => cf[i] = ff
    BY <1>1, <1>2, VisitMarks DEF CoarseIn
  <2>3. CASE c = i
    BY <2>1, <2>2, <2>3, <1>1 DEF IInv, NewTies, Influences
  <2>4. CASE d = i
    BY <2>1, <2>2, <2>4, <1>1 DEF IInv, NewTies, Influences
  <2>5. CASE c # i /\ d # i
    BY <2>1, <2>5 DEF IInv, IndependentUpToTies
  <2> QED
    BY <2>3, <2>4, <2>5
<1> QED
  BY <1>4, <1>5, <1>6, <1>7, <1>8, <1>9, <1>10 DEF IInv

(* Behind the last visit what is left waits with the marker of the next    *)
(* pass.                                                                   *)
LEMMA EndPassInv ==
  ASSUME IInv, EndPass
  PROVE  IInv'
<1>1. /\ pc = "visit" /\ pc' = "mark" /\ todo = {} /\ ff' = ff - 1
      /\ UNCHANGED <<S, measure, cf, graph, todo, ncoarse>>
  BY DEF EndPass, NextMarker, matrix
<1>2. \A i \in graph : cf[i] = ff - 1
  BY <1>1 DEF IInv, TypeOK, ToVisit
<1>3. \A j \in Points \ graph : cf[j] > 0 \/ cf[j] = -1
  BY DEF IInv, TypeOK, Decided, Fine
<1>4. TypeOK'
  BY <1>1, <1>2 DEF IInv, TypeOK, Decided, Fine
<1>5. GraphMeasures' /\ ToVisit' /\ NewTies'
  BY <1>1 DEF IInv, GraphMeasures, ToVisit, NewTies
<1>6. ff \in Int /\ ff < -1
  BY DEF IInv, TypeOK, Fine
<1>7. \A j \in Points : IsCoarse(j) <=> cf[j] > 0
  <2> SUFFICES ASSUME NEW j \in Points PROVE cf[j] = ff => cf[j] > 0
    BY DEF IsCoarse
  <2>1. CASE j \in graph
    BY <2>1, <1>2, <1>6
  <2>2. CASE j \notin graph
    BY <2>2, <1>3, <1>6
  <2> QED
    BY <2>1, <2>2
<1>8. FineHasCoarse'
  <2> SUFFICES ASSUME NEW f \in FineIn(cf) \cap Decided, Dependents(S, f) # {}
               PROVE  \E j \in Influences(S, f) : cf[j] > 0
    BY <1>1 DEF FineHasCoarse, FineIn, Decided, Dependents, Influences
  <2>1. PICK j \in Influences(S, f) : IsCoarse(j)
    BY DEF IInv, FineHasCoarse, IsCoarse
  <2> QED
    BY <2>1, <1>7 DEF Influences
<1>9. LeftIsFree'
  <2> SUFFICES ASSUME NEW g \in graph, NEW j \in Influences(S, g)
               PROVE  ~(cf[j] > 0)
    BY <1>1 DEF LeftIsFree, Influences
  <2> QED
    BY <1>1, <1>7 DEF IInv, LeftIsFree, Influences
<1>10. IndependentUpToTies'
  BY <1>1 DEF IInv, IndependentUpToTies, CoarseIn, Symmetric
<1> QED
  BY <1>4, <1>5, <1>8, <1>9, <1>10 DEF IInv

LEMMA FinishInv ==
  ASSUME IInv, Finish
  PROVE  IInv'
<1>1. /\ pc = "mark" /\ pc' = "done"
      /\ UNCHANGED <<S, measure, cf, ff, graph, todo, ncoarse>>
  BY DEF Finish, matrix
<1>2. TypeOK' /\ GraphMeasures' /\ ToVisit' /\ LeftIsFree' /\ NewTies'
  BY <1>1 DEF IInv, TypeOK, Decided, GraphMeasures, ToVisit, LeftIsFree, NewTies
<1>3. FineHasCoarse'
  BY <1>1 DEF IInv, FineHasCoarse, FineIn, Decided, Dependents, Influences
<1>4. IndependentUpToTies'
  BY <1>1 DEF IInv, IndependentUpToTies, CoarseIn, Symmetric
<1> QED
  BY <1>2, <1>3, <1>4 DEF IInv

LEMMA NextInv == IInv /\ [Next]_vars => IInv'
<1> SUFFICES ASSUME IInv, [Next]_vars PROVE IInv'
  OBVIOUS
<1>1. CASE BuildIndependentSet
  BY <1>1, BuildIndependentSetInv
<1>2. CASE \E i \in todo : Visit(i)
  BY <1>2, VisitInv
<1>3. CASE EndPass
  BY <1>3, EndPassInv
<1>4. CASE Finish
  BY <1>4, FinishInv
<1>5. CASE UNCHANGED vars
  <2>1. UNCHANGED <<pc, S, measure, cf, ff, graph, todo, ncoarse>>
    BY <1>5 DEF vars
  <2>2. (TypeOK /\ GraphMeasures /\ ToVisit)'
    BY <2>1 DEF IInv, TypeOK, Decided, GraphMeasures, ToVisit
  <2>3. FineHasCoarse'
    BY <2>1 DEF IInv, FineHasCoarse, FineIn, Decided, Dependents, Influences
  <2>4. (LeftIsFree /\ NewTies)'
    BY <2>1 DEF IInv, LeftIsFree, NewTies, Influences, IsCoarse, Symmetric
  <2>5. IndependentUpToTies'
    BY <2>1 DEF IInv, IndependentUpToTies, CoarseIn, Symmetric
  <2> QED
    BY <2>2, <2>3, <2>4, <2>5 DEF IInv
<1> QED
  BY <1>1, <1>2, <1>3, <1>4, <1>5 DEF Next

THEOREM Invariance == Spec => []IInv
BY InitInv, NextInv, PTL DEF Spec

(* The markers of pmis2_coarse::build always tell decided, pushed and      *)
(* remaining points apart, although the marker changes with every pass.    *)
THEOREM Pmis2TypeCorrect == Spec => []TypeOK
<1>1. IInv => TypeOK
  BY DEF IInv
<1> QED
  BY <1>1, Invariance, PTL

(* Every fine point somebody depends on depends on a coarse point,         *)
(* whatever the strength, so that it can be interpolated.                  *)
THEOREM Pmis2FineDependsOnCoarse == Spec => []FineDependsOnCoarse
<1>1. IInv => FineDependsOnCoarse
  BY DEF IInv, FineHasCoarse, FineDependsOnCoarse, IsCoarse
<1> QED
  BY <1>1, Invariance, PTL

(* With a symmetric strength neighbours are both coarse only on a tie, in  *)
(* whichever pass they became so.                                          *)
THEOREM Pmis2IndependentUpToTies == Spec => []IndependentUpToTies
<1>1. IInv => IndependentUpToTies
  BY DEF IInv
<1> QED
  BY <1>1, Invariance, PTL

(* A step of build decides at most one point, and counts it when it is     *)
(* coarse.                                                                 *)
LEMMA StepDecides ==
  IInv /\ [Next]_vars => [Splitting!Decide]_(Splitting!split)
<1> DEFINE fine == { i \in Points : cf[i] = Fine }
<1> SUFFICES ASSUME IInv, [Next]_vars
             PROVE  Splitting!Decide \/ UNCHANGED <<CoarseIn(cf), fine, ncoarse>>
  BY DEF Splitting!split
<1>1. ASSUME NEW i \in todo, Visit(i)
      PROVE  Splitting!Decide \/ UNCHANGED <<CoarseIn(cf), fine, ncoarse>>
  <2>1. i \in Points /\ ff \in Int /\ ff < -1
        /\ \A j \in Points : j # i => cf'[j] = cf[j]
    BY <1>1, VisitMarks DEF IInv, TypeOK, Fine
  <2>2. cf[i] = ff \/ cf[i] = ff - 1
    BY <1>1, VisitMarks
  <2>3. i \notin CoarseIn(cf) /\ i \notin fine
    BY <2>1, <2>2 DEF CoarseIn, Fine
  <2>4. {i} \in SUBSET Splitting!Undecided /\ {i} # {}
    BY <2>1, <2>3 DEF Splitting!Undecided
  <2>5. CASE cf[i] = ff /\ cf'[i] > 0 /\ ncoarse \in Nat /\ ncoarse' = ncoarse + 1
    <3>1. CoarseIn(cf)' = CoarseIn(cf) \cup {i}
      BY <2>1, <2>3, <2>5 DEF CoarseIn
    <3>2. fine' = fine \cup ({i} \ {i})
      BY <2>1, <2>3, <2>5 DEF Fine
    <3>3. ncoarse' = ncoarse + Splitting!Cardinality({i})
      <4>1. Splitting!Cardinality({i}) = Cardinality({i})
        BY DEF Cardinality, Splitting!Cardinality
      <4> QED
        BY <2>5, <4>1, FS_Singleton
    <3>4. {i} \in SUBSET {i}
      OBVIOUS
    <3> HIDE DEF fine
    <3> QED
      BY <2>4, <3>1, <3>2, <3>3, <3>4 DEF Splitting!Decide, fine
  <2>6. CASE cf[i] = ff - 1 /\ cf'[i] = -1 /\ ncoarse' = ncoarse
    <3>1. CoarseIn(cf)' = CoarseIn(cf) \cup {}
      BY <2>1, <2>3, <2>6 DEF CoarseIn
    <3>2. fine' = fine \cup ({i} \ {})
      BY <2>1, <2>6 DEF Fine
    <3>3. ncoarse' = ncoarse + Splitting!Cardinality({})
      <4>1. Splitting!Cardinality({}) = Cardinality({})
        BY DEF Cardinality, Splitting!Cardinality
      <4>2. ncoarse \in Nat
        BY DEF IInv, TypeOK
      <4> QED
        BY <2>6, <4>1, <4>2, FS_EmptySet
    <3>4. {} \in SUBSET {i}
      OBVIOUS
    <3> HIDE DEF fine
    <3> QED
      BY <2>4, <3>1, <3>2, <3>3, <3>4 DEF Splitting!Decide, fine
  <2>7. CASE UNCHANGED <<cf, graph, ncoarse>>
    BY <2>7 DEF CoarseIn
  <2> QED
    BY <1>1, <2>5, <2>6, <2>7, VisitMarks
<1>2. CASE BuildIndependentSet
  <2>1. /\ ff \in Int /\ ff < -1
        /\ cf' = [i \in Points |-> IF Pushed(i) THEN ff - 1 ELSE cf[i]]
        /\ ncoarse' = ncoarse
    BY <1>2 DEF BuildIndependentSet, IInv, TypeOK, Fine
  <2>2. \A i \in Points : /\ cf'[i] > 0 <=> cf[i] > 0
                          /\ cf'[i] = -1 <=> cf[i] = -1
    BY <2>1 DEF Pushed
  <2>3. CoarseIn(cf)' = CoarseIn(cf) /\ fine' = fine
    BY <2>2 DEF CoarseIn, Fine
  <2> QED
    BY <2>1, <2>3
<1>3. CASE UNCHANGED <<cf, ncoarse>>
  BY <1>3 DEF CoarseIn
<1> QED
  BY <1>1, <1>2, <1>3 DEF Next, EndPass, Finish, vars

(* build implements the splitting its interface promises, whatever the     *)
(* matrix, the draws and the order of the points in its array.             *)
THEOREM Pmis2RefinesSplitting == Spec => Splitting!Spec
<1>1. Init => Splitting!Init
  <2> SUFFICES ASSUME Init PROVE Splitting!Init
    OBVIOUS
  <2>1. \A i \in Points : ~(cf[i] > 0)
    BY DEF Init, Fine
  <2> QED
    BY <2>1 DEF Init, Splitting!Init, CoarseIn
<1> QED
  BY <1>1, Invariance, StepDecides, PTL DEF Spec, Splitting!Spec
=============================================================================
