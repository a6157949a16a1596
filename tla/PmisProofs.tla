----------------------------- MODULE PmisProofs -----------------------------
(***************************************************************************)
(* Theorems about Pmis, for every matrix size, every strength relation and  *)
(* every outcome of rand ().                                               *)
(***************************************************************************)
EXTENDS Pmis, FiniteSetTheorems, TLAPS

(* The numbers 0 .. x, whose inclusion is the order of the naturals.       *)
Down(x) == 0 .. x

(* What Min of a set of naturals is.                                       *)
LEMMA MinOfNaturals ==
  ASSUME NEW T, T \subseteq Nat, T # {}
  PROVE  Min(T) \in T /\ \A y \in T : Min(T) <= y
<1> DEFINE Segments == { Down(x) : x \in T }
<1>1. IsWellFoundedOn(StrictSubsetOrdering(Nat), FiniteSubsetsOf(Nat))
  BY FS_StrictSubsetOrderingWellFounded
<1>2. Segments \subseteq FiniteSubsetsOf(Nat)
  <2> SUFFICES ASSUME NEW x \in T PROVE Down(x) \in FiniteSubsetsOf(Nat)
    OBVIOUS
  <2> IsFiniteSet(0 .. x)
    BY FS_Interval
  <2> QED
    BY DEF Down, FiniteSubsetsOf
<1>3. Segments # {}
  OBVIOUS
<1>4. PICK s \in Segments :
        \A t \in Segments : <<t, s>> \notin StrictSubsetOrdering(Nat)
  <2> HIDE DEF Segments
  <2> QED
    BY <1>1, <1>2, <1>3, WFMin
<1>5. PICK m \in T : s = Down(m)
  OBVIOUS
<1>6. \A y \in T : m <= y
  <2> SUFFICES ASSUME NEW y \in T, y < m PROVE FALSE
    OBVIOUS
  <2>1. Down(y) \subseteq Down(m) /\ Down(y) # Down(m)
    BY DEF Down
  <2>2. Down(y) \in SUBSET Nat /\ Down(m) \in SUBSET Nat
    BY DEF Down
  <2>3. <<Down(y), s>> \in StrictSubsetOrdering(Nat)
    BY <1>5, <2>1, <2>2 DEF StrictSubsetOrdering
  <2> QED
    BY <1>4, <2>3
<1> QED
  BY <1>6 DEF Min
-----------------------------------------------------------------------------
(***************************************************************************)
(* The inductive invariant: the type, and what is known of the points that  *)
(* are still undecided, since the coarse points to come are among them.     *)
(***************************************************************************)
DecidedAreCounted ==
  nfine + ncoarse = Cardinality(Points \ Undecided)

DecidedBeforeFirst ==
  \A i \in 1 .. first - 1 : cf[i] # 0

NumbersAreCounted ==
  \A i \in Points : cf[i] <= ncoarse

(* What a coarse point depends on was decided with it.                     *)
CoarseClosed ==
  \A c \in CoarseIn(cf), i \in Points : <<c, i>> \in S => cf[i] # 0

(* The climb ended at a coarse point because of this.                      *)
CoarseIsLargest ==
  \A c \in CoarseIn(cf), i \in Undecided :
    <<i, c>> \in S => measure[i] <= measure[c]

(* A point became fine with a coarse point that depends on it.             *)
FineInfluencesCoarse ==
  \A i \in FineIn(cf) :
    Dependents(S, i) # {} => \E c \in CoarseIn(cf) : <<c, i>> \in S

IInv ==
  /\ TypeOK
  /\ DecidedAreCounted
  /\ DecidedBeforeFirst
  /\ NumbersAreCounted
  /\ CoarseClosed
  /\ CoarseIsLargest
  /\ CoarseInOrder
  /\ FineInfluencesCoarse

(* Points are finitely many, and no set of them is larger than N.          *)
LEMMA PointsAreFinite ==
  ASSUME NEW T, T \subseteq Points
  PROVE  /\ IsFiniteSet(T)
         /\ Cardinality(T) \in 0 .. N
         /\ Cardinality(T) = N <=> T = Points
<1>1. IsFiniteSet(Points) /\ Cardinality(Points) = N
  BY FS_Interval, GraphAssumption DEF Points
<1>2. IsFiniteSet(T) /\ Cardinality(T) <= N
      /\ (Cardinality(T) = N <=> T = Points)
  BY <1>1, FS_Subset
<1>3. Cardinality(T) \in Nat
  BY <1>2, FS_CardinalityType
<1> QED
  BY <1>2, <1>3, GraphAssumption

(* A point does not depend on itself.                                      *)
LEMMA NoLoops ==
  ASSUME S \in Relations, NEW i \in Points
  PROVE  <<i, i>> \notin S
BY GraphAssumption

LEMMA InitInv == Init => IInv
<1> SUFFICES ASSUME Init PROVE IInv
  OBVIOUS
<1> DEFINE idle == { i \in Points : Dependents(S, i) = {} }
<1>1. Cardinality(idle) \in 0 .. N
  BY PointsAreFinite
<1>2. cf = [i \in Points |-> IF i \in idle THEN -1 ELSE 0]
  BY DEF Init
<1>3. Points \ Undecided = idle
  BY <1>2 DEF Undecided
<1>4. nfine = Cardinality(idle) /\ ncoarse = 0 /\ first = 1
  BY DEF Init
<1>5. measure \in [Points -> Nat]
  <2> PICK draw \in Draws : measure = Measure(S, draw)
    BY DEF Init
  <2>1. draw \in [Points -> Nat]
    BY GraphAssumption
  <2>2. \A i \in Points : Cardinality(Dependents(S, i)) \in Nat
    <3> TAKE i \in Points
    <3> Dependents(S, i) \subseteq Points
      BY DEF Dependents
    <3> QED
      BY PointsAreFinite, GraphAssumption
  <2>3. \A i \in Points : Count(S, i) \in Nat
    BY <2>2, GraphAssumption DEF Count
  <2> QED
    BY <2>1, <2>3 DEF Measure
<1>6. TypeOK
  BY <1>1, <1>2, <1>4, <1>5, GraphAssumption DEF Init, TypeOK
<1>7. CoarseIn(cf) = {}
  BY <1>2 DEF CoarseIn
<1>8. FineInfluencesCoarse
  BY <1>2 DEF FineInfluencesCoarse, FineIn
<1>9. DecidedAreCounted
  <2> HIDE DEF idle
  <2> QED
    BY <1>1, <1>3, <1>4 DEF DecidedAreCounted
<1>10. DecidedBeforeFirst /\ NumbersAreCounted
  BY <1>2, <1>4 DEF DecidedBeforeFirst, NumbersAreCounted
<1>11. CoarseClosed /\ CoarseIsLargest /\ CoarseInOrder
  BY <1>7 DEF CoarseClosed, CoarseIsLargest, CoarseInOrder
<1> QED
  BY <1>6, <1>8, <1>9, <1>10, <1>11 DEF IInv

(* The search finds the first of the points that are left, if any.         *)
LEMMA SearchFindsOne ==
  ASSUME IInv, pc = "search", nfine + ncoarse < N
  PROVE  LeftToSearch # {}
<1>1. Points \ Undecided # Points
  <2>1. Cardinality(Points \ Undecided) # N
    BY DEF IInv, DecidedAreCounted, TypeOK
  <2> QED
    BY <2>1, PointsAreFinite
<1>2. PICK i \in Points : cf[i] = 0
  BY <1>1 DEF Undecided
<1>3. i \in first .. N
  BY <1>2, GraphAssumption DEF IInv, TypeOK, DecidedBeforeFirst, Points
<1> QED
  BY <1>2, <1>3 DEF LeftToSearch

LEMMA FindFirstInv ==
  ASSUME IInv, FindFirst
  PROVE  IInv'
<1> USE DEF FindFirst
<1>1. LeftToSearch \subseteq Nat
  BY GraphAssumption DEF LeftToSearch, IInv, TypeOK
<1>2. at' \in LeftToSearch /\ \A i \in LeftToSearch : at' <= i
  BY <1>1, MinOfNaturals
<1>3. at' \in Points /\ cf[at'] = 0 /\ first <= at' /\ first' = at'
  BY <1>2, GraphAssumption DEF LeftToSearch, IInv, TypeOK, Points, NextFirst
<1>4. TypeOK'
  BY <1>3 DEF IInv, TypeOK, matrix, Points
<1>5. DecidedBeforeFirst'
  <2> SUFFICES ASSUME NEW i \in 1 .. first' - 1, cf[i] = 0 PROVE FALSE
    BY DEF DecidedBeforeFirst
  <2>1. i \notin LeftToSearch /\ i \in Nat /\ i < N
    BY <1>2, <1>3, GraphAssumption DEF Points
  <2>2. i < first
    BY <2>1, GraphAssumption DEF LeftToSearch, IInv, TypeOK
  <2> QED
    BY <2>2 DEF IInv, DecidedBeforeFirst, TypeOK
<1>6. UNCHANGED <<matrix, cf, ncoarse, nfine>>
  OBVIOUS
<1>7. (DecidedAreCounted /\ NumbersAreCounted /\ CoarseClosed
       /\ CoarseIsLargest /\ CoarseInOrder /\ FineInfluencesCoarse)'
  BY <1>6 DEF IInv, DecidedAreCounted, NumbersAreCounted, CoarseClosed,
     CoarseIsLargest, CoarseInOrder, FineInfluencesCoarse, Undecided,
     CoarseIn, FineIn, Dependents, matrix
<1> QED
  BY <1>4, <1>5, <1>7 DEF IInv

LEMMA ClimbInv ==
  ASSUME IInv, Climb
  PROVE  IInv'
<1> USE DEF Climb
<1>1. Larger(at) \subseteq Nat
  BY DEF Larger, Dependents, Points
<1>2. at' \in Larger(at)
  BY <1>1, MinOfNaturals
<1>3. at' \in Points /\ cf[at'] = 0
  BY <1>2 DEF Larger, Dependents
<1>4. TypeOK'
  BY <1>3 DEF IInv, TypeOK, matrix
<1>5. UNCHANGED <<matrix, cf, first, ncoarse, nfine>>
  OBVIOUS
<1>6. (DecidedAreCounted /\ DecidedBeforeFirst /\ NumbersAreCounted
       /\ CoarseClosed /\ CoarseIsLargest /\ CoarseInOrder
       /\ FineInfluencesCoarse)'
  BY <1>5 DEF IInv, DecidedAreCounted, DecidedBeforeFirst, NumbersAreCounted,
     CoarseClosed, CoarseIsLargest, CoarseInOrder, FineInfluencesCoarse,
     Undecided, CoarseIn, FineIn, Dependents, matrix
<1> QED
  BY <1>4, <1>6 DEF IInv

LEMMA FinishInv ==
  ASSUME IInv, Finish
  PROVE  IInv'
<1> USE DEF Finish
<1>1. TypeOK'
  BY DEF IInv, TypeOK, matrix
<1>2. UNCHANGED <<matrix, cf, first, ncoarse, nfine>>
  OBVIOUS
<1>3. (DecidedAreCounted /\ DecidedBeforeFirst /\ NumbersAreCounted
       /\ CoarseClosed /\ CoarseIsLargest /\ CoarseInOrder
       /\ FineInfluencesCoarse)'
  BY <1>2 DEF IInv, DecidedAreCounted, DecidedBeforeFirst, NumbersAreCounted,
     CoarseClosed, CoarseIsLargest, CoarseInOrder, FineInfluencesCoarse,
     Undecided, CoarseIn, FineIn, Dependents, matrix
<1> QED
  BY <1>1, <1>3 DEF IInv

(* What Select does to the markers.                                        *)
LEMMA SelectMarks ==
  ASSUME IInv, Select
  PROVE  /\ at \in Points /\ cf[at] = 0 /\ at \notin Marked(at)
         /\ ncoarse \in Nat /\ ncoarse' = ncoarse + 1
         /\ cf' \in [Points -> Int]
         /\ cf'[at] = ncoarse + 1
         /\ \A i \in Marked(at) : cf[i] = 0 /\ cf'[i] = -1 /\ <<at, i>> \in S
         /\ \A i \in Points : i # at /\ i \notin Marked(at) => cf'[i] = cf[i]
         /\ CoarseIn(cf)' = CoarseIn(cf) \cup {at}
         /\ FineIn(cf)' = FineIn(cf) \cup Marked(at)
         /\ Undecided' = Undecided \ ({at} \cup Marked(at))
<1>1. at \in Points /\ cf[at] = 0 /\ ncoarse \in Nat /\ cf \in [Points -> Int]
  BY DEF Select, IInv, TypeOK
<1>2. at \notin Marked(at)
  BY <1>1, NoLoops DEF Marked, Influences, IInv, TypeOK
<1>3. \A i \in Marked(at) : i \in Points /\ cf[i] = 0 /\ <<at, i>> \in S
  BY DEF Marked, Influences
<1>4. cf' = [i \in Points |-> IF i = at THEN ncoarse + 1
                              ELSE IF i \in Marked(at) THEN -1 ELSE cf[i]]
      /\ ncoarse' = ncoarse + 1
  BY DEF Select
<1> HIDE DEF Marked
<1>5. cf'[at] = ncoarse + 1 /\ cf' \in [Points -> Int]
  BY <1>1, <1>4
<1>6. \A i \in Marked(at) : cf'[i] = -1
  BY <1>2, <1>3, <1>4
<1>7. \A i \in Points : i # at /\ i \notin Marked(at) => cf'[i] = cf[i]
  BY <1>4
<1>8. CoarseIn(cf)' = CoarseIn(cf) \cup {at}
  <2>1. \A i \in Points : cf'[i] > 0 <=> i \in CoarseIn(cf) \cup {at}
    <3> TAKE i \in Points
    <3>1. CASE i = at
      BY <3>1, <1>1, <1>5
    <3>2. CASE i \in Marked(at)
      <4>1. cf'[i] = -1 /\ cf[i] = 0 /\ i # at
        BY <3>2, <1>2, <1>3, <1>6
      <4>2. i \notin CoarseIn(cf) \cup {at}
        BY <4>1 DEF CoarseIn
      <4>3. ~ (cf'[i] > 0)
        BY <4>1
      <4> QED
        BY <4>2, <4>3
    <3>3. CASE i # at /\ i \notin Marked(at)
      BY <3>3, <1>7 DEF CoarseIn
    <3> QED
      BY <3>1, <3>2, <3>3
  <2>2. CoarseIn(cf) \cup {at} \subseteq Points
    BY <1>1, <1>3 DEF CoarseIn
  <2> QED
    BY <2>1, <2>2 DEF CoarseIn
<1>9. FineIn(cf)' = FineIn(cf) \cup Marked(at)
  <2>1. \A i \in Points : cf'[i] < 0 <=> i \in FineIn(cf) \cup Marked(at)
    BY <1>1, <1>2, <1>3, <1>5, <1>6, <1>7 DEF FineIn
  <2>2. FineIn(cf) \cup Marked(at) \subseteq Points
    BY <1>1, <1>3 DEF FineIn
  <2> QED
    BY <2>1, <2>2 DEF FineIn
<1>10. Undecided' = Undecided \ ({at} \cup Marked(at))
  BY <1>1, <1>2, <1>3, <1>5, <1>6, <1>7 DEF Undecided
<1> QED
  BY <1>1, <1>2, <1>3, <1>4, <1>5, <1>6, <1>7, <1>8, <1>9, <1>10

LEMMA SelectCounts ==
  ASSUME IInv, Select
  PROVE  /\ DecidedAreCounted'
         /\ ncoarse' \in 0 .. N /\ nfine' \in 0 .. N
<1> DEFINE was == Points \ Undecided
           new == {at} \cup Marked(at)
<1>1. /\ at \in Points /\ at \notin Marked(at) /\ ncoarse' = ncoarse + 1
      /\ Marked(at) \subseteq Points
      /\ new \cap was = {}
      /\ Points \ Undecided' = was \cup new
  <2>1. Marked(at) \subseteq Points
    BY DEF Marked, Influences
  <2>2. new \subseteq Undecided
    BY <2>1, SelectMarks DEF Undecided
  <2>3. Undecided \subseteq Points
    BY DEF Undecided
  <2> QED
    BY <2>1, <2>2, <2>3, SelectMarks
<1>2. nfine' = nfine + Cardinality(Marked(at))
  BY DEF Select
<1>3. IsFiniteSet(Marked(at)) /\ Cardinality(Marked(at)) \in 0 .. N
  BY <1>1, PointsAreFinite
<1>4. IsFiniteSet(new) /\ Cardinality(new) = Cardinality(Marked(at)) + 1
  BY <1>1, <1>3, FS_AddElement
<1>5. IsFiniteSet(was) /\ Cardinality(was) \in 0 .. N
  BY PointsAreFinite
<1>6. Cardinality(was \cup new)
        = Cardinality(was) + Cardinality(new)
  <2>1. was \cap new = {}
    BY <1>1
  <2> HIDE DEF was, new
  <2>2. Cardinality(was \cup new)
          = Cardinality(was) + Cardinality(new) - Cardinality(was \cap new)
    BY <1>4, <1>5, FS_Union
  <2> QED
    BY <2>1, <2>2, <1>3, <1>4, <1>5, FS_EmptySet
<1>7. Cardinality(was \cup new) \in 0 .. N
  BY <1>1, PointsAreFinite
<1>8. ncoarse \in Nat /\ nfine \in Nat /\ nfine + ncoarse = Cardinality(was)
  BY DEF IInv, TypeOK, DecidedAreCounted
<1> HIDE DEF was, new
<1>9. nfine' + ncoarse' = Cardinality(was \cup new)
  BY <1>1, <1>2, <1>3, <1>4, <1>5, <1>6, <1>8
<1>10. DecidedAreCounted'
  BY <1>1, <1>9 DEF DecidedAreCounted
<1> QED
  BY <1>1, <1>2, <1>3, <1>7, <1>8, <1>9, <1>10, GraphAssumption

LEMMA SelectInv ==
  ASSUME IInv, Select
  PROVE  IInv'
<1>1. UNCHANGED <<S, measure, first>> /\ pc' = "search"
  BY DEF Select, matrix
<1>2. Dependents(S, at) \subseteq Points /\ Larger(at) = {}
  BY DEF Select, Dependents
<1>3. \A i \in Undecided : <<i, at>> \in S => measure[i] <= measure[at]
  BY <1>2, SelectMarks DEF Larger, Dependents, Undecided, IInv, TypeOK
<1>4. TypeOK'
  BY <1>1, SelectMarks, SelectCounts DEF IInv, TypeOK
<1>5. DecidedBeforeFirst'
  <2> SUFFICES ASSUME NEW i \in 1 .. first - 1 PROVE cf'[i] # 0
    BY <1>1 DEF DecidedBeforeFirst
  <2>1. i \in Points /\ cf[i] # 0
    BY GraphAssumption DEF IInv, TypeOK, DecidedBeforeFirst, Points
  <2> QED
    BY <2>1, SelectMarks
<1>6. NumbersAreCounted'
  <2> SUFFICES ASSUME NEW i \in Points PROVE cf'[i] <= ncoarse + 1
    BY SelectMarks DEF NumbersAreCounted
  <2>1. CASE i = at
    BY <2>1, SelectMarks
  <2>2. CASE i \in Marked(at)
    <3>1. cf'[i] = -1 /\ ncoarse \in Nat
      BY <2>2, SelectMarks
    <3> QED
      BY <3>1
  <2>3. CASE i # at /\ i \notin Marked(at)
    BY <2>3, SelectMarks DEF IInv, TypeOK, NumbersAreCounted
  <2> QED
    BY <2>1, <2>2, <2>3
<1>7. CoarseClosed'
  <2> SUFFICES ASSUME NEW c \in CoarseIn(cf)', NEW i \in Points, <<c, i>> \in S
               PROVE  cf'[i] # 0
    BY <1>1 DEF CoarseClosed
  <2>1. CASE c = at
    <3>1. i \in Marked(at) \/ (cf[i] # 0 /\ i \notin Marked(at) /\ i # at)
      BY <2>1, SelectMarks, NoLoops DEF Marked, Influences, IInv, TypeOK
    <3>2. CASE i \in Marked(at)
      <4>1. cf'[i] = -1
        BY <3>2, SelectMarks
      <4> QED
        BY <4>1
    <3>3. CASE cf[i] # 0 /\ i \notin Marked(at) /\ i # at
      BY <3>3, SelectMarks
    <3> QED
      BY <3>1, <3>2, <3>3
  <2>2. CASE c \in CoarseIn(cf)
    <3>1. cf[i] # 0
      BY <2>2 DEF IInv, CoarseClosed
    <3> QED
      BY <3>1, SelectMarks
  <2> QED
    BY <2>1, <2>2, SelectMarks
<1>8. CoarseIsLargest'
  <2> SUFFICES ASSUME NEW c \in CoarseIn(cf)', NEW i \in Undecided',
                      <<i, c>> \in S
               PROVE  measure[i] <= measure[c]
    BY <1>1 DEF CoarseIsLargest
  <2>1. i \in Undecided
    BY SelectMarks
  <2>2. CASE c = at
    BY <2>1, <2>2, <1>3
  <2>3. CASE c \in CoarseIn(cf)
    BY <2>1, <2>3 DEF IInv, CoarseIsLargest
  <2> QED
    BY <2>2, <2>3, SelectMarks
<1>9. CoarseInOrder'
  <2> SUFFICES ASSUME NEW c \in CoarseIn(cf)', NEW d \in CoarseIn(cf)',
                      <<d, c>> \in S
               PROVE  cf'[c] < cf'[d] /\ measure[d] <= measure[c]
    BY <1>1 DEF CoarseInOrder
  <2>1. \A e \in CoarseIn(cf) : e \in Points /\ e # at /\ cf'[e] = cf[e]
    <3> TAKE e \in CoarseIn(cf)
    <3>1. e \in Points /\ cf[e] > 0
      BY DEF CoarseIn
    <3>2. cf[at] = 0 /\ \A i \in Marked(at) : cf[i] = 0
      BY SelectMarks
    <3>3. e # at /\ e \notin Marked(at)
      BY <3>1, <3>2
    <3> QED
      BY <3>1, <3>3, SelectMarks
  <2>2. CASE c \in CoarseIn(cf) /\ d \in CoarseIn(cf)
    BY <2>1, <2>2 DEF IInv, CoarseInOrder
  <2>3. CASE c \in CoarseIn(cf) /\ d = at
    <3>1. cf[c] <= ncoarse
      BY <2>1, <2>3 DEF IInv, NumbersAreCounted
    <3>2. at \in Undecided
      BY SelectMarks DEF Undecided
    <3>3. measure[d] <= measure[c]
      BY <2>3, <3>2 DEF IInv, CoarseIsLargest
    <3>4. cf[c] \in Int /\ cf'[c] = cf[c] /\ cf'[d] = ncoarse + 1
      BY <2>1, <2>3, SelectMarks DEF IInv, TypeOK
    <3>5. ncoarse \in Nat
      BY SelectMarks
    <3> QED
      BY <3>1, <3>3, <3>4, <3>5
  <2>4. CASE c = at /\ d \in CoarseIn(cf)
    BY <2>4, SelectMarks DEF IInv, CoarseClosed
  <2>5. CASE c = at /\ d = at
    BY <2>5, NoLoops, SelectMarks DEF IInv, TypeOK
  <2> QED
    BY <2>2, <2>3, <2>4, <2>5, SelectMarks
<1>10. FineInfluencesCoarse'
  <2> SUFFICES ASSUME NEW i \in FineIn(cf)', Dependents(S, i) # {}
               PROVE  \E c \in CoarseIn(cf)' : <<c, i>> \in S
    BY <1>1 DEF FineInfluencesCoarse, Dependents
  <2>1. CASE i \in Marked(at)
    BY <2>1, SelectMarks
  <2>2. CASE i \in FineIn(cf)
    BY <2>2, SelectMarks DEF IInv, FineInfluencesCoarse
  <2> QED
    BY <2>1, <2>2, SelectMarks
<1> QED
  BY <1>4, <1>5, <1>6, <1>7, <1>8, <1>9, <1>10, SelectCounts DEF IInv

LEMMA NextInv == IInv /\ [Next]_vars => IInv'
<1> SUFFICES ASSUME IInv, [Next]_vars PROVE IInv'
  OBVIOUS
<1>1. CASE FindFirst
  BY <1>1, FindFirstInv
<1>2. CASE Climb
  BY <1>2, ClimbInv
<1>3. CASE Select
  BY <1>3, SelectInv
<1>4. CASE Finish
  BY <1>4, FinishInv
<1>5. CASE UNCHANGED vars
  BY <1>5 DEF vars, IInv, TypeOK, DecidedAreCounted, DecidedBeforeFirst,
     NumbersAreCounted, CoarseClosed, CoarseIsLargest, CoarseInOrder,
     FineInfluencesCoarse, Undecided, CoarseIn, FineIn, Dependents
<1> QED
  BY <1>1, <1>2, <1>3, <1>4, <1>5 DEF Next

THEOREM Invariance == Spec => []IInv
BY InitInv, NextInv, PTL DEF Spec

(* The climb always stands on an undecided point, and the counters of      *)
(* pmis_coarse::build never pass the number of rows.                       *)
THEOREM PmisTypeCorrect == Spec => []TypeOK
<1>1. IInv => TypeOK
  BY DEF IInv
<1> QED
  BY <1>1, Invariance, PTL

(* build never leaves its search empty-handed and so never returns -1,     *)
(* although the search never goes back before b_ind.                       *)
THEOREM PmisSearchFinds == Spec => []SearchFinds
<1>1. IInv => SearchFinds
  BY SearchFindsOne DEF SearchFinds
<1> QED
  BY <1>1, Invariance, PTL

(* Whatever the strength relation, a coarse point that depends on another  *)
(* was found later and has no larger measure.                              *)
THEOREM PmisCoarseInOrder == Spec => []CoarseInOrder
<1>1. IInv => CoarseInOrder
  BY DEF IInv
<1> QED
  BY <1>1, Invariance, PTL

(* With a symmetric strength the coarse points are an independent set,     *)
(* and every fine point with a neighbour has a coarse neighbour.           *)
THEOREM PmisIndependentAndCovering == Spec => []IndependentAndCovering
<1>1. IInv => IndependentAndCovering
  <2> SUFFICES ASSUME IInv, Symmetric(S)
               PROVE  /\ \A c, d \in CoarseIn(cf) : <<d, c>> \notin S
                      /\ Covered(S, cf)
    BY DEF IndependentAndCovering
  <2>1. CoarseIn(cf) \subseteq Points /\ FineIn(cf) \subseteq Points
    BY DEF CoarseIn, FineIn
  <2>2. ASSUME NEW c \in CoarseIn(cf), NEW d \in CoarseIn(cf), <<d, c>> \in S
        PROVE  FALSE
    <3>1. <<c, d>> \in S
      BY <2>1, <2>2 DEF Symmetric
    <3>2. cf[c] < cf[d] /\ cf[d] < cf[c]
      BY <2>2, <3>1 DEF IInv, CoarseInOrder
    <3> QED
      BY <2>1, <3>2 DEF IInv, TypeOK
  <2>3. Covered(S, cf)
    BY <2>1 DEF Covered, IInv, FineInfluencesCoarse, Symmetric, Influences
  <2> QED
    BY <2>2, <2>3
<1> QED
  BY <1>1, Invariance, PTL

(* A step of build decides points once, and counts the coarse ones among   *)
(* them, or leaves the splitting alone.                                    *)
LEMMA StepDecides ==
  IInv /\ [Next]_vars => [Splitting!Decide]_(Splitting!split)
<1> SUFFICES ASSUME IInv, [Next]_vars
             PROVE  Splitting!Decide \/ UNCHANGED <<CoarseIn(cf), FineIn(cf), ncoarse>>
  BY DEF Splitting!split
<1>1. CASE Select
  <2> DEFINE new == {at} \cup Marked(at)
  <2>1. new \in SUBSET Splitting!Undecided
    <3>1. \A i \in new : i \in Points /\ cf[i] = 0
      BY <1>1, SelectMarks DEF Marked, Influences
    <3>2. \A i \in new : i \notin CoarseIn(cf) /\ i \notin FineIn(cf)
      BY <3>1 DEF CoarseIn, FineIn
    <3> HIDE DEF new
    <3> QED
      BY <3>1, <3>2 DEF Splitting!Undecided
  <2>2. {at} \in SUBSET new /\ new \ {at} = Marked(at)
    BY <1>1, SelectMarks
  <2>3. CoarseIn(cf)' = CoarseIn(cf) \cup {at}
        /\ FineIn(cf)' = FineIn(cf) \cup Marked(at)
    BY <1>1, SelectMarks
  <2>4. ncoarse' = ncoarse + Splitting!Cardinality({at})
    <3>1. Splitting!Cardinality({at}) = Cardinality({at})
      BY DEF Cardinality, Splitting!Cardinality
    <3> QED
      BY <1>1, <3>1, SelectMarks, FS_Singleton
  <2> HIDE DEF new
  <2>5. new # {}
    BY DEF new
  <2> QED
    BY <2>1, <2>2, <2>3, <2>4, <2>5 DEF Splitting!Decide
<1>2. CASE UNCHANGED <<cf, ncoarse>>
  BY <1>2 DEF CoarseIn, FineIn
<1> QED
  BY <1>1, <1>2 DEF Next, FindFirst, Climb, Finish, vars, matrix

(* build implements the splitting its interface promises: no point is      *)
(* decided twice, whatever the matrix and the draws.  (That all points are *)
(* decided in the end is left to TLC.)                                     *)
THEOREM PmisRefinesSplitting == Spec => Splitting!Spec
<1>1. Init => Splitting!Init
  BY DEF Init, Splitting!Init, CoarseIn, FineIn
<1> QED
  BY <1>1, Invariance, StepDecides, PTL DEF Spec, Splitting!Spec
=============================================================================
