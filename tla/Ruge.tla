-------------------------------- MODULE Ruge --------------------------------
(***************************************************************************)
(* ruge_coarse::build, the first pass of the method of Ruge and Stueben:    *)
(* the undecided point of largest measure is coarse, the points that depend *)
(* on it are fine, and measures are adjusted so that points with many fine  *)
(* dependents come first.                                                  *)
(*                                                                         *)
(* The undecided points are kept in the lists of link_list.h, one for each  *)
(* measure.  The order of the columns of a row is left open; the rows of    *)
(* the transposed matrix are filled in ascending order.                    *)
(***************************************************************************)
EXTENDS StrengthGraph, MeasureLists

VARIABLES
  pc,       \* where build stands
  S,        \* s_markers, not changed here
  measure,  \* meassure_array
  cf,       \* cf_markers
  lists,    \* LoL_head, LoL_tail, next and prev
  at,       \* the row being scanned, then the coarse point being treated
  todo,     \* columns of a row the loop has yet to visit
  left,     \* num_left
  ncoarse   \* c_counter

vars == <<pc, S, measure, cf, lists, at, todo, left, ncoarse>>

Coarse == 1
Fine   == -1
UndecidedMark == 0
Undecided == { i \in Points : cf[i] = UndecidedMark }

Init ==
  /\ S \in Relations
  /\ measure = [i \in Points |-> Cardinality(Dependents(S, i))]
  /\ pc = "scan"
  /\ cf = [i \in Points |-> UndecidedMark]
  /\ lists = NoLists(Points)
  /\ at = 1
  /\ todo = {}
  /\ left = N
  /\ ncoarse = 0

(* Point i is moved to the list of the next larger measure.  A point of     *)
(* measure zero is on no list, and there is none for zero.                 *)
Raise(L, m, i) == enter_on_lists(remove_point(L, m, i), m + 1, i)

(* The lists that can result when the points of a row are raised one after  *)
(* the other, in the order of its columns.                                 *)
RaisedInOrder(L, base, order) ==
  LET after[n \in 0 .. Len(order)] ==
        IF n = 0 THEN {L}
        ELSE { Raise(M, base[order[n]], order[n]) : M \in after[n - 1] }
  IN after[Len(order)]
Raised(L, base, up) ==
  UNION { RaisedInOrder(L, base, order) : order \in SetToSeqs(up) }

(* A measure of a point that counts for nobody.                            *)
Isolated(m) == m <= 0
-----------------------------------------------------------------------------
(* The first loop, over the rows: a point somebody depends on is listed.   *)
ScanListed ==
  /\ pc = "scan" /\ at <= N
  /\ ~Isolated(measure[at])
  /\ lists' = enter_on_lists(lists, measure[at], at)
  /\ at' = at + 1
  /\ UNCHANGED <<pc, S, measure, cf, todo, left, ncoarse>>

(* Any other point is fine, and counts more for those it depends on.  The  *)
(* ones before it move to another list, those after it are not listed yet. *)
ScanFine ==
  LET up == Influences(S, at) IN
  /\ pc = "scan" /\ at <= N
  /\ Isolated(measure[at])
  /\ cf' = [cf EXCEPT ![at] = Fine]
  /\ measure' = [i \in Points |-> IF i \in up THEN measure[i] + 1 ELSE measure[i]]
  /\ lists' \in Raised(lists, measure, { i \in up : i < at })
  /\ left' = left - 1
  /\ at' = at + 1
  /\ UNCHANGED <<pc, S, todo, ncoarse>>

EndScan ==
  /\ pc = "scan" /\ at > N
  /\ pc' = "choose"
  /\ UNCHANGED <<S, measure, cf, lists, at, todo, left, ncoarse>>
-----------------------------------------------------------------------------
(* The first point of the list of the largest measure is coarse.           *)
RowsAfter(i) == { j \in Dependents(S, i) : j > i }
RowsToVisit(i) == Dependents(S, i)

Choose ==
  LET index == First(lists) IN
  /\ pc = "choose" /\ left > 0
  /\ at' = index
  /\ cf' = [cf EXCEPT ![index] = Coarse]
  /\ ncoarse' = ncoarse + 1
  /\ lists' = remove_point(lists, measure[index], index)
  /\ measure' = [measure EXCEPT ![index] = 0]
  /\ left' = left - 1
  /\ todo' = RowsToVisit(index)
  /\ pc' = "dependents"
  /\ UNCHANGED S

(* A point becomes fine: it is taken from its list m, and the undecided    *)
(* points it depends on are raised.  base holds the measures before that.  *)
MakeFine(i, m, base) ==
  LET up == { j \in Influences(S, i) : cf[j] = UndecidedMark } IN
  /\ cf' = [cf EXCEPT ![i] = Fine]
  /\ measure' = [j \in Points |-> IF j \in up THEN base[j] + 1 ELSE base[j]]
  /\ \E L \in {remove_point(lists, m, i)} : lists' \in Raised(L, base, up)
  /\ left' = left - 1

(* The points that depend on the coarse point, in the transposed matrix.   *)
EvenDecided(i) == TRUE
StillUndecided(i) == cf[i] = UndecidedMark

VisitDependent(i) ==
  /\ pc = "dependents"
  /\ \A j \in todo : i <= j
  /\ todo' = todo \ {i}
  /\ IF StillUndecided(i)
       THEN MakeFine(i, measure[i], measure)
       ELSE UNCHANGED <<cf, measure, lists, left>>
  /\ UNCHANGED <<pc, S, at, ncoarse>>

EndDependents ==
  /\ pc = "dependents"
  /\ todo = {}
  /\ todo' = Influences(S, at)
  /\ pc' = "influences"
  /\ UNCHANGED <<S, measure, cf, lists, at, left, ncoarse>>

LoweredMeasure(i) == [measure EXCEPT ![i] = @ - 1]

(* The points the coarse point depends on: it no longer counts for them,   *)
(* and one that counts for nobody is fine.                                 *)
VisitInfluence(i) ==
  LET base == LoweredMeasure(i) IN
  /\ pc = "influences"
  /\ todo' = todo \ {i}
  /\ \/ /\ cf[i] # UndecidedMark
        /\ UNCHANGED <<cf, measure, lists, left>>
     \/ /\ cf[i] = UndecidedMark
        /\ ~Isolated(base[i])
        /\ measure' = base
        /\ lists' = enter_on_lists(remove_point(lists, measure[i], i), base[i], i)
        /\ UNCHANGED <<cf, left>>
     \/ /\ cf[i] = UndecidedMark
        /\ Isolated(base[i])
        /\ MakeFine(i, measure[i], base)
  /\ UNCHANGED <<pc, S, at, ncoarse>>

EndInfluences ==
  /\ pc = "influences"
  /\ todo = {}
  /\ pc' = "choose"
  /\ UNCHANGED <<S, measure, cf, lists, at, todo, left, ncoarse>>

Finish ==
  /\ pc = "choose"
  /\ left <= 0
  /\ pc' = "done"
  /\ UNCHANGED <<S, measure, cf, lists, at, todo, left, ncoarse>>

Next ==
  \/ ScanListed \/ ScanFine \/ EndScan
  \/ Choose
  \/ \E i \in todo : VisitDependent(i) \/ VisitInfluence(i)
  \/ EndDependents \/ EndInfluences \/ Finish

Spec == Init /\ [][Next]_vars

(* build is a sequential procedure.                                        *)
FairSpec == Spec /\ WF_vars(Next)
-----------------------------------------------------------------------------
(* The counter of the loop counts the undecided points.                    *)
TypeOK ==
  /\ pc \in {"scan", "choose", "dependents", "influences", "done"}
  /\ S \in Relations
  /\ measure \in [Points -> Nat]
  /\ cf \in [Points -> {Coarse, Fine, UndecidedMark}]
  /\ lists.next \in [Points -> Points \cup {0, LIST_TAIL}]
  /\ lists.prev \in [Points -> Points \cup {0, LIST_HEAD}]
  /\ at \in 1 .. N + 1
  /\ todo \subseteq Points
  /\ left = Cardinality(Undecided)
  /\ ncoarse = Cardinality(CoarseIn(cf))

(* The weight of an undecided point in the method: one for an undecided    *)
(* dependent, two for a fine one and none for a coarse one, except that    *)
(* the influences of the last coarse point are lowered last.               *)
Owed(i) ==
  \/ pc = "dependents" /\ i \in Influences(S, at)
  \/ pc = "influences" /\ i \in todo
Weight(i) ==
  Cardinality(Dependents(S, i) \cap Undecided)
    + 2 * Cardinality(Dependents(S, i) \cap FineIn(cf))
    + (IF Owed(i) THEN 1 ELSE 0)
Scanned(i) == pc # "scan" \/ i < at

(* The points on the lists are the undecided ones, each under its measure, *)
(* which is its weight and positive, and the links of the lists visit them *)
(* all: remove_point is never asked for a point it does not find, writes   *)
(* nothing outside the arrays, and the head of the lists exists as long as *)
(* points are left.                                                        *)
ListsMatch ==
  /\ TypeOK
  /\ \A i \in Undecided :
       /\ measure[i] = Weight(i)
       /\ Scanned(i) => measure[i] > 0
  /\ OnLists(lists, { i \in Undecided : Scanned(i) }, measure)

(* No fine point remains without a coarse neighbour when the strength is   *)
(* symmetric, and no two coarse points are neighbours.                     *)
IndependentAndCovering ==
  Symmetric(S) /\ pc = "done" =>
    /\ \A i, j \in CoarseIn(cf) : <<i, j>> \notin S
    /\ Covered(S, cf)

(* build keeps the promise of its interface.                               *)
Splitting == INSTANCE CFSplitting WITH
  coarse <- CoarseIn(cf), fine <- FineIn(cf), count <- ncoarse
RefinesSplitting == Splitting!LiveSpec
=============================================================================
