--------------------------- MODULE Interpolation ---------------------------
(***************************************************************************)
(* The builders of the prolongation matrix P of a multigrid level (bs_swift *)
(* /src/*_pbuild.cpp).  A first pass over the rows counts the columns of    *)
(* each, the array is allocated, and a second pass that has to find the     *)
(* same columns fills it.                                                   *)
(*                                                                         *)
(* Points and positions are numbered from 0, as in the code.  Of the values *)
(* of A the builders look at the strong entries, which are negative, at the *)
(* other negative ones, and at the sign of the diagonal; the weights are    *)
(* not computed, only where they are written.                               *)
(***************************************************************************)
EXTENDS Integers, FiniteSets, SequencesExt

CONSTANTS
  N,          \* number of rows of A
  Relations,  \* the strength relations considered
  Builders    \* the builders considered

Points == 0 .. N - 1

ASSUME InterpolationAssumption ==
  /\ N \in Nat \ {0}
  /\ Relations \subseteq SUBSET (Points \X Points)
  /\ \A T \in Relations, i \in Points : <<i, i>> \notin T
  /\ Builders \subseteq {"direct", "standart", "standart2", "standart3"}

VARIABLES
  pass,
  builder,
  S,           \* strong entries of A, s_markers
  weak,        \* the other entries of A off the diagonal are negative
  coarse,      \* the points with a positive cf_marker
  diag,        \* the diagonal of A, for each row
  row,         \* the row a loop is at
  markers,     \* the position a coarse point has in P
  next,        \* j_ind
  p_rows_ptr,  \* lengths, then positions of the rows of P
  p_cols_ind,
  strayed      \* rows that wrote to columns that do not interpolate them

inputs == <<builder, S, weak, coarse, diag>>
build_vars == <<pass, inputs, row, markers, next, p_rows_ptr, p_cols_ind, strayed>>

Before(T, x) == { y \in T : y < x }
InOrder(T) == [k \in 1 .. Cardinality(T) |-> CHOOSE x \in T : Cardinality(Before(T, x)) = k - 1]

StrongRow(i)  == { j \in Points : <<i, j>> \in S }
NegativeRow(i) == IF weak THEN Points \ {i} ELSE StrongRow(i)

(* The renumbering of the coarse points, from 0.                           *)
Number(c) == Cardinality(Before(coarse, c))
Numbers == [c \in coarse |-> Number(c)]

(* Unmarked points.  standart clears its markers to a position.            *)
UnmarkedZero == 0
Unmarked == IF builder = "standart" THEN 0 ELSE -1
Cleared == [j \in Points |-> Unmarked]

(* What the marks of the diagonal leave to the direct builder.             *)
DiagonalSigns == {"positive", "vanishing", "negative"}

BuilderInit ==
  /\ builder \in Builders
  /\ S \in Relations
  /\ weak \in BOOLEAN
  /\ coarse \in SUBSET Points /\ coarse # {} /\ coarse # Points
  /\ diag \in [Points -> IF builder = "direct" THEN DiagonalSigns ELSE {"positive"}]
  /\ Cardinality({ i \in Points : diag[i] # "positive" }) <= 1
  /\ pass = "count"
  /\ row = 0
  /\ markers = Cleared
  /\ next = 0
  /\ p_rows_ptr = [i \in 0 .. N |-> 0]
  /\ p_cols_ind = <<>>
  /\ strayed = {}
-----------------------------------------------------------------------------
UsesFarPoints == builder \in {"standart2", "standart3"}

(* The coarse points a fine row meets, in the order of A: those it strongly *)
(* depends on and, for the extended builders, those its strong fine points  *)
(* depend on.                                                               *)
CoarseOf(i) == InOrder(StrongRow(i) \cap coarse)
Met(i) ==
  IF UsesFarPoints
    THEN LET strong == InOrder(StrongRow(i))
             via(j) == IF j \in coarse THEN <<j>> ELSE CoarseOf(j)
         IN  FlattenSeq([k \in DOMAIN strong |-> via(strong[k])])
    ELSE CoarseOf(i)

(* An array with x at position p.                                          *)
Written(cols, p, x) ==
  [q \in DOMAIN cols \cup {p} |-> IF q = p THEN x ELSE cols[q]]

(* A coarse point gets the next position unless its mark shows that the     *)
(* current row, which begins at start, has it already.  Near points are met *)
(* once, and not looked up.                                                 *)
Enter(st, c, column, start, lookup) ==
  IF lookup /\ st.marks[c] >= start THEN st
  ELSE [marks |-> [st.marks EXCEPT ![c] = st.next],
        next  |-> st.next + 1,
        cols  |-> Written(st.cols, st.next, column[c])]

(* One row, given by the points it meets, from the position it begins at.  *)
EnterAll(st, seq, column, lookup) ==
  LET after[k \in 0 .. Len(seq)] ==
        IF k = 0 THEN st ELSE Enter(after[k - 1], seq[k], column, st.next, lookup)
  IN  after[Len(seq)]

EnterMet(marks, start, cols) ==
  EnterAll([marks |-> marks, next |-> start, cols |-> cols], Met(row), Numbers, UsesFarPoints)

CountCoarse ==
  /\ pass = "count" /\ row < N /\ row \in coarse
  /\ p_rows_ptr' = [p_rows_ptr EXCEPT ![row + 1] = 1]
  /\ row' = row + 1
  /\ UNCHANGED <<pass, inputs, markers, next, p_cols_ind, strayed>>

(* standart2 marks what it counts; the list of standart3, cur_connections,  *)
(* is of the row alone, and the others count every entry.                   *)
CountFine ==
  LET st == EnterMet(markers, next, <<>>) IN
  /\ pass = "count" /\ row < N /\ row \notin coarse
  /\ IF builder = "standart2"
       THEN /\ p_rows_ptr' = [p_rows_ptr EXCEPT ![row + 1] = st.next - next]
            /\ markers' = st.marks
            /\ next' = st.next
       ELSE /\ p_rows_ptr' = [p_rows_ptr EXCEPT ![row + 1] = Cardinality(ToSet(Met(row)))]
            /\ UNCHANGED <<markers, next>>
  /\ row' = row + 1
  /\ UNCHANGED <<pass, inputs, p_cols_ind, strayed>>

(* Lengths become positions, the columns are allocated with -1 in each and  *)
(* standart2 clears its markers again.                                      *)
ClearedMarkers == IF builder = "standart2" THEN Cleared ELSE markers
Positions ==
  LET upto[i \in 0 .. N] == IF i = 0 THEN 0 ELSE upto[i - 1] + p_rows_ptr[i] IN upto

Allocate ==
  /\ pass = "count" /\ row = N
  /\ p_rows_ptr' = Positions
  /\ p_cols_ind' = [k \in 0 .. Positions[N] - 1 |-> -1]
  /\ markers' = ClearedMarkers
  /\ row' = 0
  /\ pass' = "fill"
  /\ UNCHANGED <<inputs, next, strayed>>

FillCoarse ==
  /\ pass = "fill" /\ row < N /\ row \in coarse
  /\ p_cols_ind' = [p_cols_ind EXCEPT ![p_rows_ptr[row]] = Number(row)]
  /\ row' = row + 1
  /\ UNCHANGED <<pass, inputs, markers, next, p_rows_ptr, strayed>>

(* Where the shares of the strong fine point f go when row i of standart is *)
(* filled: to every negative entry of its row with a position not before    *)
(* the row.                                                                 *)
SharesAnywhere(marks, i, f) == { j \in NegativeRow(f) : marks[j] >= 0 }
Shares(marks, i, f) == { j \in NegativeRow(f) : marks[j] >= p_rows_ptr[i] }

(* The direct builder refuses a negative diagonal and leaves a row it       *)
(* cannot scale as it was allocated; standart gives all columns a position  *)
(* first and then distributes the strong fine entries over them.            *)
FillFine ==
  LET begin == p_rows_ptr[row]
      st == EnterMet(IF builder = "standart3" THEN Cleared ELSE markers, begin, p_cols_ind)
  IN
  /\ pass = "fill" /\ row < N /\ row \notin coarse
  /\ \/ /\ diag[row] = "negative"
        /\ pass' = "failed"
        /\ UNCHANGED <<row, markers, p_cols_ind, strayed>>
     \/ /\ diag[row] = "vanishing"
        /\ row' = row + 1
        /\ UNCHANGED <<pass, markers, p_cols_ind, strayed>>
     \/ /\ diag[row] = "positive"
        /\ p_cols_ind' = st.cols
        /\ markers' = IF builder \in {"standart", "standart2"} THEN st.marks ELSE markers
        /\ strayed' =
             IF builder = "standart"
                /\ \E f \in StrongRow(row) \ coarse :
                     ~ (Shares(st.marks, row, f) \subseteq StrongRow(row) \cap coarse)
             THEN strayed \cup {row} ELSE strayed
        /\ IF st.next = p_rows_ptr[row + 1]
             THEN row' = row + 1 /\ UNCHANGED pass
             ELSE pass' = "failed" /\ UNCHANGED row
  /\ UNCHANGED <<inputs, next, p_rows_ptr>>

Build ==
  \/ CountCoarse \/ CountFine \/ Allocate
  \/ FillCoarse \/ FillFine
=============================================================================
