------------------------------ MODULE Galerkin ------------------------------
(***************************************************************************)
(* A level of amg_solver::setup in detail: the builder of P, and then       *)
(* bcsr::build_transpose and bcsr::triple_matrix_product, which make R, the *)
(* transpose of P, and R A P, the matrix of the next level.                 *)
(*                                                                         *)
(* Like the builders, the product counts the columns of each row, allocates *)
(* and then fills.  Every row of A begins with its diagonal, and smbuilder, *)
(* the coarsers, the builders and the smoothers all count on it.            *)
(***************************************************************************)
EXTENDS Interpolation

VARIABLES
  r,         \* rows of R: sequences of points
  p_marker,  \* the position a column has in R A P
  counter,   \* index_counter
  rap_ptr,   \* rows_ptr of R A P
  rap_cols   \* cols_ind of R A P

product == <<r, p_marker, counter, rap_ptr, rap_cols>>
allVars == <<build_vars, product>>

CoarsePoints == 0 .. Cardinality(coarse) - 1
NoMarks == [j \in CoarsePoints |-> -1]

InitLevel ==
  /\ BuilderInit
  /\ r = <<>>
  /\ p_marker = <<>>
  /\ counter = 0
  /\ rap_ptr = <<>>
  /\ rap_cols = <<>>

RowOfP(i) == [k \in 1 .. p_rows_ptr[i + 1] - p_rows_ptr[i] |-> p_cols_ind[p_rows_ptr[i] + k - 1]]
RowOfA(i) == <<i>> \o InOrder(StrongRow(i) \cup NegativeRow(i))

BuildP ==
  /\ Build
  /\ UNCHANGED product

(* build_transpose sorts the entries of P by columns, row after row.  An    *)
(* entry the builder left at -1 takes it outside its arrays.                *)
Transpose ==
  /\ pass = "fill" /\ row = N
  /\ \/ /\ \E k \in DOMAIN p_cols_ind : p_cols_ind[k] < 0
        /\ pass' = "undefined"
        /\ UNCHANGED product
     \/ /\ \A k \in DOMAIN p_cols_ind : p_cols_ind[k] >= 0
        /\ pass' = "count_product"
        /\ r' = [c \in CoarsePoints |->
                   InOrder({ i \in Points : c \in ToSet(RowOfP(i)) })]
        /\ p_marker' = NoMarks
        /\ rap_ptr' = [c \in 0 .. Cardinality(coarse) |-> 0]
        /\ UNCHANGED <<counter, rap_cols>>
  /\ row' = 0
  /\ UNCHANGED <<inputs, markers, next, p_rows_ptr, p_cols_ind, strayed>>

(* A sequence without the repetitions of its members.                      *)
Once(seq) ==
  LET firsts == InOrder({ k \in DOMAIN seq : \A l \in 1 .. k - 1 : seq[l] # seq[k] })
  IN  [n \in DOMAIN firsts |-> seq[firsts[n]]]

(* The columns row c of the product meets: each column of A once for the   *)
(* row, by a_marker, and for each the row of P.                             *)
PointsMet(c) == FlattenSeq([k \in DOMAIN r[c] |-> RowOfA(r[c][k])])
ColumnsMet(c) ==
  LET points == Once(PointsMet(c))
  IN  FlattenSeq([k \in DOMAIN points |-> RowOfP(points[k])])

(* A column is new to the row when its position lies before the row.       *)
Themselves == [d \in CoarsePoints |-> d]
VisitAll(cols, seq) ==
  EnterAll([marks |-> p_marker, next |-> counter, cols |-> cols], seq, Themselves, TRUE)

CountProduct ==
  LET st == VisitAll(<<>>, ColumnsMet(row)) IN
  /\ pass = "count_product" /\ row < Cardinality(coarse)
  /\ p_marker' = st.marks
  /\ counter' = st.next
  /\ rap_ptr' = [rap_ptr EXCEPT ![row + 1] = st.next]
  /\ row' = row + 1
  /\ UNCHANGED <<pass, inputs, markers, next, p_rows_ptr, p_cols_ind, strayed, r, rap_cols>>

(* The arrays are allocated and the markers assigned -1 again.             *)
MarksOfCount == p_marker
MarksOfFill == NoMarks
AllocateProduct ==
  /\ pass = "count_product" /\ row = Cardinality(coarse)
  /\ p_marker' = MarksOfFill
  /\ counter' = 0
  /\ row' = 0
  /\ pass' = "fill_product"
  /\ UNCHANGED <<inputs, markers, next, p_rows_ptr, p_cols_ind, strayed, r, rap_ptr, rap_cols>>

(* The second pass writes the diagonal before it looks at the row.         *)
DiagonalAndRow(c) == <<c>> \o ColumnsMet(c)

FillProduct ==
  LET st == VisitAll(rap_cols, DiagonalAndRow(row)) IN
  /\ pass = "fill_product" /\ row < Cardinality(coarse)
  /\ p_marker' = st.marks
  /\ counter' = st.next
  /\ rap_cols' = st.cols
  /\ row' = row + 1
  /\ UNCHANGED <<pass, inputs, markers, next, p_rows_ptr, p_cols_ind, strayed, r, rap_ptr>>

NextLevel ==
  \/ BuildP \/ Transpose
  \/ CountProduct \/ AllocateProduct \/ FillProduct

LevelSpec == InitLevel /\ [][NextLevel]_allVars
-----------------------------------------------------------------------------
(* The state of the three passes keeps its types.                           *)
LevelTypeOK ==
  /\ pass \in {"count", "fill", "failed", "undefined", "count_product", "fill_product"}
  /\ row \in 0 .. N
  /\ markers \in [Points -> Int]
  /\ next \in Nat
  /\ p_rows_ptr \in [0 .. N -> Nat]
  /\ \A k \in DOMAIN p_cols_ind : p_cols_ind[k] \in -1 .. N - 1
  /\ strayed \subseteq Points \ coarse

BuiltP == pass \in {"count_product", "fill_product"}

(* The coarse points that interpolate a point: itself, or those it strongly *)
(* depends on, or those its strong fine points depend on.                   *)
Interpolating(i) ==
  IF i \in coarse THEN {i}
  ELSE (StrongRow(i) \cap coarse)
       \cup IF UsesFarPoints THEN UNION { StrongRow(f) \cap coarse : f \in StrongRow(i) \ coarse }
            ELSE {}

(* The second pass of a builder finds exactly what the first one counted,  *)
(* the columns of a row are its interpolating points, each once, and only   *)
(* the direct builder fails or leaves columns unwritten, for its diagonal.  *)
RowsAsCounted ==
  /\ LevelTypeOK
  /\ BuiltP => \A i \in Points :
       /\ IsInjective(RowOfP(i))
       /\ ToSet(RowOfP(i)) = { Number(c) : c \in Interpolating(i) }
  /\ pass \in {"failed", "undefined"} => \E i \in Points \ coarse : diag[i] # "positive"

(* The shares standart gives away stay with the columns of the row, except  *)
(* in rows that begin at position 0, where the cleared markers of all       *)
(* points look like positions of the row.                                   *)
SharesStayInRow == \A i \in strayed : p_rows_ptr[i] = 0

(* The product fills each row with as many columns as it counted: those the *)
(* composed relation has, each once, and the diagonal before the others, so *)
(* that the next level can be built from it in turn.                        *)
Product(c, d) ==
  \E i, j \in Points :
    /\ c \in ToSet(RowOfP(i)) /\ d \in ToSet(RowOfP(j))
    /\ j \in ToSet(RowOfA(i))
RowOfProduct(c) == [k \in 1 .. rap_ptr[c + 1] - rap_ptr[c] |-> rap_cols[rap_ptr[c] + k - 1]]
ProductAsCounted ==
  pass = "fill_product" =>
    /\ counter = rap_ptr[row]
    /\ \A c \in 0 .. row - 1 :
         /\ IsInjective(RowOfProduct(c))
         /\ ToSet(RowOfProduct(c)) = { d \in CoarsePoints : Product(c, d) }
         /\ RowOfProduct(c)[1] = c
=============================================================================
