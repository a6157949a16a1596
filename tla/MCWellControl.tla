--------------------------- MODULE MCWellControl ---------------------------
(* Values for the model checker.                                           *)
EXTENDS WellControl

CellPressures == {2, 5}
\* Below every limit, between them, at one, and above the cells.
WellPressures == {0, 3, 4, 7}
LimitsOfBhp   == {1, 4}
LimitsOfRate  == {1, 3}
=============================================================================
