----------------------------- MODULE MCGalerkin -----------------------------
(* Every symmetric strength relation, and every other one with few marks.  *)
EXTENDS Galerkin

AllRelations == SUBSET { e \in (0 .. N - 1) \X (0 .. N - 1) : e[1] # e[2] }
FewMarks == 2
MixedRelations ==
  { R \in AllRelations : \/ Cardinality(R) <= FewMarks
                        \/ \A e \in R : <<e[2], e[1]>> \in R }
AllBuilders == {"direct", "standart", "standart2", "standart3"}
=============================================================================
