------------------------------ MODULE MCGraphs ------------------------------
(* Strength relations and draws for TLC.                                   *)
EXTENDS StrengthGraph

AllRelations == SUBSET { e \in (1 .. N) \X (1 .. N) : e[1] # e[2] }

SymmetricRelations ==
  { R \in AllRelations : \A e \in R : <<e[2], e[1]>> \in R }

(* Every symmetric relation, and every other one with few marks.           *)
FewMarks == 3
MixedRelations ==
  SymmetricRelations \cup { R \in AllRelations : Cardinality(R) <= FewMarks }

(* The outcomes of rand (): all of them, and those that are either all     *)
(* inside the range or all at its ends.                                    *)
AllDraws == [1 .. N -> 0 .. RandMax]
InnerOrEndDraws == [1 .. N -> 1 .. RandMax - 1] \cup [1 .. N -> {0, RandMax}]
=============================================================================
