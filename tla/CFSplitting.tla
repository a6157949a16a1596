---------------------------- MODULE CFSplitting ----------------------------
(***************************************************************************)
(* What amg_coarse_iface::build promises, whatever the algorithm: every     *)
(* point of the matrix is decided once, to be coarse or fine, and stays     *)
(* so; in the end all are decided and the number returned is the number of  *)
(* coarse points.                                                          *)
(***************************************************************************)
EXTENDS Integers, FiniteSets

CONSTANT Points

VARIABLES coarse, fine, count

split == <<coarse, fine, count>>

Undecided == Points \ (coarse \cup fine)

(* Points may be fine before the main loop starts.                         *)
Init ==
  /\ coarse = {}
  /\ fine \in SUBSET Points
  /\ count = 0

Decide ==
  \E new \in SUBSET Undecided :
    /\ new # {}
    /\ \E c \in SUBSET new :
         /\ coarse' = coarse \cup c
         /\ fine' = fine \cup (new \ c)
         /\ count' = count + Cardinality(c)

Spec == Init /\ [][Decide]_split

(* Points go on being decided until none is left.                          *)
LiveSpec == Spec /\ WF_split(Decide)
=============================================================================
