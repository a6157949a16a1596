---------------------------- MODULE MCMultigrid ----------------------------
(* A preconditioner, and a solver of up to two cycles.                     *)
EXTENDS Multigrid

PreconditionerOrSolver == 1 .. 2
=============================================================================
