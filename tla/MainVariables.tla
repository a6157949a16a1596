--------------------------- MODULE MainVariables ---------------------------
(***************************************************************************)
(* The main variables of a cell with water, oil and gas, through the Newton *)
(* iterations of a step and its retries.  Which unknowns are solved for     *)
(* depends on the state of the cell: with free gas the gas saturation, with *)
(* undersaturated oil the dissolved gas, with neither the masses of oil and *)
(* gas.  Every evaluation of the equations begins with switch_main_vars,    *)
(* every correction writes saturations the next switch has to repair, and a *)
(* failed step restores all of it.                                          *)
(*                                                                          *)
(* Saturations are whole numbers of parts, One being 1: the 1e-4 of a       *)
(* switch is SwitchStep parts, 1e-7 and EPS_DIFF are less than one part.    *)
(* The gas-oil ratio is counted in units of EPS_DIFF, the 1e-4 of a switch  *)
(* being RatioStep of them, and the pressure of the cell stands for the     *)
(* ratio it saturates oil at.  That ratio is 0 at the lowest pressure of a  *)
(* table, and negative where the table is continued below it.               *)
(***************************************************************************)
EXTENDS Integers

CONSTANTS
  One,         \* parts of a saturation of 1
  SwitchStep,  \* the gas a cell starts with when gas appears
  RatioStep,   \* how far below saturation oil is when its gas vanishes
  MaxRatio,    \* bounds on the ratios oil saturates at, above 0
  BelowZero,   \* and below it
  MaxChange    \* bound on the changes of one correction

ASSUME MainVariablesAssumption ==
  /\ One \in Nat \ {0}
  /\ SwitchStep \in 1 .. One
  /\ RatioStep \in Nat \ {0}
  /\ MaxRatio \in Nat \ {0}
  /\ BelowZero \in Nat
  /\ MaxChange \in Nat

EPS_DIFF == 1
Ratios   == -BelowZero .. MaxRatio

SG   == "FI_SG_VAR"
RO   == "FI_RO_VAR"
MOMG == "FI_MOMG_VAR"

VARIABLES
  pc,     \* where the iteration stands
  cell,   \* saturations, gas_oil_ratio and main_variable of the cell
  gorp,   \* the ratio oil saturates at, at the pressure of the cell
  old,    \* old_data_: the cell and its pressure when the step began
  last    \* the variable and the saturated ratio of the evaluation before

vars == <<pc, cell, gorp, old, last>>

Total(c) == c.sw + c.so + c.sg
None(s) == s <= 0

(* How equil_model and explicit_model leave a cell.                         *)
InitialCells ==
  {[sw |-> One - so - sg, so |-> so, sg |-> sg, gor |-> gor,
    var |-> IF ~None(sg) THEN SG ELSE IF None(so) THEN MOMG ELSE RO] :
     so \in 0 .. One, sg \in 0 .. One, gor \in Ratios}

Init ==
  /\ pc = "init"
  /\ cell \in {c \in InitialCells : c.sw >= 0}
  /\ gorp \in Ratios
  /\ old = [cell |-> cell, gorp |-> gorp]
  /\ last = [var |-> cell.var, gorp |-> gorp]
-----------------------------------------------------------------------------
(* Neither oil nor gas: the cell is water and nothing else.                 *)
MomgCase == [sw |-> One, so |-> 0, sg |-> 0, gor |-> 0, var |-> MOMG]

(* No oil, or nothing but gas.                                              *)
SgCase(c) == [sw |-> c.sw, so |-> c.so, sg |-> c.sg, gor |-> 0, var |-> SG]

(* Gas that became negative is taken from the oil, which holds a little     *)
(* less than it could, though never less than EPS_DIFF: where it could hold *)
(* less than that, it holds too much.                                       *)
VanishedRatio ==
  IF gorp - RatioStep < EPS_DIFF THEN EPS_DIFF ELSE gorp - RatioStep
GasLeftNegative(c) ==
  [c EXCEPT !.so = @ + c.sg, !.gor = VanishedRatio, !.var = RO]
GasVanishes(c) ==
  [sw |-> c.sw, so |-> c.so + c.sg, sg |-> 0, gor |-> VanishedRatio, var |-> RO]

(* Oil that holds more than it can gives room to a little free gas.         *)
GasBesideRatio(c) ==
  [c EXCEPT !.so = @ - SwitchStep, !.sg = SwitchStep, !.gor = gorp]
GasAppears(c) ==
  [sw |-> c.sw, so |-> c.so - SwitchStep, sg |-> SwitchStep, gor |-> gorp, var |-> SG]

OtherCase(c) ==
  CASE c.var = RO /\ c.gor <= gorp -> [c EXCEPT !.sg = 0]
    [] c.var = RO /\ c.gor > gorp  -> GasAppears(c)
    [] c.var = SG /\ c.sg < 0      -> GasVanishes(c)
    [] OTHER                       -> c

DoSwitch(c) ==
  IF None(c.sg) /\ None(c.so)                THEN MomgCase
  ELSE IF None(c.so) \/ c.sg >= One          THEN SgCase(c)
  ELSE IF c.var = SG /\ c.sg >= 0            THEN c
  ELSE OtherCase(c)

(* The evaluation of the cell: only undersaturated oil keeps its ratio.     *)
EvaluateCell(c) == IF c.var = RO THEN c ELSE [c EXCEPT !.gor = gorp]

Evaluated(c) == EvaluateCell(DoSwitch(c))

(* The initial evaluation of main_loop_calc::ready, saved as the state of   *)
(* the first step.                                                          *)
Ready ==
  /\ pc = "init"
  /\ pc' = "ready"
  /\ cell' = Evaluated(cell)
  /\ old' = [cell |-> cell', gorp |-> gorp]
  /\ UNCHANGED <<gorp, last>>

(* fi_operator: the switch, then the properties and the equations.          *)
FiOperator ==
  /\ pc = "ready"
  /\ pc' = "evaluated"
  /\ cell' = Evaluated(cell)
  /\ last' = [var |-> cell'.var, gorp |-> gorp]
  /\ UNCHANGED <<gorp, old>>
-----------------------------------------------------------------------------
Change == -MaxChange .. MaxChange

(* calc_approx_so_sg_ro: the oil and gas that masses solved for amount to.  *)
(* Gas beyond what the oil can hold is free, gas without oil is all free;   *)
(* oil without gas has a ratio of 0.                                        *)
Appearing(c) ==
  {[so |-> 0, sg |-> 0, ro |-> 0, var |-> MOMG]}
    \cup {[so |-> so, sg |-> 0, ro |-> ro, var |-> RO] :
            so \in 1 .. MaxChange, ro \in {0} \cup 0 .. c.gor}
    \cup {[so |-> so, sg |-> sg, ro |-> c.gor, var |-> SG] :
            so \in 0 .. MaxChange, sg \in 1 .. MaxChange}

(* What a solution changes, by the variables it was solved for.             *)
Solutions(c) ==
  CASE c.var = SG   -> {[so |-> so, sg |-> sg, ro |-> 0, var |-> SG] :
                          so \in Change, sg \in Change}
    [] c.var = RO   -> {[so |-> so, sg |-> 0, ro |-> ro, var |-> RO] :
                          so \in Change, ro \in Change}
    [] c.var = MOMG -> Appearing(c)

(* sp_diagonal: what of the solution the water makes room for.  Oil and gas *)
(* that appear in a cell of water alone have no part in its water.          *)
OilOnly(c, d) == IF c.var = MOMG THEN 0 ELSE d.so
WaterShare(c, d) == IF c.var = MOMG THEN 0 ELSE d.so + d.sg

Clamped(s) == IF s < 0 THEN 0 ELSE IF s > One THEN One ELSE s
AtMostOne(s) == IF s > One THEN One ELSE s
NotNegative(r) == IF r < 0 THEN 0 ELSE r

(* What is missing from One is put into the water, all of it by a whole     *)
(* correction and a part of it by a reduced one.                            *)
Repairs(c) == {r \in -2 * One .. 2 * One :
                 \/ Total(c) <= One /\ r \in 0 .. One - Total(c)
                 \/ Total(c) > One /\ r \in One - Total(c) .. 0}

(* The ratio calc_approx_so_sg_ro returns is added like a change of it.     *)
RatioOfMasses(c, d, repair) ==
  [sw  |-> Clamped(c.sw + repair - WaterShare(c, d)),
   so  |-> Clamped(c.so + d.so),
   sg  |-> AtMostOne(c.sg + d.sg),
   gor |-> IF c.var = MOMG THEN d.ro ELSE NotNegative(c.gor + d.ro),
   var |-> d.var]
Corrected(c, d, repair) ==
  [sw  |-> Clamped(c.sw + repair - WaterShare(c, d)),
   so  |-> Clamped(c.so + d.so),
   sg  |-> AtMostOne(c.sg + d.sg),
   gor |-> NotNegative(c.gor + d.ro),
   var |-> d.var]

(* restore_solution: the correction, and the pressure that comes with it.   *)
RestoreSolution ==
  /\ pc = "evaluated"
  /\ pc' = "ready"
  /\ \E d \in Solutions(cell), repair \in Repairs(cell) :
       cell' = Corrected(cell, d, repair)
  /\ gorp' \in Ratios
  /\ UNCHANGED <<old, last>>

(* The norms are small: the step ends and the next one starts from the cell *)
(* as it was evaluated, or the wells ask for another evaluation.            *)
Converged ==
  /\ pc = "evaluated"
  /\ pc' = "ready"
  /\ old' \in {old, [cell |-> cell, gorp |-> gorp]}
  /\ UNCHANGED <<cell, gorp, last>>

(* newton_iter_fail: restore_base_vars.                                     *)
RestoreBaseVars ==
  /\ pc = "evaluated"
  /\ pc' = "ready"
  /\ cell' = old.cell
  /\ gorp' = old.gorp
  /\ UNCHANGED <<old, last>>

Next == Ready \/ FiOperator \/ RestoreSolution \/ Converged \/ RestoreBaseVars

Spec == Init /\ [][Next]_vars
-----------------------------------------------------------------------------
Cells == [sw : 0 .. One, so : -MaxChange - One .. One, sg : -MaxChange .. One,
          gor : -BelowZero .. MaxRatio + MaxRatio + MaxChange, var : {SG, RO, MOMG}]

(* The type of every variable.                                              *)
TypeOK ==
  /\ pc \in {"init", "ready", "evaluated"}
  /\ cell \in Cells
  /\ gorp \in Ratios
  /\ old \in [cell : Cells, gorp : Ratios]
  /\ last \in [var : {SG, RO, MOMG}, gorp : Ratios]

(* The equations are never built for a variable the cell does not fit: a    *)
(* cell of masses is water and nothing else, undersaturated oil has no free *)
(* gas beside it and holds no more than its pressure lets it, and free gas  *)
(* is never negative and lies over saturated oil.  The corrections promise  *)
(* none of this; the switch at the head of fi_operator has to restore it.   *)
(* It does, but for oil whose gas vanished where the pressure lets it hold  *)
(* less than EPS_DIFF: that oil is evaluated with a ratio of EPS_DIFF.      *)
HoldsTooMuch(c) == c.var = RO /\ c.gor = EPS_DIFF /\ gorp < EPS_DIFF
VariableFitsCell ==
  pc = "evaluated" =>
    /\ cell.var = MOMG => cell.so = 0 /\ cell.sg = 0 /\ cell.sw = One
    /\ cell.var = RO => cell.sg = 0 /\ (cell.gor <= gorp \/ HoldsTooMuch(cell))
    /\ cell.var = SG => cell.sg >= 0 /\ cell.gor = gorp

(* A step that is evaluated again where it stands (the wells changed, the   *)
(* step was accepted, or the retry went back to the saved state) should be  *)
(* evaluated at the same cell, so that a retry solves the problem that      *)
(* failed.  The switch leaves two states behind that it does not accept     *)
(* itself: oil that was more than used up by negative gas, which is water   *)
(* at the second look, and oil that holds too much, out of which the second *)
(* look takes free gas.  The second look settles these as well: cells do    *)
(* not go back and forth between variables at one pressure.                 *)
Settled(c) == Evaluated(c) = c
OilUsedUp(c) == c.var = RO /\ None(c.so)
SwitchSettles ==
  pc = "evaluated" =>
    /\ Settled(cell) \/ OilUsedUp(cell) \/ HoldsTooMuch(cell)
    /\ Settled(Evaluated(cell))

(* A cell whose saturations sum to 1 loses that sum only where a correction *)
(* is cut at 0 or 1, or where oil or gas appears in a cell of water: the    *)
(* water takes exactly what the solved saturations leave, whichever pair    *)
(* of variables was solved for.                                             *)
SumKept ==
  /\ pc = "evaluated" /\ cell.var # MOMG
  /\ Total(cell) = One /\ cell' # old.cell
  /\ cell'.sw \in 1 .. One - 1 /\ cell'.so \in 1 .. One - 1 /\ cell'.sg < One
  => Total(cell') = One
SumLostByCutOnly == [][SumKept]_vars

(* Oil that appears in a cell of water is never less saturated than at the  *)
(* pressure it appeared at, though calc_approx_so_sg_ro computes the ratio  *)
(* the masses give it: that ratio is added to the saturated one.            *)
AppearingOilIsSaturated ==
  pc = "ready" /\ last.var = MOMG /\ cell.var = RO /\ cell # old.cell =>
    cell.gor >= last.gorp
=============================================================================
