---------------------------- MODULE NewtonProofs ----------------------------
(***************************************************************************)
(* An iteration of Newton.  First the main variables of a cell, for every   *)
(* number of parts, every bound and every sequence of corrections and       *)
(* retries.  Then the linear system: what the solvers report is about the   *)
(* solution they return, and what the loop concludes from it is about that  *)
(* system, for every limit of iterations and restarts and every tolerance.  *)
(***************************************************************************)
EXTENDS MainVariables, LinearSolver, TLAPS

USE MainVariablesAssumption

(* What the switch needs of a cell to repair it: oil and gas never stand in *)
(* a cell whose variables are still those of water alone.                   *)
Water(c) == c.var = MOMG => c.so = 0 /\ c.sg = 0

(* What VariableFitsCell says of an evaluated cell, the ratio of the cells  *)
(* it says nothing about, and that free gas is not the variable of water.   *)
Fits(c, g) ==
  /\ c.var = MOMG => c.so = 0 /\ c.sg = 0 /\ c.sw = One
  /\ c.var = RO => c.sg = 0 /\ (c.gor <= g \/ (c.gor = EPS_DIFF /\ g < EPS_DIFF))
  /\ c.var # RO => c.gor = g
  /\ c.var = SG => ~(None(c.sg) /\ None(c.so))
  /\ c.sg >= 0

IInv ==
  /\ TypeOK
  /\ Water(cell) /\ Water(old.cell)
  /\ pc = "evaluated" => Fits(cell, gorp) /\ last = [var |-> cell.var, gorp |-> gorp]
  /\ pc = "init" /\ last.var = MOMG => cell.var = MOMG
  /\ AppearingOilIsSaturated

-----------------------------------------------------------------------------
(* Undersaturated oil is what the switch takes it for.                      *)
LEMMA UndersaturatedSettles ==
  ASSUME NEW sw, NEW so \in Int, NEW gor \in Int, gorp \in Int,
         gor <= gorp, ~None(so)
  PROVE  LET c == [sw |-> sw, so |-> so, sg |-> 0, gor |-> gor, var |-> RO]
         IN  Evaluated(c) = c
<1> DEFINE c == [sw |-> sw, so |-> so, sg |-> 0, gor |-> gor, var |-> RO]
<1>1. OtherCase(c) = [c EXCEPT !.sg = 0]
  BY DEF OtherCase, SG, RO
<1>2. [c EXCEPT !.sg = 0] = c
  OBVIOUS
<1>3. DoSwitch(c) = c
  BY <1>1, <1>2 DEF DoSwitch, None, SG, RO
<1>4. QED
  BY <1>3 DEF Evaluated, EvaluateCell

(* Neither oil nor gas: what is left is settled.                            *)
LEMMA WaterSettles ==
  ASSUME NEW c, None(c.sg), None(c.so)
  PROVE  LET w == [sw |-> One, so |-> 0, sg |-> 0, gor |-> gorp, var |-> MOMG]
         IN  Evaluated(c) = w /\ Settled(w)
<1> DEFINE w == [sw |-> One, so |-> 0, sg |-> 0, gor |-> gorp, var |-> MOMG]
<1>1. Evaluated(c) = w
  BY DEF Evaluated, EvaluateCell, DoSwitch, MomgCase, MOMG, RO
<1>2. Settled(w)
  BY DEF Settled, Evaluated, EvaluateCell, DoSwitch, MomgCase, None, MOMG, RO
<1>3. QED
  BY <1>1, <1>2

(* Gas that appears is settled, even where it leaves no oil.                *)
LEMMA AppearedSettles ==
  ASSUME NEW sw, NEW so \in Int, NEW sg \in Int, NEW gor \in Int, gorp \in Int,
         ~None(so), sg < One, gor > gorp
  PROVE  LET c == [sw |-> sw, so |-> so, sg |-> sg, gor |-> gor, var |-> RO]
             g == [sw |-> sw, so |-> so - SwitchStep, sg |-> SwitchStep,
                   gor |-> gorp, var |-> SG]
         IN  Evaluated(c) = g /\ Settled(g)
<1> DEFINE c == [sw |-> sw, so |-> so, sg |-> sg, gor |-> gor, var |-> RO]
           g == [sw |-> sw, so |-> so - SwitchStep, sg |-> SwitchStep,
                 gor |-> gorp, var |-> SG]
<1>1. OtherCase(c) = GasAppears(c)
  BY DEF OtherCase, SG, RO
<1>2. DoSwitch(c) = GasAppears(c)
  BY <1>1 DEF DoSwitch, None, SG, RO
<1>3. GasAppears(c) = g
  BY DEF GasAppears
<1>4. EvaluateCell(g) = g
  BY DEF EvaluateCell, SG, RO
<1>5. EvaluateCell(SgCase(g)) = g
  <2>1. SgCase(g) = [sw |-> sw, so |-> so - SwitchStep, sg |-> SwitchStep,
                     gor |-> 0, var |-> SG]
    BY DEF SgCase
  <2>2. QED
    BY <2>1 DEF EvaluateCell, SG, RO
<1>6. g.sg >= 0 /\ ~None(g.sg) /\ g.var = SG
  BY DEF None
<1> HIDE DEF c, g
<1>7. DoSwitch(g) = SgCase(g) \/ DoSwitch(g) = g
  <2>1. CASE None(g.so) \/ g.sg >= One
    BY <1>6, <2>1, Zenon DEF DoSwitch
  <2>2. CASE ~(None(g.so) \/ g.sg >= One)
    BY <1>6, <2>2, Zenon DEF DoSwitch
  <2>3. QED
    BY <2>1, <2>2
<1>8. Evaluated(c) = g
  BY <1>2, <1>3, <1>4 DEF Evaluated
<1>9. Settled(g)
  BY <1>4, <1>5, <1>7 DEF Evaluated, Settled
<1>10. QED
  BY <1>8, <1>9 DEF c, g

(* The ratio of vanishing gas is one the oil can hold, or EPS_DIFF where it *)
(* can hold less.                                                           *)
LEMMA VanishedHolds ==
  ASSUME gorp \in Ratios
  PROVE  /\ VanishedRatio \in 1 .. MaxRatio
         /\ VanishedRatio <= gorp \/ (VanishedRatio = EPS_DIFF /\ gorp < EPS_DIFF)
         /\ VanishedRatio > gorp => VanishedRatio = EPS_DIFF /\ gorp < EPS_DIFF
  BY DEF VanishedRatio, Ratios, EPS_DIFF

(* A cell that fits its variable settles at the second look at the latest.  *)
LEMMA FittingSettles ==
  ASSUME NEW c \in Cells, gorp \in Ratios, Fits(c, gorp)
  PROVE  /\ Settled(c) \/ OilUsedUp(c) \/ HoldsTooMuch(c)
         /\ Settled(Evaluated(c))
<1> USE DEF Cells, Ratios, Fits, SG, RO, MOMG
<1>0. Settled(c) => Settled(Evaluated(c))
  BY DEF Settled
<1>1. /\ c = [sw |-> c.sw, so |-> c.so, sg |-> c.sg, gor |-> c.gor, var |-> c.var]
      /\ c.so \in Int /\ c.sg \in Int /\ c.gor \in Int /\ gorp \in Int /\ One > 0
  OBVIOUS
<1>2. CASE c.var = MOMG
  <2>1. None(c.sg) /\ None(c.so)
    BY <1>2 DEF None
  <2>2. c = [sw |-> One, so |-> 0, sg |-> 0, gor |-> gorp, var |-> MOMG]
    BY <1>1, <1>2
  <2>3. Settled(c)
    BY <2>1, <2>2, WaterSettles
  <2>4. QED
    BY <1>0, <2>3
<1>3. CASE c.var = SG
  <2>1. /\ ~(None(c.sg) /\ None(c.so)) /\ c.sg >= 0 /\ c.gor = gorp
    BY <1>3
  <2>2. EvaluateCell(SgCase(c)) = c /\ EvaluateCell(c) = c
    <3>1. SgCase(c) = [sw |-> c.sw, so |-> c.so, sg |-> c.sg, gor |-> 0, var |-> SG]
      BY DEF SgCase
    <3>2. EvaluateCell(SgCase(c))
            = [sw |-> c.sw, so |-> c.so, sg |-> c.sg, gor |-> gorp, var |-> SG]
      BY <3>1 DEF EvaluateCell
    <3>3. EvaluateCell(c) = [c EXCEPT !.gor = gorp]
      BY <1>3 DEF EvaluateCell
    <3>4. [c EXCEPT !.gor = gorp] = c
      BY <2>1
    <3>5. QED
      BY <1>1, <1>3, <2>1, <3>2, <3>3, <3>4
  <2>3. DoSwitch(c) = SgCase(c) \/ DoSwitch(c) = c
    BY <1>3, <2>1 DEF DoSwitch
  <2>4. Settled(c)
    BY <2>2, <2>3 DEF Settled, Evaluated
  <2>5. QED
    BY <1>0, <2>4
<1>4. CASE c.var = RO /\ None(c.so)
  <2>1. None(c.sg)
    BY <1>4 DEF None
  <2>2. Settled(Evaluated(c))
    BY <1>4, <2>1, WaterSettles
  <2>3. QED
    BY <1>4, <2>2 DEF OilUsedUp
<1>5. CASE c.var = RO /\ ~None(c.so) /\ c.gor <= gorp
  <2>1. c = [sw |-> c.sw, so |-> c.so, sg |-> 0, gor |-> c.gor, var |-> RO]
    BY <1>1, <1>5
  <2>2. Settled(c)
    BY <1>1, <1>5, <2>1, UndersaturatedSettles DEF Settled
  <2>3. QED
    BY <1>0, <2>2
<1>6. CASE c.var = RO /\ ~None(c.so) /\ c.gor > gorp
  <2>1. c.sg = 0 /\ c.gor = EPS_DIFF /\ gorp < EPS_DIFF
    BY <1>6
  <2> DEFINE r == [sw |-> c.sw, so |-> c.so, sg |-> 0, gor |-> c.gor, var |-> RO]
             g == [sw |-> c.sw, so |-> c.so - SwitchStep, sg |-> SwitchStep,
                   gor |-> gorp, var |-> SG]
  <2>2. c = r
    BY <1>1, <1>6, <2>1
  <2>3. 0 \in Int /\ 0 < One /\ c.gor > gorp
    BY <1>1, <1>6
  <2>4. Evaluated(r) = g /\ Settled(g)
    BY ONLY <1>1, <1>6, <2>3, AppearedSettles
  <2> HIDE DEF r, g
  <2>5. Settled(Evaluated(c))
    BY ONLY <2>2, <2>4
  <2>6. QED
    BY <1>6, <2>1, <2>5 DEF HoldsTooMuch
<1>7. QED
  BY <1>1, <1>2, <1>3, <1>4, <1>5, <1>6

(* do_switch, whichever of its cases it takes, leaves a cell that fits its  *)
(* variable once the ratio is set.                                          *)
LEMMA SwitchFits ==
  ASSUME NEW c \in Cells, Water(c), gorp \in Ratios
  PROVE  /\ Evaluated(c) \in Cells
         /\ Fits(Evaluated(c), gorp)
         /\ Water(Evaluated(c))
<1> USE DEF Cells, Ratios, Fits, Water, None, SG, RO, MOMG
<1> DEFINE E == Evaluated(c)
<1>1. CASE None(c.sg) /\ None(c.so)
  <2>1. E = [sw |-> One, so |-> 0, sg |-> 0, gor |-> gorp, var |-> MOMG]
    BY <1>1 DEF Evaluated, EvaluateCell, DoSwitch, MomgCase
  <2>2. QED
    BY <2>1
<1>2. CASE ~(None(c.sg) /\ None(c.so)) /\ (None(c.so) \/ c.sg >= One)
  <2>1. E = [sw |-> c.sw, so |-> c.so, sg |-> c.sg, gor |-> gorp, var |-> SG]
    BY <1>2 DEF Evaluated, EvaluateCell, DoSwitch, SgCase
  <2>2. QED
    BY <1>2, <2>1
<1>3. CASE ~None(c.so) /\ c.sg < One /\ c.var = SG /\ c.sg >= 0
  <2>1. E = [sw |-> c.sw, so |-> c.so, sg |-> c.sg, gor |-> gorp, var |-> SG]
    BY <1>3 DEF Evaluated, EvaluateCell, DoSwitch
  <2>2. QED
    BY <1>3, <2>1
<1>4. CASE ~None(c.so) /\ c.sg < One /\ c.var = SG /\ c.sg < 0
  <2>1. OtherCase(c) = GasVanishes(c)
    BY <1>4 DEF OtherCase
  <2>2. DoSwitch(c) = GasVanishes(c)
    BY <1>4, <2>1 DEF DoSwitch
  <2>3. E = [sw |-> c.sw, so |-> c.so + c.sg, sg |-> 0, gor |-> VanishedRatio, var |-> RO]
    BY <2>2 DEF Evaluated, EvaluateCell, GasVanishes
  <2>4. QED
    BY <1>4, <2>3, VanishedHolds DEF EPS_DIFF
<1>5. CASE ~None(c.so) /\ c.sg < One /\ c.var = RO /\ c.gor <= gorp
  <2>1. OtherCase(c) = [c EXCEPT !.sg = 0]
    BY <1>5 DEF OtherCase
  <2>2. DoSwitch(c) = [c EXCEPT !.sg = 0]
    BY <1>5, <2>1 DEF DoSwitch
  <2>3. E = [sw |-> c.sw, so |-> c.so, sg |-> 0, gor |-> c.gor, var |-> RO]
    BY <1>5, <2>2 DEF Evaluated, EvaluateCell
  <2>4. QED
    BY <1>5, <2>3
<1>6. CASE ~None(c.so) /\ c.sg < One /\ c.var = RO /\ c.gor > gorp
  <2>1. OtherCase(c) = GasAppears(c)
    BY <1>6 DEF OtherCase
  <2>2. DoSwitch(c) = GasAppears(c)
    BY <1>6, <2>1 DEF DoSwitch
  <2>3. E = [sw |-> c.sw, so |-> c.so - SwitchStep, sg |-> SwitchStep,
             gor |-> gorp, var |-> SG]
    BY <2>2 DEF Evaluated, EvaluateCell, GasAppears
  <2>4. QED
    BY <1>6, <2>3
<1>7. QED
  BY <1>1, <1>2, <1>3, <1>4, <1>5, <1>6

(* A correction keeps a cell of its type, and a cell of water that nothing  *)
(* appears in stays one.                                                    *)
LEMMA CorrectedFits ==
  ASSUME NEW c \in Cells, NEW g \in Ratios, Fits(c, g),
         NEW d \in Solutions(c), NEW repair \in Repairs(c)
  PROVE  /\ Corrected(c, d, repair) \in Cells
         /\ Water(Corrected(c, d, repair))
         /\ c.var = MOMG /\ d.var = RO => Corrected(c, d, repair).gor >= g
<1> USE DEF Cells, Ratios, Fits, Water, EPS_DIFF, SG, RO, MOMG
<1>1. d \in [so : Change, sg : Change, ro : Int, var : {SG, RO, MOMG}]
  BY DEF Solutions, Appearing, Change
<1>2. /\ d.var = MOMG => c.var = MOMG /\ d.so = 0 /\ d.sg = 0
      /\ c.var = MOMG => d.ro \in {0, c.gor} \cup 0 .. c.gor
      /\ c.var = MOMG /\ d.var = RO => d.ro >= 0
      /\ c.var # MOMG => d.ro <= MaxChange
  BY DEF Solutions, Appearing, Change
<1>3. repair \in Int
  BY DEF Repairs
<1>4. WaterShare(c, d) \in Int
  BY <1>1 DEF WaterShare, Change
<1>5. Clamped(c.sw + repair - WaterShare(c, d)) \in 0 .. One
  BY <1>3, <1>4 DEF Clamped
<1>6. Clamped(c.so + d.so) \in 0 .. One
  BY <1>1 DEF Clamped, Change
<1>7. AtMostOne(c.sg + d.sg) \in -MaxChange .. One
  BY <1>1 DEF AtMostOne, Change
<1>8. NotNegative(c.gor + d.ro) \in 0 .. MaxRatio + MaxRatio + MaxChange
  BY <1>1, <1>2 DEF NotNegative
<1>9. Corrected(c, d, repair) \in Cells
  BY <1>1, <1>5, <1>6, <1>7, <1>8 DEF Corrected
<1>10. Water(Corrected(c, d, repair))
  BY <1>1, <1>2 DEF Corrected, Clamped, AtMostOne
<1>11. c.var = MOMG /\ d.var = RO => Corrected(c, d, repair).gor >= g
  BY <1>2 DEF Corrected, NotNegative
<1>12. QED
  BY <1>9, <1>10, <1>11
-----------------------------------------------------------------------------
LEMMA InitIInv == Init => IInv
<1> SUFFICES ASSUME Init PROVE IInv
  OBVIOUS
<1> USE DEF Init, SG, RO, MOMG
<1>1. cell \in Cells /\ Water(cell)
  BY DEF InitialCells, Cells, Ratios, Water, None
<1>2. TypeOK
  BY <1>1 DEF TypeOK, Cells
<1>3. QED
  BY <1>1, <1>2 DEF IInv, AppearingOilIsSaturated

LEMMA NextIInv == IInv /\ [Next]_vars => IInv'
<1> SUFFICES ASSUME IInv, [Next]_vars PROVE IInv'
  OBVIOUS
<1>0. /\ cell \in Cells /\ Water(cell) /\ gorp \in Ratios
      /\ old.cell \in Cells /\ Water(old.cell) /\ old.gorp \in Ratios
  BY DEF IInv, TypeOK
<1>1. CASE Ready
  <2>1. /\ Evaluated(cell) \in Cells /\ Water(Evaluated(cell))
        /\ cell.var = MOMG => Evaluated(cell).var = MOMG
    <3>1. cell.var = MOMG => Evaluated(cell).var = MOMG
      BY <1>0 DEF Water, Evaluated, EvaluateCell, DoSwitch, MomgCase, None, MOMG, RO, SG
    <3>2. QED
      BY <1>0, <3>1, SwitchFits
  <2>2. TypeOK'
    BY <1>1, <2>1 DEF Ready, IInv, TypeOK
  <2>3. AppearingOilIsSaturated'
    BY <1>1, <2>1 DEF Ready, IInv, AppearingOilIsSaturated, RO, MOMG
  <2>4. QED
    BY <1>1, <2>1, <2>2, <2>3 DEF Ready, IInv
<1>2. CASE FiOperator
  <2>1. /\ Evaluated(cell) \in Cells /\ Water(Evaluated(cell))
        /\ Fits(Evaluated(cell), gorp)
    BY <1>0, SwitchFits
  <2>2. TypeOK'
    BY <1>2, <2>1 DEF FiOperator, IInv, TypeOK, Cells
  <2>3. QED
    BY <1>2, <2>1, <2>2 DEF FiOperator, IInv, AppearingOilIsSaturated
<1>3. CASE RestoreSolution
  <2>1. PICK d \in Solutions(cell), repair \in Repairs(cell) :
               cell' = Corrected(cell, d, repair)
    BY <1>3 DEF RestoreSolution
  <2>2. /\ Fits(cell, gorp)
        /\ last = [var |-> cell.var, gorp |-> gorp]
    BY <1>3 DEF RestoreSolution, IInv
  <2>3. /\ cell' \in Cells /\ Water(cell')
        /\ cell.var = MOMG /\ d.var = RO => cell'.gor >= gorp
    BY <1>0, <2>1, <2>2, CorrectedFits
  <2>4. cell'.var = d.var
    BY <2>1 DEF Corrected
  <2>5. TypeOK'
    BY <1>3, <2>3 DEF RestoreSolution, IInv, TypeOK
  <2>6. QED
    BY <1>3, <2>2, <2>3, <2>4, <2>5
    DEF RestoreSolution, IInv, AppearingOilIsSaturated
<1>4. CASE Converged
  <2>1. /\ cell' = cell /\ gorp' = gorp /\ last' = last /\ pc' = "ready"
        /\ pc = "evaluated"
        /\ old' = old \/ old' = [cell |-> cell, gorp |-> gorp]
    BY <1>4 DEF Converged
  <2>2. TypeOK'
    BY <2>1, <1>0 DEF IInv, TypeOK
  <2>3. old'.cell = old.cell \/ old'.cell = cell
    BY <2>1
  <2>4. last.var = cell.var
    BY <2>1 DEF IInv
  <2>5. AppearingOilIsSaturated'
    BY <2>1, <2>4 DEF AppearingOilIsSaturated, RO, MOMG
  <2>6. QED
    BY <1>0, <2>1, <2>2, <2>3, <2>5 DEF IInv, Water
<1>5. CASE RestoreBaseVars
  <2>1. TypeOK'
    BY <1>5, <1>0 DEF RestoreBaseVars, IInv, TypeOK
  <2>2. QED
    BY <1>5, <1>0, <2>1 DEF RestoreBaseVars, IInv, AppearingOilIsSaturated
<1>6. CASE UNCHANGED vars
  BY <1>6 DEF vars, IInv, TypeOK, AppearingOilIsSaturated
<1>7. QED
  BY <1>1, <1>2, <1>3, <1>4, <1>5, <1>6 DEF Next

LEMMA SpecIInv == Spec => []IInv
BY InitIInv, NextIInv, PTL DEF Spec
-----------------------------------------------------------------------------
(* Every variable keeps its type.                                           *)
THEOREM TypeCorrect == Spec => []TypeOK
<1>1. IInv => TypeOK
  BY DEF IInv
<1>2. QED
  BY <1>1, SpecIInv, PTL

(* The equations are never built for a variable the cell does not fit, but  *)
(* for a ratio of EPS_DIFF where the oil can hold less.                     *)
THEOREM EquationsFit == Spec => []VariableFitsCell
<1>1. IInv => VariableFitsCell
  BY DEF IInv, Fits, VariableFitsCell, HoldsTooMuch, SG, RO
<1>2. QED
  BY <1>1, SpecIInv, PTL

(* A cell that is evaluated again where it stands is left alone, but for the *)
(* two states the switch does not accept itself, which the second look       *)
(* settles.                                                                  *)
THEOREM RetriesSettle == Spec => []SwitchSettles
<1>1. IInv => SwitchSettles
  BY FittingSettles DEF IInv, TypeOK, SwitchSettles
<1>2. QED
  BY <1>1, SpecIInv, PTL

(* Oil that appears in a cell of water is added to a saturated one.         *)
THEOREM AppearingIsSaturated == Spec => []AppearingOilIsSaturated
<1>1. IInv => AppearingOilIsSaturated
  BY DEF IInv
<1>2. QED
  BY <1>1, SpecIInv, PTL

(* A correction that is not cut keeps the sum of the saturations.           *)
LEMMA CorrectionKeepsSum ==
  ASSUME NEW c \in Cells, NEW d \in Solutions(c), NEW repair \in Repairs(c),
         c.var # MOMG, Total(c) = One,
         Corrected(c, d, repair).sw \in 1 .. One - 1,
         Corrected(c, d, repair).so \in 1 .. One - 1,
         Corrected(c, d, repair).sg < One
  PROVE  Total(Corrected(c, d, repair)) = One
<1>1. d.so \in Int /\ d.sg \in Int
  <2>1. CASE c.var = SG
    BY <2>1 DEF Solutions, Change, SG, RO, MOMG
  <2>2. CASE c.var = RO
    BY <2>2 DEF Solutions, Change, SG, RO, MOMG
  <2>3. QED
    BY <2>1, <2>2 DEF Cells
<1>2. repair = 0
  BY DEF Repairs
<1>3. c.sw \in Int /\ c.so \in Int /\ c.sg \in Int
  BY DEF Cells
<1>4. Corrected(c, d, repair).sw = c.sw - d.so - d.sg
  BY <1>1, <1>2, <1>3 DEF Corrected, Clamped, WaterShare
<1>5. Corrected(c, d, repair).so = c.so + d.so
  BY <1>1, <1>3 DEF Corrected, Clamped
<1>6. Corrected(c, d, repair).sg = c.sg + d.sg
  BY <1>1, <1>3 DEF Corrected, AtMostOne
<1>7. QED
  BY <1>1, <1>3, <1>4, <1>5, <1>6 DEF Total

(* The water takes what the solved saturations leave.                       *)
THEOREM SumsAreKept == Spec => SumLostByCutOnly
<1>1. IInv /\ [Next]_vars => [SumKept]_vars
  <2> SUFFICES ASSUME IInv, Next, pc = "evaluated" PROVE SumKept \/ UNCHANGED vars
    BY DEF SumKept
  <2>1. CASE RestoreSolution
    BY <2>1, CorrectionKeepsSum DEF RestoreSolution, SumKept, IInv, TypeOK
  <2>2. CASE Converged
    BY <2>2 DEF Converged, SumKept
  <2>3. CASE RestoreBaseVars
    BY <2>3 DEF RestoreBaseVars, SumKept
  <2>4. QED
    BY <2>1, <2>2, <2>3 DEF Next, Ready, FiOperator
<1>2. QED
  BY <1>1, SpecIInv, PTL DEF Spec, SumLostByCutOnly
-----------------------------------------------------------------------------
PlacesOfGmres == {"restart", "column", "update"}
PlacesOfOthers == {"iterate", "correct"}
Places ==
  {"idle", "begin", "report", "judge", "thrown"} \cup PlacesOfGmres \cup PlacesOfOthers

SolverTypeOK ==
  /\ stage \in Places
  /\ method \in {GMRES, BICGSTAB, TFQMR}
  /\ iter \in 0 .. MaxIters
  /\ col \in Nat
  /\ residual \in [norm : Norms, ahead : Int, by : {"matrix", "recurrence"}]
  /\ solved \in Nat

Begun ==
  /\ method = GMRES => stage \notin PlacesOfOthers
  /\ method # GMRES => stage \notin PlacesOfGmres
  /\ stage = "begin" => iter = 0 /\ residual.ahead = 0 /\ residual.by = "matrix"

(* The estimate of gmres is of the planned solution, and is small only at   *)
(* the column the loop stops at; at the head of the loop a small norm is a  *)
(* measured one.                                                            *)
GmresNorm ==
  method = GMRES =>
    /\ stage \in {"restart", "report", "judge"} => residual.ahead = 0
    /\ stage = "column" => ~Within /\ col >= 1
    /\ stage = "column" /\ col = 1 => iter < MaxIters
    /\ stage = "column" /\ col > 1 => residual.ahead = 1
    /\ stage = "update" => residual.ahead = 1 /\ (Within => iter < MaxIters)
    /\ stage = "restart" => (Within => residual.by = "matrix" /\ iter < MaxIters)
    /\ stage = "report" => (Within <=> iter < MaxIters) /\ (Within => residual.by = "matrix")

BicgstabNorm ==
  method = BICGSTAB =>
    /\ stage \in {"iterate", "report", "judge"} => residual.ahead = 0
    /\ stage = "correct" => iter < MaxIters

Stored ==
  stage = "judge" => prop.final = Final \/ (GoodGuess /\ iter = 0)

SolverInv ==
  /\ SolverTypeOK /\ Begun /\ GmresNorm /\ BicgstabNorm /\ Stored
  /\ ReportDescribesSolution /\ VerdictOfThisSolve
-----------------------------------------------------------------------------
(* A norm that meets the tolerance is a number or not, nothing else.        *)
LEMMA MeetsIsBoolean ==
  ASSUME NEW m, NEW b, NEW x
  PROVE  Meets(m, b, x) \in BOOLEAN
  BY DEF Meets

LEMMA Parameters ==
  /\ MaxIters \in Nat /\ MaxIters > 0
  /\ VLen \in Nat /\ VLen > 1
  /\ MaxNorm \in Nat /\ MaxNorm > 0
  /\ Methods \subseteq {"gmres", "bicgstab", "tfqmr"}
  BY LinearSolverAssumption DEF GMRES, BICGSTAB, TFQMR

LEMMA SolverInitInv == SolverInit => SolverInv
<1> SUFFICES ASSUME SolverInit PROVE SolverInv
  OBVIOUS
<1> USE Parameters DEF SolverInit, GMRES, BICGSTAB, TFQMR
<1>1. SolverTypeOK
  BY DEF SolverTypeOK, Places, PlacesOfGmres, PlacesOfOthers, Measured, Norms
<1>2. Begun /\ GmresNorm /\ BicgstabNorm /\ Stored
  BY DEF Begun, GmresNorm, BicgstabNorm, Stored, PlacesOfGmres, PlacesOfOthers
<1>3. ReportDescribesSolution /\ VerdictOfThisSolve
  BY DEF ReportDescribesSolution, VerdictOfThisSolve
<1>4. QED
  BY <1>1, <1>2, <1>3 DEF SolverInv
-----------------------------------------------------------------------------
(* Every step keeps the claims; an action disturbs those of the places it   *)
(* goes to.                                                                 *)
LEMMA SolverStepInv == SolverInv /\ [SolverNext]_solver_vars => SolverInv'
<1> SUFFICES ASSUME SolverInv, [SolverNext]_solver_vars PROVE SolverInv'
  OBVIOUS
<1> USE Parameters DEF SolverInv, SolverTypeOK, Places, PlacesOfGmres, PlacesOfOthers, Norms,
      Measured, Recurred, AfterUpdate, Begun, GmresNorm, BicgstabNorm, Stored,
      ReportDescribesSolution, VerdictOfThisSolve, Within, Final, GoodGuess,
      GMRES, BICGSTAB, TFQMR
<1>1. CASE SetupFails
  BY <1>1, MeetsIsBoolean DEF SetupFails
<1>2. CASE BeginSolve
  BY <1>2, MeetsIsBoolean DEF BeginSolve
<1>3. CASE FirstResidual
  BY <1>3, MeetsIsBoolean DEF FirstResidual
<1>4. CASE PreconditionerFails
  BY <1>4, MeetsIsBoolean DEF PreconditionerFails
<1>5. CASE Breakdown
  BY <1>5, MeetsIsBoolean DEF Breakdown
<1>6. CASE Exhausted
  BY <1>6, MeetsIsBoolean DEF Exhausted
<1>7. CASE Restart
  BY <1>7, MeetsIsBoolean DEF Restart
<1>8. CASE Column
  BY <1>8, MeetsIsBoolean DEF Column, Estimates
<1>9. CASE LastColumn
  BY <1>9, MeetsIsBoolean DEF LastColumn
<1>10. CASE Update
  BY <1>10, MeetsIsBoolean DEF Update, NextIter
<1>11. CASE HalfStep
  BY <1>11, MeetsIsBoolean DEF HalfStep
<1>12. CASE Correct
  BY <1>12, MeetsIsBoolean DEF Correct
<1>13. CASE QuasiMinimalStep
  BY <1>13, MeetsIsBoolean DEF QuasiMinimalStep
<1>14. CASE Report
  BY <1>14, MeetsIsBoolean DEF Report, Results
<1>15. CASE Judge
  BY <1>15, MeetsIsBoolean DEF Judge, Acceptable, AtMost
<1>16. CASE UNCHANGED solver_vars
  BY <1>16 DEF solver_vars
<1>17. QED
  BY <1>1, <1>2, <1>3, <1>4, <1>5, <1>6, <1>7, <1>8, <1>9, <1>10, <1>11, <1>12,
     <1>13, <1>14, <1>15, <1>16 DEF SolverNext, SolveStep
-----------------------------------------------------------------------------
LEMMA SolverInductive == SolverSpec => []SolverInv
  BY SolverInitInv, SolverStepInv, PTL DEF SolverSpec

(* The places, counters and norms of the solvers keep their ranges.         *)
THEOREM SolverTypeCorrect == SolverSpec => []SolverTypeOK
<1>1. SolverInv => SolverTypeOK
  BY DEF SolverInv
<1>2. QED
  BY <1>1, SolverInductive, PTL

(* The norm gmres and bicgstab report is that of the solution they return,  *)
(* and gmres reports success exactly when it measured a residual within the *)
(* tolerance.                                                               *)
THEOREM ReportsDescribe == SolverSpec => []ReportDescribesSolution
<1>1. SolverInv => ReportDescribesSolution
  BY DEF SolverInv
<1>2. QED
  BY <1>1, SolverInductive, PTL

(* solve_jacobian judges an iteration of Newton by its own system, except   *)
(* for a right hand side a method other than gmres returns from at once.    *)
THEOREM VerdictsOfTheirSolve == SolverSpec => []VerdictOfThisSolve
<1>1. SolverInv => VerdictOfThisSolve
  BY DEF SolverInv
<1>2. QED
  BY <1>1, SolverInductive, PTL
=============================================================================
