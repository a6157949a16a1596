------------------------- MODULE WellControlProofs -------------------------
(***************************************************************************)
(* Proofs about WellControl.  The lemmas follow an evaluation of the well  *)
(* from the inside out: the signs of the inflow, one computation of the    *)
(* rates, process_internal, and process with its own correction.  The      *)
(* inductive invariant adds to the checked properties what the schedule    *)
(* and the restart rely on: a shut well has no rate, a small step never    *)
(* changes the kind of control it saved, and a restart always asks for a   *)
(* new first approximation.                                                *)
(***************************************************************************)
EXTENDS WellControl, TLAPS

Setting ==
  /\ pressure \in Int /\ control \in Controls
  /\ limit \in [bhp : Int, rate : Nat] /\ perf \in BOOLEAN

(* What a pass over the rates guarantees of its result r.                  *)
RatesHold(r) == r.is_work => Flows(r.bhp) /\ r.rate = Drawdown(r.bhp)
InLimit(b)   == Sign * (limit.bhp - b) <= 0

(* The inflow at a pressure is a number, positive where the well flows, and *)
(* the target pressure gives the rate limit.                               *)
LEMMA Inflow ==
  ASSUME Setting
  PROVE  /\ \A b \in Int \cup {NaN} : Flows(b) => b \in Int /\ Drawdown(b) \in Nat
         /\ TargetBhp \in Int /\ Drawdown(TargetBhp) = limit.rate
         /\ \A b \in Int : Sign * (limit.bhp - b) \in Int
<1>1. CASE control.is_production
  BY <1>1, WellParams DEF Setting, Controls, Flows, Drawdown, TargetBhp, Sign
<1>2. CASE ~control.is_production
  BY <1>2, WellParams DEF Setting, Controls, Flows, Drawdown, TargetBhp, Sign
<1> QED BY <1>1, <1>2

(* One computation of the rates: either the well still flows with the rate *)
(* of its final pressure, or it has stopped working.  A result under rate  *)
(* control that started so is within the pressure limit; one that came     *)
(* from pressure control is above its rate limit.                          *)
LEMMA Rates ==
  ASSUME Setting, NEW w \in Well, Flows(w.bhp)
  PROVE  LET r == calc_rate_and_derivs(w) IN
         /\ r \in Well /\ r.open = w.open /\ r.approx = w.approx
         /\ RatesHold(r)
         /\ ~r.is_bhp /\ w.is_bhp => r.rate > limit.rate
         /\ ~r.is_bhp /\ ~w.is_bhp => InLimit(r.bhp) /\ r.bhp = w.bhp
<1> DEFINE q == calc_rate(w)
           s == check(q)
           r == calc_rate_and_derivs(w)
<1>1. w.bhp \in Int /\ Drawdown(w.bhp) \in Nat
  BY Inflow DEF Well
<1>2. /\ q \in Well /\ q.rate = Drawdown(w.bhp) /\ q.bhp = w.bhp
      /\ q.open = w.open /\ q.approx = w.approx /\ q.is_bhp = w.is_bhp
  BY <1>1 DEF calc_rate, Well
<1>3. CASE ~q.is_bhp /\ Sign * (limit.bhp - q.bhp) > 0
  <2>1. s = SwitchToBhp(q)
    BY <1>3 DEF check
  <2>2. s \in Well /\ s.is_bhp /\ s.open = w.open /\ s.approx = w.approx
    BY <1>2, <2>1 DEF SwitchToBhp, Well, Setting
  <2>3. CASE Flows(s.bhp)
    <3>1. r = calc_rate(s)
      BY <2>3 DEF calc_rate_and_derivs
    <3>2. Drawdown(s.bhp) \in Nat
      BY <2>2, <2>3, Inflow DEF Well
    <3>3. r \in Well /\ r.is_bhp /\ r.open = w.open /\ r.approx = w.approx
          /\ r.bhp = s.bhp /\ r.rate = Drawdown(s.bhp)
      BY <2>2, <3>1, <3>2 DEF calc_rate, Well
    <3> QED BY <2>3, <3>3 DEF RatesHold
  <2>4. CASE ~Flows(s.bhp)
    <3>1. r = [s EXCEPT !.is_work = FALSE]
      BY <2>4 DEF calc_rate_and_derivs
    <3>2. r \in Well /\ r.is_bhp /\ ~r.is_work /\ r.open = w.open /\ r.approx = w.approx
      BY <2>2, <3>1 DEF Well
    <3> QED BY <3>2 DEF RatesHold
  <2> QED BY <2>3, <2>4
<1>4. CASE ~(~q.is_bhp /\ Sign * (limit.bhp - q.bhp) > 0)
  <2>1. /\ s \in Well /\ s.bhp = w.bhp /\ s.open = w.open /\ s.approx = w.approx
        /\ ~s.is_bhp /\ w.is_bhp => q.rate > limit.rate
        /\ ~s.is_bhp /\ ~w.is_bhp => InLimit(w.bhp)
    <3> DEFINE over == Sign * (limit.bhp - q.bhp)
    <3>1. over \in Int
      BY <1>1, <1>2, Inflow
    <3>2. ~q.is_bhp => over <= 0
      BY <1>4, <3>1
    <3>3. s = IF q.is_bhp /\ q.rate > limit.rate THEN [q EXCEPT !.is_bhp = FALSE] ELSE q
      BY <1>4 DEF check
    <3>4. ~w.is_bhp => InLimit(w.bhp)
      BY <1>2, <3>2 DEF InLimit
    <3> HIDE DEF over, q, s
    <3> QED BY <1>2, <3>3, <3>4 DEF Well
  <2>2. r = calc_rate(s)
    BY <2>1 DEF calc_rate_and_derivs
  <2>3. /\ r \in Well /\ r.rate = Drawdown(w.bhp) /\ r.bhp = w.bhp
        /\ r.open = w.open /\ r.approx = w.approx /\ r.is_bhp = s.is_bhp
    BY <1>1, <2>1, <2>2 DEF calc_rate, Well
  <2> QED BY <1>2, <2>1, <2>3 DEF RatesHold
<1> QED BY <1>3, <1>4

(* The first approximation changes the pressure and the control only, and  *)
(* nothing of a well under pressure control.                               *)
LEMMA Approximation ==
  ASSUME Setting, NEW w \in Well
  PROVE  LET c == calc_well_pressure(w) IN
         /\ c \in Well /\ c.open = w.open /\ c.approx = w.approx /\ c.rate = w.rate
         /\ w.is_bhp => c = w
<1>1. TargetBhp \in Int
  BY Inflow
<1>2. [w EXCEPT !.bhp = TargetBhp] \in Well
  BY <1>1 DEF Well
<1>3. SwitchToBhp(w) \in Well /\ SwitchToBhp(w).open = w.open
      /\ SwitchToBhp(w).approx = w.approx /\ SwitchToBhp(w).rate = w.rate
  BY DEF SwitchToBhp, Setting, Well
<1> QED BY <1>2, <1>3 DEF calc_well_pressure, Well

(* One pass of process_internal: the result has been approximated, its     *)
(* rates hold, and a well that does not work before its rates are computed *)
(* has none.                                                               *)
LEMMA Pass ==
  ASSUME Setting, NEW w \in Well
  PROVE  LET r == process_internal(w) IN
         /\ r \in Well /\ r.open = w.open /\ r.approx
         /\ RatesHold(r)
         /\ r.is_work /\ ~r.is_bhp => r.rate > limit.rate \/ InLimit(r.bhp)
         /\ r.is_work /\ ~r.is_bhp /\ w.approx /\ ~w.is_bhp
              => InLimit(r.bhp) /\ r.bhp = w.bhp
<1> DEFINE cleared == [w EXCEPT !.rate = 0, !.approx = TRUE]
           c == IF w.approx THEN cleared ELSE calc_well_pressure(cleared)
           d == [c EXCEPT !.is_work = TRUE]
           r == process_internal(w)
<1>1. /\ cleared \in Well /\ cleared.open = w.open /\ cleared.approx
      /\ cleared.is_bhp = w.is_bhp /\ cleared.bhp = w.bhp
  BY DEF Well
<1>2. /\ c \in Well /\ c.open = w.open /\ c.approx
      /\ w.approx /\ ~w.is_bhp => ~c.is_bhp /\ c.bhp = w.bhp
  BY <1>1, Approximation
<1>3. CASE Flows(c.bhp)
  <2>1. /\ d \in Well /\ d.open = w.open /\ d.approx /\ d.bhp = c.bhp
        /\ w.approx /\ ~w.is_bhp => ~d.is_bhp /\ d.bhp = w.bhp
    BY <1>2 DEF Well
  <2>2. r = calc_rate_and_derivs(d)
    BY <1>3 DEF process_internal
  <2>3. Flows(d.bhp)
    BY <1>3, <2>1
  <2> HIDE DEF d, r
  <2>4. /\ r \in Well /\ r.open = d.open /\ r.approx = d.approx /\ RatesHold(r)
        /\ ~r.is_bhp /\ d.is_bhp => r.rate > limit.rate
        /\ ~r.is_bhp /\ ~d.is_bhp => InLimit(r.bhp) /\ r.bhp = d.bhp
    BY <2>1, <2>2, <2>3, Rates
  <2> QED BY <2>1, <2>4 DEF r
<1>4. CASE ~Flows(c.bhp)
  <2>1. r = [c EXCEPT !.is_work = FALSE]
    BY <1>4 DEF process_internal
  <2>2. r \in Well /\ r.open = w.open /\ r.approx /\ ~r.is_work
    BY <1>2, <2>1 DEF Well
  <2> QED BY <2>2 DEF RatesHold
<1> QED BY <1>3, <1>4

(* What an evaluation leaves: a well whose rates belong to its pressure,   *)
(* at its target and within its limit when it is under rate control.       *)
MeetsTarget(r) ==
  r.is_work /\ ~r.is_bhp /\ Controlled => r.rate = limit.rate /\ InLimit(r.bhp)

LEMMA Evaluation ==
  ASSUME Setting, NEW w \in Well, w.open
  PROVE  LET r == process(w) IN
         r \in Well /\ r.open /\ r.approx /\ RatesHold(r) /\ MeetsTarget(r)
<1> DEFINE f == process_internal(w)
           g == [f EXCEPT !.bhp = TargetBhp]
           r == process(w)
<1>1. /\ f \in Well /\ f.open /\ f.approx /\ RatesHold(f)
      /\ f.is_work /\ ~f.is_bhp => f.rate > limit.rate \/ InLimit(f.bhp)
  BY Pass
<1> HIDE DEF f
<1>2. CASE ~f.is_bhp /\ Residual(f) # 0
  <2>1. r = process_internal(g)
    BY <1>2 DEF process, process_impl, f
  <2>2. g \in Well /\ g.open /\ g.approx /\ ~g.is_bhp
    BY <1>1, <1>2, Inflow DEF Well
  <2>3. /\ r \in Well /\ r.open /\ r.approx /\ RatesHold(r)
        /\ r.is_work /\ ~r.is_bhp => InLimit(r.bhp) /\ r.bhp = TargetBhp
    BY <1>1, <2>1, <2>2, Pass DEF Well
  <2>5. r.is_work /\ ~r.is_bhp => r.rate = limit.rate
    BY <2>3, Inflow DEF RatesHold
  <2> QED BY <2>3, <2>5 DEF MeetsTarget
<1>3. CASE ~(~f.is_bhp /\ Residual(f) # 0)
  <2>1. r = f
    BY <1>3 DEF process, process_impl, f
  <2>2. f.is_work /\ ~f.is_bhp /\ Controlled => f.rate = limit.rate
    BY <1>1, <1>3 DEF Residual, Well, Setting
  <2>3. f.is_work /\ ~f.is_bhp /\ Controlled => InLimit(f.bhp)
    BY <1>1, <2>2 DEF Setting
  <2> QED BY <1>1, <2>1, <2>2, <2>3 DEF MeetsTarget
<1> QED BY <1>2, <1>3

(* Without a first approximation the evaluation of a well under rate       *)
(* control sets the pressure before it reads it.                           *)
LEMMA Forgets ==
  ASSUME Setting, NEW w \in Well, w.open, ~w.is_bhp, ~w.approx,
         NEW b \in Int \cup {NaN}
  PROVE  process([w EXCEPT !.bhp = b]) = process(w)
<1> DEFINE v == [w EXCEPT !.bhp = b]
           Cleared(x) == [x EXCEPT !.rate = 0, !.approx = TRUE]
<1>1. v \in Well /\ ~v.is_bhp /\ ~v.approx /\ v.open = w.open
  BY DEF Well
<1>2. [Cleared(v) EXCEPT !.bhp = TargetBhp] = [Cleared(w) EXCEPT !.bhp = TargetBhp]
  BY DEF Well
<1>3. SwitchToBhp(Cleared(v)) = SwitchToBhp(Cleared(w))
  BY DEF Well, SwitchToBhp
<1>4. ~Cleared(v).is_bhp /\ ~Cleared(w).is_bhp
  BY DEF Well
<1>5. calc_well_pressure(Cleared(v)) = calc_well_pressure(Cleared(w))
  BY <1>2, <1>3, <1>4 DEF calc_well_pressure
<1>6. process_internal(v) = process_internal(w)
  BY <1>1, <1>5 DEF process_internal
<1>7. process_impl(v) = process_impl(w)
  BY <1>6 DEF process_impl
<1> QED BY <1>1, <1>7 DEF process
-----------------------------------------------------------------------------
ShutHasNoRate == ~well.open => well.rate = 0

SavedHolds ==
  stage \in {"evaluate", "evaluated"} =>
    saved.open = well.open /\ saved.control = control

Restarted == stage = "evaluate" /\ attempt = "retry" => ~well.approx

IInv ==
  /\ TypeOK /\ ShutHasNoRate /\ SavedHolds /\ Restarted
  /\ FlowIsConsistent /\ TargetMet

LEMMA Types == TypeOK => Setting
  BY WellParams DEF TypeOK, Setting, Limits

LEMMA InitIInv == Init => IInv
<1> SUFFICES ASSUME Init PROVE IInv
  OBVIOUS
<1>1. stage = "schedule"
  BY DEF Init, CallsInit
<1>2. TypeOK
  <2>1. limit \in Limits /\ limit.bhp \in Int
    BY WellParams DEF Init, Limits
  <2>2. well \in Well
    BY <2>1 DEF Init, Well
  <2>3. saved \in Saved
    BY <2>2 DEF Init, Saved, Saving, Well
  <2> QED BY <2>1, <2>2, <2>3, WellParams DEF Init, TypeOK
<1>3. ShutHasNoRate
  BY DEF Init, ShutHasNoRate
<1> QED
  BY <1>1, <1>2, <1>3 DEF IInv, SavedHolds, Restarted, FlowIsConsistent, TargetMet, Works

LEMMA ProcessIInv == IInv /\ CalcWells => IInv'
<1> SUFFICES ASSUME IInv, CalcWells PROVE IInv'
  OBVIOUS
<1>1. Setting /\ well \in Well
  BY Types DEF IInv, TypeOK
<1>2. /\ stage' = "evaluated" /\ well' = process(well)
      /\ UNCHANGED <<pressure, base, control, limit, perf, saved, total>>
  BY DEF CalcWells, CallCalcWells, Move, setup
<1>3. CASE well.open
  <2>1. well' \in Well /\ well'.open /\ RatesHold(well') /\ MeetsTarget(well')
    BY <1>1, <1>2, <1>3, Evaluation
  <2>2. TypeOK' /\ ShutHasNoRate' /\ Restarted'
    BY <1>2, <2>1 DEF IInv, TypeOK, ShutHasNoRate, Restarted
  <2>3. SavedHolds'
    BY <1>2, <1>3, <2>1 DEF IInv, SavedHolds, CalcWells, CallCalcWells, Move
  <2>4. FlowIsConsistent'
    BY <1>2, <2>1 DEF FlowIsConsistent, Works, RatesHold, Flows, Drawdown, Sign
  <2>5. TargetMet'
    BY <1>2, <2>1 DEF TargetMet, Works, MeetsTarget, InLimit, Sign, Controlled
  <2> QED BY <2>2, <2>3, <2>4, <2>5 DEF IInv
<1>4. CASE ~well.open
  <2>1. well' = well
    BY <1>2, <1>4 DEF process
  <2> QED
    BY <1>2, <1>4, <2>1 DEF IInv, TypeOK, ShutHasNoRate, SavedHolds, Restarted,
      FlowIsConsistent, TargetMet, Works, CalcWells, CallCalcWells, Move
<1> QED BY <1>3, <1>4

(* Outside an evaluation the two properties of its result say nothing.     *)
LEMMA NextIInv == IInv /\ [Next]_wvars => IInv'
<1> SUFFICES ASSUME IInv, [Next]_wvars PROVE IInv'
  OBVIOUS
<1> USE DEF IInv
<1>a. \A l \in Limits : l.bhp \in Int
  BY WellParams DEF Limits
<1>1. ASSUME Event, perf' \in BOOLEAN, limit' \in Limits, control' \in Controls,
             well' \in Well, ~well'.open => well'.rate = 0
      PROVE  IInv'
  BY <1>1 DEF Event, TypeOK, ShutHasNoRate, SavedHolds, Restarted, calls,
    FlowIsConsistent, TargetMet, Works
<1>2. CASE SetControl
  <2>1. limit'.bhp \in Int /\ control' \in Controls
    BY <1>2, <1>a DEF SetControl
  <2>2. well' \in Well /\ (~well'.open => well'.rate = 0)
    <3>1. PICK open \in BOOLEAN :
            well' = [set_state(open) EXCEPT !.bhp = limit'.bhp,
                                            !.is_bhp = control'.control_type = "bhp"]
      BY <1>2 DEF SetControl
    <3>2. /\ set_state(open) \in Well /\ set_state(open).open = open
          /\ ~open => set_state(open).rate = 0
      BY DEF set_state, TypeOK, Well
    <3> HIDE DEF IInv
    <3> QED BY <2>1, <3>1, <3>2 DEF Well
  <2> QED BY <1>1, <1>2, <2>2 DEF SetControl, TypeOK
<1>3. CASE SetBhpLimit
  <2>1. PICK b \in BhpLimits :
          /\ limit' = [limit EXCEPT !.bhp = b]
          /\ well' = IF well.is_bhp THEN [well EXCEPT !.bhp = b] ELSE well
    BY <1>3 DEF SetBhpLimit
  <2>2. well' \in Well /\ (~well'.open => well'.rate = 0)
    BY <2>1, WellParams DEF TypeOK, Well, ShutHasNoRate
  <2>3. limit' \in Limits
    BY <2>1 DEF TypeOK, Limits
  <2> QED BY <1>1, <1>3, <2>2, <2>3 DEF SetBhpLimit, TypeOK
<1>4. CASE SetRateLimit
  <2>1. limit' \in Limits
    BY <1>4 DEF SetRateLimit, TypeOK, Limits
  <2> QED BY <1>1, <1>4, <2>1 DEF SetRateLimit, TypeOK, ShutHasNoRate
<1>5. CASE SetPerforation
  BY <1>1, <1>5 DEF SetPerforation, TypeOK, ShutHasNoRate
<1>6. ASSUME UNCHANGED <<pressure, base, well, setup, saved, total>>,
             stage' \in {"schedule", "step", "stopped"}
      PROVE  IInv'
  BY <1>6 DEF TypeOK, ShutHasNoRate, SavedHolds, Restarted, setup,
    FlowIsConsistent, TargetMet, Works
<1>7. CASE PreLargeStep \/ Report \/ Stop
  BY <1>6, <1>7 DEF PreLargeStep, CallPreLargeStep, Report, CallReport, Move,
    Stop, CallsEnd
<1>8. CASE PreSmallStep
  <2>1. saved' \in Saved /\ saved'.open = well.open /\ saved'.control = control
    BY <1>8 DEF PreSmallStep, Saving, Saved, TypeOK, Well
  <2> QED
    BY <1>8, <2>1 DEF PreSmallStep, CallPreSmallStep, Move, setup, TypeOK,
      ShutHasNoRate, SavedHolds, Restarted, FlowIsConsistent, TargetMet, Works
<1>9. CASE CalcWells
  BY <1>9, ProcessIInv
<1>10. CASE RestoreSolution
  <2>1. /\ stage = "evaluated" /\ stage' = "evaluate" /\ attempt' = "corrected"
        /\ pressure' \in Pressures /\ UNCHANGED <<base, setup, saved, total>>
    BY <1>10 DEF RestoreSolution, CallRestoreSolution, Move
  <2>2. well' \in Well /\ well'.open = well.open /\ well'.rate = well.rate
    BY <1>10, WellParams DEF RestoreSolution, TypeOK, Well
  <2> QED
    BY <2>1, <2>2 DEF setup, TypeOK, ShutHasNoRate, SavedHolds, Restarted,
      FlowIsConsistent, TargetMet, Works
<1>11. CASE RestartSmallStep
  <2>1. /\ stage = "evaluated" /\ stage' = "evaluate" /\ attempt' = "retry"
        /\ pressure' = base /\ UNCHANGED <<base, limit, perf, saved, total>>
        /\ control' = control /\ saved.open = well.open
    BY <1>11 DEF RestartSmallStep, CallRestartSmallStep, Move, SavedHolds
  <2>2. Differs(saved) = FALSE
    BY <2>1 DEF Differs, SavedHolds
  <2>3. well \in Well /\ saved \in Saved
    BY DEF TypeOK
  <2>4. well' = [well EXCEPT !.open = saved.open, !.is_work = saved.is_work,
                             !.is_bhp = saved.is_bhp, !.approx = FALSE]
    BY <1>11, <2>2 DEF RestartSmallStep
  <2>5. /\ well' \in Well /\ well'.open = well.open /\ well'.rate = well.rate
        /\ ~well'.approx
    BY <2>1, <2>3, <2>4 DEF Well, Saved
  <2> QED
    BY <2>1, <2>5 DEF TypeOK, ShutHasNoRate, SavedHolds, Restarted,
      FlowIsConsistent, TargetMet, Works
<1>12. CASE AccRates
  <2>1. total' \in 0 .. TotalBound
    BY <1>12, WellParams DEF AccRates, TypeOK, Well
  <2> QED
    BY <1>12, <2>1 DEF AccRates, CallAccRates, Move, setup, TypeOK, ShutHasNoRate,
      SavedHolds, Restarted, FlowIsConsistent, TargetMet, Works
<1>13. CASE UNCHANGED wvars
  BY <1>13 DEF wvars, setup, TypeOK, ShutHasNoRate, SavedHolds, Restarted,
    FlowIsConsistent, TargetMet, Works, Flows, Drawdown, Sign, Controlled
<1> QED
  BY <1>2, <1>3, <1>4, <1>5, <1>7, <1>8, <1>9, <1>10, <1>11, <1>12, <1>13 DEF Next

THEOREM Invariance == Spec => []IInv
<1>1. Init => IInv
  BY InitIInv
<1>2. IInv /\ [Next]_wvars => IInv'
  BY NextIInv
<1> QED BY <1>1, <1>2, PTL DEF Spec

(* The types of the well, and that its rates are never negative, hold for  *)
(* every set of pressures and limits.                                      *)
THEOREM TypeCorrect == Spec => []TypeOK
<1>1. IInv => TypeOK
  BY DEF IInv
<1> QED BY <1>1, Invariance, PTL

(* Every evaluation leaves rates that belong to the pressure of the well.  *)
THEOREM ConsistentFlow == Spec => []FlowIsConsistent
<1>1. IInv => FlowIsConsistent
  BY DEF IInv
<1> QED BY <1>1, Invariance, PTL

(* Every evaluation leaves a working well under rate control at its target *)
(* and within its pressure limit.                                          *)
THEOREM MeetsTargets == Spec => []TargetMet
<1>1. IInv => TargetMet
  BY DEF IInv
<1> QED BY <1>1, Invariance, PTL

(* A retry under rate control forgets the pressure of the failed attempt.  *)
THEOREM Forgetful == Spec => []RetryForgets
<1>1. IInv => RetryForgets
  <2> SUFFICES ASSUME IInv, stage = "evaluate", attempt = "retry", well.open,
                      ~well.is_bhp, NEW b \in Corrected \cup {NaN}
               PROVE  process([well EXCEPT !.bhp = b]) = process(well)
    BY DEF RetryForgets
  <2>1. Setting /\ well \in Well /\ ~well.approx /\ b \in Int \cup {NaN}
    BY Types, WellParams DEF IInv, TypeOK, Restarted
  <2> QED BY <2>1, Forgets
<1> QED BY <1>1, Invariance, PTL

(* The totals only grow, and only while the well is open.                  *)
THEOREM TotalsGrow == Spec => TotalsOfOpenWells
<1> DEFINE Grows == total' >= total /\ (~well.open => total' = total)
<1>1. IInv /\ [Next]_wvars => [Grows]_wvars
  <2> SUFFICES ASSUME IInv, Next PROVE Grows
    OBVIOUS
  <2>1. total \in Nat /\ total <= TotalBound /\ well.rate \in Nat /\ TotalBound \in Nat
    BY WellParams DEF IInv, TypeOK, Well
  <2>2. CASE AccRates
    BY <2>1, <2>2 DEF AccRates, IInv, ShutHasNoRate
  <2>3. CASE UNCHANGED total
    BY <2>1, <2>3
  <2> QED
    BY <2>2, <2>3 DEF Next, Event, SetControl, SetBhpLimit, SetRateLimit,
      SetPerforation, PreLargeStep, Report, PreSmallStep, CalcWells,
      RestoreSolution, RestartSmallStep, Stop
<1> QED BY <1>1, Invariance, PTL DEF Spec, TotalsOfOpenWells
=============================================================================
