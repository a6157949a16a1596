--------------------------- MODULE MainLoopProofs ---------------------------
(***************************************************************************)
(* Safety of the simulation loop, for every schedule, every setting of the *)
(* step parameters and every outcome of the Newton iterations: first what  *)
(* decrease_ts and increase_ts guarantee, a positive length that does not  *)
(* reach over the end of the report interval, then the loop, then the      *)
(* schedule it works on.                                                   *)
(***************************************************************************)
EXTENDS MainLoop, EventSchedule, FiniteSetTheorems, TLAPS

(* A product with a fraction is a natural number again.                    *)
LEMMA TimesType ==
  ASSUME NEW ts \in Nat, NEW num \in Nat, NEW den \in Nat \ {0}
  PROVE  Times(ts, num, den) \in Nat
<1>1. ts * num \in Nat
  OBVIOUS
<1>2. QED
  BY <1>1 DEF Times

(* Whatever the fields of the clamp compare, its result is positive.       *)
LEMMA ClampType ==
  ASSUME NEW ts \in Nat
  PROVE  Clamp(ts) \in Nat /\ Clamp(ts) > 0
BY StepParams DEF Clamp

(* A length that is not stretched by the overdraft factor fits: this is    *)
(* where OVERDRAFT >= 1 is needed.                                         *)
LEMMA NotOverdraftFits ==
  ASSUME NEW ts \in Nat, NEW max_ts \in Nat, ~Overdraft(ts, max_ts)
  PROVE  ts <= max_ts
<1>1. SUFFICES ASSUME ts > max_ts PROVE FALSE
  OBVIOUS
<1>2. OdNum \in Nat /\ OdDen \in Nat /\ OdDen > 0 /\ OdNum >= OdDen
  BY StepParams
<1>3. ts * OdNum >= ts * OdDen
  BY <1>2
<1>4. ts * OdDen > max_ts * OdDen
  BY <1>1, <1>2
<1>5. ts * OdNum \in Nat /\ ts * OdDen \in Nat /\ max_ts * OdDen \in Nat
  BY <1>2
<1>6. ts * OdNum > max_ts * OdDen
  BY <1>3, <1>4, <1>5
<1>7. QED
  BY <1>6 DEF Overdraft

(* The length of a retry lies inside what is left of the interval.         *)
THEOREM DecreaseInRange ==
  ASSUME NEW old_ts \in Nat \ {0}, NEW max_ts \in Nat \ {0}
  PROVE  decrease_ts(old_ts, max_ts) \in 1 .. max_ts
<1> DEFINE new == Clamp(Times(old_ts, DecNum, DecDen))
<1>1. new \in Nat /\ new > 0
  BY TimesType, ClampType, StepParams
<1>2. CASE Overdraft(new, max_ts)
  BY <1>2 DEF decrease_ts
<1>3. CASE ~Overdraft(new, max_ts)
  BY <1>1, <1>3, NotOverdraftFits DEF decrease_ts
<1>4. QED
  BY <1>2, <1>3

(* The length of a first attempt lies inside what is left of the interval. *)
THEOREM IncreaseInRange ==
  ASSUME NEW old_ts \in Nat \ {0}, NEW max_ts \in Nat \ {0}, NEW n_iters \in Nat,
         NEW new_ts \in increase_ts(old_ts, max_ts, n_iters)
  PROVE  new_ts \in 1 .. max_ts
<1>1. Times(old_ts, IncNum, IncDen) \in Nat
  BY TimesType, StepParams
<1>2. PICK ts \in Grown(old_ts, n_iters) : new_ts = FitInterval(Clamp(ts), max_ts)
  BY DEF increase_ts
<1>3. ts \in Nat
  BY <1>1 DEF Grown
<1>4. Clamp(ts) \in Nat /\ Clamp(ts) > 0
  BY <1>3, ClampType
<1>5. QED
  BY <1>2, <1>4, NotOverdraftFits DEF FitInterval
-----------------------------------------------------------------------------

(* Where the loop stands in the schedule: between two intervals the clock  *)
(* is at the date of the iterator, inside one its ends are the dates.      *)
ScheduleInv ==
  /\ nlarge = it
  /\ pc = "ready" => it = 1
  /\ pc \in {"ready", "report", "end"} => lend = Elapsed(it) /\ time = lend
  /\ pc = "events" => time = lstart
  /\ pc \notin {"ready", "report", "end"} =>
       it < Len(Reports) /\ lstart = Elapsed(it) /\ lend = Elapsed(it + 1)
  /\ lstart <= time /\ time <= lend
  /\ pc \in Inner \cup {"exception"} => time < lend
  /\ pc \in Inner => time + dt <= lend

(* Which solution each copy belongs to: nothing but the iterations of the  *)
(* current attempt separates sol from old_data_, and data_ is only trusted *)
(* where calcPrev still allows prev_fluid_volume to be computed from it.   *)
SolutionInv ==
  /\ pc \in Outer => props = sol \/ pc = "ready"
  /\ pc \in Inner \ {"failed"} => IF newt = 0 THEN sol = old ELSE sol = <<time, newt>>
  /\ pc = "fi_operator" /\ newt = 0 /\ calcPrev => props = sol
  /\ pc = "fi_operator" /\ ~(newt = 0 /\ calcPrev) => prevVol = <<old, old>>
  /\ pc \in Inner \ {"fi_operator"} => prevVol = <<old, old>>
  /\ pc = "solve" => newt < NewtonItersNum
  /\ pc = "solved" => newt > 0 /\ props = sol

(* An accepted solution is older than the clock, and of the interval the   *)
(* clock is in.                                                            *)
AcceptedInv ==
  /\ sol[1] <= time /\ old[1] <= time
  /\ pc \in {"report", "end"} /\ it > 1 => sol[1] < time
  /\ pc = "step" /\ time > lstart => lstart <= sol[1] /\ sol[1] < time

IInv == TypeOK /\ ScheduleInv /\ SolutionInv /\ AcceptedInv /\ SavedAtReport

-----------------------------------------------------------------------------
(* The dates increase, so the time since the first one does.               *)
LEMMA ElapsedType ==
  /\ Len(Reports) \in Nat /\ Len(Reports) >= 1
  /\ \A i \in 1 .. Len(Reports) : Elapsed(i) \in Nat
  /\ Elapsed(1) = 0
  /\ \A i, j \in 1 .. Len(Reports) : i < j => Elapsed(i) < Elapsed(j)
<1>1. Len(Reports) \in Nat /\ Len(Reports) >= 1
  BY LoopParams
<1>2. \A i \in 1 .. Len(Reports) : Reports[i] \in Int
  BY LoopParams
<1>3. \A i \in 1 .. Len(Reports) : Reports[1] <= Reports[i]
  <2> SUFFICES ASSUME NEW i \in 1 .. Len(Reports) PROVE Reports[1] <= Reports[i]
    OBVIOUS
  <2>1. CASE i = 1
    BY <2>1, <1>1, <1>2
  <2>2. CASE 1 < i
    BY <2>2, <1>1, <1>2, LoopParams
  <2>3. QED
    BY <2>1, <2>2, <1>1
<1>4. \A i \in 1 .. Len(Reports) : Elapsed(i) \in Nat
  BY <1>1, <1>2, <1>3 DEF Elapsed
<1>5. Elapsed(1) = 0
  BY <1>1, <1>2 DEF Elapsed
<1>6. \A i, j \in 1 .. Len(Reports) : i < j => Elapsed(i) < Elapsed(j)
  BY <1>1, <1>2, LoopParams DEF Elapsed
<1>7. QED
  BY <1>1, <1>4, <1>5, <1>6

LEMMA InitIInv == Init => IInv
<1> SUFFICES ASSUME Init PROVE IInv
  OBVIOUS
<1> USE ElapsedType DEF Init, InitialSol
<1>1. TypeOK
  BY StepParams, LoopParams DEF TypeOK, Outer, Version, Entry
<1>2. ScheduleInv
  BY DEF ScheduleInv, Inner
<1>3. SolutionInv /\ AcceptedInv /\ SavedAtReport
  BY DEF SolutionInv, AcceptedInv, SavedAtReport, Outer, Inner
<1>4. QED
  BY <1>1, <1>2, <1>3 DEF IInv

(* The lengths the loop gives to a step that is about to be computed.      *)
LEMMA StepLengths ==
  ASSUME TypeOK, ScheduleInv
  PROVE  /\ BeginSmallStep => dt' \in 1 .. Remaining
         /\ NotConverged => dt' \in 1 .. dt
         /\ NewtonIterFail => dt' \in 1 .. Remaining
<1>1. ASSUME BeginSmallStep PROVE dt' \in 1 .. Remaining
  <2>1. Remaining \in Nat \ {0}
    BY <1>1 DEF BeginSmallStep, TimeLeft, Remaining, TypeOK
  <2>2. dt \in Nat \ {0} /\ newt \in Nat
    BY <1>1 DEF BeginSmallStep, Goto, TypeOK
  <2>3. dt' \in increase_ts(dt, Remaining, newt)
    BY <1>1 DEF BeginSmallStep
  <2>4. QED
    BY <2>1, <2>2, <2>3, IncreaseInRange
<1>2. ASSUME NotConverged PROVE dt' \in 1 .. dt
  <2>1. dt \in Nat \ {0}
    BY <1>2 DEF NotConverged, Goto, TypeOK
  <2>2. dt' = dt \/ dt' \in DtReduced(dt)
    BY <1>2 DEF NotConverged, DtAfterFiOperator
  <2>3. DtReduced(dt) \subseteq 1 .. dt
    BY DEF DtReduced
  <2>4. QED
    BY <2>1, <2>2, <2>3
<1>3. ASSUME NewtonIterFail PROVE dt' \in 1 .. Remaining
  <2>1. Remaining \in Nat \ {0}
    BY <1>3 DEF NewtonIterFail, ScheduleInv, Inner, Remaining, TypeOK
  <2>2. dt \in Nat \ {0}
    BY <1>3 DEF NewtonIterFail, TypeOK
  <2>3. dt' = decrease_ts(dt, Remaining)
    BY <1>3 DEF NewtonIterFail
  <2>4. QED
    BY <2>1, <2>2, <2>3, DecreaseInRange
<1>4. QED
  BY <1>1, <1>2, <1>3

LEMMA NextTypeOK == IInv /\ [Next]_vars => TypeOK'
<1> SUFFICES ASSUME IInv, [Next]_vars PROVE TypeOK'
  OBVIOUS
<1>0. /\ Len(Reports) \in Nat
      /\ RestartsBound \in Nat
      /\ NewtonItersNum \in Nat \ {0}
      /\ FirstTS \in Nat \ {0}
  BY StepParams, LoopParams
<1>a. TypeOK /\ ScheduleInv /\ SolutionInv
  BY DEF IInv
<1> USE <1>0, <1>a DEF TypeOK, Outer, Inner, Finished, Goto, interval, fields
<1>1. CASE Ready
  BY <1>1 DEF Ready, SaveBase
<1>2. CASE BeginReport
  <2>1. it < Len(Reports) /\ lend = Elapsed(it)
    BY <1>2 DEF BeginReport, ScheduleInv
  <2>2. lend' = Elapsed(it + 1)
    <3>1. Reports[1] \in Int /\ Reports[it] \in Int /\ Reports[it + 1] \in Int
      BY <2>1, LoopParams
    <3>2. lend' = lend + Reports[it + 1] - Reports[it]
      BY <1>2 DEF BeginReport
    <3>3. QED
      BY <2>1, <3>1, <3>2 DEF Elapsed
  <2>3. lend' \in Nat
    BY <2>1, <2>2, ElapsedType
  <2>4. QED
    BY <1>2, <2>3 DEF BeginReport
<1>3. CASE ApplyEvents
  BY <1>3 DEF ApplyEvents
<1>3a. CASE EventFails
  BY <1>3a DEF EventFails
<1>4. CASE BeginSmallStep
  <2>1. dt' \in Nat \ {0}
    BY <1>4, StepLengths DEF Remaining
  <2>2. QED
    BY <1>4, <2>1 DEF BeginSmallStep, SaveBase
<1>5. CASE Converged
  BY <1>5 DEF Evaluate, Converged
<1>6. CASE Exhausted
  BY <1>6 DEF Evaluate, Exhausted
<1>7. CASE NotConverged
  <2>1. dt' \in Nat \ {0}
    BY <1>7, StepLengths
  <2>2. QED
    BY <1>7, <2>1 DEF Evaluate, NotConverged
<1>8. CASE Correct
  <2>1. newt + 1 \in 0 .. NewtonItersNum
    BY <1>8 DEF Correct, SolutionInv
  <2>2. <<time, newt + 1>> \in Version
    BY <2>1 DEF Version
  <2>3. QED
    BY <1>8, <2>1, <2>2 DEF Correct
<1>9. CASE SolverFailed
  BY <1>9 DEF SolverFailed
<1>10. CASE SetupFailed
  BY <1>10 DEF SetupFailed
<1>11. CASE NewtonIterFail
  <2>1. dt' \in Nat \ {0}
    BY <1>11, StepLengths DEF Remaining
  <2>2. /\ pc' \in {"exception", "fi_operator"}
        /\ newt' \in 0 .. NewtonItersNum
        /\ restarts' \in 0 .. RestartsBound
        /\ calcPrev' \in BOOLEAN
    <3>1. CASE GaveUp(decrease_ts(dt, Remaining))
      BY <1>11, <3>1 DEF NewtonIterFail
    <3>2. CASE ~GaveUp(decrease_ts(dt, Remaining))
      <4>1. restarts' = IF restarts < RestartsBound THEN restarts + 1 ELSE restarts
        BY <1>11, <3>2 DEF NewtonIterFail
      <4>2. restarts' \in 0 .. RestartsBound
        BY <4>1
      <4>3. pc' = "fi_operator" /\ newt' = 0 /\ calcPrev' = FALSE
        BY <1>11, <3>2 DEF NewtonIterFail, RetryFlag
      <4>4. 0 \in 0 .. NewtonItersNum
        BY <1>0
      <4>5. QED
        BY <4>2, <4>3, <4>4
    <3>3. QED
      BY <3>1, <3>2
  <2>3. sol' \in Version
    BY <1>11 DEF NewtonIterFail, RestoreBase
  <2>4. QED
    BY <1>11, <2>1, <2>2, <2>3 DEF NewtonIterFail
<1>12. CASE NewtonIterSuccess
  BY <1>12 DEF NewtonIterSuccess
<1>13. CASE TimeStepEnd
  <2>1. pc = "step" /\ it < Len(Reports)
    BY <1>13 DEF TimeStepEnd, ScheduleInv
  <2>2. it' \in 1 .. Len(Reports) /\ nlarge' \in Nat \ {0}
    BY <1>13, <2>1 DEF TimeStepEnd
  <2>3. [at |-> time, sol |-> sol] \in Entry
    BY DEF Entry
  <2>4. saved' \in Seq(Entry)
    BY <1>13, <2>3 DEF TimeStepEnd
  <2>5. QED
    BY <1>13, <2>1, <2>2, <2>4 DEF TimeStepEnd
<1>14. CASE End
  BY <1>14 DEF End
<1>15. CASE UNCHANGED vars
  BY <1>15 DEF vars
<1>16. QED
  BY <1>1, <1>2, <1>3, <1>3a, <1>4, <1>5, <1>6, <1>7, <1>8, <1>9, <1>10, <1>11, <1>12, <1>13, <1>14, <1>15 DEF Next

(* The clock stays between the ends of its interval.                       *)
LEMMA NextSchedule == IInv /\ [Next]_vars => ScheduleInv'
<1> SUFFICES ASSUME IInv, [Next]_vars PROVE ScheduleInv'
  OBVIOUS
<1>a. TypeOK /\ ScheduleInv
  BY DEF IInv
<1>b. /\ it \in Nat /\ nlarge \in Nat /\ dt \in Nat /\ (pc # "ready" => dt > 0)
      /\ time \in Nat /\ lstart \in Nat /\ lend \in Nat
  BY <1>a DEF TypeOK
<1> USE <1>a, <1>b DEF ScheduleInv, Inner, Goto, interval, fields
<1>1. CASE Ready
  BY <1>1 DEF Ready, SaveBase
<1>2. CASE BeginReport
  <2>1. /\ it < Len(Reports) /\ lend = Elapsed(it) /\ time = lend
        /\ pc' = "events" /\ it' = it /\ nlarge' = nlarge
        /\ lstart' = lend /\ time' = time /\ dt' = dt
        /\ lend' = lend + Reports[it + 1] - Reports[it]
    BY <1>2 DEF BeginReport
  <2>2. it \in 1 .. Len(Reports) /\ it + 1 \in 1 .. Len(Reports)
    BY <2>1, ElapsedType DEF TypeOK
  <2>3. Reports[1] \in Int /\ Reports[it] \in Int /\ Reports[it + 1] \in Int
    BY <2>2, LoopParams
  <2>4. lend' = Elapsed(it + 1)
    BY <2>1, <2>3 DEF Elapsed
  <2>5. Elapsed(it) \in Nat /\ Elapsed(it + 1) \in Nat /\ Elapsed(it) < Elapsed(it + 1)
    BY <2>2, ElapsedType
  <2>6. Elapsed(it)' = Elapsed(it) /\ Elapsed(it + 1)' = Elapsed(it + 1)
    BY <2>1 DEF Elapsed
  <2>7. QED
    BY <2>1, <2>4, <2>5, <2>6
<1>3. CASE ApplyEvents
  BY <1>3 DEF ApplyEvents, Elapsed
<1>3a. CASE EventFails
  <2>1. /\ it < Len(Reports) /\ it \in 1 .. Len(Reports)
        /\ time = lstart /\ lstart = Elapsed(it) /\ lend = Elapsed(it + 1)
    BY <1>3a DEF EventFails, TypeOK
  <2>2. time < lend
    BY <2>1, ElapsedType
  <2>3. QED
    BY <1>3a, <2>1, <2>2 DEF EventFails, Elapsed
<1>4. CASE BeginSmallStep
  <2>1. dt' \in 1 .. Remaining
    BY <1>4, StepLengths
  <2>2. QED
    BY <1>4, <2>1 DEF BeginSmallStep, TimeLeft, Remaining, Elapsed
<1>5. CASE Converged
  BY <1>5 DEF Converged, Elapsed
<1>6. CASE Exhausted
  BY <1>6 DEF Exhausted, Elapsed
<1>7. CASE NotConverged
  <2>1. dt' \in 1 .. dt
    BY <1>7, StepLengths
  <2>2. QED
    BY <1>7, <2>1 DEF NotConverged, Elapsed
<1>8. CASE Correct
  BY <1>8 DEF Correct, Elapsed
<1>9. CASE SolverFailed
  BY <1>9 DEF SolverFailed, Elapsed
<1>10. CASE SetupFailed
  BY <1>10 DEF SetupFailed, Elapsed
<1>11. CASE NewtonIterFail
  <2>1. dt' \in 1 .. Remaining
    BY <1>11, StepLengths
  <2>2. pc = "failed" /\ pc' \in {"fi_operator", "exception"} /\ UNCHANGED <<interval, time>>
    BY <1>11 DEF NewtonIterFail
  <2>3. QED
    BY <2>1, <2>2 DEF Remaining, Elapsed
<1>12. CASE NewtonIterSuccess
  BY <1>12 DEF NewtonIterSuccess, Elapsed
<1>13. CASE TimeStepEnd
  <2>1. /\ pc = "step" /\ pc' = "report" /\ it' = it + 1 /\ nlarge' = nlarge + 1
        /\ time' = time /\ lstart' = lstart /\ lend' = lend /\ time = lend
    BY <1>13 DEF TimeStepEnd, TimeLeft
  <2>2. QED
    BY <2>1 DEF Elapsed
<1>14. CASE End
  BY <1>14 DEF End, Elapsed
<1>15. CASE UNCHANGED vars
  BY <1>15 DEF vars, Elapsed
<1>16. QED
  BY <1>1, <1>2, <1>3, <1>3a, <1>4, <1>5, <1>6, <1>7, <1>8, <1>9, <1>10, <1>11, <1>12, <1>13, <1>14, <1>15 DEF Next

(* Which solution each copy belongs to.                                    *)
LEMMA NextSolution == IInv /\ [Next]_vars => SolutionInv'
<1> SUFFICES ASSUME IInv, [Next]_vars PROVE SolutionInv'
  OBVIOUS
<1>a. SolutionInv /\ newt \in Nat /\ NewtonItersNum \in Nat /\ newt <= NewtonItersNum
  BY StepParams DEF IInv, TypeOK
<1> USE <1>a DEF SolutionInv, Outer, Inner, Goto, interval, fields
<1>1. CASE Ready
  BY <1>1 DEF Ready, SaveBase
<1>2. CASE BeginReport
  BY <1>2 DEF BeginReport
<1>3. CASE ApplyEvents
  BY <1>3 DEF ApplyEvents
<1>3a. CASE EventFails
  BY <1>3a DEF EventFails
<1>4. CASE BeginSmallStep
  BY <1>4 DEF BeginSmallStep, SaveBase
<1>5. CASE Converged
  BY <1>5 DEF Converged, Evaluate, CheckNorm
<1>6. CASE Exhausted
  BY <1>6 DEF Exhausted, Evaluate
<1>7. CASE NotConverged
  BY <1>7 DEF NotConverged, Evaluate, LastIteration
<1>8. CASE Correct
  BY <1>8 DEF Correct
<1>9. CASE SolverFailed
  BY <1>9 DEF SolverFailed
<1>10. CASE SetupFailed
  BY <1>10 DEF SetupFailed
<1>11. CASE NewtonIterFail
  <2>1. /\ pc = "failed" /\ sol' = old
        /\ old' = old /\ props' = props /\ prevVol' = prevVol
    BY <1>11 DEF NewtonIterFail, RestoreBase
  <2>2. pc' = "exception" \/ (pc' = "fi_operator" /\ newt' = 0 /\ calcPrev' = FALSE)
    BY <1>11 DEF NewtonIterFail, RetryFlag
  <2>3. QED
    BY <2>1, <2>2
<1>12. CASE NewtonIterSuccess
  BY <1>12 DEF NewtonIterSuccess
<1>13. CASE TimeStepEnd
  BY <1>13 DEF TimeStepEnd
<1>14. CASE End
  BY <1>14 DEF End
<1>15. CASE UNCHANGED vars
  BY <1>15 DEF vars
<1>16. QED
  BY <1>1, <1>2, <1>3, <1>3a, <1>4, <1>5, <1>6, <1>7, <1>8, <1>9, <1>10, <1>11, <1>12, <1>13, <1>14, <1>15 DEF Next

(* A solution gets the clock of its attempt, and the clock moves on when   *)
(* the attempt is accepted.                                                *)
LEMMA NextAccepted == IInv /\ [Next]_vars => AcceptedInv'
<1> SUFFICES ASSUME IInv, [Next]_vars PROVE AcceptedInv'
  OBVIOUS
<1>a. AcceptedInv /\ (pc = "fi_operator" => dt \in Nat \ {0})
  BY DEF IInv, TypeOK
<1>b. /\ sol[1] \in Nat /\ old[1] \in Nat /\ dt \in Nat
      /\ time \in Nat /\ lstart \in Nat /\ lend \in Nat /\ it \in Nat
  BY DEF IInv, TypeOK, Version
<1> USE <1>a, <1>b DEF AcceptedInv, Goto, interval, fields
<1>1. CASE Ready
  BY <1>1 DEF Ready, SaveBase, IInv, ScheduleInv
<1>2. CASE BeginReport
  BY <1>2 DEF BeginReport, IInv, ScheduleInv
<1>3. CASE ApplyEvents
  BY <1>3 DEF ApplyEvents, IInv, ScheduleInv
<1>3a. CASE EventFails
  BY <1>3a DEF EventFails, IInv, ScheduleInv
<1>4. CASE BeginSmallStep
  BY <1>4 DEF BeginSmallStep, SaveBase
<1>5. CASE Converged
  BY <1>5 DEF Converged, Evaluate
<1>6. CASE Exhausted
  BY <1>6 DEF Exhausted, Evaluate
<1>7. CASE NotConverged
  BY <1>7 DEF NotConverged, Evaluate
<1>8. CASE Correct
  BY <1>8 DEF Correct
<1>9. CASE SolverFailed
  BY <1>9 DEF SolverFailed
<1>10. CASE SetupFailed
  BY <1>10 DEF SetupFailed
<1>11. CASE NewtonIterFail
  <2>1. /\ sol' = old /\ old' = old /\ time' = time
        /\ pc' \in {"fi_operator", "exception"}
    BY <1>11 DEF NewtonIterFail, RestoreBase
  <2>2. QED
    BY <2>1
<1>12. CASE NewtonIterSuccess
  <2>1. /\ pc = "solved" /\ pc' = "step" /\ time' = time + dt
        /\ sol' = sol /\ old' = old /\ lstart' = lstart /\ it' = it
    BY <1>12 DEF NewtonIterSuccess
  <2>2. dt > 0
    BY <2>1 DEF IInv, TypeOK
  <2>3. sol[1] = time
    BY <2>1 DEF IInv, SolutionInv, TypeOK, Inner
  <2>4. lstart <= time
    BY DEF IInv, ScheduleInv
  <2>5. QED
    BY <2>1, <2>2, <2>3, <2>4
<1>13. CASE TimeStepEnd
  <2>1. /\ pc = "step" /\ pc' = "report" /\ ~(time < lend)
        /\ time' = time /\ sol' = sol /\ old' = old
    BY <1>13 DEF TimeStepEnd, TimeLeft
  <2>2. lstart < lend
    <3>1. /\ it < Len(Reports) /\ it \in 1 .. Len(Reports)
          /\ lstart = Elapsed(it) /\ lend = Elapsed(it + 1)
      BY <2>1 DEF IInv, TypeOK, ScheduleInv
    <3>2. QED
      BY <3>1, ElapsedType
  <2>3. QED
    BY <2>1, <2>2
<1>14. CASE End
  BY <1>14 DEF End
<1>15. CASE UNCHANGED vars
  BY <1>15 DEF vars
<1>16. QED
  BY <1>1, <1>2, <1>3, <1>3a, <1>4, <1>5, <1>6, <1>7, <1>8, <1>9, <1>10, <1>11, <1>12, <1>13, <1>14, <1>15 DEF Next

(* Only the end of an interval stores anything.                            *)
LEMMA NextSaved == IInv /\ [Next]_vars => SavedAtReport'
<1> SUFFICES ASSUME IInv, [Next]_vars PROVE SavedAtReport'
  OBVIOUS
<1>1. CASE TimeStepEnd
  <2> DEFINE new == [at |-> time, sol |-> sol]
             len == Len(saved)
             saves == Saves(it + 1, NumEvents[it])
  <2>1. /\ nlarge = it /\ it < Len(Reports) /\ it \in 1 .. Len(Reports)
        /\ lstart = Elapsed(it) /\ lend = Elapsed(it + 1) /\ time = lend
    <3>1. pc = "step" /\ ~(time < lend)
      BY <1>1 DEF TimeStepEnd, Goto, TimeLeft
    <3>2. time <= lend /\ time \in Nat /\ lend \in Nat
      BY DEF IInv, ScheduleInv, TypeOK
    <3>3. QED
      BY <3>1, <3>2 DEF IInv, TypeOK, ScheduleInv
  <2>2. it' = it + 1 /\ saved' = IF saves THEN Append(saved, new) ELSE saved
    BY <1>1, <2>1 DEF TimeStepEnd, ReportNumber
  <2>3. ResultOf(new, it + 1)
    <3>1. Elapsed(it) < Elapsed(it + 1) /\ (it + 1) - 1 = it
      BY <2>1, ElapsedType
    <3>2. lstart <= sol[1] /\ sol[1] < time
      BY <1>1, <2>1, <3>1 DEF TimeStepEnd, Goto, IInv, AcceptedInv
    <3>3. QED
      BY <2>1, <3>1, <3>2 DEF ResultOf
  <2>4. \A i \in 2 .. it : Elapsed(i) \in Nat /\ Elapsed(i) < Elapsed(it + 1)
    BY <2>1, ElapsedType
  <2>5. len \in Nat /\ saved \in [1 .. len -> Entry] /\ DOMAIN saved = 1 .. len
    BY DEF IInv, TypeOK
  <2>6. \A n \in 1 .. len : \E i \in 2 .. it : ResultOf(saved[n], i)
    BY <2>5 DEF IInv, SavedAtReport
  <2>7. /\ \A m, n \in 1 .. len : m < n => saved[m].at < saved[n].at
        /\ \A i \in 2 .. it : Written(i) <=> Saves(i, NumEvents[i - 1])
    BY <2>5 DEF IInv, SavedAtReport
  <2>8. \A n \in 1 .. len : saved[n].at < Elapsed(it + 1)
    BY <2>4, <2>6 DEF ResultOf
  <2>9. SavedAtReport' <=>
           /\ \A i \in 2 .. it + 1 :
                (\E n \in DOMAIN saved' : saved'[n].at = Elapsed(i))
                  <=> Saves(i, NumEvents[i - 1])
           /\ \A n \in DOMAIN saved' : \E i \in 2 .. it + 1 : ResultOf(saved'[n], i)
           /\ \A m, n \in DOMAIN saved' : m < n => saved'[m].at < saved'[n].at
    BY <2>2 DEF SavedAtReport, Written, ResultOf, Elapsed, Saves
  <2>10. CASE saves
    <3>1. /\ DOMAIN saved' = 1 .. len + 1 /\ saved'[len + 1] = new
          /\ \A n \in 1 .. len : saved'[n] = saved[n]
      <4> HIDE DEF new
      <4>1. new \in Entry
        BY DEF new, Entry, IInv, TypeOK
      <4>2. QED
        BY <2>2, <2>5, <2>10, <4>1
    <3>2. new.at = Elapsed(it + 1)
      BY <2>1
    <3> HIDE DEF new, len
    <3>3. \A n \in DOMAIN saved' : \E i \in 2 .. it + 1 : ResultOf(saved'[n], i)
      <4> SUFFICES ASSUME NEW n \in 1 .. len + 1
                   PROVE  \E i \in 2 .. it + 1 : ResultOf(saved'[n], i)
        BY <3>1
      <4>1. CASE n = len + 1
        BY <2>1, <2>3, <3>1, <4>1
      <4>2. CASE n \in 1 .. len
        BY <2>1, <2>6, <3>1, <4>2
      <4>3. QED
        BY <2>5, <4>1, <4>2
    <3>4. \A m, n \in DOMAIN saved' : m < n => saved'[m].at < saved'[n].at
      BY <2>5, <2>7, <2>8, <3>1, <3>2
    <3>5. ASSUME NEW i \in 2 .. it + 1
          PROVE  (\E n \in DOMAIN saved' : saved'[n].at = Elapsed(i))
                   <=> Saves(i, NumEvents[i - 1])
      <4>1. CASE i = it + 1
        <5>1. Saves(i, NumEvents[i - 1])
          BY <2>1, <2>10, <4>1
        <5>2. len + 1 \in DOMAIN saved' /\ saved'[len + 1].at = Elapsed(i)
          BY <2>5, <3>1, <3>2, <4>1
        <5>3. QED
          BY <5>1, <5>2
      <4>2. CASE i \in 2 .. it
        <5>1. Elapsed(i) # Elapsed(it + 1)
          BY <2>1, <2>4, <4>2, ElapsedType
        <5>2. (\E n \in DOMAIN saved' : saved'[n].at = Elapsed(i))
                <=> \E n \in 1 .. len : saved[n].at = Elapsed(i)
          BY <2>5, <3>1, <3>2, <5>1
        <5>3. QED
          BY <2>5, <2>7, <4>2, <5>2 DEF Written
      <4>3. QED
        BY <2>1, <4>1, <4>2
    <3>6. QED
      BY <2>9, <3>3, <3>4, <3>5
  <2>11. CASE ~saves
    <3>1. saved' = saved
      BY <2>2, <2>11
    <3>2. ~\E n \in DOMAIN saved : saved[n].at = Elapsed(it + 1)
      BY <2>1, <2>4, <2>5, <2>6, <2>8 DEF ResultOf
    <3>3. \A n \in DOMAIN saved : \E i \in 2 .. it + 1 : ResultOf(saved[n], i)
      BY <2>1, <2>5, <2>6
    <3>4. ASSUME NEW i \in 2 .. it + 1
          PROVE  (\E n \in DOMAIN saved : saved[n].at = Elapsed(i))
                   <=> Saves(i, NumEvents[i - 1])
      <4>1. CASE i = it + 1
        BY <2>1, <2>11, <3>2, <4>1
      <4>2. CASE i \in 2 .. it
        BY <2>7, <4>2 DEF Written
      <4>3. QED
        BY <2>1, <4>1, <4>2
    <3>5. QED
      BY <2>5, <2>7, <2>9, <3>1, <3>3, <3>4
  <2>12. QED
    BY <2>10, <2>11
<1>2. CASE UNCHANGED <<saved, it>>
  BY <1>2 DEF IInv, SavedAtReport, Written, ResultOf, Elapsed, Saves
<1>3. QED
  BY <1>1, <1>2 DEF Next, vars, interval, Ready, BeginReport, ApplyEvents, EventFails, BeginSmallStep,
     Converged, Exhausted, NotConverged, Correct, SolverFailed, SetupFailed,
     NewtonIterFail, NewtonIterSuccess, End

-----------------------------------------------------------------------------
(* The inductive invariant holds in every behaviour of the loop.           *)
THEOREM Invariance == Spec => []IInv
<1>1. IInv /\ [Next]_vars => IInv'
  BY NextTypeOK, NextSchedule, NextSolution, NextAccepted, NextSaved DEF IInv
<1>2. QED
  BY InitIInv, <1>1, PTL DEF Spec

(* The clocks, counters and copies of the loop keep their ranges.          *)
THEOREM TypeCorrect == Spec => []TypeOK
<1>1. IInv => TypeOK
  BY DEF IInv
<1>2. QED
  BY Invariance, <1>1, PTL

(* No small step reaches over the next date of the schedule.               *)
THEOREM StepsFitInterval == Spec => []StepInsideInterval
<1>1. IInv => StepInsideInterval
  BY DEF IInv, ScheduleInv, StepInsideInterval
<1>2. QED
  BY Invariance, <1>1, PTL

(* Every attempt at a small step starts from the solution the step started *)
(* from.                                                                   *)
THEOREM AttemptsFromBase == Spec => []AttemptFromBase
<1>1. IInv => AttemptFromBase
  BY DEF IInv, SolutionInv, AttemptFromBase, Inner
<1>2. QED
  BY Invariance, <1>1, PTL

(* The fluid volumes behind the accumulation term are those of the start   *)
(* of the small step in every iteration of every attempt.                  *)
THEOREM VolumesOfBase == Spec => []VolumeOfBase
<1>1. IInv => VolumeOfBase
  BY DEF IInv, SolutionInv, VolumeOfBase, Inner
<1>2. QED
  BY Invariance, <1>1, PTL

(* The storage holds the results of exactly the dates the test of the      *)
(* period lets through, in their order, each accepted in the interval      *)
(* before its date.                                                        *)
THEOREM StoresReports == Spec => []SavedAtReport
<1>1. IInv => SavedAtReport
  BY DEF IInv
<1>2. QED
  BY Invariance, <1>1, PTL
-----------------------------------------------------------------------------
(* The steps of the loop that the calendar of reports does not see.        *)
LEMMA Stutters ==
  ASSUME IInv, UNCHANGED <<time, nlarge>>,
         (pc \in Finished \/ pc' \in Finished) => pc' = pc
  PROVE  UNCHANGED Report!vars
BY DEF Report!vars

(* The steps it sees: a solved small step, the end of an interval, the end *)
(* of the schedule and an exception.                                       *)
LEMMA StepRefines == IInv /\ [Next]_vars => [Report!Next]_(Report!vars)
<1> SUFFICES ASSUME IInv, [Next]_vars PROVE [Report!Next]_(Report!vars)
  OBVIOUS
<1>a. TypeOK /\ ScheduleInv
  BY DEF IInv
<1>b. /\ it \in Nat /\ nlarge = it /\ dt \in Nat /\ time \in Nat /\ lend \in Nat
      /\ Len(Reports) \in Nat
  BY <1>a, ElapsedType DEF TypeOK, ScheduleInv
<1>c. ASSUME pc \notin {"ready", "report", "end"}
      PROVE  it < Len(Reports) /\ Report!Due = lend
  BY <1>c, <1>a, <1>b DEF ScheduleInv, Report!Due, Elapsed
<1>1. CASE NewtonIterSuccess
  <2>1. /\ pc = "solved" /\ pc' = "step" /\ time' = time + dt /\ nlarge' = nlarge
    BY <1>1 DEF NewtonIterSuccess, Goto, interval
  <2>2. dt > 0 /\ time + dt <= lend
    BY <2>1, <1>a DEF TypeOK, ScheduleInv, Inner
  <2>3. Report!Advance
    BY <2>1, <2>2, <1>b, <1>c DEF Report!Advance, Report!Intervals, Finished
  <2>4. QED
    BY <2>3 DEF Report!Next
<1>2. CASE TimeStepEnd
  <2>1. /\ pc = "step" /\ pc' = "report" /\ time' = time /\ nlarge' = nlarge + 1
        /\ ~(time < lend)
    BY <1>2 DEF TimeStepEnd, Goto, TimeLeft
  <2>2. time = lend
    BY <2>1, <1>a, <1>b DEF ScheduleInv
  <2>3. Report!ReportDate
    BY <2>1, <2>2, <1>b, <1>c DEF Report!ReportDate, Report!Intervals, Finished
  <2>4. QED
    BY <2>3 DEF Report!Next
<1>3. CASE End
  <2>1. /\ pc = "report" /\ pc' = "end" /\ time' = time /\ nlarge' = nlarge
        /\ it = Len(Reports)
    BY <1>3 DEF End, Goto, interval
  <2>2. Report!Finish
    BY <2>1, <1>b DEF Report!Finish, Report!Intervals, Finished
  <2>3. QED
    BY <2>2 DEF Report!Next
<1>4. ASSUME pc \in {"events", "solve", "failed"}, pc' = "exception", time < lend,
             UNCHANGED <<time, nlarge>>
      PROVE  Report!Next
  <2>1. Report!Abort
    BY <1>4, <1>b, <1>c DEF Report!Abort, Report!Intervals, Finished
  <2>2. QED
    BY <2>1 DEF Report!Next
<1>5. CASE NewtonIterFail
  <2>1. pc = "failed" /\ pc' \in {"exception", "fi_operator"} /\ UNCHANGED <<time, nlarge>>
    BY <1>5 DEF NewtonIterFail, interval
  <2>2. time < lend
    BY <2>1, <1>a DEF ScheduleInv, Inner
  <2>3. QED
    BY <2>1, <2>2, <1>4, Stutters DEF Finished
<1>6. CASE SetupFailed
  <2>1. pc = "solve" /\ pc' = "exception" /\ UNCHANGED <<time, nlarge>>
    BY <1>6 DEF SetupFailed, Goto, interval
  <2>2. time < lend
    BY <2>1, <1>a DEF ScheduleInv, Inner
  <2>3. QED
    BY <2>1, <2>2, <1>4
<1>6a. CASE EventFails
  <2>1. pc = "events" /\ pc' = "exception" /\ UNCHANGED <<time, nlarge>>
    BY <1>6a DEF EventFails, Goto, interval
  <2>2. time < lend
    <3>1. /\ it < Len(Reports) /\ it \in 1 .. Len(Reports)
          /\ time = lstart /\ lstart = Elapsed(it) /\ lend = Elapsed(it + 1)
      BY <2>1, <1>a DEF TypeOK, ScheduleInv
    <3>2. QED
      BY <3>1, ElapsedType
  <2>3. QED
    BY <2>1, <2>2, <1>4
<1>7. CASE \/ Ready \/ BeginReport \/ ApplyEvents \/ BeginSmallStep
           \/ Converged \/ Exhausted \/ NotConverged \/ Correct \/ SolverFailed
  <2>1. UNCHANGED <<time, nlarge>> /\ pc \notin Finished /\ pc' \notin Finished
    BY <1>7 DEF Ready, BeginReport, ApplyEvents, BeginSmallStep, Converged, Exhausted,
       NotConverged, Correct, SolverFailed, Goto, interval, Finished
  <2>2. QED
    BY <2>1, Stutters
<1>8. CASE UNCHANGED vars
  BY <1>8, Stutters DEF vars
<1>9. QED
  BY <1>1, <1>2, <1>3, <1>5, <1>6, <1>6a, <1>7, <1>8 DEF Next

(* The loop, with its small steps, retries and clamped lengths, implements *)
(* the calendar of reports: every date is reached exactly and reported     *)
(* once, in order, and the run ends only after the last or by exception.   *)
THEOREM ImplementsReportSteps == Spec => RefinesReportSteps
<1>1. Init => Report!Init
  BY DEF Init, Report!Init, Finished
<1>2. QED
  BY <1>1, Invariance, StepRefines, PTL DEF Spec, RefinesReportSteps, Report!Spec
-----------------------------------------------------------------------------
(* What the wells see of each place of the loop.                           *)
LEMMA StageOf ==
  /\ pc \in {"ready", "report", "events"} => WellStage = "schedule"
  /\ pc = "step" => WellStage = "step"
  /\ pc = "fi_operator" => WellStage = "evaluate"
  /\ pc \in {"solve", "failed", "solved"} => WellStage = "evaluated"
  /\ pc \in Finished => WellStage = "stopped"
  /\ pc \notin Inner => WellAttempt = "none"
BY DEF WellStage, WellAttempt, Finished, Inner

LEMMA StageOfNext ==
  /\ pc' \in {"ready", "report", "events"} => WellStage' = "schedule"
  /\ pc' = "step" => WellStage' = "step"
  /\ pc' = "fi_operator" => WellStage' = "evaluate"
  /\ pc' \in {"solve", "failed", "solved"} => WellStage' = "evaluated"
  /\ pc' \in Finished => WellStage' = "stopped"
  /\ pc' \notin Inner => WellAttempt' = "none"
BY DEF WellStage, WellAttempt, Finished, Inner

(* An iteration goes on with the attempt it belongs to.                    *)
LEMMA SameAttempt ==
  ASSUME pc \in Inner, pc' \in Inner, UNCHANGED <<newt, calcPrev>>
  PROVE  UNCHANGED WellAttempt
BY DEF WellAttempt

(* Every step of the loop is one call of the contract, or none.            *)
LEMMA CallsStep == IInv /\ [Next]_vars => [Calls!CallsNext]_(Calls!calls)
<1> SUFFICES ASSUME IInv, [Next]_vars PROVE [Calls!CallsNext]_(Calls!calls)
  OBVIOUS
<1> USE DEF Calls!CallsNext, Calls!Move, Calls!calls, Inner, Finished, Goto
<1>a. newt \in Nat
  BY DEF IInv, TypeOK
<1>1. CASE Ready \/ BeginReport
  BY <1>1, StageOf, StageOfNext DEF Ready, BeginReport
<1>2. CASE ApplyEvents
  BY <1>2, StageOf, StageOfNext DEF ApplyEvents, Calls!CallPreLargeStep
<1>3. CASE EventFails \/ End \/ SetupFailed
  BY <1>3, StageOf, StageOfNext DEF EventFails, End, SetupFailed, Calls!CallsEnd
<1>4. CASE BeginSmallStep
  <2>1. WellAttempt' = "first"
    BY <1>4 DEF BeginSmallStep, WellAttempt
  <2>2. QED
    BY <1>4, <2>1, StageOf, StageOfNext DEF BeginSmallStep, Calls!CallPreSmallStep
<1>5. CASE Converged \/ Exhausted \/ NotConverged
  <2>1. UNCHANGED WellAttempt
    BY <1>5, SameAttempt DEF Converged, Exhausted, NotConverged
  <2>2. pc = "fi_operator" /\ pc' \in {"solve", "failed", "solved"}
    BY <1>5 DEF Converged, Exhausted, NotConverged
  <2>3. QED
    BY <2>1, <2>2, StageOf, StageOfNext DEF Calls!CallCalcWells
<1>6. CASE Correct
  <2>1. WellAttempt' = "corrected"
    BY <1>6, <1>a DEF Correct, WellAttempt
  <2>2. QED
    BY <1>6, <2>1, StageOf, StageOfNext DEF Correct, Calls!CallRestoreSolution
<1>7. CASE SolverFailed
  <2>1. UNCHANGED WellAttempt
    BY <1>7, SameAttempt DEF SolverFailed
  <2>2. QED
    BY <1>7, <2>1, StageOf, StageOfNext DEF SolverFailed
<1>8. CASE NewtonIterFail
  <2>1. CASE pc' = "exception"
    BY <1>8, <2>1, StageOf, StageOfNext DEF NewtonIterFail, Calls!CallsEnd
  <2>2. CASE pc' # "exception"
    <3>1. pc = "failed" /\ pc' = "fi_operator" /\ newt' = 0 /\ calcPrev' = FALSE
      BY <1>8, <2>2 DEF NewtonIterFail, RetryFlag
    <3>2. WellAttempt' = "retry"
      BY <3>1 DEF WellAttempt
    <3>3. QED
      BY <3>1, <3>2, StageOf, StageOfNext DEF Calls!CallRestartSmallStep
  <2>3. QED
    BY <2>1, <2>2
<1>9. CASE NewtonIterSuccess
  <2>1. WellAttempt = "corrected"
    BY <1>9 DEF NewtonIterSuccess, WellAttempt, IInv, SolutionInv
  <2>2. QED
    BY <1>9, <2>1, StageOf, StageOfNext DEF NewtonIterSuccess, Calls!CallAccRates
<1>10. CASE TimeStepEnd
  BY <1>10, StageOf, StageOfNext DEF TimeStepEnd, Calls!CallReport
<1>11. CASE UNCHANGED vars
  BY <1>11 DEF vars, WellStage, WellAttempt
<1>12. QED
  BY <1>1, <1>2, <1>3, <1>4, <1>5, <1>6, <1>7, <1>8, <1>9, <1>10, <1>11 DEF Next

(* The loop calls the wells in the order WellControl assumes: what the well *)
(* model is proved to do, it does under this loop.                          *)
THEOREM ImplementsWellCalls == Spec => RefinesWellCalls
<1>1. Init => Calls!CallsInit
  BY StageOf DEF Init, Calls!CallsInit, Inner
<1>2. QED
  BY <1>1, Invariance, CallsStep, PTL DEF Spec, RefinesWellCalls, Calls!CallsSpec
-----------------------------------------------------------------------------
(* The schedule the loop works on.                                         *)

(* The numbers 0 .. x, whose inclusion is the order of the naturals.       *)
Down(x) == 0 .. x

(* A set of naturals has a least element.                                  *)
LEMMA LeastNatural ==
  ASSUME NEW T \in SUBSET Nat, T # {}
  PROVE  \E m \in T : \A y \in T : m <= y
<1> DEFINE Segments == { Down(x) : x \in T }
<1>1. IsWellFoundedOn(StrictSubsetOrdering(Nat), FiniteSubsetsOf(Nat))
  BY FS_StrictSubsetOrderingWellFounded
<1>2. Segments \subseteq FiniteSubsetsOf(Nat)
  <2> SUFFICES ASSUME NEW x \in T PROVE Down(x) \in FiniteSubsetsOf(Nat)
    OBVIOUS
  <2> IsFiniteSet(0 .. x)
    BY FS_Interval
  <2> QED
    BY DEF Down, FiniteSubsetsOf
<1>3. Segments # {}
  OBVIOUS
<1>4. PICK s \in Segments :
        \A t \in Segments : <<t, s>> \notin StrictSubsetOrdering(Nat)
  <2> HIDE DEF Segments
  <2> QED
    BY <1>1, <1>2, <1>3, WFMin
<1>5. PICK m \in T : s = Down(m)
  OBVIOUS
<1>6. \A y \in T : m <= y
  <2> SUFFICES ASSUME NEW y \in T, y < m PROVE FALSE
    OBVIOUS
  <2>1. Down(y) \subseteq Down(m) /\ Down(y) # Down(m)
    BY DEF Down
  <2>2. Down(y) \in SUBSET Nat /\ Down(m) \in SUBSET Nat
    BY DEF Down
  <2>3. <<Down(y), Down(m)>> \in StrictSubsetOrdering(Nat)
    BY <2>1, <2>2 DEF StrictSubsetOrdering
  <2> QED
    BY <1>4, <1>5, <2>3
<1>7. QED
  BY <1>6

(* Induction, with the numbers a claim holds for as a set.                 *)
LEMMA InductionUpTo ==
  ASSUME NEW len \in Nat, NEW T, 0 \in T,
         \A n \in 1 .. len : n - 1 \in T => n \in T
  PROVE  0 .. len \subseteq T
<1> SUFFICES ASSUME NEW k \in 0 .. len, k \notin T PROVE FALSE
  OBVIOUS
<1> DEFINE Bad == { n \in 0 .. len : n \notin T }
<1>1. Bad \in SUBSET Nat /\ Bad # {}
  OBVIOUS
<1> HIDE DEF Bad
<1>2. PICK m \in Bad : \A y \in Bad : m <= y
  BY <1>1, LeastNatural
<1>3. m \in 1 .. len /\ m \notin T
  BY DEF Bad
<1>4. m - 1 \in 0 .. len /\ m - 1 \notin Bad
  BY <1>1, <1>2, <1>3
<1>5. QED
  BY <1>3, <1>4 DEF Bad

(* Primitive recursion over 1 .. len: F is the step, from a value in V and *)
(* a number to the next value.                                             *)
Follows(g, c, len, F) ==
  g[0] = c /\ \A n \in 1 .. len : g[n] = F[<<g[n - 1], n>>]

LEMMA RecursionExists ==
  ASSUME NEW V, NEW c \in V, NEW len \in Nat, NEW F \in [V \X (1 .. len) -> V]
  PROVE  \E g \in [0 .. len -> V] : Follows(g, c, len, F)
<1> DEFINE Good(g, k) == Follows(g, c, k, F)
           T == { k \in 0 .. len : \E g \in [0 .. k -> V] : Good(g, k) }
<1>1. 0 \in T
  <2> DEFINE g == [n \in 0 .. 0 |-> c]
  <2>1. g \in [0 .. 0 -> V] /\ Good(g, 0)
    BY DEF Follows
  <2> HIDE DEF g, Good
  <2>2. QED
    BY <2>1
<1>2. ASSUME NEW k \in 1 .. len, k - 1 \in T PROVE k \in T
  <2>1. PICK f \in [0 .. k - 1 -> V] : Good(f, k - 1)
    BY <1>2
  <2> DEFINE v == F[<<f[k - 1], k>>]
             g == [n \in 0 .. k |-> IF n < k THEN f[n] ELSE v]
  <2>2. k - 1 \in 0 .. k - 1 /\ f[k - 1] \in V
    OBVIOUS
  <2>3. v \in V
    BY <2>2
  <2>4. \A n \in 0 .. k : n < k => n \in 0 .. k - 1 /\ g[n] = f[n] /\ f[n] \in V
    OBVIOUS
  <2>5. g[k] = v
    OBVIOUS
  <2>6. g \in [0 .. k -> V]
    BY <2>3
  <2>7. g[0] = c
    BY <2>1, <2>4 DEF Follows
  <2> HIDE DEF g
  <2>8. ASSUME NEW n \in 1 .. k PROVE g[n] = F[<<g[n - 1], n>>]
    <3>1. n - 1 \in 0 .. k /\ n - 1 < k /\ n \in 0 .. k
      OBVIOUS
    <3>2. g[n - 1] = f[n - 1]
      BY <2>4, <3>1
    <3>3. CASE n = k
      BY <2>5, <3>2, <3>3
    <3>4. CASE n < k
      <4>1. n \in 1 .. k - 1 /\ g[n] = f[n]
        BY <2>4, <3>1, <3>4
      <4>2. QED
        BY <2>1, <3>2, <4>1 DEF Follows
    <3>5. QED
      BY <3>3, <3>4
  <2>9. QED
    BY <2>6, <2>7, <2>8 DEF Follows
<1> HIDE DEF T
<1>3. 0 .. len \subseteq T
  BY <1>1, <1>2, InductionUpTo
<1>4. len \in T
  BY <1>3
<1>5. QED
  BY <1>4 DEF T
-----------------------------------------------------------------------------
(* The sums of the prefixes of a sequence of numbers, one after the other. *)
LEMMA SumStep ==
  ASSUME NEW len \in Nat, NEW s \in [1 .. len -> Int]
  PROVE  /\ Len(s) = len
         /\ SumTo(s, 0) = 0
         /\ \A k \in 0 .. len : SumTo(s, k) \in Int
         /\ \A k \in 1 .. len : SumTo(s, k) = SumTo(s, k - 1) + s[k]
<1>1. Len(s) = len
  OBVIOUS
<1> DEFINE IsSum(g) == g = [n \in 0 .. Len(s) |-> IF n = 0 THEN 0 ELSE g[n - 1] + s[n]]
           total == CHOOSE g : IsSum(g)
           F == [p \in Int \X (1 .. len) |-> p[1] + s[p[2]]]
<1>2. \A x \in Int, n \in 1 .. len : F[<<x, n>>] = x + s[n] /\ s[n] \in Int
  OBVIOUS
<1>3. F \in [Int \X (1 .. len) -> Int]
  OBVIOUS
<1> HIDE DEF F
<1>4. PICK g \in [0 .. len -> Int] : Follows(g, 0, len, F)
  <2> DEFINE V == Int
             zero == 0
  <2>1. zero \in V /\ F \in [V \X (1 .. len) -> V]
    BY <1>3
  <2> HIDE DEF V, zero
  <2>2. \E g \in [0 .. len -> V] : Follows(g, zero, len, F)
    BY <2>1, RecursionExists
  <2>3. QED
    BY <2>2 DEF V, zero
<1>5. IsSum(g)
  <2>1. \A n \in 0 .. len : n = 0 \/ (n \in 1 .. len /\ n - 1 \in 0 .. len)
    OBVIOUS
  <2>2. \A n \in 0 .. len : g[n] = IF n = 0 THEN 0 ELSE g[n - 1] + s[n]
    BY <1>2, <1>4, <2>1 DEF Follows
  <2>3. QED
    BY <1>1, <2>2
<1>6. IsSum(total)
  <2> HIDE DEF IsSum
  <2>1. QED
    BY <1>5
<1>7. \A k : SumTo(s, k) = total[k]
  <2> SUFFICES ASSUME NEW k PROVE SumTo(s, k) = total[k]
    OBVIOUS
  <2>1. QED
    BY DEF SumTo
<1> HIDE DEF total
<1>8. total[0] = 0 /\ \A k \in 1 .. len : total[k] = total[k - 1] + s[k]
  BY <1>1, <1>6
<1>9. \A k \in 0 .. len : total[k] \in Int
  <2> DEFINE T == { k \in 0 .. len : total[k] \in Int }
  <2>1. 0 \in T
    BY <1>8
  <2>2. \A k \in 1 .. len : k - 1 \in T => k \in T
    BY <1>8
  <2> HIDE DEF T
  <2>3. 0 .. len \subseteq T
    BY <2>1, <2>2, InductionUpTo
  <2>4. QED
    BY <2>3 DEF T
<1>10. QED
  BY <1>1, <1>7, <1>8, <1>9


(* A sum looks at nothing but its summands.                                *)
LEMMA SumAgree ==
  ASSUME NEW k \in Nat, NEW m \in Nat, NEW n \in Nat, k <= m, k <= n,
         NEW s \in [1 .. m -> Int], NEW t \in [1 .. n -> Int],
         \A i \in 1 .. k : s[i] = t[i]
  PROVE  SumTo(s, k) = SumTo(t, k)
<1> DEFINE T == { i \in 0 .. k : SumTo(s, i) = SumTo(t, i) }
<1>1. /\ SumTo(s, 0) = 0
      /\ \A i \in 1 .. m : SumTo(s, i) = SumTo(s, i - 1) + s[i]
  BY SumStep
<1>2. /\ SumTo(t, 0) = 0
      /\ \A i \in 1 .. n : SumTo(t, i) = SumTo(t, i - 1) + t[i]
  BY SumStep
<1>3. 0 \in T
  BY <1>1, <1>2
<1>4. ASSUME NEW i \in 1 .. k, i - 1 \in T PROVE i \in T
  <2>1. i \in 1 .. m /\ i \in 1 .. n /\ i \in 0 .. k
    OBVIOUS
  <2>2. SumTo(s, i - 1) = SumTo(t, i - 1)
    BY <1>4
  <2>3. QED
    BY <1>1, <1>2, <2>1, <2>2
<1> HIDE DEF T
<1>5. 0 .. k \subseteq T
  BY <1>3, <1>4, InductionUpTo
<1>6. k \in T
  BY <1>5
<1>7. QED
  BY <1>6 DEF T

(* Sequences that differ in their last element, or by it, differ by it in  *)
(* their sums.                                                             *)
LEMMA SumOfLonger ==
  ASSUME NEW n \in Nat, NEW s \in [1 .. n -> Int], NEW t \in [1 .. n + 1 -> Int],
         \A i \in 1 .. n : s[i] = t[i]
  PROVE  SumTo(t, n + 1) = SumTo(s, n) + t[n + 1]
<1>1. n + 1 \in Nat /\ n <= n + 1 /\ n + 1 \in 1 .. n + 1 /\ (n + 1) - 1 = n
  OBVIOUS
<1>2. SumTo(t, n + 1) = SumTo(t, n) + t[n + 1]
  <2>1. \A k \in 1 .. n + 1 : SumTo(t, k) = SumTo(t, k - 1) + t[k]
    BY <1>1, SumStep
  <2>2. QED
    BY <1>1, <2>1
<1>3. SumTo(s, n) = SumTo(t, n)
  BY <1>1, SumAgree
<1>4. QED
  BY <1>2, <1>3

LEMMA SumOfRaised ==
  ASSUME NEW n \in Nat \ {0}, NEW s \in [1 .. n -> Int], NEW t \in [1 .. n -> Int],
         \A i \in 1 .. n - 1 : s[i] = t[i], t[n] = s[n] + 1
  PROVE  SumTo(t, n) = SumTo(s, n) + 1
<1>1. n - 1 \in Nat /\ n - 1 <= n /\ n \in 1 .. n /\ n - 1 \in 0 .. n
  OBVIOUS
<1>2. SumTo(s, n) = SumTo(s, n - 1) + s[n] /\ SumTo(s, n - 1) \in Int
  BY <1>1, SumStep
<1>3. SumTo(t, n) = SumTo(t, n - 1) + t[n]
  BY <1>1, SumStep
<1>4. SumTo(s, n - 1) = SumTo(t, n - 1)
  BY <1>1, SumAgree
<1>5. s[n] \in Int
  OBVIOUS
<1>6. QED
  BY <1>2, <1>3, <1>4, <1>5
-----------------------------------------------------------------------------
(* The states of the list of dates and of the current date: a date of the  *)
(* list as soon as there is one.                                           *)
Lists == [at : SUBSET Int, now : Int]
HasLatest(ds) == \E d \in ds : \A e \in ds : e <= d
Sound(s) == s.at # {} => s.now \in s.at /\ HasLatest(s.at)
IsLatest(s) == s.at # {} => \A e \in s.at : e <= s.now

LEMMA SetCurrentDateSound ==
  ASSUME NEW s \in Lists, NEW d \in Int, Sound(s)
  PROVE  /\ SetCurrentDate(s, d) \in Lists
         /\ Sound(SetCurrentDate(s, d))
         /\ s.at \subseteq SetCurrentDate(s, d).at
<1> DEFINE r == SetCurrentDate(s, d)
<1>1. r \in Lists /\ r.at = s.at \cup {d} /\ r.now = IF d \in s.at THEN s.now ELSE d
  BY DEF SetCurrentDate, Lists
<1>2. s.at \subseteq Int /\ r.at # {}
  BY <1>1 DEF Lists
<1>3. r.now \in r.at
  BY <1>1 DEF Sound
<1>4. HasLatest(r.at)
  <2>1. CASE s.at = {}
    <3>1. \A e \in r.at : e <= d
      BY <1>1, <2>1
    <3>2. QED
      BY <1>1, <3>1 DEF HasLatest
  <2>2. CASE s.at # {}
    <3>1. PICK m \in s.at : \A e \in s.at : e <= m
      BY <2>2 DEF Sound, HasLatest
    <3>2. CASE d <= m
      <4>1. m \in r.at /\ \A e \in r.at : e <= m
        BY <1>1, <3>1, <3>2
      <4>2. QED
        BY <4>1 DEF HasLatest
    <3>3. CASE m < d
      <4>1. d \in r.at /\ \A e \in r.at : e <= d
        BY <1>1, <1>2, <3>1, <3>3
      <4>2. QED
        BY <4>1 DEF HasLatest
    <3>4. QED
      BY <1>2, <3>1, <3>2, <3>3
  <2>3. QED
    BY <2>1, <2>2
<1>5. QED
  BY <1>1, <1>3, <1>4 DEF Sound

(* A date that is not before the current one, which is the latest.         *)
LEMMA SetCurrentDateLatest ==
  ASSUME NEW s \in Lists, NEW d \in Int, IsLatest(s), \A e \in s.at : e <= d
  PROVE  IsLatest(SetCurrentDate(s, d))
         
<1>1. s.at \subseteq Int /\ s.now \in Int
  BY DEF Lists
<1>2. QED
  BY <1>1 DEF SetCurrentDate, IsLatest


(* The dates after each length of a TSTEP.                                 *)
LEMMA TstepsOneByOne ==
  ASSUME NEW len \in Nat, NEW steps \in [1 .. len -> Int], Schedule \in Lists
  PROVE  \E g \in [0 .. len -> Lists] :
           /\ AfterTsteps(steps) = g[len]
           /\ g[0] = Schedule
           /\ \A n \in 1 .. len : g[n] = SetCurrentDate(g[n - 1], g[n - 1].now + steps[n])
<1> DEFINE Added(s, t) == SetCurrentDate(s, s.now + t)
           IsAfter(g) == g = [n \in 0 .. Len(steps) |->
                                IF n = 0 THEN Schedule
                                ELSE SetCurrentDate(g[n - 1], g[n - 1].now + steps[n])]
           after == CHOOSE g : IsAfter(g)
           F == [p \in Lists \X (1 .. len) |-> Added(p[1], steps[p[2]])]
<1>1. Len(steps) = len
  OBVIOUS
<1>2. \A s \in Lists, t \in Int : Added(s, t) \in Lists
  BY DEF Lists, SetCurrentDate
<1>3. \A s \in Lists, n \in 1 .. len : F[<<s, n>>] = Added(s, steps[n])
  OBVIOUS
<1>4. F \in [Lists \X (1 .. len) -> Lists]
  <2> HIDE DEF Added
  <2>1. QED
    BY <1>2
<1> HIDE DEF F
<1>5. PICK g \in [0 .. len -> Lists] : Follows(g, Schedule, len, F)
  BY <1>4, RecursionExists
<1>6. IsAfter(g)
  <2>1. \A n \in 0 .. len : n = 0 \/ (n \in 1 .. len /\ n - 1 \in 0 .. len)
    OBVIOUS
  <2>2. ASSUME NEW n \in 0 .. len
        PROVE  g[n] = IF n = 0 THEN Schedule
                      ELSE SetCurrentDate(g[n - 1], g[n - 1].now + steps[n])
    BY <1>3, <1>5, <2>1 DEF Follows
  <2>3. QED
    BY <1>1, <2>2
<1>7. IsAfter(after)
  <2> HIDE DEF IsAfter
  <2>1. QED
    BY <1>6
<1>8. AfterTsteps(steps) = after[len]
  <2>1. AfterTsteps(steps) = after[Len(steps)]
    BY DEF AfterTsteps
  <2>2. QED
    BY <1>1, <2>1
<1> HIDE DEF after
<1>9. /\ after[0] = Schedule
      /\ \A n \in 1 .. len : after[n] = Added(after[n - 1], steps[n])
  BY <1>1, <1>7
<1>10. \A n \in 0 .. len : after[n] \in Lists
  <2> DEFINE T == { n \in 0 .. len : after[n] \in Lists }
  <2>1. 0 \in T
    BY <1>9
  <2> HIDE DEF Added
  <2>2. \A n \in 1 .. len : n - 1 \in T => n \in T
    BY <1>2, <1>9
  <2> HIDE DEF T
  <2>3. 0 .. len \subseteq T
    BY <2>1, <2>2, InductionUpTo
  <2>4. QED
    BY <2>3 DEF T
<1>11. after \in [0 .. len -> Lists]
  BY <1>1, <1>7, <1>10
<1>12. QED
  BY <1>8, <1>9, <1>11

(* A TSTEP never removes a date, and the current date stays one of the     *)
(* list, whatever it was before the list had one.                          *)
LEMMA TstepsSound ==
  ASSUME NEW len \in Nat, NEW steps \in [1 .. len -> Int],
         Schedule \in Lists, Sound(Schedule)
  PROVE  /\ AfterTsteps(steps) \in Lists
         /\ Sound(AfterTsteps(steps))
         /\ dates \subseteq AfterTsteps(steps).at
<1>1. PICK g \in [0 .. len -> Lists] :
           /\ AfterTsteps(steps) = g[len]
           /\ g[0] = Schedule
           /\ \A n \in 1 .. len : g[n] = SetCurrentDate(g[n - 1], g[n - 1].now + steps[n])
  BY TstepsOneByOne
<1> DEFINE T == { n \in 0 .. len : Sound(g[n]) /\ dates \subseteq g[n].at }
<1>2. 0 \in T
  BY <1>1 DEF Schedule
<1>3. ASSUME NEW n \in 1 .. len, n - 1 \in T PROVE n \in T
  <2>1. /\ Sound(g[n - 1]) /\ dates \subseteq g[n - 1].at
        /\ g[n - 1] \in Lists /\ n \in 0 .. len
    BY <1>3
  <2>2. g[n - 1].now + steps[n] \in Int
    BY <2>1 DEF Lists
  <2>3. /\ Sound(SetCurrentDate(g[n - 1], g[n - 1].now + steps[n]))
        /\ g[n - 1].at \subseteq SetCurrentDate(g[n - 1], g[n - 1].now + steps[n]).at
    BY <2>1, <2>2, SetCurrentDateSound
  <2>4. QED
    BY <1>1, <2>1, <2>3
<1> HIDE DEF T
<1>4. 0 .. len \subseteq T
  BY <1>2, <1>3, InductionUpTo
<1>5. len \in T /\ len \in 0 .. len
  BY <1>4
<1>6. QED
  BY <1>1, <1>5 DEF T

(* From the latest date the lengths of a TSTEP add up.                     *)
LEMMA TstepsAddUp ==
  ASSUME NEW len \in Nat, NEW steps \in [1 .. len -> Nat \ {0}],
         Schedule \in Lists, Sound(Schedule), IsLatest(Schedule)
  PROVE  /\ IsLatest(AfterTsteps(steps))
         /\ AfterTsteps(steps).now = current + SumTo(steps, len)
<1>0. steps \in [1 .. len -> Int]
  OBVIOUS
<1>1. PICK g \in [0 .. len -> Lists] :
           /\ AfterTsteps(steps) = g[len]
           /\ g[0] = Schedule
           /\ \A n \in 1 .. len : g[n] = SetCurrentDate(g[n - 1], g[n - 1].now + steps[n])
  BY <1>0, TstepsOneByOne
<1>2. /\ SumTo(steps, 0) = 0
      /\ \A k \in 0 .. len : SumTo(steps, k) \in Int
      /\ \A k \in 1 .. len : SumTo(steps, k) = SumTo(steps, k - 1) + steps[k]
  BY <1>0, SumStep
<1> DEFINE T == { n \in 0 .. len : IsLatest(g[n]) /\ g[n].now = current + SumTo(steps, n) }
<1>3. current \in Int
  BY DEF Schedule, Lists
<1>4. 0 \in T
  BY <1>1, <1>2, <1>3 DEF Schedule
<1>5. ASSUME NEW n \in 1 .. len, n - 1 \in T PROVE n \in T
  <2> DEFINE d == g[n - 1].now + steps[n]
  <2>1. /\ IsLatest(g[n - 1]) /\ g[n - 1].now = current + SumTo(steps, n - 1)
        /\ g[n - 1] \in Lists /\ n \in 0 .. len /\ n - 1 \in 0 .. len
    BY <1>5
  <2>2. /\ g[n - 1].at \subseteq Int /\ g[n - 1].now \in Int
        /\ steps[n] \in Nat /\ steps[n] > 0
    BY <2>1 DEF Lists
  <2>3. d \in Int /\ \A e \in g[n - 1].at : e < d
    BY <2>1, <2>2 DEF IsLatest
  <2>4. g[n] = SetCurrentDate(g[n - 1], d)
    BY <1>1
  <2>5. d = current + SumTo(steps, n)
    BY <1>2, <1>3, <2>1, <2>2
  <2> HIDE DEF d
  <2>6. IsLatest(g[n])
    BY <2>1, <2>2, <2>3, <2>4, SetCurrentDateLatest
  <2>7. g[n].now = d
    BY <2>2, <2>3, <2>4 DEF SetCurrentDate
  <2>8. QED
    BY <2>1, <2>5, <2>6, <2>7
<1> HIDE DEF T
<1>6. 0 .. len \subseteq T
  BY <1>4, <1>5, InductionUpTo
<1>7. len \in T /\ len \in 0 .. len
  BY <1>6
<1>8. QED
  BY <1>1, <1>7 DEF T
-----------------------------------------------------------------------------
EventRecord(ds) == [date : ds, name : Names, lines : Nat \ {0}]
LinesOf(ev) == [n \in DOMAIN ev |-> ev[n].lines]

(* Nothing is lost while the deck is read because every date on the way is *)
(* kept, and the last one exists when finalize_events looks for it.        *)
EventInv ==
  /\ ScheduleTypeOK
  /\ Sound(Schedule)
  /\ LinesIn = lines
  /\ phase = "read" /\ ordered => IsLatest(Schedule)
  /\ phase = "run" =>
       dates # {} /\ \A n \in DOMAIN events : \E d \in dates : events[n].date < d


LEMMA EventsShape ==
  ASSUME ScheduleTypeOK
  PROVE  /\ Len(events) \in Nat /\ DOMAIN events = 1 .. Len(events)
         /\ events \in [1 .. Len(events) -> EventRecord(dates)]
         /\ LinesOf(events) \in [1 .. Len(events) -> Int]
<1>1. events \in Seq(EventRecord(dates))
  BY DEF ScheduleTypeOK, EventRecord
<1>2. /\ Len(events) \in Nat /\ DOMAIN events = 1 .. Len(events)
      /\ events \in [1 .. Len(events) -> EventRecord(dates)]
  BY <1>1
<1>3. \A n \in 1 .. Len(events) : events[n].lines \in Int
  BY <1>2 DEF EventRecord
<1>4. QED
  BY <1>2, <1>3 DEF LinesOf

LEMMA EventsOfMoreDates ==
  ASSUME NEW ds, NEW es, ds \subseteq es, NEW ev \in Seq(EventRecord(ds))
  PROVE  ev \in Seq(EventRecord(es))
<1>1. EventRecord(ds) \subseteq EventRecord(es)
  BY DEF EventRecord
<1>2. ev \in [1 .. Len(ev) -> EventRecord(ds)] /\ Len(ev) \in Nat
  OBVIOUS
<1>3. ev \in [1 .. Len(ev) -> EventRecord(es)]
  BY <1>1, <1>2
<1>4. QED
  BY <1>2, <1>3

LEMMA ScheduleInitInv == ScheduleInit => EventInv
<1> SUFFICES ASSUME ScheduleInit PROVE EventInv
  OBVIOUS
<1>1. LinesIn = 0
  <2>1. events = <<>> /\ Len(events) = 0 /\ LinesOf(events) \in [1 .. 0 -> Int]
    BY DEF ScheduleInit, LinesOf
  <2>2. SumTo(LinesOf(events), 0) = 0
    <3>1. 0 \in Nat
      OBVIOUS
    <3>2. QED
      BY <2>1, <3>1, SumStep
  <2>3. QED
    BY <2>1, <2>2 DEF LinesIn, LinesOf
<1>2. ScheduleTypeOK
  BY ScheduleAssumption DEF ScheduleInit, ScheduleTypeOK
<1>3. QED
  BY <1>1, <1>2 DEF EventInv, ScheduleInit, Schedule, Sound, IsLatest

(* DATE and TSTEP: the list of dates grows.                                *)
LEMMA DatesGrow ==
  ASSUME EventInv, phase = "read", NEW s \in Lists, Sound(s), dates \subseteq s.at,
         ordered => IsLatest(s), SetTo(s),
         UNCHANGED <<ordered, phase, events, open, lines>>
  PROVE  EventInv'
<1>1. dates' = s.at /\ current' = s.now /\ s.at \subseteq Int /\ s.now \in Int
  BY DEF SetTo, Lists
<1>2. events \in Seq(EventRecord(s.at))
  BY EventsOfMoreDates DEF EventInv, ScheduleTypeOK, EventRecord
<1>3. ScheduleTypeOK'
  BY <1>1, <1>2 DEF EventInv, ScheduleTypeOK, EventRecord, Sound
<1>4. Sound(Schedule)'
  BY <1>1 DEF Schedule, Sound
<1>5. (phase = "read" /\ ordered => IsLatest(Schedule))'
  BY <1>1 DEF Schedule, IsLatest
<1>6. (LinesIn = lines)'
  BY DEF EventInv, LinesIn
<1>7. QED
  BY <1>3, <1>4, <1>5, <1>6 DEF EventInv

LEMMA DateInv ==
  ASSUME EventInv, NEW d \in Deck, Date(d)
  PROVE  EventInv'
<1> DEFINE s == SetCurrentDate(Schedule, d)
<1>1. d \in Int /\ Schedule \in Lists /\ Sound(Schedule)
  BY ScheduleAssumption DEF EventInv, ScheduleTypeOK, Schedule, Lists
<1>2. s \in Lists /\ Sound(s) /\ dates \subseteq s.at
  BY <1>1, SetCurrentDateSound DEF Schedule
<1>3. ASSUME ordered PROVE IsLatest(s)
  <2>1. IsLatest(Schedule) /\ \A e \in Schedule.at : e <= d
    BY <1>3 DEF Date, EventInv, Schedule
  <2>2. QED
    BY <1>1, <2>1, SetCurrentDateLatest
<1>4. phase = "read" /\ SetTo(s) /\ UNCHANGED <<ordered, phase, events, open, lines>>
  BY DEF Date
<1> HIDE DEF s
<1>5. QED
  BY <1>2, <1>3, <1>4, DatesGrow

(* What TSTEP needs of the lengths it is given.                            *)
LEMMA StepsShape ==
  ASSUME NEW steps \in Steps
  PROVE  Len(steps) \in Nat /\ steps \in [1 .. Len(steps) -> Nat \ {0}]
         /\ steps \in [1 .. Len(steps) -> Int]
  BY ScheduleAssumption

LEMMA TstepInv ==
  ASSUME EventInv, NEW steps \in Steps, Tstep(steps)
  PROVE  EventInv'
<1> DEFINE s == AfterTsteps(steps)
           len == Len(steps)
<1>1. Schedule \in Lists /\ Sound(Schedule)
  BY DEF EventInv, ScheduleTypeOK, Schedule, Lists
<1>2. len \in Nat /\ steps \in [1 .. len -> Nat \ {0}] /\ steps \in [1 .. len -> Int]
  BY StepsShape
<1>3. phase = "read" /\ SetTo(s) /\ UNCHANGED <<ordered, phase, events, open, lines>>
  BY DEF Tstep
<1>4. ordered => IsLatest(Schedule)
  BY <1>3 DEF EventInv
<1> HIDE DEF len
<1>5. s \in Lists /\ Sound(s) /\ dates \subseteq s.at
  BY <1>1, <1>2, TstepsSound
<1>6. ordered => IsLatest(s)
  BY <1>1, <1>2, <1>4, TstepsAddUp
<1> HIDE DEF s
<1>7. QED
  BY <1>3, <1>5, <1>6, DatesGrow


(* The events change, and nothing of the dates.                            *)
LEMMA EventsChange ==
  ASSUME EventInv, phase = "read", ScheduleTypeOK', (LinesIn = lines)',
         UNCHANGED <<ordered, phase, dates, current>>
  PROVE  EventInv'
<1>1. Sound(Schedule)' /\ (phase = "read" /\ ordered => IsLatest(Schedule))'
  BY DEF EventInv, Schedule, Sound, IsLatest, HasLatest
<1>2. QED
  BY <1>1 DEF EventInv

(* A line goes to the last event, which is the open one.                   *)
LEMMA AddNextLineInv ==
  ASSUME EventInv, AddNextLine
  PROVE  EventInv'
<1> DEFINE n == Len(events)
           e == [events[n] EXCEPT !.lines = @ + 1]
<1>1. /\ n \in Nat /\ events \in [1 .. n -> EventRecord(dates)]
      /\ LinesOf(events) \in [1 .. n -> Int] /\ DOMAIN events = 1 .. n
  BY EventsShape DEF EventInv
<1>2. open = n /\ n # 0 /\ n \in 1 .. n
  BY <1>1 DEF AddNextLine, EventInv, ScheduleTypeOK
<1>3. /\ e \in EventRecord(dates) /\ e.lines = events[n].lines + 1
      /\ e.name = events[n].name
  BY <1>1, <1>2 DEF EventRecord
<1>4. events' = [events EXCEPT ![n] = e]
  BY <1>2 DEF AddNextLine
<1> HIDE DEF e, n
<1>5. /\ events' \in [1 .. n -> EventRecord(dates)] /\ DOMAIN events' = 1 .. n
      /\ events'[n] = e /\ \A i \in 1 .. n - 1 : events'[i] = events[i]
  BY <1>1, <1>2, <1>3, <1>4
<1>6. Len(events') = n
  BY <1>1, <1>5
<1>7. LinesOf(events') \in [1 .. n -> Int]
  <2>1. \A i \in 1 .. n : events'[i].lines \in Int
    BY <1>5 DEF EventRecord
  <2>2. QED
    BY <1>5, <2>1 DEF LinesOf
<1>8. /\ LinesOf(events')[n] = LinesOf(events)[n] + 1
      /\ \A i \in 1 .. n - 1 : LinesOf(events)[i] = LinesOf(events')[i]
  BY <1>1, <1>2, <1>3, <1>5 DEF LinesOf
<1>9. SumTo(LinesOf(events'), n) = SumTo(LinesOf(events), n) + 1
  <2>1. n \in Nat \ {0}
    BY <1>1, <1>2
  <2>2. QED
    BY <1>1, <1>7, <1>8, <2>1, SumOfRaised
<1>10. (LinesIn = lines)'
  <2>1. SumTo(LinesOf(events), n) = lines
    BY DEF EventInv, LinesIn, LinesOf, n
  <2>2. SumTo(LinesOf(events'), n) = lines'
    BY <1>9, <2>1 DEF AddNextLine
  <2>3. QED
    BY <1>6, <2>2 DEF LinesIn, LinesOf
<1>11. events' \in Seq(EventRecord(dates))
  BY <1>1, <1>5
<1>12. ScheduleTypeOK'
  <2>1. lines' \in 0 .. LinesBound
    BY ScheduleAssumption DEF AddNextLine, EventInv, ScheduleTypeOK
  <2>2. open' \in {0, Len(events')} /\ (open' # 0 => events'[open'].name \in MultiLine)
    BY <1>2, <1>3, <1>5, <1>6 DEF AddNextLine, EventInv, ScheduleTypeOK
  <2>3. QED
    BY <1>11, <2>1, <2>2 DEF AddNextLine, EventInv, ScheduleTypeOK, EventRecord
<1>13. QED
  BY <1>10, <1>12, EventsChange DEF AddNextLine

(* A new event has its first line.                                         *)
LEMMA CreateEventInv ==
  ASSUME EventInv, NEW d \in dates, NEW name \in Names, CreateEvent(d, name)
  PROVE  EventInv'
<1> DEFINE n == Len(events)
           e == [date |-> d, name |-> name, lines |-> 1]
<1>1. /\ n \in Nat /\ events \in [1 .. n -> EventRecord(dates)]
      /\ LinesOf(events) \in [1 .. n -> Int] /\ DOMAIN events = 1 .. n
      /\ events \in Seq(EventRecord(dates))
  BY EventsShape DEF EventInv, ScheduleTypeOK, EventRecord
<1>2. e \in EventRecord(dates) /\ e.lines = 1 /\ e.name = name
  BY DEF EventRecord
<1>3. events' = Append(events, e)
  BY DEF CreateEvent
<1> HIDE DEF e
<1>4. /\ events' \in Seq(EventRecord(dates)) /\ Len(events') = n + 1
      /\ DOMAIN events' = 1 .. n + 1
      /\ events'[n + 1] = e /\ \A i \in 1 .. n : events'[i] = events[i]
  BY <1>1, <1>2, <1>3
<1>5. LinesOf(events') \in [1 .. n + 1 -> Int]
  <2>1. events' \in [1 .. n + 1 -> EventRecord(dates)]
    BY <1>4
  <2>2. \A i \in 1 .. n + 1 : events'[i].lines \in Int
    BY <2>1 DEF EventRecord
  <2>3. QED
    BY <1>4, <2>2 DEF LinesOf
<1>6. /\ LinesOf(events')[n + 1] = 1
      /\ \A i \in 1 .. n : LinesOf(events)[i] = LinesOf(events')[i]
  BY <1>1, <1>2, <1>4 DEF LinesOf
<1>7. SumTo(LinesOf(events'), n + 1) = SumTo(LinesOf(events), n) + 1
  <2> HIDE DEF n
  <2>1. SumTo(LinesOf(events'), n + 1)
          = SumTo(LinesOf(events), n) + LinesOf(events')[n + 1]
    BY <1>1, <1>5, <1>6, SumOfLonger
  <2>2. QED
    BY <1>6, <2>1
<1>8. (LinesIn = lines)'
  <2>1. SumTo(LinesOf(events), n) = lines
    BY DEF EventInv, LinesIn, LinesOf
  <2>2. SumTo(LinesOf(events'), n + 1) = lines'
    BY <1>7, <2>1 DEF CreateEvent
  <2>3. QED
    BY <1>4, <2>2 DEF LinesIn, LinesOf
<1>9. ScheduleTypeOK'
  <2>1. lines' \in 0 .. LinesBound
    BY ScheduleAssumption DEF CreateEvent, EventInv, ScheduleTypeOK
  <2>2. open' \in {0, Len(events')} /\ (open' # 0 => events'[open'].name \in MultiLine)
    BY <1>2, <1>4 DEF CreateEvent, OpenAfter
  <2>3. QED
    BY <1>4, <2>1, <2>2 DEF CreateEvent, EventInv, ScheduleTypeOK, EventRecord
<1>10. QED
  BY <1>8, <1>9, EventsChange DEF CreateEvent

LEMMA EndEventInv ==
  ASSUME EventInv, EndEvent
  PROVE  EventInv'
<1>1. (LinesIn = lines)'
  BY DEF EndEvent, EventInv, LinesIn
<1>2. ScheduleTypeOK'
  BY DEF EndEvent, EventInv, ScheduleTypeOK
<1>3. QED
  BY <1>1, <1>2, EventsChange DEF EndEvent

(* finalize_events: events of the last date get a date to be applied       *)
(* before.                                                                 *)
LEMMA FinalizeEventsInv ==
  ASSUME EventInv, FinalizeEvents
  PROVE  EventInv'
<1> DEFINE last == LatestOf(dates)
<1>1. /\ events \in [1 .. Len(events) -> EventRecord(dates)]
      /\ DOMAIN events = 1 .. Len(events) /\ dates \subseteq Int
      /\ events \in Seq(EventRecord(dates))
  BY EventsShape DEF EventInv, ScheduleTypeOK, EventRecord
<1>2. (LinesIn = lines)'
  BY DEF FinalizeEvents, EventInv, LinesIn
<1>3. CASE dates = {}
  <2>1. phase' = "exception" /\ UNCHANGED <<ordered, dates, events, current, open, lines>>
    BY <1>3 DEF FinalizeEvents
  <2>2. ScheduleTypeOK'
    BY <2>1 DEF EventInv, ScheduleTypeOK
  <2>3. Sound(Schedule)'
    BY <1>3, <2>1 DEF Sound, Schedule
  <2>4. QED
    BY <1>2, <2>1, <2>2, <2>3 DEF EventInv
<1>4. CASE dates # {}
  <2>1. /\ phase' = "run" /\ dates' = dates \cup AddedDates(last)
        /\ UNCHANGED <<ordered, events, current, open, lines>>
    BY <1>4 DEF FinalizeEvents
  <2>2. last \in dates /\ \A d \in dates : d <= last
    <3>1. \E d \in dates : \A e \in dates : e <= d
      BY <1>4 DEF EventInv, Sound, Schedule, HasLatest
    <3>2. QED
      BY <3>1 DEF LatestOf
  <2> HIDE DEF last
  <2>3. last \in Int
    BY <1>1, <2>2
  <2>4. CASE EventsOf(last) # {}
    <3>1. dates' = dates \cup {last + 30}
      BY <2>1, <2>4 DEF AddedDates
    <3>2. \A d \in dates' : d <= last + 30
      BY <1>1, <2>2, <2>3, <3>1
    <3>3. HasLatest(dates')
      BY <3>1, <3>2 DEF HasLatest
    <3>4. \A n \in DOMAIN events : events[n].date < last + 30
      <4>1. \A n \in DOMAIN events : events[n].date \in dates
        BY <1>1 DEF EventRecord
      <4>2. \A d \in dates : d \in Int /\ d <= last
        BY <1>1, <2>2
      <4>3. QED
        BY <2>3, <4>1, <4>2
    <3>5. QED
      <4>1. \A n \in DOMAIN events' : \E d \in dates' : events'[n].date < d
        BY <2>1, <3>1, <3>4
      <4>2. events \in Seq(EventRecord(dates'))
        <5>1. PICK D : D = dates'
          OBVIOUS
        <5>2. dates \subseteq D
          BY <3>1, <5>1
        <5>3. events \in Seq(EventRecord(D))
          BY <1>1, <5>2, EventsOfMoreDates
        <5>4. QED
          BY <5>1, <5>3
      <4>3. ScheduleTypeOK'
        <5>1. events' \in Seq([date : dates', name : Names, lines : Nat \ {0}])
          BY <2>1, <4>2 DEF EventRecord
        <5>2. dates' \subseteq Int
          BY <1>1, <2>3, <3>1
        <5>3. dates' # {} => current' \in dates'
          BY <1>4, <2>1, <3>1 DEF EventInv, ScheduleTypeOK
        <5>4. QED
          BY <2>1, <5>1, <5>2, <5>3 DEF EventInv, ScheduleTypeOK
      <4>4. Sound(Schedule)'
        BY <1>4, <2>1, <3>1, <3>3 DEF EventInv, ScheduleTypeOK, Sound, Schedule
      <4>5. QED
        BY <1>2, <2>1, <3>1, <4>1, <4>3, <4>4 DEF EventInv
  <2>5. CASE EventsOf(last) = {}
    <3>1. dates' = dates
      BY <2>1, <2>5 DEF AddedDates
    <3>2. \A n \in DOMAIN events : events[n].date < last
      <4>1. \A n \in DOMAIN events : events[n].date \in dates /\ events[n].date # last
        BY <1>1, <2>5 DEF EventRecord, EventsOf
      <4>2. \A d \in dates : d \in Int /\ d <= last
        BY <1>1, <2>2
      <4>3. QED
        BY <2>3, <4>1, <4>2
    <3>3. ScheduleTypeOK'
      BY <2>1, <3>1 DEF EventInv, ScheduleTypeOK
    <3>4. Sound(Schedule)'
      BY <2>1, <3>1 DEF EventInv, Sound, Schedule
    <3>5. \A n \in DOMAIN events' : \E d \in dates' : events'[n].date < d
      BY <2>1, <2>2, <3>1, <3>2
    <3>6. QED
      BY <1>2, <1>4, <2>1, <3>1, <3>3, <3>4, <3>5 DEF EventInv
  <2>6. QED
    BY <2>4, <2>5
<1>5. QED
  BY <1>3, <1>4
-----------------------------------------------------------------------------
LEMMA EventInvKept == EventInv /\ [ScheduleNext]_schedule_vars => EventInv'
<1> SUFFICES ASSUME EventInv, [ScheduleNext]_schedule_vars PROVE EventInv'
  OBVIOUS
<1>1. CASE \E d \in Deck : Date(d)
  BY <1>1, DateInv
<1>2. CASE \E steps \in Steps : Tstep(steps)
  BY <1>2, TstepInv
<1>3. CASE AddNextLine
  BY <1>3, AddNextLineInv
<1>4. CASE \E d \in dates, name \in Names : CreateEvent(d, name)
  BY <1>4, CreateEventInv
<1>5. CASE EndEvent
  BY <1>5, EndEventInv
<1>6. CASE FinalizeEvents
  BY <1>6, FinalizeEventsInv
<1>7. CASE UNCHANGED schedule_vars
  BY <1>7 DEF schedule_vars, EventInv, ScheduleTypeOK, Sound, Schedule, IsLatest,
              LinesIn, HasLatest
<1>8. QED
  BY <1>1, <1>2, <1>3, <1>4, <1>5, <1>6, <1>7 DEF ScheduleNext

LEMMA LatestIs ==
  ASSUME NEW ds \in SUBSET Int, NEW m \in ds, \A e \in ds : e <= m
  PROVE  LatestOf(ds) = m
<1> DEFINE Is(d) == \A e \in ds : e <= d
<1>1. \A d \in ds : Is(d) => d = m
  OBVIOUS
<1>2. Is(m)
  OBVIOUS
<1>3. LatestOf(ds) = CHOOSE d \in ds : Is(d)
  BY DEF LatestOf
<1> HIDE DEF Is
<1>4. QED
  BY <1>1, <1>2, <1>3

LEMMA ScheduleInvariance == ScheduleSpec => []EventInv
  BY ScheduleInitInv, EventInvKept, PTL DEF ScheduleSpec

(* Whatever the order of DATE, TSTEP and events in the deck, every line is *)
(* in one event and every event has an interval to be applied before.      *)
THEOREM EventsAreKept == ScheduleSpec => []NoEventLost
<1>1. EventInv => NoEventLost
  BY DEF EventInv, NoEventLost
<1>2. QED
  BY <1>1, ScheduleInvariance, PTL

(* With ascending dates the lengths of a TSTEP add up from the last date.  *)
THEOREM LengthsAddUp == ScheduleSpec => StepsFromLastDate
<1> DEFINE Adds == \A steps \in Steps :
                     ordered /\ Tstep(steps) /\ dates # {} =>
                       LatestOf(dates') = LatestOf(dates) + Total(steps)
<1>1. ASSUME EventInv, [ScheduleNext]_schedule_vars PROVE [Adds]_schedule_vars
  <2> SUFFICES ASSUME NEW steps \in Steps, ordered, Tstep(steps), dates # {}
               PROVE  LatestOf(dates') = LatestOf(dates) + Total(steps)
    OBVIOUS
  <2> DEFINE s == AfterTsteps(steps)
             len == Len(steps)
  <2>1. /\ Schedule \in Lists /\ Sound(Schedule) /\ IsLatest(Schedule)
        /\ current \in dates /\ dates \subseteq Int
    BY <1>1 DEF EventInv, ScheduleTypeOK, Schedule, Lists, Tstep
  <2>2. len \in Nat /\ steps \in [1 .. len -> Nat \ {0}] /\ steps \in [1 .. len -> Int]
    BY StepsShape
  <2>3. Total(steps) = SumTo(steps, len)
    BY DEF Total
  <2> HIDE DEF len
  <2>4. s \in Lists /\ Sound(s) /\ dates \subseteq s.at
    BY <2>1, <2>2, TstepsSound
  <2>5. IsLatest(s) /\ s.now = current + SumTo(steps, len)
    BY <2>1, <2>2, TstepsAddUp
  <2>6. dates' = s.at
    BY DEF Tstep, SetTo
  <2> HIDE DEF s
  <2>7. LatestOf(dates') = s.now
    <3>1. s.now \in dates' /\ dates' \subseteq Int /\ \A e \in dates' : e <= s.now
      BY <2>4, <2>5, <2>6 DEF Sound, IsLatest, Lists
    <3>2. PICK D : D = dates'
      OBVIOUS
    <3>3. LatestOf(D) = s.now
      BY <3>1, <3>2, LatestIs
    <3>4. QED
      BY <3>2, <3>3
  <2>8. LatestOf(dates) = current
    <3>1. \A e \in dates : e <= current
      BY <2>1 DEF IsLatest, Schedule
    <3>2. QED
      BY <2>1, <3>1, LatestIs
  <2>9. QED
    BY <2>3, <2>5, <2>7, <2>8
<1>2. QED
  BY <1>1, ScheduleInvariance, PTL DEF ScheduleSpec, StepsFromLastDate

(* What the loop makes of it: for the dates in order, which are its        *)
(* Reports, every event is of a date at which an interval begins, so that  *)
(* the loop comes to apply it.                                             *)
InOrder(r) ==
  /\ \A i, j \in 1 .. Len(r) : i < j => r[i] < r[j]
  /\ dates = { r[i] : i \in 1 .. Len(r) }
Begins(r) ==
  /\ Len(r) >= 1
  /\ \A n \in DOMAIN events : \E i \in 1 .. Len(r) - 1 : events[n].date = r[i]
AllEventsApplied == phase = "run" => \A r \in Seq(Int) : InOrder(r) => Begins(r)

THEOREM LoopMeetsEveryEvent == ScheduleSpec => []AllEventsApplied
<1>1. ASSUME EventInv PROVE AllEventsApplied
  <2> SUFFICES ASSUME phase = "run", NEW r \in Seq(Int), InOrder(r) PROVE Begins(r)
    BY DEF AllEventsApplied
  <2>1. /\ dates # {} /\ dates = { r[i] : i \in 1 .. Len(r) } /\ Len(r) \in Nat
        /\ \A i \in 1 .. Len(r) : r[i] \in Int
    BY <1>1 DEF EventInv, InOrder
  <2>2. Len(r) >= 1
    BY <2>1
  <2>3. ASSUME NEW n \in DOMAIN events
        PROVE  \E i \in 1 .. Len(r) - 1 : events[n].date = r[i]
    <3>1. events[n].date \in dates
      BY <1>1, EventsShape DEF EventInv, EventRecord
    <3>2. PICK i \in 1 .. Len(r) : events[n].date = r[i]
      BY <2>1, <3>1
    <3>3. PICK d \in dates : events[n].date < d
      BY <1>1 DEF EventInv
    <3>4. PICK j \in 1 .. Len(r) : d = r[j]
      BY <2>1
    <3>5. r[i] < r[j] /\ r[i] \in Int /\ r[j] \in Int
      BY <2>1, <3>2, <3>3, <3>4
    <3>6. i # j /\ ~(j < i)
      BY <3>5 DEF InOrder
    <3>7. i \in 1 .. Len(r) - 1
      BY <2>1, <3>6
    <3>8. QED
      BY <3>2, <3>7
  <2>4. QED
    BY <2>2, <2>3 DEF Begins
<1>2. QED
  BY <1>1, ScheduleInvariance, PTL
=============================================================================
