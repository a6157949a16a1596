-------------------------- MODULE MCEventSchedule --------------------------
EXTENDS EventSchedule

OneOrTwoSteps == { <<2>>, <<3>>, <<1, 3>> }
Garbage == { -5, 3 }
=============================================================================
