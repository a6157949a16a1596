----------------------------- MODULE MCMainLoop -----------------------------
(* Values for the model checker.                                           *)
EXTENDS MainLoop

\* Intervals of 6 and 2 ticks: one and a half MIN_TS, and half of it.
ShortIntervals == <<3, 9, 11>>
\* Intervals of 9, 5 and 2 ticks: an odd one, one that needs no halving, and
\* one that is MIN_TS itself.
LongIntervals == <<3, 12, 17, 19>>
\* With SavePeriod 3 the report at the second date is written because there
\* were two events at the first, the one at the third for the period, and the
\* one at the last date is not written.
EventsOfLong == <<2, 1, 1, 0>>
EventsOfShort == <<3, 1, 0>>
=============================================================================
