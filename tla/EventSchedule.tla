--------------------------- MODULE EventSchedule ---------------------------
(***************************************************************************)
(* The schedule of bs_bos_core/src/event_manager.cpp, filled by the         *)
(* keywords of event_manager_keywords.cpp and by process_event, and closed  *)
(* by finalize_events before the simulation.  Its dates, in order, and the  *)
(* numbers of their events are the constants Reports and NumEvents of       *)
(* MainLoop.  Dates are days; an event is a date, a name and the number of  *)
(* lines that were added to it.                                            *)
(***************************************************************************)
EXTENDS Integers, Sequences

CONSTANTS
  Deck,        \* dates a DATE keyword may name
  Steps,       \* lists of lengths a TSTEP keyword may name
  Names,       \* names of events
  MultiLine,   \* those whose event takes the lines that follow
  Unset,       \* values current_date_ may have before it is set
  LinesBound,  \* where the model stops reading events
  LastDate     \* where the model stops reading dates

ASSUME ScheduleAssumption ==
  /\ Deck \subseteq Nat /\ Unset \subseteq Int /\ Unset # {}
  /\ Steps \subseteq Seq(Nat \ {0})
  /\ MultiLine \subseteq Names
  /\ LinesBound \in Nat /\ LastDate \in Nat

VARIABLES
  ordered,  \* does the deck name its dates in ascending order
  phase,    \* reading, reading done, or stopped by an exception
  dates,    \* keys of event_list
  events,   \* the events of all dates, in the order they were created
  current,  \* current_date_
  open,     \* position of current_event_ in events, 0 when there is none
  lines     \* number of calls of process_event

schedule_vars == <<ordered, phase, dates, events, current, open, lines>>

EventsOf(d) == { n \in DOMAIN events : events[n].date = d }

(* The constructor leaves current_date_ unset.                             *)
ScheduleInit ==
  /\ ordered \in BOOLEAN
  /\ phase = "read"
  /\ dates = {}
  /\ events = <<>>
  /\ current \in Unset
  /\ open = 0
  /\ lines = 0

(* set_current_date, on a schedule with dates at and current date now.     *)
SetCurrentDate(s, d) ==
  [at |-> s.at \cup {d}, now |-> IF d \in s.at THEN s.now ELSE d]

SetTo(s) == dates' = s.at /\ current' = s.now

Schedule == [at |-> dates, now |-> current]

Date(d) ==
  /\ phase = "read"
  /\ ordered => \A e \in dates : e <= d
  /\ SetTo(SetCurrentDate(Schedule, d))
  /\ UNCHANGED <<ordered, phase, events, open, lines>>

(* TSTEP: every length counts from the date the one before it led to.      *)
AfterTstepsAtOnce(steps) ==
  LET after[n \in 0 .. Len(steps)] ==
        IF n = 0 THEN Schedule ELSE SetCurrentDate(after[n - 1], current + steps[n])
  IN  after[Len(steps)]

AfterTsteps(steps) ==
  LET after[n \in 0 .. Len(steps)] ==
        IF n = 0 THEN Schedule
        ELSE SetCurrentDate(after[n - 1], after[n - 1].now + steps[n])
  IN  after[Len(steps)]

Tstep(steps) ==
  /\ phase = "read"
  /\ \A e \in AfterTsteps(steps).at : e <= LastDate
  /\ SetTo(AfterTsteps(steps))
  /\ UNCHANGED <<ordered, phase, events, open, lines>>

(* process_event: a line of the open event, or an event of a date of the   *)
(* list (for another date the behaviour of create_event is undefined).  A  *)
(* name that no event has throws before anything changes.                  *)
AddNextLine ==
  /\ phase = "read" /\ lines < LinesBound
  /\ open # 0
  /\ events' = [events EXCEPT ![open].lines = @ + 1]
  /\ lines' = lines + 1
  /\ UNCHANGED <<ordered, phase, dates, current, open>>

OpenAfter(name) == IF name \in MultiLine THEN Len(events) + 1 ELSE 0

CreateEvent(d, name) ==
  /\ phase = "read" /\ lines < LinesBound
  /\ open = 0
  /\ events' = Append(events, [date |-> d, name |-> name, lines |-> 1])
  /\ open' = OpenAfter(name)
  /\ lines' = lines + 1
  /\ UNCHANGED <<ordered, phase, dates, current>>

EndEvent ==
  /\ phase = "read"
  /\ open # 0
  /\ open' = 0
  /\ UNCHANGED <<ordered, phase, dates, events, current, lines>>

LatestOf(ds) == CHOOSE d \in ds : \A e \in ds : e <= d

(* finalize_events, called by post_read: without a date it throws, and the *)
(* last date must have no events, since the loop stops there.              *)
AddedAlways(last) == {}
AddedDates(last) == IF EventsOf(last) # {} THEN {last + 30} ELSE {}

FinalizeEvents ==
  /\ phase = "read"
  /\ IF dates = {}
       THEN phase' = "exception" /\ dates' = dates
       ELSE phase' = "run" /\ dates' = dates \cup AddedDates(LatestOf(dates))
  /\ UNCHANGED <<ordered, events, current, open, lines>>

ScheduleNext ==
  \/ \E d \in Deck : Date(d)
  \/ \E steps \in Steps : Tstep(steps)
  \/ AddNextLine
  \/ \E d \in dates, name \in Names : CreateEvent(d, name)
  \/ EndEvent
  \/ FinalizeEvents

ScheduleSpec == ScheduleInit /\ [][ScheduleNext]_schedule_vars
-----------------------------------------------------------------------------
(* The sum of the first k elements of a sequence of numbers.               *)
SumTo(s, k) ==
  LET sum[n \in 0 .. Len(s)] == IF n = 0 THEN 0 ELSE sum[n - 1] + s[n]
  IN  sum[k]

(* The open event is the last one that was created, so lines go to no      *)
(* other, and lengths count from a date of the list as soon as there is    *)
(* one, whatever the current date was before.                              *)
ScheduleTypeOK ==
  /\ ordered \in BOOLEAN
  /\ phase \in {"read", "run", "exception"}
  /\ dates \subseteq Int
  /\ events \in Seq([date : dates, name : Names, lines : Nat \ {0}])
  /\ current \in Int /\ (dates # {} => current \in dates)
  /\ open \in {0, Len(events)}
  /\ open # 0 => events[open].name \in MultiLine
  /\ lines \in 0 .. LinesBound

(* Every line read is in one event, and every event is of a date after     *)
(* which the simulation still has an interval to run: go() never applies   *)
(* the events of the last date.                                            *)
LinesIn == SumTo([n \in DOMAIN events |-> events[n].lines], Len(events))
NoEventLost ==
  /\ LinesIn = lines
  /\ phase = "run" =>
       \A n \in DOMAIN events : \E d \in dates : events[n].date < d

(* In a deck with ascending dates the lengths of a TSTEP add up from the   *)
(* last date, however DATE, repeated dates and TSTEP are mixed.            *)
Total(steps) == SumTo(steps, Len(steps))
StepsFromLastDate ==
  [][ \A steps \in Steps :
        ordered /\ Tstep(steps) /\ dates # {} =>
          LatestOf(dates') = LatestOf(dates) + Total(steps) ]_schedule_vars
=============================================================================
