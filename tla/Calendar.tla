------------------------------ MODULE Calendar ------------------------------
(***************************************************************************)
(* The arithmetic behind GET /services/:id/availability: the dates of a    *)
(* range, the weekday of a date, the slots of a working day, and the slots *)
(* that are left of them.                                                  *)
(*                                                                         *)
(* A date is the number of its day, an instant a number of hours (UTC) and *)
(* a time of day a number of whatever unit schedules are written in.  The  *)
(* process computes in its own time zone: Before hours ahead of UTC until  *)
(* the instant Change, After hours ahead from then on.  A list stands as    *)
(* the set of its members: nothing depends on their order.                 *)
(***************************************************************************)
EXTENDS Integers

CONSTANTS Before, After, Change

ASSUME ZoneAssumption == Before \in -12 .. 14 /\ After \in -12 .. 14 /\ Change \in Int

NoEntry == [start |-> 0, end |-> 0, minutes |-> 0]

Instant(date) == 24 * date
UtcDate(i) == i \div 24
Offset(i) == IF i < Change THEN Before ELSE After

\* setDate(getDate() + 1): the same time of the next local day.
NextDay(i) ==
  LET local == i + Offset(i) + 24 IN
  IF local - After >= Change THEN local - After ELSE local - Before

\* Mutant: the loop stops short of its end.
HalfOpenDateRange(from, to) ==
  LET dates[i \in Instant(from) - 24 .. Instant(to) + 48] ==
        IF i >= Instant(to) THEN {} ELSE {UtcDate(i)} \cup dates[NextDay(i)]
  IN dates[Instant(from)]

\* The dates from `from' to `to', both included.
generateDateRange(from, to) ==
  LET dates[i \in Instant(from) - 24 .. Instant(to) + 48] ==
        IF i > Instant(to) THEN {} ELSE {UtcDate(i)} \cup dates[NextDay(i)]
  IN dates[Instant(from)]

\* getDay: the local weekday of the instant a date string is parsed as.
getDayOfWeek(date) == ((Instant(date) + Offset(Instant(date))) \div 24) % 7

\* The beginnings of the slots of a working day.
generateTimeSlots(start, end, minutes) ==
  LET slots[t \in start .. end + minutes] ==
        IF t + minutes <= end THEN {t} \cup slots[t + minutes] ELSE {}
  IN slots[start]

\* The entry of the schedule for a date.  A week is a function from weekdays.
EntryFor(week, date) == week[getDayOfWeek(date)]

\* What is left of the slots of a date.
OpenSlots(week, booked, date) ==
  LET e == EntryFor(week, date) IN
  {t \in generateTimeSlots(e.start, e.end, e.minutes) : <<date, t>> \notin booked}

\* The pairs of date and slot on offer, dates without one being left out.
generateAvailableSlots(week, unavailable, booked, from, to) ==
  LET worked == {d \in generateDateRange(from, to) \ unavailable :
                   EntryFor(week, d) # NoEntry}
  IN UNION {{<<d, t>> : t \in OpenSlots(week, booked, d)} : d \in worked}

\* The body of PUT /admin/providers/:id/schedule must leave room for a slot.
ValidEntry(e) == e.minutes > 0 /\ e.end - e.start >= e.minutes
=============================================================================
