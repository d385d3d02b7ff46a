------------------------------ MODULE Calendar ------------------------------
(***************************************************************************)
(* The date of src/clock.c: the roll-over at midnight, and the network's   *)
(* time with its zone, which clock_set_clock adds to the time of day and   *)
(* carries into the day.  Interrupted settings are in Clock.               *)
(***************************************************************************)
EXTENDS Integers

CONSTANTS
    FirstDate,          \* a date to start from
    LastYear,           \* bound: the last year explored
    LastToldYear,       \* bound: the last year the network tells the time in
    Dates,              \* what the network tells: dates in UTC,
    UtcMinutes,         \* minutes of the day
    Zones               \* and zones, in quarters of an hour

ASSUME CalendarAssumption ==
    /\ LastYear \in Nat /\ LastToldYear \in Nat
    /\ UtcMinutes \subseteq 0 .. 1439
    /\ Zones \subseteq -48 .. 56

VARIABLES
    date,
    minutes,            \* hour * 60 + min
    told                \* history: what the clock was last set to, or rolled over to

calendarVars == <<date, minutes, told>>


Leap(year) == (year % 4 = 0 /\ year % 100 # 0) \/ year % 400 = 0

(* A slip: every fourth year is a leap year.                                *)
days_in_month_Julian(month, year) ==
    IF month = 2 THEN IF year % 4 = 0 THEN 29 ELSE 28
    ELSE IF month \in {4, 6, 9, 11} THEN 30 ELSE 31

days_in_month(month, year) ==
    IF month = 2 THEN IF Leap(year) THEN 29 ELSE 28
    ELSE IF month \in {4, 6, 9, 11} THEN 30 ELSE 31

CalendarInit == date = FirstDate /\ minutes = 0 /\ told = [date |-> FirstDate, utc |-> 0, tz |-> 0]

(* clock_add_second at 23:59:59 *)
NextDay ==
    /\ date.year <= LastYear
    /\ date' =
        IF date.day + 1 <= days_in_month(date.month, date.year)
        THEN [date EXCEPT !.day = @ + 1]
        ELSE IF date.month < 12
             THEN [date EXCEPT !.day = 1, !.month = @ + 1]
             ELSE [year |-> date.year + 1, month |-> 1, day |-> 1]
    /\ minutes' = 0
    /\ told' = [date |-> date', utc |-> 0, tz |-> 0]

(* +CCLK: local time already. *)
SetLocal ==
    /\ date.year <= LastToldYear
    /\ date' \in Dates /\ minutes' \in UtcMinutes
    /\ told' = [date |-> date', utc |-> minutes', tz |-> 0]

(* The carry into the day: the two while loops over total.                  *)
Carry(total) == total \div 1440

(* A slip: the zone is taken off instead of added.                          *)
SetZoned_Subtracted(d, utc, tz) ==
    LET total == utc - 15 * tz
    IN  /\ date' = [d EXCEPT !.day = @ + Carry(total)]
        /\ minutes' = total - 1440 * Carry(total)
        /\ told' = [date |-> d, utc |-> utc, tz |-> tz]

SetZoned(d, utc, tz) ==
    LET total == utc + 15 * tz
    IN  /\ date' = [d EXCEPT !.day = @ + Carry(total)]
        /\ minutes' = total - 1440 * Carry(total)
        /\ told' = [date |-> d, utc |-> utc, tz |-> tz]

(* +CTZV: UTC, and the zone apart. *)
SetFromNetwork ==
    /\ date.year <= LastToldYear
    /\ \E d \in Dates, utc \in UtcMinutes, tz \in Zones : SetZoned(d, utc, tz)

CalendarNext == NextDay \/ SetLocal \/ SetFromNetwork

CalendarSpec == CalendarInit /\ [][CalendarNext]_calendarVars

-----------------------------------------------------------------------------
(* Properties *)

(* The number of a date in the Gregorian calendar, counted without          *)
(* days_in_month: the days of the years before, of the months before, and   *)
(* of the month.                                                            *)
DaysBefore == <<0, 31, 59, 90, 120, 151, 181, 212, 243, 273, 304, 334>>
DayNumber(d) ==
    LET y == d.year - 1
    IN  365 * y + y \div 4 - y \div 100 + y \div 400
        + DaysBefore[d.month] + (IF d.month > 2 /\ Leap(d.year) THEN 1 ELSE 0)
        + d.day

Instant(d, min) == 1440 * DayNumber(d) + min

CalendarTypeOK ==
    /\ date \in [year : Nat, month : 1 .. 12, day : 0 .. 32]
    /\ minutes \in 0 .. 1439

ShowsDate == date.day \in 1 .. days_in_month(date.month, date.year)

(* clock_add_second: midnight leads to the next day of the calendar, in     *)
(* leap years and century years too, and to a day that its month has.       *)
FollowsCalendar ==
    [][ NextDay => DayNumber(date') = DayNumber(date) + 1 /\ ShowsDate' ]_calendarVars

(* clock_set_clock, "Apply timezone if source is CTZV": the clock shows the *)
(* instant the network told, moved by its zone, on a date of the calendar.  *)
AppliesZone ==
    /\ Instant(date, minutes) = Instant(told.date, told.utc) + 15 * told.tz
    /\ ShowsDate
=============================================================================
