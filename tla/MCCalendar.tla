----------------------------- MODULE MCCalendar -----------------------------
(* The instances of Calendar that TLC explores. *)
EXTENDS Calendar

CONSTANTS Days, Months      \* the days and months of the network's answers

FirstOf2026 == [year |-> 2026, month |-> 1, day |-> 1]
SomeZones == {-48, -14, -1, 0, 1, 4, 8, 23, 56}
TheDates == {[year |-> 2026, month |-> m, day |-> d] : m \in Months, d \in Days}
=============================================================================
