SPECIFICATION CalendarSpec
CONSTANTS
  FirstDate <- FirstOf2026
  LastYear = 2426
  LastToldYear = 2026
  Dates <- TheDates
  UtcMinutes = {0, 359, 719, 1425, 1439}
  Zones <- SomeZones
  Days = {2, 27}
  Months = {2, 12}
INVARIANT AppliesZone
PROPERTY FollowsCalendar
\* The exploration ends with LastYear.
CHECK_DEADLOCK FALSE
