\* A ring of three entries that wraps twice.
SPECIFICATION LogSpec
CONSTANTS
  LOG_ENTRIES = 3
  SmsRows = 2
  MaxEvents = 6
INVARIANT LogShowsRecent
PROPERTY LogAnswersRecent
