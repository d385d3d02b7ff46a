SPECIFICATION SpecLive
CONSTANTS
  HOURS = 3
  MINS = 3
  SECS = 3
  ResyncHour = 1
  ResyncMin = 1
  CLOSE_DISABLED = 99
  FirstTries = 1
  LoopSeconds = 2
  CloseTimes = {3, 5, 99}
PROPERTIES ClosesOnTime  ClosesOnce AsksUntilSynced
