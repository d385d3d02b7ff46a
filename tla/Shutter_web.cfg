\* Web callbacks preempt the main loop at any statement.
SPECIFICATION FairSpec
CONSTANTS
  ShutterDurations = {1, 2}
  OverheadDurations = {1}
  TicksPerSecond = 2
  PauseTicks = 1
  BlinkInterval = 1
  BlinkDuration = 3
INVARIANTS TypeOK FailSafe 
PROPERTY MotionsEnd
