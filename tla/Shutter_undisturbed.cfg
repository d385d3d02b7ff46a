\* No web request arrives inside a door function of the main loop.
SPECIFICATION SpecUndisturbed
CONSTANTS
  ShutterDurations = {1, 2}
  OverheadDurations = {1}
  TicksPerSecond = 4
  PauseTicks = 2
  BlinkInterval = 1
  BlinkDuration = 3
PROPERTY ImplementsMotor
