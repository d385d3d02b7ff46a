\* One place for a connection, memory for one state block; an answer of one
\* chunk and one of two; a clock of ten values, which wraps.
SPECIFICATION Spec
CONSTANTS
  Conns = {c1}
  Heap = 1
  Bodies <- MCBodies
  MaxBody = 2
  Minutes15 = 2
  Hold = 2
  Clock = 10
  MaxStall = 1
INVARIANTS BlocksOwned Consistent OffInTime
PROPERTIES ClosedWhenArrived RequestsEnd OnLongEnough ButtonHeld
