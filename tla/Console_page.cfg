\* A ring of three lines that wraps, and ids beyond the cursor's range.
SPECIFICATION ConSpec
CONSTANTS
  LOG_LINES = 3
  LOG_LEN = 2
  AnswerRoom = 4
  StatusRoom = 3
  SINCE_MAX = 5
  MaxPieces = 6
 
PROPERTIES NothingMissed 
