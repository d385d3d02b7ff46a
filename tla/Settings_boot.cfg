\* A device whose SIM has another PIN than the default, one restart.
SPECIFICATION Spec
CONSTANTS
  Requests <- MCRequests
  Texts <- MCTexts
  Times <- MCTimes
  Numeric <- MCNumeric
  TruePin <- MCTruePin
  MaxRestarts = 1
INVARIANTS Kept SimSafe 
PROPERTIES  BootsUp
