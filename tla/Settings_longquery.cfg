\* A request of the page with a password of 15 characters.
SPECIFICATION Spec
CONSTANTS
  Requests <- MCLong
  Texts <- MCTexts
  Times <- MCTimes
  Numeric <- MCNumeric
  TruePin <- MCTruePin
  MaxRestarts = 0
PROPERTIES SavedInFull
