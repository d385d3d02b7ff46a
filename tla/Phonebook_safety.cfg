\* All commands, from every source, with power losses in the middle of a save.
SPECIFICATION Spec
CONSTANTS
  MAX_PHONES = 3
  PageSlots = 1
  NoNumber = NoNumber
  Phantom = Phantom
  Invalid = Invalid
  NoDigits = NoDigits
  Erased = Erased
  a = a
  b = b
  c = c
  aNational = aNational
  Numbers <- MCNumbers
  Texts <- MCTexts
  Norm <- MCNorm
  Senders <- MCSenders
INVARIANTS TypeOK UniqueNumbers AdminExists
PROPERTIES NeverEmptied OnlyAuthorised  
