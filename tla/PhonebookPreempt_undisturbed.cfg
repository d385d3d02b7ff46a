SPECIFICATION SpecUndisturbed
CONSTANTS
  MAX_PHONES = 3
  Numbers = {a, b, c}
  NoNumber = NoNumber
  Phantom = Phantom
PROPERTY ImplementsBook
