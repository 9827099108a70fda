SPECIFICATION FairSpec
CONSTANTS
  Chars <- MCChars
  MaxKeys = 4
  Divisor <- MCDivisor
  MaxSignals = 0
  Resets = FALSE
INVARIANTS
  TypeOK
  DivisorKept
PROPERTIES
  ImplementsStream
  KeysAreRead
CHECK_DEADLOCK FALSE
