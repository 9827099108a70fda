SPECIFICATION FairSpec
CONSTANTS
  Chars <- MCChars
  MaxKeys = 2
  Divisor <- MCDivisor
  MaxSignals = 1
  Resets = FALSE
PROPERTY CtrlCInterrupts
CHECK_DEADLOCK FALSE
