SPECIFICATION FairSpec
CONSTANTS
  Chars <- MCChars
  MaxKeys = 2
  Divisor <- MCDivisor
  MaxSignals = 2
  Resets = TRUE
INVARIANT PolledReadsDoNotWait
PROPERTY CtrlCStopsPolling
CHECK_DEADLOCK FALSE
