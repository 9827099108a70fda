SPECIFICATION Spec
CONSTANTS
  BYTE = 2
  NREG = 4
  NVR = 4
  MEM = 20
  BACKTRACE_MAX = 1
  Programs <- MCPrograms
  Starts <- MCStarts
  Junk <- MCJunk
INVARIANTS
  LoopRunsCtrTimes
  WideSumIsExact
  CopiesAreExact
  ChoiceFollowsCompare
  ReservationUsedOnce
  BacktraceIsCallStack
  SaturationIsRecorded
PROPERTIES
  PreciseFaults
  OverflowIsSigned
CHECK_DEADLOCK FALSE
