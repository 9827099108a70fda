SPECIFICATION FairSpec
CONSTANTS
  MAX_BRKPTS = 2
  AddrWords = 4
  MaxCount = 1
  AccMod = 1
  Prog <- CallProg
  PllDecLimit = 1
  TimeMod = 1
  StartAddrs = {8}
  BreakAddrs = {8}
  StepCounts <- MCStepCounts
  TraceCmds = {"none"}
  PllFields = {TRUE}
  Signals = TRUE
INVARIANTS
  TypeOK
  RunInv
PROPERTIES
  BypassOnlyFirst
  BreakpointStopsMakeProgress
  UserBreakpointsKept
  CtrlCStops
  StepsReturn
CHECK_DEADLOCK FALSE
