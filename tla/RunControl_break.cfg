SPECIFICATION Spec
CONSTANTS
  MAX_BRKPTS = 2
  AddrWords = 4
  MaxCount = 1
  AccMod = 2
  Prog <- CallProg
  PllDecLimit = 1
  TimeMod = 1
  StartAddrs = {8}
  BreakAddrs = {8}
  StepCounts <- MCStepCounts
  TraceCmds = {"none"}
  PllFields = {TRUE}
  Signals = TRUE
PROPERTY ImplementsIdeal
CHECK_DEADLOCK FALSE
