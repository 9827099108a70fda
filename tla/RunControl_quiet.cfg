SPECIFICATION Spec
CONSTANTS
  MAX_BRKPTS = 1
  AddrWords = 5
  MaxCount = 0
  AccMod = 2
  Prog <- FaultProg
  PllDecLimit = 2
  TimeMod = 2
  StartAddrs = {4, 16}
  BreakAddrs = {4}
  StepCounts = {2}
  TraceCmds = {"none", "bp .", "bp -r"}
  PllFields = {TRUE, FALSE}
  Signals = FALSE
INVARIANTS
  TickPending
PROPERTIES
  TimeBase
  ImplementsIdeal
CHECK_DEADLOCK FALSE
