SPECIFICATION Spec
CONSTANTS
  BYTE = 2
  CFG_HISTORY_SIZE = 3
  Texts <- MC_Texts
  SymFiles <- MC_SymFiles
  MAX_DELTA = 64
  LABEL_SPACE = 32
  Pieces <- MC_Pieces
  Does <- MC_DoesAll
  Scripts <- MC_Scripts
  Quits = {"quit"}
  Startup = {"do exits", "load"}
  Hex <- MC_Hex
  Printed <- MC_Printed
  Filter = 20
  Stops = {50, 61, 190}
  Sessions <- MC_Sessions
  MAX_OPEN = 2
INVARIANTS
  WhereIsNearest
PROPERTIES
  ImplementsLog
  FailureEndsAll
  FirstDefinitionHolds
CHECK_DEADLOCK FALSE
