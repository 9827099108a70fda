SPECIFICATION Spec
CONSTANTS
  AddrMax = 3
  Byte = {0, 1}
  Lines <- HalfLines
  Files <- MCFiles
  SimpleLine <- Sram
  MaxEntries = 2
  Images <- MCImages
  Slack = 0
  Sizes = {1, 2}
PROPERTY ErrorsAreReported
CHECK_DEADLOCK FALSE
