SPECIFICATION Spec
CONSTANTS
  AddrMax = 3
  Byte = {0, 1}
  Lines <- MCLines
  Files <- MCFiles
  SimpleLine <- Sram
  MaxEntries = 2
  Images <- MCImages
  Slack = 0
  Sizes = {1, 2}
INVARIANT TypeOK
PROPERTIES
  ImplementsAddressSpace
  ErrorsAreReported
  LoadedIsRead
CHECK_DEADLOCK FALSE
