\* The assembler: rows of the table typed again, rotations, labels.
SPECIFICATION Spec
CONSTANTS
  Addresses <- MCAddresses
  Mapped <- MCMapped
  MAXBRANCHLABEL = 3
  Texts <- MCTexts
  Answers <- MCAnswers
  Junk <- MCJunk
  NamedSPRs <- MCNamedSPRs
  SPACE = 1073741824
  Sessions <- MCSessions
INVARIANTS
  BranchReachesItsLabel
  ShiftsMoveTheirBits
PROPERTIES
  RetypedIsSame
\* The lines that may be typed are bounded.
CHECK_DEADLOCK FALSE
