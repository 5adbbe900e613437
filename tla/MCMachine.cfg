SPECIFICATION MSpec
CONSTANTS
  Byte = 4
  XLEN = 8
  NumRegs = 3
  ProgramSize = 3
  Threshold = 2
  EntryPoint = 4
  JITMayFail = FALSE
  SegmentData <- MCSegmentData
  AndByte <- MCAnd
  OrByte <- MCOr
  XorByte <- MCXor
  Decoded <- MCDecoded
  Images <- MCImages
  Garbage <- MCGarbage
INVARIANTS
  Fresh
PROPERTIES
  ImplementsInterpreter
  ImplementsRISCV
