SPECIFICATION Spec
CONSTANTS
  Byte = 8
  XLEN = 12
  NumRegs = 32
  Threshold = 64
  EntryPoint = 244
  JITMayFail = FALSE
  s0 = 5
  SegmentData <- MCSegmentData
  AndByte <- MCAnd
  OrByte <- MCOr
  XorByte <- MCXor
  Decoded <- MCDecoded
  Images <- MCImages
  Garbage <- MCGarbage
INVARIANTS
  FibResult
