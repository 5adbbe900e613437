SPECIFICATION Spec
CONSTANTS
  Byte = 2
  XLEN = 4
  NumRegs = 3
  SegmentData <- MCSegmentData
  AndByte <- MCAnd
  OrByte <- MCOr
  XorByte <- MCXor
  Garbage <- MCGarbage
CHECK_DEADLOCK FALSE
INVARIANTS
  TypeOK
  ImplementsISA
  OnlyZeroRegisterDiffers
