SPECIFICATION FairSpec
CONSTANTS
  Byte = 4
  XLEN = 8
  NumRegs = 3
  ProgramSize = 3
  Threshold = 2
  EntryPoint = 4
  JITMayFail = TRUE
  SegmentData <- MCSegmentData
  AndByte <- MCAnd
  OrByte <- MCOr
  XorByte <- MCXor
  Decoded <- MCDecoded
  Images <- MCImages
  Garbage <- MCGarbage
INVARIANTS
  TypeOK
  NamesResolve
  NoDuplicateSymbol
  BlockShape
  PCTracksBlock
  RunsInstructionAtPC
  PCEven
  IInv
PROPERTIES
  DispatchServed
  TranslatedAsFetched
  StaleOnlyByStore
