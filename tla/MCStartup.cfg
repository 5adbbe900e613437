SPECIFICATION Spec
CONSTANTS
  Byte = 4
  StackSize = 32
  NumRegs = 3
  Fill = {0, 2}
  Files <- MCFiles
INVARIANTS
  ReadyForLoop
  LinkedImage
  StackReady
  UnreadableNeverRuns
  IInv
