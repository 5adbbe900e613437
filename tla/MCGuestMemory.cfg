SPECIFICATION Spec
CONSTANTS
  Byte = 2
  SegmentData <- MCSegmentData
  Images <- MCImages
  Garbage <- MCGarbage
VIEW MCView
CHECK_DEADLOCK FALSE
INVARIANTS
  TypeOK
PROPERTIES
  ImplementsFlat
