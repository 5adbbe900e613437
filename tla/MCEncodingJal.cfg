SPECIFICATION Spec
INVARIANTS
  JumpRange
