SPECIFICATION Spec
INVARIANTS
  PauseDecodes
