SPECIFICATION Spec
INVARIANTS
  DecodesListing
  RefusesTheRest
  ImmediateRoundTrip
  NearJumps
  OperandsWellFormed
