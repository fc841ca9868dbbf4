SPECIFICATION MediaSpec
CONSTANTS
  MediaSegments <- MCSegments
  MaxSegments = 3
CHECK_DEADLOCK FALSE
INVARIANTS
  UndecodableIsHarmless
  NothingVanishes
  FallbacksAreTried
