SPECIFICATION Spec

CONSTANTS
  DefaultLimit = 2
  MaxLimit = 3
  MaxInt = 7
  MaxId = 5
  RawPages = {0, 1, 2, 3, 4, 5, 6, 7, 8}
  RawLimits = {0, 1, 2, 3, 4, 8}

INVARIANTS
  TypeOK
  PageHolds
  NothingSkipped

PROPERTIES
  NothingRepeated
