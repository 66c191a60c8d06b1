SPECIFICATION Spec
CONSTANTS
  EmsReads = 1
  CoreReads = 2
  IdentityParts = 2
  CoreParts = 2
  ChargerParts = 2
  MaxRequests = 11
CHECK_DEADLOCK FALSE
INVARIANTS
  CoreSurvivesCharger
