SPECIFICATION Spec
CONSTANTS
  EmsReads = 2
  CoreReads = 3
  IdentityParts = 2
  CoreParts = 2
  ChargerParts = 2
  MaxRequests = 14
CHECK_DEADLOCK FALSE
INVARIANTS
  TypeOK
  AcceptedIsCurrent
  SerialExchange
  NoSelfInflictedLoss
  TimeoutEndsSession
