SPECIFICATION Spec
CONSTANTS
  Polls = {p1, p2}
  Closers = {c1}
  Links = {l1, l2, l3}
  NoLink = NoLink
  NoTask = NoTask
  CoreReads = 2
  MaxFailures = 2
SYMMETRY Symmetry
INVARIANTS
  TypeOK
  MutualExclusion
  NoOrphanLink
  SingleSession
  RetainedSessionUsable
  RetryIsClean
  CompleteCycle
PROPERTIES
  FailureNamesItsStage
  CloseReleases
  ImplementsService
