SPECIFICATION RecoverySpec
CONSTANTS
  Polls = {p1, p2}
  Closers = {c1}
  Links = {l1, l2}
  NoLink = NoLink
  NoTask = NoTask
  CoreReads = 1
  MaxFailures = 1
INVARIANTS
  OneMoreFailure
PROPERTIES
  CallsReturn
  Recovers
