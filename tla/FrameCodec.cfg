SPECIFICATION Spec
CONSTANTS
  Limits = {20, 21}
  Lengths = {1, 13, 14, 15, 21, 22}
  Starts = {0, 255}
  MaxMessages = 2
  MaxFaults = 2
CHECK_DEADLOCK FALSE
INVARIANTS
  TypeOK
  FramesFit
  OnlyWholeMessages
PROPERTIES
  MessageArrives
