SPECIFICATION Spec
CONSTANTS
  MaxLens = {5, 6}
  Payloads = {0, 3, 6}
  LLID = {2, 3}
  CID = {4, 5}
  MaxExecs = 3
INVARIANTS ReplayExact UnmarkedAsReceived WritesInPacket
CHECK_DEADLOCK FALSE
