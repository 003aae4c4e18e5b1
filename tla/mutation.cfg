SPECIFICATION Spec
CONSTANTS
  Builds = {"field", "random", "afl"}
  MaxLens = {27, 251, 255}
  Payloads = {0, 4, 6, 27, 250, 255}
  Spots = {0, 31}
  Garbage = {0, 100, 300, 70000}
  MaxExecs = 3
INVARIANTS ReplayFaithful NothingCut InPayload
CHECK_DEADLOCK FALSE
