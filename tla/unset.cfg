SPECIFICATION Spec
CONSTANTS
  MaxPkts = 3
  StaleLimit = 1
  Coverages = {1, 2, 3}
  Modulus = 8
  SwitchEvery = 2
  MaxExecs = 5
INVARIANT AskedInForce
CHECK_DEADLOCK FALSE
