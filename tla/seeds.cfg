SPECIFICATION FairSpec
CONSTANTS
  Entry = {e1, e2, e3, e4}
  queue = queue
INVARIANTS Linked OnTheWalk
PROPERTIES CycleComplete EverySeedFuzzed
