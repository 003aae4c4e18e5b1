SPECIFICATION Spec
CONSTANTS
  MaxCampaigns = 2
  MaxExecs <- MCExecs
  MaxFaults = 1
INVARIANTS TimerLeavesNothing SignalLeftovers QueueIsolated
CHECK_DEADLOCK FALSE
