SPECIFICATION CampaignSpec
CONSTANTS
  Entry = {e1, e2, e3, e4, e5, e6, e7}
  queue = queue
  NWords = 2
  Lane = {1, 2}
  Bit = {"x", "y"}
  Traces <- MCTraces
  InitialFiles <- MCEmptyDir
  TimesPerRound = 2
  MaxPkts = 1
  MaxExecs = 3
  MaxStarts = 2
INVARIANTS VirginLedger NoveltyExact SeedNameFresh QueueOnDisk MaxIsOfSeen PacketsAccounted
CHECK_DEADLOCK FALSE
PROPERTY QueueKept
