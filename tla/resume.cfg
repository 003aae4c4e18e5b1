SPECIFICATION Spec
CONSTANTS
  MaxPkts = 2
  StaleLimit = 1
  InitialSeeds <- MCSeedDir
  QueueCap = 2
  MaxExecs = 3
INVARIANTS TypeOK FlightConserved StaleBounded AckForOwnPacket RecordFaithful CrashCorpusComplete TargetNeverStranded
