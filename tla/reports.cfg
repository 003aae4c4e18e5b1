SPECIFICATION Spec
CONSTANTS
  MaxEntries = 2
  Second = 4
  MaxTime = 2
  TimesPerRound = 1
  Timer = 4
  ClockLimit = 16
  Steps <- MCSteps
  MaxCoverage = 1
  MaxOut = 1
  MaxExecs = 3
  MaxReports = 2
  MaxStarts = 2
INVARIANTS CountsMatch LogBeginsOwn SpinsOnlyUnheard CsvExact
CHECK_DEADLOCK FALSE
