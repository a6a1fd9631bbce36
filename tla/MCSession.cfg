SPECIFICATION Spec
CONSTANTS
  MaxTurns = 3
  MaxFaults = 1
  MaxCrashes = 2
CHECK_DEADLOCK FALSE
INVARIANT TypeOK CompletedWithItsExchange MemoryIsRecord
PROPERTY RerunOnlyWhatWasCutOff
