CONSTANTS
  MAX_RUN_ATTEMPTS = 2
  MaxFaults = 1
  MaxTroubles = 1
SPECIFICATION FairSpec
INVARIANTS
  FirstResultIsSound
  DiagnosticsAreKept
  FirstAttemptStopsItsProcesses
PROPERTY RunEnds
