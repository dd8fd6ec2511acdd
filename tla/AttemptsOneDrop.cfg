CONSTANTS
  MAX_RUN_ATTEMPTS = 2
  MaxFaults = 1
  MaxTroubles = 1
SPECIFICATION Spec
INVARIANT OneDropIsSurvived
