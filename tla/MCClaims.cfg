\* Two deviations from a clean campaign of 33 runs and two calls of publish().
SPECIFICATION ClaimSpec
CONSTANTS
  Configs <- MCConfigs
  Overload <- MCOverload
  REQUIRED_REPETITIONS = 3
  MaxTroubles = 2
  MaxPublishes = 2
INVARIANTS
  ClaimIsSound
  ClaimIsFair
  PublishedTogether
