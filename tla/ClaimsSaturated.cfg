\* All three runs at the higher rate may be limited by the sender.
SPECIFICATION ClaimSpec
CONSTANTS
  Configs <- MCSmall
  Overload <- MCSmallOverload
  REQUIRED_REPETITIONS = 3
  MaxTroubles = 3
  MaxPublishes = 1
INVARIANT SaturatedIsReceiverLimited
