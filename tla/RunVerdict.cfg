\* Two slots of two numbers and eight packets: each slot is taken by two blocks in
\* turn. Two disturbances, of which one may hide the other.
SPECIFICATION Spec
CONSTANTS
  BlockSize = 2
  BlockCount = 2
  MaxSequence = 7
  Loopback = FALSE
  SocketSize = 2
  ReorderScale = 4
  MaxTroubles = 2
INVARIANTS
  TrackersAreExact
  LossIsVisible
  ValidLossIsReal
  QualifiedIsLossless
  QualifiedIsUndisturbed
PROPERTIES
  LookbackIsGuaranteed
