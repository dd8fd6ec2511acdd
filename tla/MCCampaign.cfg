CONSTANTS
  Qualification <- MCQualification
  Comparative <- MCComparative
  gated <- MCGated
  rate <- MCRate
SPECIFICATION Spec
INVARIANTS
  DiskIsConsistent
  FrozenBeforeComparison
  OnlyQualifiedRates
