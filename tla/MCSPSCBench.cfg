\* Nine elements through a ring of four slots: more than two laps, so that
\* every slot is reused and both indices wrap twice.
SPECIFICATION FairSpec
CONSTANTS
  Capacity = 4
  Elements = 9
  Item <- MCItem
  NoItem = NoItem
INVARIANTS
  NoDataRace
  LosslessHandoff
PROPERTIES
  ImplementsFIFO
  Terminates
