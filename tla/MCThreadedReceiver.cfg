\* A limit that is no multiple of the batch, and one usable slot, so that overflow,
\* wrap-around and an empty queue alternate. SIGINT or a socket error may end the
\* run before the limit does.
SPECIFICATION FairSpec
CONSTANTS
  Capacity = 2
  BatchSize = 2
  MaxPackets = 5
  SampleEvery = 2
  MaxDatagrams = 6
  Item <- MCItem
  NoItem = NoItem
INVARIANTS
  NoDataRace
  ProcessedInOrder
  DrainIsComplete
  ReportBalances
  DepthIsConservative
  PacketLimit
PROPERTIES
  ShutdownCompletes
  ImplementsContract
