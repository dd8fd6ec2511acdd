\* Two workers (one in burst mode), four packets due 0, 1, 3 and 4 ticks after the
\* start, batches of at most two with a window of three ticks, bursts of three.
SPECIFICATION FairSpec
CONSTANTS
  Second = 3
  MaxTime = 100
  Threads = 2
  Rate = 2
  Duration = 5
  BatchMax = 2
  Window = 3
  BurstSize = 3
  Lead = 1
  Horizon = 6
  MaxEintr = 1
  MaxFlood = 4
INVARIANTS
  EachSequenceSentOnce
  TraceReconciles
  ScheduleIsCovered
  InterruptedRunFails
PROPERTIES
  GapsAreLateness
  Terminates
