\* A limit that is no multiple of the batch. Every second packet is sampled, four in a
\* full run, and the buffer has room for two entries: they are as long as three
\* legacy records, as the 1820 entries of a real buffer are as long as 2340.
SPECIFICATION FairSpec
CONSTANTS
  BatchSize = 2
  MaxPackets = 7
  SampleEvery = 2
  MaxDatagrams = 8
  MaxShort = 1
  HeaderWords = 4
  MagicWords = 2
  EntryWords = 3
  LegacyWords = 2
  BufferWords = 7
INVARIANTS
  LogIsComplete
  LogIsNeverGarbled
PROPERTIES
  ImplementsContract
  StopTerminates
