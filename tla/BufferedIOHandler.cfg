SPECIFICATION FairSpec
CONSTANTS
  BufSize = 3
  InitialFillSize = 2
  SignalAfterEveryRead = FALSE
  SeekEnabled = FALSE
  ReadLengths = {1, 2, 4}
  Seeks = {}
  StreamLen = 5
  SizeMod = 64
  MaxChunkSize = 2
INVARIANTS
  RingHoldsNextBytes
  SomebodyRuns
PROPERTIES
  DeliversStream
  ReadTerminates
