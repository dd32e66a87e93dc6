SPECIFICATION FairSpec
CONSTANTS
  BufSize = 3
  InitialFillSize = 0
  SignalAfterEveryRead = TRUE
  SeekEnabled = TRUE
  ReadLengths = {1, 2, 4}
  Seeks <- ForwardSeeks
  StreamLen = 4
  SizeMod = 64
  MaxChunkSize = 2
INVARIANTS
  RingIsCurrent
PROPERTIES
  DeliversUnlessSought
  CloseTerminates
