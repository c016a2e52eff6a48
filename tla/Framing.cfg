SPECIFICATION FairSpec
CONSTANTS
  Zip <- MCZip
  Unzip <- MCUnzip
  Frames <- MCFrames
  MaxWrites = 2
  WireCap = 12
  max_frame_size = 3
INVARIANTS
  CutIndependent
  BufferBounded
  FramesArriveInOrder
PROPERTIES
  ImplementsPipe
  EveryFrameArrives
