SPECIFICATION AllSpec
CONSTANTS
  Overflow = 8
  C1Size = 2
  DefaultChunk = 6
  Cuts = {1, 3, 100}
  ChunkIds = {2, 6, 7, 65, 70}
  Scenes <- AllScenes
  M = 32
  KMax = 6
  KMin = 2
  ErrLimit = 2
  MaxFrame = 4
  LossUnit = 6
  LossSpan = 29
  Window = 3
  Streams <- AllStreams
  a1 = a1  a2 = a2  x1 = x1  x2 = x2
  Ssrcs = {k1, k2}
  Addresses = {a1, a2}
  Device = d
  Sessions = {x1, x2}
  Addr <- TwoAddresses
  Pollers = {t1}
  None = None
  Bounds <- SomePackets
INVARIANTS CutsDoNotMatter StreamIsSorted FramesAreSound IngestSound
PROPERTIES IngestEnds
CHECK_DEADLOCK FALSE
