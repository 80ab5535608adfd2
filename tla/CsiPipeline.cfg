CONSTANTS
  Buffers = {b1, b2, b3, b4, b5}
  QueueSize = 2
  FrameKinds <- MCFrameKinds
  NULL = NULL
  MaxFrames = 5
SPECIFICATION FairSpec
INVARIANTS
  OneOwner
  FramesConserved
  RowsInOrder
  RowWithinCopy
  HeapBounded
PROPERTIES
  QueuedFramePrinted
CHECK_DEADLOCK FALSE
