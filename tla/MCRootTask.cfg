SPECIFICATION MCSpec
CONSTANTS
  Radix = 16
  SlotFirst = 10
  SlotEnd = 100
  UtSize = 420
  CNodeSize = 4
  Sizes <- MCSizes
  Images <- MCImages
  StackTop = 16
  StackPages = 2
  DmaStart = 16
  BlkDma = 2
  NetDma = 5
  Device = 24
  PtSpan = 8
  UpSpan = 16
  PageSize = 2
  TcbSize = 1
  SmallSize = 1
  FaultLabels = {1}
  NetHeap = 5
  BlkAllocs <- MCBlkAllocs
INVARIANTS RootTypeOK NoUnwrapFails ImageLoaded NetDmaContiguous FirstReadDone
PROPERTIES KeepsPromise FaultedStays RequestAnswered WaitEnds
CHECK_DEADLOCK FALSE
