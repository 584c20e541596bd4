SPECIFICATION USpec
CONSTANTS
  MaxTask = 3
  LastPage = 7
  PageSize = 2
  PtSpan = 4
  UspaceBase = 2
  HeapBase = 12
  HeapSize = 2
  HeapInit = 12
  ImagePages <- MCImage
  ExecPages <- MCExec
  StackPages <- MCStack
  ImageIpc = 5
  ExecIpc = 6
  CloneIpc = 3
  Calls <- MCCalls
  Address = {2, 4}
  Length = {2}
  SlotStart = 1
  SlotEnd = 60
  RecvSlot = 59
  TestArea = 2
  ShimStack = 4
  AreaLen = 2
INVARIANTS CloneTellsApart
PROPERTIES ProgramsFinish
CHECK_DEADLOCK FALSE
