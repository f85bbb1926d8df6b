CONSTANTS
  Entries <- MCEntries
  Kind <- MCKind
  Size <- MCSize
  Rooms = {2, 3}
  SizeT = 4
  MaxFaults = 1
SPECIFICATION Spec
PROPERTY FullDiskNoticed
CHECK_DEADLOCK FALSE
