CONSTANTS
  Entries <- MCEntries
  Kind <- MCKind
  Size <- MCSize
  Rooms = {2, 3}
  SizeT = 4
  MaxFaults = 3
SPECIFICATION Spec
INVARIANTS SbinTypeOK NoTmpfsLeft
PROPERTIES CoversAtomically CoveredInTheEnd
CHECK_DEADLOCK FALSE
