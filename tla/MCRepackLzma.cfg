CONSTANTS
  Ids <- MCIds
  U32 = 1073741824
  ShortWrites = FALSE
  Jobs <- MCLzmaJobs
SPECIFICATION RepackSpec
INVARIANT RequiredPartsPresent
CHECK_DEADLOCK FALSE
