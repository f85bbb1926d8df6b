CONSTANTS
  Ids <- MCIds
  U32 = 1073741824
  Images <- MCExtractImages
  ShortWrites = TRUE
  Jobs <- MCJobs
SPECIFICATION Spec
INVARIANTS ExtractTypeOK CutsAsLaidOut NothingLeftOutSilently
           RepackTypeOK BuildsAsLaidOut MtkFlavourKept RoundTrip
PROPERTY OptionalPartsInFile
CHECK_DEADLOCK FALSE
