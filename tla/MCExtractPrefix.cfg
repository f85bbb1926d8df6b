CONSTANTS
  Ids <- MCIds
  U32 = 1073741824
  Images <- MCExtractImages
SPECIFICATION ExtractSpec
PROPERTY TripleChecked
CHECK_DEADLOCK FALSE
