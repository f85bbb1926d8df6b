CONSTANTS
  Ids <- MCIds
  U32 = 1073741824
  ShortWrites = FALSE
  Jobs = {}
  Images <- MCSessionImages
  MaxRestarts = 1
  EditedSizes = {2048, 6000}
SPECIFICATION FlashSpec
INVARIANTS FlashTypeOK SignedMatchesBuilt RockchipNeverPublished PartitionSafe
PROPERTY EditsAsPromised
CHECK_DEADLOCK FALSE
