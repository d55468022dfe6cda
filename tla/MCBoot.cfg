SPECIFICATION BSpec
CONSTANTS
  AddrSpace = 256
  Wide = 512
  PageSize = 4
  WordBits = 8
  KernelEndPage = 0
  EarlyEnd = 8
  Maps <- MCMaps
  Garbage <- MCGarbage
  MapUnderBitmap = {TRUE, FALSE}
  BLOCK_SIZES <- MCBlockSizes
  HeaderSize = 1
  Requests = {2, 3}
  TagLists <- MCTagLists
  MaxLive = 3
INVARIANTS PagingTypeOK IdentityMapped RamAndFramebufferMapped HeapPagesUsable
PROPERTIES TableWritesReachable BootCompletes
CHECK_DEADLOCK FALSE
