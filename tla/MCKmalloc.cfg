SPECIFICATION KSpec
CONSTANTS
  AddrSpace = 96
  Wide = 192
  PageSize = 12
  WordBits = 2
  KernelEndPage = 3
  EarlyEnd = 3
  Maps <- MCMaps
  Garbage = {{}}
  MapUnderBitmap = {FALSE}
  BLOCK_SIZES <- MCBlockSizes
  HeaderSize = 1
  Requests = {0, 3, 4, 11, 13}
INVARIANTS KTypeOK FreeListsEnd NoBlockLost BlockHoldsRequest
PROPERTY ImplementsHeap
