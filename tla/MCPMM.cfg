SPECIFICATION Spec
CONSTANTS
  AddrSpace = 40
  Wide = 80
  PageSize = 4
  WordBits = 4
  KernelEndPage = 1
  EarlyEnd = 3
  Maps <- MCMaps
  Garbage <- MCGarbage
  MapUnderBitmap = {TRUE, FALSE}
INVARIANTS TypeOK PagesAccountedFor
PROPERTIES AllocReturnsFreshPage CountFollowsBitmap
