SPECIFICATION Spec
CONSTANTS
  AddrSpace = 40
  Wide = 80
  PageSize = 4
  WordBits = 4
  KernelEndPage = 1
  EarlyEnd = 3
  Maps <- LowAndHighMemory
  Garbage <- CleanMemory
  MapUnderBitmap <- NotCovered
INVARIANT FreeCountIsFreeMemory
