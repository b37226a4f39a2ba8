SPECIFICATION MCSpec
CONSTANTS
  MAX_FRAMES = 7
  LOW_FRAMES = 1
  MemoryMaps <- Maps
  Counts <- RunLengths
  MIN_SIZE = 3
  GROW_INCREMENT = 8
  HEAP_CHUNKS = 2
  Chunks <- HeapMemory
  Sizes <- HeapSizes
  Aligns <- WordAligned
VIEW View
CHECK_DEADLOCK FALSE
INVARIANT CountInv OwnershipInv VmmSound BootSound HeapSound
PROPERTY ImplementsPool FailureUndone
