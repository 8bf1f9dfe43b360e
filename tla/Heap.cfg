SPECIFICATION HeapSpec
CONSTANTS
  HeapSize = 30
  Header = 3
  Sizes = {2, 4, 7}
INVARIANTS Linked Coalesced MallocComplete
PROPERTIES ImplementsAllocator
