SPECIFICATION Spec
CONSTANTS
  Pages = {0, 1, 2}
  PTRS_PER_PGTBL = 2
  memsize = 2
  swapsize = 2
  BITS_PER_WORD = 3
  Types = {"L", "M"}
  Faults = {"pagein", "pageout"}
  MaxRefs = 7
INVARIANTS TypeOK CoremapMatches SlotsExclusive DataInPlace CountersAgree
PROPERTY MemorySpec
CHECK_DEADLOCK FALSE
