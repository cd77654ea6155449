SPECIFICATION Spec
CONSTANTS
  Pages = {0, 1, 2}
  PTRS_PER_PGTBL = 2
  memsize = 1
  swapsize = 1
  BITS_PER_WORD = 2
  Types = {"L", "M"}
  Faults = {}
  MaxRefs = 5
INVARIANT PageinAssertion
CHECK_DEADLOCK FALSE
