SPECIFICATION SpecSim
CONSTANTS
  Pages = {0, 1, 2, 3}
  PTRS_PER_PGTBL = 2
  memsize = 3
  swapsize = 3
  BITS_PER_WORD = 2
  Types = {"L", "M"}
  Faults = {}
  MaxRefs = 9
  Algs = {"rand", "fifo", "lru", "clock", "opt"}
  Traces <- AllTraces
  TIMESTAMP_BITS = 3
  BUCKET_SIZE = 2
INVARIANTS EvictAnswersFrame OptMinimal SlotsAccounted
PROPERTIES FifoOldest LruExact ClockSecondChance OptFurthest
CHECK_DEADLOCK FALSE
