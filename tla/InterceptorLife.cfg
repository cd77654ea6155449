SPECIFICATION Spec
CONSTANTS
  Pids = {1, 2}
  NR_syscalls = 3
  NR_exit_group = 2
  Calls = {0, 1, 2}
  uid <- RootAndUser
  Requests <- HijacksAndInvalid
INVARIANTS TypeOK MutualExclusion RowConsistent NoSelfCall TableMatches
PROPERTIES UnloadRestores
CHECK_DEADLOCK FALSE
