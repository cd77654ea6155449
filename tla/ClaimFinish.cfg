SPECIFICATION FairUnload
CONSTANTS
  Pids = {1, 2}
  NR_syscalls = 3
  NR_exit_group = 2
  Calls = {0, 1, 2}
  uid <- AllRoot
  Requests <- Everything
PROPERTY HandlerFinishes
CHECK_DEADLOCK FALSE
