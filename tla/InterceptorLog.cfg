SPECIFICATION SpecLog
CONSTANTS
  Pids = {1, 2, 3}
  NR_syscalls = 3
  NR_exit_group = 2
  Calls = {0, 1, 2}
  uid <- Owners
  Requests <- Lists
INVARIANTS RowConsistent
PROPERTIES Authorised LogsTheTruth
CHECK_DEADLOCK FALSE
