SPECIFICATION CommandSpec
CONSTANTS
  Procs = {sh}
  Shell = sh
  Deadline = 1
INVARIANT FailuresAreCoded
CHECK_DEADLOCK FALSE
