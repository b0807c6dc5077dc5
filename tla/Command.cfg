SPECIFICATION CommandSpec
CONSTANTS
  Procs = {sh, p1, p2}
  Shell = sh
  Deadline = 5
INVARIANTS
  CommandTypeOK
  AnsweredInTime
  KilledOnTimeout
  OutputIsComplete
  ExitZeroMeansDone
  RefusedUntouched
PROPERTIES
  CallImplementsService
  CallEnds
  ExecutionEnds
CHECK_DEADLOCK FALSE
