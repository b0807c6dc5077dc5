SPECIFICATION ConfigSpec
CONSTANT MaxWrites = 2
INVARIANTS
  ConfigTypeOK
  LoadedByPriority
  EnteredIsLoaded
CHECK_DEADLOCK FALSE
