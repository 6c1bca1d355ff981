SPECIFICATION Spec
CONSTANTS
  Window = 12
  Globals = 3
  Loaded <- AnyOfThem
  Reach = 48
  OptimizeMachineIr = FALSE
  MaxPools = 4
INVARIANTS
  InReach
  DefinedOnce
CHECK_DEADLOCK FALSE
