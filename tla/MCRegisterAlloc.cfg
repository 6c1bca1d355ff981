CONSTANTS
  Values <- MCValues
  Registers <- MCRegisters
  GLB_REG_CNT = 2
  variableWeight <- MCWeight
  ValueId <- MCValueId

SPECIFICATION FairSpec

INVARIANTS
  TypeOK
  NoConflictShared
  RegisterLeft
  Accounted
  KeysPresent
  LowDegreeKept

PROPERTIES
  FrozenOnStack
  ImplementsAllocation
  Terminates

CHECK_DEADLOCK FALSE
