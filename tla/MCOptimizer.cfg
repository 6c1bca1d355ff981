CONSTANTS
  Sources <- MCSources
  Inputs <- MCInputs
  OPTIMIZE_TIMES = 2

SPECIFICATION Spec

INVARIANTS
  SameBehaviour
  IrChecked
  OperandsComputed
  RightValuesReadOnce

CHECK_DEADLOCK FALSE
