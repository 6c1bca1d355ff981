SPECIFICATION Spec
CONSTANTS
  Sources <- Programs
  Inputs <- Runs
INVARIANTS
  SameMeaning
  IrAccepted
CHECK_DEADLOCK FALSE
