CONSTANTS
  Sources <- MCStoresAnywhere
  Inputs <- MCInputs
  OPTIMIZE_TIMES = 2

SPECIFICATION Spec

INVARIANT SameBehaviour

CHECK_DEADLOCK FALSE
