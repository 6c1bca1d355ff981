CONSTANTS
  Vars = {x}
  x = x
  MaxBlocks = 9
  MaxDefs = 1
  MaxReads = 1
  Copies = {}

SPECIFICATION Spec

INVARIANTS
  OperandsValid

CHECK_DEADLOCK FALSE

ACTION_CONSTRAINTS
  ReadAfterTheLoop
  OneLoop
