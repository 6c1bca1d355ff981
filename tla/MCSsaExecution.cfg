CONSTANTS
  Vars = {x, y}
  x = x
  y = y
  MaxBlocks = 6
  MaxDefs = 1
  MaxReads = 2
  Copies <- MCCopies

SPECIFICATION RunSpec

CONSTRAINT
  WorthTranslating

ACTION_CONSTRAINTS
  NothingAfterTheReads
  FewShortCircuits

SYMMETRY Renamings

INVARIANTS
  ReadsRight

CHECK_DEADLOCK FALSE
