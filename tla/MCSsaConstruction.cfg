CONSTANTS
  Vars = {x}
  x = x
  MaxBlocks = 7
  MaxDefs = 1
  MaxReads = 1
  Copies <- MCCopies

SPECIFICATION FairSpec

INVARIANTS
  UsersKnown
  OperandPerPredecessor
  NoTrivialPhi
  PhiListed

PROPERTIES
  RemovalComplete
  ReadReturns

CHECK_DEADLOCK FALSE

ACTION_CONSTRAINTS
  NothingAfterTheReads
  FewShortCircuits
