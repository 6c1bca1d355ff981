SPECIFICATION Spec
CONSTANTS
  Blocks = {1, 2, 3, 4}
  Params = {1}
  Ordinary = {2}
  Phis = {3, 4}
  Functions <- MCFunctions
  MaxUses = 1
  Graphs <- AllGraphs
INVARIANTS
  ComparisonKept
  InterferenceCovered
  SavedAcrossCalls
  GraphProper
  MarkedOnlyWhereLive
