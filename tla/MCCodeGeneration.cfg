CONSTANTS
  pr = pr
  ps = ps
  lr = lr
  ls = ls
  r1 = r1
  r2 = r2
  r3 = r3
  Small = small
  Big = big
  Zero = zero
  Global = global
  Array = array
  LValues = {pr, ps, lr, ls}
  RValues = {r1, r2}
  Params <- MCParams
  variableRegs <- MCRegs
  FarOffsets <- MCFar
  ArgumentLists <- MCArguments
  Comparisons = {"LT"}
  Hoisting = FALSE

SPECIFICATION Spec

INVARIANTS
  NeverExhausted
  BranchRight
  PoolPartition
  EffectRight
  ValuesKept
