SPECIFICATION Spec
CONSTANTS
  VariableNames <- Variables
  FunctionNames <- Functions
  RuntimeFunctions <- Library
  Main = "main"
  MaxBlocks = 6
  MaxLayers = 3
INVARIANTS
  TypeOK
  SearchInOrder
PROPERTIES
  DeclarationsKept
  ImplementsScopes
