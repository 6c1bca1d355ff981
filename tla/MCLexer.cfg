SPECIFICATION Spec
CONSTANTS
  Lexemes <- Pieces
  Keywords <- KeywordSet
  MaxLexemes = 3
  MaxToken = 6
  IntLimit <- Limit
INVARIANTS
  TokensRight
PROPERTIES
  Terminates
CHECK_DEADLOCK FALSE
