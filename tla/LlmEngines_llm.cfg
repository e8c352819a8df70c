CONSTANTS
  MinChars = 3
  SoftLimit = 5
  MaxTokens = 3
  MaxGenerations = 2
  Chains <- MCChains
  Tokens <- MCTokens
SPECIFICATION Spec
INVARIANTS
  AnswerIntact
  SpokenIsShown
  CutsIgnoreTokens
PROPERTY ThreadsEnd
CHECK_DEADLOCK FALSE
