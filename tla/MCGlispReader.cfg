SPECIFICATION SampleSpec
CONSTANTS
  Names = {1, 2}
  Literals <- MCLiterals
  MaxPooled = 1
  MaxVars = 2
  MaxCells = 3
  MaxStack = 5
  MaxDepth = 2
  Texts <- MCTexts
  Programs <- MCPrograms
  Gaps <- MCGaps
  WordSize = 2
  Vectors <- MCVectors
INVARIANTS TypeOK StackTiled ContainersOwned TokensAsLexed ReadsBack StreamReadsBack
PROPERTY ImplementsEnv
CHECK_DEADLOCK FALSE
