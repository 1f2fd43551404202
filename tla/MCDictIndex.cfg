SPECIFICATION Spec
CONSTANTS
  ChunkMaxSize = 2
  Half = 2
  MaxBlocks = 3
  MaxBytes = 2
  MinElements = 1
  MaxElements = 2
  Phrases <- MCPhrases
  Strings <- MCStrings
  ChainCap = 2
  MaxResults = 3
  StemMinLength = 1
  StemMaxSuffix = 1
  MaxEntries = 5
INVARIANTS
  BlocksReadBack
  ArticlesFound
  MatchesExact
  HeadwordsListed
