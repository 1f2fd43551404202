SPECIFICATION DictSpec
CONSTANTS
  NQueries = 2
  Words <- MCWords
  Replies <- MCReplies
  MaxMatches = 4
  MayLeave = TRUE
CHECK_DEADLOCK FALSE
INVARIANTS
  TypeOK
  SearchComplete
  ArticleIsWhole
PROPERTIES
  RequestFinishes
