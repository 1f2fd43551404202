SPECIFICATION ModelSpec
CONSTANTS
  Headwords = {1, 2, 3, 4}
  Leaves <- MCLeaves
  TotalSizes = {4, 5}
  Limit = 5
  BatchSize = 2
  Filters = {"a", "b"}
  Matches <- MCMatches
  MaxRequests = 3
CHECK_DEADLOCK FALSE
INVARIANTS
  ListIsRight
