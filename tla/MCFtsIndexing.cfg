SPECIFICATION Spec
CONSTANTS
  NDicts = 3
  Unreadable = {2}
  Addresses = {0, 1}
  Mark = dehsinif
  Parallel = 2
  PoolSize = 3
  MaxCrashes = 1
  MaxFailures = 1
INVARIANTS
  NothingAtWork
  IndexIsWhole
  CompletedIsMade
PROPERTIES
  StopsInTheEnd
  AllCompleted
