SPECIFICATION Spec
CONSTANTS
  NDicts = 1
  Unreadable = {}
  Addresses = {0, 1}
  Mark = dehsinif
  Parallel = 2
  PoolSize = 3
  MaxCrashes = 1
  MaxFailures = 0
INVARIANTS
  CompletedIsThere
