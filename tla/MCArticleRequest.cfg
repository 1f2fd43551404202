SPECIFICATION Spec
CONSTANTS
  NDicts = 3
  MayThrow = {2}
  MaxWords = 4
INVARIANTS
  TypeOK
  PageComplete
  CompoundsAreLongest
PROPERTIES
  PageFinished
  ImplementsDataRequest
