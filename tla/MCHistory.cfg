SPECIFICATION Spec
CONSTANTS
  Words <- MCWords
  Folded <- MCFolded
  Clean <- MCClean
  Bogus <- MCBogus
  MaxSizes = {0, 1, 2}
INVARIANTS
  TypeOK
  NoDuplicates
  CleanIsSaved
PROPERTIES
  DirtyGetsSaved
