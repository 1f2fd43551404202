SPECIFICATION Spec
CONSTANTS
  NSlots = 2
  Keys <- MCKeys
  Found <- MCFound
  Exact <- MCExact
  SearchTypes <- MCTypes
  MaxShown <- MCMaxShown
  Network <- MCNetwork
  MaxSearches = 3
  MaxEvents = 1
CHECK_DEADLOCK FALSE
INVARIANTS
  TypeOK
  ResultsAreOfThisSearch
  FinishedIsComplete
  VerdictIsOfThisSearch
  NeverStranded
  NoStrayWorker
PROPERTIES
  ImplementsHeadwordSearch
