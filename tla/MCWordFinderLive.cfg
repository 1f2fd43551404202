SPECIFICATION Spec
CONSTANTS
  NSlots = 2
  Keys <- MCKeys
  Found <- MCFound
  Exact <- MCExact
  SearchTypes <- MCOneType
  MaxShown <- MCMaxShown
  Network <- MCNetwork
  MaxSearches = 2
  MaxEvents = 1
CHECK_DEADLOCK FALSE
PROPERTIES
  SearchAnswered
  ClearReturns
