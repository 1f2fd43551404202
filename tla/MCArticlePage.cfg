SPECIFICATION Spec
CONSTANTS
  w1 = w1
  w2 = w2
  g1 = g1
  g2 = g2
  d1 = d1
  d2 = d2
  Words = {w1, w2}
  Groups = {g1, g2}
  Dicts = {d1, d2}
  Articles <- MCArticles
  Large = {d1}
  NoWord = NoWord
  NoDict = NoDict
  NoScroll = NoScroll
  MaxPages = 2
  MaxBacks = 1
  MaxGestures = 2
INVARIANTS
  Agreement
  ListIsPage
  CollapseRemembered
CHECK_DEADLOCK FALSE
