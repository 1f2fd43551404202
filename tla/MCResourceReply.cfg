SPECIFICATION Spec
CONSTANTS
  MaxData = 3
  MaxRead = 2
  MaxUpdates = 2
CHECK_DEADLOCK FALSE
INVARIANTS
  TypeOK
  EofMeansAllRead
  WokenInTime
PROPERTIES
  AllDelivered
