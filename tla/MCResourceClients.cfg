SPECIFICATION Spec
CONSTANTS
  Elements = {e}
  Saves = {s, t}
CHECK_DEADLOCK FALSE
PROPERTIES
  ClientsAnswered
