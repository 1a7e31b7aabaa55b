SPECIFICATION Spec
CONSTANTS
  PACKETS = 4
  WINDOW = 2
  CAP = 4
  Faults = {"lose"}
  PROMPT = TRUE
PROPERTIES
  DuplicateAckResends
CHECK_DEADLOCK FALSE
