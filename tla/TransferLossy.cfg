SPECIFICATION FairSpec
CONSTANTS
  PACKETS = 9
  WINDOW = 3
  CAP = 3
  Faults = {"lose"}
  PROMPT = TRUE
PROPERTIES
  ReachesLastWindow
CHECK_DEADLOCK FALSE
