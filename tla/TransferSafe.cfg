SPECIFICATION Spec
CONSTANTS
  PACKETS = 5
  WINDOW = 3
  CAP = 3
  Faults = {"lose", "duplicate", "reorder"}
  PROMPT = FALSE
INVARIANTS
  TypeOK
  Inv
  StoredInOrder
  RingHoldsWindow
  WindowAgreement
PROPERTIES
  SendsWithinWindow
  DeliversChunk
CHECK_DEADLOCK FALSE
