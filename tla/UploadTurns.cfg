SPECIFICATION FairSpec
CONSTANTS
  A = A
  B = B
  c1 = c1
  c2 = c2
  Clients = {A, B}
  Chunks = {c1, c2}
  Plan <- PlanTurns
  PACKETS = 4
  WINDOW = 2
  CAP = 3
  Faults = {"lose"}
  MAX_CONN = 2
  PROMPT = TRUE
INVARIANTS
  TypeOK
  OwnBytes
  AckFindsItsSession
  NeverEnds
  IdleIsClean
  CountersAgree
  AckMeetsList
PROPERTIES
  Served
CHECK_DEADLOCK FALSE
