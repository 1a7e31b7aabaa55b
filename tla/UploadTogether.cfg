SPECIFICATION Spec
CONSTANTS
  A = A
  B = B
  c1 = c1
  c2 = c2
  Clients = {A, B}
  Chunks = {c1, c2}
  Plan <- PlanEach
  PACKETS = 4
  WINDOW = 2
  CAP = 3
  Faults = {}
  MAX_CONN = 3
  PROMPT = FALSE
INVARIANTS
  ListIsThere
CHECK_DEADLOCK FALSE
