SPECIFICATION FairSpec
CONSTANTS
  A = A
  B = B
  c1 = c1
  c2 = c2
  c3 = c3
  Peers = {A, B}
  Chunks = {c1, c2}
  Has <- HasAll
  WishList <- Wish2
  BUFLEN = 40
  PACKETS = 3
  MAX_CONN = 2
  GETS = 1
  RESENDS = 2
  FILES_FAIL = FALSE
  Corrupt = FALSE
  PROMPT = TRUE
INVARIANTS
  AssembledInOrder
  ArmedTimerHasItsConnection
  NeverExits
PROPERTIES
  Downloads
CHECK_DEADLOCK FALSE
