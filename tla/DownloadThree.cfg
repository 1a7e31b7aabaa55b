SPECIFICATION Spec
CONSTANTS
  A = A
  B = B
  c1 = c1
  c2 = c2
  c3 = c3
  Peers = {A}
  Chunks = {c1, c2, c3}
  Has <- HasAll
  WishList <- Wish3
  BUFLEN = 1500
  PACKETS = 1
  MAX_CONN = 4
  GETS = 1
  RESENDS = 0
  FILES_FAIL = FALSE
  Corrupt = FALSE
  PROMPT = TRUE
PROPERTIES
  WrittenStays
CHECK_DEADLOCK FALSE
