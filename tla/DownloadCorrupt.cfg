SPECIFICATION Spec
CONSTANTS
  A = A
  B = B
  c1 = c1
  c2 = c2
  c3 = c3
  Peers = {A, B}
  Chunks = {c1, c2, c3}
  Has <- HasSome
  WishList <- Wish3
  BUFLEN = 1500
  PACKETS = 1
  MAX_CONN = 4
  GETS = 2
  RESENDS = 0
  FILES_FAIL = TRUE
  Corrupt = TRUE
  PROMPT = TRUE
INVARIANTS
  WrittenIsVerified
CHECK_DEADLOCK FALSE
