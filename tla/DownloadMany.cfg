SPECIFICATION Spec
CONSTANTS
  A = A
  B = B
  c1 = c1
  c2 = c2
  c3 = c3
  Peers = {A, B}
  Chunks = {c1, c2, c3}
  Has <- HasSome
  WishList <- Wish3
  BUFLEN = 60
  PACKETS = 2
  MAX_CONN = 3
  GETS = 2
  RESENDS = 1
  FILES_FAIL = TRUE
  Corrupt = FALSE
  PROMPT = FALSE
INVARIANTS
  NeverStuck
  TypeOK
  OneDownloadPerChunk
  DataFindsItsConnection
  RefusedOnlyWhileReceiving
PROPERTIES
  KeepsPromise
  WishShrinksByWriting
CHECK_DEADLOCK FALSE
