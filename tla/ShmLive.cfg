SPECIFICATION FairSpec
CONSTANTS
  Readers = {r1, r2}
  MaxChunks = 1
  ChunkBytes = 16
  MaxMsgs = 4
  Pickle <- Mixed
  Allowed = {"lostnotify", "readtimeout", "shutdown"}
INVARIANT RingSound
PROPERTIES Delivered CancelStops
CHECK_DEADLOCK FALSE
