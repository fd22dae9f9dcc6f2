SPECIFICATION Spec
CONSTANTS
  Readers = {r1, r2}
  MaxChunks = 2
  ChunkBytes = 16
  MaxMsgs = 3
  Pickle <- Mixed
  Allowed = {"writetimeout", "overflowtimeout", "badpickle"}
SYMMETRY ReaderSymmetry
INVARIANT TypeOK
PROPERTY QueueSpec
CHECK_DEADLOCK FALSE
