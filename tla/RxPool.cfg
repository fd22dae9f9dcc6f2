\* Two spares and the assembly buffer; a queue that can fill up; messages that
\* fit and one size that does not.  The stream stops once it is gone.
SPECIFICATION Spec
CONSTANTS
  Buffers = {b1, b2, b3}
  None = None
  PoolSize = 2
  AsmMax = 2
  QueueMax = 2
  Msgs = 4
  MaxFrags = 3
  Readers = {r1, r2}
SYMMETRY RxSymmetry
INVARIANTS TypeOK OneOwner
PROPERTIES BuffersFixed LinkSpec
CHECK_DEADLOCK FALSE
