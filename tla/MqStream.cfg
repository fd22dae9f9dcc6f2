SPECIFICATION FairSpec
CONSTANTS
  MaxMsgs = 3
  Total <- Lengths
  Chunk = 2
  Allowed = {"samehost", "writerfail", "readerfail", "hellofail", "sendfail", "recvfail", "loss"}
INVARIANTS TypeOK PlanesAgree InOrder
PROPERTY Delivered
CHECK_DEADLOCK FALSE
