CONSTANTS
  Addrs <- MemoryAddrs
  Lanes = {"b0", "b1"}
  Bytes = {0, 1}
  NoReq = NoReq
  Program <- MemoryProgram
  DoutHeld = TRUE
  MaxAge = 4
SPECIFICATION Spec
PROPERTY ImplementsLoadStore
