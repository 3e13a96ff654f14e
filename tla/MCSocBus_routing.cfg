CONSTANTS
  Addrs <- RoutingAddrs
  Lanes = {"b0"}
  Bytes = {0}
  NoReq = NoReq
  Program <- RoutingProgram
  DoutHeld = TRUE
  MaxAge = 4
SPECIFICATION FairSpec
INVARIANTS BusAgreement ExactlyOnce AnsweredInTime
PROPERTY EventuallyAnswered
