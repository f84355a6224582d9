CONSTANTS
  MaxPacket = 2
  Requests <- SomeRequests
  NoReq = noreq
  MaxFifo = 2
  MaxEvents = 2
SPECIFICATION FairSpec
INVARIANTS ReadsWhole NoMutualWait StateAgrees
PROPERTY RequestsEnd
CHECK_DEADLOCK FALSE
