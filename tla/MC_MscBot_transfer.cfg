CONSTANTS
  NBlks = 2
  BlkSize = 2
  W = 4
  RespLen <- MCRespLen
  Vals = {a, b}
  NTags = 2
  Cbws <- TransferCbws
  AbortEarly = TRUE
SPECIFICATION Spec
INVARIANTS PassMeansDone DiskHoldsPrefix CommandInv
PROPERTY WritesStayInRange
