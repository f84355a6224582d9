CONSTANTS
  NBlks = 2
  BlkSize = 2
  W = 4
  RespLen <- MCRespLen
  Vals = {a}
  NTags = 2
  Cbws <- CommandCbws
  AbortEarly = FALSE
SPECIFICATION FairSpec
INVARIANTS CswAnswersCommand PhaseAgreement NoMutualWait
PROPERTY BackToIdle
