SPECIFICATION Spec
CONSTANTS
  Modes <- MCModes
  RequestTries = 1
  RebindTries = 1
  CheckTries = 1
  RebootTries = 2
  MaxFaults = 2
INVARIANTS ModeAgrees DownWithoutLink AddressIsLeased
PROPERTIES LinkFollows LeaseObtained
