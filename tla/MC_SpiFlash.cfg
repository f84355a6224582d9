CONSTANTS
  Bits = {b}
  PageSize = 2
  NPages = 2
  NSectors = 2
  MaxTran = 3
  Data <- MCData
  MaxWrite = 2
  Torn = torn
SPECIFICATION FairSpec
INVARIANTS CommandsAccepted ProgramsErased ReadsWhole
PROPERTIES ImplementsBlockDevice RequestsEnd
