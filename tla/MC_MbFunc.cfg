SPECIFICATION MbSpec
CONSTANTS
  Size <- MC_Size
  Word = 8
  ByteBits = 2
  MaxRead <- MC_MaxRead
  MaxWrite <- MC_MaxWrite
  MaxRwWrite = 2
  MaxSet = 2
  Values = {0, 1}
  Requests <- MC_Requests
CONSTRAINT OneInput
INVARIANTS
  TablesAsTold
  RepliesTell
