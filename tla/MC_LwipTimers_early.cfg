CONSTANTS
  fine = fine
  reass = reass
  arp = arp
  Timers = {fine, reass, arp}
  Period <- Periods
  InitOrder <- Order
  Nodes = {n1, n2, n3}
  Null = null
  Word = 64
  MaxLag = 2
  MaxMsgs = 1
SPECIFICATION TimersSpec
INVARIANT NotEarly
CHECK_DEADLOCK FALSE
