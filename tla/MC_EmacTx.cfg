CONSTANTS
  NDesc = 2
  Tasks = {net, dns}
  Frames = {f, g}
  NoFrame = none
SPECIFICATION FairSpec
INVARIANTS NoLostWakeup RingHoldsAccepted
PROPERTY FramesLeave
