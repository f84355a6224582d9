CONSTANTS
  NDesc = 3
  Frames = {f, g, h}
  Long = {h}
  FifoLen = 2
  NoFrame = none
  NoDesc = null
SPECIFICATION FairSpec
INVARIANT NoLostWakeup
PROPERTIES ImplementsQueue DescriptorsReturn
