CONSTANTS
  MaxPkt = 2
  Ids = {a, b}
  NoId = none
  NoPkt = nopkt
  Msgs = {m1, m2, m3}
  NoMsg = nomsg
SPECIFICATION VcpSpec
INVARIANTS
  OneHolder ReceptionAlive NextPacketIntact
  MessagesInOrder InEndpointsFed
PROPERTIES ReceptionGoesOn TransmissionGoesOn
