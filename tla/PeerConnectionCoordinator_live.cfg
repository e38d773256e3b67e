CONSTANTS
  p1 = p1
  p2 = p2
  NoPeer = NoPeer
  Peers <- MC_Peers
  MaxPcs <- MC_LiveMaxPcs
  MaxInbox <- MC_MaxInbox
  MaxRejoins = 0
  MaxNetFaults = 0
SPECIFICATION FairSpec
PROPERTY EventuallyConnected
CHECK_DEADLOCK FALSE
