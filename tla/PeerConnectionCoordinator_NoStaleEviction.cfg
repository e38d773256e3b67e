CONSTANTS
  p1 = p1
  p2 = p2
  NoPeer = NoPeer
  Peers <- MC_Peers
  MaxPcs <- MC_MaxPcs
  MaxInbox <- MC_MaxInbox
  MaxRejoins = 1
  MaxNetFaults = 1
SPECIFICATION Spec
PROPERTY NoStaleEviction
CHECK_DEADLOCK FALSE
SYMMETRY MC_Symmetry
