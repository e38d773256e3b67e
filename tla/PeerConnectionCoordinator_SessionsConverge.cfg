CONSTANTS
  p1 = p1
  p2 = p2
  NoPeer = NoPeer
  Peers <- MC_Peers
  MaxPcs <- MC_MaxPcs
  MaxInbox <- MC_MaxInbox
  MaxRejoins = 0
  MaxNetFaults = 0
SPECIFICATION Spec
INVARIANT SessionsConverge
CHECK_DEADLOCK FALSE
SYMMETRY MC_Symmetry
