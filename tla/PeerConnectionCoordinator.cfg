CONSTANTS
  p1 = p1
  p2 = p2
  Peers <- MC_Peers
  MaxPcs <- MC_FairMaxPcs
  MaxInbox <- MC_MaxInbox
  MaxRejoins = 1
  MaxNetFaults = 1
  NoPeer = NoPeer
SPECIFICATION FairSpec
INVARIANT RosterTracksRoom
PROPERTY VideosConverge
CHECK_DEADLOCK FALSE
