CONSTANTS
  MaxApps <- MC_MaxApps
  MaxTimers <- MC_MaxTimers
  IsMobile = TRUE
SPECIFICATION PageSpec
INVARIANT ButtonsShowTracks
CHECK_DEADLOCK FALSE
