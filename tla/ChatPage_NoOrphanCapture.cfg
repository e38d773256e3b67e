CONSTANTS
  MaxApps <- MC_MaxApps
  MaxTimers <- MC_MaxTimers
  IsMobile = TRUE
SPECIFICATION PageSpec
INVARIANT NoOrphanCapture
CHECK_DEADLOCK FALSE
