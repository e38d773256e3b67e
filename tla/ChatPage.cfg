CONSTANTS
  MaxApps <- MC_MaxApps
  MaxTimers <- MC_MaxTimers
  IsMobile = TRUE
SPECIFICATION PageFairSpec
PROPERTY NoDoubleStart
 
 
CHECK_DEADLOCK FALSE
