CONSTANTS
  MaxReconnectAttempts <- MC_MaxReconnectAttempts
  MaxSockets <- MC_MaxSockets
  MaxFaults <- MC_MaxFaults
  MaxPosts <- MC_MaxPosts
SPECIFICATION ChatSpec
CONSTRAINT MC_Constraint
PROPERTY NoJoinAfterLeave
CHECK_DEADLOCK FALSE
