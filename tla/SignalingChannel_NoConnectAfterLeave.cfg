CONSTANTS
  MaxReconnectAttempts <- MC_MaxReconnectAttempts
  MaxSockets <- MC_MaxSockets
  MaxFaults <- MC_MaxFaults
SPECIFICATION Spec
CONSTRAINT MC_Constraint
PROPERTY NoConnectAfterLeave
CHECK_DEADLOCK FALSE
