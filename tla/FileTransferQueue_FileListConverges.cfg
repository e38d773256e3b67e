CONSTANTS
  a1 = a1
  a2 = a2
  a3 = a3
  b1 = b1
  undef = undef
  OwnFiles <- MC_OwnFiles
  OtherFiles <- MC_OtherFiles
  Invalid <- MC_Invalid
  MaxLoads <- MC_MaxLoads
  Undefined = undef
SPECIFICATION Spec
INVARIANT FileListConverges
CHECK_DEADLOCK FALSE
