SPECIFICATION Spec
CONSTANTS
  Limit = 1
  ReadBuffer = 1
  PipeSize = 1
  MaxWrites = 1
  Faults <- MCFaults
INVARIANTS
  TextIsWhole
  OverrunIsReported
  BlamedForItself
  TimeoutIsReal
  NoChildLeft
  GroupIsKilled
PROPERTIES
  Returns
  PipesDrain
CHECK_DEADLOCK FALSE
