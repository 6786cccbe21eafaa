SPECIFICATION Spec
CONSTANTS
  Connections = {c1, c2}
  MaxUpdates = 2
INVARIANTS
  OneAtATime
  KeepsAcknowledged
  HangsOnItself
  
PROPERTY
  WaitEnds
CHECK_DEADLOCK FALSE
