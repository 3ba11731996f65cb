SPECIFICATION Spec
CONSTANTS
  p1 = p1
  p2 = p2
  None = None
  Pods <- MCPods
  Position <- MCPosition
  LogDuration = 2
  MaxClock = 5
  MaxLines = 2
  MaxFaults = 1
INVARIANTS TypeOK InOrderOnce Collected
PROPERTIES ImplementsFile
CHECK_DEADLOCK FALSE
