SPECIFICATION FairSpec
CONSTANTS
  a = a
  b = b
  x = x
  y = y
  None = None
  Destinations <- MCDestinations
  Lists <- MCLists
  Entries = {x, y}
  Bytes = {1, 2, 3}
  Csv <- MCCsv
  Fitting <- MCFitting
  MaxLog = 2
  Posts = {p, q}
  MaxFaults = 1
INVARIANTS TypeOK BytesInPlace WholeAtRest
PROPERTIES ImplementsMirror
CHECK_DEADLOCK FALSE
