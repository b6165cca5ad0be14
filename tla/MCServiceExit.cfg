\* One player where listeners wait for their connections (Python 3.12.1 on).
CONSTANTS
  Player = {p1}
  Browser = {}
  Source = {s1}
  None = none
  TotalLimit = 1
  PerSource = 1
  MaxRelays = 1
  DrainSeconds = 1
  WaitsForConnections = TRUE
SPECIFICATION Spec
CHECK_DEADLOCK FALSE
PROPERTIES
  ProcessExits
