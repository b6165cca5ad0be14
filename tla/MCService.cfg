\* Three players, one of them too many, and a reader, where listeners do not
\* wait for connections; the server may be asked to drain, or fail, at any time.
CONSTANTS
  Player = {p1, p2, p3}
  Browser = {b1}
  Source = {s1, s2}
  None = None
  TotalLimit = 2
  PerSource = 1
  MaxRelays = 2
  DrainSeconds = 2
  WaitsForConnections = FALSE
SPECIFICATION Spec
CHECK_DEADLOCK FALSE
INVARIANTS
  TypeOK
  PlacesCounted
  NobodyLeft
PROPERTIES
  RelaysOutlastDrain
  ProcessExits
