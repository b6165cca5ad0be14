\* Liveness of the drain, and every step of the service at least once.
CONSTANTS
  Client = {p1, p2}
  Nobody = Nobody
  Nick = {n1, n2}
  NoNick = NoNick
  Channel = {game}
  Staging = {game}
  Absent = Absent
  Generation = {0, 1}
  MaxChannels = 1
  PerClient = 1
SPECIFICATION FairSpec
INVARIANTS
  TypeOK
  NickUnique
  MapsWithinMembership
PROPERTIES
  DrainDisconnects
CHECK_DEADLOCK FALSE
