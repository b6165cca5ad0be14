\* Three players and one staging room, before a drain.
CONSTANTS
  Client = {p1, p2, p3}
  Nobody = Nobody
  Nick = {n1, n2, n3}
  NoNick = NoNick
  Channel = {game}
  Staging = {game}
  Absent = Absent
  Generation = {0, 1}
  MaxChannels = 1
  PerClient = 1
SPECIFICATION Serving
SYMMETRY Symmetry
INVARIANTS
  MembershipAgrees
  TwoPlayers
PROPERTIES
  OnlyEmptyRoomsGo
CHECK_DEADLOCK FALSE
