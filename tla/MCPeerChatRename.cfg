CONSTANTS
  Client = {p1, p2, p3}
  Nobody = Nobody
  Nick = {n1, n2, n3}
  NoNick = NoNick
  Channel = {title, game}
  Staging = {game}
  Absent = Absent
  Generation = {0}
  MaxChannels = 2
  PerClient = 2
SPECIFICATION Healthy
SYMMETRY Symmetry
INVARIANTS
  TwoPlayers
CHECK_DEADLOCK FALSE
