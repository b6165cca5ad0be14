\* Two connections and a drain that disconnects one whose NICK has been read.
CONSTANTS
  Client = {p1, p2}
  Nobody = Nobody
  Nick = {n1, n2}
  NoNick = NoNick
  Channel = {game}
  Staging = {game}
  Absent = Absent
  Generation = {0}
  MaxChannels = 1
  PerClient = 1
SPECIFICATION Spec
INVARIANTS
  TornDown
CHECK_DEADLOCK FALSE
