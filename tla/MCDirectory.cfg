\* Two hosts of an automatch game and a reader, before a drain.
CONSTANTS
  Host = {h1, h2}
  Keys = {free, full}
  Automatch = {free, full}
  Open = {free}
  Query <- Search
  Reader = {r1}
  Challenge = {x1, x2}
  None = None
  TTL = 1
  MaxServers = 2
SPECIFICATION Serving
SYMMETRY Symmetry
INVARIANTS
  Synced
PROPERTIES
  ProofCoversKeys
  FirstHostStays
  ImplementsBulletin
