\* Room for one of two hosts, a drain at any point, liveness.
CONSTANTS
  Host = {h1, h2}
  Keys = {free, full}
  Automatch = {}
  Open = {free}
  Query <- FilteredSearch
  Reader = {r1}
  Challenge = {x1, x2}
  None = None
  TTL = 1
  MaxServers = 1
SPECIFICATION FairSpec
INVARIANTS
  TypeOK
PROPERTIES
  CatchesUp
  StaleHostsLeave
  DrainCloses
