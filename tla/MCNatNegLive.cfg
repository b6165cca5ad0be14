\* Liveness under the scheduling of the event loop, with room for one relay.
CONSTANTS
  Cookie = {c1, c2}
  Addr = {a1, a2}
  NoPeer = NoPeer
  SessionTTL = 1
  FallbackDelay = 1
  RelayLifetime = 2
  SweepInterval = 1
  DrainTimeout = 1
  MaxSessions = 1
  MaxRelays = 1
  RelayPolicy = "auto"
SPECIFICATION FairSpec
INVARIANTS
  TypeOK
  RelayDeadline
PROPERTIES
  DrainTerminates
  QuietRelayCloses
  FallbackDecided
