\* Two matches over three endpoints: a rematch may reuse an endpoint.
CONSTANTS
  Cookie = {c1, c2}
  Addr = {a1, a2, a3}
  NoPeer = NoPeer
  SessionTTL = 2
  FallbackDelay = 1
  RelayLifetime = 1
  SweepInterval = 1
  DrainTimeout = 1
  MaxSessions = 2
  MaxRelays = 2
  RelayPolicy = "auto"
SPECIFICATION Spec
SYMMETRY Symmetry
INVARIANTS
  RelayOwnership
  OutcomeExclusive
  FallbackOwned
PROPERTIES
  FirstClaimWins
  CommittedRelay
  DrainAllocatesNothing
  ImplementsSwitch
