------------------------------- MODULE NatNeg -------------------------------
(***************************************************************************)
(* NAT negotiation and the fallback relay: NatNegProtocol                  *)
(* (server/fruitspy/natneg.py) with the NatNeg half of ServerState         *)
(* (server/fruitspy/state.py) and the part of run_server (__main__.py)     *)
(* that drains and closes it.                                              *)
(*                                                                         *)
(* Everything runs on one asyncio loop and none of these handlers awaits,  *)
(* so each datagram, each timer callback and each resumption of the        *)
(* draining task is one atomic step.  What interleaves is their order.     *)
(*                                                                         *)
(* Time is discrete.  A monotonic time stamp t is kept as its age now - t, *)
(* a timer as the ticks it has left.  Ages stop growing one past the       *)
(* largest value any comparison tells apart, so runs are infinite and the  *)
(* state space is finite.  The loop is punctual at this granularity: time  *)
(* does not advance past a timer that is due, but datagrams that arrive in *)
(* the same tick may be handled before or after it.                        *)
(***************************************************************************)
EXTENDS Integers, FiniteSets, Functions, TLC

CONSTANTS
  Cookie,          \* NatNeg session cookies
  Addr,            \* source addresses (host and port) the server observes
  NoPeer,          \* an index of a session no endpoint has claimed yet
  SessionTTL,      \* timeouts.nat_session_seconds
  FallbackDelay,   \* relay.fallback_seconds
  RelayLifetime,   \* relay.session_seconds
  SweepInterval,   \* the throttle of _expire_relays
  DrainTimeout,    \* timeouts.drain_seconds
  MaxSessions,     \* limits.nat_sessions
  MaxRelays,       \* relay.sessions
  RelayPolicy      \* relay.policy

ASSUME NatNegConstants ==
  /\ NoPeer \notin Addr
  /\ SessionTTL \in Nat \ {0}
  /\ FallbackDelay \in Nat \ {0}
  /\ RelayLifetime \in Nat \ {0}
  /\ SweepInterval \in Nat \ {0}
  /\ DrainTimeout \in Nat \ {0}
  /\ MaxSessions \in Nat \ {0}
  /\ MaxRelays \in Nat \ {0}
  /\ RelayPolicy \in {"direct", "auto"}

VARIABLES
  sessions,        \* ServerState.nat_sessions: cookie -> Session
  fallbacks,       \* _fallbacks: cookie -> ticks until _activate_relay
  relays,          \* _relays: cookie -> Relay
  binding,         \* _relay_by_address: address -> <<cookie, index>>
  expirations,     \* _relay_expirations: cookie -> ticks until the idle check
  relaysEmpty,     \* the event _relays_empty
  sweepWait,       \* ticks until _next_relay_expiry
  draining,        \* DrainController.is_draining
  stage,           \* how far run_server has got
  drainLeft,       \* ticks left of wait_for_relays' timeout
  delivered        \* <<source, destination>> of the datagram the step relayed

relayVars == <<fallbacks, relays, binding, expirations, relaysEmpty>>
drainVars == <<draining, stage, drainLeft>>
vars == <<sessions, relayVars, sweepWait, drainVars, delivered>>

Index == {0, 1}
Stage == {"serving", "waiting", "closing", "lost"}

(* `relayed` records that the session has counted the outcome "relay";     *)
(* it has counted the outcome "direct" once `success` is not empty.        *)
Session == [peers : [Index -> Addr \cup {NoPeer}], success : SUBSET Index,
            relayed : BOOLEAN, idle : 0 .. SessionTTL + 1]
Relay == [addr : [Index -> Addr], ready : SUBSET Index, reports : SUBSET Index,
          idle : 0 .. RelayLifetime]

NewSession == [peers |-> [i \in Index |-> NoPeer], success |-> {},
               relayed |-> FALSE, idle |-> 0]

NewRelay(peers) == [addr |-> peers, ready |-> {}, reports |-> {}, idle |-> 0]

Paired(session) == \A i \in Index : session.peers[i] # NoPeer

Drop(f, S) == Restrict(f, DOMAIN f \ S)
Put(f, k, v) == [x \in DOMAIN f \cup {k} |-> IF x = k THEN v ELSE f[x]]

Init ==
  /\ sessions = [c \in {} |-> NewSession]
  /\ fallbacks = [c \in {} |-> 0]
  /\ relays = [c \in {} |-> NewRelay(NewSession.peers)]
  /\ binding = [a \in {} |-> <<>>]
  /\ expirations = [c \in {} |-> 0]
  /\ relaysEmpty = TRUE
  /\ sweepWait = 0
  /\ draining = FALSE
  /\ stage = "serving"
  /\ drainLeft = 0
  /\ delivered = {}
-----------------------------------------------------------------------------
(* Sessions.                                                               *)

(* Mutant: the boundary age is expired too.                               *)
KeptStrictly == {c \in DOMAIN sessions : sessions[c].idle < SessionTTL}
Kept == {c \in DOMAIN sessions : sessions[c].idle <= SessionTTL}

(* session.last_seen = now, if the session is there.                       *)
Touched(c) ==
  IF c \in DOMAIN sessions THEN [sessions EXCEPT ![c].idle = 0] ELSE sessions

(* Mutant: the last claim wins.                                            *)
CanClaimLast(c, i, a) ==
  IF c \in Kept
  THEN sessions[c].peers[i] = a \/ a \notin Range(sessions[c].peers)
  ELSE Cardinality(Kept) < MaxSessions

(* Mutant: the limit is off by one.                                        *)
CanClaimOneMore(c, i, a) ==
  IF c \in Kept
  THEN \/ sessions[c].peers[i] = a
       \/ sessions[c].peers[i] = NoPeer /\ a \notin Range(sessions[c].peers)
  ELSE Cardinality(Kept) <= MaxSessions

(* claim_nat_peer accepts a new cookie while there is room, the owner of   *)
(* the index again, and a new endpoint for an index still open.            *)
CanClaim(c, i, a) ==
  IF c \in Kept
  THEN \/ sessions[c].peers[i] = a
       \/ sessions[c].peers[i] = NoPeer /\ a \notin Range(sessions[c].peers)
  ELSE Cardinality(Kept) < MaxSessions

Claimed(c, i, a) ==
  LET session == IF c \in Kept THEN sessions[c] ELSE NewSession
  IN  [session EXCEPT !.peers[i] = a, !.idle = 0]
-----------------------------------------------------------------------------
(* Relays.  What _finish_relay does for every cookie of S (all of them     *)
(* relays): the relay, its idle timer, its bindings and a pending fallback *)
(* go, and the event is set when no relay is left.                         *)

BoundTo(S) ==
  {a \in DOMAIN binding : \E c \in S, i \in Index :
     binding[a] = <<c, i>> /\ relays[c].addr[i] = a}

FinishAnd(S, relaysLeft, fallbacksLeft) ==
  /\ relays' = relaysLeft
  /\ fallbacks' = fallbacksLeft
  /\ expirations' = Drop(expirations, S)
  /\ binding' = Drop(binding, BoundTo(S))
  /\ relaysEmpty' = (relaysEmpty \/ (S # {} /\ DOMAIN relays = S))

FinishRelays(S) == FinishAnd(S, Drop(relays, S), Drop(fallbacks, S))

FinishAndUpdate(S, c, r) ==
  FinishAnd(S, Put(Drop(relays, S), c, r), Drop(fallbacks, S))

IdleRelays == {c \in DOMAIN relays : relays[c].idle >= RelayLifetime}

(* The relays _expire_relays closes at the start of every datagram.        *)
Swept == IF sweepWait = 0 THEN IdleRelays ELSE {}

Sweep == sweepWait' = IF sweepWait = 0 THEN SweepInterval ELSE sweepWait
-----------------------------------------------------------------------------
(* Datagrams.  datagram_received sweeps idle relays and then dispatches.   *)

Receiving == stage \in {"serving", "waiting"}

(* A datagram whose handler changes nothing beyond the sweep.              *)
OnlySweep ==
  /\ FinishRelays(Swept)
  /\ delivered' = {}
  /\ UNCHANGED drainVars

Stateless ==
  /\ Receiving /\ Sweep /\ OnlySweep
  /\ UNCHANGED sessions

(* Mutant: only the drain of the relays closes the door.                   *)
AdmittedBeforeWaiting(c) == stage = "waiting" => c \in DOMAIN sessions

(* A drain turns away the cookies without a session.                       *)
Admitted(c) == draining => c \in DOMAIN sessions

InitDraining(a, c, i) ==
  /\ Receiving /\ Sweep
  /\ ~ Admitted(c)
  /\ OnlySweep
  /\ UNCHANGED sessions

InitRelayed(a, c, i) ==
  /\ Receiving /\ Sweep
  /\ Admitted(c)
  /\ c \in DOMAIN relays \ Swept
  /\ IF relays[c].addr[i] = a
     THEN FinishAndUpdate(Swept, c, [relays[c] EXCEPT !.idle = 0])
     ELSE FinishRelays(Swept)
  /\ delivered' = {}
  /\ UNCHANGED <<sessions, drainVars>>

InitRefused(a, c, i) ==
  /\ Receiving /\ Sweep
  /\ Admitted(c)
  /\ c \notin DOMAIN relays \ Swept
  /\ ~ CanClaim(c, i, a)
  /\ sessions' = Restrict(sessions, Kept)
  /\ OnlySweep

(* Mutant: the first peer already starts the timer.                        *)
SchedulesUnpaired(c, session) ==
  /\ ~ (c \in Kept /\ Paired(sessions[c]))
  /\ RelayPolicy = "auto"
  /\ c \notin DOMAIN fallbacks \ Swept

(* The transition to two peers starts the fallback timer, once.            *)
SchedulesFallback(c, session) ==
  /\ Paired(session)
  /\ ~ (c \in Kept /\ Paired(sessions[c]))
  /\ RelayPolicy = "auto"
  /\ c \notin DOMAIN fallbacks \ Swept

InitClaimed(a, c, i) ==
  /\ Receiving /\ Sweep
  /\ Admitted(c)
  /\ c \notin DOMAIN relays \ Swept
  /\ CanClaim(c, i, a)
  /\ LET session == Claimed(c, i, a)
         left == Drop(fallbacks, Swept) IN
       /\ sessions' = Put(Restrict(sessions, Kept), c, session)
       /\ FinishAnd(Swept, Drop(relays, Swept),
            IF SchedulesFallback(c, session)
            THEN Put(left, c, FallbackDelay) ELSE left)
  /\ delivered' = {}
  /\ UNCHANGED drainVars

(* NN_REPORT is ignored unless it comes from the owner of the index.       *)
OwnsIndex(a, c, i) == c \in DOMAIN sessions /\ sessions[c].peers[i] = a

ReportIgnored(a, c, i) ==
  /\ Receiving /\ Sweep
  /\ ~ OwnsIndex(a, c, i)
  /\ OnlySweep
  /\ UNCHANGED sessions

ReportFailure(a, c, i) ==
  /\ Receiving /\ Sweep
  /\ OwnsIndex(a, c, i)
  /\ sessions' = Touched(c)
  /\ OnlySweep

(* Mutant: it takes a report through the relay to commit.                  *)
CommittedByReport(c) == c \in DOMAIN relays \ Swept /\ relays[c].reports # {}

(* A success once an endpoint has returned its ping commits to the relay.  *)
Committed(c) == c \in DOMAIN relays \ Swept /\ relays[c].ready # {}

ReportRelayed(a, c, i) ==
  /\ Receiving /\ Sweep
  /\ OwnsIndex(a, c, i)
  /\ Committed(c)
  /\ LET reports == relays[c].reports \cup {i} IN
       /\ FinishAndUpdate(Swept, c, [relays[c] EXCEPT !.reports = reports])
       /\ sessions' = [Touched(c) EXCEPT ![c].relayed = @ \/ reports = Index]
  /\ delivered' = {}
  /\ UNCHANGED drainVars

(* Otherwise it is a direct outcome: it closes a speculative relay and, if *)
(* the index had not reported before, cancels a pending fallback.          *)
ReportDirect(a, c, i) ==
  /\ Receiving /\ Sweep
  /\ OwnsIndex(a, c, i)
  /\ ~ Committed(c)
  /\ LET closed == Swept \cup (DOMAIN relays \cap {c}) IN
       FinishAnd(closed, Drop(relays, closed),
         Drop(fallbacks, IF i \in sessions[c].success
                         THEN closed ELSE closed \cup {c}))
  /\ sessions' = [Touched(c) EXCEPT ![c].success = @ \cup {i}]
  /\ delivered' = {}
  /\ UNCHANGED drainVars

(* A returned NN_CONNECT_PING of a bound endpoint makes it ready.          *)
PingReturned(a, c) ==
  /\ Receiving /\ Sweep
  /\ c \in DOMAIN relays \ Swept
  /\ \E i \in Index :
       /\ a \in DOMAIN binding
       /\ binding[a] = <<c, i>>
       /\ relays[c].addr[i] = a
       /\ FinishAndUpdate(Swept, c,
            [relays[c] EXCEPT !.ready = @ \cup {i}, !.idle = 0])
  /\ sessions' = Touched(c)
  /\ delivered' = {}
  /\ UNCHANGED drainVars

(* Mutant: one returned ping is enough.                                    *)
HalfProven(c) == relays[c].ready # {}
Proven(c) == relays[c].ready = Index

(* A datagram without the NatNeg magic, from a bound address.  `fits`      *)
(* stands for the packet size and byte rate checks of the endpoint.        *)
ForwardRelay(a, fits) ==
  /\ Receiving /\ Sweep
  /\ a \in DOMAIN binding \ BoundTo(Swept)
  /\ LET c == binding[a][1]
         other == 1 - binding[a][2] IN
       /\ c \in DOMAIN relays \ Swept
       /\ FinishAndUpdate(Swept, c, [relays[c] EXCEPT !.idle = 0])
       /\ sessions' = Touched(c)
       /\ delivered' = IF fits /\ Proven(c)
                       THEN {<<a, relays[c].addr[other]>>} ELSE {}
  /\ UNCHANGED drainVars

(* A datagram from any other source is dropped: Stateless.                 *)
Datagram ==
  \/ Stateless
  \/ \E a \in Addr, c \in Cookie, i \in Index :
       \/ InitDraining(a, c, i)
       \/ InitRelayed(a, c, i)
       \/ InitRefused(a, c, i)
       \/ InitClaimed(a, c, i)
       \/ ReportIgnored(a, c, i)
       \/ ReportFailure(a, c, i)
       \/ ReportRelayed(a, c, i)
       \/ ReportDirect(a, c, i)
  \/ \E a \in Addr, c \in Cookie : PingReturned(a, c)
  \/ \E a \in Addr, fits \in BOOLEAN : ForwardRelay(a, fits)
-----------------------------------------------------------------------------
(* Timers.                                                                 *)

(* Mutant: a direct success is not looked at.                              *)
WantsRelayAnyway(c) ==
  /\ ~ draining
  /\ stage # "lost"
  /\ RelayPolicy = "auto"
  /\ c \in DOMAIN sessions
  /\ Paired(sessions[c])
  /\ c \notin DOMAIN relays

(* _activate_relay finds nothing to do, or refuses: draining, no transport,*)
(* no session of two peers still without a direct success, or no capacity  *)
(* once idle relays are swept.  Its amplification check cannot refuse: the *)
(* 61 bytes sent are within three times the 21 of the shortest INIT.       *)
WantsRelay(c) ==
  /\ ~ draining
  /\ stage # "lost"
  /\ RelayPolicy = "auto"
  /\ c \in DOMAIN sessions
  /\ Paired(sessions[c])
  /\ sessions[c].success = {}
  /\ c \notin DOMAIN relays

CanRelay(c) ==
  /\ Cardinality(DOMAIN relays \ IdleRelays) < MaxRelays
  /\ sessions[c].peers[0] # sessions[c].peers[1]

FallbackVoid(c) ==
  /\ c \in DOMAIN fallbacks /\ fallbacks[c] = 0
  /\ ~ WantsRelay(c)
  /\ fallbacks' = Drop(fallbacks, {c})
  /\ delivered' = {}
  /\ UNCHANGED <<sessions, relays, binding, expirations, relaysEmpty,
                 sweepWait, drainVars>>

FallbackRefused(c) ==
  /\ c \in DOMAIN fallbacks /\ fallbacks[c] = 0
  /\ WantsRelay(c)
  /\ ~ CanRelay(c)
  /\ FinishAnd(IdleRelays, Drop(relays, IdleRelays),
               Drop(fallbacks, IdleRelays \cup {c}))
  /\ sweepWait' = SweepInterval
  /\ delivered' = {}
  /\ UNCHANGED <<sessions, drainVars>>

(* Mutant: reused endpoints do not close their relay.                      *)
ReplacedNone(peers) == {}

(* The relays the endpoints of a new one are still bound to.               *)
Replaced(peers) ==
  {binding[a][1] : a \in Range(peers) \cap (DOMAIN binding \ BoundTo(IdleRelays))}

(* The new relay closes those (endpoint_reused), takes over the endpoints  *)
(* and starts its own idle timer.                                          *)
ActivateRelay(c) ==
  /\ c \in DOMAIN fallbacks /\ fallbacks[c] = 0
  /\ WantsRelay(c)
  /\ CanRelay(c)
  /\ LET peers == sessions[c].peers
         closed == IdleRelays \cup (Replaced(peers) \cap DOMAIN relays)
     IN  /\ relays' = Put(Drop(relays, closed), c, NewRelay(peers))
         /\ fallbacks' = Drop(fallbacks, closed \cup {c})
         /\ expirations' = Put(Drop(expirations, closed), c, RelayLifetime)
         /\ binding' = Put(Put(Drop(binding, BoundTo(closed)),
                               peers[0], <<c, 0>>), peers[1], <<c, 1>>)
         /\ relaysEmpty' = FALSE
  /\ sweepWait' = SweepInterval
  /\ delivered' = {}
  /\ UNCHANGED <<sessions, drainVars>>

(* Mutant: a whole lifetime again.                                         *)
FullLifetime(c) == RelayLifetime
Remaining(c) == RelayLifetime - relays[c].idle

(* Mutant: the check does not look again.                                  *)
RelayIdleCheckOnce(c) ==
  /\ c \in DOMAIN expirations /\ expirations[c] = 0
  /\ IF c \in DOMAIN relays /\ relays[c].idle >= RelayLifetime
     THEN FinishRelays({c})
     ELSE /\ expirations' = Drop(expirations, {c})
          /\ UNCHANGED <<relays, binding, fallbacks, relaysEmpty>>
  /\ delivered' = {}
  /\ UNCHANGED <<sessions, sweepWait, drainVars>>

(* _expire_relay_after_idle: close the relay or look again when its idle   *)
(* deadline, moved by traffic since, is due.                               *)
RelayIdleCheck(c) ==
  /\ c \in DOMAIN expirations /\ expirations[c] = 0
  /\ IF c \in DOMAIN relays /\ relays[c].idle >= RelayLifetime
     THEN FinishRelays({c})
     ELSE /\ expirations' = IF c \in DOMAIN relays
                            THEN Put(expirations, c, Remaining(c))
                            ELSE Drop(expirations, {c})
          /\ UNCHANGED <<relays, binding, fallbacks, relaysEmpty>>
  /\ delivered' = {}
  /\ UNCHANGED <<sessions, sweepWait, drainVars>>

(* ServerState.expire, by its periodic task or on behalf of QR2 and the    *)
(* Server Browser.                                                         *)
ExpireSessions ==
  /\ Receiving
  /\ sessions' = Restrict(sessions, Kept)
  /\ delivered' = {}
  /\ UNCHANGED <<relayVars, sweepWait, drainVars>>

Due(timers) == \E c \in DOMAIN timers : timers[c] = 0
Elapse(timers) == [c \in DOMAIN timers |-> timers[c] - 1]
Older(age, limit) == IF age < limit THEN age + 1 ELSE age
Down(left) == IF left > 0 THEN left - 1 ELSE 0

Tick ==
  /\ ~ Due(fallbacks) /\ ~ Due(expirations)
  /\ ~ (stage = "waiting" /\ drainLeft = 0)
  /\ fallbacks' = Elapse(fallbacks)
  /\ expirations' = Elapse(expirations)
  /\ sessions' = [c \in DOMAIN sessions |->
       [sessions[c] EXCEPT !.idle = Older(@, SessionTTL + 1)]]
  /\ relays' = [c \in DOMAIN relays |->
       [relays[c] EXCEPT !.idle = Older(@, RelayLifetime)]]
  /\ sweepWait' = Down(sweepWait)
  /\ drainLeft' = Down(drainLeft)
  /\ delivered' = {}
  /\ UNCHANGED <<binding, relaysEmpty, draining, stage>>
-----------------------------------------------------------------------------
(* Shutdown, in run_server.                                                *)

(* A signal handler calls DrainController.request.                         *)
RequestDrain ==
  /\ ~ draining
  /\ draining' = TRUE
  /\ delivered' = {}
  /\ UNCHANGED <<sessions, relayVars, sweepWait, stage, drainLeft>>

(* begin_drain, then wait_for_relays, which returns at once if there is    *)
(* nothing to wait for.                                                    *)
BeginDrain ==
  /\ stage = "serving" /\ draining
  /\ fallbacks' = [c \in {} |-> 0]
  /\ relaysEmpty' = (relaysEmpty \/ DOMAIN relays = {})
  /\ IF DOMAIN relays = {}
     THEN stage' = "closing" /\ drainLeft' = 0
     ELSE stage' = "waiting" /\ drainLeft' = DrainTimeout
  /\ delivered' = {}
  /\ UNCHANGED <<sessions, relays, binding, expirations, sweepWait, draining>>

RelaysDrained ==
  /\ stage = "waiting" /\ relaysEmpty
  /\ stage' = "closing" /\ drainLeft' = 0
  /\ delivered' = {}
  /\ UNCHANGED <<sessions, relayVars, sweepWait, draining>>

(* Mutant: the timeout starts over.                                        *)
DrainWaitsAgain ==
  /\ stage = "waiting" /\ ~ relaysEmpty /\ drainLeft = 0
  /\ drainLeft' = DrainTimeout
  /\ delivered' = {}
  /\ UNCHANGED <<sessions, relayVars, sweepWait, draining, stage>>

DrainTimedOut ==
  /\ stage = "waiting" /\ ~ relaysEmpty /\ drainLeft = 0
  /\ FinishRelays(DOMAIN relays)
  /\ stage' = "closing" /\ drainLeft' = 0
  /\ delivered' = {}
  /\ UNCHANGED <<sessions, sweepWait, draining>>

(* A service task ends unexpectedly: run_server goes to its finally block  *)
(* without draining.                                                       *)
ServiceFailed ==
  /\ stage = "serving" /\ ~ draining
  /\ stage' = "closing"
  /\ delivered' = {}
  /\ UNCHANGED <<sessions, relayVars, sweepWait, draining, drainLeft>>

ConnectionLost ==
  /\ stage = "closing"
  /\ FinishAnd(DOMAIN relays, Drop(relays, DOMAIN relays), [c \in {} |-> 0])
  /\ stage' = "lost"
  /\ delivered' = {}
  /\ UNCHANGED <<sessions, sweepWait, draining, drainLeft>>
-----------------------------------------------------------------------------
Timer(c) ==
  \/ FallbackVoid(c)
  \/ FallbackRefused(c)
  \/ ActivateRelay(c)
  \/ RelayIdleCheck(c)

Shutdown ==
  \/ BeginDrain
  \/ RelaysDrained
  \/ DrainTimedOut
  \/ ConnectionLost

Next ==
  \/ Datagram
  \/ \E c \in Cookie : Timer(c)
  \/ ExpireSessions
  \/ Tick
  \/ RequestDrain
  \/ ServiceFailed
  \/ Shutdown

Spec == Init /\ [][Next]_vars

(* The event loop runs the callbacks that are due, the draining task goes  *)
(* on when its wait is over, and time passes.  Datagrams and signals are   *)
(* the environment's: nothing makes them happen.                           *)
Fairness ==
  /\ \A c \in Cookie : WF_vars(Timer(c))
  /\ WF_vars(Shutdown)
  /\ WF_vars(Tick)

FairSpec == Spec /\ Fairness
-----------------------------------------------------------------------------
(* Properties.                                                             *)

Types ==
  /\ DOMAIN sessions \subseteq Cookie
  /\ \A c \in DOMAIN sessions : sessions[c] \in Session
  /\ DOMAIN fallbacks \subseteq Cookie
  /\ \A c \in DOMAIN fallbacks : fallbacks[c] \in 0 .. FallbackDelay
  /\ DOMAIN relays \subseteq Cookie
  /\ \A c \in DOMAIN relays : relays[c] \in Relay
  /\ DOMAIN binding \subseteq Addr
  /\ \A a \in DOMAIN binding : binding[a] \in Cookie \X Index
  /\ DOMAIN expirations \subseteq Cookie
  /\ \A c \in DOMAIN expirations : expirations[c] \in 0 .. RelayLifetime
  /\ relaysEmpty \in BOOLEAN
  /\ sweepWait \in 0 .. SweepInterval
  /\ draining \in BOOLEAN
  /\ stage \in Stage
  /\ drainLeft \in 0 .. DrainTimeout
  /\ delivered \in SUBSET (Addr \X Addr)

(* relay.sessions and limits.nat_sessions are never exceeded, whatever     *)
(* has expired without having been swept.                                  *)
Capacity ==
  /\ Cardinality(DOMAIN relays) <= MaxRelays
  /\ Cardinality(DOMAIN sessions) <= MaxSessions

(* Every variable has its type, and the tables stay within their limits.   *)
TypeOK == Types /\ Capacity

(* _relay_by_address is exactly the inverse of the endpoints of the relays *)
(* in _relays: no binding outlives its relay, no relay loses an endpoint   *)
(* to another, and no address belongs to two relays, whatever the order of *)
(* rematches that reuse endpoints, idle closings and activations.          *)
RelayOwnership ==
  /\ \A a \in DOMAIN binding :
       /\ binding[a][1] \in DOMAIN relays
       /\ relays[binding[a][1]].addr[binding[a][2]] = a
  /\ \A c \in DOMAIN relays, i \in Index :
       /\ relays[c].addr[i] \in DOMAIN binding
       /\ binding[relays[c].addr[i]] = <<c, i>>

(* Each relay, and nothing else, has a pending idle check, and it is due   *)
(* no later than the relay's idle deadline; the event the draining task    *)
(* waits for is set exactly when there is no relay.                        *)
RelayDeadline ==
  /\ DOMAIN expirations = DOMAIN relays
  /\ \A c \in DOMAIN relays : expirations[c] + relays[c].idle <= RelayLifetime
  /\ relaysEmpty <=> DOMAIN relays = {}

(* While a cookie has both a relay and a session, the relay joins that     *)
(* session's two peers, no direct success has been recorded, and the relay *)
(* is counted as the outcome exactly when both peers have reported it: the *)
(* two outcomes of the race at the fallback boundary exclude each other.   *)
OutcomeExclusive ==
  \A c \in DOMAIN relays \cap DOMAIN sessions :
    /\ sessions[c].success = {}
    /\ sessions[c].peers = relays[c].addr
    /\ sessions[c].relayed <=> relays[c].reports = Index

(* A pending fallback belongs to the pairing that started it: its session  *)
(* is still there, paired and without a relay, and has not been idle       *)
(* longer than the fallback has been pending.  (load_config does not relate*)
(* the two timeouts; this needs FallbackDelay <= SessionTTL.)              *)
FallbackOwned ==
  \A c \in DOMAIN fallbacks :
    /\ c \in DOMAIN sessions
    /\ Paired(sessions[c])
    /\ c \notin DOMAIN relays
    /\ sessions[c].idle + fallbacks[c] <= FallbackDelay

(* ROADMAP: the first accepted endpoint keeps its index.  Until a session  *)
(* expires nothing changes or removes a peer of it, and the endpoints of a *)
(* relay never change.                                                     *)
FirstClaimWins ==
  [][/\ \A c \in DOMAIN sessions \cap DOMAIN sessions' :
          sessions[c].idle <= SessionTTL =>
            \A i \in Index : sessions[c].peers[i] # NoPeer =>
                             sessions'[c].peers[i] = sessions[c].peers[i]
     /\ \A c \in DOMAIN relays \cap DOMAIN relays' :
          relays'[c].addr = relays[c].addr]_vars

(* ROADMAP: a returned ping commits the match to the relay.  A relay with  *)
(* a ready endpoint closes only because it is idle, because the server     *)
(* stops, or because a new relay takes over one of its endpoints; until    *)
(* then no endpoint becomes unready.                                       *)
CommittedRelay ==
  [][\A c \in DOMAIN relays : relays[c].ready # {} =>
       \/ c \in DOMAIN relays' /\ relays[c].ready \subseteq relays'[c].ready
       \/ relays[c].idle >= RelayLifetime
       \/ stage' # stage
       \/ \E d \in DOMAIN relays' \ DOMAIN relays :
            Range(relays'[d].addr) \cap Range(relays[c].addr) # {}]_vars

(* README, graceful drain: once a drain is requested no relay is allocated *)
(* and no cookie enters the session table, whatever fallback was pending   *)
(* or is scheduled by a late INIT, and whatever the sweeps have taken out  *)
(* of the tables before that INIT.                                         *)
DrainAllocatesNothing ==
  [][draining => /\ DOMAIN relays' \subseteq DOMAIN relays
                 /\ DOMAIN sessions' \subseteq DOMAIN sessions]_vars

(* The relay plane implements the abstract switch.                         *)
RelaySwitch == INSTANCE RelaySwitch WITH
  pairs <- {Range(relays[c].addr) : c \in DOMAIN relays},
  proven <- UNION {{relays[c].addr[i] : i \in relays[c].ready} :
                   c \in DOMAIN relays}

ImplementsSwitch == RelaySwitch!Spec

(* A drain ends: the socket closes and no relay is left, however much      *)
(* traffic keeps the relays from becoming idle.                            *)
DrainTerminates == draining ~> (stage = "lost" /\ DOMAIN relays = {})

(* Once the socket is closed there is no relay, no owner of an endpoint    *)
(* and no timer left that could act on one (connection_lost), and there    *)
(* never will be again.                                                    *)
NothingLeft ==
  stage = "lost" => /\ DOMAIN relays = {} /\ DOMAIN binding = {}
                    /\ DOMAIN fallbacks = {} /\ DOMAIN expirations = {}

(* A relay whose endpoints stay silent is closed.                          *)
QuietRelayCloses ==
  \A c \in Cookie : []<>(c \in DOMAIN relays => relays[c].idle = 0)

(* A fallback is decided: relay, direct success, refusal for lack of       *)
(* capacity, or the end of the service.                                    *)
Decided(c) ==
  \/ c \in DOMAIN relays
  \/ c \in DOMAIN sessions /\ sessions[c].success # {}
  \/ Cardinality(DOMAIN relays) = MaxRelays
  \/ draining \/ stage # "serving"

(* No pending fallback is dropped without a decision: not by a sweep, by   *)
(* the relay of another match, nor by a timer that finds its session       *)
(* changed.  (This too needs FallbackDelay <= SessionTTL.)                 *)
FallbackNotLost ==
  [][\A c \in DOMAIN fallbacks \ DOMAIN fallbacks' : Decided(c)']_vars

(* A pending fallback is decided.                                          *)
FallbackDecided == \A c \in Cookie : c \in DOMAIN fallbacks ~> Decided(c)
=============================================================================
