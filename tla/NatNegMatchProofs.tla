------------------------- MODULE NatNegMatchProofs -------------------------
(* What becomes of a match of NatNeg: the limits of its tables, first      *)
(* claim, the fallback and the exclusive outcome, for every value of the   *)
(* constants.                                                              *)
EXTENDS NatNegRelayProofs, FiniteSetTheorems

(* Every step that is not named in MatchSteps only lets sessions, relays   *)
(* and fallbacks go; those that stay are younger at most.                  *)
SessionsStay ==
  /\ DOMAIN sessions' \subseteq DOMAIN sessions /\ Kept \subseteq DOMAIN sessions'
  /\ \A d \in DOMAIN sessions' :
       /\ sessions'[d].peers = sessions[d].peers
       /\ sessions'[d].success = sessions[d].success
       /\ sessions'[d].relayed = sessions[d].relayed
       /\ sessions'[d].idle \in {sessions[d].idle, 0}

RelaysStay ==
  /\ DOMAIN relays' \subseteq DOMAIN relays
  /\ \A d \in DOMAIN relays' : /\ relays'[d].addr = relays[d].addr
                               /\ relays'[d].reports = relays[d].reports

FallbacksStay ==
  /\ DOMAIN fallbacks' \subseteq DOMAIN fallbacks
  /\ \A d \in DOMAIN fallbacks' : fallbacks'[d] = fallbacks[d]

Quiet == SessionsStay /\ RelaysStay /\ FallbacksStay

LEMMA SameSessions == UNCHANGED sessions => SessionsStay
  BY DEF SessionsStay, Kept

LEMMA TouchStays ==
  \A c : Types /\ sessions' = Touched(c) => SessionsStay
<1> SUFFICES ASSUME NEW c, Types, sessions' = Touched(c) PROVE SessionsStay
  OBVIOUS
<1>1. CASE c \in DOMAIN sessions
  <2>1. sessions' = [sessions EXCEPT ![c].idle = 0] /\ sessions[c] \in Session
    BY <1>1 DEF Touched, Types
  <2>2. /\ DOMAIN sessions' = DOMAIN sessions
        /\ \A d \in DOMAIN sessions : d # c => sessions'[d] = sessions[d]
        /\ sessions'[c] = [sessions[c] EXCEPT !.idle = 0]
    BY <1>1, <2>1
  <2>3. /\ sessions'[c].peers = sessions[c].peers
        /\ sessions'[c].success = sessions[c].success
        /\ sessions'[c].relayed = sessions[c].relayed
        /\ sessions'[c].idle = 0
    BY <2>1, <2>2 DEF Session
  <2>4. QED
    BY <2>2, <2>3 DEF SessionsStay, Kept
<1>2. CASE c \notin DOMAIN sessions
  BY <1>2, SameSessions DEF Touched
<1>3. QED
  BY <1>1, <1>2

LEMMA ExpiryStays == sessions' = Restrict(sessions, Kept) => SessionsStay
  BY RestrictMaps DEF SessionsStay, Kept

LEMMA FinishStays ==
  \A S, T : FinishAnd(S, Drop(relays, S), Drop(fallbacks, T)) => RelaysStay /\ FallbacksStay
  BY DropMaps DEF FinishAnd, RelaysStay, FallbacksStay

LEMMA UpdateStays ==
  \A S, c, r :
    /\ c \in DOMAIN relays \ S /\ FinishAndUpdate(S, c, r)
    /\ r.addr = relays[c].addr /\ r.reports = relays[c].reports
    => RelaysStay /\ FallbacksStay
<1> SUFFICES ASSUME NEW S, NEW c, NEW r,
                    c \in DOMAIN relays \ S, FinishAndUpdate(S, c, r),
                    r.addr = relays[c].addr, r.reports = relays[c].reports
             PROVE  RelaysStay /\ FallbacksStay
  OBVIOUS
<1> DEFINE left == Drop(relays, S)
<1>1. /\ \A x : x \in DOMAIN left <=> x \in DOMAIN relays /\ x \notin S
      /\ \A x \in DOMAIN left : left[x] = relays[x]
  BY DropMaps
<1>2. relays' = Put(left, c, r) /\ fallbacks' = Drop(fallbacks, S)
  BY DEF FinishAndUpdate, FinishAnd
<1> HIDE DEF left
<1>3. /\ \A x : x \in DOMAIN relays' <=> x \in DOMAIN left
      /\ relays'[c] = r
      /\ \A x \in DOMAIN left : x # c => relays'[x] = left[x]
  BY <1>1, <1>2, PutMaps
<1>4. RelaysStay
  BY <1>1, <1>3 DEF RelaysStay
<1>5. FallbacksStay
  BY <1>2, DropMaps DEF FallbacksStay
<1>6. QED
  BY <1>4, <1>5

LEMMA OnlySweepStays == OnlySweep => RelaysStay /\ FallbacksStay
  BY FinishStays DEF OnlySweep, FinishRelays

(* The three datagrams that are not quiet.                                 *)
Claims == \E a \in Addr, c \in Cookie, i \in Index : InitClaimed(a, c, i)
Relays == \E a \in Addr, c \in Cookie, i \in Index : ReportRelayed(a, c, i)
Directs == \E a \in Addr, c \in Cookie, i \in Index : ReportDirect(a, c, i)

LEMMA DatagramSteps == Types /\ Datagram => Quiet \/ Claims \/ Relays \/ Directs
<1> SUFFICES ASSUME Types, Datagram PROVE Quiet \/ Claims \/ Relays \/ Directs
  OBVIOUS
<1>1. CASE Stateless
  BY <1>1, OnlySweepStays, SameSessions DEF Stateless, Quiet
<1>2. ASSUME NEW a \in Addr, NEW c \in Cookie, NEW i \in Index,
             InitDraining(a, c, i) \/ ReportIgnored(a, c, i)
      PROVE  Quiet
  BY <1>2, OnlySweepStays, SameSessions DEF InitDraining, ReportIgnored, Quiet
<1>3. ASSUME NEW a \in Addr, NEW c \in Cookie, NEW i \in Index, InitRefused(a, c, i)
      PROVE  Quiet
  BY <1>3, OnlySweepStays, ExpiryStays DEF InitRefused, Quiet
<1>4. ASSUME NEW a \in Addr, NEW c \in Cookie, NEW i \in Index, ReportFailure(a, c, i)
      PROVE  Quiet
  BY <1>4, OnlySweepStays, TouchStays DEF ReportFailure, Quiet
<1>5. ASSUME NEW a \in Addr, NEW c \in Cookie, NEW i \in Index, InitRelayed(a, c, i)
      PROVE  Quiet
  <2> DEFINE r == [relays[c] EXCEPT !.idle = 0]
  <2>1. c \in DOMAIN relays \ Swept /\ relays[c] \in Relay
    BY <1>5 DEF InitRelayed, Types
  <2>2. r.addr = relays[c].addr /\ r.reports = relays[c].reports
    BY <2>1 DEF Relay
  <2>3. FinishAndUpdate(Swept, c, r) \/ FinishRelays(Swept)
    BY <1>5 DEF InitRelayed
  <2>4. UNCHANGED sessions
    BY <1>5 DEF InitRelayed
  <2> HIDE DEF r
  <2>5. QED
    BY <2>1, <2>2, <2>3, <2>4, FinishStays, UpdateStays, SameSessions
       DEF FinishRelays, Quiet
<1>6. ASSUME NEW a \in Addr, NEW c \in Cookie, PingReturned(a, c) PROVE Quiet
  <2>1. PICK i \in Index :
          FinishAndUpdate(Swept, c, [relays[c] EXCEPT !.ready = @ \cup {i}, !.idle = 0])
    BY <1>6 DEF PingReturned
  <2> DEFINE r == [relays[c] EXCEPT !.ready = @ \cup {i}, !.idle = 0]
  <2>2. c \in DOMAIN relays \ Swept /\ relays[c] \in Relay
    BY <1>6 DEF PingReturned, Types
  <2>3. r.addr = relays[c].addr /\ r.reports = relays[c].reports
    BY <2>2 DEF Relay
  <2>4. FinishAndUpdate(Swept, c, r) /\ sessions' = Touched(c)
    BY <1>6, <2>1 DEF PingReturned
  <2> HIDE DEF r
  <2>5. QED
    BY <2>2, <2>3, <2>4, UpdateStays, TouchStays DEF Quiet
<1>7. ASSUME NEW a \in Addr, NEW fits \in BOOLEAN, ForwardRelay(a, fits) PROVE Quiet
  <2> DEFINE c == binding[a][1]
             r == [relays[c] EXCEPT !.idle = 0]
  <2>1. c \in DOMAIN relays \ Swept /\ relays[c] \in Relay
    BY <1>7 DEF ForwardRelay, Types
  <2>2. r.addr = relays[c].addr /\ r.reports = relays[c].reports
    BY <2>1 DEF Relay
  <2>3. FinishAndUpdate(Swept, c, r) /\ sessions' = Touched(c)
    BY <1>7 DEF ForwardRelay
  <2> HIDE DEF r, c
  <2>4. QED
    BY <2>1, <2>2, <2>3, UpdateStays, TouchStays DEF Quiet
<1>8. QED
  BY <1>1, <1>2, <1>3, <1>4, <1>5, <1>6, <1>7 DEF Datagram, Claims, Relays, Directs

LEMMA MatchSteps ==
  Types /\ RelayDeadline /\ [Next]_vars =>
    \/ Quiet \/ Claims \/ Relays \/ Directs
    \/ \E c \in Cookie : ActivateRelay(c)
    \/ Tick
<1> DEFINE Goal == \/ Quiet \/ Claims \/ Relays \/ Directs
                   \/ \E c \in Cookie : ActivateRelay(c)
                   \/ Tick
<1> SUFFICES ASSUME Types, RelayDeadline, [Next]_vars PROVE Goal
  OBVIOUS
<1>r. UNCHANGED relays => RelaysStay
  BY DEF RelaysStay
<1>f. UNCHANGED fallbacks => FallbacksStay
  BY DEF FallbacksStay
<1>1. CASE Datagram
  BY <1>1, DatagramSteps
<1>2. ASSUME NEW c \in Cookie, FallbackVoid(c) PROVE Quiet
  <2>1. FallbacksStay
    BY <1>2, DropMaps DEF FallbackVoid, FallbacksStay
  <2>2. QED
    BY <1>2, <1>r, <2>1, SameSessions DEF FallbackVoid, Quiet
<1>3. ASSUME NEW c \in Cookie, FallbackRefused(c) PROVE Quiet
  BY <1>3, FinishStays, SameSessions DEF FallbackRefused, Quiet
<1>4. ASSUME NEW c \in Cookie, RelayIdleCheck(c) PROVE Quiet
  BY <1>4, <1>r, <1>f, FinishStays, SameSessions DEF RelayIdleCheck, FinishRelays, Quiet
<1>5. CASE ExpireSessions
  BY <1>5, <1>r, <1>f, ExpiryStays DEF ExpireSessions, relayVars, Quiet
<1>6. CASE RequestDrain \/ ServiceFailed \/ RelaysDrained \/ UNCHANGED vars
  BY <1>6, <1>r, <1>f, SameSessions
     DEF RequestDrain, ServiceFailed, RelaysDrained, vars, relayVars, Quiet
<1>7. CASE BeginDrain
  <2>1. FallbacksStay
    BY <1>7 DEF BeginDrain, FallbacksStay
  <2>2. QED
    BY <1>7, <1>r, <2>1, SameSessions DEF BeginDrain, Quiet
<1>8. CASE DrainTimedOut
  BY <1>8, FinishStays, SameSessions DEF DrainTimedOut, FinishRelays, Quiet
<1>9. CASE ConnectionLost
  <2>1. FallbacksStay
    BY <1>9 DEF ConnectionLost, FinishAnd, FallbacksStay
  <2>2. RelaysStay
    BY <1>9, DropMaps DEF ConnectionLost, FinishAnd, RelaysStay
  <2>3. QED
    BY <1>9, <2>1, <2>2, SameSessions DEF ConnectionLost, Quiet
<1>10. QED
  BY <1>1, <1>2, <1>3, <1>4, <1>5, <1>6, <1>7, <1>8, <1>9
     DEF Next, Timer, Shutdown

(* The named steps, in terms of their tables.                              *)
ClaimEffect(a, c, i) ==
  /\ Admitted(c) /\ c \notin DOMAIN relays' /\ CanClaim(c, i, a)
  /\ RelaysStay
  /\ \A d : d \in DOMAIN sessions' <=> d \in Kept \/ d = c
  /\ \A d \in Kept : d # c => sessions'[d] = sessions[d]
  /\ sessions'[c] = Claimed(c, i, a)
  /\ \A d \in DOMAIN fallbacks' :
       \/ d \in DOMAIN fallbacks /\ fallbacks'[d] = fallbacks[d]
       \/ /\ d = c /\ fallbacks'[d] = FallbackDelay /\ RelayPolicy = "auto"
          /\ Paired(sessions'[c]) /\ ~ (c \in Kept /\ Paired(sessions[c]))

LEMMA ClaimStep ==
  ASSUME Types, NEW a \in Addr, NEW c \in Cookie, NEW i \in Index, InitClaimed(a, c, i)
  PROVE  ClaimEffect(a, c, i)
<1> DEFINE session == Claimed(c, i, a)
           left == Drop(fallbacks, Swept)
           kept == Restrict(sessions, Kept)
<1>1. /\ sessions' = Put(kept, c, session)
      /\ relays' = Drop(relays, Swept)
      /\ fallbacks' = IF SchedulesFallback(c, session)
                      THEN Put(left, c, FallbackDelay) ELSE left
      /\ Admitted(c) /\ CanClaim(c, i, a) /\ c \notin DOMAIN relays \ Swept
  BY DEF InitClaimed, FinishAnd
<1>2. /\ \A d : d \in DOMAIN kept <=> d \in Kept
      /\ \A d \in Kept : kept[d] = sessions[d]
  BY RestrictMaps
<1>3. /\ \A d \in DOMAIN left : d \in DOMAIN fallbacks /\ left[d] = fallbacks[d]
  BY DropMaps
<1>4. RelaysStay /\ c \notin DOMAIN relays'
  BY <1>1, DropMaps DEF RelaysStay
<1>5. SchedulesFallback(c, session) =>
        /\ RelayPolicy = "auto"
        /\ Paired(session) /\ ~ (c \in Kept /\ Paired(sessions[c]))
  BY DEF SchedulesFallback
<1> HIDE DEF left, kept, session
<1>6. /\ \A d : d \in DOMAIN sessions' <=> d \in Kept \/ d = c
      /\ \A d \in Kept : d # c => sessions'[d] = sessions[d]
      /\ sessions'[c] = session
  BY <1>1, <1>2, PutMaps
<1>7. \A d \in DOMAIN fallbacks' :
        \/ d \in DOMAIN fallbacks /\ fallbacks'[d] = fallbacks[d]
        \/ /\ d = c /\ fallbacks'[d] = FallbackDelay /\ RelayPolicy = "auto"
           /\ Paired(session) /\ ~ (c \in Kept /\ Paired(sessions[c]))
  <2>1. CASE SchedulesFallback(c, session)
    BY <1>1, <1>3, <1>5, <2>1, PutMaps
  <2>2. CASE ~ SchedulesFallback(c, session)
    BY <1>1, <1>3, <2>2
  <2>3. QED  BY <2>1, <2>2
<1>8. QED
  BY <1>1, <1>4, <1>6, <1>7 DEF ClaimEffect, session

(* A claimed session.                                                      *)
ClaimKeeps(a, c, i) ==
  /\ Claimed(c, i, a).idle = 0
  /\ Claimed(c, i, a).peers[i] = a
  /\ \A j \in Index : j # i => Claimed(c, i, a).peers[j] =
       IF c \in Kept THEN sessions[c].peers[j] ELSE NoPeer
  /\ c \in Kept =>
       /\ Claimed(c, i, a).relayed = sessions[c].relayed
       /\ Claimed(c, i, a).success = sessions[c].success
       /\ \A j \in Index : sessions[c].peers[j] # NoPeer =>
            Claimed(c, i, a).peers[j] = sessions[c].peers[j]
  /\ c \notin Kept => Claimed(c, i, a).relayed = FALSE

LEMMA ClaimedSession ==
  \A a \in Addr, c \in Cookie, i \in Index :
    Types /\ CanClaim(c, i, a) => ClaimKeeps(a, c, i)
<1> SUFFICES ASSUME NEW a \in Addr, NEW c \in Cookie, NEW i \in Index,
                    Types, CanClaim(c, i, a)
             PROVE  ClaimKeeps(a, c, i)
  OBVIOUS
<1> DEFINE session == IF c \in Kept THEN sessions[c] ELSE NewSession
<1>1. session \in Session
  BY NatNegConstants DEF Types, Kept, Session, NewSession
<1>2. Claimed(c, i, a) = [session EXCEPT !.peers[i] = a, !.idle = 0]
  BY DEF Claimed
<1>n. c \notin Kept =>
        session.relayed = FALSE /\ \A j \in Index : session.peers[j] = NoPeer
  BY DEF NewSession
<1>k. c \in Kept => session = sessions[c]
  OBVIOUS
<1> HIDE DEF session
<1>3. /\ Claimed(c, i, a).idle = 0
      /\ Claimed(c, i, a).relayed = session.relayed
      /\ Claimed(c, i, a).success = session.success
      /\ Claimed(c, i, a).peers = [session.peers EXCEPT ![i] = a]
  BY <1>1, <1>2 DEF Session
<1>4. /\ Claimed(c, i, a).peers[i] = a
      /\ \A j \in Index : j # i => Claimed(c, i, a).peers[j] = session.peers[j]
  BY <1>1, <1>3 DEF Session
<1>5. c \in Kept => sessions[c].peers[i] = a \/ sessions[c].peers[i] = NoPeer
  BY DEF CanClaim
<1>6. QED
  BY <1>3, <1>4, <1>5, <1>n, <1>k DEF ClaimKeeps

(* A success report that counts for the relay.                             *)
RelayEffect(c, i) ==
  /\ c \in DOMAIN sessions /\ c \in DOMAIN relays /\ c \in DOMAIN relays'
  /\ DOMAIN sessions' = DOMAIN sessions /\ DOMAIN relays' \subseteq DOMAIN relays
  /\ \A d \in DOMAIN sessions : d # c => sessions'[d] = sessions[d]
  /\ \A d \in DOMAIN relays' : d # c => relays'[d] = relays[d]
  /\ relays'[c].addr = relays[c].addr
  /\ relays'[c].reports = relays[c].reports \cup {i}
  /\ sessions'[c].peers = sessions[c].peers
  /\ sessions'[c].success = sessions[c].success
  /\ sessions'[c].relayed = (sessions[c].relayed \/ relays'[c].reports = Index)
  /\ sessions'[c].idle = 0
  /\ FallbacksStay

LEMMA RelayStep ==
  ASSUME Types, NEW a \in Addr, NEW c \in Cookie, NEW i \in Index, ReportRelayed(a, c, i)
  PROVE  RelayEffect(c, i)
<1> DEFINE reports == relays[c].reports \cup {i}
           r == [relays[c] EXCEPT !.reports = reports]
           left == Drop(relays, Swept)
<1>1. /\ c \in DOMAIN sessions /\ c \in DOMAIN relays /\ c \notin Swept
      /\ sessions[c] \in Session /\ relays[c] \in Relay
  BY DEF ReportRelayed, OwnsIndex, Committed, Types
<1>2. /\ relays' = Put(left, c, r) /\ fallbacks' = Drop(fallbacks, Swept)
      /\ sessions' = [Touched(c) EXCEPT ![c].relayed = @ \/ reports = Index]
  BY DEF ReportRelayed, FinishAndUpdate, FinishAnd
<1>3. r.addr = relays[c].addr /\ r.reports = reports
  BY <1>1 DEF Relay
<1>4. /\ \A d : d \in DOMAIN left <=> d \in DOMAIN relays /\ d \notin Swept
      /\ \A d \in DOMAIN left : left[d] = relays[d]
  BY DropMaps
<1>5. FallbacksStay
  BY <1>2, DropMaps DEF FallbacksStay
<1>6. Touched(c) = [sessions EXCEPT ![c].idle = 0]
  BY <1>1 DEF Touched
<1> HIDE DEF r, left, reports
<1>7. /\ DOMAIN sessions' = DOMAIN sessions
      /\ \A d \in DOMAIN sessions : d # c => sessions'[d] = sessions[d]
      /\ sessions'[c] = [[sessions[c] EXCEPT !.idle = 0]
                           EXCEPT !.relayed = @ \/ reports = Index]
  BY <1>1, <1>2, <1>6
<1>8. /\ sessions'[c].peers = sessions[c].peers
      /\ sessions'[c].success = sessions[c].success
      /\ sessions'[c].relayed = (sessions[c].relayed \/ reports = Index)
      /\ sessions'[c].idle = 0
  BY <1>1, <1>7 DEF Session
<1>9. /\ \A d : d \in DOMAIN relays' <=> d \in DOMAIN left
      /\ relays'[c] = r /\ \A d \in DOMAIN left : d # c => relays'[d] = left[d]
  BY <1>1, <1>2, <1>4, PutMaps
<1>10. QED
  BY <1>1, <1>3, <1>4, <1>5, <1>7, <1>8, <1>9 DEF RelayEffect, reports

(* A success report that counts for the direct path.                       *)
DirectEffect(c) ==
  /\ c \in DOMAIN sessions /\ c \notin DOMAIN relays'
  /\ DOMAIN sessions' = DOMAIN sessions
  /\ \A d \in DOMAIN sessions : d # c => sessions'[d] = sessions[d]
  /\ sessions'[c].peers = sessions[c].peers
  /\ sessions'[c].relayed = sessions[c].relayed
  /\ sessions'[c].idle = 0
  /\ RelaysStay /\ FallbacksStay

LEMMA DirectStep ==
  ASSUME Types, NEW a \in Addr, NEW c \in Cookie, NEW i \in Index, ReportDirect(a, c, i)
  PROVE  DirectEffect(c)
<1> DEFINE closed == Swept \cup (DOMAIN relays \cap {c})
<1>1. /\ c \in DOMAIN sessions /\ sessions[c] \in Session
      /\ sessions' = [Touched(c) EXCEPT ![c].success = @ \cup {i}]
  BY DEF ReportDirect, OwnsIndex, Types
<1>2. RelaysStay /\ FallbacksStay
  BY FinishStays DEF ReportDirect
<1>3. c \notin DOMAIN relays'
  BY DropMaps DEF ReportDirect, FinishAnd
<1>4. Touched(c) = [sessions EXCEPT ![c].idle = 0]
  BY <1>1 DEF Touched
<1>5. /\ DOMAIN sessions' = DOMAIN sessions
      /\ \A d \in DOMAIN sessions : d # c => sessions'[d] = sessions[d]
      /\ sessions'[c] = [[sessions[c] EXCEPT !.idle = 0]
                           EXCEPT !.success = @ \cup {i}]
  BY <1>1, <1>4
<1>6. /\ sessions'[c].peers = sessions[c].peers
      /\ sessions'[c].relayed = sessions[c].relayed
      /\ sessions'[c].idle = 0
  BY <1>1, <1>5 DEF Session
<1>7. QED
  BY <1>1, <1>2, <1>3, <1>5, <1>6 DEF DirectEffect

(* A fallback that opens a relay.                                          *)
ActivateEffect(c) ==
  /\ WantsRelay(c) /\ UNCHANGED sessions
  /\ \E closed \in SUBSET DOMAIN relays :
       /\ IdleRelays \subseteq closed
       /\ \A d : d \in DOMAIN relays' <=> d = c \/ (d \in DOMAIN relays /\ d \notin closed)
  /\ relays'[c].addr = sessions[c].peers /\ relays'[c].reports = {}
  /\ \A d \in DOMAIN relays' : d # c => relays'[d] = relays[d]
  /\ c \in DOMAIN fallbacks /\ c \notin DOMAIN fallbacks' /\ FallbacksStay

LEMMA ActivateStep ==
  ASSUME NEW c \in Cookie, ActivateRelay(c) PROVE ActivateEffect(c)
<1> DEFINE peers == sessions[c].peers
           closed == IdleRelays \cup (Replaced(peers) \cap DOMAIN relays)
<1>1. /\ relays' = Put(Drop(relays, closed), c, NewRelay(peers))
      /\ fallbacks' = Drop(fallbacks, closed \cup {c})
      /\ WantsRelay(c) /\ UNCHANGED sessions /\ c \in DOMAIN fallbacks
  BY DEF ActivateRelay
<1>2. NewRelay(peers).addr = peers /\ NewRelay(peers).reports = {}
  BY DEF NewRelay
<1>3. IdleRelays \subseteq closed /\ closed \in SUBSET DOMAIN relays
  BY DEF IdleRelays
<1>4. c \notin DOMAIN fallbacks' /\ FallbacksStay
  BY <1>1, DropMaps DEF FallbacksStay
<1> HIDE DEF closed
<1>5. /\ \A d : d \in DOMAIN relays' <=> d = c \/ (d \in DOMAIN relays /\ d \notin closed)
      /\ relays'[c] = NewRelay(peers)
      /\ \A d \in DOMAIN relays' : d # c => relays'[d] = relays[d]
  BY <1>1, DropMaps, PutMaps
<1>6. QED
  BY <1>1, <1>2, <1>3, <1>4, <1>5 DEF ActivateEffect

(* Time leaves everything but ages and timers alone.                       *)
TickEffect ==
  /\ DOMAIN sessions' = DOMAIN sessions /\ DOMAIN relays' = DOMAIN relays
  /\ \A d \in DOMAIN sessions :
       /\ sessions'[d].peers = sessions[d].peers
       /\ sessions'[d].success = sessions[d].success
       /\ sessions'[d].relayed = sessions[d].relayed
       /\ sessions'[d].idle \in {sessions[d].idle, sessions[d].idle + 1}
  /\ \A d \in DOMAIN relays : /\ relays'[d].addr = relays[d].addr
                              /\ relays'[d].reports = relays[d].reports
  /\ DOMAIN fallbacks' = DOMAIN fallbacks
  /\ \A d \in DOMAIN fallbacks : fallbacks'[d] = fallbacks[d] - 1

LEMMA TickStep == ASSUME Types, Tick PROVE TickEffect
<1>1. /\ sessions' = [c \in DOMAIN sessions |->
                       [sessions[c] EXCEPT !.idle = Older(@, SessionTTL + 1)]]
      /\ relays' = [c \in DOMAIN relays |->
                     [relays[c] EXCEPT !.idle = Older(@, RelayLifetime)]]
      /\ fallbacks' = [c \in DOMAIN fallbacks |-> fallbacks[c] - 1]
  BY DEF Tick, Elapse
<1>2. ASSUME NEW d \in DOMAIN sessions
      PROVE  /\ sessions'[d].peers = sessions[d].peers
             /\ sessions'[d].success = sessions[d].success
             /\ sessions'[d].relayed = sessions[d].relayed
             /\ sessions'[d].idle \in {sessions[d].idle, sessions[d].idle + 1}
  <2>1. sessions[d] \in Session
    BY DEF Types
  <2>2. sessions'[d] = [sessions[d] EXCEPT !.idle = Older(@, SessionTTL + 1)]
    BY <1>1
  <2>3. /\ sessions'[d].peers = sessions[d].peers
        /\ sessions'[d].success = sessions[d].success
        /\ sessions'[d].relayed = sessions[d].relayed
        /\ sessions'[d].idle = Older(sessions[d].idle, SessionTTL + 1)
        /\ sessions[d].idle \in Nat
    BY <2>1, <2>2, NatNegConstants DEF Session
  <2>4. QED  BY <2>3 DEF Older
<1>3. \A d \in DOMAIN relays : /\ relays'[d].addr = relays[d].addr
                               /\ relays'[d].reports = relays[d].reports
  BY <1>1 DEF Types, Relay
<1>4. QED
  BY <1>1, <1>2, <1>3 DEF TickEffect

(* The steps once more, by their effects.                                  *)
LEMMA MatchEffects ==
  Types /\ RelayDeadline /\ [Next]_vars =>
    \/ Quiet \/ TickEffect
    \/ \E a \in Addr, c \in Cookie, i \in Index : ClaimEffect(a, c, i)
    \/ \E c \in Cookie, i \in Index : RelayEffect(c, i)
    \/ \E c \in Cookie : DirectEffect(c) \/ (ActivateRelay(c) /\ ActivateEffect(c))
  BY MatchSteps, ClaimStep, RelayStep, DirectStep, ActivateStep, TickStep
     DEF Claims, Relays, Directs
-----------------------------------------------------------------------------
(* The limits.  The tables are finite because they start empty.            *)
Limited == /\ IsFiniteSet(DOMAIN relays) /\ IsFiniteSet(DOMAIN sessions)
           /\ Capacity

(* A table that lost at least S before it gained c.                        *)
LEMMA OneMore ==
  ASSUME NEW T, IsFiniteSet(T), NEW S, NEW c, NEW U,
         U \subseteq (T \ S) \cup {c},
         NEW n \in Nat, Cardinality(T \ S) < n
  PROVE  IsFiniteSet(U) /\ Cardinality(U) <= n
<1>1. IsFiniteSet(T \ S)
  BY FS_Subset
<1>2. /\ IsFiniteSet((T \ S) \cup {c})
      /\ Cardinality((T \ S) \cup {c}) <= Cardinality(T \ S) + 1
  BY <1>1, FS_AddElement, FS_CardinalityType
<1>3. IsFiniteSet(U) /\ Cardinality(U) <= Cardinality((T \ S) \cup {c})
  BY <1>2, FS_Subset
<1>4. Cardinality(T \ S) \in Nat /\ Cardinality((T \ S) \cup {c}) \in Nat
      /\ Cardinality(U) \in Nat
  BY <1>1, <1>2, <1>3, FS_CardinalityType
<1>5. QED
  BY <1>2, <1>3, <1>4

LEMMA NoMore ==
  ASSUME NEW T, IsFiniteSet(T), NEW U, U \subseteq T,
         NEW n \in Nat, Cardinality(T) <= n
  PROVE  IsFiniteSet(U) /\ Cardinality(U) <= n
<1>1. IsFiniteSet(U) /\ Cardinality(U) <= Cardinality(T)
  BY FS_Subset
<1>2. Cardinality(T) \in Nat /\ Cardinality(U) \in Nat
  BY <1>1, FS_CardinalityType
<1>3. QED  BY <1>1, <1>2

LEMMA LimitedStep ==
  Types /\ RelayDeadline /\ Limited /\ [Next]_vars => Limited'
<1> SUFFICES ASSUME Types, RelayDeadline, Limited, [Next]_vars PROVE Limited'
  OBVIOUS
<1>n. MaxRelays \in Nat /\ MaxSessions \in Nat
  BY NatNegConstants
<1>t. /\ IsFiniteSet(DOMAIN relays) /\ Cardinality(DOMAIN relays) <= MaxRelays
      /\ IsFiniteSet(DOMAIN sessions) /\ Cardinality(DOMAIN sessions) <= MaxSessions
  BY DEF Limited, Capacity
<1>r. DOMAIN relays' \subseteq DOMAIN relays
        => IsFiniteSet(DOMAIN relays') /\ Cardinality(DOMAIN relays') <= MaxRelays
  BY <1>n, <1>t, NoMore
<1>s. DOMAIN sessions' \subseteq DOMAIN sessions
        => IsFiniteSet(DOMAIN sessions') /\ Cardinality(DOMAIN sessions') <= MaxSessions
  BY <1>n, <1>t, NoMore
<1>1. ASSUME NEW a \in Addr, NEW c \in Cookie, NEW i \in Index, ClaimEffect(a, c, i)
      PROVE  IsFiniteSet(DOMAIN sessions') /\ Cardinality(DOMAIN sessions') <= MaxSessions
  <2>1. CASE c \in Kept
    BY <1>1, <1>s, <2>1 DEF ClaimEffect, Kept
  <2>2. CASE c \notin Kept
    <3> DEFINE expired == DOMAIN sessions \ Kept
    <3>1. DOMAIN sessions \ expired = Kept
      BY DEF Kept
    <3>2. Cardinality(DOMAIN sessions \ expired) < MaxSessions
      BY <1>1, <2>2, <3>1 DEF ClaimEffect, CanClaim
    <3>3. DOMAIN sessions' \subseteq (DOMAIN sessions \ expired) \cup {c}
      BY <1>1, <3>1 DEF ClaimEffect
    <3> HIDE DEF expired
    <3>4. QED
      BY <1>n, <1>t, <3>2, <3>3, OneMore
  <2>3. QED  BY <2>1, <2>2
<1>2. ASSUME NEW c \in Cookie, ActivateRelay(c), ActivateEffect(c)
      PROVE  IsFiniteSet(DOMAIN relays') /\ Cardinality(DOMAIN relays') <= MaxRelays
  <2>1. Cardinality(DOMAIN relays \ IdleRelays) < MaxRelays
    BY <1>2 DEF ActivateRelay, CanRelay
  <2>2. DOMAIN relays' \subseteq (DOMAIN relays \ IdleRelays) \cup {c}
    BY <1>2 DEF ActivateEffect
  <2>3. QED
    BY <1>n, <1>t, <2>1, <2>2, OneMore
<1>3. IsFiniteSet(DOMAIN relays') /\ Cardinality(DOMAIN relays') <= MaxRelays
  BY <1>r, <1>2, MatchEffects
     DEF Quiet, RelaysStay, TickEffect, ClaimEffect, RelayEffect, DirectEffect
<1>4. IsFiniteSet(DOMAIN sessions') /\ Cardinality(DOMAIN sessions') <= MaxSessions
  BY <1>s, <1>1, MatchEffects
     DEF Quiet, SessionsStay, TickEffect, ActivateEffect, RelayEffect, DirectEffect
<1>5. QED
  BY <1>3, <1>4 DEF Limited, Capacity

LEMMA LimitedAlways == Spec => []Limited
<1>1. Init => Limited
  <2> SUFFICES ASSUME Init PROVE Limited
    OBVIOUS
  <2>1. DOMAIN relays = {} /\ DOMAIN sessions = {}
    BY DEF Init
  <2>2. QED
    BY <2>1, FS_EmptySet, NatNegConstants DEF Limited, Capacity
<1>2. QED
  BY <1>1, TypesCorrect, DeadlineCorrect, LimitedStep, PTL DEF Spec

(* Every variable of NatNeg has its type, and neither the session table    *)
(* nor the relay table ever exceeds its limit.                             *)
THEOREM TypeCorrect == Spec => []TypeOK
<1>1. Limited => Capacity
  BY DEF Limited
<1>2. QED
  BY <1>1, TypesCorrect, LimitedAlways, PTL DEF TypeOK

(* A claimed index keeps its endpoint until the session expires, and a     *)
(* relay keeps its endpoints: no later INIT moves a match.                 *)
THEOREM FirstClaimCorrect == Spec => FirstClaimWins
<1> DEFINE Stays ==
      /\ \A c \in DOMAIN sessions \cap DOMAIN sessions' :
           sessions[c].idle <= SessionTTL =>
             \A i \in Index : sessions[c].peers[i] # NoPeer =>
                              sessions'[c].peers[i] = sessions[c].peers[i]
      /\ \A c \in DOMAIN relays \cap DOMAIN relays' :
           relays'[c].addr = relays[c].addr
<1>1. Types /\ RelayDeadline /\ [Next]_vars => [Stays]_vars
  <2> SUFFICES ASSUME Types, RelayDeadline, [Next]_vars PROVE Stays
    OBVIOUS
  <2>1. ASSUME NEW a \in Addr, NEW c \in Cookie, NEW i \in Index, ClaimEffect(a, c, i)
        PROVE  Stays
    <3>1. ASSUME NEW d \in DOMAIN sessions \cap DOMAIN sessions',
                 sessions[d].idle <= SessionTTL,
                 NEW j \in Index, sessions[d].peers[j] # NoPeer
          PROVE  sessions'[d].peers[j] = sessions[d].peers[j]
      <4>1. d \in Kept
        BY <3>1 DEF Kept
      <4>2. CASE d = c
        <5>1. CanClaim(c, i, a) /\ sessions'[c] = Claimed(c, i, a)
          BY <2>1 DEF ClaimEffect
        <5>2. c \in Kept =>
                \A k \in Index : sessions[c].peers[k] # NoPeer =>
                                 Claimed(c, i, a).peers[k] = sessions[c].peers[k]
          BY <5>1, ClaimedSession DEF ClaimKeeps
        <5>3. QED  BY <3>1, <4>1, <4>2, <5>1, <5>2
      <4>3. CASE d # c
        BY <2>1, <4>1, <4>3 DEF ClaimEffect
      <4>4. QED  BY <4>2, <4>3
    <3>2. \A d \in DOMAIN relays \cap DOMAIN relays' : relays'[d].addr = relays[d].addr
      BY <2>1 DEF ClaimEffect, RelaysStay
    <3>3. QED  BY <3>1, <3>2
  <2>2. CASE Quiet \/ TickEffect
    BY <2>2 DEF Quiet, SessionsStay, RelaysStay, TickEffect
  <2>3. ASSUME NEW c \in Cookie, NEW i \in Index, RelayEffect(c, i) PROVE Stays
    BY <2>3 DEF RelayEffect
  <2>4. ASSUME NEW c \in Cookie, DirectEffect(c) PROVE Stays
    BY <2>4 DEF DirectEffect, RelaysStay
  <2>5. ASSUME NEW c \in Cookie, ActivateEffect(c) PROVE Stays
    BY <2>5 DEF ActivateEffect, WantsRelay
  <2>6. QED
    BY <2>1, <2>2, <2>3, <2>4, <2>5, MatchEffects
<1>2. QED
  BY <1>1, TypesCorrect, DeadlineCorrect, PTL DEF Spec, FirstClaimWins

(* Once a drain is requested no relay is allocated and no cookie enters    *)
(* the session table.                                                      *)
THEOREM DrainCorrect == Spec => DrainAllocatesNothing
<1> DEFINE Shrinks == draining => /\ DOMAIN relays' \subseteq DOMAIN relays
                                  /\ DOMAIN sessions' \subseteq DOMAIN sessions
<1>1. Types /\ RelayDeadline /\ [Next]_vars => [Shrinks]_vars
  <2> SUFFICES ASSUME Types, RelayDeadline, [Next]_vars, draining
               PROVE  /\ DOMAIN relays' \subseteq DOMAIN relays
                      /\ DOMAIN sessions' \subseteq DOMAIN sessions
    OBVIOUS
  <2>1. ASSUME NEW c \in Cookie, ActivateEffect(c) PROVE FALSE
    BY <2>1 DEF ActivateEffect, WantsRelay
  <2>2. QED
    BY <2>1, MatchEffects
       DEF Quiet, SessionsStay, RelaysStay, TickEffect, ClaimEffect, Admitted, Kept,
           RelayEffect, DirectEffect
<1>2. QED
  BY <1>1, TypesCorrect, DeadlineCorrect, PTL DEF Spec, DrainAllocatesNothing
-----------------------------------------------------------------------------
(* The outcome.  A relay stays out of reach of a fallback: none is pending *)
(* beside it, and none for a session that has counted a relayed outcome.   *)
(* With a session that may have been relayed only when paired, what a new  *)
(* relay finds is a session that has counted nothing.                      *)
Apart ==
  /\ \A c \in DOMAIN fallbacks :
       c \notin DOMAIN relays /\ (c \in DOMAIN sessions => ~ sessions[c].relayed)
  /\ \A c \in DOMAIN sessions : sessions[c].relayed => Paired(sessions[c])

LEMMA RelayPaired ==
  ASSUME Types, NEW c \in DOMAIN relays, c \in DOMAIN sessions, OutcomeExclusive
  PROVE  Paired(sessions[c])
<1>1. relays[c].addr \in [Index -> Addr] /\ sessions[c].peers = relays[c].addr
  BY DEF Types, Relay, OutcomeExclusive
<1>2. QED
  BY <1>1, NatNegConstants DEF Paired

LEMMA OutcomeStep ==
  Types /\ RelayDeadline /\ OutcomeExclusive /\ Apart /\ [Next]_vars
    => OutcomeExclusive' /\ Apart'
<1> SUFFICES ASSUME Types, RelayDeadline, OutcomeExclusive, Apart, [Next]_vars
             PROVE  OutcomeExclusive' /\ Apart'
  OBVIOUS
<1>1. CASE Quiet
  <2>1. OutcomeExclusive'
    BY <1>1 DEF Quiet, SessionsStay, RelaysStay, OutcomeExclusive
  <2>2. Apart'
    BY <1>1 DEF Quiet, SessionsStay, RelaysStay, FallbacksStay, Apart, Paired
  <2>3. QED  BY <2>1, <2>2
<1>2. CASE TickEffect
  <2>1. OutcomeExclusive'
    BY <1>2 DEF TickEffect, OutcomeExclusive
  <2>2. Apart'
    BY <1>2 DEF TickEffect, Apart, Paired
  <2>3. QED  BY <2>1, <2>2
<1>3. ASSUME NEW a \in Addr, NEW c \in Cookie, NEW i \in Index, ClaimEffect(a, c, i)
      PROVE  OutcomeExclusive' /\ Apart'
  <2> DEFINE session == Claimed(c, i, a)
  <2>1. /\ c \notin DOMAIN relays' /\ CanClaim(c, i, a) /\ RelaysStay
        /\ \A d : d \in DOMAIN sessions' <=> d \in Kept \/ d = c
        /\ \A d \in Kept : d # c => sessions'[d] = sessions[d]
        /\ sessions'[c] = session
        /\ \A d \in DOMAIN fallbacks' :
             \/ d \in DOMAIN fallbacks
             \/ d = c /\ Paired(session) /\ ~ (c \in Kept /\ Paired(sessions[c]))
    BY <1>3 DEF ClaimEffect
  <2>c. CanClaim(c, i, a)
    BY <2>1
  <2>2. /\ c \in Kept => session.relayed = sessions[c].relayed
        /\ c \in Kept => \A j \in Index : sessions[c].peers[j] # NoPeer =>
                                          session.peers[j] = sessions[c].peers[j]
        /\ c \notin Kept => session.relayed = FALSE
    BY <2>c, ClaimedSession DEF ClaimKeeps
  <2>k. Kept \subseteq DOMAIN sessions
    BY DEF Kept
  <2> HIDE DEF session
  <2>3. OutcomeExclusive'
    BY <2>1, <2>k DEF RelaysStay, OutcomeExclusive
  <2>4. session.relayed => c \in Kept /\ Paired(sessions[c]) /\ Paired(session)
    <3>1. SUFFICES ASSUME session.relayed
                   PROVE  c \in Kept /\ Paired(sessions[c]) /\ Paired(session)
      OBVIOUS
    <3>2. c \in Kept /\ sessions[c].relayed
      BY <2>2, <3>1
    <3>3. Paired(sessions[c])
      BY <2>k, <3>2 DEF Apart
    <3>4. QED  BY <2>2, <3>2, <3>3 DEF Paired
  <2>5. ASSUME NEW d \in DOMAIN fallbacks'
        PROVE  d \notin DOMAIN relays' /\ (d \in DOMAIN sessions' => ~ sessions'[d].relayed)
    <3>1. CASE d = c
      <4>1. ~ session.relayed
        <5>1. CASE d \in DOMAIN fallbacks
          BY <2>2, <2>4, <2>k, <3>1, <5>1 DEF Apart
        <5>2. CASE d \notin DOMAIN fallbacks
          BY <2>1, <2>4, <5>2
        <5>3. QED  BY <5>1, <5>2
      <4>2. QED  BY <2>1, <3>1, <4>1
    <3>2. CASE d # c
      <4>1. d \in DOMAIN fallbacks
        BY <2>1, <3>2
      <4>2. QED  BY <2>1, <2>k, <3>2, <4>1 DEF Apart, RelaysStay
    <3>3. QED  BY <3>1, <3>2
  <2>6. \A d \in DOMAIN sessions' : sessions'[d].relayed => Paired(sessions'[d])
    BY <2>1, <2>4, <2>k DEF Apart
  <2>7. Apart'
    BY <2>5, <2>6 DEF Apart, Paired
  <2>8. QED  BY <2>3, <2>7
<1>4. ASSUME NEW c \in Cookie, NEW i \in Index, RelayEffect(c, i)
      PROVE  OutcomeExclusive' /\ Apart'
  <2>1. c \in DOMAIN relays /\ c \in DOMAIN sessions /\ Paired(sessions[c])
    BY <1>4, RelayPaired DEF RelayEffect
  <2>2. relays[c].reports \in SUBSET Index
    BY <2>1 DEF Types, Relay
  <2>3. sessions[c].relayed <=> relays[c].reports = Index
    BY <2>1 DEF OutcomeExclusive
  <2>4. sessions'[c].relayed <=> relays'[c].reports = Index
    BY <1>4, <2>2, <2>3 DEF RelayEffect
  <2>5. ASSUME NEW d \in DOMAIN relays' \cap DOMAIN sessions'
        PROVE  /\ sessions'[d].success = {}
               /\ sessions'[d].peers = relays'[d].addr
               /\ sessions'[d].relayed <=> relays'[d].reports = Index
    <3>1. d \in DOMAIN relays \cap DOMAIN sessions
      BY <1>4, <2>5 DEF RelayEffect
    <3>2. CASE d = c
      BY <1>4, <2>4, <3>1, <3>2 DEF RelayEffect, OutcomeExclusive
    <3>3. CASE d # c
      <4>1. sessions'[d] = sessions[d] /\ relays'[d] = relays[d]
        BY <1>4, <2>5, <3>1, <3>3 DEF RelayEffect
      <4>2. QED  BY <3>1, <4>1 DEF OutcomeExclusive
    <3>4. QED  BY <3>2, <3>3
  <2>o. OutcomeExclusive'
    BY <2>5 DEF OutcomeExclusive
  <2>6. Apart'
    BY <1>4, <2>1 DEF RelayEffect, FallbacksStay, Apart, Paired
  <2>7. QED  BY <2>o, <2>6
<1>5. ASSUME NEW c \in Cookie, DirectEffect(c) PROVE OutcomeExclusive' /\ Apart'
  <2>1. OutcomeExclusive'
    BY <1>5 DEF DirectEffect, RelaysStay, OutcomeExclusive
  <2>2. Apart'
    BY <1>5 DEF DirectEffect, RelaysStay, FallbacksStay, Apart, Paired
  <2>3. QED  BY <2>1, <2>2
<1>6. ASSUME NEW c \in Cookie, ActivateEffect(c) PROVE OutcomeExclusive' /\ Apart'
  <2>1. /\ sessions' = sessions /\ c \in DOMAIN sessions /\ sessions[c].success = {}
        /\ c \in DOMAIN fallbacks /\ ~ sessions[c].relayed
    BY <1>6 DEF ActivateEffect, WantsRelay, Apart
  <2>2. /\ \A d \in DOMAIN relays' : d # c => d \in DOMAIN relays /\ relays'[d] = relays[d]
        /\ relays'[c].addr = sessions[c].peers /\ relays'[c].reports = {}
        /\ c \notin DOMAIN fallbacks' /\ DOMAIN fallbacks' \subseteq DOMAIN fallbacks
    BY <1>6 DEF ActivateEffect, FallbacksStay
  <2>3. {} # Index
    BY DEF Index
  <2>4. OutcomeExclusive'
    BY <2>1, <2>2, <2>3 DEF OutcomeExclusive
  <2>5. Apart'
    BY <2>1, <2>2 DEF Apart, Paired
  <2>6. QED  BY <2>4, <2>5
<1>7. QED
  BY <1>1, <1>2, <1>3, <1>4, <1>5, <1>6, MatchEffects

(* A match has one outcome at a time: while a session has a relay, no      *)
(* direct success of it is recorded, however timers and reports race.      *)
THEOREM OutcomeCorrect == Spec => []OutcomeExclusive
<1>1. Init => OutcomeExclusive /\ Apart
  BY DEF Init, OutcomeExclusive, Apart
<1>2. QED
  BY <1>1, TypesCorrect, DeadlineCorrect, OutcomeStep, PTL DEF Spec

(* The fallback belongs to its pairing.  Its session cannot expire under   *)
(* it because it has not been idle longer than the fallback is pending.    *)
LEMMA FallbackStep ==
  ASSUME FallbackDelay <= SessionTTL, Types, RelayDeadline, FallbackOwned, [Next]_vars
  PROVE  FallbackOwned'
<1>t. /\ FallbackDelay \in Nat /\ SessionTTL \in Nat
      /\ \A d \in DOMAIN sessions : sessions[d].idle \in Nat
      /\ \A d \in DOMAIN fallbacks : fallbacks[d] \in 0 .. FallbackDelay
  BY NatNegConstants DEF Types, Session
<1>k. \A d \in DOMAIN fallbacks : d \in Kept
  BY <1>t DEF FallbackOwned, Kept
<1>0. \A d \in DOMAIN fallbacks : 0 + fallbacks[d] <= FallbackDelay
  BY <1>t
<1>1. CASE Quiet
  BY <1>1, <1>k, <1>0 DEF Quiet, SessionsStay, RelaysStay, FallbacksStay, FallbackOwned, Paired
<1>2. CASE TickEffect
  <2> SUFFICES ASSUME NEW d \in DOMAIN fallbacks'
               PROVE  /\ d \in DOMAIN sessions' /\ Paired(sessions'[d])
                      /\ d \notin DOMAIN relays'
                      /\ sessions'[d].idle + fallbacks'[d] <= FallbackDelay
    BY DEF FallbackOwned, Paired
  <2>1. /\ d \in DOMAIN fallbacks /\ d \in DOMAIN sessions /\ Paired(sessions[d])
        /\ d \notin DOMAIN relays /\ sessions[d].idle + fallbacks[d] <= FallbackDelay
    BY <1>2 DEF TickEffect, FallbackOwned
  <2>2. /\ d \in DOMAIN sessions' /\ Paired(sessions'[d]) /\ d \notin DOMAIN relays'
        /\ sessions'[d].idle \in {sessions[d].idle, sessions[d].idle + 1}
        /\ fallbacks'[d] = fallbacks[d] - 1
    BY <1>2, <2>1 DEF TickEffect, Paired
  <2>3. sessions[d].idle \in Nat /\ fallbacks[d] \in Nat
    BY <1>t, <2>1
  <2>4. sessions'[d].idle + fallbacks'[d] <= FallbackDelay
    <3> DEFINE x == sessions[d].idle
               y == sessions'[d].idle
               z == fallbacks[d]
               w == fallbacks'[d]
    <3>1. x \in Nat /\ z \in Nat /\ y \in {x, x + 1} /\ w = z - 1 /\ x + z <= FallbackDelay
      BY <2>1, <2>2, <2>3
    <3> HIDE DEF x, y, z, w
    <3>2. y + w <= FallbackDelay
      BY <1>t, <3>1
    <3>3. QED  BY <3>2 DEF y, w
  <2>5. QED
    BY <2>2, <2>4
<1>3. ASSUME NEW a \in Addr, NEW c \in Cookie, NEW i \in Index, ClaimEffect(a, c, i)
      PROVE  FallbackOwned'
  <2> DEFINE session == Claimed(c, i, a)
  <2>1. /\ c \notin DOMAIN relays' /\ CanClaim(c, i, a) /\ RelaysStay
        /\ \A d : d \in DOMAIN sessions' <=> d \in Kept \/ d = c
        /\ \A d \in Kept : d # c => sessions'[d] = sessions[d]
        /\ sessions'[c] = session
        /\ \A d \in DOMAIN fallbacks' :
             \/ d \in DOMAIN fallbacks /\ fallbacks'[d] = fallbacks[d]
             \/ d = c /\ fallbacks'[d] = FallbackDelay /\ Paired(session)
    BY <1>3 DEF ClaimEffect
  <2>c. CanClaim(c, i, a)
    BY <2>1
  <2>2. /\ session.idle = 0
        /\ c \in Kept => \A j \in Index : sessions[c].peers[j] # NoPeer =>
                                          session.peers[j] = sessions[c].peers[j]
    BY <2>c, ClaimedSession DEF ClaimKeeps
  <2> HIDE DEF session
  <2>3. c \in DOMAIN fallbacks => Paired(session)
    BY <1>k, <2>2 DEF FallbackOwned, Paired
  <2>4. ASSUME NEW d \in DOMAIN fallbacks'
        PROVE  /\ d \in DOMAIN sessions' /\ Paired(sessions'[d])
               /\ d \notin DOMAIN relays'
               /\ sessions'[d].idle + fallbacks'[d] <= FallbackDelay
    <3>1. CASE d = c
      <4>1. fallbacks'[d] \in Nat /\ fallbacks'[d] <= FallbackDelay
        BY <1>t, <2>1
      <4>2. QED  BY <2>1, <2>2, <2>3, <3>1, <4>1
    <3>2. CASE d # c
      BY <1>k, <2>1, <3>2 DEF FallbackOwned, RelaysStay
    <3>3. QED  BY <3>1, <3>2
  <2>5. QED
    BY <2>4 DEF FallbackOwned, Paired
<1>4. ASSUME NEW c \in Cookie, NEW i \in Index, RelayEffect(c, i) PROVE FallbackOwned'
  BY <1>4, <1>0 DEF RelayEffect, FallbacksStay, FallbackOwned, Paired
<1>5. ASSUME NEW c \in Cookie, DirectEffect(c) PROVE FallbackOwned'
  BY <1>5, <1>0 DEF DirectEffect, RelaysStay, FallbacksStay, FallbackOwned, Paired
<1>6. ASSUME NEW c \in Cookie, ActivateEffect(c) PROVE FallbackOwned'
  BY <1>6 DEF ActivateEffect, FallbacksStay, FallbackOwned, Paired
<1>7. QED
  BY <1>1, <1>2, <1>3, <1>4, <1>5, <1>6, MatchEffects

(* A pending fallback belongs to a live, paired session without a relay,   *)
(* where relay.fallback_seconds does not exceed the sessions' time to live.*)
THEOREM FallbackCorrect == ASSUME FallbackDelay <= SessionTTL PROVE Spec => []FallbackOwned
<1>1. Init => FallbackOwned
  BY DEF Init, FallbackOwned
<1>2. Types /\ RelayDeadline /\ FallbackOwned /\ [Next]_vars => FallbackOwned'
  BY FallbackStep
<1>3. QED
  BY <1>1, <1>2, TypesCorrect, DeadlineCorrect, PTL DEF Spec
-----------------------------------------------------------------------------
(* No fallback is lost.  It was scheduled under the policy "auto", and the *)
(* two endpoints of a pairing differ, so that nothing but a lack of room   *)
(* keeps a due fallback from its relay.                                    *)
AutoOnly == DOMAIN fallbacks # {} => RelayPolicy = "auto"

Distinct ==
  \A c \in DOMAIN sessions :
    sessions[c].peers[0] = sessions[c].peers[1] => sessions[c].peers[0] = NoPeer

LEMMA AutoStep ==
  Types /\ RelayDeadline /\ AutoOnly /\ [Next]_vars => AutoOnly'
<1> SUFFICES ASSUME Types, RelayDeadline, AutoOnly, [Next]_vars,
                    NEW d \in DOMAIN fallbacks'
             PROVE  RelayPolicy = "auto"
  BY DEF AutoOnly
<1>1. \/ d \in DOMAIN fallbacks
      \/ \E a \in Addr, c \in Cookie, i \in Index : ClaimEffect(a, c, i)
  BY MatchEffects
     DEF Quiet, FallbacksStay, TickEffect, RelayEffect, DirectEffect, ActivateEffect
<1>2. QED
  BY <1>1 DEF ClaimEffect, AutoOnly

LEMMA DistinctStep ==
  Types /\ RelayDeadline /\ Distinct /\ [Next]_vars => Distinct'
<1> SUFFICES ASSUME Types, RelayDeadline, Distinct, [Next]_vars PROVE Distinct'
  OBVIOUS
<1>1. ASSUME NEW a \in Addr, NEW c \in Cookie, NEW i \in Index, ClaimEffect(a, c, i)
      PROVE  Distinct'
  <2> DEFINE session == Claimed(c, i, a)
  <2>1. /\ CanClaim(c, i, a) /\ sessions'[c] = session
        /\ \A d : d \in DOMAIN sessions' <=> d \in Kept \/ d = c
        /\ \A d \in Kept : d # c => sessions'[d] = sessions[d]
    BY <1>1 DEF ClaimEffect
  <2>2. /\ session.peers[i] = a
        /\ \A j \in Index : j # i => session.peers[j] =
             IF c \in Kept THEN sessions[c].peers[j] ELSE NoPeer
    BY <2>1, ClaimedSession DEF ClaimKeeps
  <2>3. Kept \subseteq DOMAIN sessions
    BY DEF Kept
  <2> HIDE DEF session
  <2>4. session.peers[0] # session.peers[1]
    <3> DEFINE j == 1 - i
    <3>1. j \in Index /\ j # i /\ {i, j} = {0, 1}
      BY DEF Index
    <3>2. a # NoPeer
      BY NatNegConstants
    <3> HIDE DEF j
    <3>3. CASE c \in Kept
      <4>1. sessions[c].peers \in [Index -> Addr \cup {NoPeer}]
        BY <2>3, <3>3 DEF Types, Session
      <4>2. sessions[c].peers[j] # a
        <5>1. CASE a \notin Range(sessions[c].peers)
          BY <3>1, <4>1, <5>1 DEF Range
        <5>2. CASE sessions[c].peers[i] = a
          BY <2>3, <3>1, <3>2, <3>3, <5>2 DEF Distinct
        <5>3. QED  BY <2>1, <3>3, <5>1, <5>2 DEF CanClaim
      <4>3. QED  BY <2>2, <3>1, <3>3, <4>2
    <3>4. CASE c \notin Kept
      BY <2>2, <3>1, <3>2, <3>4
    <3>5. QED  BY <3>3, <3>4
  <2>5. QED
    BY <2>1, <2>3, <2>4 DEF Distinct
<1>2. CASE Quiet \/ TickEffect
  BY <1>2 DEF Quiet, SessionsStay, TickEffect, Distinct
<1>3. ASSUME NEW c \in Cookie, NEW i \in Index, RelayEffect(c, i) PROVE Distinct'
  BY <1>3 DEF RelayEffect, Distinct
<1>4. ASSUME NEW c \in Cookie, DirectEffect(c) PROVE Distinct'
  BY <1>4 DEF DirectEffect, Distinct
<1>5. ASSUME NEW c \in Cookie, ActivateEffect(c) PROVE Distinct'
  BY <1>5 DEF ActivateEffect, Distinct
<1>6. QED
  BY <1>1, <1>2, <1>3, <1>4, <1>5, MatchEffects

(* What a step takes out of the fallbacks.  Closing relays takes only the  *)
(* fallbacks of cookies that have one.                                     *)
Loses(S) == DOMAIN fallbacks \ DOMAIN fallbacks' \subseteq S

LEMMA SweptRelays == Swept \subseteq DOMAIN relays /\ IdleRelays \subseteq DOMAIN relays
  BY DEF Swept, IdleRelays

LEMMA DropLoses ==
  \A S : fallbacks' = Drop(fallbacks, S) => Loses(S)
  BY DropMaps DEF Loses

LEMMA DatagramLoses ==
  Types /\ Datagram =>
    \/ Loses(DOMAIN relays)
    \/ \E c \in DOMAIN sessions' : /\ Loses(DOMAIN relays \cup {c})
                                  /\ sessions'[c].success # {}
<1> DEFINE Goal ==
      \/ Loses(DOMAIN relays)
      \/ \E c \in DOMAIN sessions' : /\ Loses(DOMAIN relays \cup {c})
                                    /\ sessions'[c].success # {}
<1> SUFFICES ASSUME Types, Datagram PROVE Goal
  OBVIOUS
<1>1. ASSUME fallbacks' = Drop(fallbacks, Swept) PROVE Goal
  BY <1>1, DropLoses, SweptRelays DEF Loses
<1>2. ASSUME FinishRelays(Swept) PROVE Goal
  BY <1>1, <1>2 DEF FinishRelays, FinishAnd
<1>3. ASSUME NEW c, NEW r, FinishAndUpdate(Swept, c, r) PROVE Goal
  BY <1>1, <1>3 DEF FinishAndUpdate, FinishAnd
<1>4. CASE Stateless
  BY <1>2, <1>4 DEF Stateless, OnlySweep
<1>5. ASSUME NEW a \in Addr, NEW c \in Cookie, NEW i \in Index,
             \/ InitDraining(a, c, i) \/ InitRefused(a, c, i)
             \/ ReportIgnored(a, c, i) \/ ReportFailure(a, c, i)
      PROVE  Goal
  BY <1>2, <1>5
     DEF InitDraining, InitRefused, ReportIgnored, ReportFailure, OnlySweep
<1>6. ASSUME NEW a \in Addr, NEW c \in Cookie, NEW i \in Index, InitRelayed(a, c, i)
      PROVE  Goal
  BY <1>2, <1>3, <1>6 DEF InitRelayed
<1>7. ASSUME NEW a \in Addr, NEW c \in Cookie, NEW i \in Index, InitClaimed(a, c, i)
      PROVE  Goal
  <2>1. \/ fallbacks' = Drop(fallbacks, Swept)
        \/ fallbacks' = Put(Drop(fallbacks, Swept), c, FallbackDelay)
    BY <1>7 DEF InitClaimed, FinishAnd
  <2>2. Loses(Swept)
    BY <2>1, DropMaps, PutMaps DEF Loses
  <2>3. QED  BY <2>2, SweptRelays DEF Loses
<1>8. ASSUME NEW a \in Addr, NEW c \in Cookie, NEW i \in Index, ReportRelayed(a, c, i)
      PROVE  Goal
  BY <1>3, <1>8 DEF ReportRelayed
<1>9. ASSUME NEW a \in Addr, NEW c \in Cookie, NEW i \in Index, ReportDirect(a, c, i)
      PROVE  Goal
  <2> DEFINE closed == Swept \cup (DOMAIN relays \cap {c})
  <2>1. /\ c \in DOMAIN sessions /\ sessions[c] \in Session
        /\ sessions' = [Touched(c) EXCEPT ![c].success = @ \cup {i}]
    BY <1>9 DEF ReportDirect, OwnsIndex, Types
  <2>2. \/ fallbacks' = Drop(fallbacks, closed)
        \/ fallbacks' = Drop(fallbacks, closed \cup {c})
    BY <1>9 DEF ReportDirect, FinishAnd
  <2>3. Loses(DOMAIN relays \cup {c})
    BY <2>2, DropLoses, SweptRelays DEF Loses
  <2>4. Touched(c) = [sessions EXCEPT ![c].idle = 0]
    BY <2>1 DEF Touched
  <2>5. /\ c \in DOMAIN sessions'
        /\ sessions'[c] = [[sessions[c] EXCEPT !.idle = 0]
                             EXCEPT !.success = @ \cup {i}]
    BY <2>1, <2>4
  <2>6. i \in sessions'[c].success
    BY <2>1, <2>5 DEF Session
  <2>7. QED  BY <2>3, <2>5, <2>6
<1>10. ASSUME NEW a \in Addr, NEW c \in Cookie, PingReturned(a, c) PROVE Goal
  BY <1>3, <1>10 DEF PingReturned
<1>11. ASSUME NEW a \in Addr, NEW fits \in BOOLEAN, ForwardRelay(a, fits) PROVE Goal
  BY <1>3, <1>11 DEF ForwardRelay
<1>12. QED
  BY <1>4, <1>5, <1>6, <1>7, <1>8, <1>9, <1>10, <1>11 DEF Datagram

LEMMA LostStep ==
  ASSUME Types, RelayDeadline, FallbackOwned, AutoOnly, Distinct, Limited, Limited',
         [Next]_vars, NEW d \in DOMAIN fallbacks \ DOMAIN fallbacks'
  PROVE  Decided(d)'
<1>o. /\ d \in DOMAIN sessions /\ Paired(sessions[d]) /\ d \notin DOMAIN relays
      /\ RelayPolicy = "auto"
  BY DEF FallbackOwned, AutoOnly
<1>l. ASSUME Loses(DOMAIN relays) PROVE FALSE
  BY <1>o, <1>l DEF Loses
<1>u. ASSUME UNCHANGED fallbacks PROVE FALSE
  BY <1>u
<1>1. CASE Datagram
  <2>1. PICK c \in DOMAIN sessions' : /\ Loses(DOMAIN relays \cup {c})
                                      /\ sessions'[c].success # {}
    BY <1>1, <1>l, DatagramLoses
  <2>2. d = c
    BY <1>o, <2>1 DEF Loses
  <2>3. QED  BY <2>1, <2>2 DEF Decided
<1>2. ASSUME NEW c \in Cookie, FallbackVoid(c) PROVE Decided(d)'
  <2>1. d = c
    BY <1>2, DropMaps DEF FallbackVoid
  <2>2. draining \/ stage = "lost" \/ sessions[d].success # {}
    BY <1>o, <1>2, <2>1 DEF FallbackVoid, WantsRelay
  <2>3. QED
    BY <1>2, <1>o, <2>2 DEF FallbackVoid, drainVars, Decided
<1>3. ASSUME NEW c \in Cookie, FallbackRefused(c) PROVE Decided(d)'
  <2>1. Loses(IdleRelays \cup {c}) /\ relays' = Drop(relays, IdleRelays)
    BY <1>3, DropLoses DEF FallbackRefused, FinishAnd
  <2>2. d = c
    BY <1>o, <2>1, SweptRelays DEF Loses
  <2>3. sessions[d].peers[0] # sessions[d].peers[1]
    BY <1>o DEF Paired, Distinct, Index
  <2>4. ~ (Cardinality(DOMAIN relays \ IdleRelays) < MaxRelays)
    BY <1>3, <2>2, <2>3 DEF FallbackRefused, CanRelay
  <2>5. DOMAIN relays' = DOMAIN relays \ IdleRelays
    BY <2>1, DropMaps
  <2>6. Cardinality(DOMAIN relays') <= MaxRelays /\ Cardinality(DOMAIN relays') \in Nat
    BY FS_CardinalityType DEF Limited, Capacity
  <2>7. Cardinality(DOMAIN relays') = MaxRelays
    BY <2>4, <2>5, <2>6, NatNegConstants
  <2>8. QED  BY <2>7 DEF Decided
<1>4. ASSUME NEW c \in Cookie, ActivateRelay(c) PROVE Decided(d)'
  <2> DEFINE closed == IdleRelays \cup (Replaced(sessions[c].peers) \cap DOMAIN relays)
  <2>1. fallbacks' = Drop(fallbacks, closed \cup {c})
    BY <1>4 DEF ActivateRelay
  <2>2. closed \subseteq DOMAIN relays
    BY SweptRelays
  <2> HIDE DEF closed
  <2>3. d = c
    BY <1>o, <2>1, <2>2, DropLoses DEF Loses
  <2>4. c \in DOMAIN relays'
    BY <1>4, PutMaps DEF ActivateRelay
  <2>5. QED  BY <2>3, <2>4 DEF Decided
<1>5. ASSUME NEW c \in Cookie, RelayIdleCheck(c) PROVE FALSE
  <2>1. c \in DOMAIN relays /\ FinishRelays({c})
    BY <1>5, <1>u DEF RelayIdleCheck
  <2>2. Loses({c})
    BY <2>1, DropLoses DEF FinishRelays, FinishAnd
  <2>3. QED  BY <1>l, <2>1, <2>2 DEF Loses
<1>6. CASE ExpireSessions \/ RequestDrain \/ ServiceFailed \/ RelaysDrained
        \/ UNCHANGED vars
  BY <1>u, <1>6 DEF ExpireSessions, RequestDrain, ServiceFailed, RelaysDrained,
                    relayVars, vars
<1>7. CASE Tick
  BY <1>7 DEF Tick, Elapse
<1>8. CASE BeginDrain
  BY <1>8 DEF BeginDrain, Decided
<1>9. CASE DrainTimedOut \/ ConnectionLost
  BY <1>9 DEF DrainTimedOut, ConnectionLost, Decided
<1>10. QED
  BY <1>1, <1>2, <1>3, <1>4, <1>5, <1>6, <1>7, <1>8, <1>9 DEF Next, Timer, Shutdown

(* A pending fallback leaves the table only by its decision: the relay, a  *)
(* direct success, a full relay table or the end of the service.  A match  *)
(* that could not connect is never forgotten.                              *)
THEOREM FallbackDecision ==
  ASSUME FallbackDelay <= SessionTTL PROVE Spec => FallbackNotLost
<1> DEFINE Kind == \A c \in DOMAIN fallbacks \ DOMAIN fallbacks' : Decided(c)'
<1>1. Spec => [](AutoOnly /\ Distinct)
  <2>1. Init => AutoOnly /\ Distinct
    BY DEF Init, AutoOnly, Distinct
  <2>2. QED
    BY <2>1, AutoStep, DistinctStep, TypesCorrect, DeadlineCorrect, PTL DEF Spec
<1>2. /\ Types /\ RelayDeadline /\ FallbackOwned /\ AutoOnly /\ Distinct
      /\ Limited /\ Limited' /\ [Next]_vars
      => [Kind]_vars
  BY LostStep
<1>3. QED
  BY <1>1, <1>2, TypesCorrect, DeadlineCorrect, FallbackCorrect, LimitedAlways, PTL
     DEF Spec, FallbackNotLost
-----------------------------------------------------------------------------
(* The end.  Without fallbacks and relays no timer of a closed server is   *)
(* due, and it receives nothing that could add one.                        *)
Ended == stage = "lost" => DOMAIN relays = {} /\ DOMAIN fallbacks = {}

LEMMA EndedStep ==
  Types /\ RelayDeadline /\ Ended /\ [Next]_vars => Ended'
<1> SUFFICES ASSUME Types, RelayDeadline, Ended, [Next]_vars, stage' = "lost"
             PROVE  DOMAIN relays' = {} /\ DOMAIN fallbacks' = {}
  BY DEF Ended
<1>1. CASE stage = "lost"
  <2>1. DOMAIN relays = {} /\ DOMAIN fallbacks = {} /\ DOMAIN expirations = {}
    BY <1>1 DEF Ended, RelayDeadline
  <2>2. ~ Datagram
    BY <1>1 DEF Datagram, Receiving, Stateless, InitDraining, InitRelayed,
                InitRefused, InitClaimed, ReportIgnored, ReportFailure,
                ReportRelayed, ReportDirect, PingReturned, ForwardRelay
  <2>3. \A c \in Cookie : ~ Timer(c)
    BY <2>1 DEF Timer, FallbackVoid, FallbackRefused, ActivateRelay, RelayIdleCheck
  <2>4. ~ ExpireSessions /\ ~ ServiceFailed /\ ~ Shutdown
    BY <1>1 DEF ExpireSessions, Receiving, ServiceFailed, Shutdown, BeginDrain,
                RelaysDrained, DrainTimedOut, ConnectionLost
  <2>5. CASE Tick
    BY <2>1, <2>5 DEF Tick, Elapse
  <2>6. CASE RequestDrain \/ UNCHANGED vars
    BY <2>1, <2>6 DEF RequestDrain, relayVars, vars
  <2>7. QED
    BY <2>2, <2>3, <2>4, <2>5, <2>6 DEF Next
<1>2. CASE stage # "lost"
  <2>1. ~ Datagram
    <3>1. OnlySweep => stage' = stage
      BY DEF OnlySweep, drainVars
    <3>2. Stateless => stage' = stage
      BY <3>1 DEF Stateless
    <3>3. \A a \in Addr, c \in Cookie, i \in Index :
            \/ InitDraining(a, c, i) \/ InitRefused(a, c, i)
            \/ ReportIgnored(a, c, i) \/ ReportFailure(a, c, i)
            => stage' = stage
      BY <3>1 DEF InitDraining, InitRefused, ReportIgnored, ReportFailure
    <3>4. \A a \in Addr, c \in Cookie, i \in Index :
            \/ InitRelayed(a, c, i) \/ InitClaimed(a, c, i)
            \/ ReportRelayed(a, c, i) \/ ReportDirect(a, c, i)
            => stage' = stage
      BY DEF InitRelayed, InitClaimed, ReportRelayed, ReportDirect, drainVars
    <3>5. \A a \in Addr, c \in Cookie : PingReturned(a, c) => stage' = stage
      BY DEF PingReturned, drainVars
    <3>6. \A a \in Addr, fits \in BOOLEAN : ForwardRelay(a, fits) => stage' = stage
      BY DEF ForwardRelay, drainVars
    <3>7. QED
      BY <1>2, <3>2, <3>3, <3>4, <3>5, <3>6 DEF Datagram
  <2>2. ConnectionLost
    BY <1>2, <2>1
       DEF Next, Timer, FallbackVoid, FallbackRefused, ActivateRelay, RelayIdleCheck,
           ExpireSessions, Tick, RequestDrain, ServiceFailed, Shutdown, BeginDrain,
           RelaysDrained, DrainTimedOut, drainVars, vars
  <2>3. QED
    BY <2>2, DropMaps DEF ConnectionLost, FinishAnd
<1>3. QED
  BY <1>1, <1>2

(* A closed server holds no relay, no endpoint and no timer, and nothing   *)
(* that was pending when it closed brings one back.                        *)
THEOREM EndCorrect == Spec => []NothingLeft
<1>1. Init => Ended
  BY DEF Init, Ended
<1>2. Ended /\ RelayDeadline /\ RelayOwnership => NothingLeft
  BY DEF Ended, RelayDeadline, RelayOwnership, NothingLeft
<1>3. QED
  BY <1>1, <1>2, EndedStep, TypesCorrect, DeadlineCorrect, OwnershipCorrect, PTL
     DEF Spec
=============================================================================
