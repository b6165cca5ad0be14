---------------------------- MODULE NatNegProofs ----------------------------
(* Theorems about NatNeg for every value of its constants.                 *)
EXTENDS NatNeg, TLAPS

(* What the dictionary updates return.                                     *)
LEMMA DropMaps ==
  \A f, S : /\ \A x : x \in DOMAIN Drop(f, S) <=> x \in DOMAIN f /\ x \notin S
            /\ \A x \in DOMAIN Drop(f, S) : Drop(f, S)[x] = f[x]
  BY DEF Drop, Restrict

LEMMA RestrictMaps ==
  \A f, S : /\ \A x : x \in DOMAIN Restrict(f, S) <=> x \in S
            /\ \A x \in S : Restrict(f, S)[x] = f[x]
  BY DEF Restrict

LEMMA PutMaps ==
  \A f, k, v : /\ \A x : x \in DOMAIN Put(f, k, v) <=> x \in DOMAIN f \/ x = k
               /\ Put(f, k, v)[k] = v
               /\ \A x \in DOMAIN f : x # k => Put(f, k, v)[x] = f[x]
  BY DEF Put

(* Types of the parts of the state.                                        *)
SessionsTyped(f) ==
  DOMAIN f \subseteq Cookie /\ \A c \in DOMAIN f : f[c] \in Session
TimersTyped(f, limit) ==
  DOMAIN f \subseteq Cookie /\ \A c \in DOMAIN f : f[c] \in 0 .. limit
RelaysTyped(f) ==
  DOMAIN f \subseteq Cookie /\ \A c \in DOMAIN f : f[c] \in Relay
BindingTyped(f) ==
  DOMAIN f \subseteq Addr /\ \A a \in DOMAIN f : f[a] \in Cookie \X Index

LEMMA DropTyped ==
  \A f, S : /\ \A n : TimersTyped(f, n) => TimersTyped(Drop(f, S), n)
            /\ RelaysTyped(f) => RelaysTyped(Drop(f, S))
            /\ BindingTyped(f) => BindingTyped(Drop(f, S))
  BY DropMaps DEF TimersTyped, RelaysTyped, BindingTyped

LEMMA PutTyped ==
  \A f, k, v :
    /\ \A n : TimersTyped(f, n) /\ k \in Cookie /\ v \in 0 .. n
                => TimersTyped(Put(f, k, v), n)
    /\ RelaysTyped(f) /\ k \in Cookie /\ v \in Relay => RelaysTyped(Put(f, k, v))
    /\ BindingTyped(f) /\ k \in Addr /\ v \in Cookie \X Index
         => BindingTyped(Put(f, k, v))
    /\ SessionsTyped(f) /\ k \in Cookie /\ v \in Session
         => SessionsTyped(Put(f, k, v))
  BY PutMaps DEF TimersTyped, RelaysTyped, BindingTyped, SessionsTyped

(* Types in those terms.                                                  *)
LEMMA TypeParts ==
  Types <=> /\ SessionsTyped(sessions)
            /\ TimersTyped(fallbacks, FallbackDelay)
            /\ RelaysTyped(relays)
            /\ BindingTyped(binding)
            /\ TimersTyped(expirations, RelayLifetime)
            /\ relaysEmpty \in BOOLEAN
            /\ sweepWait \in 0 .. SweepInterval
            /\ draining \in BOOLEAN
            /\ stage \in Stage
            /\ drainLeft \in 0 .. DrainTimeout
            /\ delivered \in SUBSET (Addr \X Addr)
  BY DEF Types, SessionsTyped, TimersTyped, RelaysTyped, BindingTyped

LEMMA RestrictTyped ==
  \A f, S : SessionsTyped(f) /\ S \subseteq DOMAIN f => SessionsTyped(Restrict(f, S))
  BY RestrictMaps DEF SessionsTyped

LEMMA FinishTyped ==
  \A S, R, F :
    /\ Types /\ FinishAnd(S, R, F)
    /\ RelaysTyped(R) /\ TimersTyped(F, FallbackDelay)
    => /\ RelaysTyped(relays') /\ TimersTyped(fallbacks', FallbackDelay)
       /\ TimersTyped(expirations', RelayLifetime)
       /\ BindingTyped(binding') /\ relaysEmpty' \in BOOLEAN
  BY DropTyped, TypeParts DEF FinishAnd

LEMMA FinishRelaysTyped ==
  \A S : Types /\ FinishRelays(S)
    => /\ RelaysTyped(relays') /\ TimersTyped(fallbacks', FallbackDelay)
       /\ TimersTyped(expirations', RelayLifetime)
       /\ BindingTyped(binding') /\ relaysEmpty' \in BOOLEAN
  BY FinishTyped, DropTyped, TypeParts DEF FinishRelays

LEMMA UpdateTyped ==
  \A S, c, r : Types /\ FinishAndUpdate(S, c, r) /\ c \in Cookie /\ r \in Relay
    => /\ RelaysTyped(relays') /\ TimersTyped(fallbacks', FallbackDelay)
       /\ TimersTyped(expirations', RelayLifetime)
       /\ BindingTyped(binding') /\ relaysEmpty' \in BOOLEAN
  BY FinishTyped, DropTyped, PutTyped, TypeParts DEF FinishAndUpdate

LEMMA FreshTyped ==
  /\ \A s \in Session : [s EXCEPT !.idle = 0] \in Session
  /\ \A r \in Relay : [r EXCEPT !.idle = 0] \in Relay
  BY NatNegConstants DEF Session, Relay

LEMMA TouchedTyped ==
  ASSUME Types PROVE \A c : SessionsTyped(Touched(c))
  BY NatNegConstants DEF Types, Touched, SessionsTyped, Session

LEMMA SweepTyped == Types /\ Sweep => sweepWait' \in 0 .. SweepInterval
  BY NatNegConstants DEF Types, Sweep

(* The datagram actions keep every variable in its type.                   *)
LEMMA DatagramTyped == Types /\ Datagram => Types'
<1> SUFFICES ASSUME Types, Datagram PROVE Types'
  OBVIOUS
<1>p. /\ SessionsTyped(sessions')
      /\ RelaysTyped(relays') /\ TimersTyped(fallbacks', FallbackDelay)
      /\ TimersTyped(expirations', RelayLifetime)
      /\ BindingTyped(binding') /\ relaysEmpty' \in BOOLEAN
      /\ sweepWait' \in 0 .. SweepInterval
      /\ UNCHANGED drainVars
      /\ delivered' \in SUBSET (Addr \X Addr)
      => Types'
  BY TypeParts DEF Types, SessionsTyped, RelaysTyped, TimersTyped, BindingTyped, drainVars
<1>1. CASE Stateless
  BY <1>1, <1>p, FinishRelaysTyped, SweepTyped, TypeParts DEF Stateless, OnlySweep
<1>2. ASSUME NEW a \in Addr, NEW c \in Cookie, NEW i \in Index,
             InitDraining(a, c, i)
      PROVE  Types'
  BY <1>2, <1>p, FinishRelaysTyped, SweepTyped, TypeParts DEF InitDraining, OnlySweep
<1>3. ASSUME NEW a \in Addr, NEW c \in Cookie, NEW i \in Index,
             InitRelayed(a, c, i)
      PROVE  Types'
  <2>1. [relays[c] EXCEPT !.idle = 0] \in Relay
    <3>1. c \in DOMAIN relays
      BY <1>3 DEF InitRelayed
    <3> QED
      BY <3>1, FreshTyped DEF Types
  <2>2. /\ RelaysTyped(relays') /\ TimersTyped(fallbacks', FallbackDelay)
        /\ TimersTyped(expirations', RelayLifetime)
        /\ BindingTyped(binding') /\ relaysEmpty' \in BOOLEAN
    <3>1. CASE relays[c].addr[i] = a
      BY <1>3, <2>1, <3>1, UpdateTyped DEF InitRelayed
    <3>2. CASE relays[c].addr[i] # a
      BY <1>3, <3>2, FinishRelaysTyped DEF InitRelayed
    <3> QED
      BY <3>1, <3>2
  <2>3. /\ Sweep /\ sessions' = sessions /\ UNCHANGED drainVars /\ delivered' = {}
    BY <1>3 DEF InitRelayed
  <2>4. QED
    BY <1>p, <2>2, <2>3, SweepTyped, TypeParts
<1>4. ASSUME NEW a \in Addr, NEW c \in Cookie, NEW i \in Index,
             InitRefused(a, c, i)
      PROVE  Types'
  <2>1. SessionsTyped(Restrict(sessions, Kept))
    BY RestrictTyped, TypeParts DEF Kept
  <2>2. QED
    BY <1>4, <1>p, <2>1, FinishRelaysTyped, SweepTyped, TypeParts
       DEF InitRefused, OnlySweep
<1>5. ASSUME NEW a \in Addr, NEW c \in Cookie, NEW i \in Index,
             InitClaimed(a, c, i)
      PROVE  Types'
  <2>1. Claimed(c, i, a) \in Session
    <3> DEFINE session == IF c \in Kept THEN sessions[c] ELSE NewSession
    <3>1. session \in Session
      BY NatNegConstants DEF Kept, Types, Session, NewSession, Index
    <3>2. [session.peers EXCEPT ![i] = a] \in [Index -> Addr \cup {NoPeer}]
      BY <3>1 DEF Session
    <3>3. Claimed(c, i, a) = [[session EXCEPT !.peers =
                                 [session.peers EXCEPT ![i] = a]] EXCEPT !.idle = 0]
      BY <3>1 DEF Claimed, Session
    <3> HIDE DEF session
    <3>4. [session EXCEPT !.peers = [session.peers EXCEPT ![i] = a]] \in Session
      BY <3>1, <3>2 DEF Session
    <3>5. QED  BY <3>3, <3>4, FreshTyped
  <2>2. SessionsTyped(Put(Restrict(sessions, Kept), c, Claimed(c, i, a)))
    BY <2>1, RestrictTyped, PutTyped, TypeParts DEF Kept
  <2>3. TimersTyped(IF SchedulesFallback(c, Claimed(c, i, a))
                    THEN Put(Drop(fallbacks, Swept), c, FallbackDelay)
                    ELSE Drop(fallbacks, Swept), FallbackDelay)
    BY DropTyped, PutTyped, TypeParts, NatNegConstants
  <2>4. RelaysTyped(Drop(relays, Swept))
    BY DropTyped, TypeParts
  <2>5. QED
    BY <1>5, <1>p, <2>2, <2>3, <2>4, FinishTyped, SweepTyped, TypeParts
       DEF InitClaimed
<1>6. ASSUME NEW a \in Addr, NEW c \in Cookie, NEW i \in Index,
             ReportIgnored(a, c, i)
      PROVE  Types'
  BY <1>6, <1>p, FinishRelaysTyped, SweepTyped, TypeParts DEF ReportIgnored, OnlySweep
<1>7. ASSUME NEW a \in Addr, NEW c \in Cookie, NEW i \in Index,
             ReportFailure(a, c, i)
      PROVE  Types'
  BY <1>7, <1>p, FinishRelaysTyped, TouchedTyped, SweepTyped, TypeParts
     DEF ReportFailure, OnlySweep
<1>8. ASSUME NEW a \in Addr, NEW c \in Cookie, NEW i \in Index,
             ReportRelayed(a, c, i)
      PROVE  Types'
  <2>1. [relays[c] EXCEPT !.reports = relays[c].reports \cup {i}] \in Relay
    BY <1>8 DEF ReportRelayed, Committed, Types, Relay
  <2>2. SessionsTyped(sessions')
    <3> DEFINE reports == relays[c].reports \cup {i}
    <3>1. /\ SessionsTyped(Touched(c))
          /\ sessions' = [Touched(c) EXCEPT ![c].relayed = @ \/ reports = Index]
      BY <1>8, TouchedTyped DEF ReportRelayed
    <3> HIDE DEF Touched
    <3>2. QED  BY <3>1 DEF SessionsTyped, Session
  <2>3. QED
    BY <1>8, <1>p, <2>1, <2>2, UpdateTyped, SweepTyped, TypeParts DEF ReportRelayed
<1>9. ASSUME NEW a \in Addr, NEW c \in Cookie, NEW i \in Index,
             ReportDirect(a, c, i)
      PROVE  Types'
  <2>1. SessionsTyped(sessions')
    <3>1. /\ SessionsTyped(Touched(c))
          /\ sessions' = [Touched(c) EXCEPT ![c].success = @ \cup {i}]
      BY <1>9, TouchedTyped DEF ReportDirect
    <3> HIDE DEF Touched
    <3>2. QED  BY <3>1 DEF SessionsTyped, Session
  <2>2. QED
    BY <1>9, <1>p, <2>1, FinishTyped, DropTyped, SweepTyped, TypeParts DEF ReportDirect
<1>10. ASSUME NEW a \in Addr, NEW c \in Cookie, PingReturned(a, c)
       PROVE  Types'
  <2>1. PICK i \in Index :
          FinishAndUpdate(Swept, c, [relays[c] EXCEPT !.ready = @ \cup {i}, !.idle = 0])
    BY <1>10 DEF PingReturned
  <2>2. [relays[c] EXCEPT !.ready = @ \cup {i}, !.idle = 0] \in Relay
    <3>1. relays[c] \in Relay /\ relays[c].ready \cup {i} \in SUBSET Index
      BY <1>10 DEF PingReturned, Types, Relay
    <3>2. [relays[c] EXCEPT !.ready = @ \cup {i}] \in Relay
      BY <3>1 DEF Relay
    <3>3. [relays[c] EXCEPT !.ready = @ \cup {i}, !.idle = 0]
            = [[relays[c] EXCEPT !.ready = @ \cup {i}] EXCEPT !.idle = 0]
      OBVIOUS
    <3>4. QED  BY <3>2, <3>3, FreshTyped
  <2>3. QED
    BY <1>10, <1>p, <2>1, <2>2, UpdateTyped, TouchedTyped, SweepTyped, TypeParts
       DEF PingReturned
<1>11. ASSUME NEW a \in Addr, NEW fits \in BOOLEAN, ForwardRelay(a, fits)
       PROVE  Types'
  <2> DEFINE c == binding[a][1]
             other == 1 - binding[a][2]
  <2>1. c \in Cookie /\ c \in DOMAIN relays /\ other \in Index
    BY <1>11 DEF ForwardRelay, Types, Index
  <2>2. [relays[c] EXCEPT !.idle = 0] \in Relay /\ relays[c].addr[other] \in Addr
    BY <2>1, NatNegConstants DEF Types, Relay
  <2>3. delivered' \in SUBSET (Addr \X Addr)
    BY <1>11, <2>2 DEF ForwardRelay
  <2>4. QED
    BY <1>11, <1>p, <2>1, <2>2, <2>3, UpdateTyped, TouchedTyped, SweepTyped, TypeParts
       DEF ForwardRelay
<1>12. QED
  BY <1>1, <1>2, <1>3, <1>4, <1>5, <1>6, <1>7, <1>8, <1>9, <1>10, <1>11 DEF Datagram

(* So do the timers, the passing of time and the shutdown.                 *)
LEMMA OtherTyped == Types /\ Next /\ ~ Datagram => Types'
<1> SUFFICES ASSUME Types, Next, ~ Datagram PROVE Types'
  OBVIOUS
<1>p. /\ SessionsTyped(sessions')
      /\ RelaysTyped(relays') /\ TimersTyped(fallbacks', FallbackDelay)
      /\ TimersTyped(expirations', RelayLifetime)
      /\ BindingTyped(binding') /\ relaysEmpty' \in BOOLEAN
      /\ sweepWait' \in 0 .. SweepInterval
      /\ draining' \in BOOLEAN
      /\ stage' \in Stage
      /\ drainLeft' \in 0 .. DrainTimeout
      /\ delivered' \in SUBSET (Addr \X Addr)
      => Types'
  BY DEF Types, SessionsTyped, RelaysTyped, TimersTyped, BindingTyped
<1>c. /\ 0 \in 0 .. DrainTimeout /\ DrainTimeout \in 0 .. DrainTimeout
      /\ SweepInterval \in 0 .. SweepInterval
      /\ {} \in SUBSET (Addr \X Addr)
      /\ "waiting" \in Stage /\ "closing" \in Stage /\ "lost" \in Stage
      /\ TimersTyped([c \in {} |-> 0], FallbackDelay)
  BY NatNegConstants DEF Stage, TimersTyped
<1>1. ASSUME NEW c \in Cookie, FallbackVoid(c) PROVE Types'
  BY <1>1, <1>p, <1>c, DropTyped, TypeParts DEF FallbackVoid, drainVars
<1>2. ASSUME NEW c \in Cookie, FallbackRefused(c) PROVE Types'
  BY <1>2, <1>p, <1>c, DropTyped, FinishTyped, TypeParts DEF FallbackRefused, drainVars
<1>3. ASSUME NEW c \in Cookie, ActivateRelay(c) PROVE Types'
  <2> DEFINE peers == sessions[c].peers
  <2>1. peers \in [Index -> Addr]
    BY <1>3 DEF ActivateRelay, WantsRelay, Paired, Types, Session
  <2>2. NewRelay(peers) \in Relay
    BY <2>1, NatNegConstants DEF NewRelay, Relay
  <2>3. /\ peers[0] \in Addr /\ <<c, 0>> \in Cookie \X Index
        /\ peers[1] \in Addr /\ <<c, 1>> \in Cookie \X Index
        /\ RelayLifetime \in 0 .. RelayLifetime
    BY <2>1, NatNegConstants DEF Index
  <2> HIDE DEF peers
  <2>4. PICK closed :
          /\ relays' = Put(Drop(relays, closed), c, NewRelay(peers))
          /\ fallbacks' = Drop(fallbacks, closed \cup {c})
          /\ expirations' = Put(Drop(expirations, closed), c, RelayLifetime)
          /\ binding' = Put(Put(Drop(binding, BoundTo(closed)),
                                peers[0], <<c, 0>>), peers[1], <<c, 1>>)
    BY <1>3 DEF ActivateRelay, peers
  <2>5. RelaysTyped(relays') /\ TimersTyped(fallbacks', FallbackDelay)
    BY <2>2, <2>4, DropTyped, PutTyped, TypeParts
  <2>6. TimersTyped(expirations', RelayLifetime) /\ BindingTyped(binding')
    BY <2>3, <2>4, DropTyped, PutTyped, TypeParts
  <2>7. QED
    BY <1>3, <1>p, <1>c, <2>5, <2>6, TypeParts DEF ActivateRelay, drainVars
<1>4. ASSUME NEW c \in Cookie, RelayIdleCheck(c) PROVE Types'
  <2>1. CASE c \in DOMAIN relays /\ relays[c].idle >= RelayLifetime
    BY <1>4, <2>1, <1>p, <1>c, FinishRelaysTyped, TypeParts DEF RelayIdleCheck, drainVars
  <2>2. CASE ~ (c \in DOMAIN relays /\ relays[c].idle >= RelayLifetime)
    <3>1. c \in DOMAIN relays => Remaining(c) \in 0 .. RelayLifetime
      BY <2>2, NatNegConstants DEF Remaining, Types, Relay
    <3>2. TimersTyped(expirations', RelayLifetime)
      BY <1>4, <2>2, <3>1, DropTyped, PutTyped, TypeParts DEF RelayIdleCheck
    <3>3. QED
      BY <1>4, <2>2, <3>2, <1>p, <1>c, TypeParts DEF RelayIdleCheck, drainVars
  <2>3. QED  BY <2>1, <2>2
<1>5. CASE ExpireSessions
  BY <1>5, <1>p, <1>c, RestrictTyped, TypeParts
     DEF ExpireSessions, Kept, relayVars, drainVars
<1>6. CASE Tick
  <2>1. SessionsTyped(sessions')
    BY <1>6, NatNegConstants DEF Tick, Types, SessionsTyped, Session, Older
  <2>2. RelaysTyped(relays')
    <3>1. /\ DOMAIN relays' = DOMAIN relays
          /\ \A c \in DOMAIN relays :
               relays'[c] = [relays[c] EXCEPT !.idle = Older(@, RelayLifetime)]
      BY <1>6 DEF Tick
    <3>2. \A r \in Relay : [r EXCEPT !.idle = Older(@, RelayLifetime)] \in Relay
      BY NatNegConstants DEF Relay, Older
    <3>3. QED
      BY <3>1, <3>2 DEF Types, RelaysTyped
  <2>3. TimersTyped(fallbacks', FallbackDelay) /\ TimersTyped(expirations', RelayLifetime)
    <3>1. \A f, n : n \in Nat /\ TimersTyped(f, n) /\ ~ Due(f) => TimersTyped(Elapse(f), n)
      BY DEF TimersTyped, Due, Elapse
    <3>2. QED
      BY <1>6, <3>1, TypeParts, NatNegConstants DEF Tick
  <2>4. sweepWait' \in 0 .. SweepInterval /\ drainLeft' \in 0 .. DrainTimeout
    BY <1>6, NatNegConstants DEF Tick, Types, Down
  <2>5. QED
    BY <1>6, <2>1, <2>2, <2>3, <2>4, <1>p, <1>c, TypeParts DEF Tick
<1>7. CASE RequestDrain
  BY <1>7, <1>p, <1>c, TypeParts DEF RequestDrain, relayVars
<1>8. CASE ServiceFailed
  BY <1>8, <1>p, <1>c, TypeParts DEF ServiceFailed, relayVars
<1>9. CASE BeginDrain
  BY <1>9, <1>p, <1>c, TypeParts DEF BeginDrain
<1>10. CASE RelaysDrained
  BY <1>10, <1>p, <1>c, TypeParts DEF RelaysDrained, relayVars
<1>11. CASE DrainTimedOut
  BY <1>11, <1>p, <1>c, FinishRelaysTyped, TypeParts DEF DrainTimedOut
<1>12. CASE ConnectionLost
  BY <1>12, <1>p, <1>c, FinishTyped, DropTyped, TypeParts DEF ConnectionLost
<1>13. QED
  BY <1>1, <1>2, <1>3, <1>4, <1>5, <1>6, <1>7, <1>8, <1>9, <1>10, <1>11, <1>12
     DEF Next, Timer, Shutdown

(* Every variable has its type in every reachable state.                   *)
THEOREM TypesCorrect == Spec => []Types
<1>1. Init => Types
  <2> SUFFICES ASSUME Init PROVE Types
    OBVIOUS
  <2>1. /\ DOMAIN sessions = {} /\ DOMAIN fallbacks = {} /\ DOMAIN relays = {}
        /\ DOMAIN binding = {} /\ DOMAIN expirations = {}
    BY DEF Init
  <2>2. sweepWait \in 0 .. SweepInterval /\ drainLeft \in 0 .. DrainTimeout
    BY NatNegConstants DEF Init
  <2>3. QED
    BY <2>1, <2>2 DEF Init, Types, Stage
<1>2. Types /\ [Next]_vars => Types'
  <2>1. Types /\ UNCHANGED vars => Types'
    BY DEF Types, vars, relayVars, drainVars
  <2>2. QED  BY <2>1, DatagramTyped, OtherTyped
<1>3. QED  BY <1>1, <1>2, PTL DEF Spec
=============================================================================
