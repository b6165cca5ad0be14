------------------------- MODULE NatNegRelayProofs -------------------------
(* The relay tables of NatNeg stay consistent, a proven relay stays, and   *)
(* the relay plane implements RelaySwitch, for every value of the          *)
(* constants.                                                              *)
EXTENDS NatNegProofs

(* What every step does that only closes the relays of S, and what it may  *)
(* do to the others: restart their idle time, add ready endpoints and      *)
(* reports.                                                                *)
ClosesOnly(S) ==
  /\ S \subseteq DOMAIN relays
  /\ \A c : c \in DOMAIN relays' <=> c \in DOMAIN relays /\ c \notin S
  /\ \A c \in DOMAIN relays' :
       /\ relays'[c].addr = relays[c].addr
       /\ relays'[c].idle \in {relays[c].idle, 0}
       /\ relays[c].ready \subseteq relays'[c].ready
  /\ binding' = Drop(binding, BoundTo(S))
  /\ expirations' = Drop(expirations, S)
  /\ relaysEmpty' = (relaysEmpty \/ (S # {} /\ DOMAIN relays = S))

LEMMA FinishCloses ==
  \A S : S \subseteq DOMAIN relays /\ FinishRelays(S) => ClosesOnly(S)
  BY DropMaps DEF FinishRelays, FinishAnd, ClosesOnly

LEMMA FinishAndCloses ==
  \A S, F : S \subseteq DOMAIN relays /\ FinishAnd(S, Drop(relays, S), F) => ClosesOnly(S)
  BY DropMaps DEF FinishAnd, ClosesOnly

LEMMA UpdateCloses ==
  \A S, c, r :
    /\ S \subseteq DOMAIN relays /\ c \in DOMAIN relays \ S
    /\ FinishAndUpdate(S, c, r)
    /\ r.addr = relays[c].addr /\ r.idle \in {relays[c].idle, 0}
    /\ relays[c].ready \subseteq r.ready
    => ClosesOnly(S)
<1> SUFFICES ASSUME NEW S, NEW c, NEW r,
                    S \subseteq DOMAIN relays, c \in DOMAIN relays \ S,
                    FinishAndUpdate(S, c, r),
                    r.addr = relays[c].addr, r.idle \in {relays[c].idle, 0},
                    relays[c].ready \subseteq r.ready
             PROVE  ClosesOnly(S)
  OBVIOUS
<1> DEFINE left == Drop(relays, S)
<1>1. /\ \A x : x \in DOMAIN left <=> x \in DOMAIN relays /\ x \notin S
      /\ \A x \in DOMAIN left : left[x] = relays[x]
  BY DropMaps
<1> HIDE DEF left
<1>2. /\ \A x : x \in DOMAIN Put(left, c, r) <=> x \in DOMAIN left
      /\ Put(left, c, r)[c] = r
      /\ \A x \in DOMAIN left : x # c => Put(left, c, r)[x] = left[x]
  BY <1>1, PutMaps
<1>3. relays' = Put(left, c, r)
  BY DEF FinishAndUpdate, FinishAnd, left
<1>4. /\ binding' = Drop(binding, BoundTo(S))
      /\ expirations' = Drop(expirations, S)
      /\ relaysEmpty' = (relaysEmpty \/ (S # {} /\ DOMAIN relays = S))
  BY DEF FinishAndUpdate, FinishAnd
<1>5. \A x \in DOMAIN relays' :
        /\ relays'[x].addr = relays[x].addr
        /\ relays'[x].idle \in {relays[x].idle, 0}
        /\ relays[x].ready \subseteq relays'[x].ready
  BY <1>1, <1>2, <1>3
<1>6. QED
  BY <1>1, <1>2, <1>3, <1>4, <1>5 DEF ClosesOnly

(* Every datagram only closes relays: those it sweeps and, for a report of *)
(* a direct success, the speculative relay of its cookie.                  *)
LEMMA DatagramCloses ==
  Types /\ Datagram => \E S \in SUBSET DOMAIN relays : ClosesOnly(S)
<1> SUFFICES ASSUME Types, Datagram
             PROVE  \E S \in SUBSET DOMAIN relays : ClosesOnly(S)
  OBVIOUS
<1>s. Swept \in SUBSET DOMAIN relays
  BY DEF Swept, IdleRelays
<1>o. OnlySweep => ClosesOnly(Swept)
  BY <1>s, FinishCloses DEF OnlySweep
<1>1. CASE Stateless
  BY <1>1, <1>s, <1>o DEF Stateless
<1>2. ASSUME NEW a \in Addr, NEW c \in Cookie, NEW i \in Index,
             \/ InitDraining(a, c, i) \/ InitRefused(a, c, i)
             \/ ReportIgnored(a, c, i) \/ ReportFailure(a, c, i)
      PROVE  \E S \in SUBSET DOMAIN relays : ClosesOnly(S)
  BY <1>2, <1>s, <1>o DEF InitDraining, InitRefused, ReportIgnored, ReportFailure
<1>3. ASSUME NEW a \in Addr, NEW c \in Cookie, NEW i \in Index,
             InitRelayed(a, c, i)
      PROVE  \E S \in SUBSET DOMAIN relays : ClosesOnly(S)
  <2> DEFINE r == [relays[c] EXCEPT !.idle = 0]
  <2>1. c \in DOMAIN relays \ Swept /\ relays[c] \in Relay
    BY <1>3 DEF InitRelayed, Types
  <2>2. r.addr = relays[c].addr /\ r.idle = 0 /\ r.ready = relays[c].ready
    BY <2>1 DEF Relay
  <2>3. FinishAndUpdate(Swept, c, r) \/ FinishRelays(Swept)
    BY <1>3 DEF InitRelayed
  <2> HIDE DEF r
  <2>4. QED
    BY <1>s, <2>1, <2>2, <2>3, FinishCloses, UpdateCloses
<1>4. ASSUME NEW a \in Addr, NEW c \in Cookie, NEW i \in Index,
             InitClaimed(a, c, i)
      PROVE  \E S \in SUBSET DOMAIN relays : ClosesOnly(S)
  BY <1>4, <1>s, FinishAndCloses DEF InitClaimed
<1>5. ASSUME NEW a \in Addr, NEW c \in Cookie, NEW i \in Index,
             ReportRelayed(a, c, i)
      PROVE  \E S \in SUBSET DOMAIN relays : ClosesOnly(S)
  <2> DEFINE r == [relays[c] EXCEPT !.reports = relays[c].reports \cup {i}]
  <2>1. c \in DOMAIN relays \ Swept /\ relays[c] \in Relay
    BY <1>5 DEF ReportRelayed, Committed, Types
  <2>2. /\ r.addr = relays[c].addr /\ r.idle = relays[c].idle
        /\ r.ready = relays[c].ready
    BY <2>1 DEF Relay
  <2>3. FinishAndUpdate(Swept, c, r)
    BY <1>5 DEF ReportRelayed
  <2> HIDE DEF r
  <2>4. QED
    BY <1>s, <2>1, <2>2, <2>3, UpdateCloses
<1>6. ASSUME NEW a \in Addr, NEW c \in Cookie, NEW i \in Index,
             ReportDirect(a, c, i)
      PROVE  \E S \in SUBSET DOMAIN relays : ClosesOnly(S)
  BY <1>6, <1>s, FinishAndCloses DEF ReportDirect
<1>7. ASSUME NEW a \in Addr, NEW c \in Cookie, PingReturned(a, c)
      PROVE  \E S \in SUBSET DOMAIN relays : ClosesOnly(S)
  <2>1. PICK i \in Index :
          FinishAndUpdate(Swept, c, [relays[c] EXCEPT !.ready = @ \cup {i}, !.idle = 0])
    BY <1>7 DEF PingReturned
  <2> DEFINE r == [relays[c] EXCEPT !.ready = @ \cup {i}, !.idle = 0]
  <2>2. c \in DOMAIN relays \ Swept /\ relays[c] \in Relay
    BY <1>7 DEF PingReturned, Types
  <2>3. /\ r.addr = relays[c].addr /\ r.idle = 0
        /\ r.ready = relays[c].ready \cup {i}
    BY <2>2 DEF Relay
  <2>4. FinishAndUpdate(Swept, c, r)
    BY <2>1
  <2> HIDE DEF r
  <2>5. QED
    BY <1>s, <2>2, <2>3, <2>4, UpdateCloses
<1>8. ASSUME NEW a \in Addr, NEW fits \in BOOLEAN, ForwardRelay(a, fits)
      PROVE  \E S \in SUBSET DOMAIN relays : ClosesOnly(S)
  <2> DEFINE c == binding[a][1]
             r == [relays[c] EXCEPT !.idle = 0]
  <2>1. c \in DOMAIN relays \ Swept /\ relays[c] \in Relay
    BY <1>8 DEF ForwardRelay, Types
  <2>2. r.addr = relays[c].addr /\ r.idle = 0 /\ r.ready = relays[c].ready
    BY <2>1 DEF Relay
  <2>3. FinishAndUpdate(Swept, c, r)
    BY <1>8 DEF ForwardRelay
  <2> HIDE DEF r, c
  <2>4. QED
    BY <1>s, <2>1, <2>2, <2>3, UpdateCloses
<1>9. QED
  BY <1>1, <1>2, <1>3, <1>4, <1>5, <1>6, <1>7, <1>8 DEF Datagram

(* Closing relays keeps the tables consistent.                             *)
LEMMA ClosingKeepsOwnership ==
  \A S : Types /\ RelayOwnership /\ ClosesOnly(S) => RelayOwnership'
<1> SUFFICES ASSUME NEW S, Types, RelayOwnership, ClosesOnly(S)
             PROVE  RelayOwnership'
  OBVIOUS
<1>1. /\ \A a : a \in DOMAIN binding' <=> a \in DOMAIN binding /\ a \notin BoundTo(S)
      /\ \A a \in DOMAIN binding' : binding'[a] = binding[a]
  BY DropMaps DEF ClosesOnly
<1>2. ASSUME NEW a \in DOMAIN binding'
      PROVE  /\ binding'[a][1] \in DOMAIN relays'
             /\ relays'[binding'[a][1]].addr[binding'[a][2]] = a
  <2>1. /\ a \in DOMAIN binding /\ a \notin BoundTo(S) /\ binding'[a] = binding[a]
    BY <1>1
  <2>2. PICK c \in Cookie, i \in Index : binding[a] = <<c, i>>
    BY <2>1 DEF Types
  <2>3. c \in DOMAIN relays /\ relays[c].addr[i] = a
    BY <2>1, <2>2 DEF RelayOwnership
  <2>4. c \notin S
    BY <2>1, <2>2, <2>3 DEF BoundTo
  <2>5. QED
    BY <2>1, <2>2, <2>3, <2>4 DEF ClosesOnly
<1>3. ASSUME NEW c \in DOMAIN relays', NEW i \in Index
      PROVE  /\ relays'[c].addr[i] \in DOMAIN binding'
             /\ binding'[relays'[c].addr[i]] = <<c, i>>
  <2> DEFINE a == relays[c].addr[i]
  <2>1. c \in DOMAIN relays /\ c \notin S /\ relays'[c].addr[i] = a
    BY DEF ClosesOnly
  <2>2. a \in DOMAIN binding /\ binding[a] = <<c, i>>
    BY <2>1 DEF RelayOwnership
  <2>3. a \notin BoundTo(S)
    BY <2>1, <2>2 DEF BoundTo
  <2>4. QED
    BY <1>1, <2>1, <2>2, <2>3
<1>4. QED
  BY <1>2, <1>3 DEF RelayOwnership

LEMMA ClosingKeepsDeadline ==
  \A S : Types /\ RelayDeadline /\ ClosesOnly(S) => RelayDeadline'
<1> SUFFICES ASSUME NEW S, Types, RelayDeadline, ClosesOnly(S)
             PROVE  RelayDeadline'
  OBVIOUS
<1>1. /\ \A c : c \in DOMAIN expirations' <=> c \in DOMAIN expirations /\ c \notin S
      /\ \A c \in DOMAIN expirations' : expirations'[c] = expirations[c]
  BY DropMaps DEF ClosesOnly
<1>2. DOMAIN expirations' = DOMAIN relays'
  BY <1>1 DEF ClosesOnly, RelayDeadline
<1>3. ASSUME NEW c \in DOMAIN relays'
      PROVE  expirations'[c] + relays'[c].idle <= RelayLifetime
  <2>1. /\ c \in DOMAIN relays /\ relays'[c].idle \in {relays[c].idle, 0}
        /\ expirations'[c] = expirations[c]
        /\ expirations[c] + relays[c].idle <= RelayLifetime
    BY <1>1, <1>2 DEF ClosesOnly, RelayDeadline
  <2>2. /\ expirations[c] \in 0 .. RelayLifetime
        /\ relays[c].idle \in 0 .. RelayLifetime
    BY <2>1 DEF Types, Relay, RelayDeadline
  <2>3. QED
    BY <2>1, <2>2, NatNegConstants
<1>4. relaysEmpty' <=> DOMAIN relays' = {}
  BY DEF ClosesOnly, RelayDeadline
<1>5. QED
  BY <1>2, <1>3, <1>4 DEF RelayDeadline

(* The steps of the relay plane: closing, nothing, or one of four others.  *)
Reschedules(c) ==
  /\ c \in DOMAIN relays /\ ~ (relays[c].idle >= RelayLifetime)
  /\ expirations' = Put(expirations, c, Remaining(c))
  /\ UNCHANGED <<relays, binding, relaysEmpty>>

LEMMA RelaySteps ==
  Types /\ RelayDeadline /\ [Next]_vars =>
    \/ \E S \in SUBSET DOMAIN relays : ClosesOnly(S)
    \/ UNCHANGED <<relays, binding, expirations, relaysEmpty>>
    \/ \E c \in Cookie : ActivateRelay(c) \/ Reschedules(c)
    \/ Tick
    \/ BeginDrain
<1> DEFINE Goal ==
      \/ \E S \in SUBSET DOMAIN relays : ClosesOnly(S)
      \/ UNCHANGED <<relays, binding, expirations, relaysEmpty>>
      \/ \E c \in Cookie : ActivateRelay(c) \/ Reschedules(c)
      \/ Tick
      \/ BeginDrain
<1> SUFFICES ASSUME Types, RelayDeadline, [Next]_vars PROVE Goal
  OBVIOUS
<1>1. CASE Datagram
  BY <1>1, DatagramCloses
<1>2. ASSUME NEW c \in Cookie, FallbackRefused(c) PROVE Goal
  <2>1. IdleRelays \in SUBSET DOMAIN relays
    BY DEF IdleRelays
  <2>2. ClosesOnly(IdleRelays)
    BY <1>2, <2>1, FinishAndCloses DEF FallbackRefused
  <2>3. QED  BY <2>1, <2>2
<1>3. ASSUME NEW c \in Cookie, RelayIdleCheck(c) PROVE Goal
  <2>1. CASE c \in DOMAIN relays /\ relays[c].idle >= RelayLifetime
    <3>1. {c} \in SUBSET DOMAIN relays /\ FinishRelays({c})
      BY <1>3, <2>1 DEF RelayIdleCheck
    <3>2. QED  BY <3>1, FinishCloses
  <2>2. CASE ~ (c \in DOMAIN relays /\ relays[c].idle >= RelayLifetime)
    <3>1. c \in DOMAIN relays
      BY <1>3 DEF RelayIdleCheck, RelayDeadline
    <3>2. Reschedules(c)
      BY <1>3, <2>2, <3>1 DEF RelayIdleCheck, Reschedules
    <3>3. QED  BY <3>2
  <2>3. QED  BY <2>1, <2>2
<1>4. ASSUME NEW c \in Cookie, FallbackVoid(c) PROVE Goal
  BY <1>4 DEF FallbackVoid
<1>5. ASSUME NEW c \in Cookie, ActivateRelay(c) PROVE Goal
  BY <1>5
<1>6. CASE DrainTimedOut
  BY <1>6, FinishCloses DEF DrainTimedOut
<1>7. CASE ConnectionLost
  BY <1>7, FinishAndCloses DEF ConnectionLost
<1>8. CASE ExpireSessions \/ RequestDrain \/ ServiceFailed \/ RelaysDrained
  BY <1>8 DEF ExpireSessions, RequestDrain, ServiceFailed, RelaysDrained, relayVars
<1>9. CASE UNCHANGED vars
  BY <1>9 DEF vars, relayVars
<1>10. QED
  BY <1>1, <1>2, <1>3, <1>4, <1>5, <1>6, <1>7, <1>8, <1>9
     DEF Next, Timer, Shutdown

(* The deadlines of the relays.                                            *)
LEMMA DeadlineStep ==
  Types /\ RelayDeadline /\ [Next]_vars => RelayDeadline'
<1> SUFFICES ASSUME Types, RelayDeadline, [Next]_vars PROVE RelayDeadline'
  OBVIOUS
<1>1. ASSUME NEW S \in SUBSET DOMAIN relays, ClosesOnly(S) PROVE RelayDeadline'
  BY <1>1, ClosingKeepsDeadline
<1>2. CASE UNCHANGED <<relays, binding, expirations, relaysEmpty>>
  BY <1>2 DEF RelayDeadline
<1>3. ASSUME NEW c \in Cookie, ActivateRelay(c) PROVE RelayDeadline'
  <2> DEFINE peers == sessions[c].peers
             closed == IdleRelays \cup (Replaced(peers) \cap DOMAIN relays)
  <2>1. /\ relays' = Put(Drop(relays, closed), c, NewRelay(peers))
        /\ expirations' = Put(Drop(expirations, closed), c, RelayLifetime)
        /\ relaysEmpty' = FALSE
        /\ c \notin DOMAIN relays
    BY <1>3 DEF ActivateRelay, WantsRelay
  <2>2. /\ DOMAIN expirations = DOMAIN relays
        /\ \A d \in DOMAIN relays : expirations[d] + relays[d].idle <= RelayLifetime
    BY DEF RelayDeadline
  <2>3. NewRelay(peers).idle = 0
    BY DEF NewRelay
  <2> HIDE DEF closed, peers
  <2>4. \A d : d \in DOMAIN relays' <=> d \in DOMAIN expirations'
    BY <2>1, <2>2, DropMaps, PutMaps
  <2>5. \A d \in DOMAIN relays' : expirations'[d] + relays'[d].idle <= RelayLifetime
    <3> SUFFICES ASSUME NEW d \in DOMAIN relays'
                 PROVE  expirations'[d] + relays'[d].idle <= RelayLifetime
      OBVIOUS
    <3>1. CASE d = c
      BY <3>1, <2>1, <2>3, PutMaps, NatNegConstants
    <3>2. CASE d # c
      <4>1. d \in DOMAIN relays /\ relays'[d] = relays[d] /\ expirations'[d] = expirations[d]
        BY <3>2, <2>1, <2>2, DropMaps, PutMaps
      <4>2. QED  BY <4>1, <2>2
    <3>3. QED  BY <3>1, <3>2
  <2>6. DOMAIN relays' # {}
    BY <2>1, PutMaps
  <2>7. QED
    BY <2>1, <2>4, <2>5, <2>6 DEF RelayDeadline
<1>4. ASSUME NEW c \in Cookie, Reschedules(c) PROVE RelayDeadline'
  <2>1. /\ c \in DOMAIN relays /\ relays' = relays /\ relaysEmpty' = relaysEmpty
        /\ expirations' = Put(expirations, c, Remaining(c))
    BY <1>4 DEF Reschedules
  <2>2. Remaining(c) + relays[c].idle <= RelayLifetime
    BY <2>1, NatNegConstants DEF Remaining, Types, Relay
  <2>3. \A d : d \in DOMAIN expirations' <=> d \in DOMAIN relays
    BY <2>1, PutMaps DEF RelayDeadline
  <2>4. \A d \in DOMAIN relays : expirations'[d] + relays[d].idle <= RelayLifetime
    BY <2>1, <2>2, PutMaps DEF RelayDeadline
  <2>5. QED
    BY <2>1, <2>3, <2>4 DEF RelayDeadline
<1>5. CASE Tick
  <2>1. /\ DOMAIN expirations' = DOMAIN expirations /\ DOMAIN relays' = DOMAIN relays
        /\ relaysEmpty' = relaysEmpty
        /\ \A c \in DOMAIN expirations : /\ expirations'[c] = expirations[c] - 1
                                         /\ expirations[c] # 0
        /\ \A c \in DOMAIN relays :
             relays'[c] = [relays[c] EXCEPT !.idle = Older(@, RelayLifetime)]
    BY <1>5 DEF Tick, Elapse, Due
  <2>2. ASSUME NEW c \in DOMAIN relays
        PROVE  expirations'[c] + relays'[c].idle <= RelayLifetime
    <3>1. /\ c \in DOMAIN expirations
          /\ expirations[c] + relays[c].idle <= RelayLifetime
      BY DEF RelayDeadline
    <3>2. /\ expirations[c] \in 0 .. RelayLifetime /\ relays[c] \in Relay
          /\ relays[c].idle \in 0 .. RelayLifetime
      BY <3>1 DEF Types, Relay
    <3>3. relays'[c].idle = Older(relays[c].idle, RelayLifetime)
      BY <2>1, <3>2 DEF Relay
    <3>4. QED
      BY <2>1, <3>1, <3>2, <3>3, NatNegConstants DEF Older
  <2>3. QED
    BY <2>1, <2>2 DEF RelayDeadline
<1>6. CASE BeginDrain
  BY <1>6 DEF BeginDrain, RelayDeadline
<1>7. QED
  BY <1>1, <1>2, <1>3, <1>4, <1>5, <1>6, RelaySteps

(* Every relay is watched by an idle check due by its deadline, and the    *)
(* event the draining task awaits says whether a relay is left.            *)
THEOREM DeadlineCorrect == Spec => []RelayDeadline
<1>1. Init => RelayDeadline
  BY DEF Init, RelayDeadline
<1>2. QED
  BY <1>1, TypesCorrect, DeadlineStep, PTL DEF Spec

(* A new relay takes over its endpoints: the relays they were bound to are *)
(* closed with it, so no other relay's endpoint is rebound.                *)
LEMMA ActivationKeepsOwnership ==
  ASSUME Types, RelayOwnership, NEW c \in Cookie, ActivateRelay(c)
  PROVE  RelayOwnership'
<1> DEFINE peers == sessions[c].peers
           closed == IdleRelays \cup (Replaced(peers) \cap DOMAIN relays)
           left == Drop(binding, BoundTo(closed))
<1>1. /\ relays' = Put(Drop(relays, closed), c, NewRelay(peers))
      /\ binding' = Put(Put(left, peers[0], <<c, 0>>), peers[1], <<c, 1>>)
      /\ c \notin DOMAIN relays
      /\ peers[0] # peers[1]
      /\ 0 \in Index /\ 1 \in Index /\ \A i \in Index : i = 0 \/ i = 1
  BY DEF ActivateRelay, WantsRelay, CanRelay, Index
<1>2. NewRelay(peers).addr = peers
  BY DEF NewRelay
<1>3. /\ \A a : a \in DOMAIN left <=> a \in DOMAIN binding /\ a \notin BoundTo(closed)
      /\ \A a \in DOMAIN left : left[a] = binding[a]
  BY DropMaps
(* An address still bound is bound to a relay left open, and is no peer.   *)
<1>4. ASSUME NEW a \in DOMAIN left
      PROVE  /\ a \in DOMAIN binding
             /\ binding[a][1] \in DOMAIN relays /\ binding[a][1] \notin closed
             /\ relays[binding[a][1]].addr[binding[a][2]] = a
             /\ a # peers[0] /\ a # peers[1]
  <2>1. a \in DOMAIN binding /\ a \notin BoundTo(closed)
    BY <1>3
  <2>2. PICK d \in Cookie, i \in Index : binding[a] = <<d, i>>
    BY <2>1 DEF Types
  <2>3. d \in DOMAIN relays /\ relays[d].addr[i] = a
    BY <2>1, <2>2 DEF RelayOwnership
  <2>4. d \notin closed
    BY <2>1, <2>2, <2>3 DEF BoundTo
  <2>5. a \notin BoundTo(IdleRelays)
    BY <2>1 DEF BoundTo
  <2>6. a \notin Range(peers)
    <3>1. SUFFICES ASSUME a \in Range(peers) PROVE FALSE
      OBVIOUS
    <3>2. d \in Replaced(peers)
      BY <2>1, <2>2, <2>5, <3>1 DEF Replaced
    <3>3. QED  BY <2>3, <2>4, <3>2
  <2>7. peers[0] \in Range(peers) /\ peers[1] \in Range(peers)
    BY <1>1 DEF Range, Types, Session, ActivateRelay, WantsRelay
  <2>8. QED
    BY <2>1, <2>2, <2>3, <2>4, <2>6, <2>7
(* A relay left open keeps its bindings.                                   *)
<1>5. ASSUME NEW d \in DOMAIN relays, d \notin closed, NEW i \in Index
      PROVE  relays[d].addr[i] \in DOMAIN left /\ left[relays[d].addr[i]] = <<d, i>>
  <2>1. /\ relays[d].addr[i] \in DOMAIN binding
        /\ binding[relays[d].addr[i]] = <<d, i>>
    BY DEF RelayOwnership
  <2>2. relays[d].addr[i] \notin BoundTo(closed)
    BY <1>5, <2>1 DEF BoundTo
  <2>3. QED  BY <1>3, <2>1, <2>2
<1> HIDE DEF left, closed, peers
<1>6. /\ \A a : a \in DOMAIN binding' <=> a \in DOMAIN left \/ a = peers[0] \/ a = peers[1]
      /\ binding'[peers[0]] = <<c, 0>> /\ binding'[peers[1]] = <<c, 1>>
      /\ \A a \in DOMAIN left : binding'[a] = left[a]
  BY <1>1, <1>4, PutMaps
<1>7. /\ \A d : d \in DOMAIN relays' <=> d = c \/ (d \in DOMAIN relays /\ d \notin closed)
      /\ relays'[c].addr = peers
      /\ \A d \in DOMAIN relays : d \notin closed => relays'[d] = relays[d]
  BY <1>1, <1>2, DropMaps, PutMaps
<1>8. ASSUME NEW a \in DOMAIN binding'
      PROVE  /\ binding'[a][1] \in DOMAIN relays'
             /\ relays'[binding'[a][1]].addr[binding'[a][2]] = a
  <2>1. CASE a \in DOMAIN left
    <3>1. binding'[a] = binding[a]
      BY <1>3, <1>6, <2>1
    <3>2. QED  BY <1>4, <1>7, <2>1, <3>1
  <2>2. CASE a = peers[0] \/ a = peers[1]
    <3>1. /\ <<c, 0>>[1] = c /\ <<c, 0>>[2] = 0
          /\ <<c, 1>>[1] = c /\ <<c, 1>>[2] = 1
      OBVIOUS
    <3>2. QED  BY <1>6, <1>7, <2>2, <3>1
  <2>3. QED  BY <1>6, <2>1, <2>2
<1>9. ASSUME NEW d \in DOMAIN relays', NEW i \in Index
      PROVE  /\ relays'[d].addr[i] \in DOMAIN binding'
             /\ binding'[relays'[d].addr[i]] = <<d, i>>
  <2>1. CASE d = c
    BY <1>1, <1>6, <1>7, <2>1
  <2>2. CASE d # c
    BY <1>5, <1>6, <1>7, <2>2
  <2>3. QED  BY <2>1, <2>2
<1>10. QED
  BY <1>8, <1>9 DEF RelayOwnership

LEMMA OwnershipStep ==
  Types /\ RelayDeadline /\ RelayOwnership /\ [Next]_vars => RelayOwnership'
<1> SUFFICES ASSUME Types, RelayDeadline, RelayOwnership, [Next]_vars
             PROVE  RelayOwnership'
  OBVIOUS
<1>1. ASSUME NEW S \in SUBSET DOMAIN relays, ClosesOnly(S) PROVE RelayOwnership'
  BY <1>1, ClosingKeepsOwnership
<1>2. CASE UNCHANGED <<relays, binding>>
  BY <1>2 DEF RelayOwnership
<1>3. ASSUME NEW c \in Cookie, ActivateRelay(c) PROVE RelayOwnership'
  BY <1>3, ActivationKeepsOwnership
<1>4. CASE Tick
  <2>1. /\ binding' = binding /\ DOMAIN relays' = DOMAIN relays
        /\ \A c \in DOMAIN relays :
             relays'[c] = [relays[c] EXCEPT !.idle = Older(@, RelayLifetime)]
    BY <1>4 DEF Tick
  <2>2. \A c \in DOMAIN relays : relays'[c].addr = relays[c].addr
    BY <2>1 DEF Types, Relay
  <2>3. QED
    BY <2>1, <2>2 DEF RelayOwnership
<1>5. QED
  BY <1>1, <1>2, <1>3, <1>4, RelaySteps DEF Reschedules, BeginDrain

(* The bindings are the inverse of the relays' endpoints in every          *)
(* reachable state: rematches cannot cross-route two matches.              *)
THEOREM OwnershipCorrect == Spec => []RelayOwnership
<1>1. Init => RelayOwnership
  BY DEF Init, RelayOwnership
<1>2. QED
  BY <1>1, TypesCorrect, DeadlineCorrect, OwnershipStep, PTL DEF Spec
-----------------------------------------------------------------------------
(* The steps once more, by what the switch sees of them: relays that go,   *)
(* endpoints that become ready, the datagram that is passed on, and, of    *)
(* the relays that go, what excuses it.                                    *)
Clears(S) ==
  /\ S \subseteq DOMAIN relays
  /\ \A d : d \in DOMAIN relays' <=> d \in DOMAIN relays /\ d \notin S
  /\ \A d \in DOMAIN relays' : relays'[d].addr = relays[d].addr

Excused(S) ==
  \A d \in S : \/ relays[d].ready = {} \/ relays[d].idle >= RelayLifetime
               \/ stage' # stage

SameReady == \A d \in DOMAIN relays' : relays'[d].ready = relays[d].ready

CloseEffect(S) == Clears(S) /\ Excused(S) /\ SameReady /\ delivered' = {}

ProveEffect(S, c, i) ==
  /\ Clears(S) /\ Excused(S) /\ c \in DOMAIN relays'
  /\ relays'[c].ready = relays[c].ready \cup {i}
  /\ \A d \in DOMAIN relays' : d # c => relays'[d].ready = relays[d].ready
  /\ delivered' = {}

PassEffect(S, c, i) ==
  /\ Clears(S) /\ Excused(S) /\ SameReady /\ c \in DOMAIN relays'
  /\ relays[c].ready = Index
  /\ delivered' = {<<relays[c].addr[i], relays[c].addr[1 - i]>>}

LEMMA FinishClears ==
  \A S, F : S \subseteq DOMAIN relays /\ FinishAnd(S, Drop(relays, S), F)
              => Clears(S) /\ SameReady
  BY DropMaps DEF FinishAnd, Clears, SameReady

LEMMA UpdateClears ==
  \A S, c, r :
    /\ S \subseteq DOMAIN relays /\ c \in DOMAIN relays \ S
    /\ FinishAndUpdate(S, c, r) /\ r.addr = relays[c].addr
    => /\ Clears(S) /\ c \in DOMAIN relays' /\ relays'[c].ready = r.ready
       /\ \A d \in DOMAIN relays' : d # c => relays'[d].ready = relays[d].ready
<1> SUFFICES ASSUME NEW S, NEW c, NEW r,
                    S \subseteq DOMAIN relays, c \in DOMAIN relays \ S,
                    FinishAndUpdate(S, c, r), r.addr = relays[c].addr
             PROVE  /\ Clears(S) /\ c \in DOMAIN relays' /\ relays'[c].ready = r.ready
                    /\ \A d \in DOMAIN relays' : d # c => relays'[d].ready = relays[d].ready
  OBVIOUS
<1> DEFINE left == Drop(relays, S)
<1>1. /\ \A x : x \in DOMAIN left <=> x \in DOMAIN relays /\ x \notin S
      /\ \A x \in DOMAIN left : left[x] = relays[x]
  BY DropMaps
<1>2. relays' = Put(left, c, r)
  BY DEF FinishAndUpdate, FinishAnd
<1> HIDE DEF left
<1>3. /\ \A x : x \in DOMAIN relays' <=> x \in DOMAIN left
      /\ relays'[c] = r
      /\ \A x \in DOMAIN left : x # c => relays'[x] = left[x]
  BY <1>1, <1>2, PutMaps
<1>4. QED
  BY <1>1, <1>3 DEF Clears

LEMMA SweptExcused == /\ Swept \in SUBSET DOMAIN relays /\ Excused(Swept)
                      /\ IdleRelays \in SUBSET DOMAIN relays /\ Excused(IdleRelays)
  BY DEF Swept, IdleRelays, Excused

SwitchEffect ==
  \/ \E S \in SUBSET DOMAIN relays : CloseEffect(S)
  \/ \E S \in SUBSET DOMAIN relays, c \in Cookie, i \in Index :
       ProveEffect(S, c, i) \/ PassEffect(S, c, i)

LEMMA OnlySweepEffect == OnlySweep => SwitchEffect
  BY SweptExcused, FinishClears DEF OnlySweep, FinishRelays, CloseEffect, SwitchEffect

LEMMA PingEffect ==
  ASSUME Types, NEW a \in Addr, NEW c \in Cookie, PingReturned(a, c) PROVE SwitchEffect
<1>1. PICK i \in Index :
        FinishAndUpdate(Swept, c, [relays[c] EXCEPT !.ready = @ \cup {i}, !.idle = 0])
  BY DEF PingReturned
<1> DEFINE r == [relays[c] EXCEPT !.ready = @ \cup {i}, !.idle = 0]
<1>2. c \in DOMAIN relays \ Swept /\ relays[c] \in Relay /\ delivered' = {}
  BY DEF PingReturned, Types
<1>3. r.addr = relays[c].addr /\ r.ready = relays[c].ready \cup {i}
  BY <1>2 DEF Relay
<1>4. FinishAndUpdate(Swept, c, r)
  BY <1>1
<1> HIDE DEF r
<1>5. /\ Clears(Swept) /\ c \in DOMAIN relays' /\ relays'[c].ready = r.ready
      /\ \A d \in DOMAIN relays' : d # c => relays'[d].ready = relays[d].ready
  BY <1>2, <1>3, <1>4, SweptExcused, UpdateClears
<1>6. ProveEffect(Swept, c, i)
  BY <1>2, <1>3, <1>5, SweptExcused DEF ProveEffect
<1>7. QED
  BY <1>6, SweptExcused DEF SwitchEffect

LEMMA ForwardEffect ==
  ASSUME Types, RelayOwnership, NEW a \in Addr, NEW fits \in BOOLEAN, ForwardRelay(a, fits)
  PROVE  SwitchEffect
<1>0. a \in DOMAIN binding
  BY DEF ForwardRelay
<1>1. PICK c \in Cookie, i \in Index : binding[a] = <<c, i>>
  BY <1>0 DEF Types
<1>2. /\ binding[a][1] = c /\ binding[a][2] = i
  BY <1>1
<1> DEFINE r == [relays[c] EXCEPT !.idle = 0]
<1>3. /\ c \in DOMAIN relays \ Swept /\ relays[c] \in Relay
      /\ FinishAndUpdate(Swept, c, r)
      /\ \/ delivered' = {}
         \/ Proven(c) /\ delivered' = {<<a, relays[c].addr[1 - i]>>}
  BY <1>2 DEF ForwardRelay, Types
<1>4. r.addr = relays[c].addr /\ r.ready = relays[c].ready
  BY <1>3 DEF Relay
<1>5. relays[c].addr[i] = a
  BY <1>0, <1>2 DEF RelayOwnership
<1> HIDE DEF r
<1>6. /\ Clears(Swept) /\ c \in DOMAIN relays' /\ relays'[c].ready = r.ready
      /\ \A d \in DOMAIN relays' : d # c => relays'[d].ready = relays[d].ready
  BY <1>3, <1>4, SweptExcused, UpdateClears
<1>7. Clears(Swept) /\ SameReady
  BY <1>4, <1>6 DEF SameReady
<1>8. CASE delivered' = {}
  BY <1>7, <1>8, SweptExcused DEF CloseEffect, SwitchEffect
<1>9. CASE Proven(c) /\ delivered' = {<<a, relays[c].addr[1 - i]>>}
  <2>1. PassEffect(Swept, c, i)
    BY <1>5, <1>6, <1>7, <1>9, SweptExcused DEF PassEffect, Proven
  <2>2. QED  BY <2>1, SweptExcused DEF SwitchEffect
<1>10. QED
  BY <1>3, <1>8, <1>9

LEMMA DatagramEffect == Types /\ RelayOwnership /\ Datagram => SwitchEffect
<1> SUFFICES ASSUME Types, RelayOwnership, Datagram PROVE SwitchEffect
  OBVIOUS
<1>1. CASE Stateless
  BY <1>1, OnlySweepEffect DEF Stateless
<1>2. ASSUME NEW a \in Addr, NEW c \in Cookie, NEW i \in Index,
             \/ InitDraining(a, c, i) \/ InitRefused(a, c, i)
             \/ ReportIgnored(a, c, i) \/ ReportFailure(a, c, i)
      PROVE  SwitchEffect
  BY <1>2, OnlySweepEffect DEF InitDraining, InitRefused, ReportIgnored, ReportFailure
<1>3. ASSUME NEW a \in Addr, NEW c \in Cookie, NEW i \in Index, InitRelayed(a, c, i)
      PROVE  SwitchEffect
  <2> DEFINE r == [relays[c] EXCEPT !.idle = 0]
  <2>1. c \in DOMAIN relays \ Swept /\ relays[c] \in Relay /\ delivered' = {}
    BY <1>3 DEF InitRelayed, Types
  <2>2. r.addr = relays[c].addr /\ r.ready = relays[c].ready
    BY <2>1 DEF Relay
  <2>3. CASE FinishAndUpdate(Swept, c, r)
    <3> HIDE DEF r
    <3>1. Clears(Swept) /\ SameReady
      BY <2>1, <2>2, <2>3, SweptExcused, UpdateClears DEF SameReady
    <3>2. QED  BY <2>1, <3>1, SweptExcused DEF CloseEffect, SwitchEffect
  <2>4. CASE FinishRelays(Swept)
    BY <2>1, <2>4, SweptExcused, FinishClears DEF FinishRelays, CloseEffect, SwitchEffect
  <2>5. QED
    BY <1>3, <2>3, <2>4 DEF InitRelayed
<1>4. ASSUME NEW a \in Addr, NEW c \in Cookie, NEW i \in Index, InitClaimed(a, c, i)
      PROVE  SwitchEffect
  <2>1. Clears(Swept) /\ SameReady /\ delivered' = {}
    BY <1>4, SweptExcused, FinishClears DEF InitClaimed
  <2>2. QED  BY <2>1, SweptExcused DEF CloseEffect, SwitchEffect
<1>5. ASSUME NEW a \in Addr, NEW c \in Cookie, NEW i \in Index, ReportRelayed(a, c, i)
      PROVE  SwitchEffect
  <2> DEFINE r == [relays[c] EXCEPT !.reports = relays[c].reports \cup {i}]
  <2>1. /\ c \in DOMAIN relays \ Swept /\ relays[c] \in Relay /\ delivered' = {}
        /\ FinishAndUpdate(Swept, c, r)
    BY <1>5 DEF ReportRelayed, Committed, Types
  <2>2. r.addr = relays[c].addr /\ r.ready = relays[c].ready
    BY <2>1 DEF Relay
  <2> HIDE DEF r
  <2>3. Clears(Swept) /\ SameReady
    BY <2>1, <2>2, SweptExcused, UpdateClears DEF SameReady
  <2>4. QED  BY <2>1, <2>3, SweptExcused DEF CloseEffect, SwitchEffect
<1>6. ASSUME NEW a \in Addr, NEW c \in Cookie, NEW i \in Index, ReportDirect(a, c, i)
      PROVE  SwitchEffect
  <2> DEFINE closed == Swept \cup (DOMAIN relays \cap {c})
  <2>1. closed \in SUBSET DOMAIN relays /\ Excused(closed)
    BY <1>6, SweptExcused DEF ReportDirect, Committed, Excused
  <2>2. Clears(closed) /\ SameReady /\ delivered' = {}
    BY <1>6, <2>1, FinishClears DEF ReportDirect
  <2> HIDE DEF closed
  <2>3. QED  BY <2>1, <2>2 DEF CloseEffect, SwitchEffect
<1>7. ASSUME NEW a \in Addr, NEW c \in Cookie, PingReturned(a, c) PROVE SwitchEffect
  BY <1>7, PingEffect
<1>8. ASSUME NEW a \in Addr, NEW fits \in BOOLEAN, ForwardRelay(a, fits) PROVE SwitchEffect
  BY <1>8, ForwardEffect
<1>9. QED
  BY <1>1, <1>2, <1>3, <1>4, <1>5, <1>6, <1>7, <1>8 DEF Datagram

(* A new relay closes those that are idle and those it takes an endpoint   *)
(* from, all of them and no other.                                         *)
OpenEffect(S, c, peers) ==
  /\ S \subseteq DOMAIN relays /\ c \notin DOMAIN relays
  /\ peers \in [Index -> Addr] /\ peers[0] # peers[1]
  /\ \A d : d \in DOMAIN relays' <=> d = c \/ (d \in DOMAIN relays /\ d \notin S)
  /\ relays'[c].addr = peers /\ relays'[c].ready = {}
  /\ \A d \in DOMAIN relays : d \notin S => relays'[d] = relays[d]
  /\ \A d \in DOMAIN relays : \A i, j \in Index : relays[d].addr[i] = peers[j] => d \in S
  /\ \A d \in S : \/ relays[d].idle >= RelayLifetime
                  \/ \E i, j \in Index : relays[d].addr[i] = peers[j]
  /\ delivered' = {}

LEMMA ActivateOpens ==
  ASSUME Types, RelayOwnership, NEW c \in Cookie, ActivateRelay(c)
  PROVE  \E S \in SUBSET DOMAIN relays, peers \in [Index -> Addr] : OpenEffect(S, c, peers)
<1> DEFINE peers == sessions[c].peers
           closed == IdleRelays \cup (Replaced(peers) \cap DOMAIN relays)
<1>1. /\ relays' = Put(Drop(relays, closed), c, NewRelay(peers))
      /\ c \notin DOMAIN relays /\ peers[0] # peers[1] /\ delivered' = {}
      /\ c \in DOMAIN sessions /\ Paired(sessions[c])
  BY DEF ActivateRelay, WantsRelay, CanRelay
<1>2. peers \in [Index -> Addr]
  BY <1>1 DEF Types, Session, Paired
<1>3. NewRelay(peers).addr = peers /\ NewRelay(peers).ready = {}
  BY DEF NewRelay
<1>4. closed \in SUBSET DOMAIN relays
  BY DEF IdleRelays
<1>5. ASSUME NEW d \in DOMAIN relays, NEW i \in Index, NEW j \in Index,
             relays[d].addr[i] = peers[j]
      PROVE  d \in closed
  <2>1. peers[j] \in DOMAIN binding /\ binding[peers[j]] = <<d, i>>
    BY <1>5 DEF RelayOwnership
  <2>2. peers[j] \in Range(peers)
    BY <1>2 DEF Range
  <2>3. CASE peers[j] \in BoundTo(IdleRelays)
    BY <2>1, <2>3 DEF BoundTo
  <2>4. CASE peers[j] \notin BoundTo(IdleRelays)
    <3>1. binding[peers[j]][1] \in Replaced(peers)
      BY <2>1, <2>2, <2>4 DEF Replaced
    <3>2. QED  BY <2>1, <3>1
  <2>5. QED  BY <2>3, <2>4
<1>6. ASSUME NEW d \in closed
      PROVE  \/ relays[d].idle >= RelayLifetime
             \/ \E i, j \in Index : relays[d].addr[i] = peers[j]
  <2>1. CASE d \in IdleRelays
    BY <2>1 DEF IdleRelays
  <2>2. CASE d \in Replaced(peers)
    <3>1. PICK a \in Range(peers) \cap DOMAIN binding : d = binding[a][1]
      BY <2>2 DEF Replaced
    <3>2. binding[a][2] \in Index /\ relays[d].addr[binding[a][2]] = a
      BY <3>1 DEF Types, RelayOwnership
    <3>3. PICK j \in Index : a = peers[j]
      BY <1>2, <3>1 DEF Range
    <3>4. QED  BY <3>2, <3>3
  <2>3. QED  BY <2>1, <2>2
<1> HIDE DEF closed, peers
<1>7. /\ \A d : d \in DOMAIN relays' <=> d = c \/ (d \in DOMAIN relays /\ d \notin closed)
      /\ relays'[c] = NewRelay(peers)
      /\ \A d \in DOMAIN relays : d \notin closed => relays'[d] = relays[d]
  BY <1>1, DropMaps, PutMaps
<1>8. OpenEffect(closed, c, peers)
  BY <1>1, <1>2, <1>3, <1>4, <1>5, <1>6, <1>7 DEF OpenEffect
<1>9. QED
  BY <1>2, <1>4, <1>8

LEMMA SwitchSteps ==
  Types /\ RelayDeadline /\ RelayOwnership /\ [Next]_vars =>
    \/ SwitchEffect
    \/ UNCHANGED <<relays, delivered>>
    \/ \E S \in SUBSET DOMAIN relays, c \in Cookie, peers \in [Index -> Addr] :
         OpenEffect(S, c, peers)
<1> DEFINE Goal ==
      \/ SwitchEffect
      \/ UNCHANGED <<relays, delivered>>
      \/ \E S \in SUBSET DOMAIN relays, c \in Cookie, peers \in [Index -> Addr] :
           OpenEffect(S, c, peers)
<1> SUFFICES ASSUME Types, RelayDeadline, RelayOwnership, [Next]_vars PROVE Goal
  OBVIOUS
<1>s. UNCHANGED relays /\ delivered' = {} => Goal
  <2>1. {} \in SUBSET DOMAIN relays
    OBVIOUS
  <2>2. UNCHANGED relays /\ delivered' = {} => CloseEffect({})
    BY DEF CloseEffect, Clears, Excused, SameReady
  <2>3. QED  BY <2>1, <2>2 DEF SwitchEffect
<1>f. \A S, F :
        /\ S \in SUBSET DOMAIN relays /\ Excused(S)
        /\ FinishAnd(S, Drop(relays, S), F) /\ delivered' = {}
        => Goal
  BY FinishClears DEF CloseEffect, SwitchEffect
<1>1. CASE Datagram
  BY <1>1, DatagramEffect
<1>2. ASSUME NEW c \in Cookie, FallbackRefused(c) PROVE Goal
  <2>1. FinishAnd(IdleRelays, Drop(relays, IdleRelays), Drop(fallbacks, IdleRelays \cup {c}))
          /\ delivered' = {}
    BY <1>2 DEF FallbackRefused
  <2>2. QED  BY <2>1, <1>f, SweptExcused
<1>3. ASSUME NEW c \in Cookie, RelayIdleCheck(c) PROVE Goal
  <2>1. CASE c \in DOMAIN relays /\ relays[c].idle >= RelayLifetime
    <3>1. /\ {c} \in SUBSET DOMAIN relays /\ Excused({c}) /\ delivered' = {}
          /\ FinishAnd({c}, Drop(relays, {c}), Drop(fallbacks, {c}))
      BY <1>3, <2>1 DEF RelayIdleCheck, FinishRelays, Excused
    <3>2. QED  BY <3>1, <1>f
  <2>2. CASE ~ (c \in DOMAIN relays /\ relays[c].idle >= RelayLifetime)
    BY <1>3, <2>2, <1>s DEF RelayIdleCheck
  <2>3. QED  BY <2>1, <2>2
<1>4. ASSUME NEW c \in Cookie, FallbackVoid(c) PROVE Goal
  BY <1>4, <1>s DEF FallbackVoid
<1>5. ASSUME NEW c \in Cookie, ActivateRelay(c) PROVE Goal
  BY <1>5, ActivateOpens
<1>6. CASE DrainTimedOut \/ ConnectionLost
  <2>1. DOMAIN relays \in SUBSET DOMAIN relays /\ Excused(DOMAIN relays) /\ delivered' = {}
    BY <1>6 DEF DrainTimedOut, ConnectionLost, Excused
  <2>2. \E F : FinishAnd(DOMAIN relays, Drop(relays, DOMAIN relays), F)
    BY <1>6 DEF DrainTimedOut, ConnectionLost, FinishRelays
  <2>3. QED  BY <2>1, <2>2, <1>f
<1>7. CASE ExpireSessions \/ RequestDrain \/ ServiceFailed \/ RelaysDrained \/ BeginDrain
  BY <1>7, <1>s DEF ExpireSessions, RequestDrain, ServiceFailed, RelaysDrained, BeginDrain,
                    relayVars
<1>8. CASE Tick
  <2>1. /\ delivered' = {} /\ DOMAIN relays' = DOMAIN relays
        /\ \A d \in DOMAIN relays :
             relays'[d] = [relays[d] EXCEPT !.idle = Older(@, RelayLifetime)]
    BY <1>8 DEF Tick
  <2>2. \A d \in DOMAIN relays : /\ relays'[d].addr = relays[d].addr
                                 /\ relays'[d].ready = relays[d].ready
    BY <2>1 DEF Types, Relay
  <2>3. CloseEffect({})
    BY <2>1, <2>2 DEF CloseEffect, Clears, Excused, SameReady
  <2>4. QED  BY <2>3 DEF SwitchEffect
<1>9. CASE UNCHANGED vars
  BY <1>9 DEF vars, relayVars
<1>10. QED
  BY <1>1, <1>2, <1>3, <1>4, <1>5, <1>6, <1>7, <1>8, <1>9 DEF Next, Timer, Shutdown

(* A relay that an endpoint has proven goes only for idleness, with the    *)
(* server, or because a new relay takes over one of its endpoints.         *)
THEOREM CommittedCorrect == Spec => CommittedRelay
<1> DEFINE Stays ==
      \A c \in DOMAIN relays : relays[c].ready # {} =>
        \/ c \in DOMAIN relays' /\ relays[c].ready \subseteq relays'[c].ready
        \/ relays[c].idle >= RelayLifetime
        \/ stage' # stage
        \/ \E d \in DOMAIN relays' \ DOMAIN relays :
             Range(relays'[d].addr) \cap Range(relays[c].addr) # {}
<1>1. Types /\ RelayDeadline /\ RelayOwnership /\ [Next]_vars => [Stays]_vars
  <2> SUFFICES ASSUME Types, RelayDeadline, RelayOwnership, [Next]_vars,
                      NEW c \in DOMAIN relays, relays[c].ready # {},
                      ~ (c \in DOMAIN relays' /\ relays[c].ready \subseteq relays'[c].ready)
               PROVE  \/ relays[c].idle >= RelayLifetime
                      \/ stage' # stage
                      \/ \E d \in DOMAIN relays' \ DOMAIN relays :
                           Range(relays'[d].addr) \cap Range(relays[c].addr) # {}
    OBVIOUS
  <2>1. CASE SwitchEffect
    <3>1. PICK S \in SUBSET DOMAIN relays :
            /\ Clears(S) /\ Excused(S)
            /\ \A d \in DOMAIN relays' : relays[d].ready \subseteq relays'[d].ready
      BY <2>1 DEF SwitchEffect, CloseEffect, ProveEffect, PassEffect, SameReady
    <3>2. c \in S
      BY <3>1 DEF Clears
    <3>3. QED  BY <3>1, <3>2 DEF Excused
  <2>2. ASSUME NEW S \in SUBSET DOMAIN relays, NEW d \in Cookie,
               NEW peers \in [Index -> Addr], OpenEffect(S, d, peers)
        PROVE  \/ relays[c].idle >= RelayLifetime
               \/ \E x \in DOMAIN relays' \ DOMAIN relays :
                    Range(relays'[x].addr) \cap Range(relays[c].addr) # {}
    <3>1. c \in S
      BY <2>2 DEF OpenEffect
    <3>2. CASE relays[c].idle >= RelayLifetime
      BY <3>2
    <3>3. ASSUME NEW i \in Index, NEW j \in Index, relays[c].addr[i] = peers[j]
          PROVE  \E x \in DOMAIN relays' \ DOMAIN relays :
                   Range(relays'[x].addr) \cap Range(relays[c].addr) # {}
      <4>1. peers[j] \in Range(peers)
        BY DEF Range
      <4>2. relays[c].addr \in [Index -> Addr]
        BY DEF Types, Relay
      <4>3. peers[j] \in Range(relays[c].addr)
        BY <3>3, <4>2 DEF Range
      <4>4. d \in DOMAIN relays' \ DOMAIN relays /\ relays'[d].addr = peers
        BY <2>2 DEF OpenEffect
      <4>5. QED  BY <4>1, <4>3, <4>4
    <3>4. QED  BY <2>2, <3>1, <3>2, <3>3 DEF OpenEffect
  <2>3. QED
    BY <2>1, <2>2, SwitchSteps
<1>2. QED
  BY <1>1, TypesCorrect, DeadlineCorrect, OwnershipCorrect, PTL DEF Spec, CommittedRelay

(* The pairs and the proven addresses of a relay table, and what keeps the *)
(* pairs apart.                                                            *)
Joined(R) == {Range(R[c].addr) : c \in DOMAIN R}

Proving(R) == UNION {{R[c].addr[i] : i \in R[c].ready} : c \in DOMAIN R}

Switchboard(R) ==
  /\ \A c \in DOMAIN R : R[c].addr \in [Index -> Addr] /\ R[c].ready \subseteq Index
  /\ \A c, d \in DOMAIN R : \A i, j \in Index :
       R[c].addr[i] = R[d].addr[j] => c = d /\ i = j

LEMMA OwnedSwitchboard == Types /\ RelayOwnership => Switchboard(relays)
<1> SUFFICES ASSUME Types, RelayOwnership PROVE Switchboard(relays)
  OBVIOUS
<1>1. \A c \in DOMAIN relays : relays[c].addr \in [Index -> Addr] /\ relays[c].ready \subseteq Index
  BY DEF Types, Relay
<1>2. ASSUME NEW c \in DOMAIN relays, NEW d \in DOMAIN relays, NEW i \in Index, NEW j \in Index,
             relays[c].addr[i] = relays[d].addr[j]
      PROVE  c = d /\ i = j
  <2>1. <<c, i>> = <<d, j>>
    BY <1>2 DEF RelayOwnership
  <2>2. QED  BY <2>1
<1>3. QED
  BY <1>1, <1>2 DEF Switchboard

LEMMA JoinedMembers ==
  \A R, p : Switchboard(R) =>
    (p \in Joined(R) <=> \E c \in DOMAIN R : p = {R[c].addr[0], R[c].addr[1]})
<1> SUFFICES ASSUME NEW R, NEW p, Switchboard(R)
             PROVE  p \in Joined(R) <=> \E c \in DOMAIN R : p = {R[c].addr[0], R[c].addr[1]}
  OBVIOUS
<1>1. \A f \in [Index -> Addr] : Range(f) = {f[0], f[1]}
  BY DEF Range, Index
<1>2. \A c \in DOMAIN R : Range(R[c].addr) = {R[c].addr[0], R[c].addr[1]}
  BY <1>1 DEF Switchboard
<1>3. QED
  BY <1>2 DEF Joined

(* Taking the pairs of the relays of S out leaves the pairs and the proven *)
(* addresses of the others.                                                *)
PairsOf(R, S) == {{R[c].addr[0], R[c].addr[1]} : c \in S}

Parts(R, S) ==
  /\ PairsOf(R, S) \in SUBSET Joined(R)
  /\ \A p : p \in Joined(R) \ PairsOf(R, S) <=>
              \E c \in DOMAIN R \ S : p = {R[c].addr[0], R[c].addr[1]}
  /\ \A x : x \in Proving(R) \ UNION PairsOf(R, S) <=>
              \E c \in DOMAIN R \ S : \E i \in R[c].ready : x = R[c].addr[i]

LEMMA Parted == \A R, S : Switchboard(R) /\ S \subseteq DOMAIN R => Parts(R, S)
<1> SUFFICES ASSUME NEW R, NEW S, Switchboard(R), S \subseteq DOMAIN R
             PROVE  Parts(R, S)
  OBVIOUS
<1>1. \A p : p \in PairsOf(R, S) <=> \E d \in S : p = {R[d].addr[0], R[d].addr[1]}
  BY DEF PairsOf
<1>2. 0 \in Index /\ 1 \in Index /\ \A i \in Index : i = 0 \/ i = 1
  BY DEF Index
<1>3. \A c, d \in DOMAIN R : R[c].addr[0] \in {R[d].addr[0], R[d].addr[1]} => c = d
  BY <1>2 DEF Switchboard
<1>4. \A x : x \in UNION PairsOf(R, S) <=> \E d \in S : x = R[d].addr[0] \/ x = R[d].addr[1]
  <2>1. \A x : x \in UNION PairsOf(R, S) <=> \E p \in PairsOf(R, S) : x \in p
    OBVIOUS
  <2>2. ASSUME NEW d \in S, NEW x, x = R[d].addr[0] \/ x = R[d].addr[1]
        PROVE  x \in UNION PairsOf(R, S)
    <3>1. {R[d].addr[0], R[d].addr[1]} \in PairsOf(R, S)
      BY <1>1
    <3>2. QED  BY <2>1, <2>2, <3>1
  <2>3. ASSUME NEW x, x \in UNION PairsOf(R, S)
        PROVE  \E d \in S : x = R[d].addr[0] \/ x = R[d].addr[1]
    BY <1>1, <2>1, <2>3
  <2>4. QED  BY <2>2, <2>3
<1>5. \A x : x \in Proving(R) <=> \E c \in DOMAIN R : \E i \in R[c].ready : x = R[c].addr[i]
  BY DEF Proving
<1>6. \A p : p \in Joined(R) <=> \E c \in DOMAIN R : p = {R[c].addr[0], R[c].addr[1]}
  BY JoinedMembers
<1>7. PairsOf(R, S) \in SUBSET Joined(R)
  BY <1>1, <1>6
<1>8. ASSUME NEW p
      PROVE  p \in Joined(R) \ PairsOf(R, S) <=>
               \E c \in DOMAIN R \ S : p = {R[c].addr[0], R[c].addr[1]}
  <2>1. ASSUME NEW c \in DOMAIN R \ S, p = {R[c].addr[0], R[c].addr[1]}
        PROVE  p \notin PairsOf(R, S)
    <3>1. R[c].addr[0] \in p
      BY <2>1
    <3>2. QED  BY <1>1, <1>3, <3>1
  <2>2. ASSUME NEW c \in DOMAIN R, p = {R[c].addr[0], R[c].addr[1]}, p \notin PairsOf(R, S)
        PROVE  c \notin S
    BY <1>1, <2>2
  <2>3. ASSUME p \in Joined(R) \ PairsOf(R, S)
        PROVE  \E c \in DOMAIN R \ S : p = {R[c].addr[0], R[c].addr[1]}
    BY <1>6, <2>2, <2>3
  <2>4. ASSUME NEW c \in DOMAIN R \ S, p = {R[c].addr[0], R[c].addr[1]}
        PROVE  p \in Joined(R)
    BY <1>6, <2>4
  <2>5. QED
    BY <2>1, <2>3, <2>4
<1>9. ASSUME NEW x
      PROVE  x \in Proving(R) \ UNION PairsOf(R, S) <=>
               \E c \in DOMAIN R \ S : \E i \in R[c].ready : x = R[c].addr[i]
  <2>1. ASSUME NEW c \in DOMAIN R \ S, NEW i \in R[c].ready, x = R[c].addr[i]
        PROVE  x \notin UNION PairsOf(R, S)
    BY <1>2, <1>4, <2>1 DEF Switchboard
  <2>2. ASSUME NEW c \in S, NEW i \in R[c].ready, x = R[c].addr[i]
        PROVE  x \in UNION PairsOf(R, S)
    BY <1>2, <1>4, <2>2 DEF Switchboard
  <2>3. QED
    BY <1>5, <2>1, <2>2
<1>10. QED
  BY <1>7, <1>8, <1>9 DEF Parts

(* The two tables of a step, compared as the switch sees them.             *)
LEMMA ClearedSwitch ==
  ASSUME Switchboard(relays), NEW S, Clears(S),
         \A d \in DOMAIN relays' : relays'[d].ready \subseteq Index
  PROVE  /\ Switchboard(relays')
         /\ Joined(relays') = Joined(relays) \ PairsOf(relays, S)
         /\ SameReady => Proving(relays') = Proving(relays) \ UNION PairsOf(relays, S)
<1>1. Switchboard(relays')
  BY DEF Switchboard, Clears
<1>2. S \subseteq DOMAIN relays
  BY DEF Clears
<1>3. /\ \A p : p \in Joined(relays) \ PairsOf(relays, S) <=>
                \E c \in DOMAIN relays \ S : p = {relays[c].addr[0], relays[c].addr[1]}
      /\ \A x : x \in Proving(relays) \ UNION PairsOf(relays, S) <=>
                \E c \in DOMAIN relays \ S : \E i \in relays[c].ready : x = relays[c].addr[i]
  <2>1. Parts(relays, S)
    BY <1>2, Parted
  <2>2. QED  BY <2>1 DEF Parts
<1>4. \A p : p \in Joined(relays') <=>
               \E c \in DOMAIN relays' : p = {relays'[c].addr[0], relays'[c].addr[1]}
  BY <1>1, JoinedMembers
<1>5. /\ \A c : c \in DOMAIN relays' <=> c \in DOMAIN relays \ S
      /\ \A c \in DOMAIN relays' : relays'[c].addr = relays[c].addr
  BY DEF Clears
<1>6. Joined(relays') = Joined(relays) \ PairsOf(relays, S)
  <2>1. \A p : p \in Joined(relays') <=> p \in Joined(relays) \ PairsOf(relays, S)
    BY <1>3, <1>4, <1>5
  <2>2. QED  BY <2>1
<1>7. ASSUME SameReady
      PROVE  Proving(relays') = Proving(relays) \ UNION PairsOf(relays, S)
  <2>1. \A x : x \in Proving(relays') <=>
               \E c \in DOMAIN relays' : \E i \in relays'[c].ready : x = relays'[c].addr[i]
    BY DEF Proving
  <2>2. \A c \in DOMAIN relays' : relays'[c].ready = relays[c].ready
    BY <1>7 DEF SameReady
  <2>3. \A x : x \in Proving(relays') <=> x \in Proving(relays) \ UNION PairsOf(relays, S)
    BY <1>3, <1>5, <2>1, <2>2
  <2>4. QED  BY <2>3
<1>8. QED
  BY <1>1, <1>6, <1>7

(* Each effect is a step of the switch.                                    *)
LEMMA SwitchView ==
  \A S : RelaySwitch!Closing(PairsOf(relays, S)) <=>
           Joined(relays') = Joined(relays) \ PairsOf(relays, S)
  BY DEF RelaySwitch!Closing, Joined

LEMMA CloseMaps ==
  ASSUME Switchboard(relays), NEW S, CloseEffect(S) PROVE RelaySwitch!Close
<1>1. \A d \in DOMAIN relays' : relays'[d].ready \subseteq Index
  BY DEF CloseEffect, Clears, SameReady, Switchboard
<1>2. /\ Joined(relays') = Joined(relays) \ PairsOf(relays, S)
      /\ Proving(relays') = Proving(relays) \ UNION PairsOf(relays, S)
  BY <1>1, ClearedSwitch DEF CloseEffect
<1>3. PairsOf(relays, S) \in SUBSET Joined(relays)
  <2>1. S \subseteq DOMAIN relays
    BY DEF CloseEffect, Clears
  <2>2. Parts(relays, S)
    BY <2>1, Parted
  <2>3. QED  BY <2>2 DEF Parts
<1>4. delivered' = {}
  BY DEF CloseEffect
<1>5. QED
  BY <1>2, <1>3, <1>4, SwitchView DEF RelaySwitch!Close, Joined, Proving

LEMMA ProveMaps ==
  ASSUME Switchboard(relays), NEW S, NEW c, NEW i \in Index, ProveEffect(S, c, i)
  PROVE  \E a \in Addr : RelaySwitch!Prove(a)
<1> DEFINE T == PairsOf(relays, S)
<1>0. c \in DOMAIN relays
  BY DEF ProveEffect, Clears
<1>a. PICK a \in Addr : a = relays[c].addr[i]
  BY <1>0 DEF Switchboard
<1>1. /\ Clears(S) /\ c \in DOMAIN relays' /\ c \in DOMAIN relays /\ c \notin S
      /\ relays'[c].ready = relays[c].ready \cup {i}
      /\ \A d \in DOMAIN relays' : d # c => relays'[d].ready = relays[d].ready
      /\ delivered' = {}
  BY DEF ProveEffect, Clears
<1>2. \A d \in DOMAIN relays' : relays'[d].ready \subseteq Index
  BY <1>1 DEF Clears, Switchboard
<1>3. /\ Switchboard(relays') /\ Joined(relays') = Joined(relays) \ T
  BY <1>1, <1>2, ClearedSwitch
<1>4. Parts(relays, S)
  BY <1>1, Parted DEF Clears
<1>5. a \in UNION (Joined(relays) \ T)
  <2>1. {relays[c].addr[0], relays[c].addr[1]} \in Joined(relays) \ T
    BY <1>1, <1>4 DEF Parts
  <2>2. a \in {relays[c].addr[0], relays[c].addr[1]}
    BY <1>a DEF Index
  <2>3. QED  BY <2>1, <2>2
<1>6. Proving(relays') = (Proving(relays) \ UNION T) \cup {a}
  <2>1. \A x : x \in Proving(relays') <=>
               \E d \in DOMAIN relays' : \E j \in relays'[d].ready : x = relays'[d].addr[j]
    BY DEF Proving
  <2>2. \A x : x \in Proving(relays) \ UNION T <=>
               \E d \in DOMAIN relays \ S : \E j \in relays[d].ready : x = relays[d].addr[j]
    BY <1>4 DEF Parts
  <2>3. /\ \A d : d \in DOMAIN relays' <=> d \in DOMAIN relays \ S
        /\ \A d \in DOMAIN relays' : relays'[d].addr = relays[d].addr
    BY <1>1 DEF Clears
  <2>4. \A d \in DOMAIN relays' : \A j : j \in relays'[d].ready <=>
          j \in relays[d].ready \/ (d = c /\ j = i)
    BY <1>1
  <2> HIDE DEF T
  <2>5. ASSUME NEW x, x \in Proving(relays')
        PROVE  x \in Proving(relays) \ UNION T \/ x = a
    BY <1>a, <2>1, <2>2, <2>3, <2>4, <2>5
  <2>6. ASSUME NEW x, x \in Proving(relays) \ UNION T \/ x = a
        PROVE  x \in Proving(relays')
    BY <1>1, <1>a, <2>1, <2>2, <2>3, <2>4, <2>6
  <2>7. QED  BY <2>5, <2>6
<1>7. T \in SUBSET Joined(relays)
  BY <1>4 DEF Parts
<1>8. RelaySwitch!Prove(a)
  <2>1. RelaySwitch!Closing(T)
    BY <1>3, SwitchView
  <2> HIDE DEF T
  <2>2. QED
    BY <1>1, <1>5, <1>6, <1>7, <2>1 DEF RelaySwitch!Prove, Joined, Proving
<1>9. QED
  BY <1>8

LEMMA PassMaps ==
  ASSUME Switchboard(relays), NEW S, NEW c, NEW i \in Index, PassEffect(S, c, i)
  PROVE  \E a, b \in Addr : RelaySwitch!Relay(a, b)
<1> DEFINE T == PairsOf(relays, S)
<1>0. c \in DOMAIN relays /\ 1 - i \in Index /\ (i = 0 \/ i = 1)
  BY DEF PassEffect, Clears, Index
<1>a. PICK a \in Addr : a = relays[c].addr[i]
  BY <1>0 DEF Switchboard
<1>b. PICK b \in Addr : b = relays[c].addr[1 - i]
  BY <1>0 DEF Switchboard
<1>1. /\ Clears(S) /\ SameReady /\ c \in DOMAIN relays /\ c \notin S
      /\ relays[c].ready = Index /\ delivered' = {<<a, b>>}
  BY <1>a, <1>b DEF PassEffect, Clears
<1>2. \A d \in DOMAIN relays' : relays'[d].ready \subseteq Index
  BY <1>1 DEF Clears, SameReady, Switchboard
<1>3. /\ Joined(relays') = Joined(relays) \ T
      /\ Proving(relays') = Proving(relays) \ UNION T
  BY <1>1, <1>2, ClearedSwitch
<1>4. Parts(relays, S)
  BY <1>1, Parted DEF Clears
<1>5. {a, b} \in Joined(relays) \ T
  <2>1. {relays[c].addr[0], relays[c].addr[1]} \in Joined(relays) \ T
    BY <1>1, <1>4 DEF Parts
  <2>2. {a, b} = {relays[c].addr[0], relays[c].addr[1]}
    BY <1>0, <1>a, <1>b
  <2>3. QED  BY <2>1, <2>2
<1>6. {a, b} \subseteq Proving(relays)
  BY <1>0, <1>1, <1>a, <1>b DEF Proving
<1>7. T \in SUBSET Joined(relays)
  BY <1>4 DEF Parts
<1>8. RelaySwitch!Relay(a, b)
  <2>1. RelaySwitch!Closing(T)
    BY <1>3, SwitchView
  <2> HIDE DEF T
  <2>2. QED
    BY <1>1, <1>3, <1>5, <1>6, <1>7, <2>1 DEF RelaySwitch!Relay, Joined, Proving
<1>9. QED
  BY <1>8

LEMMA OpenMaps ==
  ASSUME Switchboard(relays), NEW S, NEW c, NEW peers, OpenEffect(S, c, peers)
  PROVE  \E a, b \in Addr : RelaySwitch!Open(a, b)
<1> DEFINE T == PairsOf(relays, S)
           a == peers[0]
           b == peers[1]
<1>1. /\ S \subseteq DOMAIN relays /\ c \notin DOMAIN relays
      /\ peers \in [Index -> Addr] /\ a # b
      /\ \A d : d \in DOMAIN relays' <=> d = c \/ (d \in DOMAIN relays /\ d \notin S)
      /\ relays'[c].addr = peers /\ relays'[c].ready = {}
      /\ \A d \in DOMAIN relays : d \notin S => relays'[d] = relays[d]
      /\ \A d \in DOMAIN relays : \A i, j \in Index : relays[d].addr[i] = peers[j] => d \in S
      /\ delivered' = {}
  BY DEF OpenEffect
<1>2. 0 \in Index /\ 1 \in Index /\ \A i \in Index : i = 0 \/ i = 1
  BY DEF Index
<1>3. a \in Addr /\ b \in Addr
  BY <1>1, <1>2
<1>4. Parts(relays, S)
  BY <1>1, Parted
<1>5. Switchboard(relays')
  <2>1. \A d \in DOMAIN relays' : relays'[d].addr \in [Index -> Addr]
                                  /\ relays'[d].ready \subseteq Index
    BY <1>1 DEF Switchboard
  <2>2. ASSUME NEW d \in DOMAIN relays', NEW e \in DOMAIN relays',
               NEW i \in Index, NEW j \in Index, relays'[d].addr[i] = relays'[e].addr[j]
        PROVE  d = e /\ i = j
    <3>1. CASE d # c /\ e # c
      BY <1>1, <2>2, <3>1 DEF Switchboard
    <3>2. CASE d = c /\ e = c
      BY <1>1, <1>2, <2>2, <3>2
    <3>3. CASE d = c /\ e # c
      BY <1>1, <2>2, <3>3
    <3>4. CASE d # c /\ e = c
      BY <1>1, <2>2, <3>4
    <3>5. QED  BY <3>1, <3>2, <3>3, <3>4
  <2>3. QED  BY <2>1, <2>2 DEF Switchboard
<1>6. Joined(relays') = (Joined(relays) \ T) \cup {{a, b}}
  <2>1. \A p : p \in Joined(relays') <=>
               \E d \in DOMAIN relays' : p = {relays'[d].addr[0], relays'[d].addr[1]}
    BY <1>5, JoinedMembers
  <2>2. \A p : p \in Joined(relays) \ T <=>
               \E d \in DOMAIN relays \ S : p = {relays[d].addr[0], relays[d].addr[1]}
    BY <1>4 DEF Parts
  <2> HIDE DEF T
  <2>3. ASSUME NEW p, p \in Joined(relays')
        PROVE  p \in Joined(relays) \ T \/ p = {a, b}
    BY <1>1, <2>1, <2>2, <2>3
  <2>4. ASSUME NEW p, p \in Joined(relays) \ T \/ p = {a, b}
        PROVE  p \in Joined(relays')
    BY <1>1, <2>1, <2>2, <2>4
  <2>5. QED  BY <2>3, <2>4
<1>7. Proving(relays') = Proving(relays) \ UNION T
  <2>1. \A x : x \in Proving(relays') <=>
               \E d \in DOMAIN relays' : \E j \in relays'[d].ready : x = relays'[d].addr[j]
    BY DEF Proving
  <2>2. \A x : x \in Proving(relays) \ UNION T <=>
               \E d \in DOMAIN relays \ S : \E j \in relays[d].ready : x = relays[d].addr[j]
    BY <1>4 DEF Parts
  <2> HIDE DEF T
  <2>3. ASSUME NEW x, x \in Proving(relays') PROVE x \in Proving(relays) \ UNION T
    BY <1>1, <2>1, <2>2, <2>3
  <2>4. ASSUME NEW x, x \in Proving(relays) \ UNION T PROVE x \in Proving(relays')
    BY <1>1, <2>1, <2>2, <2>4
  <2>5. QED  BY <2>3, <2>4
<1>8. \A p \in Joined(relays) : p \cap {a, b} # {} => p \in T
  <2>1. ASSUME NEW p \in Joined(relays), p \cap {a, b} # {} PROVE p \in T
    <3>1. PICK d \in DOMAIN relays : p = {relays[d].addr[0], relays[d].addr[1]}
      BY JoinedMembers
    <3>2. PICK i \in Index, j \in Index : relays[d].addr[i] = peers[j]
      BY <1>2, <2>1, <3>1
    <3>3. d \in S
      BY <1>1, <3>2
    <3>4. QED  BY <3>1, <3>3 DEF PairsOf
  <2>2. QED  BY <2>1
<1>9. T \in SUBSET Joined(relays)
  BY <1>4 DEF Parts
<1>10. RelaySwitch!Open(a, b)
  <2> HIDE DEF T, a, b
  <2>1. QED
    BY <1>1, <1>6, <1>7, <1>8, <1>9 DEF RelaySwitch!Open, Joined, Proving
<1>11. QED
  BY <1>3, <1>10

(* The relay plane implements the switch: datagrams pass only between the  *)
(* two proven endpoints of one relay, and relays join disjoint pairs.      *)
THEOREM SwitchCorrect == Spec => ImplementsSwitch
<1>1. Init => RelaySwitch!Init
  <2>1. Init => DOMAIN relays = {} /\ delivered = {}
    BY DEF Init
  <2>2. QED  BY <2>1 DEF RelaySwitch!Init
<1>2. Types /\ RelayDeadline /\ RelayOwnership /\ [Next]_vars
        => [RelaySwitch!Next]_RelaySwitch!vars
  <2> SUFFICES ASSUME Types, RelayDeadline, RelayOwnership, [Next]_vars
               PROVE  [RelaySwitch!Next]_RelaySwitch!vars
    OBVIOUS
  <2>1. Switchboard(relays)
    BY OwnedSwitchboard
  <2>2. CASE SwitchEffect
    <3>1. ASSUME NEW S, CloseEffect(S) PROVE RelaySwitch!Next
      BY <2>1, <3>1, CloseMaps DEF RelaySwitch!Next
    <3>2. ASSUME NEW S, NEW c, NEW i \in Index, ProveEffect(S, c, i) PROVE RelaySwitch!Next
      BY <2>1, <3>2, ProveMaps DEF RelaySwitch!Next
    <3>3. ASSUME NEW S, NEW c, NEW i \in Index, PassEffect(S, c, i) PROVE RelaySwitch!Next
      BY <2>1, <3>3, PassMaps DEF RelaySwitch!Next
    <3>4. QED  BY <2>2, <3>1, <3>2, <3>3 DEF SwitchEffect
  <2>3. CASE UNCHANGED <<relays, delivered>>
    BY <2>3 DEF RelaySwitch!vars
  <2>4. ASSUME NEW S, NEW c, NEW peers, OpenEffect(S, c, peers) PROVE RelaySwitch!Next
    BY <2>1, <2>4, OpenMaps DEF RelaySwitch!Next
  <2>5. QED
    BY <2>2, <2>3, <2>4, SwitchSteps
<1>3. QED
  BY <1>1, <1>2, TypesCorrect, DeadlineCorrect, OwnershipCorrect, PTL
     DEF Spec, ImplementsSwitch, RelaySwitch!Spec
=============================================================================
