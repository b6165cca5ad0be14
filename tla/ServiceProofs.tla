---------------------------- MODULE ServiceProofs ----------------------------
(***************************************************************************)
(* Proofs about Service for any numbers of connections, sources, places,   *)
(* relays and ticks, with and without listeners that wait.                 *)
(*                                                                         *)
(* Types and counters belong together: that a counter does not fall below  *)
(* zero is known from the connection whose place it gives back.  Taken is  *)
(* a set of connections, so a step that changes one connection adds one    *)
(* element, removes one, or leaves the set as it is.  It holds the lost    *)
(* connections besides Places: those never give back what they took, and   *)
(* with them the counters are known wherever handlers stop.                *)
(***************************************************************************)
EXTENDS Service, FiniteSetTheorems, TLAPS

-----------------------------------------------------------------------------
(* The connections that took a place and have not given it back: those     *)
(* that hold one and those whose handler stopped before the release.       *)
Taking == Holding \cup {"lost"}
Taken(v) == {c \in Conn : Of(c) = v /\ conn[c] \in Taking}
TakenFrom(v, s) == {c \in Taken(v) : host[c] = s}

TakenCounted ==
  \A v \in Service :
    /\ total[v] = Cardinality(Taken(v))
    /\ \A s \in Source : perSource[v][s] = Cardinality(TakenFrom(v, s))

(* The sets that are counted are finite.                                   *)
LEMMA FiniteTaken ==
  \A v, s : IsFiniteSet(Taken(v)) /\ IsFiniteSet(TakenFrom(v, s))
<1>1. IsFiniteSet(Conn)
  BY ServiceConstants, FS_Union DEF Conn
<1>2. \A v, s : Taken(v) \subseteq Conn /\ TakenFrom(v, s) \subseteq Conn
  BY DEF Taken, TakenFrom
<1> QED
  BY <1>1, <1>2, FS_Subset

(* Nobody takes or gives back a place.                                     *)
LEMMA TakenKept ==
  ASSUME TakenCounted, UNCHANGED admission,
         \A c \in Conn : conn'[c] \in Taking <=> conn[c] \in Taking,
         \A c \in Conn : conn[c] \in Taking => host'[c] = host[c]
  PROVE  TakenCounted'
<1>1. \A v \in Service : Taken(v)' = Taken(v)
  BY DEF Taken
<1>2. \A v \in Service, s \in Source : TakenFrom(v, s)' = TakenFrom(v, s)
  BY <1>1 DEF Taken, TakenFrom
<1> QED
  BY <1>1, <1>2 DEF TakenCounted, admission

(* One connection takes a place.                                           *)
LEMMA PlaceTaken ==
  ASSUME TypeOK, TakenCounted, NEW c \in Conn, NEW s \in Source,
         host[c] = s, host' = host, conn[c] \notin Taking,
         conn' = [conn EXCEPT ![c] = "open"],
         total' = [total EXCEPT ![Of(c)] = @ + 1],
         perSource' = [perSource EXCEPT ![Of(c)][s] = @ + 1]
  PROVE  TakenCounted'
<1>1. \A v \in Service : Taken(v)' = IF v = Of(c) THEN Taken(v) \cup {c} ELSE Taken(v)
  BY DEF Taken, Taking, Holding, TypeOK
<1>2. \A v \in Service, t \in Source :
        TakenFrom(v, t)' = IF v = Of(c) /\ t = s THEN TakenFrom(v, t) \cup {c}
                                             ELSE TakenFrom(v, t)
  BY <1>1 DEF TakenFrom
<1>3. \A v, t : c \notin Taken(v) /\ c \notin TakenFrom(v, t)
  BY DEF Taken, TakenFrom
<1>4. \A v, t : /\ Cardinality(Taken(v) \cup {c}) = Cardinality(Taken(v)) + 1
                /\ Cardinality(TakenFrom(v, t) \cup {c}) = Cardinality(TakenFrom(v, t)) + 1
  BY <1>3, FiniteTaken, FS_AddElement
<1>5. /\ \A v \in Service : total[v] = Cardinality(Taken(v))
      /\ \A v \in Service, t \in Source : perSource[v][t] = Cardinality(TakenFrom(v, t))
  BY DEF TakenCounted
<1>6. \A v \in Service : total'[v] = IF v = Of(c) THEN total[v] + 1 ELSE total[v]
  BY DEF TypeOK
<1>7. \A v \in Service, t \in Source :
        perSource'[v][t] = IF v = Of(c) /\ t = s THEN perSource[v][t] + 1 ELSE perSource[v][t]
  BY DEF TypeOK
<1>8. \A v \in Service : total'[v] = Cardinality(Taken(v)')
  BY <1>1, <1>4, <1>5, <1>6
<1>9. \A v \in Service, t \in Source : perSource'[v][t] = Cardinality(TakenFrom(v, t)')
  BY <1>2, <1>4, <1>5, <1>7
<1> QED
  BY <1>8, <1>9 DEF TakenCounted

(* One connection gives its place back.                                    *)
LEMMA PlaceReturned ==
  ASSUME TypeOK, TakenCounted, NEW c \in Conn, NEW s \in Source,
         host[c] = s, host' = [host EXCEPT ![c] = None], conn[c] \in Taking,
         conn' = [conn EXCEPT ![c] = "none"],
         total' = [total EXCEPT ![Of(c)] = @ - 1],
         perSource' = [perSource EXCEPT ![Of(c)][s] = @ - 1]
  PROVE  /\ TakenCounted'
         /\ total[Of(c)] > 0 /\ perSource[Of(c)][s] > 0
<1>1. \A v \in Service : Taken(v)' = IF v = Of(c) THEN Taken(v) \ {c} ELSE Taken(v)
  BY DEF Taken, Taking, Holding, TypeOK
<1>2. \A v \in Service, t \in Source :
        TakenFrom(v, t)' = IF v = Of(c) /\ t = s THEN TakenFrom(v, t) \ {c}
                                             ELSE TakenFrom(v, t)
  <2>1. \A v \in Service : \A d \in Taken(v)' : d # c /\ d \in Conn
    BY <1>1 DEF Taken, Taking, Holding, TypeOK
  <2>2. \A d \in Conn : d # c => host'[d] = host[d]
    BY DEF TypeOK
  <2> QED
    BY <1>1, <2>1, <2>2 DEF TakenFrom, Taken
<1>3. c \in Taken(Of(c)) /\ c \in TakenFrom(Of(c), s) /\ Of(c) \in Service
  BY DEF Taken, TakenFrom, Of, Service
<1>4. /\ Cardinality(Taken(Of(c)) \ {c}) = Cardinality(Taken(Of(c))) - 1
      /\ Cardinality(TakenFrom(Of(c), s) \ {c}) = Cardinality(TakenFrom(Of(c), s)) - 1
      /\ Cardinality(Taken(Of(c)) \ {c}) \in Nat
      /\ Cardinality(TakenFrom(Of(c), s) \ {c}) \in Nat
      /\ Cardinality(Taken(Of(c))) \in Nat
      /\ Cardinality(TakenFrom(Of(c), s)) \in Nat
  BY <1>3, FiniteTaken, FS_RemoveElement, FS_CardinalityType
<1>5. /\ \A v \in Service : total[v] = Cardinality(Taken(v))
      /\ \A v \in Service, t \in Source : perSource[v][t] = Cardinality(TakenFrom(v, t))
  BY DEF TakenCounted
<1>6. \A v \in Service : total'[v] = IF v = Of(c) THEN total[v] - 1 ELSE total[v]
  BY DEF TypeOK
<1>7. \A v \in Service, t \in Source :
        perSource'[v][t] = IF v = Of(c) /\ t = s THEN perSource[v][t] - 1 ELSE perSource[v][t]
  BY DEF TypeOK
<1>8. \A v \in Service : total'[v] = Cardinality(Taken(v)')
  BY <1>1, <1>4, <1>5, <1>6
<1>9. ASSUME NEW v \in Service, NEW t \in Source
      PROVE  perSource'[v][t] = Cardinality(TakenFrom(v, t)')
  <2>1. CASE v = Of(c) /\ t = s
    BY <1>2, <1>4, <1>5, <1>7, <2>1
  <2>2. CASE ~(v = Of(c) /\ t = s)
    BY <1>2, <1>5, <1>7, <2>2
  <2> QED
    BY <2>1, <2>2
<1>10. total[Of(c)] > 0 /\ perSource[Of(c)][s] > 0
  BY <1>3, <1>4, <1>5
<1> QED
  BY <1>8, <1>9, <1>10 DEF TakenCounted

-----------------------------------------------------------------------------
Inv == TypeOK /\ TakenCounted /\ LosesNone("peerchat")

LEMMA InvInit == Init => Inv
<1> SUFFICES ASSUME Init PROVE Inv
  OBVIOUS
<1>1. TypeOK
  <2>1. /\ total \in [Service -> 0 .. TotalLimit] /\ relays \in 0 .. MaxRelays
        /\ drainLeft \in 0 .. DrainSeconds
    BY ServiceConstants DEF Init
  <2>2. perSource \in [Service -> [Source -> 0 .. PerSource]]
    <3>1. [s \in Source |-> 0] \in [Source -> 0 .. PerSource]
      BY ServiceConstants
    <3> QED
      BY <3>1 DEF Init
  <2> QED
    BY <2>1, <2>2, ServiceConstants DEF Init, TypeOK, State, Phase
<1>2. \A v, s : Taken(v) = {} /\ TakenFrom(v, s) = {}
  BY DEF Init, Taken, TakenFrom, Taking, Holding
<1>3. TakenCounted
  BY <1>2, FS_EmptySet DEF Init, TakenCounted
<1>4. LosesNone("peerchat")
  BY DEF Init, LosesNone
<1> QED
  BY <1>1, <1>3, <1>4 DEF Inv

(* What happens on one connection.                                         *)
LEMMA InvConnection ==
  ASSUME Inv, NEW c \in Conn, Connection(c)
  PROVE  Inv'
<1> SUFFICES TypeOK' /\ TakenCounted'
  <2>1. /\ \A d \in Conn \ {c} : conn'[d] = conn[d]
        /\ c \in Player => conn'[c] # "lost"
    <3>1. PICK state \in State : Becomes(c, state) /\ (c \in Player => state # "lost")
      BY ServiceConstants DEF Connection, Accept, Handle, Leave, Gone, Forgotten, Release,
         Cancelled, State
    <3> QED
      BY <3>1 DEF Becomes, Inv, TypeOK
  <2>2. LosesNone("peerchat")'
    BY <2>1 DEF Inv, LosesNone, Of
  <2> QED
    BY <2>2 DEF Inv
<1> USE DEF Inv
<1> USE ServiceConstants
<1>1. CASE Accept(c)
  <2>1. TypeOK'
    BY <1>1 DEF Accept, Becomes, TypeOK, State, control, admission, timing
  <2>2. TakenCounted'
    BY <1>1, TakenKept DEF Accept, Becomes, TypeOK, Taking, Holding
  <2> QED
    BY <2>1, <2>2
<1>2. CASE Handle(c)
  <2>0. host[c] \in Source /\ Of(c) \in Service
    BY <1>2 DEF Handle, TypeOK, Of, Service
  <2>1. CASE Welcome /\ HasPlace(Of(c), host[c])
    <3>1. /\ conn' = [conn EXCEPT ![c] = "open"]
          /\ total' = [total EXCEPT ![Of(c)] = @ + 1]
          /\ perSource' = [perSource EXCEPT ![Of(c)][host[c]] = @ + 1]
          /\ host' = host /\ conn[c] = "new"
      BY <1>2, <2>1 DEF Handle, Becomes
    <3>2. TakenCounted'
      BY <2>0, <3>1, PlaceTaken DEF Taking, Holding
    <3>3. total' \in [Service -> 0 .. TotalLimit]
      BY <2>0, <2>1, <3>1 DEF TypeOK, HasPlace
    <3>4. perSource' \in [Service -> [Source -> 0 .. PerSource]]
      <4>1. perSource[Of(c)][host[c]] + 1 \in 0 .. PerSource
        BY <2>0, <2>1 DEF TypeOK, HasPlace
      <4> QED
        BY <2>0, <3>1, <4>1 DEF TypeOK
    <3>5. TypeOK'
      BY <1>2, <3>1, <3>3, <3>4 DEF Handle, TypeOK, State, control, timing
    <3> QED
      BY <3>2, <3>5
  <2>2. CASE ~(Welcome /\ HasPlace(Of(c), host[c]))
    <3>1. conn' = [conn EXCEPT ![c] = "refused"] /\ UNCHANGED admission /\ host' = host
      BY <1>2, <2>2 DEF Handle, Becomes
    <3>2. TakenCounted'
      BY <1>2, <3>1, TakenKept DEF Handle, TypeOK, Taking, Holding
    <3>3. TypeOK'
      BY <1>2, <3>1 DEF Handle, TypeOK, State, control, admission, timing
    <3> QED
      BY <3>2, <3>3
  <2> QED
    BY <2>1, <2>2
<1>3. CASE Leave(c)
  <2>1. TypeOK'
    BY <1>3 DEF Leave, Becomes, TypeOK, State, control, admission, timing
  <2>2. TakenCounted'
    BY <1>3, TakenKept DEF Leave, Becomes, TypeOK, Taking, Holding
  <2> QED
    BY <2>1, <2>2
<1>4. CASE Gone(c)
  <2>1. TypeOK'
    BY <1>4 DEF Gone, Becomes, TypeOK, State, control, admission, timing
  <2>2. TakenCounted'
    BY <1>4, TakenKept DEF Gone, Becomes, TypeOK, Taking, Holding
  <2> QED
    BY <2>1, <2>2
<1>5. CASE Forgotten(c)
  <2>1. TypeOK'
    BY <1>5 DEF Forgotten, Becomes, TypeOK, State, control, admission, timing
  <2>2. TakenCounted'
    BY <1>5, TakenKept DEF Forgotten, Becomes, TypeOK, Taking, Holding
  <2> QED
    BY <2>1, <2>2
<1>6. CASE Release(c)
  <2>0. host[c] \in Source /\ Of(c) \in Service
    BY <1>6 DEF Release, TypeOK, Of, Service
  <2>1. /\ conn' = [conn EXCEPT ![c] = "none"] /\ host' = [host EXCEPT ![c] = None]
        /\ total' = [total EXCEPT ![Of(c)] = @ - 1]
        /\ perSource' = [perSource EXCEPT ![Of(c)][host[c]] = @ - 1]
        /\ conn[c] = "closed"
    BY <1>6 DEF Release, Becomes, ReleasePlace
  <2>2. TakenCounted' /\ total[Of(c)] > 0 /\ perSource[Of(c)][host[c]] > 0
    BY <2>0, <2>1, PlaceReturned DEF Taking, Holding
  <2>3. total' \in [Service -> 0 .. TotalLimit]
    BY <2>0, <2>1, <2>2 DEF TypeOK
  <2>4. perSource' \in [Service -> [Source -> 0 .. PerSource]]
    <3>1. perSource[Of(c)][host[c]] - 1 \in 0 .. PerSource
      BY <2>0, <2>2 DEF TypeOK
    <3> QED
      BY <2>0, <2>1, <3>1 DEF TypeOK
  <2>5. TypeOK'
    BY <1>6, <2>1, <2>3, <2>4 DEF Release, TypeOK, State, control, timing
  <2> QED
    BY <2>2, <2>5
<1>7. CASE Cancelled(c)
  <2>1. TypeOK'
    BY <1>7 DEF Cancelled, Becomes, TypeOK, State, control, admission, timing
  <2>2. TakenCounted'
    BY <1>7, TakenKept DEF Cancelled, Becomes, TypeOK, Taking, Holding
  <2> QED
    BY <2>1, <2>2
<1> QED
  BY <1>1, <1>2, <1>3, <1>4, <1>5, <1>6, <1>7 DEF Connection

(* Everything else: only BeginDrain touches connections, and it takes no   *)
(* place from any.                                                         *)
LEMMA InvProcess ==
  ASSUME Inv, RelayStarts \/ RelayCloses \/ Tick \/ RequestDrain \/ ServiceFails \/ Main
  PROVE  Inv'
<1> SUFFICES TypeOK' /\ TakenCounted'
  <2>1. \A c \in Conn : conn'[c] = conn[c] \/ conn'[c] = "leaving"
    BY DEF Inv, TypeOK, RelayStarts, RelayCloses, Tick, RequestDrain, ServiceFails, Main,
           WakeToDrain, WakeToFail, WaitClosed, BeginDrain, ServicesDrained, RelaysDrained,
           Cleanup, Exit, world
  <2>2. LosesNone("peerchat")'
    BY <2>1 DEF Inv, LosesNone
  <2> QED
    BY <2>2 DEF Inv
<1> USE DEF Inv
<1>1. CASE UNCHANGED world
  <2>1. TakenCounted'
    BY <1>1, TakenKept DEF world
  <2>2. /\ conn' = conn /\ host' = host /\ total' = total /\ perSource' = perSource
    BY <1>1 DEF world, admission
  <2>3. CASE RelayStarts \/ RelayCloses \/ Tick
    BY <2>1, <2>2, <2>3, ServiceConstants DEF RelayStarts, RelayCloses, Tick, TypeOK, control
  <2>4. CASE RequestDrain \/ ServiceFails
    BY <2>1, <2>2, <2>4, ServiceConstants DEF RequestDrain, ServiceFails, TypeOK, timing
  <2>5. CASE WakeToDrain \/ WakeToFail \/ WaitClosed \/ Exit
    BY <2>1, <2>2, <2>5
       DEF WakeToDrain, WakeToFail, WaitClosed, Exit, TypeOK, Phase, timing
  <2>6. CASE Cleanup
    BY <2>1, <2>2, <2>6, ServiceConstants DEF Cleanup, TypeOK, Phase
  <2>7. CASE ServicesDrained
    BY <2>1, <2>2, <2>7, ServiceConstants DEF ServicesDrained, TypeOK, Phase
  <2>8. CASE RelaysDrained
    BY <2>1, <2>2, <2>8, ServiceConstants DEF RelaysDrained, TypeOK, Phase
  <2>9. CASE BeginDrain
    BY <2>1, <2>2, <2>9 DEF BeginDrain, TypeOK, Phase, timing
  <2> QED
    BY <2>3, <2>4, <2>5, <2>6, <2>7, <2>8, <2>9 DEF Main
<1>2. CASE BeginDrain
  <2>1. TakenCounted'
    BY <1>2, TakenKept DEF BeginDrain, TypeOK, Taking, Holding
  <2>2. TypeOK'
    BY <1>2 DEF BeginDrain, TypeOK, State, Phase, admission, timing
  <2> QED
    BY <2>1, <2>2
<1> QED
  BY <1>1, <1>2 DEF RelayStarts, RelayCloses, Tick, RequestDrain, ServiceFails, Main,
     WakeToDrain, WakeToFail, WaitClosed, ServicesDrained, RelaysDrained, Cleanup, Exit

LEMMA InvNext == Inv /\ [Next]_vars => Inv'
<1> SUFFICES ASSUME Inv, [Next]_vars PROVE Inv'
  OBVIOUS
<1>1. CASE UNCHANGED vars
  BY <1>1 DEF Inv, TypeOK, TakenCounted, Taken, TakenFrom, LosesNone, vars, control, world,
     timing, admission
<1>2. CASE Next
  BY <1>2, InvConnection, InvProcess DEF Next
<1> QED
  BY <1>1, <1>2

(* Inv is an invariant of the process.                                     *)
THEOREM InvCorrect == Spec => []Inv
  BY InvInit, InvNext, PTL DEF Spec

(* Types, with both counters within their limits in every reachable state. *)
THEOREM TypeCorrect == Spec => []TypeOK
<1>1. Inv => TypeOK
  BY DEF Inv
<1> QED
  BY <1>1, InvCorrect, PTL

(* PeerChat loses no place, whichever way connections end, and while the   *)
(* Server Browser has lost none either the counters of both services and   *)
(* of every source are exactly the connections that hold a place.          *)
THEOREM PlacesCorrect == Spec => []PlacesCounted
<1>1. Inv => PlacesCounted
  <2> SUFFICES ASSUME Inv, NEW v \in Service, LosesNone(v)
               PROVE  /\ total[v] = Cardinality(Places(v))
                      /\ \A s \in Source : perSource[v][s] = Cardinality(PlacesFrom(v, s))
    BY DEF Inv, PlacesCounted
  <2>1. Taken(v) = Places(v)
    BY DEF LosesNone, Taken, Places, Taking
  <2>2. \A s : TakenFrom(v, s) = PlacesFrom(v, s)
    BY <2>1 DEF TakenFrom, PlacesFrom
  <2> QED
    BY <2>1, <2>2 DEF Inv, TakenCounted
<1> QED
  BY <1>1, InvCorrect, PTL

-----------------------------------------------------------------------------
(* The drain.  While run_server is on its way through it the drain flag    *)
(* stays set, so nobody is admitted behind begin_drain; and what reaches   *)
(* the finally block without a failure has no relay left to take.          *)
DrainInv ==
  /\ phase \in {"closing_peerchat", "closing_browser", "draining", "relays"} \/ completed
       => draining
  /\ phase \in {"draining", "relays"} \/ completed => \A c \in Conn : conn[c] # "open"
  /\ phase = "cleanup" => dead \/ relays = 0

LEMMA DrainInit == Init => DrainInv
  BY DEF Init, DrainInv

LEMMA DrainNext == Inv /\ DrainInv /\ [Next]_vars => DrainInv'
<1> SUFFICES ASSUME Inv, DrainInv, [Next]_vars PROVE DrainInv'
  OBVIOUS
<1> USE DEF DrainInv
<1>1. CASE UNCHANGED vars
  BY <1>1 DEF vars, control, world, timing
<1>2. ASSUME NEW c \in Conn, Connection(c) PROVE DrainInv'
  <2>1. CASE Accept(c)
    BY <2>1 DEF Accept, Becomes, control, timing, Inv, TypeOK
  <2>2. CASE Handle(c)
    <3>1. CASE draining
      BY <2>2, <3>1 DEF Handle, Welcome, Becomes, control, timing, Inv, TypeOK
    <3>2. CASE ~draining
      BY <2>2, <3>2 DEF Handle, Becomes, control, timing, Inv, TypeOK
    <3> QED
      BY <3>1, <3>2
  <2>3. CASE Leave(c)
    BY <2>3 DEF Leave, Becomes, control, timing, Inv, TypeOK
  <2>4. CASE Gone(c)
    BY <2>4 DEF Gone, Becomes, control, timing, Inv, TypeOK
  <2>5. CASE Forgotten(c)
    BY <2>5 DEF Forgotten, Becomes, control, timing, Inv, TypeOK
  <2>6. CASE Release(c)
    BY <2>6 DEF Release, Becomes, control, timing, Inv, TypeOK
  <2>7. CASE Cancelled(c)
    BY <2>7 DEF Cancelled, Becomes, control, timing, Inv, TypeOK
  <2> QED
    BY <1>2, <2>1, <2>2, <2>3, <2>4, <2>5, <2>6, <2>7 DEF Connection
<1>3. CASE RelayStarts \/ RelayCloses \/ Tick
  BY <1>3 DEF RelayStarts, RelayCloses, Tick, control, world, Inv, TypeOK
<1>4. CASE RequestDrain \/ ServiceFails
  BY <1>4 DEF RequestDrain, ServiceFails, world, timing
<1>5. CASE WakeToDrain \/ WakeToFail \/ WaitClosed
  BY <1>5 DEF WakeToDrain, WakeToFail, WaitClosed, world, timing
<1>6. CASE BeginDrain
  BY <1>6 DEF BeginDrain, Inv, TypeOK, timing
<1>7. CASE ServicesDrained \/ RelaysDrained
  BY <1>7 DEF ServicesDrained, RelaysDrained, world
<1>8. CASE Cleanup \/ Exit
  BY <1>8 DEF Cleanup, Exit, world, timing
<1> QED
  BY <1>1, <1>2, <1>3, <1>4, <1>5, <1>6, <1>7, <1>8 DEF Next, Main

THEOREM DrainInvCorrect == Spec => []DrainInv
  BY DrainInit, DrainNext, InvCorrect, PTL DEF Spec

(* After the drain of the services no connection is served.                *)
THEOREM NobodyLeftCorrect == Spec => []NobodyLeft
<1>1. DrainInv => NobodyLeft
  BY DEF DrainInv, NobodyLeft
<1> QED
  BY <1>1, DrainInvCorrect, PTL

(* Without a failure relays end with the process only when their time is   *)
(* up.                                                                     *)
THEOREM RelaysCorrect == Spec => RelaysOutlastDrain
<1>1. Inv /\ DrainInv /\ [Next]_vars
        => [phase' # phase /\ relays' < relays
              => dead \/ (phase = "relays" /\ drainLeft = 0)]_vars
  <2> SUFFICES ASSUME Inv, DrainInv, Next, phase' # phase, relays' < relays
               PROVE  dead \/ (phase = "relays" /\ drainLeft = 0)
    OBVIOUS
  <2>1. relays \in Nat
    BY ServiceConstants DEF Inv, TypeOK
  <2>2. ~\E c \in Conn : Connection(c)
    BY DEF Connection, Accept, Handle, Leave, Gone, Forgotten, Release, Cancelled, control
  <2>3. ~(RelayStarts \/ RelayCloses \/ Tick \/ RequestDrain \/ ServiceFails)
    BY DEF RelayStarts, RelayCloses, Tick, RequestDrain, ServiceFails, control
  <2>4. CASE WakeToDrain \/ WakeToFail \/ WaitClosed \/ BeginDrain \/ ServicesDrained \/ Exit
    BY <2>1, <2>4 DEF WakeToDrain, WakeToFail, WaitClosed, BeginDrain, ServicesDrained, Exit,
       timing
  <2>5. CASE RelaysDrained
    BY <2>1, <2>5 DEF RelaysDrained, RelaysDone
  <2>6. CASE Cleanup
    BY <2>1, <2>6 DEF Cleanup, DrainInv
  <2> QED
    BY <2>2, <2>3, <2>4, <2>5, <2>6 DEF Next, Main
<1> QED
  BY <1>1, InvCorrect, DrainInvCorrect, PTL DEF Spec, RelaysOutlastDrain
-----------------------------------------------------------------------------
(* Where the process waits for connections, one of them can go on.         *)
LEMMA AttachedReady ==
  ASSUME Inv, NEW some \in {Player, Browser}, ~NoneAttached(some)
  PROVE  \/ \E c \in Conn : ConnectionReady(c)
         \/ WaitsForConnections /\ \E c \in some : conn[c] = "open"
<1>1. PICK c \in some : WaitsForConnections /\ conn[c] \in Attached
  BY DEF NoneAttached
<1>2. c \in Conn
  BY DEF Conn
<1>3. CASE conn[c] \in {"new", "refused"}
  BY <1>2, <1>3 DEF ConnectionReady
<1>4. CASE conn[c] = "open"
  BY <1>1, <1>4
<1>5. CASE conn[c] = "leaving"
  <2>1. CASE Hurried(c)
    BY <1>2, <1>5, <2>1 DEF ConnectionReady
  <2>2. CASE ~Hurried(c)
    <3>1. c \in Player /\ \E d \in Player : conn[d] = "open"
      BY <2>2 DEF Hurried
    <3>2. some = Player
      BY <1>1, <3>1, ServiceConstants
    <3> QED
      BY <1>1, <3>1, <3>2
  <2> QED
    BY <2>1, <2>2
<1> QED
  BY <1>1, <1>3, <1>4, <1>5 DEF Attached

(* Asked to drain or failed, the process has something to do until it has  *)
(* ended, or waits for clients where listeners do.  That a drain's         *)
(* disconnects go on rests on nobody being open beside them any more.      *)
THEOREM StallsCorrect == Spec => []NeverStalls
<1>1. Inv /\ DrainInv => NeverStalls
  <2> SUFFICES ASSUME Inv, DrainInv, draining \/ dead, phase # "exited"
               PROVE  MainReady \/ (\E c \in Conn : ConnectionReady(c)) \/ LeftToClients
    BY DEF NeverStalls
  <2>1. CASE phase \in {"serving", "cleanup"}
    BY <2>1 DEF MainReady
  <2>2. CASE phase \in {"closing_peerchat", "closed_peerchat"}
    BY <2>2, AttachedReady DEF MainReady, LeftToClients
  <2>3. CASE phase \in {"closing_browser", "closed_browser"}
    BY <2>3, AttachedReady DEF MainReady, LeftToClients
  <2>4. CASE phase = "draining"
    <3>1. CASE \A c \in disconnects : conn[c] # "leaving"
      BY <2>4, <3>1 DEF MainReady
    <3>2. CASE \E c \in disconnects : conn[c] = "leaving"
      <4>1. PICK c \in Player : conn[c] = "leaving"
        BY <3>2 DEF Inv, TypeOK
      <4>2. Hurried(c) /\ c \in Conn
        BY <2>4 DEF Hurried, DrainInv, Conn
      <4> QED
        BY <4>1, <4>2 DEF ConnectionReady
    <3> QED
      BY <3>1, <3>2
  <2>5. CASE phase = "relays"
    <3>1. drainLeft \in Nat
      BY ServiceConstants DEF Inv, TypeOK
    <3> QED
      BY <2>5, <3>1 DEF MainReady, RelaysDone
  <2>6. CASE phase = "stopped"
    <3>1. CASE \A c \in Conn : conn[c] \in {"none", "lost"}
      BY <2>6, <3>1 DEF MainReady
    <3>2. CASE \E c \in Conn : conn[c] \notin {"none", "lost"}
      <4>1. PICK c \in Conn : conn[c] \in {"new", "open", "leaving", "closed", "refused"}
        BY <3>2 DEF Inv, TypeOK, State
      <4>2. CASE conn[c] = "leaving" /\ ~Hurried(c)
        <5>1. PICK d \in Player : conn[d] = "open"
          BY <4>2 DEF Hurried
        <5> QED
          BY <2>6, <5>1 DEF ConnectionReady, Conn
      <4>3. CASE ~(conn[c] = "leaving" /\ ~Hurried(c))
        BY <2>6, <4>1, <4>3 DEF ConnectionReady
      <4> QED
        BY <4>2, <4>3
    <3> QED
      BY <3>1, <3>2
  <2> QED
    BY <2>1, <2>2, <2>3, <2>4, <2>5, <2>6 DEF Inv, TypeOK, Phase
<1> QED
  BY <1>1, InvCorrect, DrainInvCorrect, PTL
=============================================================================
