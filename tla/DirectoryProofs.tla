-------------------------- MODULE DirectoryProofs ---------------------------
(***************************************************************************)
(* What holds of the directory for every set of hosts, keys, queries and   *)
(* readers: types, that no wake-up of a subscription is lost, that a proof *)
(* covers the keys it registers, that automatch shows the first open host  *)
(* alone and goes on showing it, that a drain ends the service, and that   *)
(* readers see the registry through a bulletin.                            *)
(***************************************************************************)
EXTENDS Directory, FiniteSetTheorems, TLAPS

Registry == [Host -> Server \cup {None}]

LEMMA Fresh == 0 \in 0 .. TTL + 1
BY DirectoryConstants

(* A record is not nothing, and what a removal leaves are records.         *)
LEMMA WithoutType ==
  \A S \in Registry : \A gone :
    /\ Without(S, gone) \in Registry
    /\ Present(Without(S, gone)) = Present(S) \ gone
    /\ Registered(Without(S, gone)) = Registered(S) \ gone
    /\ \A a \in Present(S) \ gone :
         Without(S, gone)[a] = [S[a] EXCEPT !.older = @ \ gone]
<1> SUFFICES ASSUME NEW S \in Registry, NEW gone
             PROVE  /\ Without(S, gone) \in Registry
                    /\ Present(Without(S, gone)) = Present(S) \ gone
                    /\ Registered(Without(S, gone)) = Registered(S) \ gone
                    /\ \A a \in Present(S) \ gone :
                         Without(S, gone)[a] = [S[a] EXCEPT !.older = @ \ gone]
  OBVIOUS
<1> DEFINE T == Without(S, gone)
<1>1. \A a \in Present(S) \ gone :
        /\ T[a] = [S[a] EXCEPT !.older = @ \ gone]
        /\ T[a] \in Server
        /\ T[a].registered = S[a].registered
  BY DEF Registry, Present, Without, Server
<1>2. \A a \in Host \ (Present(S) \ gone) : T[a] = None
  BY DEF Without
<1>3. T \in Registry
  BY <1>1, <1>2 DEF Registry, Without, Present
<1>4. Present(T) = Present(S) \ gone
  BY <1>1, <1>2, NoneIsNothing DEF Present
<1>5. Registered(T) = Registered(S) \ gone
  BY <1>1, <1>4 DEF Registered, Present
<1> QED BY <1>1, <1>3, <1>4, <1>5

LEMMA KeptType == \A S \in Registry : Kept(S) \in Registry
BY WithoutType DEF Kept

LEMMA ListingType ==
  \A S \in Registry : \A q : Listing(S, q) \in List
BY DEF Listing, List, Listed, Compatible, Matching, Registered, Present,
       Registry, Server

(* A list shows keys and seniority of registered hosts and nothing else.   *)
LEMMA SameListing ==
  \A S, T \in Registry :
    /\ Registered(T) = Registered(S)
    /\ \A a \in Registered(S) :
         /\ T[a].keys = S[a].keys
         /\ T[a].older \cap Registered(S) = S[a].older \cap Registered(S)
    => \A q : Listing(T, q) = Listing(S, q)
<1> SUFFICES ASSUME NEW S \in Registry, NEW T \in Registry,
                    Registered(T) = Registered(S),
                    \A a \in Registered(S) :
                      /\ T[a].keys = S[a].keys
                      /\ T[a].older \cap Registered(S)
                           = S[a].older \cap Registered(S),
                    NEW q
             PROVE  Listing(T, q) = Listing(S, q)
  OBVIOUS
<1>1. Matching(T, q) = Matching(S, q)
  BY DEF Matching
<1>2. Compatible(T, q) = Compatible(S, q)
  BY <1>1 DEF Compatible, Matching
<1>3. \A a \in Compatible(S, q) :
        T[a].older \cap Compatible(T, q) = S[a].older \cap Compatible(S, q)
  BY <1>2 DEF Compatible, Matching
<1>4. Listed(T, q) = Listed(S, q)
  BY <1>1, <1>2, <1>3 DEF Listed
<1>5. \A a \in Listed(S, q) : T[a].keys = S[a].keys
  BY DEF Listed, Compatible, Matching
<1> QED BY <1>4, <1>5 DEF Listing

(* Forgetting hosts that are not registered changes no list.               *)
LEMMA WithoutListing ==
  \A S \in Registry : \A gone : gone \cap Registered(S) = {} =>
    \A q : Listing(Without(S, gone), q) = Listing(S, q)
<1> SUFFICES ASSUME NEW S \in Registry, NEW gone,
                    gone \cap Registered(S) = {}
             PROVE  \A q : Listing(Without(S, gone), q) = Listing(S, q)
  OBVIOUS
<1> DEFINE T == Without(S, gone)
<1>1. T \in Registry /\ Registered(T) = Registered(S)
  <2>1. T \in Registry /\ Registered(T) = Registered(S) \ gone
    BY WithoutType
  <2>2. Registered(S) \ gone = Registered(S)
    OBVIOUS
  <2> QED BY <2>1, <2>2
<1>2. \A a \in Registered(S) : T[a] = [S[a] EXCEPT !.older = @ \ gone]
  BY WithoutType DEF Registered
<1>3. ASSUME NEW a \in Registered(S)
      PROVE  /\ T[a].keys = S[a].keys
             /\ T[a].older = S[a].older \ gone
  BY <1>2, <1>3 DEF Registered, Present, Registry, Server
<1> HIDE DEF T
<1>4. \A a \in Registered(S) :
        /\ T[a].keys = S[a].keys
        /\ T[a].older \cap Registered(S) = S[a].older \cap Registered(S)
  BY <1>3
<1>5. \A q : Listing(T, q) = Listing(S, q)
  BY <1>1, <1>4, SameListing
<1> QED BY <1>5 DEF T

LEMMA KeptListing ==
  \A S \in Registry : ~ListChanges(S) =>
    \A q : Listing(Kept(S), q) = Listing(S, q)
BY WithoutListing DEF ListChanges, Kept

(* Expiring twice is expiring once.                                        *)
LEMMA KeptTwice ==
  \A S \in Registry : Kept(Kept(S)) = Kept(S)
<1> SUFFICES ASSUME NEW S \in Registry
             PROVE  Kept(Kept(S)) = Kept(S)
  OBVIOUS
<1> DEFINE T == Kept(S)
<1>1. /\ T \in Registry
      /\ Present(T) = Present(S) \ Expired(S)
      /\ \A a \in Present(T) : T[a] = [S[a] EXCEPT !.older = @ \ Expired(S)]
  BY WithoutType DEF Kept
<1>2. \A a \in Present(T) : T[a].age = S[a].age /\ ~(S[a].age > TTL)
  BY <1>1 DEF Expired, Registry, Server, Present
<1> HIDE DEF T
<1>3. Expired(T) = {}
  BY <1>2 DEF Expired
<1>4. \A a \in Present(T) : [T[a] EXCEPT !.older = @ \ {}] = T[a]
  BY <1>1 DEF Registry, Present, Server
<1>5. \A a \in Host : Without(T, {})[a] = T[a]
  BY <1>4 DEF Without, Present
<1>6. Without(T, {}) = T
  BY <1>1, <1>5 DEF Without, Registry
<1> QED BY <1>3, <1>6 DEF Kept, T
-----------------------------------------------------------------------------
(* Spec => []TypeOK: first the types, then the limit.                      *)

QRType ==
  /\ servers \in Registry
  /\ answer \in [Host -> Answer \cup {None}]

ReaderType ==
  /\ conn \in [Reader -> {"none", "open", "keyed", "closing", "gone"}]
  /\ event \in [Reader -> BOOLEAN]
  /\ push \in [Reader -> {"wait", "drain"}]
  /\ sub \in [Reader -> Query \cup {None}]
  /\ \A c \in Reader : sub[c] # None => conn[c] \in {"keyed", "closing"}
  /\ known \in [Reader -> List]
  /\ view \in [Reader -> List]
  /\ asked \in [Reader -> SUBSET Host]

LEMMA NotifiedType ==
  ReaderType => \A changed \in BOOLEAN : Notified(changed) \in [Reader -> BOOLEAN]
BY DEF ReaderType, Notified, Connected

LEMMA TypeSplit == Types <=> QRType /\ ReaderType
                              /\ drain \in {"no", "requested", "closed"}
BY DEF Types, QRType, ReaderType, Registry

LEMMA TypeInit == Init => Types
BY NoneIsNothing DEF Init, Types, List, Empty

LEMMA EmptyType == Empty \in List
BY DEF Empty, List

(* The registry and the answers after any step.                            *)
LEMMA QRTypeNext == Types /\ [Next]_vars => QRType'
<1> SUFFICES ASSUME Types, [Next]_vars PROVE QRType'
  OBVIOUS
<1> USE TypeSplit
<1>1. Kept(servers) \in Registry
  BY KeptType DEF QRType
<1>2. ASSUME NEW a \in Host, NEW k \in Keys, NEW ch \in Challenge,
             Challenged(a, k, ch)
      PROVE  answer' \in [Host -> Answer \cup {None}]
  BY <1>2 DEF Challenged, QRType, Answer
<1>3. ASSUME NEW a \in Host, Heartbeat(a) PROVE QRType'
  <2>1. CASE \E k \in Keys, ch \in Challenge : NewHost(a, k, ch)
    <3> PICK k \in Keys, ch \in Challenge : NewHost(a, k, ch)
      BY <2>1
    <3> DEFINE new == [keys |-> k, challenge |-> ch, registered |-> FALSE,
                       age |-> 0, older |-> {}]
    <3>1. new \in Server
      BY DirectoryConstants DEF Server
    <3>2. servers' = [Kept(servers) EXCEPT ![a] = new]
      BY DEF NewHost
    <3> HIDE DEF new
    <3> QED BY <1>1, <1>2, <3>1, <3>2 DEF NewHost, QRType, Registry
  <2>2. CASE RefusedHost(a)
    BY <1>1, <2>2 DEF RefusedHost, QRType
  <2>3. CASE \E k \in Keys, moved \in BOOLEAN : Report(a, k, moved)
    <3> PICK k \in Keys, moved \in BOOLEAN : Report(a, k, moved)
      BY <2>3
    <3>1. servers[a] \in Server
      BY DEF Report, QRType, Registry, Registered, Present
    <3>2. [servers[a] EXCEPT !.keys = k, !.age = 0] \in Server
      BY <3>1, Fresh DEF Server
    <3>3. servers' = [servers EXCEPT ![a] =
                        [servers[a] EXCEPT !.keys = k, !.age = 0]]
      BY DEF Report, QRType, Registry
    <3> QED BY <3>2, <3>3 DEF Report, QRType, Registry
  <2>4. CASE \E k \in Keys, ch \in Challenge : Rechallenge(a, k, ch)
    <3> PICK k \in Keys, ch \in Challenge : Rechallenge(a, k, ch)
      BY <2>4
    <3>1. servers[a] \in Server
      BY DEF Rechallenge, QRType, Registry, Present
    <3>2. [servers[a] EXCEPT !.keys = k, !.age = 0, !.challenge = ch] \in Server
      BY <3>1, Fresh DEF Server
    <3>3. servers' = [servers EXCEPT ![a] =
            [servers[a] EXCEPT !.keys = k, !.age = 0, !.challenge = ch]]
      BY DEF Rechallenge, QRType, Registry
    <3> QED BY <1>2, <3>2, <3>3 DEF Rechallenge, QRType, Registry
  <2>5. CASE RemoveHost(a)
    BY <2>5, WithoutType DEF RemoveHost, QRType
  <2> QED BY <1>3, <2>1, <2>2, <2>3, <2>4, <2>5 DEF Heartbeat
<1>4. ASSUME NEW a \in Host, Prove(a) PROVE QRType'
  <2>1. servers[a] \in Server
    BY <1>4 DEF Prove, Register, QRType, Registry, Present
  <2>2. PICK older \in SUBSET Host :
          servers' = [servers EXCEPT ![a] =
            [servers[a] EXCEPT !.registered = TRUE, !.age = 0, !.older = older]]
    BY <1>4, <2>1 DEF Prove, Register, QRType, Registry, Registered, Present, Server
  <2>3. [servers[a] EXCEPT !.registered = TRUE, !.age = 0, !.older = older]
          \in Server
    BY <2>1, Fresh DEF Server
  <2> DEFINE new == [servers[a] EXCEPT !.registered = TRUE, !.age = 0, !.older = older]
  <2>4. servers' = [servers EXCEPT ![a] = new] /\ new \in Server
    BY <2>2, <2>3
  <2>5. answer' = answer
    BY <1>4 DEF Prove
  <2> HIDE DEF new
  <2> QED BY <2>4, <2>5 DEF QRType, Registry
<1>5. CASE Expire
  BY <1>1, <1>5 DEF Expire, QRType
<1>6. CASE Tick
  <2>1. ASSUME NEW a \in Host, servers[a] # None, ~(servers[a].age > TTL)
        PROVE  [servers[a] EXCEPT !.age = @ + 1] \in Server
    BY <2>1, DirectoryConstants DEF QRType, Registry, Server
  <2> QED BY <1>6, <2>1 DEF Tick, QRType, Registry
<1>7. ASSUME NEW c \in Reader,
             Connect(c) \/ Request(c) \/ Close(c)
               \/ PushUpdates(c) \/ PushNothing(c) \/ PushDone(c)
      PROVE  QRType'
  BY <1>1, <1>7
  DEF Connect, Request, Close, PushUpdates, PushNothing, PushDone, Subscribe,
      ListOnce, RefusedRequest, InfoRequest, RelayMessage, LateLookup, qrVars, QRType
<1>8. CASE RequestDrain \/ BeginDrain \/ UNCHANGED vars
  BY <1>8 DEF RequestDrain, BeginDrain, qrVars, vars, QRType
<1> QED BY <1>3, <1>4, <1>5, <1>6, <1>7, <1>8 DEF Next

LEMMA UnsubscribedType ==
  ReaderType => \A c \in Reader : Unsubscribed(c) =>
    /\ sub' \in [Reader -> Query \cup {None}]
    /\ \A d \in Reader : sub'[d] # None => d # c /\ sub[d] # None
    /\ known' \in [Reader -> List]
    /\ view' \in [Reader -> List]
    /\ asked' \in [Reader -> SUBSET Host]
BY EmptyType DEF ReaderType, Unsubscribed

LEMMA ClosedType ==
  ReaderType => \A c \in Reader :
    Closed(c) /\ event' \in [Reader -> BOOLEAN] => ReaderType'
<1> SUFFICES ASSUME ReaderType, NEW c \in Reader, Closed(c),
                    event' \in [Reader -> BOOLEAN]
             PROVE  ReaderType'
  OBVIOUS
<1>1. /\ sub' \in [Reader -> Query \cup {None}]
      /\ \A d \in Reader : sub'[d] # None => d # c /\ sub[d] # None
      /\ known' \in [Reader -> List]
      /\ view' \in [Reader -> List]
      /\ asked' \in [Reader -> SUBSET Host]
  BY UnsubscribedType DEF Closed
<1>2. /\ conn' \in [Reader -> {"none", "open", "keyed", "closing", "gone"}]
      /\ \A d \in Reader : d # c => conn'[d] = conn[d]
      /\ push' \in [Reader -> {"wait", "drain"}]
  BY DEF Closed, ReaderType
<1> QED BY <1>1, <1>2 DEF ReaderType

(* The readers after any step.                                             *)
LEMMA ReaderTypeNext == Types /\ [Next]_vars => ReaderType'
<1> SUFFICES ASSUME Types, [Next]_vars PROVE ReaderType'
  OBVIOUS
<1> USE TypeSplit
<1>0. servers \in Registry
  BY DEF QRType
<1>1. \A q : Listing(Kept(servers), q) \in List
  BY <1>0, KeptType, ListingType
<1>2. \A changed \in BOOLEAN : Notified(changed) \in [Reader -> BOOLEAN]
  BY NotifiedType
<1>3. Notified(ListChanges(servers)) \in [Reader -> BOOLEAN]
  BY <1>2 DEF ListChanges
<1>4. ASSUME NEW a \in Host, Heartbeat(a) \/ Prove(a) PROVE ReaderType'
  <2>1. \A k \in Keys, moved \in BOOLEAN :
          (moved \/ servers[a].keys # k) \in BOOLEAN
    OBVIOUS
  <2>2. a \in Present(servers) => servers[a].registered \in BOOLEAN
    BY <1>0 DEF Registry, Server, Present
  <2>3. event' \in [Reader -> BOOLEAN]
    BY <1>2, <1>3, <1>4, <2>1, <2>2
    DEF Heartbeat, NewHost, RefusedHost, Report, Rechallenge, RemoveHost,
        Prove, Register, ReaderType
  <2>4. UNCHANGED <<conn, pushVars, clientVars>>
    BY <1>4 DEF Heartbeat, NewHost, RefusedHost, Report, Rechallenge,
                RemoveHost, Prove, Register
  <2> QED BY <2>3, <2>4 DEF ReaderType, pushVars, clientVars
<1>5. CASE Expire \/ Tick \/ RequestDrain \/ UNCHANGED vars
  BY <1>3, <1>5
  DEF Expire, Tick, RequestDrain, vars, pushVars, clientVars, ReaderType
<1>6. CASE BeginDrain
  BY <1>6 DEF BeginDrain, pushVars, clientVars, ReaderType, Connected
<1>7. ASSUME NEW c \in Reader, Connect(c) \/ Close(c) PROVE ReaderType'
  <2>1. CASE Connect(c)
    BY <2>1 DEF Connect, pushVars, clientVars, ReaderType
  <2>2. CASE Close(c)
    <3>1. event' \in [Reader -> BOOLEAN]
      BY <2>2 DEF Close, ReaderType
    <3> QED BY <2>2, <3>1, ClosedType DEF Close
  <2> QED BY <1>7, <2>1, <2>2
<1>8. ASSUME NEW c \in Reader, Request(c) PROVE ReaderType'
  <2>1. CASE \E q \in Query : Subscribe(c, q)
    BY <1>1, <1>3, <2>1 DEF Subscribe, ReaderType
  <2>2. CASE ListOnce(c)
    BY <1>3, <2>2, UnsubscribedType DEF ListOnce, ReaderType
  <2>3. CASE RefusedRequest(c)
    BY <2>3, UnsubscribedType DEF RefusedRequest, ReaderType
  <2>4. ASSUME NEW a \in Host, InfoRequest(c, a) PROVE ReaderType'
    <3>1. view' \in [Reader -> List] /\ asked' \in [Reader -> SUBSET Host]
      <4>1. CASE a \in Registered(Kept(servers)) /\ sub[c] # None
        <5>1. servers[a] \in Server
          BY <1>0, <4>1, WithoutType DEF Kept, Registered, Present, Registry
        <5>2. servers[a].keys \in Keys
          BY <5>1 DEF Server
        <5>3. /\ view' = [view EXCEPT ![c] = [view[c] EXCEPT ![a] = servers[a].keys]]
              /\ asked' = [asked EXCEPT ![c] = asked[c] \cup {a}]
          BY <2>4, <4>1 DEF InfoRequest
        <5>4. [view[c] EXCEPT ![a] = servers[a].keys] \in List
          BY <5>2 DEF ReaderType, List
        <5> QED BY <5>3, <5>4 DEF ReaderType
      <4>2. CASE ~(a \in Registered(Kept(servers)) /\ sub[c] # None)
        BY <2>4, <4>2 DEF InfoRequest, clientVars, ReaderType
      <4> QED BY <4>1, <4>2
    <3> QED BY <1>3, <2>4, <3>1 DEF InfoRequest, pushVars, ReaderType
  <2>5. ASSUME NEW a \in Host, RelayMessage(c, a) PROVE ReaderType'
    <3>1. CASE a \in Registered(Kept(servers))
      BY <1>3, <2>5, <3>1 DEF RelayMessage, pushVars, clientVars, ReaderType
    <3>2. CASE a \notin Registered(Kept(servers))
      <4>1. event' \in [Reader -> BOOLEAN] /\ Closed(c)
        BY <1>3, <2>5, <3>2 DEF RelayMessage
      <4> QED BY <4>1, ClosedType
    <3> QED BY <3>1, <3>2
  <2>6. CASE LateLookup(c)
    BY <1>3, <2>6 DEF LateLookup, pushVars, clientVars, ReaderType
  <2> QED BY <1>8, <2>1, <2>2, <2>3, <2>4, <2>5, <2>6 DEF Request
<1>9. ASSUME NEW c \in Reader, PushUpdates(c) \/ PushNothing(c) \/ PushDone(c)
      PROVE  ReaderType'
  <2>1. CASE PushUpdates(c)
    <3> DEFINE list == Listing(Kept(servers), sub[c])
               sent == Deleted(c, list) \cup Changed(c, list)
               seen == [a \in Host |-> IF a \in sent THEN list[a] ELSE view[c][a]]
    <3>1. list \in List
      BY <1>1
    <3>2. /\ known' = [known EXCEPT ![c] = list]
          /\ view' = [view EXCEPT ![c] = seen]
          /\ asked' = [asked EXCEPT ![c] = @ \ sent]
          /\ push' = [push EXCEPT ![c] = IF sent = {} THEN "wait" ELSE "drain"]
          /\ event' = [Notified(ListChanges(servers)) EXCEPT
                         ![c] = ListChanges(servers)]
          /\ UNCHANGED <<conn, sub>>
      BY <2>1 DEF PushUpdates
    <3> HIDE DEF list, sent
    <3>3. seen \in List
      BY <3>1 DEF List, ReaderType
    <3> HIDE DEF seen
    <3>4. event' \in [Reader -> BOOLEAN]
      BY <1>3, <3>2 DEF ListChanges
    <3>5. /\ known' \in [Reader -> List]
          /\ view' \in [Reader -> List]
          /\ asked' \in [Reader -> SUBSET Host]
          /\ push' \in [Reader -> {"wait", "drain"}]
      BY <3>1, <3>2, <3>3 DEF ReaderType
    <3> QED BY <3>2, <3>4, <3>5 DEF ReaderType
  <2>2. CASE PushNothing(c)
    BY <2>2 DEF PushNothing, pushVars, clientVars, ReaderType
  <2>3. CASE PushDone(c)
    BY <2>3 DEF PushDone, clientVars, ReaderType
  <2> QED BY <1>9, <2>1, <2>2, <2>3
<1> QED BY <1>4, <1>5, <1>6, <1>7, <1>8, <1>9 DEF Next

LEMMA TypeNext == Types /\ [Next]_vars => Types'
<1> SUFFICES ASSUME Types, [Next]_vars PROVE Types'
  OBVIOUS
<1>1. QRType' /\ ReaderType'
  BY QRTypeNext, ReaderTypeNext
<1>2. drain' \in {"no", "requested", "closed"}
  BY DEF Next, Types, vars, Heartbeat, NewHost, RefusedHost, Report, Rechallenge,
     RemoveHost, Prove, Expire, Tick, Connect, Request, Subscribe, ListOnce,
     RefusedRequest, InfoRequest, RelayMessage, LateLookup, Close, PushUpdates,
     PushNothing, PushDone, RequestDrain, BeginDrain
<1> QED BY <1>1, <1>2 DEF Types, QRType, ReaderType, Registry

LEMMA TypesHold == Spec => []Types
BY TypeInit, TypeNext, PTL DEF Spec

(* What a step does to the registry: it removes hosts, possibly none, or   *)
(* one host becomes registered, after all the others.                      *)
Fewer(S, T) ==
  \E gone : /\ Registered(T) = Registered(S) \ gone
            /\ \A a \in Registered(T) : T[a].older = S[a].older \ gone

Enters(S, T) ==
  \E a \in Host \ Registered(S) :
    /\ Registered(T) = Registered(S) \cup {a}
    /\ T[a].older = Registered(S)
    /\ \A b \in Registered(S) : T[b].older = S[b].older

(* And to the number of its records.                                       *)
Fits(S, T) ==
  \/ Present(T) \subseteq Present(S)
  \/ \E a \in Host : /\ Present(T) = Present(Kept(S)) \cup {a}
                     /\ Cardinality(Present(Kept(S))) < MaxServers

LEMMA WithoutFewer ==
  \A S \in Registry : \A gone :
    Fewer(S, Without(S, gone)) /\ Fits(S, Without(S, gone))
<1> SUFFICES ASSUME NEW S \in Registry, NEW gone
             PROVE  Fewer(S, Without(S, gone)) /\ Fits(S, Without(S, gone))
  OBVIOUS
<1> DEFINE T == Without(S, gone)
<1>1. /\ Present(T) = Present(S) \ gone
      /\ Registered(T) = Registered(S) \ gone
      /\ \A a \in Present(S) \ gone : T[a] = [S[a] EXCEPT !.older = @ \ gone]
  BY WithoutType
<1>2. \A a \in Present(S) : S[a] \in Server
  BY DEF Registry, Present
<1> HIDE DEF T
<1>3. \A a \in Registered(T) : T[a].older = S[a].older \ gone
  BY <1>1, <1>2 DEF Registered, Server
<1> QED BY <1>1, <1>3 DEF Fewer, Fits, T

(* A step that leaves the registered hosts and their seniority alone.      *)
LEMMA SameFewer ==
  \A S, T :
    /\ Registered(T) = Registered(S)
    /\ \A a \in Registered(S) : T[a].older = S[a].older
    => Fewer(S, T)
<1> SUFFICES ASSUME NEW S, NEW T, Registered(T) = Registered(S),
                    \A a \in Registered(S) : T[a].older = S[a].older
             PROVE  Fewer(S, T)
  OBVIOUS
<1>1. \A a \in Registered(T) : T[a].older = S[a].older \ {}
  OBVIOUS
<1> QED BY <1>1 DEF Fewer

LEMMA RegistrySteps ==
  Types /\ [Next]_vars =>
    /\ Fewer(servers, servers') \/ Enters(servers, servers')
    /\ Fits(servers, servers')
<1> DEFINE Goal == /\ Fewer(servers, servers') \/ Enters(servers, servers')
                   /\ Fits(servers, servers')
<1> SUFFICES ASSUME Types, [Next]_vars PROVE Goal
  OBVIOUS
<1>1. servers \in Registry /\ servers' \in Registry
  BY QRTypeNext, TypeSplit DEF QRType
<1>2. ASSUME servers' = servers \/ servers' = Kept(servers)
             \/ \E gone : servers' = Without(servers, gone)
      PROVE  Goal
  <2>1. Fewer(servers, servers) /\ Fits(servers, servers)
    BY SameFewer DEF Fits
  <2> QED BY <1>1, <1>2, <2>1, WithoutFewer DEF Kept
<1>3. ASSUME NEW a \in Host, servers[a] # None, servers'[a] # None,
             \A b \in Host \ {a} : servers'[b] = servers[b],
             servers'[a].older = servers[a].older,
             servers'[a].registered = servers[a].registered
      PROVE  Goal
  <2>1. Present(servers') = Present(servers)
    BY <1>3 DEF Present
  <2>2. \A b \in Host : /\ servers'[b].registered = servers[b].registered
                        /\ servers'[b].older = servers[b].older
    BY <1>3
  <2>3. Registered(servers') = Registered(servers)
    BY <2>1, <2>2 DEF Registered, Present
  <2>4. Fewer(servers, servers')
    BY <2>2, <2>3, SameFewer DEF Registered, Present
  <2> QED BY <2>1, <2>4 DEF Fits
<1>4. ASSUME NEW a \in Host, NEW k \in Keys, NEW ch \in Challenge,
             NewHost(a, k, ch)
      PROVE  Goal
  <2> DEFINE S == Kept(servers)
             new == [keys |-> k, challenge |-> ch, registered |-> FALSE,
                     age |-> 0, older |-> {}]
  <2>1. servers' = [S EXCEPT ![a] = new] /\ Cardinality(Present(S)) < MaxServers
    BY <1>4 DEF NewHost
  <2>2. S \in Registry /\ ~new.registered
    BY <1>1, KeptType
  <2>3. a \notin Present(S)
    BY <1>1, <1>4, WithoutType DEF NewHost, Kept, Present
  <2>4. Fewer(servers, S)
    BY <1>1, WithoutFewer DEF Kept
  <2>5. new # None
    <3>1. new \in Server
      BY DirectoryConstants DEF Server
    <3> QED BY <3>1, NoneIsNothing
  <2> HIDE DEF S, new
  <2>6. servers'[a] = new /\ \A b \in Host \ {a} : servers'[b] = S[b]
    BY <2>1, <2>2 DEF Registry
  <2>7. Present(servers') = Present(S) \cup {a}
    BY <2>5, <2>6 DEF Present
  <2>8. Registered(servers') = Registered(S)
    <3>1. \A b \in Present(S) : servers'[b].registered = S[b].registered
      BY <2>3, <2>6 DEF Present
    <3>2. ~servers'[a].registered
      BY <2>2, <2>6
    <3> QED BY <2>7, <3>1, <3>2 DEF Registered
  <2>9. \A b \in Registered(S) : servers'[b] = S[b]
    BY <2>3, <2>6 DEF Registered, Present
  <2>10. Fewer(servers, servers')
    BY <2>4, <2>8, <2>9 DEF Fewer
  <2> QED BY <2>1, <2>7, <2>10 DEF Fits, S
<1>5. ASSUME NEW a \in Host, NEW k \in Keys, NEW moved \in BOOLEAN,
             Report(a, k, moved)
      PROVE  Goal
  <2>1. servers[a] \in Server /\ servers[a] # None
    BY <1>1, <1>5 DEF Report, Registered, Present, Registry
  <2>2. /\ \A b \in Host \ {a} : servers'[b] = servers[b]
        /\ servers'[a] = [servers[a] EXCEPT !.keys = k, !.age = 0]
    BY <1>1, <1>5 DEF Report, Registry
  <2>3. servers'[a] \in Server /\ servers'[a].older = servers[a].older
        /\ servers'[a].registered = servers[a].registered
    BY <2>1, <2>2, Fresh DEF Server
  <2> QED BY <1>3, <2>1, <2>2, <2>3, NoneIsNothing
<1>6. ASSUME NEW a \in Host, NEW k \in Keys, NEW ch \in Challenge,
             Rechallenge(a, k, ch)
      PROVE  Goal
  <2>1. servers[a] \in Server /\ servers[a] # None
    BY <1>1, <1>6 DEF Rechallenge, Present, Registry
  <2>2. /\ \A b \in Host \ {a} : servers'[b] = servers[b]
        /\ servers'[a] = [servers[a] EXCEPT !.keys = k, !.age = 0,
                                            !.challenge = ch]
    BY <1>1, <1>6 DEF Rechallenge, Registry
  <2>3. servers'[a] \in Server /\ servers'[a].older = servers[a].older
        /\ servers'[a].registered = servers[a].registered
    BY <2>1, <2>2, Fresh DEF Server
  <2> QED BY <1>3, <2>1, <2>2, <2>3, NoneIsNothing
<1>7. ASSUME NEW a \in Host, Prove(a) PROVE Goal
  <2>1. servers[a] \in Server /\ servers[a] # None
    BY <1>1, <1>7 DEF Prove, Present, Registry
  <2>2. \A b \in Host \ {a} : servers'[b] = servers[b]
    BY <1>1, <1>7 DEF Prove, Register, Registry
  <2>3. CASE servers[a].registered
    <3>1. servers'[a] = [servers[a] EXCEPT !.registered = TRUE, !.age = 0]
      BY <1>1, <1>7, <2>1, <2>3 DEF Prove, Register, Registry, Server
    <3>2. servers'[a] \in Server /\ servers'[a].older = servers[a].older
          /\ servers'[a].registered = servers[a].registered
      BY <2>1, <2>3, <3>1, Fresh DEF Server
    <3> QED BY <1>3, <2>1, <2>2, <3>2, NoneIsNothing
  <2>4. CASE ~servers[a].registered
    <3>1. servers'[a] = [servers[a] EXCEPT !.registered = TRUE, !.age = 0,
                                           !.older = Registered(servers)]
      BY <1>1, <1>7, <2>1, <2>4 DEF Prove, Register, Registry, Server
    <3>2. servers'[a].registered /\ servers'[a].older = Registered(servers)
      BY <2>1, <3>1 DEF Server
    <3>3. servers'[a] \in Server
      BY <2>1, <3>1, Fresh DEF Server, Registered, Present
    <3>4. Present(servers') = Present(servers)
      BY <2>1, <2>2, <3>3, NoneIsNothing DEF Present
    <3>5. a \notin Registered(servers)
      BY <2>4 DEF Registered
    <3>6. Registered(servers') = Registered(servers) \cup {a}
      BY <2>1, <2>2, <3>2, <3>4 DEF Registered, Present
    <3>7. \A b \in Registered(servers) : servers'[b] = servers[b]
      BY <2>2, <3>5 DEF Registered, Present
    <3>8. Enters(servers, servers')
      BY <3>2, <3>5, <3>6, <3>7 DEF Enters
    <3> QED BY <3>4, <3>8 DEF Fits
  <2> QED BY <2>1, <2>3, <2>4 DEF Server
<1>8. CASE Tick
  <2>1. \A a \in Host : servers'[a] = servers[a] \/
          (servers[a] # None /\ servers'[a] = [servers[a] EXCEPT !.age = @ + 1])
    BY <1>8 DEF Tick
  <2>2. \A a \in Present(servers) :
          /\ servers'[a].older = servers[a].older
          /\ servers'[a].registered = servers[a].registered
    BY <1>1, <2>1 DEF Registry, Server, Present
  <2>3. \A a \in Host : servers'[a] # None <=> servers[a] # None
    <3>1. ASSUME NEW a \in Host, servers[a] # None PROVE servers'[a] # None
      <4>1. CASE servers'[a] = servers[a]
        BY <3>1, <4>1
      <4>2. CASE servers'[a] # servers[a]
        <5>1. servers[a] \in Server /\ servers'[a] = [servers[a] EXCEPT !.age = @ + 1]
          BY <1>1, <2>1, <3>1, <4>2 DEF Registry
        <5>2. servers'[a] = [servers[a] EXCEPT !.age = @ + 1]
              /\ ~(servers[a].age > TTL)
          BY <1>8, <4>2, <5>1 DEF Tick
        <5>3. servers'[a] \in Server
          BY <5>1, <5>2, DirectoryConstants DEF Server
        <5> QED BY <5>3, NoneIsNothing
      <4> QED BY <4>1, <4>2
    <3> QED BY <2>1, <3>1
  <2>4. Present(servers') = Present(servers)
    BY <2>3 DEF Present
  <2>5. Registered(servers') = Registered(servers)
    BY <2>2, <2>4 DEF Registered
  <2>6. Fewer(servers, servers')
    BY <2>2, <2>5, SameFewer DEF Registered
  <2> QED BY <2>4, <2>6 DEF Fits
<1>9. ASSUME NEW c \in Reader,
             \/ Connect(c) \/ Request(c) \/ Close(c)
             \/ PushUpdates(c) \/ PushNothing(c) \/ PushDone(c)
      PROVE  Goal
  <2>1. servers' = servers \/ servers' = Kept(servers)
    BY <1>9
    DEF Connect, Request, Close, PushUpdates, PushNothing, PushDone, Subscribe,
        ListOnce, RefusedRequest, InfoRequest, RelayMessage, LateLookup, qrVars
  <2> QED BY <1>2, <2>1
<1>10. CASE RequestDrain \/ BeginDrain \/ Expire \/ UNCHANGED vars
  BY <1>2, <1>10 DEF RequestDrain, BeginDrain, Expire, vars, qrVars
<1>11. ASSUME NEW a \in Host, Heartbeat(a) PROVE Goal
  BY <1>2, <1>4, <1>5, <1>6, <1>11 DEF Heartbeat, RefusedHost, RemoveHost, Kept
<1> QED BY <1>7, <1>8, <1>9, <1>10, <1>11 DEF Next

Bounded == IsFiniteSet(Present(servers)) /\ Capacity

LEMMA BoundedInit == Init => Bounded
<1> SUFFICES ASSUME Init PROVE Bounded
  OBVIOUS
<1>1. Present(servers) = {}
  BY DEF Init, Present
<1> QED BY <1>1, FS_EmptySet, DirectoryConstants DEF Bounded, Capacity

LEMMA BoundedNext == Types /\ Bounded /\ [Next]_vars => Bounded'
<1> SUFFICES ASSUME Types, Bounded, [Next]_vars PROVE Bounded'
  OBVIOUS
<1> DEFINE S == Present(servers)
<1>1. IsFiniteSet(S) /\ Cardinality(S) <= MaxServers /\ Cardinality(S) \in Nat
  BY FS_CardinalityType DEF Bounded, Capacity
<1>2. Fits(servers, servers')
  BY RegistrySteps
<1>3. CASE Present(servers') \subseteq S
  <2>1. /\ IsFiniteSet(Present(servers'))
        /\ Cardinality(Present(servers')) <= Cardinality(S)
        /\ Cardinality(Present(servers')) \in Nat
    BY <1>1, <1>3, FS_Subset, FS_CardinalityType
  <2> QED BY <1>1, <2>1, DirectoryConstants DEF Bounded, Capacity
<1>4. CASE \E a \in Host : /\ Present(servers') = Present(Kept(servers)) \cup {a}
                           /\ Cardinality(Present(Kept(servers))) < MaxServers
  <2> DEFINE K == Present(Kept(servers))
  <2>1. PICK a \in Host : Present(servers') = K \cup {a} /\ Cardinality(K) < MaxServers
    BY <1>4
  <2>2. K \subseteq S
    BY WithoutType DEF Kept, Types, Registry
  <2>3. IsFiniteSet(K) /\ Cardinality(K) \in Nat
    BY <1>1, <2>2, FS_Subset, FS_CardinalityType
  <2> HIDE DEF K
  <2>4. /\ IsFiniteSet(K \cup {a})
        /\ Cardinality(K \cup {a}) = Cardinality(K)
             \/ Cardinality(K \cup {a}) = Cardinality(K) + 1
    BY <2>3, FS_AddElement
  <2> QED BY <2>1, <2>3, <2>4, DirectoryConstants DEF Bounded, Capacity
<1> QED BY <1>2, <1>3, <1>4 DEF Fits

(* Every variable of the directory has its type, only a connection with a  *)
(* cipher has a subscription, and the limit on records holds, in every     *)
(* reachable state and for any number of hosts.                            *)
THEOREM TypeCorrect == Spec => []TypeOK
<1>1. Spec => []Bounded
  BY BoundedInit, BoundedNext, TypesHold, PTL DEF Spec
<1>2. Types /\ Bounded => TypeOK
  BY DEF TypeOK, Bounded
<1> QED BY <1>1, <1>2, TypesHold, PTL
-----------------------------------------------------------------------------
(* Spec => []Synced.  What a client has and what its subscription knows    *)
(* agree at every moment, not only while the event is not set.             *)

ViewKnown ==
  \A c \in Reader : \A a \in Host \ asked[c] : view[c][a] = known[c][a]

SyncInv == Types /\ ViewKnown /\ Synced

LEMMA SyncInit == Init => ViewKnown /\ Synced
BY DEF Init, ViewKnown, Synced, Subscribed

(* A step that expires either wakes every connection or changes no list.   *)
LEMMA ExpireQuiet ==
  ASSUME Types, servers' = Kept(servers), NEW c \in Reader,
         Connected(c), ~Notified(ListChanges(servers))[c]
  PROVE  ~event[c] /\ \A q : Listing(servers', q) = Listing(servers, q)
<1>1. servers \in Registry
  BY DEF Types, Registry
<1>2. ~ListChanges(servers) /\ ~event[c]
  BY DEF Notified
<1> QED BY <1>1, <1>2, KeptListing

(* The same of every step of QR2.                                          *)
LEMMA HostQuiet ==
  ASSUME Types, NEW c \in Reader, Connected(c), NEW a \in Host,
         Heartbeat(a) \/ Prove(a), ~event'[c]
  PROVE  ~event[c] /\ \A q : Listing(servers', q) = Listing(servers, q)
<1>1. servers \in Registry /\ servers' \in Registry
  <2>1. [Next]_vars
    BY DEF Next
  <2> QED BY <2>1, QRTypeNext, TypeSplit DEF QRType
<1>2. ASSUME Registered(servers') = Registered(servers),
             \A b \in Registered(servers) :
               /\ servers'[b].keys = servers[b].keys
               /\ servers'[b].older = servers[b].older
      PROVE  \A q : Listing(servers', q) = Listing(servers, q)
  BY <1>1, <1>2, SameListing
<1>3. CASE \E k \in Keys, ch \in Challenge : NewHost(a, k, ch)
  <2> PICK k \in Keys, ch \in Challenge : NewHost(a, k, ch)
    BY <1>3
  <2> DEFINE S == Kept(servers)
             new == [keys |-> k, challenge |-> ch, registered |-> FALSE,
                     age |-> 0, older |-> {}]
  <2>1. ~ListChanges(servers) /\ ~event[c]
    BY DEF NewHost, Notified
  <2>2. S \in Registry /\ servers' = [S EXCEPT ![a] = new] /\ ~new.registered
    BY <1>1, KeptType DEF NewHost
  <2>3. a \notin Registered(S)
    BY <1>1, WithoutType DEF NewHost, Kept, Registered, Present
  <2> HIDE DEF S, new
  <2>4. Registered(servers') = Registered(S)
    <3>1. \A b \in Host : b # a => servers'[b] = S[b]
      BY <2>2 DEF Registry
    <3>2. a \notin Registered(servers')
      BY <2>2 DEF Registered, Registry
    <3> QED BY <2>3, <3>1, <3>2 DEF Registered, Present
  <2>5. \A b \in Registered(S) : servers'[b] = S[b]
    BY <2>2, <2>3 DEF Registered, Present, Registry
  <2>6. \A q : Listing(servers', q) = Listing(S, q)
    BY <1>1, <2>2, <2>4, <2>5, SameListing
  <2> QED BY <1>1, <2>1, <2>6, KeptListing DEF S
<1>4. CASE RefusedHost(a)
  BY <1>4, ExpireQuiet DEF RefusedHost
<1>5. CASE \E k \in Keys, moved \in BOOLEAN : Report(a, k, moved)
  <2> PICK k \in Keys, moved \in BOOLEAN : Report(a, k, moved)
    BY <1>5
  <2>1. ~event[c] /\ servers[a].keys = k
    BY DEF Report, Notified
  <2>2. servers[a] \in Server
    BY <1>1 DEF Report, Registered, Present, Registry
  <2>3. \A b \in Host : b # a => servers'[b] = servers[b]
    BY <1>1 DEF Report, Registry
  <2>4. /\ servers'[a].keys = servers[a].keys
        /\ servers'[a].older = servers[a].older
        /\ servers'[a].registered = servers[a].registered
    BY <1>1, <2>1, <2>2 DEF Report, Registry, Server
  <2>5. servers'[a] # None
    <3>1. servers'[a] = [servers[a] EXCEPT !.keys = k, !.age = 0]
      BY <1>1 DEF Report, Registry
    <3>2. servers'[a] \in Server
      BY <2>2, <3>1, Fresh DEF Server
    <3> QED BY <3>2, NoneIsNothing
  <2>6. Registered(servers') = Registered(servers)
    BY <2>3, <2>4, <2>5 DEF Report, Registered, Present
  <2>7. \A b \in Registered(servers) : /\ servers'[b].keys = servers[b].keys
                                       /\ servers'[b].older = servers[b].older
    BY <2>3, <2>4 DEF Registered, Present
  <2> QED BY <1>2, <2>1, <2>6, <2>7
<1>6. CASE \E k \in Keys, ch \in Challenge : Rechallenge(a, k, ch)
  <2> PICK k \in Keys, ch \in Challenge : Rechallenge(a, k, ch)
    BY <1>6
  <2>1. servers[a] \in Server /\ ~servers[a].registered /\ ~event[c]
    BY <1>1 DEF Rechallenge, Registered, Present, Registry
  <2>2. \A b \in Host : b # a => servers'[b] = servers[b]
    BY <1>1 DEF Rechallenge, Registry
  <2>3. ~servers'[a].registered
    BY <1>1, <2>1 DEF Rechallenge, Registry, Server
  <2>4. Registered(servers') = Registered(servers)
    BY <2>1, <2>2, <2>3 DEF Registered, Present
  <2>5. \A b \in Registered(servers) : servers'[b] = servers[b]
    BY <2>1, <2>2 DEF Registered, Present
  <2> QED BY <1>2, <2>1, <2>4, <2>5
<1>7. CASE RemoveHost(a)
  <2>1. servers[a].registered \in BOOLEAN
    BY <1>1, <1>7 DEF RemoveHost, Registry, Present, Server
  <2>2. ~event[c] /\ ~servers[a].registered
    BY <1>7 DEF RemoveHost, Notified
  <2>3. {a} \cap Registered(servers) = {}
    BY <2>2 DEF Registered
  <2> QED BY <1>1, <1>7, <2>2, <2>3, WithoutListing DEF RemoveHost
<1>8. CASE Prove(a)
  <2>1. servers[a] \in Server /\ servers[a].registered /\ ~event[c]
    <3>1. ~event[c] /\ ~(~servers[a].registered)
      BY <1>8 DEF Prove, Register, Notified
    <3>2. servers[a] \in Server
      BY <1>1, <1>8 DEF Prove, Register, Present, Registry
    <3> QED BY <3>1, <3>2
  <2>2. \A b \in Host : b # a => servers'[b] = servers[b]
    BY <1>1, <1>8 DEF Prove, Register, Registry
  <2>3. servers'[a] = [servers[a] EXCEPT !.registered = TRUE, !.age = 0]
    BY <1>1, <1>8, <2>1 DEF Prove, Register, Registry, Server
  <2>4. /\ servers'[a].keys = servers[a].keys
        /\ servers'[a].older = servers[a].older
        /\ servers'[a].registered
    BY <2>1, <2>3 DEF Server
  <2>5. servers'[a] # None
    <3>1. servers'[a] \in Server
      BY <2>1, <2>3, Fresh DEF Server
    <3> QED BY <3>1, NoneIsNothing
  <2>6. Registered(servers') = Registered(servers)
    BY <1>8, <2>1, <2>2, <2>4, <2>5 DEF Prove, Register, Registered, Present
  <2>7. \A b \in Registered(servers) : /\ servers'[b].keys = servers[b].keys
                                       /\ servers'[b].older = servers[b].older
    BY <2>2, <2>4 DEF Registered, Present
  <2> QED BY <1>2, <2>1, <2>6, <2>7
<1> QED BY <1>3, <1>4, <1>5, <1>6, <1>7, <1>8 DEF Heartbeat

(* Synced of one reader whose subscription and lists a step leaves alone.  *)
Sync(c) == Subscribed(c) /\ ~event[c] =>
             /\ known[c] = Listing(servers, sub[c])
             /\ \A a \in Host \ asked[c] : view[c][a] = known[c][a]

LEMMA SyncKept ==
  ASSUME Synced, ViewKnown, NEW c \in Reader,
         conn'[c] = conn[c], sub'[c] = sub[c], known'[c] = known[c],
         view'[c] = view[c], asked'[c] = asked[c],
         Connected(c) /\ ~event'[c] =>
           ~event[c] /\ \A q : Listing(servers', q) = Listing(servers, q)
  PROVE  Sync(c)' /\ \A a \in Host \ asked'[c] : view'[c][a] = known'[c][a]
BY DEF Synced, ViewKnown, Sync, Subscribed, Connected

LEMMA SyncGone ==
  ASSUME Synced, ViewKnown, Types, NEW c \in Reader, Unsubscribed(c)
  PROVE  Sync(c)' /\ \A a \in Host \ asked'[c] : view'[c][a] = known'[c][a]
BY DEF Unsubscribed, Sync, Subscribed, Empty, Types

LEMMA SyncNext == SyncInv /\ [Next]_vars => ViewKnown' /\ Synced'
<1> SUFFICES ASSUME SyncInv, [Next]_vars PROVE ViewKnown' /\ Synced'
  OBVIOUS
<1>1. Types /\ ViewKnown /\ Synced
  BY DEF SyncInv
<1> DEFINE Good(c) ==
      Sync(c)' /\ \A a \in Host \ asked'[c] : view'[c][a] = known'[c][a]
<1>2. SUFFICES ASSUME NEW c \in Reader PROVE Good(c)
  BY DEF ViewKnown, Synced, Sync
<1>3. ASSUME UNCHANGED <<conn, pushVars, clientVars>>,
             Connected(c) /\ ~event'[c] =>
               ~event[c] /\ \A q : Listing(servers', q) = Listing(servers, q)
      PROVE  Good(c)
  BY <1>1, <1>3, SyncKept DEF pushVars, clientVars
<1>4. ASSUME NEW d \in Reader, LateLookup(d) PROVE Good(c)
  BY <1>1, <1>3, <1>4, ExpireQuiet DEF LateLookup
<1>5. ASSUME NEW a \in Host, Heartbeat(a) \/ Prove(a) PROVE Good(c)
  <2>1. UNCHANGED <<conn, pushVars, clientVars>>
    BY <1>5 DEF Heartbeat, NewHost, RefusedHost, Report, Rechallenge,
                RemoveHost, Prove, Register
  <2> QED BY <1>1, <1>3, <1>5, <2>1, HostQuiet
<1>6. CASE Expire
  BY <1>1, <1>3, <1>6, ExpireQuiet DEF Expire
<1>7. CASE Tick
  <2>1. servers \in Registry /\ servers' \in Registry
    BY <1>1, QRTypeNext, TypeSplit DEF QRType
  <2>2. \A a \in Host : servers'[a] = servers[a] \/
          (servers[a] # None /\ servers'[a] = [servers[a] EXCEPT !.age = @ + 1])
    BY <1>7 DEF Tick
  <2>3. \A a \in Host : servers[a] = None <=> servers'[a] = None
    <3> SUFFICES ASSUME NEW a \in Host, servers[a] # None, servers'[a] # servers[a]
                 PROVE  servers'[a] # None
      BY <2>2
    <3>1. ~(servers[a].age > TTL) /\ servers[a] \in Server
      BY <1>7, <2>1 DEF Tick, Registry
    <3>2. [servers[a] EXCEPT !.age = @ + 1] \in Server
      BY <3>1, DirectoryConstants DEF Server
    <3> QED BY <2>2, <3>2, NoneIsNothing
  <2>4. \A a \in Present(servers) :
          /\ servers'[a].keys = servers[a].keys
          /\ servers'[a].older = servers[a].older
          /\ servers'[a].registered = servers[a].registered
    BY <2>1, <2>2 DEF Registry, Server, Present
  <2>5. Registered(servers') = Registered(servers)
    BY <2>3, <2>4 DEF Registered, Present
  <2>6. \A q : Listing(servers', q) = Listing(servers, q)
    BY <2>1, <2>4, <2>5, SameListing DEF Registered
  <2> QED BY <1>3, <1>7, <2>6 DEF Tick
<1>8. CASE RequestDrain \/ UNCHANGED vars
  BY <1>3, <1>8 DEF RequestDrain, vars, qrVars, pushVars, clientVars
<1>9. CASE BeginDrain
  <2>1. conn'[c] # "keyed"
    BY <1>1, <1>9 DEF BeginDrain, Connected, Types
  <2> QED BY <1>1, <1>9, <2>1
          DEF BeginDrain, pushVars, clientVars, Sync, Subscribed, ViewKnown
<1>10. ASSUME NEW d \in Reader, Connect(d) PROVE Good(c)
  <2>1. CASE d = c
    <3>1. conn'[c] # "keyed"
      BY <1>1, <1>10, <2>1 DEF Connect, Types
    <3> QED BY <1>1, <1>10, <3>1
            DEF Connect, pushVars, clientVars, Sync, Subscribed, ViewKnown
  <2>2. CASE d # c
    <3>1. /\ conn'[c] = conn[c]
          /\ UNCHANGED <<servers, event, sub, known, view, asked>>
      BY <1>1, <1>10, <2>2 DEF Connect, qrVars, pushVars, clientVars, Types
    <3> QED BY <1>1, <3>1, SyncKept
  <2> QED BY <2>1, <2>2
<1>11. ASSUME NEW d \in Reader, Close(d) PROVE Good(c)
  <2>1. CASE d = c
    BY <1>1, <1>11, <2>1, SyncGone DEF Close, Closed
  <2>2. CASE d # c
    <3>1. /\ conn'[c] = conn[c] /\ sub'[c] = sub[c] /\ known'[c] = known[c]
          /\ view'[c] = view[c] /\ asked'[c] = asked[c] /\ event'[c] = event[c]
          /\ servers' = servers
      BY <1>1, <1>11, <2>2
      DEF Close, Closed, Unsubscribed, qrVars, Types
    <3> QED BY <1>1, <3>1, SyncKept
  <2> QED BY <2>1, <2>2
<1>12. ASSUME NEW d \in Reader, NEW q \in Query, Subscribe(d, q) PROVE Good(c)
  <2>1. CASE d = c
    BY <1>1, <1>12, <2>1 DEF Subscribe, Sync, Types
  <2>2. CASE d # c
    <3>1. event' = Notified(ListChanges(servers)) /\ servers' = Kept(servers)
      BY <1>12 DEF Subscribe
    <3>2. /\ conn'[c] = conn[c] /\ sub'[c] = sub[c] /\ known'[c] = known[c]
          /\ view'[c] = view[c] /\ asked'[c] = asked[c]
      BY <1>1, <1>12, <2>2 DEF Subscribe, Types
    <3> QED BY <1>1, <3>1, <3>2, SyncKept, ExpireQuiet
  <2> QED BY <2>1, <2>2
<1>13. ASSUME NEW d \in Reader, ListOnce(d) \/ RefusedRequest(d) PROVE Good(c)
  <2>1. CASE d = c
    BY <1>1, <1>13, <2>1, SyncGone DEF ListOnce, RefusedRequest
  <2>2. CASE d # c
    <3>1. /\ conn'[c] = conn[c] /\ sub'[c] = sub[c] /\ known'[c] = known[c]
          /\ view'[c] = view[c] /\ asked'[c] = asked[c]
      BY <1>1, <1>13, <2>2 DEF ListOnce, RefusedRequest, Unsubscribed, Types
    <3>2. \/ UNCHANGED <<servers, event>>
          \/ event' = Notified(ListChanges(servers)) /\ servers' = Kept(servers)
      BY <1>13 DEF ListOnce, RefusedRequest, qrVars
    <3> QED BY <1>1, <3>1, <3>2, SyncKept, ExpireQuiet
  <2> QED BY <2>1, <2>2
<1>14. ASSUME NEW d \in Reader, NEW a \in Host, InfoRequest(d, a) PROVE Good(c)
  <2>1. /\ UNCHANGED <<conn, sub, known>>
        /\ event' = Notified(ListChanges(servers)) /\ servers' = Kept(servers)
    BY <1>14 DEF InfoRequest, pushVars
  <2>2. /\ asked[c] \subseteq asked'[c]
        /\ \A b \in Host \ asked'[c] : view'[c][b] = view[c][b]
    BY <1>1, <1>14 DEF InfoRequest, clientVars, Types, List
  <2>3. Connected(c) /\ ~event'[c] =>
          ~event[c] /\ \A q : Listing(servers', q) = Listing(servers, q)
    BY <1>1, <2>1, ExpireQuiet
  <2> QED BY <1>1, <2>1, <2>2, <2>3
          DEF Sync, Synced, ViewKnown, Subscribed, Connected
<1>15. ASSUME NEW d \in Reader, NEW a \in Host, RelayMessage(d, a) PROVE Good(c)
  <2>1. CASE a \in Registered(Kept(servers))
    BY <1>1, <1>3, <1>15, <2>1, ExpireQuiet DEF RelayMessage
  <2>2. CASE a \notin Registered(Kept(servers)) /\ d = c
    BY <1>1, <1>15, <2>2, SyncGone DEF RelayMessage, Closed
  <2>3. CASE a \notin Registered(Kept(servers)) /\ d # c
    <3>1. /\ conn'[c] = conn[c] /\ sub'[c] = sub[c] /\ known'[c] = known[c]
          /\ view'[c] = view[c] /\ asked'[c] = asked[c]
          /\ event'[c] = Notified(ListChanges(servers))[c]
          /\ servers' = Kept(servers)
      BY <1>1, <1>15, <2>3
      DEF RelayMessage, Closed, Unsubscribed, Types, Notified
    <3> QED BY <1>1, <3>1, SyncKept, ExpireQuiet
  <2> QED BY <2>1, <2>2, <2>3
<1>16. ASSUME NEW d \in Reader, PushUpdates(d) PROVE Good(c)
  <2> DEFINE list == Listing(Kept(servers), sub[d])
             sent == Deleted(d, list) \cup Changed(d, list)
  <2>1. /\ known' = [known EXCEPT ![d] = list]
        /\ view' = [view EXCEPT ![d] = [a \in Host |->
                      IF a \in sent THEN list[a] ELSE view[d][a]]]
        /\ asked' = [asked EXCEPT ![d] = @ \ sent]
        /\ event' = [Notified(ListChanges(servers)) EXCEPT
                       ![d] = ListChanges(servers)]
        /\ UNCHANGED <<conn, sub>>
        /\ servers' = Kept(servers)
    BY <1>16 DEF PushUpdates
  <2>2. CASE d = c
    <3>1. known'[c] = list /\ asked'[c] = asked[c] \ sent
      BY <1>1, <2>1, <2>2 DEF Types
    <3>2. \A a \in Host : view'[c][a] = IF a \in sent THEN list[a] ELSE view[c][a]
      BY <1>1, <2>1, <2>2 DEF Types
    <3>3. \A a \in Host \ sent : known[c][a] = list[a]
      BY <2>2 DEF Deleted, Changed
    <3>4. list = Listing(servers', sub'[c])
      BY <2>1, <2>2
    <3> HIDE DEF list, sent
    <3>5. \A a \in Host \ asked'[c] : view'[c][a] = known'[c][a]
      BY <1>1, <3>1, <3>2, <3>3 DEF ViewKnown
    <3> QED BY <3>1, <3>4, <3>5 DEF Sync
  <2>3. CASE d # c
    <3>1. /\ conn'[c] = conn[c] /\ sub'[c] = sub[c] /\ known'[c] = known[c]
          /\ view'[c] = view[c] /\ asked'[c] = asked[c]
          /\ event'[c] = Notified(ListChanges(servers))[c]
      BY <1>1, <2>1, <2>3 DEF Types, Notified
    <3> QED BY <1>1, <2>1, <3>1, SyncKept, ExpireQuiet
  <2> QED BY <2>2, <2>3
<1>17. ASSUME NEW d \in Reader, PushNothing(d) PROVE Good(c)
  <2>1. CASE d = c
    BY <1>1, <1>17, <2>1
    DEF PushNothing, pushVars, clientVars, Sync, Subscribed, ViewKnown
  <2>2. CASE d # c
    <3>1. /\ event'[c] = event[c]
          /\ UNCHANGED <<servers, conn, sub, known, view, asked>>
      BY <1>1, <1>17, <2>2
      DEF PushNothing, qrVars, pushVars, clientVars, Types
    <3> QED BY <1>1, <3>1, SyncKept
  <2> QED BY <2>1, <2>2
<1>18. ASSUME NEW d \in Reader, PushDone(d) PROVE Good(c)
  BY <1>1, <1>18, SyncKept DEF PushDone, qrVars, clientVars
<1> HIDE DEF Good
<1>19. ASSUME NEW d \in Reader, Request(d) PROVE Good(c)
  BY <1>4, <1>12, <1>13, <1>14, <1>15, <1>19 DEF Request
<1> QED BY <1>5, <1>6, <1>7, <1>8, <1>9, <1>10, <1>11, <1>16, <1>17, <1>18, <1>19
        DEF Next

(* No wake-up is lost: whatever hosts and readers do between the steps of  *)
(* a push task, a subscription whose event is not set knows what is listed.*)
THEOREM SyncCorrect == Spec => []Synced
<1>1. Init => SyncInv
  BY TypeInit, SyncInit DEF SyncInv
<1>2. SyncInv /\ [Next]_vars => SyncInv'
  BY TypeNext, SyncNext DEF SyncInv
<1>3. SyncInv => Synced
  BY DEF SyncInv
<1> QED BY <1>1, <1>2, <1>3, PTL DEF Spec
-----------------------------------------------------------------------------
(* Spec => ProofCoversKeys.  An answer on the way to the challenge that    *)
(* counts was made for the keys of the record.                             *)

AnswerFits ==
  \A a \in Present(servers) \ Registered(servers) :
    answer[a] # None /\ answer[a].challenge = servers[a].challenge =>
      answer[a].keys = servers[a].keys

(* Steps that take records away and change no other.                       *)
LEMMA FitsWithout ==
  ASSUME Types, AnswerFits, NEW gone,
         servers' = Without(servers, gone), answer' = answer
  PROVE  AnswerFits' /\ Registered(servers') \subseteq Registered(servers)
<1>1. servers \in Registry
  BY DEF Types, Registry
<1>2. /\ Present(servers') = Present(servers) \ gone
      /\ Registered(servers') = Registered(servers) \ gone
      /\ \A a \in Present(servers) \ gone :
           servers'[a] = [servers[a] EXCEPT !.older = @ \ gone]
  BY <1>1, WithoutType
<1>3. \A a \in Present(servers) \ gone :
        /\ servers'[a].keys = servers[a].keys
        /\ servers'[a].challenge = servers[a].challenge
  BY <1>1, <1>2 DEF Registry, Server, Present
<1> QED BY <1>2, <1>3 DEF AnswerFits

(* Steps that change the record and the answer of one host.                *)
LEMMA FitsOne ==
  ASSUME AnswerFits, NEW a \in Host,
         \A b \in Host \ {a} : servers'[b] = servers[b] /\ answer'[b] = answer[b],
         a \in Present(servers') \ Registered(servers') =>
           (answer'[a] # None /\ answer'[a].challenge = servers'[a].challenge =>
              answer'[a].keys = servers'[a].keys)
  PROVE  AnswerFits'
BY DEF AnswerFits, Present, Registered

(* Only a proof registers, and it comes from an answer that fits.          *)
Covered == \A a \in Registered(servers') \ Registered(servers) :
             answer[a] # None /\ answer[a].keys = servers'[a].keys

LEMMA FitsChallenged ==
  ASSUME Types, NEW a \in Host, NEW k \in Keys, NEW ch \in Challenge,
         Challenged(a, k, ch)
  PROVE  /\ \A b \in Host \ {a} : answer'[b] = answer[b]
         /\ answer'[a] # None /\ answer'[a].challenge = ch => answer'[a].keys = k
BY DEF Challenged, Types

LEMMA FitsNext == Types /\ AnswerFits /\ [Next]_vars => AnswerFits' /\ Covered
<1> SUFFICES ASSUME Types, AnswerFits, [Next]_vars
             PROVE  AnswerFits' /\ Covered
  OBVIOUS
<1>1. servers \in Registry /\ servers' \in Registry
  BY QRTypeNext, TypeSplit DEF QRType
<1>2. ASSUME NEW gone, servers' = Without(servers, gone), answer' = answer
      PROVE  AnswerFits' /\ Covered
  BY <1>2, FitsWithout DEF Covered
<1>3. ASSUME servers' = Kept(servers), answer' = answer
      PROVE  AnswerFits' /\ Covered
  BY <1>2, <1>3 DEF Kept
<1>4. ASSUME UNCHANGED qrVars PROVE AnswerFits' /\ Covered
  BY <1>4 DEF qrVars, AnswerFits, Covered, Present, Registered
<1>5. ASSUME NEW a \in Host, NEW k \in Keys, NEW ch \in Challenge,
             NewHost(a, k, ch)
      PROVE  AnswerFits' /\ Covered
  <2> DEFINE S == Kept(servers)
             new == [keys |-> k, challenge |-> ch, registered |-> FALSE,
                     age |-> 0, older |-> {}]
  <2>1. /\ S \in Registry
        /\ servers' = [S EXCEPT ![a] = new]
        /\ new.keys = k /\ new.challenge = ch /\ ~new.registered
    BY <1>1, <1>5, KeptType DEF NewHost
  <2>2. /\ Registered(S) \subseteq Registered(servers)
        /\ \A b \in Present(S) \ Registered(S) :
             /\ b \in Present(servers) \ Registered(servers)
             /\ S[b].keys = servers[b].keys
             /\ S[b].challenge = servers[b].challenge
    <3>1. /\ Present(S) = Present(servers) \ Expired(servers)
          /\ Registered(S) = Registered(servers) \ Expired(servers)
          /\ \A b \in Present(S) :
               S[b] = [servers[b] EXCEPT !.older = @ \ Expired(servers)]
      BY <1>1, WithoutType DEF Kept
    <3>2. \A b \in Present(servers) : servers[b] \in Server
      BY <1>1 DEF Registry, Present
    <3> HIDE DEF S
    <3> QED BY <3>1, <3>2 DEF Server
  <2> HIDE DEF S, new
  <2>3. /\ \A b \in Host \ {a} : answer'[b] = answer[b] /\ servers'[b] = S[b]
        /\ servers'[a] = new
        /\ answer'[a] # None /\ answer'[a].challenge = ch => answer'[a].keys = k
    BY <1>5, <2>1, FitsChallenged DEF NewHost, Registry
  <2>4. \A b \in Host \ {a} :
          /\ b \in Present(servers') <=> b \in Present(S)
          /\ b \in Registered(servers') <=> b \in Registered(S)
    BY <2>3 DEF Present, Registered
  <2>5. a \notin Registered(servers')
    BY <2>1, <2>3 DEF Registered
  <2>6. AnswerFits'
    BY <2>1, <2>2, <2>3, <2>4 DEF AnswerFits, Present
  <2>7. Covered
    BY <2>2, <2>4, <2>5 DEF Covered, Registered, Present
  <2> QED BY <2>6, <2>7
<1>6. ASSUME NEW a \in Host, NEW k \in Keys, NEW moved \in BOOLEAN,
             Report(a, k, moved)
      PROVE  AnswerFits' /\ Covered
  <2>1. /\ \A b \in Host \ {a} : servers'[b] = servers[b]
        /\ servers'[a] = [servers[a] EXCEPT !.keys = k, !.age = 0]
        /\ servers[a] \in Server /\ servers[a].registered /\ answer' = answer
    BY <1>1, <1>6 DEF Report, Registry, Registered, Present
  <2>2. servers'[a].registered
    BY <2>1 DEF Server
  <2> QED BY <1>6, <2>1, <2>2, FitsOne DEF Covered, Registered, Present, Report
<1>7. ASSUME NEW a \in Host, NEW k \in Keys, NEW ch \in Challenge,
             Rechallenge(a, k, ch)
      PROVE  AnswerFits' /\ Covered
  <2>1. /\ \A b \in Host \ {a} : servers'[b] = servers[b]
        /\ servers'[a] = [servers[a] EXCEPT !.keys = k, !.age = 0,
                                            !.challenge = ch]
        /\ servers[a] \in Server /\ ~servers[a].registered
    BY <1>1, <1>7 DEF Rechallenge, Registry, Registered, Present
  <2>2. /\ ~servers'[a].registered
        /\ servers'[a].keys = k /\ servers'[a].challenge = ch
    BY <2>1 DEF Server
  <2>3. /\ \A b \in Host \ {a} : answer'[b] = answer[b]
        /\ answer'[a] # None /\ answer'[a].challenge = ch => answer'[a].keys = k
    BY <1>7, FitsChallenged DEF Rechallenge
  <2>4. AnswerFits'
    BY <2>1, <2>2, <2>3, FitsOne
  <2> QED BY <2>1, <2>2, <2>4 DEF Covered, Registered, Present
<1>8. ASSUME NEW a \in Host, Prove(a) PROVE AnswerFits' /\ Covered
  <2>1. servers[a] \in Server /\ answer' = answer
    BY <1>1, <1>8 DEF Prove, Register, Registry, Present
  <2>2. PICK older : servers' = [servers EXCEPT ![a] =
            [servers[a] EXCEPT !.registered = TRUE, !.age = 0, !.older = older]]
    BY <1>1, <1>8, <2>1 DEF Prove, Register, Registry, Server
  <2>3. /\ \A b \in Host \ {a} : servers'[b] = servers[b]
        /\ servers'[a].registered /\ servers'[a].keys = servers[a].keys
    BY <1>1, <2>1, <2>2 DEF Registry, Server
  <2>4. AnswerFits'
    BY <2>1, <2>3, FitsOne DEF Registered, Present
  <2>5. ASSUME a \notin Registered(servers)
        PROVE  answer[a] # None /\ answer[a].keys = servers[a].keys
    BY <1>8, <2>5 DEF Prove, Register, AnswerFits
  <2> QED BY <2>3, <2>4, <2>5 DEF Covered, Registered, Present
<1>9. CASE Tick
  <2>1. \A a \in Host : servers'[a] = servers[a] \/
          (servers[a] # None /\ servers'[a] = [servers[a] EXCEPT !.age = @ + 1])
    BY <1>9 DEF Tick
  <2>2. \A a \in Present(servers) :
          /\ servers'[a].keys = servers[a].keys
          /\ servers'[a].challenge = servers[a].challenge
          /\ servers'[a].registered = servers[a].registered
    BY <1>1, <2>1 DEF Registry, Server, Present
  <2>3. \A a \in Host : servers'[a] # None => servers[a] # None
    BY <2>1
  <2> QED BY <1>9, <2>2, <2>3 DEF Tick, AnswerFits, Covered, Registered, Present
<1>10. ASSUME NEW c \in Reader, Request(c) PROVE AnswerFits' /\ Covered
  BY <1>3, <1>4, <1>10
  DEF Request, Subscribe, ListOnce, RefusedRequest, InfoRequest, RelayMessage, LateLookup
<1>11. ASSUME NEW c \in Reader,
              \/ Connect(c) \/ Close(c)
              \/ PushUpdates(c) \/ PushNothing(c) \/ PushDone(c)
       PROVE  AnswerFits' /\ Covered
  BY <1>3, <1>4, <1>11 DEF Connect, Close, PushUpdates, PushNothing, PushDone
<1>12. CASE RequestDrain \/ BeginDrain \/ UNCHANGED vars
  BY <1>4, <1>12 DEF RequestDrain, BeginDrain, vars, qrVars
<1>13. CASE Expire
  BY <1>3, <1>13 DEF Expire
<1>14. ASSUME NEW a \in Host, Heartbeat(a) PROVE AnswerFits' /\ Covered
  BY <1>2, <1>3, <1>5, <1>6, <1>7, <1>14 DEF Heartbeat, RefusedHost, RemoveHost
<1> QED BY <1>8, <1>9, <1>10, <1>11, <1>12, <1>13, <1>14 DEF Next

(* A host becomes registered with the keys its proof was asked for, however*)
(* late or often its answers come.                                         *)
THEOREM ProofCorrect == Spec => ProofCoversKeys
<1>1. Init => AnswerFits
  BY DEF Init, AnswerFits, Present
<1>2. Types /\ AnswerFits /\ [Next]_vars
        => AnswerFits' /\ [Covered]_vars
  BY FitsNext
<1>3. Spec => [](AnswerFits /\ Types)
  BY <1>1, <1>2, TypesHold, PTL DEF Spec
<1> QED BY <1>2, <1>3, PTL DEF Spec, ProofCoversKeys, Covered
-----------------------------------------------------------------------------
(* Spec => FirstHostStays.                                                 *)

(* Seniority is decided once: nobody becomes older than a registered host. *)
LEMMA OlderNext ==
  Types /\ [Next]_vars =>
    \A a \in Registered(servers) :
      servers'[a] # None => servers'[a].older \subseteq servers[a].older
<1> SUFFICES ASSUME Types, [Next]_vars, NEW a \in Registered(servers),
                    servers'[a] # None
             PROVE  servers'[a].older \subseteq servers[a].older
  OBVIOUS
<1>1. servers \in Registry /\ servers[a] \in Server /\ a \in Host
  BY DEF Types, Registry, Registered, Present
<1>2. ASSUME NEW gone, servers'[a] = Without(servers, gone)[a]
      PROVE  servers'[a].older \subseteq servers[a].older
  <2>1. a \in Present(servers) \ gone
    <3>1. a \in Present(servers)
      BY DEF Registered
    <3>2. a \notin gone
      BY <1>1, <1>2, <3>1 DEF Without
    <3> QED BY <3>1, <3>2
  <2>2. servers'[a] = [servers[a] EXCEPT !.older = @ \ gone]
    BY <1>1, <1>2, <2>1, WithoutType
  <2> QED BY <1>1, <2>2 DEF Server
<1>3. ASSUME servers'[a] = Kept(servers)[a]
      PROVE  servers'[a].older \subseteq servers[a].older
  BY <1>2, <1>3 DEF Kept
<1>4. ASSUME servers' = servers
      PROVE  servers'[a].older \subseteq servers[a].older
  BY <1>4
<1>5. ASSUME NEW b \in Host, Heartbeat(b) \/ Prove(b)
      PROVE  servers'[a].older \subseteq servers[a].older
  <2>1. ASSUME NEW k \in Keys, NEW ch \in Challenge, NewHost(b, k, ch)
        PROVE  servers'[a].older \subseteq servers[a].older
    <3>1. b # a
      BY <2>1 DEF NewHost, Registered, Present
    <3>2. Kept(servers) \in Registry
      BY <1>1, KeptType
    <3>3. servers'[a] = Kept(servers)[a]
      BY <1>1, <2>1, <3>1, <3>2 DEF NewHost, Registry
    <3> QED BY <1>3, <3>3
  <2>2. ASSUME NEW k \in Keys, NEW moved \in BOOLEAN, Report(b, k, moved)
        PROVE  servers'[a].older \subseteq servers[a].older
    <3>1. \/ servers'[a] = servers[a]
          \/ servers'[a] = [servers[a] EXCEPT !.keys = k, !.age = 0]
      BY <1>1, <2>2 DEF Report, Registry
    <3> QED BY <1>1, <3>1 DEF Server
  <2>3. ASSUME NEW k \in Keys, NEW ch \in Challenge, Rechallenge(b, k, ch)
        PROVE  servers'[a].older \subseteq servers[a].older
    <3>1. servers'[a] = servers[a]
      BY <1>1, <2>3 DEF Rechallenge, Registry
    <3> QED BY <3>1
  <2>4. ASSUME Prove(b)
        PROVE  servers'[a].older \subseteq servers[a].older
    <3>1. CASE b = a
      <4>1. servers'[a] = [servers[a] EXCEPT !.registered = TRUE, !.age = 0,
                             !.older = servers[a].older]
        BY <1>1, <2>4, <3>1 DEF Prove, Register, Registry, Registered, Server
      <4> QED BY <1>1, <4>1 DEF Server
    <3>2. CASE b # a
      BY <1>1, <2>4, <3>2 DEF Prove, Register, Registry
    <3> QED BY <3>1, <3>2
  <2> QED BY <1>2, <1>3, <1>5, <2>1, <2>2, <2>3, <2>4
          DEF Heartbeat, RefusedHost, RemoveHost
<1>6. CASE Tick
  <2>1. \/ servers'[a] = servers[a]
        \/ servers'[a] = [servers[a] EXCEPT !.age = @ + 1]
    BY <1>1, <1>6 DEF Tick
  <2> QED BY <1>1, <2>1 DEF Server
<1>7. ASSUME NEW c \in Reader,
             \/ Connect(c) \/ Request(c) \/ Close(c)
             \/ PushUpdates(c) \/ PushNothing(c) \/ PushDone(c)
      PROVE  servers' = servers \/ servers' = Kept(servers)
  BY <1>7
  DEF Connect, Request, Close, PushUpdates, PushNothing, PushDone, Subscribe,
      ListOnce, RefusedRequest, InfoRequest, RelayMessage, LateLookup, qrVars
<1>8. CASE RequestDrain \/ BeginDrain \/ Expire \/ UNCHANGED vars
  BY <1>3, <1>8 DEF RequestDrain, BeginDrain, Expire, vars, qrVars
<1> QED BY <1>3, <1>5, <1>6, <1>7, <1>8 DEF Next

Stays ==
  \A q \in Query : q.automatch =>
    \A a \in Listed(servers, q) \cap Compatible(servers', q) :
      \/ a \in Listed(servers', q)
      \/ servers[a].older \cap
           (Compatible(servers', q) \ Compatible(servers, q)) # {}

LEMMA FirstNext == Types /\ [Next]_vars => Stays
<1> USE DEF Stays
<1> SUFFICES ASSUME Types, [Next]_vars, NEW q \in Query, q.automatch,
                    NEW a \in Listed(servers, q) \cap Compatible(servers', q),
                    a \notin Listed(servers', q)
             PROVE  servers[a].older \cap
                      (Compatible(servers', q) \ Compatible(servers, q)) # {}
  OBVIOUS
<1>1. PICK b \in servers'[a].older : b \in Compatible(servers', q)
  BY DEF Listed
<1>2. a \in Registered(servers) /\ servers[a].older \cap Compatible(servers, q) = {}
  BY DEF Listed, Compatible, Matching
<1>3. servers'[a] # None
  BY DEF Compatible, Matching, Registered, Present
<1>4. b \in servers[a].older
  BY <1>1, <1>2, <1>3, OlderNext
<1> QED BY <1>1, <1>2, <1>4

(* The oldest open host stays the one that automatch shows: neither a      *)
(* newcomer nor a repeated proof displaces it, for any number of hosts.    *)
THEOREM FirstCorrect == Spec => FirstHostStays
<1>1. Types /\ [Next]_vars => [Stays]_vars
  BY FirstNext
<1> QED BY <1>1, TypesHold, PTL DEF Spec, FirstHostStays, Stays
-----------------------------------------------------------------------------
(* Spec => []OldestListed.  The registered hosts are ranked: `older` is a  *)
(* total order on them, and every set of them has a first one.  The second *)
(* does not follow from the first, as the hosts need not be finitely many. *)

Ranked(S) ==
  \A a, b \in Registered(S) :
    /\ S[a].older \subseteq Registered(S)
    /\ a \notin S[a].older
    /\ a # b => (a \in S[b].older \/ b \in S[a].older)
    /\ a \in S[b].older => b \notin S[a].older

HasFirst(S) ==
  \A X \in SUBSET Registered(S) :
    X # {} => \E a \in X : S[a].older \cap X = {}

LEMMA FewerRanked ==
  \A S, T : Ranked(S) /\ HasFirst(S) /\ Fewer(S, T) => Ranked(T) /\ HasFirst(T)
<1> SUFFICES ASSUME NEW S, NEW T, Ranked(S), HasFirst(S), Fewer(S, T)
             PROVE  Ranked(T) /\ HasFirst(T)
  OBVIOUS
<1>1. PICK gone :
        /\ Registered(T) = Registered(S) \ gone
        /\ \A a \in Registered(T) : T[a].older = S[a].older \ gone
  BY DEF Fewer
<1>2. Ranked(T)
  BY <1>1 DEF Ranked
<1>3. ASSUME NEW X \in SUBSET Registered(T), X # {}
      PROVE  \E a \in X : T[a].older \cap X = {}
  <2>1. X \in SUBSET Registered(S)
    BY <1>1
  <2>2. PICK a \in X : S[a].older \cap X = {}
    BY <1>3, <2>1 DEF HasFirst
  <2>3. T[a].older \cap X = {}
    BY <1>1, <2>2
  <2> QED BY <2>3
<1> QED BY <1>2, <1>3 DEF HasFirst

LEMMA EntersRanked ==
  \A S, T : Ranked(S) /\ HasFirst(S) /\ Enters(S, T) => Ranked(T) /\ HasFirst(T)
<1> SUFFICES ASSUME NEW S, NEW T, Ranked(S), HasFirst(S), Enters(S, T)
             PROVE  Ranked(T) /\ HasFirst(T)
  OBVIOUS
<1>1. PICK a \in Host \ Registered(S) :
        /\ Registered(T) = Registered(S) \cup {a}
        /\ T[a].older = Registered(S)
        /\ \A b \in Registered(S) : T[b].older = S[b].older
  BY DEF Enters
<1>2. Ranked(T)
  BY <1>1 DEF Ranked
<1>3. ASSUME NEW X \in SUBSET Registered(T), X # {}
      PROVE  \E b \in X : T[b].older \cap X = {}
  <2>1. CASE X \subseteq {a}
    BY <1>1, <1>3, <2>1
  <2>2. CASE ~(X \subseteq {a})
    <3> DEFINE Y == X \ {a}
    <3>1. Y \in SUBSET Registered(S) /\ Y # {}
      BY <1>1, <2>2
    <3>2. PICK b \in Y : S[b].older \cap Y = {}
      BY <3>1 DEF HasFirst
    <3>3. S[b].older \subseteq Registered(S)
      BY <3>1 DEF Ranked
    <3>4. T[b].older \cap X = {}
      BY <1>1, <3>1, <3>2, <3>3
    <3> QED BY <3>4
  <2> QED BY <2>1, <2>2
<1> QED BY <1>2, <1>3 DEF HasFirst

LEMMA Ranks == Spec => [](Ranked(servers) /\ HasFirst(servers))
<1>1. Init => Ranked(servers) /\ HasFirst(servers)
  BY DEF Init, Ranked, HasFirst, Registered, Present
<1>2. Types /\ Ranked(servers) /\ HasFirst(servers) /\ [Next]_vars
        => (Ranked(servers) /\ HasFirst(servers))'
  BY RegistrySteps, FewerRanked, EntersRanked
<1> QED BY <1>1, <1>2, TypesHold, PTL DEF Spec

(* What automatch publishes when the hosts are ranked.                     *)
LEMMA FirstListed ==
  \A S, q : Ranked(S) /\ HasFirst(S) /\ q.automatch /\ Compatible(S, q) # {} =>
    \E a \in Host : /\ Listed(S, q) = {a}
                    /\ \A b \in Compatible(S, q) \ {a} : a \in S[b].older
<1> SUFFICES ASSUME NEW S, NEW q, Ranked(S), HasFirst(S), q.automatch,
                    Compatible(S, q) # {}
             PROVE  \E a \in Host :
                      /\ Listed(S, q) = {a}
                      /\ \A b \in Compatible(S, q) \ {a} : a \in S[b].older
  OBVIOUS
<1> DEFINE X == Compatible(S, q)
<1>1. X \in SUBSET Registered(S) /\ X \subseteq Host
  BY DEF Compatible, Matching, Registered, Present
<1>2. Listed(S, q) = {a \in X : S[a].older \cap X = {}}
  BY DEF Listed
<1> HIDE DEF X
<1>3. PICK a \in X : S[a].older \cap X = {}
  BY <1>1 DEF HasFirst, X
<1>4. \A b \in X \ {a} : a \in S[b].older
  BY <1>1, <1>3 DEF Ranked
<1>5. Listed(S, q) = {a}
  BY <1>2, <1>3, <1>4
<1> QED BY <1>1, <1>4, <1>5 DEF X

(* Automatch publishes exactly one of the compatible hosts, the one that   *)
(* registered before all of the others, however many come, leave, fall     *)
(* silent or repeat their proofs.                                          *)
THEOREM OldestCorrect == Spec => []OldestListed
<1>1. Ranked(servers) /\ HasFirst(servers) => OldestListed
  BY FirstListed DEF OldestListed
<1> QED BY <1>1, Ranks, PTL
-----------------------------------------------------------------------------
(* Spec => ImplementsBulletin.                                             *)

Page == [q \in Query |-> Listing(Kept(servers), q)]

LEMMA SamePage ==
  Types /\ (servers' = servers \/ servers' = Kept(servers)) => Page' = Page
BY KeptTwice DEF Page, Types, Registry

(* An automatch page shows one host at most, also without those that are   *)
(* about to expire.                                                        *)
LEMMA OnePage ==
  \A S \in Registry : \A q, a, b :
    /\ Ranked(S) /\ HasFirst(S) /\ q.automatch
    /\ Listing(Kept(S), q)[a] # None /\ Listing(Kept(S), q)[b] # None
    /\ a \in Host /\ b \in Host
    => a = b
<1> SUFFICES ASSUME NEW S \in Registry, NEW q, NEW a \in Host, NEW b \in Host,
                    Ranked(S), HasFirst(S), q.automatch,
                    Listing(Kept(S), q)[a] # None, Listing(Kept(S), q)[b] # None
             PROVE  a = b
  OBVIOUS
<1>1. Ranked(Kept(S)) /\ HasFirst(Kept(S))
  BY WithoutFewer, FewerRanked DEF Kept
<1>2. a \in Listed(Kept(S), q) /\ b \in Listed(Kept(S), q)
  BY DEF Listing
<1>3. Compatible(Kept(S), q) # {}
  BY <1>2 DEF Listed
<1>4. PICK o \in Host : Listed(Kept(S), q) = {o}
  BY <1>1, <1>3, FirstListed
<1> QED BY <1>2, <1>4

LEMMA BoardTurn ==
  ASSUME servers' \in Registry, Ranked(servers'), HasFirst(servers'),
         UNCHANGED <<sub, view, asked>>
  PROVE  Board!Turn
<1>1. \A q : Listing(Kept(servers'), q) \in List
  BY KeptType, ListingType
<1>2. \A q \in Query : q.automatch => \A a, b \in Host :
        /\ Listing(Kept(servers'), q)[a] # None
        /\ Listing(Kept(servers'), q)[b] # None
        => a = b
  BY OnePage
<1> QED BY <1>1, <1>2 DEF Board!Turn, List

LEMMA BoardInit == Init => Board!Init
<1> SUFFICES ASSUME Init PROVE Board!Init
  OBVIOUS
<1>1. \A a \in Host : Kept(servers)[a] = None
  BY DEF Init, Kept, Without, Present
<1>2. \A q : Listing(Kept(servers), q) = Empty
  BY <1>1 DEF Listing, Listed, Compatible, Matching, Registered, Present, Empty
<1> QED BY <1>2 DEF Init, Board!Init, Board!Empty, Empty

LEMMA BoardNext ==
  /\ Types /\ ViewKnown /\ Ranked(servers) /\ HasFirst(servers)
  /\ [Next]_vars
  => [Board!Next]_(Board!vars)
<1> SUFFICES ASSUME Types, ViewKnown, Ranked(servers), HasFirst(servers),
                    [Next]_vars
             PROVE  Board!Next
  OBVIOUS
<1>0. Ranked(servers') /\ HasFirst(servers')
  BY RegistrySteps, FewerRanked, EntersRanked
<1>1. servers \in Registry /\ servers' \in Registry
  BY QRTypeNext, TypeSplit DEF QRType
<1>2. ASSUME UNCHANGED <<sub, view, asked>> PROVE Board!Next
  BY <1>0, <1>1, <1>2, BoardTurn DEF Board!Next
<1>3. ASSUME servers' = servers \/ servers' = Kept(servers)
      PROVE  [q \in Query |-> Listing(Kept(servers), q)]'
               = [q \in Query |-> Listing(Kept(servers), q)]
  BY <1>3, SamePage DEF Page
<1>4. ASSUME NEW c \in Reader, Unsubscribed(c),
             servers' = servers \/ servers' = Kept(servers)
      PROVE  Board!Next
  BY <1>3, <1>4
  DEF Unsubscribed, Empty, Board!Next, Board!Leave, Board!Gets, Board!Empty
<1>5. ASSUME NEW c \in Reader, NEW q \in Query, Subscribe(c, q)
      PROVE  Board!Next
  BY <1>3, <1>5 DEF Subscribe, Board!Next, Board!Read, Board!Gets
<1>6. ASSUME NEW c \in Reader, ListOnce(c) \/ RefusedRequest(c) \/ Close(c)
      PROVE  Board!Next
  BY <1>4, <1>6 DEF ListOnce, RefusedRequest, Close, Closed, qrVars
<1>7. ASSUME NEW c \in Reader, NEW a \in Host, InfoRequest(c, a)
      PROVE  Board!Next
  <2>1. CASE a \in Registered(Kept(servers)) /\ sub[c] # None
    <3>1. servers[a].keys \in Keys
      BY <1>1, <2>1, WithoutType
      DEF Kept, Registered, Present, Registry, Server
    <3>2. /\ view' = [view EXCEPT ![c] = [view[c] EXCEPT ![a] = servers[a].keys]]
          /\ asked' = [asked EXCEPT ![c] = asked[c] \cup {a}]
          /\ sub' = sub /\ servers' = Kept(servers)
      BY <1>7, <2>1 DEF InfoRequest, pushVars
    <3> QED BY <1>3, <3>1, <3>2 DEF Board!Next, Board!Ask, Board!Gets
  <2>2. CASE ~(a \in Registered(Kept(servers)) /\ sub[c] # None)
    BY <1>2, <1>7, <2>2 DEF InfoRequest, pushVars, clientVars
  <2> QED BY <2>1, <2>2
<1>8. ASSUME NEW c \in Reader, NEW a \in Host, RelayMessage(c, a)
      PROVE  Board!Next
  BY <1>2, <1>4, <1>8 DEF RelayMessage, Closed, pushVars, clientVars
<1>9. ASSUME NEW c \in Reader, PushUpdates(c) PROVE Board!Next
  <2> DEFINE list == Listing(Kept(servers), sub[c])
             sent == Deleted(c, list) \cup Changed(c, list)
             own == asked[c] \ sent
  <2>1. /\ view' = [view EXCEPT ![c] = [a \in Host |->
                      IF a \in sent THEN list[a] ELSE view[c][a]]]
        /\ asked' = [asked EXCEPT ![c] = own]
        /\ servers' = Kept(servers) /\ sub' = sub /\ sub[c] # None
    BY <1>9 DEF PushUpdates, Subscribed
  <2>2. \A a \in Host \ sent : known[c][a] = list[a]
    BY DEF Deleted, Changed
  <2>3. sub[c] \in Query
    BY <2>1 DEF Types
  <2>4. [q \in Query |-> Listing(Kept(servers), q)][sub[c]] = list
    BY <2>3
  <2> HIDE DEF list, sent
  <2>5. [a \in Host |-> IF a \in sent THEN list[a] ELSE view[c][a]]
          = [a \in Host |-> IF a \in own THEN view[c][a] ELSE list[a]]
    BY <2>2 DEF ViewKnown
  <2>6. own \in SUBSET asked[c]
    OBVIOUS
  <2> HIDE DEF own
  <2>7. Board!Gets(c, [a \in Host |-> IF a \in own THEN view[c][a] ELSE list[a]],
                   own)
    BY <1>3, <2>1, <2>5 DEF Board!Gets
  <2>8. [a \in Host |-> IF a \in own THEN view[c][a]
           ELSE [q \in Query |-> Listing(Kept(servers), q)][sub[c]][a]]
          = [a \in Host |-> IF a \in own THEN view[c][a] ELSE list[a]]
    BY <2>4
  <2>9. Board!Follow(c)
    BY <2>1, <2>6, <2>7, <2>8 DEF Board!Follow
  <2> QED BY <2>9 DEF Board!Next
<1>10. ASSUME NEW a \in Host, Heartbeat(a) \/ Prove(a) PROVE Board!Next
  BY <1>2, <1>10
  DEF Heartbeat, NewHost, RefusedHost, Report, Rechallenge, RemoveHost, Prove, Register,
      pushVars, clientVars
<1>11. ASSUME NEW c \in Reader, Connect(c) \/ PushNothing(c) \/ PushDone(c)
       PROVE  Board!Next
  BY <1>2, <1>11 DEF Connect, PushNothing, PushDone, pushVars, clientVars
<1>12. CASE Expire \/ Tick \/ RequestDrain \/ BeginDrain \/ UNCHANGED vars
  BY <1>2, <1>12
  DEF Expire, Tick, RequestDrain, BeginDrain, vars, pushVars, clientVars
<1>13. ASSUME NEW c \in Reader, LateLookup(c) PROVE Board!Next
  BY <1>2, <1>13 DEF LateLookup, pushVars, clientVars
<1>14. ASSUME NEW c \in Reader, Request(c) PROVE Board!Next
  BY <1>5, <1>6, <1>7, <1>8, <1>13, <1>14 DEF Request
<1> QED BY <1>6, <1>9, <1>10, <1>11, <1>12, <1>14 DEF Next

(* Whatever a reader is given is what its query shows at that moment, and  *)
(* where players are matched that is one host: the directory implements    *)
(* the bulletin, for every choice of the constants.                        *)
THEOREM BulletinCorrect == Spec => ImplementsBulletin
<1>1. Init => Types /\ ViewKnown /\ Synced
  BY TypeInit, SyncInit
<1>2. Types /\ ViewKnown /\ Synced /\ [Next]_vars
        => Types' /\ ViewKnown' /\ Synced'
  BY TypeNext, SyncNext DEF SyncInv
<1> QED BY <1>1, <1>2, BoardNext, Ranks, BoardInit, PTL DEF Spec, ImplementsBulletin, Board!Spec
=============================================================================
