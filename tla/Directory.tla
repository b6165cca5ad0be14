----------------------------- MODULE Directory ------------------------------
(***************************************************************************)
(* Where games are found: the QR2 registry (server/fruitspy/               *)
(* availability_qr.py, the registry half of state.py) and the Server       *)
(* Browser that publishes it (server/fruitspy/server_browser.py).          *)
(*                                                                         *)
(* Hosts announce themselves by UDP, answer a challenge, and are listed    *)
(* until they leave or fall silent.  Readers ask for a list over TCP and   *)
(* may subscribe to its changes.  A connection has two tasks: one reads    *)
(* requests, the other (push_registered_servers) waits for the event of    *)
(* this connection and writes the difference between what the subscription *)
(* knows and what is listed now.  Only that write can suspend it.          *)
(*                                                                         *)
(* The keys of a host are a value of a small set; an entry of a list is    *)
(* its address with all of its keys.  A heartbeat for another game and a   *)
(* keepalive change nothing and are left out.                              *)
(***************************************************************************)
EXTENDS Integers, FiniteSets

CONSTANTS
  Host,        \* source addresses of hosts
  Keys,        \* what a host may report
  Automatch,   \* those reported for the "am" game
  Open,        \* those of a compatible host with a free seat
  Query,       \* the queries readers make; a filter is the keys it lets through
  Reader,      \* Server Browser connections; each is used once
  Challenge,   \* challenges, enough to tell the current from an old one
  None,        \* no record, no entry, no subscription, no answer
  TTL,         \* timeouts.reported_server_seconds, in ticks
  MaxServers   \* limits.qr_reported_servers

ASSUME DirectoryConstants ==
  /\ Automatch \subseteq Keys
  /\ Open \subseteq Keys
  /\ Query \subseteq [automatch : BOOLEAN, filter : SUBSET Keys]
  /\ TTL \in Nat \ {0}
  /\ MaxServers \in Nat \ {0}

VARIABLES
  servers,   \* ServerState.reported_servers
  answer,    \* host -> the challenge response it has on the way
  conn,      \* reader -> how far its connection has got
  event,     \* reader -> its change_event is set
  push,      \* reader -> where its push task is suspended
  sub,       \* reader -> the query of its subscription
  known,     \* reader -> known_servers of its subscription
  view,      \* reader -> the list a subscriber's client has put together
  asked,     \* reader -> hosts whose entry an info response has replaced
  drain      \* how far the drain has got

qrVars == <<servers, answer>>
pushVars == <<push, known, sub>>
clientVars == <<view, asked>>
vars == <<servers, answer, conn, event, push, sub, known, view, asked, drain>>

(* `older` stands for registered_at: the hosts registered before this one. *)
Server == [keys : Keys, challenge : Challenge, registered : BOOLEAN,
           age : 0 .. TTL + 1, older : SUBSET Host]

(* An answer remembers the keys its challenge was issued for.              *)
Answer == [challenge : Challenge, keys : Keys]

ASSUME NoneIsNothing == None \notin Keys \cup Query \cup Server \cup Answer

List == [Host -> Keys \cup {None}]
Empty == [a \in Host |-> None]

Init ==
  /\ servers = [a \in Host |-> None]
  /\ answer = [a \in Host |-> None]
  /\ conn = [c \in Reader |-> "none"]
  /\ event = [c \in Reader |-> FALSE]
  /\ push = [c \in Reader |-> "wait"]
  /\ sub = [c \in Reader |-> None]
  /\ known = [c \in Reader |-> Empty]
  /\ view = [c \in Reader |-> Empty]
  /\ asked = [c \in Reader |-> {}]
  /\ drain = "no"
-----------------------------------------------------------------------------
(* The registry.  S is a value of `servers`.                               *)

Present(S) == {a \in Host : S[a] # None}
Registered(S) == {a \in Present(S) : S[a].registered}
Expired(S) == {a \in Present(S) : S[a].age > TTL}

Without(S, gone) ==
  [a \in Host |-> IF a \in Present(S) \ gone
                  THEN [S[a] EXCEPT !.older = @ \ gone] ELSE None]

(* What ServerState.expire retains.                                        *)
Kept(S) == Without(S, Expired(S))

(* Mutant: expire wakes nobody.                                            *)
NoListChange(S) == FALSE

(* It wakes the subscribers if a registered host goes.                     *)
ListChanges(S) == Expired(S) \cap Registered(S) # {}

(* _matches_filter: the keys either satisfy the clauses or do not.         *)
MatchesFilter(k, q) == k \in q.filter

(* _listed_servers: an automatch query shows the oldest open host only.    *)
Matching(S, q) ==
  {a \in Registered(S) : /\ MatchesFilter(S[a].keys, q)
                         /\ q.automatch <=> (S[a].keys \in Automatch)}
Compatible(S, q) == {a \in Matching(S, q) : S[a].keys \in Open}
Listed(S, q) ==
  IF q.automatch
  THEN {a \in Compatible(S, q) : S[a].older \cap Compatible(S, q) = {}}
  ELSE Matching(S, q)
Listing(S, q) ==
  [a \in Host |-> IF a \in Listed(S, q) THEN S[a].keys ELSE None]

Connected(c) == conn[c] \in {"open", "keyed"}
Subscribed(c) == conn[c] = "keyed" /\ sub[c] # None

(* _notify_server_change: the events of all connections.                   *)
Notified(changed) ==
  [c \in Reader |-> event[c] \/ (changed /\ Connected(c))]
-----------------------------------------------------------------------------
(* QR2.                                                                    *)

(* A challenge no answer on the way was made for.  The host's answer to it *)
(* replaces an earlier one on the way, or is lost.                         *)
Challenged(a, k, ch) ==
  /\ answer[a] # None => answer[a].challenge # ch
  /\ \/ answer' = [answer EXCEPT ![a] = [challenge |-> ch, keys |-> k]]
     \/ answer' = answer

(* A first heartbeat: expire, then the limit, then a record with a         *)
(* challenge.                                                              *)
NewHost(a, k, ch) ==
  /\ drain = "no"
  /\ servers[a] = None
  /\ Cardinality(Present(Kept(servers))) < MaxServers
  /\ Challenged(a, k, ch)
  /\ servers' = [Kept(servers) EXCEPT ![a] =
                   [keys |-> k, challenge |-> ch, registered |-> FALSE,
                    age |-> 0, older |-> {}]]
  /\ event' = Notified(ListChanges(servers))
  /\ UNCHANGED <<conn, pushVars, clientVars, drain>>

(* The registry is full: the heartbeat is discarded after the expiry.      *)
RefusedHost(a) ==
  /\ drain = "no"
  /\ servers[a] = None
  /\ Cardinality(Present(Kept(servers))) >= MaxServers
  /\ servers' = Kept(servers)
  /\ event' = Notified(ListChanges(servers))
  /\ UNCHANGED <<answer, conn, pushVars, clientVars, drain>>

(* Mutant: other keys do not count as a change.                            *)
ReportQuietly(a, k, moved) ==
  /\ drain = "no"
  /\ a \in Registered(servers)
  /\ servers' = [servers EXCEPT ![a].keys = k, ![a].age = 0]
  /\ event' = Notified(moved)
  /\ UNCHANGED <<answer, conn, pushVars, clientVars, drain>>

(* A further heartbeat of a registered host; `moved` says that its         *)
(* instance key differs from the last one.                                 *)
Report(a, k, moved) ==
  /\ drain = "no"
  /\ a \in Registered(servers)
  /\ servers' = [servers EXCEPT ![a].keys = k, ![a].age = 0]
  /\ event' = Notified(moved \/ servers[a].keys # k)
  /\ UNCHANGED <<answer, conn, pushVars, clientVars, drain>>

(* Mutant: the challenge that is outstanding stays.                        *)
RechallengeOnce(a, k, ch) ==
  /\ drain = "no"
  /\ a \in Present(servers) \ Registered(servers)
  /\ servers' = [servers EXCEPT ![a].keys = k, ![a].age = 0]
  /\ UNCHANGED <<answer, event, conn, pushVars, clientVars, drain>>

(* A further heartbeat of a host that has proven nothing yet: its newest   *)
(* challenge is the only one that counts.                                  *)
Rechallenge(a, k, ch) ==
  /\ drain = "no"
  /\ a \in Present(servers) \ Registered(servers)
  /\ Challenged(a, k, ch)
  /\ servers' = [servers EXCEPT ![a].keys = k, ![a].age = 0,
                                ![a].challenge = ch]
  /\ UNCHANGED <<event, conn, pushVars, clientVars, drain>>

(* A heartbeat with statechanged = 2.                                      *)
RemoveHost(a) ==
  /\ drain = "no"
  /\ a \in Present(servers)
  /\ servers' = Without(servers, {a})
  /\ event' = Notified(servers[a].registered)
  /\ UNCHANGED <<answer, conn, pushVars, clientVars, drain>>

(* Mutant: a repeated proof sets registered_at anew.                       *)
RegisterAnew(a) ==
  /\ servers' = [[b \in Host |-> IF servers[b] = None THEN None
                   ELSE [servers[b] EXCEPT !.older = @ \ {a}]]
                 EXCEPT ![a] = [servers[a] EXCEPT !.registered = TRUE,
                    !.age = 0, !.older = Registered(servers) \ {a}]]
  /\ event' = Notified(~servers[a].registered)

(* register_server: the first time decides the seniority and wakes readers.*)
Register(a) ==
  /\ servers' = [servers EXCEPT ![a].registered = TRUE, ![a].age = 0,
                                ![a].older = IF servers[a].registered THEN @
                                             ELSE Registered(servers)]
  /\ event' = Notified(~servers[a].registered)

(* A challenge response.  It may come late and more than once; it is not   *)
(* consumed, and a repeated one only refreshes the record.                 *)
Prove(a) ==
  /\ drain = "no"
  /\ answer[a] # None
  /\ a \in Present(servers)
  /\ answer[a].challenge = servers[a].challenge
  /\ Register(a)
  /\ UNCHANGED <<answer, conn, pushVars, clientVars, drain>>

(* expire, called by the periodic sweeper or by a NatNeg claim.            *)
Expire ==
  /\ Expired(servers) # {}
  /\ servers' = Kept(servers)
  /\ event' = Notified(ListChanges(servers))
  /\ UNCHANGED <<answer, conn, pushVars, clientVars, drain>>

Tick ==
  /\ servers' = [a \in Host |->
       IF servers[a] = None \/ servers[a].age > TTL THEN servers[a]
       ELSE [servers[a] EXCEPT !.age = @ + 1]]
  /\ UNCHANGED <<answer, event, conn, pushVars, clientVars, drain>>
-----------------------------------------------------------------------------
(* The Server Browser.                                                     *)

(* Mutant: a connection accepted before the drain is served after it.      *)
ConnectDraining(c) ==
  /\ conn[c] = "none"
  /\ conn' = [conn EXCEPT ![c] = "open"]
  /\ UNCHANGED <<qrVars, event, pushVars, clientVars, drain>>

Connect(c) ==
  /\ drain = "no"
  /\ conn[c] = "none"
  /\ conn' = [conn EXCEPT ![c] = "open"]
  /\ UNCHANGED <<qrVars, event, pushVars, clientVars, drain>>

(* Mutant: the list is read without expiring first.                        *)
SubscribeUnswept(c, q) ==
  LET list == Listing(servers, q) IN
  /\ Connected(c)
  /\ conn' = [conn EXCEPT ![c] = "keyed"]
  /\ sub' = [sub EXCEPT ![c] = q]
  /\ known' = [known EXCEPT ![c] = list]
  /\ view' = [view EXCEPT ![c] = list]
  /\ asked' = [asked EXCEPT ![c] = {}]
  /\ UNCHANGED <<qrVars, event, push, drain>>

(* A list request with PUSH_UPDATES: the list as it is now and a           *)
(* subscription that knows it, in the place of an earlier one.             *)
Subscribe(c, q) ==
  LET list == Listing(Kept(servers), q) IN
  /\ Connected(c)
  /\ conn' = [conn EXCEPT ![c] = "keyed"]
  /\ servers' = Kept(servers)
  /\ event' = Notified(ListChanges(servers))
  /\ sub' = [sub EXCEPT ![c] = q]
  /\ known' = [known EXCEPT ![c] = list]
  /\ view' = [view EXCEPT ![c] = list]
  /\ asked' = [asked EXCEPT ![c] = {}]
  /\ UNCHANGED <<answer, push, drain>>

Unsubscribed(c) ==
  /\ sub' = [sub EXCEPT ![c] = None]
  /\ known' = [known EXCEPT ![c] = Empty]
  /\ view' = [view EXCEPT ![c] = Empty]
  /\ asked' = [asked EXCEPT ![c] = {}]

(* A list request without PUSH_UPDATES, or for SEND_GROUPS: a cipher and   *)
(* the list of the moment, or the number of hosts, and no subscription.    *)
ListOnce(c) ==
  /\ Connected(c)
  /\ conn' = [conn EXCEPT ![c] = "keyed"]
  /\ servers' = Kept(servers)
  /\ event' = Notified(ListChanges(servers))
  /\ Unsubscribed(c)
  /\ UNCHANGED <<answer, push, drain>>

(* Mutant: the subscription survives the error reply.                      *)
RefusedRequestKeeps(c) ==
  /\ Connected(c)
  /\ conn' = [conn EXCEPT ![c] = "open"]
  /\ UNCHANGED <<qrVars, event, pushVars, clientVars, drain>>

(* A list request for another game: the error reply is not encrypted, and  *)
(* the cipher and the subscription are dropped.                            *)
RefusedRequest(c) ==
  /\ Connected(c)
  /\ conn' = [conn EXCEPT ![c] = "open"]
  /\ Unsubscribed(c)
  /\ UNCHANGED <<qrVars, event, push, drain>>

(* _handle_info_request: the entry of any registered host is pushed to the *)
(* client; known_servers does not learn of it.                             *)
InfoRequest(c, a) ==
  /\ conn[c] = "keyed"
  /\ servers' = Kept(servers)
  /\ event' = Notified(ListChanges(servers))
  /\ IF a \in Registered(Kept(servers)) /\ sub[c] # None
     THEN /\ view' = [view EXCEPT ![c][a] = servers[a].keys]
          /\ asked' = [asked EXCEPT ![c] = @ \cup {a}]
     ELSE UNCHANGED clientVars
  /\ UNCHANGED <<answer, conn, pushVars, drain>>

(* The finally block of handle.                                            *)
Closed(c) ==
  /\ conn' = [conn EXCEPT ![c] = "gone"]
  /\ push' = [push EXCEPT ![c] = "wait"]
  /\ Unsubscribed(c)

(* A list or info request of a connection the drain has closed, read before*)
(* that or cut short by it, and a push to it: they look the list up as     *)
(* ever.  What they write is discarded, or sent while the transport still  *)
(* empties its buffer; what that client knows is not followed any longer.  *)
LateLookup(c) ==
  /\ conn[c] = "closing"
  /\ servers' = Kept(servers)
  /\ event' = Notified(ListChanges(servers))
  /\ UNCHANGED <<answer, conn, pushVars, clientVars, drain>>

(* _handle_send_message_request: a message for a registered host is passed *)
(* on, also one of a connection the drain has closed since; any other      *)
(* target ends the connection.                                             *)
RelayMessage(c, a) ==
  /\ Connected(c) \/ conn[c] = "closing"
  /\ servers' = Kept(servers)
  /\ IF a \in Registered(Kept(servers))
     THEN /\ event' = Notified(ListChanges(servers))
          /\ UNCHANGED <<conn, pushVars, clientVars>>
     ELSE /\ event' = [Notified(ListChanges(servers)) EXCEPT ![c] = FALSE]
          /\ Closed(c)
  /\ UNCHANGED <<answer, drain>>

(* The push task, from its event to the write.  _subscription_frames       *)
(* expires, which may set the event it has just cleared.                   *)
Deleted(c, list) == {a \in Host : known[c][a] # None /\ list[a] = None}
Changed(c, list) == {a \in Host : list[a] # None /\ known[c][a] # list[a]}

PushUpdates(c) ==
  LET list == Listing(Kept(servers), sub[c])
      sent == Deleted(c, list) \cup Changed(c, list)
  IN
  /\ Subscribed(c)
  /\ event[c]
  /\ push[c] = "wait"
  /\ servers' = Kept(servers)
  /\ event' = [Notified(ListChanges(servers)) EXCEPT
                 ![c] = ListChanges(servers)]
  /\ push' = [push EXCEPT ![c] = IF sent = {} THEN "wait" ELSE "drain"]
  /\ known' = [known EXCEPT ![c] = list]
  /\ view' = [view EXCEPT ![c] = [a \in Host |->
                IF a \in sent THEN list[a] ELSE view[c][a]]]
  /\ asked' = [asked EXCEPT ![c] = @ \ sent]
  /\ UNCHANGED <<answer, conn, sub, drain>>

(* Without a subscription the event is cleared and nothing is looked up.   *)
PushNothing(c) ==
  /\ Connected(c) /\ ~Subscribed(c)
  /\ event[c]
  /\ push[c] = "wait"
  /\ event' = [event EXCEPT ![c] = FALSE]
  /\ UNCHANGED <<qrVars, conn, pushVars, clientVars, drain>>

(* Mutant: the event is cleared after the write.                           *)
PushDoneClears(c) ==
  /\ push[c] = "drain"
  /\ push' = [push EXCEPT ![c] = "wait"]
  /\ event' = [event EXCEPT ![c] = FALSE]
  /\ UNCHANGED <<qrVars, conn, sub, known, clientVars, drain>>

(* writer.drain returns: the client has read enough.                       *)
PushDone(c) ==
  /\ push[c] = "drain"
  /\ push' = [push EXCEPT ![c] = "wait"]
  /\ UNCHANGED <<qrVars, event, conn, sub, known, clientVars, drain>>

(* The client hangs up or is idle for too long, sends something malformed, *)
(* or its transport fails or has been closed by the drain.                 *)
Close(c) ==
  /\ conn[c] \in {"open", "keyed", "closing"}
  /\ event' = [event EXCEPT ![c] = FALSE]
  /\ Closed(c)
  /\ UNCHANGED <<qrVars, drain>>
-----------------------------------------------------------------------------
(* The drain: run_server closes the listeners and then begin_drain the     *)
(* connections.                                                            *)

RequestDrain ==
  /\ drain = "no"
  /\ drain' = "requested"
  /\ UNCHANGED <<qrVars, event, conn, pushVars, clientVars>>

BeginDrain ==
  /\ drain = "requested"
  /\ drain' = "closed"
  /\ conn' = [c \in Reader |-> IF Connected(c) THEN "closing" ELSE conn[c]]
  /\ UNCHANGED <<qrVars, event, pushVars, clientVars>>

Heartbeat(a) ==
  \/ \E k \in Keys, ch \in Challenge : NewHost(a, k, ch)
  \/ RefusedHost(a)
  \/ \E k \in Keys, moved \in BOOLEAN : Report(a, k, moved)
  \/ \E k \in Keys, ch \in Challenge : Rechallenge(a, k, ch)
  \/ RemoveHost(a)

Request(c) ==
  \/ \E q \in Query : Subscribe(c, q)
  \/ ListOnce(c)
  \/ RefusedRequest(c)
  \/ \E a \in Host : InfoRequest(c, a)
  \/ \E a \in Host : RelayMessage(c, a)
  \/ LateLookup(c)

Next ==
  \/ \E a \in Host : Heartbeat(a) \/ Prove(a)
  \/ Expire
  \/ Tick
  \/ \E c \in Reader : Connect(c) \/ Request(c) \/ Close(c)
  \/ \E c \in Reader : PushUpdates(c) \/ PushNothing(c) \/ PushDone(c)
  \/ RequestDrain
  \/ BeginDrain

Spec == Init /\ [][Next]_vars

(* The event loop runs the sweeper and a woken push task, time passes, a   *)
(* closing connection closes.  Hosts and clients owe nothing.              *)
FairSpec ==
  /\ Spec
  /\ WF_vars(Expire)
  /\ WF_vars(Tick)
  /\ \A c \in Reader : /\ WF_vars(PushUpdates(c))
                       /\ WF_vars(conn[c] = "closing" /\ Close(c))
-----------------------------------------------------------------------------
Types ==
  /\ servers \in [Host -> Server \cup {None}]
  /\ answer \in [Host -> Answer \cup {None}]
  /\ conn \in [Reader -> {"none", "open", "keyed", "closing", "gone"}]
  /\ event \in [Reader -> BOOLEAN]
  /\ push \in [Reader -> {"wait", "drain"}]
  /\ sub \in [Reader -> Query \cup {None}]
  /\ \A c \in Reader : sub[c] # None => conn[c] \in {"keyed", "closing"}
  /\ known \in [Reader -> List]
  /\ view \in [Reader -> List]
  /\ asked \in [Reader -> SUBSET Host]
  /\ drain \in {"no", "requested", "closed"}

(* Hosts that have proven nothing count as well.                           *)
Capacity == Cardinality(Present(servers)) <= MaxServers

(* Every variable has its type, only a connection with a cipher has a      *)
(* subscription for the push task to encrypt, and there are never more     *)
(* records than limits.qr_reported_servers.                                *)
TypeOK == Types /\ Capacity

(* No wake-up is lost: while its event is not set, what the subscription   *)
(* of a reader knows is what is listed, and so is the client's list except *)
(* for entries of info responses.  The event is set from anywhere, between *)
(* any two steps of the push task.                                         *)
Synced ==
  \A c \in Reader : Subscribed(c) /\ ~event[c] =>
    /\ known[c] = Listing(servers, sub[c])
    /\ \A a \in Host \ asked[c] : view[c][a] = known[c][a]

(* A host becomes listed with the keys its proof was asked for: an answer  *)
(* to an earlier heartbeat, late or repeated, does not register later keys.*)
ProofCoversKeys ==
  [][\A a \in Registered(servers') \ Registered(servers) :
       answer[a] # None /\ answer[a].keys = servers'[a].keys]_vars

(* Publication of the oldest open host (_listed_servers): while a host     *)
(* that automatch shows stays registered and open, only one that has been  *)
(* registered longer and gets a free seat takes its place, never one that  *)
(* registers, returns after a silence or repeats an old proof.             *)
FirstHostStays ==
  [][\A q \in Query : q.automatch =>
       \A a \in Listed(servers, q) \cap Compatible(servers', q) :
         \/ a \in Listed(servers', q)
         \/ servers[a].older \cap
              (Compatible(servers', q) \ Compatible(servers, q)) # {}]_vars

(* An automatch query with a compatible host shows one host, which has been*)
(* registered longer than every other (_listed_servers).                   *)
OldestListed ==
  \A q \in Query : q.automatch /\ Compatible(servers, q) # {} =>
    \E a \in Host :
      /\ Listed(servers, q) = {a}
      /\ \A b \in Compatible(servers, q) \ {a} : a \in servers[b].older

(* Readers see the registry through a bulletin: whatever they are given is *)
(* exactly what the query shows at that moment, without expired hosts, and *)
(* one host at most where players are matched.                             *)
Board == INSTANCE Bulletin WITH
  page <- [q \in Query |-> Listing(Kept(servers), q)],
  query <- sub, private <- asked,
  Single <- {q \in Query : q.automatch}

ImplementsBulletin == Board!Spec

(* A subscribed client that keeps reading has the current list again and   *)
(* again, however often hosts change.                                      *)
CatchesUp ==
  \A c \in Reader : []<>(push[c] = "wait") =>
    []<>(Subscribed(c) => \A a \in Host \ asked[c] :
           view[c][a] = Listing(servers, sub[c])[a])

(* A host that falls silent leaves the list of a client that keeps         *)
(* reading, although no request and no datagram arrives.                   *)
Silent(a) == servers[a] = None \/ servers[a].age > TTL
StaleHostsLeave ==
  \A c \in Reader, a \in Host : []<>(push[c] = "wait") =>
    [](Subscribed(c) /\ view[c][a] # None /\ Silent(a) =>
       <>(~Subscribed(c) \/ view[c][a] = None \/ a \in asked[c] \/ ~Silent(a)))

(* Once the drain closes the connections, none is left and none comes.     *)
DrainCloses ==
  drain = "closed" ~> [](\A c \in Reader : conn[c] \in {"none", "gone"})
=============================================================================
