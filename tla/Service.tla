------------------------------- MODULE Service -------------------------------
(***************************************************************************)
(* The process as a whole: run_server (server/fruitspy/__main__.py) with   *)
(* the drain (drain.py), the connections of both TCP services from their   *)
(* acceptance to their release (the handle methods of peerchat.py and      *)
(* server_browser.py with ConnectionAdmission of admission.py), the        *)
(* begin_drain of each service and the relays' part of it (natneg.py).     *)
(*                                                                         *)
(* What happens on a connection is the subject of PeerChat and Directory,  *)
(* what a relay does that of NatNeg; here a connection is open or on its   *)
(* way out, and relays are counted.  The metrics listener is left out: it  *)
(* closes each of its connections within seconds.                          *)
(***************************************************************************)
EXTENDS Integers, FiniteSets, TLC

CONSTANTS
  Player,              \* connections of PeerChat
  Browser,             \* connections of the Server Browser
  Source,              \* source hosts
  None,
  TotalLimit,          \* limits.peerchat_connections, server_browser_connections
  PerSource,           \* limits.connections_per_source
  MaxRelays,           \* relay.sessions
  DrainSeconds,        \* timeouts.drain_seconds
  WaitsForConnections  \* Server.wait_closed waits for connections (3.12.1)

ASSUME ServiceConstants ==
  /\ IsFiniteSet(Player) /\ IsFiniteSet(Browser)
  /\ Player \cap Browser = {} /\ None \notin Source
  /\ TotalLimit \in Nat \ {0} /\ PerSource \in 1 .. TotalLimit
  /\ MaxRelays \in Nat \ {0} /\ DrainSeconds \in Nat \ {0}
  /\ WaitsForConnections \in BOOLEAN

VARIABLES
  phase,       \* where run_server stands
  draining,    \* DrainController.is_draining
  dead,        \* a service task has ended by itself
  completed,   \* DrainController._completed
  listening,   \* the services whose listener is open
  conn,        \* connection -> how far it has got
  host,        \* connection -> its source, from acceptance to the end
  total,       \* service -> ConnectionAdmission.total
  perSource,   \* service -> source -> ConnectionAdmission._sources
  disconnects, \* the players whose disconnect the drain waits for
  relays,      \* number of relays
  drainLeft    \* ticks left of wait_for_relays' timeout

admission == <<total, perSource>>
world == <<conn, host, admission>>
control == <<phase, draining, dead, completed, listening>>
timing == <<relays, drainLeft>>
vars == <<control, world, disconnects, timing>>

Service == {"peerchat", "browser"}
Conn == Player \cup Browser
Of(c) == IF c \in Player THEN "peerchat" ELSE "browser"

(* "new": accepted, its handler has not run yet.  "open": admitted.        *)
(* "leaving": its transport is being closed.  "closed": the transport is   *)
(* gone and the handler has not released its place.  "refused": turned     *)
(* away, its transport is being closed.  "lost": gone with its place.      *)
State == {"none", "new", "open", "leaving", "closed", "refused", "lost"}
Holding == {"open", "leaving", "closed"}
Attached == {"new", "open", "leaving", "refused"}

(* run_server: the wait for the first task (133), the two wait_closed of   *)
(* the drain (144, 145), the begin_drain of both services (146), the wait  *)
(* for the relays (157), the finally block up to its gather (168), its     *)
(* wait_closed calls (177, 178), and asyncio.run ending the other tasks.   *)
Phase == {"serving", "closing_peerchat", "closing_browser", "draining", "relays",
          "cleanup", "closed_peerchat", "closed_browser", "stopped", "exited"}

Init ==
  /\ phase = "serving"
  /\ draining = FALSE /\ dead = FALSE /\ completed = FALSE
  /\ listening = Service
  /\ conn = [c \in Conn |-> "none"] /\ host = [c \in Conn |-> None]
  /\ total = [v \in Service |-> 0]
  /\ perSource = [v \in Service |-> [s \in Source |-> 0]]
  /\ disconnects = {} /\ relays = 0 /\ drainLeft = 0

-----------------------------------------------------------------------------
(* Connections.                                                            *)

Becomes(c, state) == conn' = [conn EXCEPT ![c] = state]

Accept(c) ==
  /\ conn[c] = "none" /\ Of(c) \in listening
  /\ Becomes(c, "new")
  /\ \E s \in Source : host' = [host EXCEPT ![c] = s]
  /\ UNCHANGED <<control, admission, disconnects, timing>>

(* Mutant: the limits are not looked at together.                          *)
HasPlaceOfEither(v, s) == total[v] < TotalLimit \/ perSource[v][s] < PerSource

(* ConnectionAdmission.acquire.                                            *)
HasPlace(v, s) == total[v] < TotalLimit /\ perSource[v][s] < PerSource

(* Mutant: the handler does not look at the drain.                         *)
WelcomeAnytime == TRUE

Welcome == ~draining

Handle(c) ==
  /\ conn[c] = "new" /\ phase # "exited"
  /\ IF Welcome /\ HasPlace(Of(c), host[c])
     THEN /\ Becomes(c, "open")
          /\ total' = [total EXCEPT ![Of(c)] = @ + 1]
          /\ perSource' = [perSource EXCEPT ![Of(c)][host[c]] = @ + 1]
     ELSE Becomes(c, "refused") /\ UNCHANGED admission
  /\ UNCHANGED <<control, host, disconnects, timing>>

(* The peer leaves or is silent for too long, or an error ends it.         *)
Leave(c) ==
  /\ conn[c] = "open" /\ Becomes(c, "leaving")
  /\ UNCHANGED <<control, host, admission, disconnects, timing>>

(* The transport goes, within a second or aborted after it; a refused one  *)
(* leaves nothing behind.                                                  *)
Gone(c) ==
  /\ \/ conn[c] = "leaving" /\ Becomes(c, "closed") /\ host' = host
     \/ conn[c] = "refused" /\ Becomes(c, "none") /\ host' = [host EXCEPT ![c] = None]
  /\ UNCHANGED <<control, admission, disconnects, timing>>

(* A transport error other than a ConnectionError (no route to host) comes *)
(* out of the Server Browser's wait_closed, and so does the cancellation   *)
(* when the process ends: its handler stops before the release.            *)
Forgotten(c) ==
  /\ c \in Browser
  /\ \/ conn[c] = "leaving"
     \/ conn[c] = "open" /\ phase # "stopped"
  /\ Becomes(c, "lost")
  /\ UNCHANGED <<control, host, admission, disconnects, timing>>

(* Mutant: only the total is given back.                                   *)
ReleaseTotal(v, s) ==
  /\ total' = [total EXCEPT ![v] = @ - 1]
  /\ perSource' = perSource

(* ConnectionAdmission.release.                                            *)
ReleasePlace(v, s) ==
  /\ total' = [total EXCEPT ![v] = @ - 1]
  /\ perSource' = [perSource EXCEPT ![v][s] = @ - 1]

Release(c) ==
  /\ conn[c] = "closed"
  /\ Becomes(c, "none") /\ host' = [host EXCEPT ![c] = None]
  /\ ReleasePlace(Of(c), host[c])
  /\ UNCHANGED <<control, disconnects, timing>>

-----------------------------------------------------------------------------
(* Relays: no more than what run_server sees of them.                      *)

RelayStarts ==
  /\ phase = "serving" /\ ~draining /\ relays < MaxRelays
  /\ relays' = relays + 1
  /\ UNCHANGED <<control, world, disconnects, drainLeft>>

RelayCloses ==
  /\ relays > 0 /\ relays' = relays - 1
  /\ UNCHANGED <<control, world, disconnects, drainLeft>>

Tick ==
  /\ phase = "relays" /\ drainLeft > 0 /\ drainLeft' = drainLeft - 1
  /\ UNCHANGED <<control, world, disconnects, relays>>

-----------------------------------------------------------------------------
(* run_server.                                                             *)

(* SIGTERM or SIGINT.                                                      *)
RequestDrain ==
  /\ ~draining /\ phase \notin {"stopped", "exited"} /\ draining' = TRUE
  /\ UNCHANGED <<phase, dead, completed, listening, world, disconnects, timing>>

ServiceFails ==
  /\ ~dead /\ phase = "serving" /\ dead' = TRUE
  /\ UNCHANGED <<phase, draining, completed, listening, world, disconnects, timing>>

(* One of the tasks is done.  The drain goes first if its task is, too;    *)
(* a request that has just been made may not have ended it yet.            *)
WakeToDrain ==
  /\ phase = "serving" /\ draining
  /\ phase' = "closing_peerchat" /\ listening' = {}
  /\ UNCHANGED <<draining, dead, completed, world, disconnects, timing>>

WakeToFail ==
  /\ phase = "serving" /\ dead
  /\ phase' = "cleanup"
  /\ UNCHANGED <<draining, dead, completed, listening, world, disconnects, timing>>

(* What wait_closed waits for, if for anything.                            *)
NoneAttached(some) == WaitsForConnections => \A c \in some : conn[c] \notin Attached

WaitClosed ==
  /\ \/ phase = "closing_peerchat" /\ NoneAttached(Player) /\ phase' = "closing_browser"
     \/ phase = "closed_peerchat" /\ NoneAttached(Player) /\ phase' = "closed_browser"
     \/ phase = "closed_browser" /\ NoneAttached(Browser) /\ phase' = "stopped"
  /\ UNCHANGED <<draining, dead, completed, listening, world, disconnects, timing>>

(* Both begin_drain start: every admitted connection that is not on its    *)
(* way out yet is put on it.                                               *)
BeginDrain ==
  /\ phase = "closing_browser" /\ NoneAttached(Browser)
  /\ phase' = "draining"
  /\ conn' = [c \in Conn |-> IF conn[c] = "open" THEN "leaving" ELSE conn[c]]
  /\ disconnects' = {c \in Player : conn[c] = "open"}
  /\ UNCHANGED <<draining, dead, completed, listening, host, admission, timing>>

(* PeerChat's disconnects are waited for to the end.  The Server Browser   *)
(* is given a second, after which its transports are aborted.              *)
ServicesDrained ==
  /\ phase = "draining" /\ \A c \in disconnects : conn[c] # "leaving"
  /\ phase' = "relays" /\ disconnects' = {}
  /\ drainLeft' = DrainSeconds
  /\ UNCHANGED <<draining, dead, completed, listening, world, relays>>

(* Mutant: the relays are not waited for.                                  *)
RelaysDoneAtOnce == TRUE

(* Mutant: they are waited for without limit.                              *)
RelaysDoneUntimed == relays = 0

(* The last relay has closed (or there was none), or the time is up: then  *)
(* the remaining ones are closed.                                          *)
RelaysDone == relays = 0 \/ drainLeft = 0

RelaysDrained ==
  /\ phase = "relays" /\ RelaysDone
  /\ phase' = "cleanup" /\ completed' = TRUE
  /\ relays' = 0 /\ drainLeft' = 0
  /\ UNCHANGED <<draining, dead, listening, world, disconnects>>

(* The finally block closes the listeners and both UDP transports (with    *)
(* which the relays go) and ends the tasks of the services.                *)
Cleanup ==
  /\ phase = "cleanup" /\ phase' = "closed_peerchat"
  /\ listening' = {} /\ relays' = 0
  /\ UNCHANGED <<draining, dead, completed, world, disconnects, drainLeft>>

(* asyncio.run cancels the handlers that are left: those that run go       *)
(* through their finally clause, those that have not begun never do.       *)
Cancelled(c) ==
  /\ phase = "stopped"
  /\ \/ conn[c] = "open" /\ Becomes(c, "leaving") /\ host' = host
     \/ conn[c] = "new" /\ Becomes(c, "none") /\ host' = [host EXCEPT ![c] = None]
  /\ UNCHANGED <<control, admission, disconnects, timing>>

Exit ==
  /\ phase = "stopped" /\ \A c \in Conn : conn[c] \in {"none", "lost"}
  /\ phase' = "exited"
  /\ UNCHANGED <<draining, dead, completed, listening, world, disconnects, timing>>

-----------------------------------------------------------------------------
Connection(c) ==
  Accept(c) \/ Handle(c) \/ Leave(c) \/ Gone(c) \/ Forgotten(c) \/ Release(c)
  \/ Cancelled(c)

Main ==
  \/ WakeToDrain \/ WakeToFail \/ WaitClosed \/ BeginDrain
  \/ ServicesDrained \/ RelaysDrained \/ Cleanup \/ Exit

Next ==
  \/ \E c \in Conn : Connection(c)
  \/ RelayStarts \/ RelayCloses \/ Tick
  \/ RequestDrain \/ ServiceFails
  \/ Main

(* A player's disconnect tells its rooms first and waits for the players   *)
(* in them to take that, until they are disconnected as well (PeerChat).   *)
Hurried(c) == c \in Player /\ conn[c] = "leaving" => \A d \in Player : conn[d] # "open"

(* The loop runs what is ready and time goes on.  A client may stay for    *)
(* ever, so may a relay, and nobody has to ask for a drain.                *)
Fairness ==
  /\ WF_vars(Main) /\ WF_vars(Tick)
  /\ \A c \in Conn :
       /\ WF_vars(Handle(c)) /\ WF_vars(Hurried(c) /\ Gone(c))
       /\ WF_vars(Release(c)) /\ WF_vars(Cancelled(c))

Spec == Init /\ [][Next]_vars /\ Fairness

-----------------------------------------------------------------------------
(* Every variable has its type; a connection has a source while it is      *)
(* there, and neither counter passes its limit (admission.py:174).         *)
TypeOK ==
  /\ phase \in Phase
  /\ draining \in BOOLEAN /\ dead \in BOOLEAN /\ completed \in BOOLEAN
  /\ listening \in SUBSET Service
  /\ conn \in [Conn -> State] /\ host \in [Conn -> Source \cup {None}]
  /\ \A c \in Conn : host[c] = None <=> conn[c] = "none"
  /\ total \in [Service -> 0 .. TotalLimit]
  /\ perSource \in [Service -> [Source -> 0 .. PerSource]]
  /\ disconnects \in SUBSET Player
  /\ relays \in 0 .. MaxRelays /\ drainLeft \in 0 .. DrainSeconds

(* PeerChat never loses a place, and as long as a service has lost none    *)
(* its counters of ConnectionAdmission are exactly the connections that    *)
(* hold one, for each source: however a connection ends (refused, by       *)
(* itself, by the drain, by the end of the process), what it took is given *)
(* back once, to its source (peerchat.py:127, server_browser.py:258).      *)
(* Of a Server Browser that has lost a place nothing is said: its counters *)
(* do not return to zero, whatever ROADMAP.md:154 says of them.            *)
Places(v) == {c \in Conn : Of(c) = v /\ conn[c] \in Holding}
PlacesFrom(v, s) == {c \in Places(v) : host[c] = s}
LosesNone(v) == \A c \in Conn : Of(c) = v => conn[c] # "lost"

PlacesCounted ==
  /\ LosesNone("peerchat")
  /\ \A v \in Service : LosesNone(v) =>
       /\ total[v] = Cardinality(Places(v))
       /\ \A s \in Source : perSource[v][s] = Cardinality(PlacesFrom(v, s))

(* Once both services are drained nobody is served any more, although a    *)
(* connection may have been accepted before the listeners closed and be    *)
(* handled only then (README.md:239).                                      *)
NobodyLeft ==
  phase = "relays" \/ completed => \A c \in Conn : conn[c] # "open"

(* The process takes relays with it only after the full drain time, or     *)
(* because a service has failed: neither the end of the TCP services nor   *)
(* a relay that closes meanwhile ends the others (README.md:241).          *)
RelaysOutlastDrain ==
  [][phase' # phase /\ relays' < relays
       => dead \/ (phase = "relays" /\ drainLeft = 0)]_vars

(* Asked to drain, or left by one of its services, the process ends        *)
(* (README.md:239).                                                        *)
ProcessExits == (draining \/ dead) ~> phase = "exited"

(* What can go on by itself: run_server, and a connection that the loop or *)
(* time moves, whatever its client does.                                   *)
MainReady ==
  \/ phase = "serving" /\ (draining \/ dead)
  \/ phase \in {"closing_peerchat", "closed_peerchat"} /\ NoneAttached(Player)
  \/ phase \in {"closing_browser", "closed_browser"} /\ NoneAttached(Browser)
  \/ phase = "draining" /\ \A c \in disconnects : conn[c] # "leaving"
  \/ phase = "relays" /\ (RelaysDone \/ drainLeft > 0)
  \/ phase = "cleanup"
  \/ phase = "stopped" /\ \A c \in Conn : conn[c] \in {"none", "lost"}

ConnectionReady(c) ==
  \/ conn[c] \in {"new", "refused", "closed"}
  \/ conn[c] = "leaving" /\ Hurried(c)
  \/ conn[c] = "open" /\ phase = "stopped"

(* A wait_closed that waits for clients who may stay for ever.             *)
LeftToClients ==
  WaitsForConnections /\
    \/ phase \in {"closing_peerchat", "closed_peerchat"} /\ \E c \in Player : conn[c] = "open"
    \/ phase \in {"closing_browser", "closed_browser"} /\ \E c \in Browser : conn[c] = "open"

(* Asked to drain, or left by one of its services, the process always has  *)
(* something to do until it has ended, but for a wait_closed that waits    *)
(* for clients (__main__.py:144, 177): neither the disconnects a drain     *)
(* waits for, nor the relays, nor the handlers that asyncio.run cancels    *)
(* can hold it up.                                                         *)
NeverStalls ==
  (draining \/ dead) /\ phase # "exited" =>
    MainReady \/ (\E c \in Conn : ConnectionReady(c)) \/ LeftToClients
=============================================================================
