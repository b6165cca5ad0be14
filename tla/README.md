# Formal models of fruitspy

fruitspy is a Python server that replaces the GameSpy services of one mobile
game (`server/fruitspy`), with Android patch tooling (`patcher`) and two sets of
native fixes that it injects. This directory holds TLA+ models of its
stateful core, the TLC runs that check them on small instances, and proofs that
TLAPS checks for every instance. File and line references below are relative
to the repository root.

## 1. Inventory of the system

One asyncio event loop runs everything in `server/fruitspy`. A UDP handler or a
timer callback runs to completion; a PeerChat or Server Browser coroutine gives
way only at an `await`. There is no database: the registry, the sessions and
the rooms live in memory, and a restart forgets them.

| Component | Source | State it keeps | Operations | What makes it correct |
| --- | --- | --- | --- | --- |
| NAT negotiation and relay | `natneg.py`, the NatNeg half of `state.py` | sessions by cookie, pending fallback timers, relays, the address table, idle timers, the drain event | INIT, REPORT, CONNECT_PING, the other packets, raw game datagrams, fallback timer, idle timer, expiry, drain | first claim wins; one outcome per session; each address in at most one relay; every relay ends; nothing allocated while draining |
| PeerChat | `peerchat.py` | clients by nickname, rooms (users, operators, keys), per connection: nickname, user, joined rooms, closed; drain flag | commands NICK, USER, JOIN, PART, PRIVMSG/NOTICE/UTM, SETCKEY, MODE, LIST, WHO, QUIT; disconnection; drain | unique nicknames; connection and room agree on membership; two players per staging room; operators are members; a peer whose transport fails does not end those who broadcast to its rooms |
| Server registry (QR2) | `availability_qr.py`, `state.py` | registered hosts, outstanding challenges, subscriber events | heartbeat, challenge response, keep-alive, state change, removal, expiry | only the newest challenge registers; a removed or expired host is not listed; subscribers are woken for every change |
| Server Browser | `server_browser.py` | per connection: cipher, request, subscription; the push task | list request, info request, relayed message, push, drain | a subscriber's view converges to the registry; the cipher stream keeps its order |
| Admission | `admission.py` | token buckets, violations and bans per source, the global bucket; connection counters | allow, acquire, release, expiry | forgetting a source changes nothing for it; the table is full of sources still needed only; counters return to zero |
| Drain and process | `drain.py`, `__main__.py` | the drain event, listeners, service tasks, every connection | request, wait, drain sequence, finally block, cancellation | nobody is served after the drain; relays get their time; the process ends |
| Configuration | `config.py` | none | load and validate | invalid combinations are refused |
| Cipher | `crypto.py` | stream state of one connection | encrypt | byte for byte protocol compatibility |
| Metrics, health, log fields, diagnosis | `metrics.py`, `healthcheck.py`, `log_fields.py`, `diagnostics.py` | counters; read-only | count, render, report | no effect on the services |
| Patcher | `patcher/*.py` | files: APK, report, keystore, configuration | sign, inject, rewrite | one signing identity; a failed build leaves nothing behind; no earlier file is touched |
| Native tools and deployment | `slow-motion-fix`, `nickname-collision-fix`, `deploy` | none | compile, install | out of scope |

How they interact. `run_server` (`__main__.py:50`) opens the listeners and waits
for a signal or a failing service. `ServerState` is shared: QR2 writes the
registry and wakes the Server Browser's subscribers, NatNeg keeps its sessions
there, and `ServerState.expire` serves all of them. `DrainController` is read
by NatNeg at each INIT and at each fallback timer; `run_server` drains the
Server Browser and PeerChat, then calls `begin_drain` and `wait_for_relays` of NatNeg.
NatNeg and PeerChat never call each other: the game clients carry a PeerChat
match over to a NatNeg cookie.

What is hard to test here: the order of timers and datagrams at their common
boundary; state that is read before an `await` and used after it (rooms, the
nickname map); a peer that stops reading while others write to it; endpoint
reuse across rematches; expiry racing a late report or a late INIT; drain racing
all of it. PROJECT.json lists each hazard at its line.

## 2. Modules

| Module | Models | Kind |
| --- | --- | --- |
| `NatNeg` | NatNegProtocol, its sessions in ServerState, its part of the drain | component |
| `RelaySwitch` | what the relay promises, independent of negotiation | abstract specification |
| `NatNegProofs` | the type theorem of NatNeg and the lemmas on its operators | proofs |
| `NatNegRelayProofs` | deadline, ownership, commitment and refinement theorems of NatNeg | proofs |
| `NatNegMatchProofs` | limits, first claim, drain, outcome, fallback and closing theorems of NatNeg | proofs |
| `MCNatNeg` | symmetry for TLC; the cfg files choose the values | model checking |
| `PeerChat` | PeerChatServer, PeerChatClient, their part of the drain | component |
| `Nicknames` | what the chat service promises about nicknames | abstract specification |
| `PeerChatProofs` | type, room map, nickname, refinement, progress of the drain, membership and staging limit theorems of PeerChat | proofs |
| `MCPeerChat` | symmetry, and the service before a drain with or without failing transports | model checking |
| `Directory` | AvailabilityQRProtocol, the registry half of ServerState, ServerBrowserServer, their part of the drain | component |
| `Bulletin` | what the directory promises its readers | abstract specification |
| `DirectoryProofs` | type, limit, wake-up, proof-of-host, seniority and refinement theorems of Directory | proofs |
| `MCDirectory` | symmetry, two searches, the service before a drain | model checking |
| `Admission` | UdpAdmission and its token buckets | component |
| `Meter` | what admission promises each source, as if none were ever forgotten | abstract specification |
| `Rate` | Admission with history variables that count what is let through in a window of time | properties |
| `AdmissionProofs` | type, full-table, refinement and rate theorems of Admission | proofs |
| `Service` | `run_server`, the drain and the connections of both TCP services: the composition | component |
| `ServiceProofs` | type, counter, drain, relay and progress theorems of Service | proofs |
| `Signing` | the files that builds of the patcher share | component |
| `Identity` | one signing identity, chosen once | abstract specification |
| `SigningProofs` | type, stranding, delivery, output and refinement theorems of Signing | proofs |
| `MCAdmission`, `MCService`, `MCSigning` | symmetry; the cfg files choose the values | model checking |

### NatNeg

State and code correspond one to one: `sessions` is `ServerState.nat_sessions`,
`fallbacks`, `relays`, `binding`, `expirations` and `relaysEmpty` are
`_fallbacks`, `_relays`, `_relay_by_address`, `_relay_expirations` and
`_relays_empty`; `sweepWait` stands for `_next_relay_expiry`, `draining` for
the drain controller, `stage` for how far `run_server` has got. `delivered`
holds the source and destination of the datagram that the last step relayed, and
`relayed` in a session whether the outcome "relay" was counted: both are outputs
of the code kept so that properties can speak of them.

Every datagram first runs `_expire_relays`, which is part of each datagram
action: `Swept` is the set of relays it closes and `FinishAnd` does for each of
them what `_finish_relay` does. The handlers of INIT (`InitDraining`,
`InitRelayed`, `InitRefused`, `InitClaimed`), REPORT (`ReportIgnored`,
`ReportFailure`, `ReportRelayed`, `ReportDirect`), CONNECT_PING
(`PingReturned`) and of raw game datagrams (`ForwardRelay`) are split by their
early returns; packets that only answer (address check, NATIFY, ERT, malformed
packets, admission refusals) are `Stateless`. `_activate_relay` is
`FallbackVoid`, `FallbackRefused` or `ActivateRelay`, the idle timer is
`RelayIdleCheck`. The drain is `RequestDrain` (the signal handler), `BeginDrain`,
`RelaysDrained` or `DrainTimedOut`, and `ConnectionLost`; `ServiceFailed` is
the other way to the finally block.

Time. A monotonic time stamp is kept as its age and a timer as the ticks it has
left. `Tick` is disabled while a timer is due, so timers are punctual to one
tick; a datagram of that tick may come before or after them. This is the race
at the fallback boundary. `Older` stops an age one past the largest value a
comparison tells apart.

Data left out: the payload, the wire format, metrics and log lines, and the
registry half of ServerState (see Directory). The size and byte-rate checks of a relay
endpoint are the boolean `fits`: a bucket that is empty or a packet too long
both drop the datagram after the relay's and the session's time stamps are refreshed.
The amplification check of `_activate_relay` cannot refuse with the packet sizes
of the protocol (two pings of at most 61 bytes against three times an INIT of at least 21
bytes) and is left out for that reason.

### RelaySwitch

A switch that joins addresses in disjoint pairs, learns which of them are proven
and passes a datagram only between two proven ends of one pair. It knows nothing
of cookies, indexes, timers or drains. `NatNeg!ImplementsSwitch` instantiates it
with the pairs and ready endpoints of the relays.

### PeerChat

A coroutine gives way only at an `await` that really waits, so a task is the
`await` it is suspended at with the locals it will go on with: `task` maps each
connection's reading task (`Own`) and the task a drain adds (`Drainer`) to such
a frame. `at` names the place: `read` (the read loop), `told` (a broadcast with
nothing after it), `direct` (a message to one connection), `rename` (the loop of
`cmd_nick`), `part`, `quit` (the loop of `disconnect`), `close` (`wait_closed`),
`list` and `who` (a reply under a live iterator). `room` is the ChatChannel
object that `part` and `quit` hold across the `await`; rooms of one name that
are created one after the other are told apart by a generation, because a
suspended task may come back to a room that has been removed and recreated.

`clients` and `channels` are the dictionaries of PeerChatServer; `rooms` are the
ChatChannel objects, with operators and client keys kept as sets of nicknames;
`nick`, `user`, `joined` and `conn` are the fields of PeerChatClient; `lost` is
the environment's: the transport has failed. Each command is one action up to
its first `await` and one action, `...Next`, from there to the following one.

What is abstracted, and why:

- One broadcast is one suspension on all of its recipients. The code awaits them
  one after the other, but between two of them it changes nothing. The two
  broadcasts of `cmd_join` follow each other with no change between them and are one
  suspension as well (`Enter`); a peer that arrives between them is not waited for.
- A line is executed whenever the reading task is at its read, also on a
  connection that a drain is disconnecting or has disconnected: `run` looks at
  `closed` only after a command (`Reading`).
- A reply to the connection itself can only delay its own next command, and is
  left out unless an iterator is alive across it (LIST, WHO).
- A command refused by a bucket, a limit on keys or the syntax changes nothing;
  one that ends the connection is `Leave`. Nicknames and rooms are their
  casefolded forms. An empty user name in USER is not modelled.
- The iteration order of sets and dictionaries is not fixed: `RenameIn` and
  `QuitRooms` choose the next room.
- Rooms of a quitting connection in which nobody listens are left without giving
  way: `QuitRooms` does as many of them as it likes in one step and is then
  suspended in a room with listeners, or finishes.
- The tasks of a drain may be started in any order and interleave with the
  others; the code starts them together, so this allows more than the code does.
- Only failures of the ConnectionError class are modelled (see section 7).

### Nicknames

A nickname belongs to one connection at most and a connection has one at most; it is refused
while another has it, and only its owner gives it up, by choosing another or
by leaving, after which it has none any more. There are no rooms, awaits or drains.
`PeerChat!ImplementsNicknames` maps the owners to `clients` and those who have
left to `Departed`: the connections whose disconnection has released the nickname.

### Directory

QR2 and the Server Browser are one module because they meet in one `expire`, one
set of events and one registry.

| Variable | Code |
| --- | --- |
| `servers` | `ServerState.reported_servers`: keys, challenge, registered, age of `last_seen`; `older` is the set of hosts whose `registered_at` is earlier |
| `answer` | the host's response to a challenge, on its way or to be repeated |
| `conn` | a connection: not yet there, `open`, `keyed` (its cipher is set), `closing` (by the drain), gone |
| `event` | its `change_event` is set |
| `push` | its push task is at `change_event.wait()` or at `writer.drain()` |
| `sub`, `known` | its ServerListSubscription: query and `known_servers` |
| `view` | the list a subscribed client has put together from what it was sent |
| `asked` | hosts whose entry in that list came by an info response |

`_heartbeat` is `NewHost`, `RefusedHost`, `Report`, `Rechallenge` or
`RemoveHost`; `_challenge_response` is `Prove`, with `register_server` as
`Register`; `ServerState.expire` is `Kept` with `ListChanges` wherever the code
calls it, and `Expire` for the sweeper and for NatNeg's claims. A list
request is `Subscribe`, `ListOnce` (no push, or groups) or `RefusedRequest`; an
info request is `InfoRequest`, a message to a host `RelayMessage`, and a lookup for
a connection the drain has closed `LateLookup`. The push task
is `PushUpdates` or `PushNothing` up to the write, and `PushDone` once
`writer.drain` returns. `Close` is every way into the finally block of `handle`.

What is abstracted, and why:

- Keys are a small set, of which some are automatch keys and some those of a
  compatible host with a free seat. A filter is the set of keys it lets through,
  since `_matches_filter` looks at nothing else. An entry of a list
  is a host with all of its keys, and its flags and addresses follow from these.
  The instance key is never listed; that it differs from the last one is `moved`.
- A host has at most one answer on its way. It may be late, repeated or lost, and
  the answer to a newer challenge may replace it or not come. An answer
  carries the keys its challenge was issued for, which `ProofCoversKeys` compares.
- `registered_at` is only compared, so it is the set `older`. Equal clock
  readings, which the code breaks by address, are left out.
- Heartbeats of other games, keepalives and availability queries
  touch no state. Refused admissions are as if nothing was sent.
- Replies to the connection itself can only delay its next request. The cipher
  is the fact that one is set: neither task awaits between `encrypt` and
  `write`, so the two cannot mix their bytes.
- `view` is kept for subscribers: what a client does with a list it did not
  subscribe to is its own affair.
- A connection that the drain has closed still handles what was read before, or cut
  short by the close: a message to a host is relayed over UDP as ever (`RelayMessage`), a list or
  info request looks the list up, which expires hosts and may wake others
  (`LateLookup`). What it writes to the closed stream is discarded or flushed,
  and its client's `view` is not followed any longer.
- A limit on connections and the idle timeout are `Close` or no `Connect`.

### Bulletin

One page per query, which may change at any time; a reader is given a page as
it is at that moment, or nothing. Entries that a reader asked for by
itself are private and may lag. `Directory!ImplementsBulletin` instantiates the
page of a query with its listing of the hosts that have not expired, whether the
sweeper has seen them or not: a list, first or pushed, never holds an expired
host. A page of an automatch query (`Single`) never shows two hosts.

### Admission, Meter and Rate

`sources`, `globalBucket` and `nextExpiry` are `_sources`, `_global_bucket` and
`_next_expiry_at` of one `UdpAdmission`, which the QR2 and the NatNeg listener
share; `decision` is what the last call of `allow` returned. A call is one step,
`Allow`: the sweep that is due (`Swept`), then one of `BannedSource`,
`GlobalLimit`, `TableFull`, `Allowed`, `Violation` and `BanStarts`, in the order of
the early returns. The global budget is spent before the table is looked at, so
a source turned away by a full table has spent it; a banned one has not.
The table is swept a second time, out of turn, when it is full (`WithRoom`).

A bucket holds whole units, of which a datagram takes `Cost`, and a tick brings
`Rate`. The code refills a bucket when it asks it, in proportion to the time
passed; refilling at every tick gives the same level at each question. Floating
point rounding is left out. The amplification check (`allows_response`) is one comparison and
keeps no state.

`Meter` is the promise to each source: a bucket, a run of refusals and a ban, with
no table, no sweep, no limit and no other source. That the table may forget rests on
`RefillsWhileRemembered`: a source silent for longer than it is remembered has
filled its bucket again. `load_config` does not demand it; the defaults satisfy
it by two orders of magnitude.

`Rate` looks at the same calls from outside. Its variables `elapsed`, `served` and `total`
count, since a moment that may be chosen again at any state (`BeginWindow`), the ticks
and the datagrams allowed; they influence nothing (`CountedIsAdmission`).

### Service

The composition. `phase` says where `run_server` stands, from its wait for the first task
to the exit of `asyncio.run`; `conn` follows each TCP connection of both services
from acceptance to release, `host`, `total` and `perSource` are the sources and counters of
`ConnectionAdmission`; relays are counted. What happens on an open connection is the subject of
PeerChat and Directory, what a relay does that of NatNeg: here they are `Leave`, `RelayStarts`
and `RelayCloses`, which may happen at any time.

A connection that the listener has accepted is `new` until its handler first runs,
which may be after the drain has listed the connections it closes; `Handle` then
looks at the drain flag. `Forgotten` is the way out of the Server Browser's handler that
skips the release (`server_browser.py:256`). `WaitsForConnections` is a fact
about the Python version: whether `Server.wait_closed` waits for open connections
(from 3.12.1 on) or returns at once.

### Signing and Identity

A build is a process, and each of its steps one look at the shared files or one change of
them. `keystore`, `configuration`, `output` and `report` are the files; a key is
named by the build that generates it, and stands in `configuration` for the password
that opens it. `temporary` holds the temporary files beside the shared ones. The
steps are those of `ensure_signing_material`
(`LoadMaterial` to `ReplaceConfiguration`, with `GenerationFails` and `Cleanup` as its
error path) and of `build_output` (`Start`, `Sign`, `WriteReport`, `PlaceOutput`,
`PlaceReport`, `PlacingFails`). `Kill` may happen between any two of them;
`CleanupFails` and `RemovalFails` are errors inside the error handlers. What a build does in its
temporary directory cannot be seen by another and is part of the next step.

`Identity` is one key, chosen once, that signs everything. The constant `Alone` says whether
a build may start while another one runs; the code does not prevent it.

## 3. Runs

| Run | cfg | Question | Bounds |
| --- | --- | --- | --- |
| `natneg` | `MCNatNeg.cfg` | do the address table, the direct-or-relay decision, first claim and the abstract switch hold in every interleaving? | 2 cookies, 3 addresses, TTL 2, fallback 1, relay life 1, sweep 1, drain 1 ticks |
| `natneg_live` | `MCNatNegLive.cfg` | do limits hold at their boundary, is every relay watched, does a drain end, does a quiet relay close, is every fallback decided? | 2 cookies, 2 addresses, room for 1 session and 1 relay, relay life 2 |
| `peerchat` | `MCPeerChat.cfg` | do rooms and connections agree, does the limit of two players hold, is no room with players dropped? | 3 connections, 3 nicknames, 1 staging room of 2 generations, before a drain |
| `peerchat_live` | `MCPeerChatLive.cfg` | are nicknames unique, are operators members, does a drain disconnect everybody? | 2 connections, 1 room, failing transports, a drain at any point |
| `directory` | `MCDirectory.cfg` | is a wake-up lost, does an old proof register, is the published host displaced, is an expired host ever sent? | 2 hosts, 1 reader, 2 challenges, automatch search, TTL 1, before a drain |
| `directory_live` | `MCDirectoryLive.cfg` | does a reading client catch up, does a silent host leave its list, does the drain close every connection? | 2 hosts, room for 1, 1 reader, filtered search, TTL 1, a drain at any point |
| `peerchat_rename` | `MCPeerChatRename.cfg` | does the limit of two players survive a renaming in two rooms? (no) | 3 connections, 2 rooms |
| `peerchat_teardown` | `MCPeerChatTeardown.cfg` | are the tables empty when the drain has disconnected everybody? (no) | 2 connections, 2 nicknames, 1 room |
| `admission` | `MCAdmission.cfg` | can a source tell that it was forgotten, can the table be full of sources no longer needed? | 3 sources, a table of 2, tokens every 2 ticks, TTL 4, bans of 6 ticks after 3 violations |
| `signing` | `MCSigning.cfg` | is there one identity, is half a pair only left by a kill, is everything delivered or nothing, is an earlier file touched? | 3 builds one after the other, 2 output paths |
| `service` | `MCService.cfg` | do the counters return, is anybody served after the drain, do relays get their time, does the process end? | 3 players, 1 reader, 2 sources, 2 places, 2 relays, 2 ticks of drain, `wait_closed` returns at once |
| `service_exit` | `MCServiceExit.cfg` | does the process end where `wait_closed` waits for connections? (no) | 1 player |

Why the bounds are enough for NatNeg. A relay table error needs two relays that
compete for one address: two cookies with three addresses give every overlap,
and three addresses also let a stranger use a cookie. Only comparisons of times
matter: a TTL of 2 with a fallback of 1 has a tick before, at and after each
boundary, and the relay life of 2 of `natneg_live` lets a relay be refreshed
halfway. Two indexes per session are fixed by the protocol. `natneg_live` has as
many sessions as it takes to fill the table, so that refusals for lack of room
happen. Addresses and cookies are symmetric in the runs of safety properties;
liveness is checked without symmetry.

Properties of `natneg`: `RelayOwnership` (the address table is the inverse of
the relays' endpoints); `OutcomeExclusive` (a relay and a direct success of its
session exclude each other); `FallbackOwned` (a pending fallback belongs to a
live, paired session without a relay); `FirstClaimWins`; `CommittedRelay` (after
a returned ping a relay ends only by idleness, shutdown or endpoint reuse);
`DrainAllocatesNothing` (neither a relay nor a session, once a drain is requested);
`ImplementsSwitch`. Properties of `natneg_live`:
`TypeOK` (with both limits, as `Capacity`); `RelayDeadline` (each relay has an
idle check due by its deadline, and the drain event agrees with the table);
`DrainTerminates`; `QuietRelayCloses`; `FallbackDecided`.

Why the bounds are enough for PeerChat. The limit of a staging room is two, so
three connections are the first that can break it, and the third can
take a nickname another has freed. Two generations let one room object be held
by a suspended task while another of the same name is alive; a third would take two
tasks that hold two removed rooms (each in a WHO, or disconnected by a drain while
suspended) and a connection that creates the next, and `JoinNew` waits
in that case until one is let go. A renaming that others can see half done needs
two rooms.

Properties of `peerchat`: `MembershipAgrees`, `TwoPlayers` and
`OnlyEmptyRoomsGo`. The first two hold because each connection of this run may be in one
room (`PerClient = 1`; the shipped default is 16): a renaming then has no half, and
`peerchat_rename` shows what happens when it has. For any number of connections, rooms and
rooms per connection they are proved of the behaviours in which no
connection that is in several rooms changes its nickname (`WholeRenamings`, section 4).
`peerchat_live` adds failing transports and the
drain, with `TypeOK`, `NickUnique` (an entry of the table names a connection by the
nickname it has; until a drain disconnects its connections the table is the inverse of the
nicknames), `MapsWithinMembership` (operators and client keys are members) and
`DrainDisconnects`. `NickUnique` and `MapsWithinMembership` do not depend on the
number of rooms: they are proved for every instance (section 4). `NickUnique` says less
of a drain because there the code keeps less, which `peerchat_teardown` shows.

Why the bounds are enough for Directory. Seniority and the choice of the
published host need two hosts. Two challenges tell the newest from an older one,
and more would only be further older ones. Two values of the keys make a host
change between open and full, or pass a filter and fail it. One reader is enough
for the runs: connections share nothing but the registry and the events, and one
acts on another only through the expiry that its requests cause, which the
sweeper causes too. A TTL of 1 has a tick at and a tick after the boundary. In
`directory_live` there is room for one host, so that `RefusedHost` happens and
has to expire first. Time has no bound: ages stop one past the TTL.

Properties of `directory`: `Synced` (while a reader's event is not set, what
its subscription knows, and what its client has, is what is listed);
`ProofCoversKeys`
(a host becomes listed with the keys its proof was asked for); `FirstHostStays` (the
host that automatch publishes is displaced only by one that has been registered
longer and has got a free seat); `ImplementsBulletin`. Properties of
`directory_live`: `TypeOK`
(with the fact that a subscription never lacks a cipher), `CatchesUp`,
`StaleHostsLeave`, `DrainCloses`.

Why the bounds are enough for Admission. A table of two entries for three sources
is full with one source left to be turned away; a ban longer than the time to live
keeps an entry beyond its age, a burst of two datagrams and a half leaves a rest in
the bucket, and a bucket needs every tick of the time to live and the one after it to fill, the
boundary of `RefillsWhileRemembered`. The global bucket is small enough to run dry.

Properties of `admission`: `TypeOK` (with the limit of the table),
`FullMeansBusy`, `ImplementsMeter`.

Why the bounds are enough for Signing. Three builds give one that strands or generates, one
that meets what it left, and one that comes after both; two paths let builds share
one or not. Builds are symmetric, and so are paths.

Properties of `signing`: `TypeOK` (with the fact that what is delivered is signed
exactly when that was asked for), `OnlyKillsStrand`, `AllOrNothing`,
`ImplementsIdentity`, `ExistingOutputsStay`.

Why the bounds are enough for Service. Three players and two sources with two places, one for each source,
make either limit refuse alone. One reader suffices for `Forgotten`. Two relays tell
the last from any other, and two ticks of drain a closing before the time is up from one after.
CHECK_DEADLOCK is FALSE in the runs of Service because the process ends, in `peerchat_teardown`
because the drain does, in `signing` because the builds do.

Properties of `service`: `TypeOK` (with both limits), `PlacesCounted` (PeerChat gives
every place back, and while the Server Browser has lost none the counters are exactly the
connections that hold a place), `NobodyLeft` (nobody is served once the
services are drained, late arrivals included), `RelaysOutlastDrain`, `ProcessExits`.

Three runs end in a counterexample on purpose, and show where the code
and a document disagree:

- `peerchat_rename`: `cmd_nick` frees the old nickname (`peerchat.py:309`) and
  then renames one room after the other, with a broadcast in between. A third
  connection takes the freed nickname and joins a staging room that still has
  its entry: `cmd_join` takes it for a member and skips the limit (ROADMAP.md:140).
- `peerchat_teardown`: a NICK is read by the reader's task just before, and executed just
  after, the drain's disconnect has popped the nickname (`peerchat.py:787`). `cmd_nick`
  does not look at `closed` and enters the new name (`peerchat.py:311`); the
  disconnect of `handle` returns at once (`peerchat.py:765`), so the entry of a
  connection that is gone stays, while the process still waits for its relays.
  ROADMAP.md:154 says that teardown returns collections to zero, README.md:245 that a
  nickname is unique only for the active connection.
- `service_exit`: `run_server` awaits `wait_closed` of the PeerChat listener
  (`__main__.py:144`) before `begin_drain`. From Python 3.12.1 that call waits
  for every open connection, and an idle welcomed client has no timeout: neither
  a requested drain nor the end after a failed service gets through (README.md:239).

### Fairness

`natneg_live` assumes weak fairness of three things, all of them the event loop's
job: a due timer callback runs, the draining task goes on once its wait is
over, and time passes. Datagrams, signals and service failures are the
environment's and get none. `WF` of `Shutdown` rests on `run_server` reaching
`begin_drain`: between the signal and that call it awaits `wait_closed` of the
TCP listeners (`__main__.py:142`), which `service_exit` is about.

`peerchat_live` assumes that a task goes on when each recipient it may be
blocked on has lost or closed its transport (`Released`), that a closing
connection closes (it is aborted after a second), that a connection whose
transport is gone notices, and that `run_server` and the tasks it starts are
run. No peer has to read, to send or to hang up, and transports need not fail:
a stalled peer is released by the drain alone, which closes it.

`directory_live` assumes weak fairness of the sweeper, of time, of a push task
whose event is set and of a connection that the drain has closed (its
reader sees the end of its stream, or it is aborted after a second). Hosts owe
nothing, clients neither: that a client reads what it is sent is a premise of `CatchesUp` and
`StaleHostsLeave` (`[]<>(push[c] = "wait")`), since `writer.drain` has no
deadline. `BeginDrain` gets no fairness, because `run_server` awaits
`wait_closed` of the listener first, and `DrainCloses` starts where it is over.

`service` and `service_exit` assume weak fairness of `run_server`, of time, of a handler that has not run
yet, of a release that is due, of cancellation and of a transport on its way out,
which goes within a second. A player's may take as long as other players are open (`Hurried`): its disconnect
tells its rooms first and waits for their readers. That it goes once all of
them are being disconnected is what `DrainDisconnects` shows in PeerChat. Nobody has to hang
up, no relay has to close, and neither signals nor failures have to come.

## 4. Proofs

NatNeg. All theorems hold for every choice of the constants that satisfies
`NatNegConstants`, which asks for positive timeouts and limits, an unclaimed
marker that is no address, and one of the two relay policies. Sets of cookies
and addresses need not be finite. `load_config` enforces exactly these.

- `NatNegProofs!TypesCorrect`: `Spec => []Types`, the types without the limits. The type of relays is
  inductive with that of the tables beside it; the one non-obvious conjunct is
  that the rescheduled idle timer stays in range.
- `NatNegRelayProofs!DeadlineCorrect`: `Spec => []RelayDeadline`. Inductive
  together with `Types`.
- `NatNegRelayProofs!OwnershipCorrect`: `Spec => []RelayOwnership`. `Types`
  and `RelayDeadline` strengthen it. Each step of the relay plane is one of
  four kinds (lemma `RelaySteps`): it closes a set of relays, closes and updates
  one relay without changing its endpoints, activates a relay over replaced ones,
  or leaves the tables alone. Closing removes exactly the bindings
  of the closed relays because, by ownership, no other binding names them;
  activation overwrites only bindings whose relays it has just closed.
- `CommittedCorrect` (`Spec => CommittedRelay`) and `SwitchCorrect` (`Spec =>
  ImplementsSwitch`) rest on one list (lemma `SwitchSteps`) of what a step is to the
  switch: relays go, an endpoint is proven, a datagram passes, a new relay takes
  endpoints over, or nothing happens. Each entry names the relays that go; every one
  of them is unproven, idle, taken over or closed by the shutdown, which is the commitment.
  For the refinement each entry maps to the step of `RelaySwitch` that removes the
  pairs of the same relays. Ownership makes this exact: no address is in two pairs
  (`Switchboard`), so removing the pairs of some relays leaves the pairs and the proven
  addresses of the others as they are (`Parted`).
- `NatNegMatchProofs` sorts the steps once more, by what they do to sessions, relays' endpoints and
  fallbacks (lemma `MatchEffects`): they only let some go (`Quiet`), claim an index, count a
  report for a relay, count a direct success, activate a relay, or let time pass.
- `TypeCorrect`: `Spec => []TypeOK`, which adds `Capacity` to `Types`. The tables are also
  finite (`Limited`), which the inequality of cardinalities needs.
- `FirstClaimCorrect` (`Spec => FirstClaimWins`) and `DrainCorrect` (`Spec =>
  DrainAllocatesNothing`): action properties, each from that list of effects.
- `OutcomeCorrect`: `Spec => []OutcomeExclusive`. Strengthened by `Apart`: no fallback is pending
  beside a relay or for a session that has counted a relayed outcome, and only
  paired sessions have. So what a new relay finds is a session that has counted nothing.
- `FallbackCorrect`: `FallbackDelay <= SessionTTL` implies `Spec => []FallbackOwned`.
  Inductive over `Types`: a session has not been idle longer than its fallback has
  been pending, hence it cannot expire first.
- `FallbackDecision`: under the same assumption `Spec => FallbackNotLost`, the safety half
  of `FallbackDecided`. A timer that leaves the table leaves a relay,
  a success, a full relay table or a server on its way out; by `FallbackOwned` it cannot have been swept with its
  session, and a timer that is due finds a live pairing.
- `EndCorrect`: `Spec => []NothingLeft`. After `connection_lost` no relay, binding, idle
  timer or fallback is left, and the timers and datagrams that come later add none.

PeerChat. The theorems hold for any sets of connections, nicknames, rooms and
generations, finite or not, under `PeerChatConstants`: the markers `Nobody`,
`NoNick` and `Absent` are distinct from what they stand beside, and the limits
are positive.

- `TypeCorrect`: `Spec => []TypeOK`. `TypeOK` alone is not inductive: a renaming
  task with no nickname would put the marker into `client_keys`. `RenameNamed`
  excludes it.
- `MapsCorrect`: `Spec => []MapsWithinMembership`, inductive over `TypeOK` and
  `RenameNamed`. Every update of a room (`With`, `Without`, `Renamed`, a key, a
  mode) leaves its maps within its members, so it does not matter which
  object a suspended task comes back to.
- `NickCorrect`: `Spec => []NickUnique`. `NickUnique` is strengthened to
  `NickInv`: a closed connection has exactly one task disconnecting it
  (`OneCloser`); that task holds the nickname while it leaves the rooms and, as long as no
  NICK comes too late, nobody holds one for it afterwards (`Holds`); a connection that has not arrived
  has no nickname. What a late NICK cannot break is `Named`: an entry names its owner by
  the nickname that owner has. `NickInv` is stated of any nicknames and table because
  `NickCmd` renames and may then disconnect in the same step: it
  is shown to hold between the two (`RenamingNick`, `DisconnectNick`).
- `NicknamesCorrect`: `Spec /\ [][NoneLateInDrain]_vars => ImplementsNicknames`, the refinement of
  `Nicknames`. `NoneLateInDrain` asks that no connection whose nickname the drain has
  released executes a NICK. Before a drain begins it holds of every step by itself (`NoneLate`): there a connection
  is only disconnected by its own task, which reads no line then. During a drain it is a real
  condition, which the code does not ensure (`peerchat_teardown`). A connection that has not
  departed owns the entry under its nickname and no other, one that a drain is
  disconnecting included (`TableOwn`, from `NickInv`). Releasing or replacing that one entry
  is therefore giving up all it has (`ReleaseLeaves`, `NickChooses`); every other step leaves table and departures
  alone. A NICK whose first room is gone is choosing and leaving in one step, which is leaving.
- `DrainUnstuck`: `Spec => []NeverStuck`, the safety half of `DrainDisconnects`. Disconnections send
  to the other players in their rooms and could wait for one another in a circle. They
  do not: a task waits only for connections that were open when it reached the
  room, so in any set of closed connections one, the last to have reached a room,
  waits for none of the others (`Founded`). That is inductive, and applied to all
  connections that are closed it yields a task whose recipients have gone.
- `MembershipCorrect`, `RoomsCorrect` and `StagingCorrect`: `MembershipAgrees`,
  `OnlyEmptyRoomsGo` and, until a drain begins, `TwoPlayers`. They are not
  true of every behaviour: `peerchat_rename` shows a connection in two
  rooms whose renaming ends after the first. What the theorems assume is
  that this does not happen (`WholeRenamings`: a nickname changes only while
  its connection is in at most one room), hence that it is the only
  way rooms and connections come apart. The invariant is `SeatInv`. The seats of a
  connection are the rooms it has joined or, while it is disconnected, those the
  task has not reached; it has an entry in each of them (`Seated`), every
  entry is one of those (`Occupied`), and the room object a PART, a
  renaming or a disconnection holds across a broadcast is still the room of its
  name (`Held`). That rests on `NickInv`, since entries are kept by nickname.
  A step leaves a staging room its number of entries, or is a JOIN that
  has counted them (`StepSafe`).

Only model-checked: liveness. `MembershipAgrees`, `OnlyEmptyRoomsGo` and
`TwoPlayers` are neither checked nor proved while a drain is under way: the run
`peerchat` has none, and the theorems end where it begins.

Directory. The theorems hold for any sets of hosts, keys, readers and challenges,
finite or not, under `DirectoryConstants` and `NoneIsNothing` (the marker
`None` is no keys, query, record or answer).

- `TypeCorrect`: `Spec => []TypeOK`, registry and readers apart (`TypeSplit`), and with the limit of the
  registry (`Capacity`), which every newcomer is counted against after the expired have gone.
- `SyncCorrect`: `Spec => []Synced`. `Synced` is strengthened by `ViewKnown`,
  which says what a client's list has to do with `known` whether or not the event is
  set. Two lemmas carry the argument: a registry in which the same hosts are
  registered with the same keys and order has the same listing (`SameListing`),
  and an expiry that does not wake anybody does not change one (`KeptListing`).
  Each step of a host then either wakes every connection or leaves all
  listings alone (`HostQuiet`).
- `ProofCorrect`: `Spec => ProofCoversKeys`. The strengthening `AnswerFits` says that an answer
  to the challenge a host has now was made for the keys it has now. It holds because
  every heartbeat of an unregistered host issues a new challenge; the model's
  only assumption is that no two challenges outstanding for one host are equal.
- `FirstCorrect`: `Spec => FirstHostStays`. `OlderNext` says that no
  step puts a host before one that was registered already.
- `OldestCorrect`: `Spec => []OldestListed`. The hosts registered earlier than another
  form a strict order that is total on those registered (`Ranked`), and every set
  of registered hosts has a first (`HasFirst`): automatch never shows none where there is one, nor two.
- `BulletinCorrect`: `Spec => ImplementsBulletin`, the refinement of `Bulletin`, with one host at most
  on the page of an automatch query.
  Steps of the registry map to `Turn`, because a list is only handed out by steps
  that expire first; expiry itself maps to a stutter (`KeptTwice`: expiring twice
  is expiring once).

Admission. Any set of sources, under `AdmissionConstants` and `RefillsWhileRemembered`.

- `TypeCorrect`: `Spec => []TypeOK`, with the limit of the table; the table is finite
  because each step adds one source at most.
- `FullCorrect`: `Spec => []FullMeansBusy`. Only `TableFull` sets the decision, and it
  has swept the table in the same step (`ExpiredSound`).
- `MeterCorrect`: `Spec => ImplementsMeter`. `Refilled` strengthens it: the bucket of
  an entry has gained what a source idle for its age gains. An entry that may go is
  therefore one with a full bucket, no ban and no run: dropping it changes nothing
  that `Meter` sees.
- `RateCorrect`: `RateSpec => [](SourceBound /\ GlobalBound)`, for every window of time. What a source
  was allowed, plus what its bucket holds, is at most a burst and what its rate has
  brought since; the same holds of all sources together and the global bucket. By
  `RefillsWhileRemembered` a source that is forgotten and comes back to a new, full bucket
  has gained nothing.

Signing. Any sets of builds and paths. `TypeCorrect` holds whether builds overlap or
not; the other theorems are of the form "`Alone` implies".

- `StrandedCorrect`, `DeliveryCorrect`, `OutputsCorrect`: the inductive invariant adds to
  the types that one build runs at most (`OneRuns`), what the pair of files looks like at
  each place of that build (`Pair`), and what each build has delivered and which paths
  are reserved for the one that runs (`Delivery`).
- `IdentityCorrect`: the refinement of `Identity`. A build that generates has found neither file,
  so replacing both chooses the identity for the first time.

Service. Any finite sets of connections, any sources.

- `TypeCorrect` and `PlacesCorrect`: the invariant says that the counters equal the
  cardinalities of the connections that have taken a place and not given it back
  (`TakenCounted`), those whose handler stopped before its release included, so that a
  release is possible only while the counter is positive. What it gives is `PlacesCounted`: PeerChat has no
  such connection, and a service that has none counts exactly the connections it
  has. It is not claimed of the Server Browser once a handler has stopped that way
  (`Forgotten`): it fails there (section 6).
- `NobodyLeftCorrect`, `RelaysCorrect`: both from `DrainInv`, by which nobody is open after
  the drain of the services (`draining`, which never goes back, turns away those
  handled later) and relays are left at the clean-up only if a service has failed.
- `StallsCorrect`: `Spec => []NeverStalls`, the safety half of `ProcessExits`. Once the process is to end, in each phase
  either `run_server` can go on or some connection can that needs nothing from its client,
  unless a `wait_closed` waits for open clients (`LeftToClients`): that is the
  only way the process can be kept, and the one `service_exit` shows. The drain's own disconnects cannot keep it
  because nobody is open beside them any more (`DrainInv`).

Some of the theorems state properties that no run checks: `FallbackNotLost`, `NothingLeft`, `NeverStuck`,
`ImplementsNicknames`, `OldestListed`, `SourceBound`, `GlobalBound` and `NeverStalls`. TLC
agrees with each of them on instances like those of section 3: they can be added to a cfg of
their module (those of `Rate` with a bound on `elapsed`). The runs are kept to the questions listed there.

In every model what rests on fairness (`DrainTerminates`, `QuietRelayCloses`,
`FallbackDecided`, `DrainDisconnects`, `CatchesUp`, `StaleHostsLeave`, `DrainCloses`,
`ProcessExits`) is out of the prover's reach and left to TLC. Of most of these the half
that needs no fairness is proved: that nothing pending is lost (`FallbackNotLost`), that what is
over is over (`NothingLeft`, `NobodyLeft`), that each relay has an idle check due in time
(`RelayDeadline`), that a reader who is not woken misses nothing (`Synced`), and that whoever waits for others
does not wait in a circle or for nobody (`NeverStuck`, `NeverStalls`).

## 5. Plan

1. `NatNeg` with `RelaySwitch`: modelled; its safety properties and
   the refinement of `RelaySwitch` are proved. Next: the budgets of replies, with item 4.
2. `PeerChat` with `Nicknames`: modelled; its safety properties and the refinement of `Nicknames` are proved. Next: the rooms
   during a drain, where entries outlive their connections; the
   other classes of transport failures, the handshake deadline.
3. `Directory` with `Bulletin`: modelled and proved, except for liveness. Next: the
   entries of info responses, which the code does not reconcile.
4. `Admission` with `Meter` and `Rate`: modelled and proved. Next: the reply budget of both UDP
   listeners together.
5. `Signing` with `Identity`: modelled and proved for builds that do not overlap.
6. `Service`: modelled and proved, except for liveness. Next: its refinement by PeerChat
   and Directory, which now share only their description.

## 6. Divergences met while modelling

PROJECT.json records each with its place. Those that have a run are in section
3.

- An INIT from a bound endpoint refreshes the relay but not the session
  (`natneg.py:204`), where README.md:225 says that it refreshes both.

- The drain check looks a cookie up (`natneg.py:189`) before `claim_nat_peer` expires
  it: a session that has expired but has not been swept is replaced by a new one
  while draining, against ROADMAP.md:152 ("reject new NatNeg sessions"). The cookie
  was in the table before, which is why `DrainAllocatesNothing` holds, and no
  relay can come of it.

- When an established relay closes by idleness while its session is still there, a
  late success report counts as a direct outcome of a session that already
  counted a relayed one (`natneg.py:509`, against ROADMAP.md:135). `OutcomeExclusive`
  speaks of sessions that have a relay.

- A transport error that is no ConnectionError, or a cancellation, comes out of the
  `wait_closed` in the finally block of the Server Browser's handler
  (`server_browser.py:256`), and the release after it (258) does not happen. The place of that
  source is taken until the process ends, where ROADMAP.md:154 says that released capacity is
  reusable at once and teardown returns the counters to zero. Service models it
  (`Forgotten`): that a service without connections has all its places back is
  violated in four steps. `PlacesCounted` therefore says nothing of a service that has lost one.

- Builds take no lock (`patch_apk.py:870`, `patch_apk.py:1056`): overlapping ones can leave one
  build's keystore with another one's configuration, and replace or delete one another's
  output. With `Alone = FALSE` TLC finds all four properties other than `TypeOK` of `signing` violated.

- An info response gives a client an entry that the subscription does not know
  of (`server_browser.py:396`); when that host expires, no deletion is sent for it,
  where README.md:225 says that expired hosts "trigger normal Server Browser
  deletion updates".

Two things the models show are no divergences, because no line of the repository says
otherwise: a ConnectionError of the one recipient of a direct message ends its sender
(`peerchat.py:539`, `Message`, `MessageFailed`), whereas a broadcast skips such peers, and LIST and WHO
end in a RuntimeError when a dictionary they iterate over changes while they wait for the reply
(`peerchat.py:685`, `peerchat.py:507`, `Replied`).

## 7. Not modelled

Not yet: in PeerChat, a transport failure that is an OSError
but neither a timeout nor a ConnectionError, which leaves `_broadcast` and cuts
a disconnection short, and the handshake timer, which is looked at only while
reading; in Service, the metrics listener, which closes each of its connections
within seconds, and the opening of the sockets. Not planned: the cipher and wire formats (pure
byte transformations with test vectors), metrics, health check, log fields (no
effect on the services), configuration parsing (its constraints are the
assumptions of the models), diagnosis, APK rewriting, native tools, deployment
scripts and I/O.
