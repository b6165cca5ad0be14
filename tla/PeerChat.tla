------------------------------ MODULE PeerChat ------------------------------
(***************************************************************************)
(* The chat service: PeerChatServer and PeerChatClient                     *)
(* (server/fruitspy/peerchat.py), with the part of run_server              *)
(* (__main__.py) that drains it.                                           *)
(*                                                                         *)
(* Each connection has a task that reads commands (`handle`), and a drain  *)
(* adds one that disconnects it.  A task gives way only while it sends to  *)
(* a peer whose transport does not take the data, so a task is its frame:  *)
(* the await it is suspended at and the locals it will go on with.  One    *)
(* broadcast is one suspension, on all of its recipients; any of them may  *)
(* stop reading, for a while or for ever.  A reply to the connection       *)
(* itself is left out, unless an iterator is alive across it: it only      *)
(* delays that connection's next command.                                  *)
(*                                                                         *)
(* Nicknames and room names stand for their casefolded form.  A command    *)
(* that a token bucket, a key limit or a syntax check refuses changes      *)
(* nothing and is left out; one that ends the connection is Leave.         *)
(***************************************************************************)
EXTENDS Integers, FiniteSets, Functions

CONSTANTS
  Client,              \* connections; each is used once
  Nobody,              \* no connection
  Nick,                \* nicknames
  NoNick,              \* the nickname of a connection that has not chosen one
  Channel,             \* room names
  Staging,             \* those with the staging prefix, limited to two players
  Absent,              \* a room name without a room
  Generation,          \* rooms of one name alive at a time, detached ones included
  MaxChannels,         \* limits.peerchat_channels
  PerClient            \* limits.peerchat_channels_per_client

ASSUME PeerChatConstants ==
  /\ Nobody \notin Client
  /\ NoNick \notin Nick
  /\ Staging \subseteq Channel
  /\ Generation \subseteq Nat
  /\ Absent \notin Generation
  /\ MaxChannels \in Nat \ {0}
  /\ PerClient \in Nat \ {0}

VARIABLES
  nick,       \* PeerChatClient.nick
  user,       \* the connection has sent USER
  joined,     \* PeerChatClient.channels
  conn,       \* whether it is there, .closed, and its writer closed
  lost,       \* its transport has failed
  clients,    \* PeerChatServer.clients: nickname -> connection
  channels,   \* PeerChatServer.channels: name -> generation of its room
  rooms,      \* the ChatChannel objects
  task,       \* the frames
  drain       \* how far the drain has got

connVars == <<nick, user, joined, conn, lost>>
serverVars == <<clients, channels, rooms>>
vars == <<connVars, serverVars, task, drain>>

ParticipantLimit == 2

Object == Channel \X Generation
Nowhere == <<>>

(* client_keys and operators are kept as the nicknames they have entries   *)
(* for.                                                                    *)
Room == [users : [Nick -> Client \cup {Nobody}], ops : SUBSET Nick,
         keys : SUBSET Nick]
EmptyRoom == [users |-> [n \in Nick |-> Nobody], ops |-> {}, keys |-> {}]

Task == Client \X {"own", "drain"}
Own(c) == <<c, "own">>
Drainer(c) == <<c, "drain">>

Await == {"idle", "start", "read", "told", "direct", "list", "who", "rename",
          "part", "quit", "close", "end"}
Sizes == {0} \cup {Cardinality(S) : S \in (SUBSET Channel) \cup SUBSET Nick}
Frame == [at : Await,
          room : Object \cup {Nowhere},    \* the captured ChatChannel
          todo : SUBSET Channel,           \* rooms the loop has not reached
          old : Nick \cup {NoNick},        \* old_nick of cmd_nick
          wait : SUBSET Client,            \* recipients that may block it
          size : Sizes]                    \* the size a live iterator expects
At(a) == [at |-> a, room |-> Nowhere, todo |-> {}, old |-> NoNick,
          wait |-> {}, size |-> 0]

Init ==
  /\ nick = [c \in Client |-> NoNick]
  /\ user = [c \in Client |-> FALSE]
  /\ joined = [c \in Client |-> {}]
  /\ conn = [c \in Client |-> "none"]
  /\ lost = [c \in Client |-> FALSE]
  /\ clients = [n \in Nick |-> Nobody]
  /\ channels = [r \in Channel |-> Absent]
  /\ rooms = [o \in Object |-> EmptyRoom]
  /\ task = [t \in Task |-> At(IF t[2] = "own" THEN "idle" ELSE "end")]
  /\ drain = "no"
-----------------------------------------------------------------------------
(* Rooms.                                                                  *)

Present == {r \in Channel : channels[r] # Absent}
ObjectOf(r) == <<r, channels[r]>>
RoomOf(r) == rooms[ObjectOf(r)]
Users(room) == {n \in Nick : room.users[n] # Nobody}

(* `folded_nick in channel.users`: it looks for the key, not for c.        *)
In(c, r) == r \in Present /\ nick[c] \in Users(RoomOf(r))

(* Mutant: a connection that is closing is written to as well.             *)
ListenersClosing(room, excluded) ==
  {d \in Range(room.users) \ {Nobody, excluded} : conn[d] # "gone"}

(* The recipients of a broadcast that a write can block on: send returns   *)
(* at once for a closed one.                                               *)
Listeners(room, excluded) ==
  {d \in Range(room.users) \ {Nobody, excluded} : conn[d] = "open"}

With(room, n, c) ==
  [users |-> [room.users EXCEPT ![n] = c],
   ops |-> room.ops \cup (IF Users(room) = {} THEN {n} ELSE {}),
   keys |-> room.keys \cup {n}]

Without(room, n) ==
  [users |-> [m \in Nick |-> IF m = n THEN Nobody ELSE room.users[m]],
   ops |-> room.ops \ {n}, keys |-> room.keys \ {n}]

(* Mutant: the operator entry of the old nickname stays.                   *)
RenamedKeepsOps(room, c, old, new) ==
  [users |-> [m \in Nick |-> IF m = new THEN c ELSE
                             IF m = old THEN Nobody ELSE room.users[m]],
   ops |-> room.ops \cup (IF old \in room.ops THEN {new} ELSE {}),
   keys |-> (room.keys \ {old}) \cup {new}]

Renamed(room, c, old, new) ==
  [users |-> [m \in Nick |-> IF m = new THEN c ELSE
                             IF m = old THEN Nobody ELSE room.users[m]],
   ops |-> (room.ops \ {old}) \cup (IF old \in room.ops THEN {new} ELSE {}),
   keys |-> (room.keys \ {old}) \cup {new}]

(* Mutant: a room goes with its last operator.                             *)
LeaveWithOps(c, L) ==
  /\ rooms' = [o \in Object |->
       IF o \in L THEN Without(rooms[o], nick'[c]) ELSE rooms[o]]
  /\ channels' = [r \in Channel |->
       IF \E o \in L : o[1] = r /\ Without(rooms[o], nick'[c]).ops = {}
       THEN Absent ELSE channels[r]]

(* Connection c leaves the room objects L, under the nickname it has now;  *)
(* a room left empty is removed by its name.                               *)
LeaveRooms(c, L) ==
  /\ rooms' = [o \in Object |->
       IF o \in L THEN Without(rooms[o], nick'[c]) ELSE rooms[o]]
  /\ channels' = [r \in Channel |->
       IF \E o \in L : o[1] = r /\ Users(Without(rooms[o], nick'[c])) = {}
       THEN Absent ELSE channels[r]]
-----------------------------------------------------------------------------
(* Disconnection.  `names` is PeerChatServer.clients as the step finds it, *)
(* L the object whose broadcast is over, todo the rooms still to come.     *)
(* Rooms in which nobody listens are left without giving way; the task is  *)
(* suspended in the next one, or releases the nickname and closes.         *)
QuitRooms(t, todo, L, names) ==
  \E S \in SUBSET todo :
    /\ \A r \in S \cap Present : Listeners(RoomOf(r), t[1]) = {}
    /\ LeaveRooms(t[1], L \cup {ObjectOf(r) : r \in S \cap Present})
    /\ \/ /\ S = todo
          /\ clients' = [n \in Nick |-> IF n = nick'[t[1]] THEN Nobody
                                        ELSE names[n]]
          /\ task' = [task EXCEPT ![t] = At("close")]
       \/ \E r \in (todo \ S) \cap Present :
            LET listeners == Listeners(RoomOf(r), t[1]) IN
            /\ listeners # {}
            /\ clients' = names
            /\ task' = [task EXCEPT ![t] =
                 [At("quit") EXCEPT !.room = ObjectOf(r),
                    !.todo = todo \ (S \cup {r}), !.wait = listeners]]

(* disconnect returns at once if the connection is closed already.         *)
Disconnect(t, names) ==
  IF conn[t[1]] = "open"
  THEN /\ conn' = [conn EXCEPT ![t[1]] = "closed"]
       /\ QuitRooms(t, joined[t[1]], {}, names)
  ELSE /\ clients' = names
       /\ task' = [task EXCEPT ![t] = At("end")]
       /\ UNCHANGED <<conn, channels, rooms>>

QuitNext(t) ==
  /\ task[t].at = "quit"
  /\ UNCHANGED nick
  /\ QuitRooms(t, task[t].todo, {task[t].room}, clients)
  /\ UNCHANGED <<user, joined, conn, lost, drain>>

(* wait_closed returns, or is given up after a second and aborted.         *)
Closed(t) ==
  /\ task[t].at = "close"
  /\ conn' = [conn EXCEPT ![t[1]] = "gone"]
  /\ lost' = [lost EXCEPT ![t[1]] = FALSE]
  /\ task' = [task EXCEPT ![t] = At("end")]
  /\ UNCHANGED <<nick, user, joined, serverVars, drain>>
-----------------------------------------------------------------------------
(* The reading task.                                                       *)

Connect(c) ==
  /\ task[Own(c)].at = "idle"
  /\ drain = "no"
  /\ conn' = [conn EXCEPT ![c] = "open"]
  /\ task' = [task EXCEPT ![Own(c)] = At("read")]
  /\ UNCHANGED <<nick, user, joined, lost, serverVars, drain>>

(* A line has arrived.  The loop does not look at `closed` before it       *)
(* executes one: a connection that a drain is disconnecting, or has        *)
(* disconnected but for the closing of its transport, has one more line    *)
(* executed if it was fed to the reader before the writer was closed.      *)
Reading(c) ==
  /\ task[Own(c)].at = "read"
  /\ conn[c] \in {"open", "closed"} /\ ~ lost[c]

(* Mutant: JOIN does not look at the registration.                         *)
WelcomedAlways(c) == TRUE

Welcomed(c) == nick[c] # NoNick /\ user[c]

Goto(c, frame) == task' = [task EXCEPT ![Own(c)] = frame]
Broadcasting(c, room, excluded) ==
  Goto(c, [At("told") EXCEPT !.wait = Listeners(room, excluded)])

(* The command is over.                                                    *)
Back(c) == Goto(c, At(IF conn[c] = "open" THEN "read" ELSE "end"))

(* One round of the renaming loop; a room that is gone is a KeyError.      *)
RenameIn(c, r, todo, old, names) ==
  IF r \in Present
  THEN LET room == Renamed(RoomOf(r), c, old, nick'[c]) IN
       /\ rooms' = [rooms EXCEPT ![ObjectOf(r)] = room]
       /\ clients' = names
       /\ Goto(c, [At("rename") EXCEPT !.todo = todo, !.old = old,
                                       !.wait = Listeners(room, Nobody)])
       /\ UNCHANGED <<conn, channels>>
  ELSE Disconnect(Own(c), names)

(* Mutant: the old nickname is not freed.                                  *)
RenamingKeepsOld(c, n) == [m \in Nick |-> IF m = n THEN c ELSE clients[m]]

Renaming(c, n) ==
  [m \in Nick |-> IF m = n THEN c ELSE
                  IF m = nick[c] THEN Nobody ELSE clients[m]]

NickCmd(c, n) ==
  /\ Reading(c)
  /\ clients[n] \in {c, Nobody}
  /\ nick' = [nick EXCEPT ![c] = n]
  /\ IF nick[c] = NoNick \/ joined[c] = {}
     THEN /\ clients' = Renaming(c, n)
          /\ Back(c)
          /\ UNCHANGED <<conn, channels, rooms>>
     ELSE \E r \in joined[c] :
            RenameIn(c, r, joined[c] \ {r}, nick[c], Renaming(c, n))
  /\ UNCHANGED <<user, joined, lost, drain>>

RenameNext(c) ==
  /\ task[Own(c)].at = "rename"
  /\ UNCHANGED nick
  /\ LET frame == task[Own(c)] IN
       IF frame.todo = {}
       THEN Back(c) /\ UNCHANGED <<conn, serverVars>>
       ELSE \E r \in frame.todo :
              RenameIn(c, r, frame.todo \ {r}, frame.old, clients)
  /\ UNCHANGED <<user, joined, lost, drain>>

UserCmd(c) ==
  /\ Reading(c)
  /\ user' = [user EXCEPT ![c] = TRUE]
  /\ Back(c)
  /\ UNCHANGED <<nick, joined, conn, lost, serverVars, drain>>

(* JOIN up to its first await.  The MODE +o that a founder's room is told  *)
(* after the JOIN is the same suspension: nothing changes between the two. *)
Enter(c, r, g, room) ==
  LET entered == With(room, nick[c], c) IN
  /\ rooms' = [rooms EXCEPT ![<<r, g>>] = entered]
  /\ channels' = [channels EXCEPT ![r] = g]
  /\ joined' = [joined EXCEPT ![c] = @ \cup {r}]
  /\ Broadcasting(c, entered, Nobody)
  /\ UNCHANGED <<nick, user, conn, lost, clients, drain>>

(* Mutant: the staging limit is off by one.                                *)
HasRoomForOneMore(c, r) ==
  /\ Cardinality(joined[c]) < PerClient
  /\ r \in Staging => Cardinality(Users(RoomOf(r))) <= ParticipantLimit

HasRoomFor(c, r) ==
  /\ Cardinality(joined[c]) < PerClient
  /\ r \in Staging => Cardinality(Users(RoomOf(r))) < ParticipantLimit

Join(c, r) ==
  /\ Reading(c) /\ Welcomed(c)
  /\ r \in Present
  /\ In(c, r) \/ HasRoomFor(c, r)
  /\ Enter(c, r, channels[r], RoomOf(r))

(* A new ChatChannel is none of the objects a frame still holds.           *)
Captured(r) == {g \in Generation : \E t \in Task : task[t].room = <<r, g>>}
Fresh(r, g) ==
  /\ g \in Generation \ Captured(r)
  /\ \A h \in Generation : h < g => h \in Captured(r)

JoinNew(c, r) ==
  /\ Reading(c) /\ Welcomed(c)
  /\ r \notin Present
  /\ Cardinality(joined[c]) < PerClient
  /\ Cardinality(Present) < MaxChannels
  /\ \E g \in Generation : Fresh(r, g) /\ Enter(c, r, g, EmptyRoom)

(* PART tells the room first and leaves it afterwards.                     *)
Part(c, r) ==
  /\ Reading(c)
  /\ In(c, r)
  /\ Goto(c, [At("part") EXCEPT !.room = ObjectOf(r),
                                !.wait = Listeners(RoomOf(r), Nobody)])
  /\ UNCHANGED <<connVars, serverVars, drain>>

(* Mutant: the connection does not forget the room.                        *)
PartForgetful(c) ==
  /\ task[Own(c)].at = "part"
  /\ UNCHANGED nick
  /\ LeaveRooms(c, {task[Own(c)].room})
  /\ Back(c)
  /\ UNCHANGED <<user, joined, conn, lost, clients, drain>>

PartNext(c) ==
  /\ task[Own(c)].at = "part"
  /\ UNCHANGED nick
  /\ LeaveRooms(c, {task[Own(c)].room})
  /\ joined' = [joined EXCEPT ![c] = @ \ {task[Own(c)].room[1]}]
  /\ Back(c)
  /\ UNCHANGED <<user, conn, lost, clients, drain>>

(* SETCKEY stores keys under the nickname of any connection in the room.   *)
SetCKey(c, r, n) ==
  /\ Reading(c)
  /\ r \in Present /\ clients[n] # Nobody
  /\ nick[clients[n]] \in Users(RoomOf(r))
  /\ rooms' = [rooms EXCEPT ![ObjectOf(r)].keys = @ \cup {nick[clients[n]]}]
  /\ Broadcasting(c, RoomOf(r), Nobody)
  /\ UNCHANGED <<connVars, clients, channels, drain>>

(* MODE +o and -o, which any connection may send.                          *)
Mode(c, r, n, given) ==
  /\ Reading(c)
  /\ r \in Present
  /\ given => n \in Users(RoomOf(r))
  /\ rooms' = [rooms EXCEPT ![ObjectOf(r)].ops =
                 IF given THEN @ \cup {n} ELSE @ \ {n}]
  /\ Broadcasting(c, RoomOf(r), Nobody)
  /\ UNCHANGED <<connVars, clients, channels, drain>>

(* PRIVMSG, NOTICE, UTM, ATM, TOPIC and other modes of a room.             *)
Tell(c, r) ==
  /\ Reading(c)
  /\ r \in Present
  /\ \E excluded \in {c, Nobody} : Broadcasting(c, RoomOf(r), excluded)
  /\ UNCHANGED <<connVars, serverVars, drain>>

(* A message to one connection.  Nothing catches the ConnectionError of a  *)
(* transport that has failed: it ends the sender.                          *)
Message(c, n) ==
  /\ Reading(c)
  /\ clients[n] # Nobody /\ conn[clients[n]] = "open"
  /\ UNCHANGED nick
  /\ IF lost[clients[n]]
     THEN Disconnect(Own(c), clients)
     ELSE /\ Goto(c, [At("direct") EXCEPT !.wait = {clients[n]}])
          /\ UNCHANGED <<conn, serverVars>>
  /\ UNCHANGED <<user, joined, lost, drain>>

(* The transport fails while the sender waits for it.                      *)
MessageFailed(c) ==
  /\ task[Own(c)].at = "direct"
  /\ \E d \in task[Own(c)].wait : lost[d]
  /\ UNCHANGED nick
  /\ Disconnect(Own(c), clients)
  /\ UNCHANGED <<user, joined, lost, drain>>

Told(c) ==
  /\ task[Own(c)].at \in {"told", "direct"}
  /\ Back(c)
  /\ UNCHANGED <<connVars, serverVars, drain>>

(* LIST and WHO hold an iterator over a live dictionary while they reply.  *)
List(c) ==
  /\ Reading(c)
  /\ Present # {}
  /\ Goto(c, [At("list") EXCEPT !.wait = {c}, !.size = Cardinality(Present)])
  /\ UNCHANGED <<connVars, serverVars, drain>>

Who(c, r) ==
  /\ Reading(c)
  /\ r \in Present /\ Users(RoomOf(r)) # {}
  /\ Goto(c, [At("who") EXCEPT !.room = ObjectOf(r), !.wait = {c},
                               !.size = Cardinality(Users(RoomOf(r)))])
  /\ UNCHANGED <<connVars, serverVars, drain>>

(* The iterator raises a RuntimeError if the dictionary's size has changed.*)
Iterated(frame) ==
  IF frame.at = "list" THEN Cardinality(Present)
                       ELSE Cardinality(Users(rooms[frame.room]))

Replied(c) ==
  /\ task[Own(c)].at \in {"list", "who"}
  /\ UNCHANGED nick
  /\ IF Iterated(task[Own(c)]) = task[Own(c)].size
     THEN Back(c) /\ UNCHANGED <<conn, serverVars>>
     ELSE Disconnect(Own(c), clients)
  /\ UNCHANGED <<user, joined, lost, drain>>

(* QUIT, end of input, a failed transport, the handshake deadline, a line  *)
(* that is too long, or an exhausted command budget.                       *)
Leave(c) ==
  /\ task[Own(c)].at = "read"
  /\ UNCHANGED nick
  /\ Disconnect(Own(c), clients)
  /\ UNCHANGED <<user, joined, lost, drain>>

Lose(c) ==
  /\ conn[c] \in {"open", "closed"} /\ ~ lost[c]
  /\ lost' = [lost EXCEPT ![c] = TRUE]
  /\ UNCHANGED <<nick, user, joined, conn, serverVars, task, drain>>
-----------------------------------------------------------------------------
(* The drain.                                                              *)

RequestDrain ==
  /\ drain = "no"
  /\ drain' = "requested"
  /\ UNCHANGED <<connVars, serverVars, task>>

Connected == {c \in Client : task[Own(c)].at \notin {"idle", "end"}}

(* run_server gets to begin_drain (Service says when), which starts a      *)
(* disconnect for every connection.                                        *)
BeginDrain ==
  /\ drain = "requested"
  /\ drain' = "begun"
  /\ task' = [t \in Task |-> IF t[2] = "drain" /\ t[1] \in Connected
                             THEN At("start") ELSE task[t]]
  /\ UNCHANGED <<connVars, serverVars>>

DrainClient(c) ==
  /\ task[Drainer(c)].at = "start"
  /\ UNCHANGED nick
  /\ Disconnect(Drainer(c), clients)
  /\ UNCHANGED <<user, joined, lost, drain>>
-----------------------------------------------------------------------------
Command(c) ==
  \/ \E n \in Nick : NickCmd(c, n) \/ Message(c, n)
  \/ UserCmd(c)
  \/ \E r \in Channel : \/ Join(c, r) \/ JoinNew(c, r) \/ Part(c, r)
                        \/ Tell(c, r) \/ Who(c, r)
  \/ \E r \in Channel, n \in Nick :
       \/ SetCKey(c, r, n)
       \/ \E given \in BOOLEAN : Mode(c, r, n, given)
  \/ List(c)

(* A suspended task goes on.                                               *)
Resume(t) ==
  \/ QuitNext(t)
  \/ /\ t[2] = "own"
     /\ \/ RenameNext(t[1]) \/ PartNext(t[1]) \/ Told(t[1])
        \/ MessageFailed(t[1]) \/ Replied(t[1])

Next ==
  \/ \E c \in Client :
       Connect(c) \/ Command(c) \/ Leave(c) \/ Lose(c) \/ DrainClient(c)
  \/ \E t \in Task : Resume(t) \/ Closed(t)
  \/ RequestDrain
  \/ BeginDrain

Spec == Init /\ [][Next]_vars

(* What a task waits for has happened: each recipient it may be blocked on *)
(* has lost or closed its transport.                                       *)
Released(t) == \A d \in task[t].wait : lost[d] \/ conn[d] = "gone"

(* A released task goes on, a closing connection closes within a second,   *)
(* a connection whose transport is gone reads the end of its input, and    *)
(* run_server and the tasks it starts are run.  No peer has to read, to    *)
(* send or to hang up.                                                     *)
Fairness ==
  /\ \A t \in Task : /\ WF_vars(Released(t) /\ Resume(t))
                     /\ WF_vars(Closed(t))
  /\ \A c \in Client :
       /\ WF_vars(DrainClient(c))
       /\ WF_vars((lost[c] \/ conn[c] = "gone") /\ Leave(c))
  /\ WF_vars(BeginDrain)

FairSpec == Spec /\ Fairness
-----------------------------------------------------------------------------
(* Properties.                                                             *)

(* Every variable has its type.                                            *)
TypeOK ==
  /\ nick \in [Client -> Nick \cup {NoNick}]
  /\ user \in [Client -> BOOLEAN]
  /\ joined \in [Client -> SUBSET Channel]
  /\ conn \in [Client -> {"none", "open", "closed", "gone"}]
  /\ lost \in [Client -> BOOLEAN]
  /\ clients \in [Nick -> Client \cup {Nobody}]
  /\ channels \in [Channel -> Generation \cup {Absent}]
  /\ rooms \in [Object -> Room]
  /\ task \in [Task -> Frame]
  /\ drain \in {"no", "requested", "begun"}

(* An entry of the nickname table always names a connection by the         *)
(* nickname it has, so two connections never share one entry.  Until a     *)
(* drain begins the table is the inverse of the nicknames: no entry        *)
(* outlives its owner, and no open connection has lost its own.            *)
NickUnique ==
  /\ \A n \in Nick : clients[n] # Nobody => nick[clients[n]] = n
  /\ drain # "begun" =>
       /\ \A n \in Nick : clients[n] # Nobody =>
            conn[clients[n]] \in {"open", "closed"}
       /\ \A c \in Client : conn[c] = "open" /\ nick[c] # NoNick =>
            clients[nick[c]] = c

(* The nickname table keeps the promise of Nicknames through renamings     *)
(* that suspend or fail, and disconnections that pause in the middle, as   *)
(* long as no connection a drain has disconnected has a NICK executed: a   *)
(* connection leaves when it has released its nickname, before its         *)
(* transport is gone.                                                      *)
Departed == {c \in Client : conn[c] = "gone" \/
                            \E t \in Task : t[1] = c /\ task[t].at = "close"}
Registry == INSTANCE Nicknames WITH owner <- clients, left <- Departed
ImplementsNicknames == Registry!Spec

(* ROADMAP: operator and client-key maps cannot grow beyond the actual     *)
(* membership, in whatever order rooms are left, renamed and recreated.    *)
MapsWithinMembership ==
  \A o \in Object : rooms[o].ops \cup rooms[o].keys \subseteq Users(rooms[o])

(* Until a drain begins a room and its connections agree on who is in it.  *)
MembershipAgrees ==
  drain # "begun" =>
    /\ \A r \in Present : \A n \in Users(RoomOf(r)) :
         LET c == RoomOf(r).users[n] IN
         nick[c] = n /\ r \in joined[c] /\ conn[c] \in {"open", "closed"}
    /\ \A c \in Client : conn[c] = "open" =>
         \A r \in joined[c] : r \in Present /\ RoomOf(r).users[nick[c]] = c

(* ROADMAP: a third participant does not enter a staging room's state.     *)
TwoPlayers ==
  \A r \in Staging :
    /\ r \in Present => Cardinality(Users(RoomOf(r))) <= ParticipantLimit
    /\ drain # "begun" =>
         Cardinality({c \in Client : conn[c] = "open" /\ r \in joined[c]})
           <= ParticipantLimit

(* Until a drain begins a name loses its room only when that room is left  *)
(* empty: a task that comes back from a broadcast to a room removed        *)
(* meanwhile does not remove the room created under that name since.       *)
OnlyEmptyRoomsGo ==
  [][drain # "begun" => \A r \in Present : channels'[r] # channels[r] =>
       Users(rooms'[ObjectOf(r)]) = {}]_vars

(* A drain disconnects every connection, whatever stalled peers its        *)
(* broadcasts and those of commands under way are waiting for.             *)
DrainDisconnects ==
  drain # "no" ~> \A c \in Client : conn[c] \in {"none", "gone"}

(* Once a drain has begun and until all are gone, some disconnection can   *)
(* go on although no peer takes a byte: it has not started, it only has to *)
(* close, or those its broadcast waits for have gone.  No set of closing   *)
(* connections waits for itself.                                           *)
NeverStuck ==
  drain = "begun" =>
    \/ \A c \in Client : conn[c] \in {"none", "gone"}
    \/ \E t \in Task : \/ task[t].at \in {"start", "close"}
                       \/ task[t].at = "quit" /\ Released(t)

(* ROADMAP: teardown returns collections to zero.  When the drain has      *)
(* disconnected every connection and all tasks have ended, the table of    *)
(* nicknames and that of rooms are empty.                                  *)
TornDown ==
  drain = "begun" /\ (\A t \in Task : task[t].at \in {"idle", "end"}) =>
    Present = {} /\ \A n \in Nick : clients[n] = Nobody
=============================================================================
