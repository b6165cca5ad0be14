--------------------------- MODULE PeerChatProofs ---------------------------
(* Theorems about PeerChat for every value of its constants.               *)
EXTENDS PeerChat, FiniteSetTheorems, TLAPS

Names == [Nick -> Client \cup {Nobody}]

(* What the updates of a room return.                                      *)
LEMMA RoomsTyped ==
  \A room \in Room, c \in Client :
    /\ \A n \in Nick : With(room, n, c) \in Room
    /\ \A n : Without(room, n) \in Room
    /\ \A old, n : n \in Nick => Renamed(room, c, old, n) \in Room
  BY DEF Room, With, Without, Renamed

LEMMA ListenersTyped ==
  \A room \in Room : \A x : Listeners(room, x) \subseteq Client
  BY DEF Listeners, Room, Range

LEMMA ZeroSize == 0 \in Sizes
  BY DEF Sizes

LEMMA FramesTyped ==
  \A a \in Await : At(a) \in Frame
  BY ZeroSize DEF At, Frame

LEMMA PresentTyped ==
  TypeOK => \A r \in Present : /\ r \in Channel
                               /\ ObjectOf(r) \in Object
                               /\ RoomOf(r) \in Room
  BY DEF TypeOK, Present, ObjectOf, RoomOf, Object

LEMMA EmptyTyped == EmptyRoom \in Room
  BY DEF EmptyRoom, Room

LEMMA TasksTyped ==
  /\ \A t \in Task : t[1] \in Client
  /\ \A c \in Client : Own(c) \in Task /\ Drainer(c) \in Task
                       /\ Own(c)[1] = c /\ Drainer(c)[1] = c
  BY DEF Task, Own, Drainer

(* The quit loop keeps the types.                                          *)
LEMMA QuitTyped ==
  \A t \in Task, todo \in SUBSET Channel, names \in Names : \A L :
    TypeOK /\ nick' \in [Client -> Nick \cup {NoNick}]
           /\ QuitRooms(t, todo, L, names)
    => /\ clients' \in Names
       /\ channels' \in [Channel -> Generation \cup {Absent}]
       /\ rooms' \in [Object -> Room]
       /\ task' \in [Task -> Frame]
<1> SUFFICES ASSUME NEW t \in Task, NEW todo \in SUBSET Channel,
                    NEW names \in Names, NEW L, TypeOK,
                    nick' \in [Client -> Nick \cup {NoNick}],
                    QuitRooms(t, todo, L, names)
             PROVE  /\ clients' \in Names
                    /\ channels' \in [Channel -> Generation \cup {Absent}]
                    /\ rooms' \in [Object -> Room]
                    /\ task' \in [Task -> Frame]
  OBVIOUS
<1>1. PICK S \in SUBSET todo :
        /\ LeaveRooms(t[1], L \cup {ObjectOf(r) : r \in S \cap Present})
        /\ \/ /\ S = todo
              /\ clients' = [n \in Nick |-> IF n = nick'[t[1]] THEN Nobody
                                            ELSE names[n]]
              /\ task' = [task EXCEPT ![t] = At("close")]
           \/ \E r \in (todo \ S) \cap Present :
                LET listeners == Listeners(RoomOf(r), t[1]) IN
                /\ listeners # {}
                /\ clients' = names
                /\ task' = [task EXCEPT ![t] =
                     [At("quit") EXCEPT !.room = ObjectOf(r),
                        !.todo = todo \ (S \cup {r}), !.wait = listeners]]
  BY DEF QuitRooms
<1>2. t[1] \in Client
  BY TasksTyped
<1>3. channels' \in [Channel -> Generation \cup {Absent}]
  BY <1>1 DEF LeaveRooms, TypeOK
<1>4. rooms' \in [Object -> Room]
  <2>1. \A o \in Object : rooms[o] \in Room /\ Without(rooms[o], nick'[t[1]]) \in Room
    BY <1>2, RoomsTyped DEF TypeOK
  <2>2. QED BY <1>1, <2>1 DEF LeaveRooms
<1>5. CASE clients' = [n \in Nick |-> IF n = nick'[t[1]] THEN Nobody
                                      ELSE names[n]]
           /\ task' = [task EXCEPT ![t] = At("close")]
  <2>1. At("close") \in Frame
    BY FramesTyped DEF Await
  <2>2. QED BY <1>3, <1>4, <1>5, <2>1 DEF Names, TypeOK
<1>6. ASSUME NEW r \in (todo \ S) \cap Present, clients' = names,
             task' = [task EXCEPT ![t] =
               [At("quit") EXCEPT !.room = ObjectOf(r),
                  !.todo = todo \ (S \cup {r}),
                  !.wait = Listeners(RoomOf(r), t[1])]]
      PROVE  clients' \in Names /\ task' \in [Task -> Frame]
  <2>1. /\ ObjectOf(r) \in Object
        /\ Listeners(RoomOf(r), t[1]) \in SUBSET Client
    BY PresentTyped, ListenersTyped
  <2>2. [At("quit") EXCEPT !.room = ObjectOf(r), !.todo = todo \ (S \cup {r}),
                           !.wait = Listeners(RoomOf(r), t[1])] \in Frame
    BY <2>1, ZeroSize DEF At, Frame, Await
  <2>3. QED BY <1>6, <2>2 DEF TypeOK
<1>7. QED BY <1>1, <1>3, <1>4, <1>5, <1>6

LEMMA DisconnectTyped ==
  \A t \in Task, names \in Names :
    TypeOK /\ nick' \in [Client -> Nick \cup {NoNick}] /\ Disconnect(t, names)
    => /\ conn' \in [Client -> {"none", "open", "closed", "gone"}]
       /\ clients' \in Names
       /\ channels' \in [Channel -> Generation \cup {Absent}]
       /\ rooms' \in [Object -> Room]
       /\ task' \in [Task -> Frame]
<1> SUFFICES ASSUME NEW t \in Task, NEW names \in Names, TypeOK,
                    nick' \in [Client -> Nick \cup {NoNick}],
                    Disconnect(t, names)
             PROVE  /\ conn' \in [Client -> {"none", "open", "closed", "gone"}]
                    /\ clients' \in Names
                    /\ channels' \in [Channel -> Generation \cup {Absent}]
                    /\ rooms' \in [Object -> Room]
                    /\ task' \in [Task -> Frame]
  OBVIOUS
<1>1. t[1] \in Client
  BY TasksTyped
<1>2. CASE conn[t[1]] = "open"
  <2>1. QuitRooms(t, joined[t[1]], {}, names)
    BY <1>2 DEF Disconnect
  <2>2. joined[t[1]] \in SUBSET Channel
    BY <1>1 DEF TypeOK
  <2>3. conn' \in [Client -> {"none", "open", "closed", "gone"}]
    BY <1>1, <1>2 DEF Disconnect, TypeOK
  <2>4. QED BY <2>1, <2>2, <2>3, QuitTyped
<1>3. CASE conn[t[1]] # "open"
  <2>1. At("end") \in Frame
    BY FramesTyped DEF Await
  <2>2. QED BY <1>3, <2>1 DEF Disconnect, TypeOK
<1>4. QED BY <1>2, <1>3

LEMMA GotoTyped ==
  \A c \in Client : TypeOK =>
    /\ \A frame \in Frame : Goto(c, frame) => task' \in [Task -> Frame]
    /\ Back(c) => task' \in [Task -> Frame]
    /\ \A room \in Room : \A x : Broadcasting(c, room, x)
         => task' \in [Task -> Frame]
<1> SUFFICES ASSUME NEW c \in Client, TypeOK
             PROVE  /\ \A frame \in Frame : Goto(c, frame) => task' \in [Task -> Frame]
                    /\ Back(c) => task' \in [Task -> Frame]
                    /\ \A room \in Room : \A x : Broadcasting(c, room, x)
                         => task' \in [Task -> Frame]
  OBVIOUS
<1>1. \A frame \in Frame : Goto(c, frame) => task' \in [Task -> Frame]
  BY TasksTyped DEF Goto, TypeOK
<1>2. \A a \in Await : At(a) \in Frame
  BY FramesTyped
<1>3. Back(c) => task' \in [Task -> Frame]
  <2>1. At(IF conn[c] = "open" THEN "read" ELSE "end") \in Frame
    BY <1>2 DEF Await
  <2>2. QED BY <1>1, <2>1 DEF Back
<1>4. ASSUME NEW room \in Room, NEW x
      PROVE  [At("told") EXCEPT !.wait = Listeners(room, x)] \in Frame
  <2>1. Listeners(room, x) \in SUBSET Client
    BY ListenersTyped
  <2>2. QED BY <2>1, ZeroSize DEF At, Frame, Await
<1>5. QED BY <1>1, <1>3, <1>4 DEF Broadcasting

LEMMA RenameTyped ==
  \A c \in Client, todo \in SUBSET Channel, names \in Names :
    \A r \in Channel, old \in Nick \cup {NoNick} :
      /\ TypeOK /\ nick' \in [Client -> Nick \cup {NoNick}] /\ nick'[c] \in Nick
      /\ RenameIn(c, r, todo, old, names)
      => /\ conn' \in [Client -> {"none", "open", "closed", "gone"}]
         /\ clients' \in Names
         /\ channels' \in [Channel -> Generation \cup {Absent}]
         /\ rooms' \in [Object -> Room]
         /\ task' \in [Task -> Frame]
<1> SUFFICES ASSUME NEW c \in Client, NEW todo \in SUBSET Channel,
                    NEW names \in Names, NEW r \in Channel,
                    NEW old \in Nick \cup {NoNick}, TypeOK,
                    nick' \in [Client -> Nick \cup {NoNick}], nick'[c] \in Nick,
                    RenameIn(c, r, todo, old, names)
             PROVE  /\ conn' \in [Client -> {"none", "open", "closed", "gone"}]
                    /\ clients' \in Names
                    /\ channels' \in [Channel -> Generation \cup {Absent}]
                    /\ rooms' \in [Object -> Room]
                    /\ task' \in [Task -> Frame]
  OBVIOUS
<1>1. CASE r \in Present
  <2> DEFINE room == Renamed(RoomOf(r), c, old, nick'[c])
             frame == [At("rename") EXCEPT !.todo = todo, !.old = old,
                                           !.wait = Listeners(room, Nobody)]
  <2>1. room \in Room /\ ObjectOf(r) \in Object
    BY <1>1, PresentTyped, RoomsTyped
  <2>2. Listeners(room, Nobody) \in SUBSET Client
    BY <2>1, ListenersTyped
  <2>3. frame \in Frame
    BY <2>2, ZeroSize DEF At, Frame, Await
  <2>4. /\ rooms' = [rooms EXCEPT ![ObjectOf(r)] = room]
        /\ clients' = names
        /\ Goto(c, frame)
        /\ UNCHANGED <<conn, channels>>
    BY <1>1 DEF RenameIn
  <2>5. task' \in [Task -> Frame]
    BY <2>3, <2>4, GotoTyped
  <2>6. rooms' \in [Object -> Room]
    BY <2>1, <2>4 DEF TypeOK
  <2>7. QED BY <2>4, <2>5, <2>6 DEF TypeOK
<1>2. CASE r \notin Present
  <2>1. Disconnect(Own(c), names)
    BY <1>2 DEF RenameIn
  <2>2. QED BY <2>1, DisconnectTyped, TasksTyped
<1>3. QED BY <1>1, <1>2

LEMMA EnterTyped ==
  \A c \in Client, r \in Channel, g \in Generation, room \in Room :
    TypeOK /\ nick[c] \in Nick /\ Enter(c, r, g, room) => TypeOK'
<1> SUFFICES ASSUME NEW c \in Client, NEW r \in Channel, NEW g \in Generation,
                    NEW room \in Room, TypeOK, nick[c] \in Nick,
                    Enter(c, r, g, room)
             PROVE  TypeOK'
  OBVIOUS
<1>1. With(room, nick[c], c) \in Room
  BY RoomsTyped
<1>2. <<r, g>> \in Object
  BY DEF Object
<1>3. rooms' \in [Object -> Room]
  BY <1>1, <1>2 DEF Enter, TypeOK
<1>4. task' \in [Task -> Frame]
  BY <1>1, GotoTyped DEF Enter
<1>5. joined' \in [Client -> SUBSET Channel]
  BY DEF Enter, TypeOK
<1>6. channels' \in [Channel -> Generation \cup {Absent}]
  BY DEF Enter, TypeOK
<1>7. QED BY <1>3, <1>4, <1>5, <1>6 DEF Enter, TypeOK

LEMMA InitTyped == Init => TypeOK
<1> SUFFICES ASSUME Init PROVE TypeOK
  OBVIOUS
<1>1. rooms \in [Object -> Room]
  BY EmptyTyped DEF Init
<1>2. task \in [Task -> Frame]
  <2>1. \A t \in Task : At(IF t[2] = "own" THEN "idle" ELSE "end") \in Frame
    BY FramesTyped DEF Await
  <2>2. QED BY <2>1 DEF Init
<1>3. QED BY <1>1, <1>2 DEF Init, TypeOK

(* A step that disconnects a connection or goes on.                        *)
LEMMA CommandTyped ==
  ASSUME TypeOK, NEW c \in Client, Command(c)
  PROVE  TypeOK'
<1> USE DEF Names
<1>1. ASSUME NEW n \in Nick, NickCmd(c, n) PROVE TypeOK'
  <2>1. /\ nick' \in [Client -> Nick \cup {NoNick}] /\ nick'[c] = n
        /\ Renaming(c, n) \in Names
    BY <1>1 DEF NickCmd, TypeOK, Renaming
  <2>2. CASE nick[c] = NoNick \/ joined[c] = {}
    <3>1. Back(c) /\ clients' = Renaming(c, n) /\ UNCHANGED <<conn, channels, rooms>>
      BY <1>1, <2>2 DEF NickCmd
    <3>2. task' \in [Task -> Frame]
      BY <3>1, GotoTyped
    <3>3. QED BY <1>1, <2>1, <3>1, <3>2 DEF NickCmd, TypeOK
  <2>3. CASE ~ (nick[c] = NoNick \/ joined[c] = {})
    <3>1. PICK r \in joined[c] :
            RenameIn(c, r, joined[c] \ {r}, nick[c], Renaming(c, n))
      BY <1>1, <2>3 DEF NickCmd
    <3>2. r \in Channel /\ joined[c] \ {r} \in SUBSET Channel
          /\ nick[c] \in Nick \cup {NoNick}
      BY DEF TypeOK
    <3>3. /\ conn' \in [Client -> {"none", "open", "closed", "gone"}]
          /\ clients' \in Names
          /\ channels' \in [Channel -> Generation \cup {Absent}]
          /\ rooms' \in [Object -> Room]
          /\ task' \in [Task -> Frame]
      BY <2>1, <3>1, <3>2, RenameTyped
    <3>4. QED BY <1>1, <2>1, <3>3 DEF NickCmd, TypeOK
  <2>4. QED BY <2>2, <2>3
<1>2. ASSUME NEW n \in Nick, Message(c, n) PROVE TypeOK'
  <2>1. nick' \in [Client -> Nick \cup {NoNick}] /\ clients \in Names
    BY <1>2 DEF Message, TypeOK
  <2>2. CASE lost[clients[n]]
    <3>1. Disconnect(Own(c), clients)
      BY <1>2, <2>2 DEF Message
    <3>2. QED BY <1>2, <2>1, <3>1, DisconnectTyped, TasksTyped DEF Message, TypeOK
  <2>3. CASE ~ lost[clients[n]]
    <3>1. {clients[n]} \in SUBSET Client
      BY <1>2 DEF Message, TypeOK
    <3>2. [At("direct") EXCEPT !.wait = {clients[n]}] \in Frame
      BY <3>1, ZeroSize DEF At, Frame, Await
    <3>3. task' \in [Task -> Frame]
      BY <1>2, <2>3, <3>2, GotoTyped DEF Message
    <3>4. QED BY <1>2, <2>3, <3>3 DEF Message, TypeOK, serverVars
  <2>4. QED BY <2>2, <2>3
<1>3. ASSUME UserCmd(c) PROVE TypeOK'
  BY <1>3, GotoTyped DEF UserCmd, TypeOK, serverVars
<1>4. ASSUME NEW r \in Channel, Join(c, r) PROVE TypeOK'
  <2>1. nick[c] \in Nick /\ channels[r] \in Generation /\ RoomOf(r) \in Room
    BY <1>4, PresentTyped DEF Join, Welcomed, TypeOK, Present
  <2>2. QED BY <1>4, <2>1, EnterTyped DEF Join
<1>5. ASSUME NEW r \in Channel, JoinNew(c, r) PROVE TypeOK'
  <2>1. PICK g \in Generation : Enter(c, r, g, EmptyRoom)
    BY <1>5 DEF JoinNew
  <2>2. nick[c] \in Nick
    BY <1>5 DEF JoinNew, Welcomed, TypeOK
  <2>3. QED BY <2>1, <2>2, EnterTyped, EmptyTyped
<1>6. ASSUME NEW r \in Channel, Part(c, r) PROVE TypeOK'
  <2>1. ObjectOf(r) \in Object /\ RoomOf(r) \in Room
    BY <1>6, PresentTyped DEF Part, In
  <2>2. Listeners(RoomOf(r), Nobody) \in SUBSET Client
    BY <2>1, ListenersTyped
  <2>3. [At("part") EXCEPT !.room = ObjectOf(r),
           !.wait = Listeners(RoomOf(r), Nobody)] \in Frame
    BY <2>1, <2>2, ZeroSize DEF At, Frame, Await
  <2>4. task' \in [Task -> Frame]
    BY <1>6, <2>3, GotoTyped DEF Part
  <2>5. QED BY <1>6, <2>4 DEF Part, TypeOK, connVars, serverVars
<1>7. ASSUME NEW r \in Channel, NEW n \in Nick, SetCKey(c, r, n) PROVE TypeOK'
  <2>1. ObjectOf(r) \in Object /\ RoomOf(r) \in Room
    BY <1>7, PresentTyped DEF SetCKey
  <2>2. nick[clients[n]] \in Nick
    BY <1>7 DEF SetCKey, Users
  <2>3. rooms' \in [Object -> Room]
    BY <1>7, <2>1, <2>2 DEF SetCKey, TypeOK, Room
  <2>4. task' \in [Task -> Frame]
    BY <1>7, <2>1, GotoTyped DEF SetCKey
  <2>5. QED BY <1>7, <2>3, <2>4 DEF SetCKey, TypeOK, connVars
<1>8. ASSUME NEW r \in Channel, NEW n \in Nick, NEW given \in BOOLEAN,
             Mode(c, r, n, given) PROVE TypeOK'
  <2>1. ObjectOf(r) \in Object /\ RoomOf(r) \in Room
    BY <1>8, PresentTyped DEF Mode
  <2>2. rooms' \in [Object -> Room]
    BY <1>8, <2>1 DEF Mode, TypeOK, Room
  <2>3. task' \in [Task -> Frame]
    BY <1>8, <2>1, GotoTyped DEF Mode
  <2>4. QED BY <1>8, <2>2, <2>3 DEF Mode, TypeOK, connVars
<1>9. ASSUME NEW r \in Channel, Tell(c, r) PROVE TypeOK'
  <2>1. RoomOf(r) \in Room
    BY <1>9, PresentTyped DEF Tell
  <2>2. task' \in [Task -> Frame]
    BY <1>9, <2>1, GotoTyped DEF Tell
  <2>3. QED BY <1>9, <2>2 DEF Tell, TypeOK, connVars, serverVars
<1>10. ASSUME NEW r \in Channel, Who(c, r) PROVE TypeOK'
  <2>1. ObjectOf(r) \in Object /\ Cardinality(Users(RoomOf(r))) \in Sizes
    BY <1>10, PresentTyped DEF Who, Users, Sizes
  <2>2. [At("who") EXCEPT !.room = ObjectOf(r), !.wait = {c},
           !.size = Cardinality(Users(RoomOf(r)))] \in Frame
    BY <2>1, ZeroSize DEF At, Frame, Await
  <2>3. task' \in [Task -> Frame]
    BY <1>10, <2>2, GotoTyped DEF Who
  <2>4. QED BY <1>10, <2>3 DEF Who, TypeOK, connVars, serverVars
<1>11. ASSUME List(c) PROVE TypeOK'
  <2>1. Cardinality(Present) \in Sizes
    BY DEF Present, Sizes
  <2>2. [At("list") EXCEPT !.wait = {c}, !.size = Cardinality(Present)] \in Frame
    BY <2>1, ZeroSize DEF At, Frame, Await
  <2>3. task' \in [Task -> Frame]
    BY <1>11, <2>2, GotoTyped DEF List
  <2>4. QED BY <1>11, <2>3 DEF List, TypeOK, connVars, serverVars
<1>12. QED
  BY <1>1, <1>2, <1>3, <1>4, <1>5, <1>6, <1>7, <1>8, <1>9, <1>10, <1>11
  DEF Command

(* A task at "rename" has a nickname: nothing else in TypeOK says so, and  *)
(* without it the renaming loop would not keep the type of client_keys.    *)
RenameNamed == \A c \in Client : task[Own(c)].at = "rename" => nick[c] \in Nick

LEMMA ResumeTyped ==
  ASSUME TypeOK, RenameNamed, NEW t \in Task, Resume(t)
  PROVE  TypeOK'
<1> USE DEF Names
<1>1. t[1] \in Client /\ (t[2] = "own" => t = Own(t[1]))
  BY DEF Task, Own
<1>2. CASE QuitNext(t)
  <2>1. /\ QuitRooms(t, task[t].todo, {task[t].room}, clients)
        /\ task[t].todo \in SUBSET Channel /\ clients \in Names
        /\ nick' \in [Client -> Nick \cup {NoNick}]
    BY <1>2 DEF QuitNext, TypeOK, Frame
  <2>2. /\ clients' \in Names
        /\ channels' \in [Channel -> Generation \cup {Absent}]
        /\ rooms' \in [Object -> Room]
        /\ task' \in [Task -> Frame]
    BY <2>1, QuitTyped
  <2>3. QED BY <1>2, <2>1, <2>2 DEF QuitNext, TypeOK
<1>3. ASSUME NEW c \in Client, Disconnect(Own(c), clients),
             UNCHANGED <<nick, user, joined, lost, drain>>
      PROVE  TypeOK'
  <2>1. nick' \in [Client -> Nick \cup {NoNick}] /\ clients \in Names
    BY <1>3 DEF TypeOK
  <2>2. QED BY <1>3, <2>1, DisconnectTyped, TasksTyped DEF TypeOK
<1>4. ASSUME NEW c \in Client, RenameNext(c) PROVE TypeOK'
  <2>1. CASE task[Own(c)].todo = {}
    BY <1>4, <2>1, GotoTyped DEF RenameNext, TypeOK, serverVars
  <2>2. CASE task[Own(c)].todo # {}
    <3>1. PICK r \in task[Own(c)].todo :
            RenameIn(c, r, task[Own(c)].todo \ {r}, task[Own(c)].old, clients)
      BY <1>4, <2>2 DEF RenameNext
    <3>2. task[Own(c)] \in Frame
      BY TasksTyped DEF TypeOK
    <3>3. /\ r \in Channel /\ task[Own(c)].todo \ {r} \in SUBSET Channel
          /\ task[Own(c)].old \in Nick \cup {NoNick}
          /\ clients \in Names
      BY <3>2 DEF Frame, TypeOK
    <3>4. nick' \in [Client -> Nick \cup {NoNick}] /\ nick'[c] \in Nick
      BY <1>4 DEF RenameNext, RenameNamed, TypeOK
    <3>5. /\ conn' \in [Client -> {"none", "open", "closed", "gone"}]
          /\ clients' \in Names
          /\ channels' \in [Channel -> Generation \cup {Absent}]
          /\ rooms' \in [Object -> Room]
          /\ task' \in [Task -> Frame]
      BY <3>1, <3>3, <3>4, RenameTyped
    <3>6. QED BY <1>4, <3>4, <3>5 DEF RenameNext, TypeOK
  <2>3. QED BY <2>1, <2>2
<1>5. ASSUME NEW c \in Client, PartNext(c) PROVE TypeOK'
  <2>1. channels' \in [Channel -> Generation \cup {Absent}]
    BY <1>5 DEF PartNext, LeaveRooms, TypeOK
  <2>2. rooms' \in [Object -> Room]
    <3>1. \A o \in Object : /\ rooms[o] \in Room
                            /\ Without(rooms[o], nick'[c]) \in Room
      BY RoomsTyped DEF TypeOK
    <3>2. QED BY <1>5, <3>1 DEF PartNext, LeaveRooms
  <2>3. task' \in [Task -> Frame]
    BY <1>5, GotoTyped DEF PartNext
  <2>4. QED BY <1>5, <2>1, <2>2, <2>3 DEF PartNext, TypeOK
<1>6. ASSUME NEW c \in Client, Told(c) PROVE TypeOK'
  BY <1>6, GotoTyped DEF Told, TypeOK, connVars, serverVars
<1>7. ASSUME NEW c \in Client, MessageFailed(c) PROVE TypeOK'
  BY <1>3, <1>7 DEF MessageFailed
<1>8. ASSUME NEW c \in Client, Replied(c) PROVE TypeOK'
  <2>1. CASE Iterated(task[Own(c)]) = task[Own(c)].size
    BY <1>8, <2>1, GotoTyped DEF Replied, TypeOK, serverVars
  <2>2. CASE Iterated(task[Own(c)]) # task[Own(c)].size
    BY <1>3, <1>8, <2>2 DEF Replied
  <2>3. QED BY <2>1, <2>2
<1>9. QED
  BY <1>1, <1>2, <1>4, <1>5, <1>6, <1>7, <1>8 DEF Resume

LEMMA NextTyped ==
  ASSUME TypeOK, RenameNamed, [Next]_vars
  PROVE  TypeOK'
<1>1. ASSUME NEW c \in Client, Connect(c) PROVE TypeOK'
  <2>1. task' \in [Task -> Frame]
    BY <1>1, FramesTyped DEF Connect, TypeOK, Await
  <2>2. QED BY <1>1, <2>1 DEF Connect, TypeOK, serverVars
<1>2. ASSUME NEW t \in Task, Disconnect(t, clients),
             UNCHANGED <<nick, user, joined, lost, drain>>
      PROVE  TypeOK'
  <2>1. nick' \in [Client -> Nick \cup {NoNick}] /\ clients \in Names
    BY <1>2 DEF TypeOK, Names
  <2>2. QED BY <1>2, <2>1, DisconnectTyped DEF TypeOK, Names
<1>3. ASSUME NEW c \in Client, Leave(c) PROVE TypeOK'
  BY <1>2, <1>3, TasksTyped DEF Leave
<1>4. ASSUME NEW c \in Client, Lose(c) PROVE TypeOK'
  BY <1>4 DEF Lose, TypeOK, serverVars
<1>5. ASSUME NEW c \in Client, DrainClient(c) PROVE TypeOK'
  BY <1>2, <1>5, TasksTyped DEF DrainClient
<1>6. ASSUME NEW t \in Task, Closed(t) PROVE TypeOK'
  <2>1. task' \in [Task -> Frame]
    BY <1>6, FramesTyped DEF Closed, TypeOK, Await
  <2>2. QED BY <1>6, <2>1, TasksTyped DEF Closed, TypeOK, serverVars
<1>7. CASE RequestDrain
  BY <1>7 DEF RequestDrain, TypeOK, connVars, serverVars
<1>8. CASE BeginDrain
  <2>1. task' \in [Task -> Frame]
    BY <1>8, FramesTyped DEF BeginDrain, TypeOK, Await
  <2>2. QED BY <1>8, <2>1 DEF BeginDrain, TypeOK, connVars, serverVars
<1>9. CASE UNCHANGED vars
  BY <1>9 DEF vars, TypeOK, connVars, serverVars
<1>10. QED
  BY <1>1, <1>3, <1>4, <1>5, <1>6, <1>7, <1>8, <1>9, CommandTyped, ResumeTyped
  DEF Next
-----------------------------------------------------------------------------
(* Where a step leaves the tasks.                                          *)

Others(t) == \A u \in Task : u # t => task'[u] = task[u]

LEMMA QuitMoves ==
  \A t \in Task : \A todo, L, names : TypeOK /\ QuitRooms(t, todo, L, names) =>
    task'[t].at \in {"quit", "close"} /\ Others(t)
<1> SUFFICES ASSUME NEW t \in Task, NEW todo, NEW L, NEW names, TypeOK,
                    QuitRooms(t, todo, L, names)
             PROVE  task'[t].at \in {"quit", "close"} /\ Others(t)
  OBVIOUS
<1>1. /\ At("close").at = "close"
      /\ \A o, rest, waiting :
           [At("quit") EXCEPT !.room = o, !.todo = rest,
                              !.wait = waiting].at = "quit"
  BY DEF At
<1>2. \E frame : task' = [task EXCEPT ![t] = frame]
                 /\ frame.at \in {"quit", "close"}
  <2>1. CASE task' = [task EXCEPT ![t] = At("close")]
    BY <1>1, <2>1
  <2>2. ASSUME NEW o, NEW rest, NEW waiting,
               task' = [task EXCEPT ![t] =
                 [At("quit") EXCEPT !.room = o, !.todo = rest, !.wait = waiting]]
        PROVE  \E frame : task' = [task EXCEPT ![t] = frame]
                          /\ frame.at \in {"quit", "close"}
    <3> DEFINE f == [At("quit") EXCEPT !.room = o, !.todo = rest, !.wait = waiting]
    <3>1. f.at = "quit" /\ task' = [task EXCEPT ![t] = f]
      BY <1>1, <2>2
    <3> HIDE DEF f
    <3>2. QED BY <3>1
  <2>3. \/ task' = [task EXCEPT ![t] = At("close")]
        \/ \E S \in SUBSET todo : \E r \in (todo \ S) \cap Present :
             task' = [task EXCEPT ![t] =
               [At("quit") EXCEPT !.room = ObjectOf(r),
                  !.todo = todo \ (S \cup {r}),
                  !.wait = Listeners(RoomOf(r), t[1])]]
    BY DEF QuitRooms
  <2>4. QED BY <2>1, <2>2, <2>3
<1>3. QED BY <1>2 DEF TypeOK, Others

LEMMA DisconnectMoves ==
  \A t \in Task : \A names : TypeOK /\ Disconnect(t, names) =>
    task'[t].at \in {"quit", "close", "end"} /\ Others(t)
<1> SUFFICES ASSUME NEW t \in Task, NEW names, TypeOK, Disconnect(t, names)
             PROVE  task'[t].at \in {"quit", "close", "end"} /\ Others(t)
  OBVIOUS
<1>1. CASE conn[t[1]] = "open"
  BY <1>1, QuitMoves DEF Disconnect
<1>2. CASE conn[t[1]] # "open"
  BY <1>2 DEF Disconnect, At, TypeOK, Others
<1>3. QED BY <1>1, <1>2

LEMMA GotoMoves ==
  \A c \in Client : TypeOK =>
    /\ \A frame : Goto(c, frame) => task'[Own(c)] = frame /\ Others(Own(c))
    /\ Back(c) => task'[Own(c)].at \in {"read", "end"} /\ Others(Own(c))
    /\ \A room, x : Broadcasting(c, room, x)
         => task'[Own(c)].at = "told" /\ Others(Own(c))
<1> SUFFICES ASSUME NEW c \in Client, TypeOK
             PROVE  /\ \A frame : Goto(c, frame) => task'[Own(c)] = frame /\ Others(Own(c))
                    /\ Back(c) => task'[Own(c)].at \in {"read", "end"} /\ Others(Own(c))
                    /\ \A room, x : Broadcasting(c, room, x)
                         => task'[Own(c)].at = "told" /\ Others(Own(c))
  OBVIOUS
<1>1. \A frame : Goto(c, frame) => task'[Own(c)] = frame /\ Others(Own(c))
  BY TasksTyped DEF Goto, TypeOK, Others
<1>2. QED BY <1>1 DEF Back, Broadcasting, At

LEMMA RenameMoves ==
  \A c \in Client : \A r, todo, old, names :
    TypeOK /\ RenameIn(c, r, todo, old, names) =>
      task'[Own(c)].at \in {"rename", "quit", "close", "end"} /\ Others(Own(c))
<1> SUFFICES ASSUME NEW c \in Client, NEW r, NEW todo, NEW old, NEW names,
                    TypeOK, RenameIn(c, r, todo, old, names)
             PROVE  /\ task'[Own(c)].at \in {"rename", "quit", "close", "end"}
                    /\ Others(Own(c))
  OBVIOUS
<1>1. CASE r \in Present
  <2>1. \A waiting : [At("rename") EXCEPT !.todo = todo, !.old = old,
                                          !.wait = waiting].at = "rename"
    BY DEF At
  <2>2. PICK waiting : Goto(c, [At("rename") EXCEPT !.todo = todo, !.old = old,
                                                    !.wait = waiting])
    BY <1>1 DEF RenameIn
  <2>3. QED BY <2>1, <2>2, GotoMoves
<1>2. CASE r \notin Present
  BY <1>2, DisconnectMoves, TasksTyped DEF RenameIn
<1>3. QED BY <1>1, <1>2

(* A nickname, once chosen, is only replaced by another.                   *)
LEMMA NickKept ==
  ASSUME TypeOK, [Next]_vars
  PROVE  \A c \in Client : nick'[c] \in Nick \/ nick'[c] = nick[c]
<1>1. ASSUME NEW c \in Client, NEW n \in Nick, NickCmd(c, n)
      PROVE  \A d \in Client : nick'[d] \in Nick \/ nick'[d] = nick[d]
  BY <1>1 DEF NickCmd, TypeOK
<1>2. CASE UNCHANGED nick
  BY <1>2
<1>3. ASSUME NEW c \in Client, Command(c)
      PROVE  UNCHANGED nick \/ \E n \in Nick : NickCmd(c, n)
  BY <1>3 DEF Command, Message, UserCmd, Join, JoinNew, Part, Tell, Who, SetCKey,
     Mode, List, Enter, connVars
<1>4. ASSUME NEW t \in Task, Resume(t) PROVE UNCHANGED nick
  BY <1>4 DEF Resume, QuitNext, RenameNext, PartNext, Told, MessageFailed,
     Replied, connVars
<1>5. QED
  BY <1>1, <1>2, <1>3, <1>4 DEF Next, vars, connVars, Connect, Leave, Lose,
     DrainClient, Closed, RequestDrain, BeginDrain

(* RenameNamed is kept: only NickCmd takes a task to "rename".             *)
LEMMA NamedKept ==
  ASSUME TypeOK, RenameNamed, [Next]_vars
  PROVE  RenameNamed'
<1> SUFFICES ASSUME NEW d \in Client, task'[Own(d)].at = "rename"
             PROVE  nick'[d] \in Nick
  BY DEF RenameNamed
<1>1. ASSUME NEW c \in Client, NEW n \in Nick, NickCmd(c, n), c = d
      PROVE  nick'[d] \in Nick
  BY <1>1 DEF NickCmd, TypeOK
<1>2. ASSUME NEW t \in Task, Others(t),
             task'[t].at # "rename" \/ task[t].at = "rename"
      PROVE  task[Own(d)].at = "rename"
  BY <1>2, TasksTyped DEF Others
<1>3. CASE task[Own(d)].at = "rename"
  BY <1>3, NickKept DEF RenameNamed, TypeOK
<1>4. ASSUME task[Own(d)].at # "rename"
      PROVE  \E n \in Nick : NickCmd(d, n)
  <2>1. ASSUME NEW c \in Client, Connect(c) PROVE FALSE
    BY <1>4, <2>1, TasksTyped DEF Connect, TypeOK, At
  <2>2. ASSUME NEW c \in Client, NEW n \in Nick, NickCmd(c, n), c # d
        PROVE  FALSE
    <3>1. Others(Own(c))
      BY <2>2, GotoMoves, RenameMoves DEF NickCmd
    <3>2. Own(c) # Own(d)
      BY <2>2 DEF Own
    <3>3. QED BY <1>4, <3>1, <3>2, TasksTyped DEF Others
  <2>3. ASSUME NEW c \in Client, NEW frame, Goto(c, frame), frame.at # "rename"
        PROVE  FALSE
    BY <1>2, <1>4, <2>3, GotoMoves, TasksTyped
  <2>4. ASSUME NEW c \in Client, Back(c) PROVE FALSE
    BY <1>2, <1>4, <2>4, GotoMoves, TasksTyped
  <2>5. ASSUME NEW t \in Task, NEW names, Disconnect(t, names) PROVE FALSE
    BY <1>2, <1>4, <2>5, DisconnectMoves
  <2>6. ASSUME NEW c \in Client, NEW room, NEW x, Broadcasting(c, room, x)
        PROVE  FALSE
    BY <1>2, <1>4, <2>6, GotoMoves, TasksTyped
  <2>7. ASSUME NEW c \in Client, Command(c) PROVE \E n \in Nick : NickCmd(d, n)
    <3>1. ASSUME NEW n \in Nick, Message(c, n) PROVE FALSE
      BY <2>3, <2>5, <3>1, TasksTyped DEF Message, At
    <3>2. ASSUME NEW r \in Channel,
                 Join(c, r) \/ JoinNew(c, r) \/ Tell(c, r)
          PROVE  FALSE
      BY <2>6, <3>2 DEF Join, JoinNew, Enter, Tell
    <3>3. ASSUME NEW r \in Channel, Part(c, r) \/ Who(c, r) PROVE FALSE
      BY <2>3, <3>3 DEF Part, Who, At
    <3>4. ASSUME NEW r \in Channel, NEW n \in Nick, NEW given \in BOOLEAN,
                 SetCKey(c, r, n) \/ Mode(c, r, n, given)
          PROVE  FALSE
      BY <2>6, <3>4 DEF SetCKey, Mode
    <3>5. ASSUME List(c) PROVE FALSE
      BY <2>3, <3>5 DEF List, At
    <3>6. ASSUME UserCmd(c) PROVE FALSE
      BY <2>4, <3>6 DEF UserCmd
    <3>7. QED
      BY <2>2, <2>7, <3>1, <3>2, <3>3, <3>4, <3>5, <3>6 DEF Command
  <2>8. ASSUME NEW t \in Task, Resume(t) PROVE FALSE
    <3>1. CASE QuitNext(t)
      BY <1>2, <1>4, <3>1, QuitMoves DEF QuitNext
    <3>2. ASSUME NEW c \in Client, RenameNext(c) PROVE FALSE
      <4>1. Others(Own(c))
        BY <3>2, GotoMoves, RenameMoves DEF RenameNext
      <4>2. QED BY <1>2, <1>4, <3>2, <4>1, TasksTyped DEF RenameNext
    <3>3. ASSUME NEW c \in Client,
                 PartNext(c) \/ Told(c) \/ MessageFailed(c) \/ Replied(c)
          PROVE  FALSE
      BY <2>4, <2>5, <3>3, TasksTyped
      DEF PartNext, Told, MessageFailed, Replied
    <3>4. t[1] \in Client
      BY TasksTyped
    <3>5. QED BY <2>8, <3>1, <3>2, <3>3, <3>4 DEF Resume
  <2>9. ASSUME NEW t \in Task, Closed(t) PROVE FALSE
    BY <1>4, <2>9 DEF Closed, TypeOK, At
  <2>10. ASSUME NEW c \in Client, Leave(c) \/ DrainClient(c) PROVE FALSE
    BY <2>5, <2>10, TasksTyped DEF Leave, DrainClient
  <2>11. ASSUME NEW c \in Client, Lose(c) PROVE FALSE
    BY <1>4, <2>11 DEF Lose
  <2>12. CASE BeginDrain
    <3>1. Own(d) \in Task /\ Own(d)[2] = "own"
      BY DEF Task, Own
    <3>2. task'[Own(d)] = task[Own(d)]
      BY <2>12, <3>1 DEF BeginDrain
    <3>3. QED BY <1>4, <3>2
  <2>13. CASE RequestDrain \/ UNCHANGED vars
    BY <1>4, <2>13 DEF RequestDrain, vars
  <2>14. QED
    BY <2>1, <2>7, <2>8, <2>9, <2>10, <2>11, <2>12, <2>13 DEF Next
<1>5. QED BY <1>1, <1>3, <1>4

(* Type correctness: whatever order commands, disconnections, failures and *)
(* the drain come in, every table and every frame keeps its shape.         *)
THEOREM TypeCorrect == Spec => []TypeOK
<1>1. Init => TypeOK /\ RenameNamed
  BY InitTyped, TasksTyped DEF Init, RenameNamed, At
<1>2. TypeOK /\ RenameNamed /\ [Next]_vars => TypeOK' /\ RenameNamed'
  BY NextTyped, NamedKept
<1>3. QED BY <1>1, <1>2, PTL DEF Spec
-----------------------------------------------------------------------------
(* The maps of a room and its membership.                                  *)

Within(room) == room.ops \cup room.keys \subseteq Users(room)

(* Every update of a room that adds a member, takes one away or renames    *)
(* one leaves its maps within its membership.                              *)
LEMMA UpdatesWithin ==
  \A room \in Room, c \in Client : Within(room) =>
    /\ \A n \in Nick : Within(With(room, n, c))
    /\ \A n : Within(Without(room, n))
    /\ \A n \in Nick, old \in Nick \cup {NoNick} : Within(Renamed(room, c, old, n))
<1> SUFFICES ASSUME NEW room \in Room, NEW c \in Client, Within(room)
             PROVE  /\ \A n \in Nick : Within(With(room, n, c))
                    /\ \A n : Within(Without(room, n))
                    /\ \A n \in Nick, old \in Nick \cup {NoNick} :
                         Within(Renamed(room, c, old, n))
  OBVIOUS
<1>1. c # Nobody
  BY PeerChatConstants
<1>2. /\ room.users \in [Nick -> Client \cup {Nobody}]
      /\ room.ops \subseteq Nick /\ room.keys \subseteq Nick
  BY DEF Room
<1>3. ASSUME NEW n \in Nick PROVE Within(With(room, n, c))
  BY <1>1, <1>2 DEF Within, With, Users
<1>4. ASSUME NEW n PROVE Within(Without(room, n))
  BY <1>2 DEF Within, Without, Users
<1>5. ASSUME NEW n \in Nick, NEW old \in Nick \cup {NoNick}
      PROVE  Within(Renamed(room, c, old, n))
  BY <1>1, <1>2 DEF Within, Renamed, Users
<1>6. QED BY <1>3, <1>4, <1>5

LEMMA LeaveWithin ==
  \A c \in Client : \A L :
    TypeOK /\ MapsWithinMembership /\ LeaveRooms(c, L) => MapsWithinMembership'
<1> SUFFICES ASSUME NEW c \in Client, NEW L, TypeOK, MapsWithinMembership,
                    LeaveRooms(c, L), NEW o \in Object
             PROVE  Within(rooms'[o])
  BY DEF MapsWithinMembership, Within, Users
<1>1. rooms[o] \in Room /\ Within(rooms[o])
  BY DEF TypeOK, MapsWithinMembership, Within
<1>2. Within(Without(rooms[o], nick'[c]))
  BY <1>1, UpdatesWithin
<1>3. rooms'[o] = IF o \in L THEN Without(rooms[o], nick'[c]) ELSE rooms[o]
  BY DEF LeaveRooms
<1>4. QED BY <1>1, <1>2, <1>3

LEMMA PutWithin ==
  \A o \in Object, room \in Room :
    /\ TypeOK /\ MapsWithinMembership
    /\ Within(room) /\ rooms' = [rooms EXCEPT ![o] = room]
    => MapsWithinMembership'
<1> SUFFICES ASSUME NEW o \in Object, NEW room \in Room, TypeOK,
                    MapsWithinMembership, Within(room),
                    rooms' = [rooms EXCEPT ![o] = room], NEW p \in Object
             PROVE  Within(rooms'[p])
  BY DEF MapsWithinMembership, Within, Users
<1>1. rooms'[p] \in {room, rooms[p]}
  BY DEF TypeOK
<1>2. Within(rooms[p])
  BY DEF MapsWithinMembership, Within
<1>3. QED BY <1>1, <1>2

LEMMA DisconnectWithin ==
  \A t \in Task : \A names :
    TypeOK /\ MapsWithinMembership /\ Disconnect(t, names)
    => MapsWithinMembership'
<1> SUFFICES ASSUME NEW t \in Task, NEW names, TypeOK, MapsWithinMembership,
                    Disconnect(t, names)
             PROVE  MapsWithinMembership'
  OBVIOUS
<1>1. CASE conn[t[1]] = "open"
  <2>1. \E L : LeaveRooms(t[1], L)
    BY <1>1 DEF Disconnect, QuitRooms
  <2>2. QED BY <2>1, LeaveWithin, TasksTyped
<1>2. CASE conn[t[1]] # "open"
  BY <1>2 DEF Disconnect, MapsWithinMembership, Users
<1>3. QED BY <1>1, <1>2

LEMMA RenameWithin ==
  \A c \in Client, r \in Channel, old \in Nick \cup {NoNick} : \A todo, names :
    /\ TypeOK /\ MapsWithinMembership
    /\ nick'[c] \in Nick /\ RenameIn(c, r, todo, old, names)
    => MapsWithinMembership'
<1> SUFFICES ASSUME NEW c \in Client, NEW r \in Channel,
                    NEW old \in Nick \cup {NoNick}, NEW todo, NEW names, TypeOK,
                    MapsWithinMembership, nick'[c] \in Nick,
                    RenameIn(c, r, todo, old, names)
             PROVE  MapsWithinMembership'
  OBVIOUS
<1>1. CASE r \in Present
  <2> DEFINE room == Renamed(RoomOf(r), c, old, nick'[c])
  <2>1. ObjectOf(r) \in Object /\ RoomOf(r) \in Room
    BY <1>1, PresentTyped
  <2>2. Within(RoomOf(r))
    BY <2>1 DEF MapsWithinMembership, Within, RoomOf
  <2>3. room \in Room /\ Within(room)
    BY <2>1, <2>2, RoomsTyped, UpdatesWithin
  <2>4. rooms' = [rooms EXCEPT ![ObjectOf(r)] = room]
    BY <1>1 DEF RenameIn
  <2> HIDE DEF room
  <2>5. QED BY <2>1, <2>3, <2>4, PutWithin
<1>2. CASE r \notin Present
  BY <1>2, DisconnectWithin, TasksTyped DEF RenameIn
<1>3. QED BY <1>1, <1>2

LEMMA EnterWithin ==
  \A c \in Client, r \in Channel, g \in Generation, room \in Room :
    /\ TypeOK /\ MapsWithinMembership /\ nick[c] \in Nick /\ Within(room)
    /\ Enter(c, r, g, room)
    => MapsWithinMembership'
<1> SUFFICES ASSUME NEW c \in Client, NEW r \in Channel, NEW g \in Generation,
                    NEW room \in Room, TypeOK, MapsWithinMembership,
                    nick[c] \in Nick, Within(room), Enter(c, r, g, room)
             PROVE  MapsWithinMembership'
  OBVIOUS
<1>1. With(room, nick[c], c) \in Room /\ Within(With(room, nick[c], c))
  BY RoomsTyped, UpdatesWithin
<1>2. <<r, g>> \in Object
  BY DEF Object
<1>3. rooms' = [rooms EXCEPT ![<<r, g>>] = With(room, nick[c], c)]
  BY DEF Enter
<1>4. QED BY <1>1, <1>2, <1>3, PutWithin

LEMMA CommandWithin ==
  ASSUME TypeOK, MapsWithinMembership, NEW c \in Client, Command(c)
  PROVE  MapsWithinMembership'
<1>1. CASE UNCHANGED rooms
  BY <1>1 DEF MapsWithinMembership, Users
<1>2. ASSUME NEW n \in Nick, NickCmd(c, n) PROVE MapsWithinMembership'
  <2>1. nick'[c] \in Nick /\ nick[c] \in Nick \cup {NoNick}
        /\ joined[c] \subseteq Channel
    BY <1>2 DEF NickCmd, TypeOK
  <2>2. UNCHANGED rooms \/ \E r \in joined[c] :
          RenameIn(c, r, joined[c] \ {r}, nick[c], Renaming(c, n))
    BY <1>2 DEF NickCmd
  <2>3. QED BY <1>1, <2>1, <2>2, RenameWithin
<1>3. ASSUME NEW n \in Nick, Message(c, n) PROVE MapsWithinMembership'
  BY <1>1, <1>3, DisconnectWithin, TasksTyped DEF Message, serverVars
<1>4. ASSUME NEW r \in Channel, Join(c, r) PROVE MapsWithinMembership'
  <2>1. /\ nick[c] \in Nick /\ channels[r] \in Generation
        /\ RoomOf(r) \in Room /\ Within(RoomOf(r))
    BY <1>4, PresentTyped
    DEF Join, Welcomed, TypeOK, Present, MapsWithinMembership, Within, RoomOf
  <2>2. QED BY <1>4, <2>1, EnterWithin DEF Join
<1>5. ASSUME NEW r \in Channel, JoinNew(c, r) PROVE MapsWithinMembership'
  <2>1. PICK g \in Generation : Enter(c, r, g, EmptyRoom)
    BY <1>5 DEF JoinNew
  <2>2. nick[c] \in Nick /\ Within(EmptyRoom)
    BY <1>5 DEF JoinNew, Welcomed, TypeOK, Within, EmptyRoom, Users
  <2>3. QED BY <2>1, <2>2, EnterWithin, EmptyTyped
<1>6. ASSUME NEW r \in Channel, NEW n \in Nick, SetCKey(c, r, n)
      PROVE  MapsWithinMembership'
  <2> DEFINE room == [RoomOf(r) EXCEPT !.keys = @ \cup {nick[clients[n]]}]
  <2>1. /\ ObjectOf(r) \in Object /\ RoomOf(r) \in Room
        /\ nick[clients[n]] \in Users(RoomOf(r))
    BY <1>6, PresentTyped DEF SetCKey
  <2>2. Within(RoomOf(r))
    BY <2>1 DEF MapsWithinMembership, Within, RoomOf
  <2>3. room \in Room /\ Within(room)
    BY <2>1, <2>2 DEF Within, Room, Users
  <2>4. rooms' = [rooms EXCEPT ![ObjectOf(r)] = room]
    BY <1>6, <2>1 DEF SetCKey, RoomOf, TypeOK
  <2> HIDE DEF room
  <2>5. QED BY <2>1, <2>3, <2>4, PutWithin
<1>7. ASSUME NEW r \in Channel, NEW n \in Nick, NEW given \in BOOLEAN,
             Mode(c, r, n, given)
      PROVE  MapsWithinMembership'
  <2> DEFINE room == [RoomOf(r) EXCEPT !.ops = IF given THEN @ \cup {n}
                                                        ELSE @ \ {n}]
  <2>1. /\ ObjectOf(r) \in Object /\ RoomOf(r) \in Room
        /\ given => n \in Users(RoomOf(r))
    BY <1>7, PresentTyped DEF Mode
  <2>2. Within(RoomOf(r))
    BY <2>1 DEF MapsWithinMembership, Within, RoomOf
  <2>3. room \in Room /\ Within(room)
    BY <2>1, <2>2 DEF Within, Room, Users
  <2>4. rooms' = [rooms EXCEPT ![ObjectOf(r)] = room]
    BY <1>7, <2>1 DEF Mode, RoomOf, TypeOK
  <2> HIDE DEF room
  <2>5. QED BY <2>1, <2>3, <2>4, PutWithin
<1>8. QED
  BY <1>1, <1>2, <1>3, <1>4, <1>5, <1>6, <1>7
  DEF Command, UserCmd, Part, Tell, Who, List, serverVars

LEMMA NextWithin ==
  ASSUME TypeOK, RenameNamed, MapsWithinMembership, [Next]_vars
  PROVE  MapsWithinMembership'
<1>1. CASE UNCHANGED rooms
  BY <1>1 DEF MapsWithinMembership, Users
<1>2. ASSUME NEW t \in Task, Disconnect(t, clients) PROVE MapsWithinMembership'
  BY <1>2, DisconnectWithin
<1>3. ASSUME NEW t \in Task, Resume(t) PROVE MapsWithinMembership'
  <2>1. t[1] \in Client
    BY TasksTyped
  <2>2. CASE QuitNext(t)
    <3>1. \E L : LeaveRooms(t[1], L)
      BY <2>2 DEF QuitNext, QuitRooms
    <3>2. QED BY <2>1, <3>1, LeaveWithin
  <2>3. ASSUME NEW c \in Client, RenameNext(c) PROVE MapsWithinMembership'
    <3>1. task[Own(c)] \in Frame
      BY TasksTyped DEF TypeOK
    <3>2. /\ task[Own(c)].todo \subseteq Channel
          /\ task[Own(c)].old \in Nick \cup {NoNick}
          /\ nick'[c] \in Nick
      BY <2>3, <3>1 DEF RenameNext, Frame, RenameNamed
    <3>3. UNCHANGED rooms \/ \E r \in task[Own(c)].todo :
            RenameIn(c, r, task[Own(c)].todo \ {r}, task[Own(c)].old, clients)
      BY <2>3 DEF RenameNext, serverVars
    <3>4. QED BY <1>1, <3>2, <3>3, RenameWithin
  <2>4. ASSUME NEW c \in Client, PartNext(c) PROVE MapsWithinMembership'
    BY <2>4, LeaveWithin DEF PartNext
  <2>5. ASSUME NEW c \in Client, Told(c) \/ MessageFailed(c) \/ Replied(c)
        PROVE  MapsWithinMembership'
    BY <1>1, <1>2, <2>5, TasksTyped DEF Told, MessageFailed, Replied, serverVars
  <2>6. QED BY <1>3, <2>1, <2>2, <2>3, <2>4, <2>5 DEF Resume
<1>4. ASSUME NEW c \in Client, Leave(c) \/ DrainClient(c)
      PROVE  MapsWithinMembership'
  BY <1>2, <1>4, TasksTyped DEF Leave, DrainClient
<1>5. QED
  BY <1>1, <1>3, <1>4, CommandWithin
  DEF Next, vars, Connect, Lose, Closed, RequestDrain, BeginDrain, serverVars

(* The operator and client-key maps stay within the membership, for any    *)
(* number of connections, nicknames and rooms, and with every suspended    *)
(* PART, rename loop and disconnection in between.                         *)
THEOREM MapsCorrect == Spec => []MapsWithinMembership
<1> DEFINE Inv == TypeOK /\ RenameNamed /\ MapsWithinMembership
<1>1. Init => Inv
  <2>1. Init => TypeOK /\ RenameNamed
    BY InitTyped, TasksTyped DEF Init, RenameNamed, At
  <2>2. Init => MapsWithinMembership
    BY DEF Init, MapsWithinMembership, EmptyRoom, Users
  <2>3. QED BY <2>1, <2>2
<1>2. Inv /\ [Next]_vars => Inv'
  BY NextTyped, NamedKept, NextWithin
<1>3. QED BY <1>1, <1>2, PTL DEF Spec
-----------------------------------------------------------------------------
(* Nicknames.  The conditions below are stated of any nicknames, states,   *)
(* table and frames, because NickCmd changes the nickname and the table    *)
(* and may then disconnect: they hold between the two as well.  The last   *)
(* two are claimed unless dr is "begun": with the state of the drain for   *)
(* dr they hold before a drain; with "no" they hold throughout, as long as *)
(* no NICK comes after its connection has been disconnected.               *)

Closing(f) == f.at \in {"quit", "close"}

(* A connection that has not arrived has no nickname.                      *)
IdleFresh(nk, cn, tk) ==
  \A c \in Client : tk[Own(c)].at = "idle" => nk[c] = NoNick /\ cn[c] = "none"

(* A closed connection has exactly one task that is disconnecting it, and  *)
(* there is none for any other.                                            *)
OneCloser(cn, tk) ==
  /\ \A t \in Task : Closing(tk[t]) => cn[t[1]] = "closed"
  /\ \A t, u \in Task :
       t[1] = u[1] /\ Closing(tk[t]) /\ Closing(tk[u]) => t = u
  /\ \A c \in Client : cn[c] = "closed" =>
       \E t \in Task : t[1] = c /\ Closing(tk[t])

(* The nickname is held until the rooms are left, and by no one after.     *)
Holds(nk, cl, tk) ==
  \A t \in Task :
    /\ tk[t].at = "quit" /\ nk[t[1]] \in Nick => cl[nk[t[1]]] = t[1]
    /\ tk[t].at = "close" => \A n \in Nick : cl[n] # t[1]

Unique(nk, cn, cl) ==
  /\ \A n \in Nick : cl[n] # Nobody => cn[cl[n]] \in {"open", "closed"}
  /\ \A c \in Client : cn[c] = "open" /\ nk[c] # NoNick => cl[nk[c]] = c

(* An entry names a connection by the nickname it has.                     *)
Named(nk, cl) == \A n \in Nick : cl[n] # Nobody => nk[cl[n]] = n

NickInv(dr, nk, cn, cl, tk) ==
  /\ IdleFresh(nk, cn, tk) /\ OneCloser(cn, tk) /\ Named(nk, cl)
  /\ dr # "begun" => Holds(nk, cl, tk) /\ Unique(nk, cn, cl)

(* No task of the drain runs before it begins.                             *)
DrainLater == drain # "begun" => \A c \in Client : task[Drainer(c)].at = "end"

(* A task that neither starts nor ends a disconnection moves.              *)
LEMMA MoveNick ==
  \A dr : \A t \in Task :
    /\ NickInv(dr, nick', conn, clients', task)
    /\ conn' = conn /\ Others(t)
    /\ task[t].at \notin {"quit", "close"}
    /\ task'[t].at \notin {"idle", "quit", "close"}
    => NickInv(dr, nick', conn', clients', task')
<1> SUFFICES ASSUME NEW dr, NEW t \in Task, NickInv(dr, nick', conn, clients', task),
                    conn' = conn, Others(t),
                    task[t].at \notin {"quit", "close"},
                    task'[t].at \notin {"idle", "quit", "close"}
             PROVE  NickInv(dr, nick', conn', clients', task')
  OBVIOUS
<1>1. \A u \in Task : /\ task'[u].at \in {"idle", "quit", "close"} => task'[u] = task[u]
                      /\ Closing(task[u]) => task'[u] = task[u]
  BY DEF Others, Closing
<1>2. IdleFresh(nick', conn', task')
  BY <1>1, TasksTyped DEF NickInv, IdleFresh
<1>3. OneCloser(conn', task')
  BY <1>1 DEF NickInv, OneCloser, Closing
<1>4. dr # "begun" => Holds(nick', clients', task')
  BY <1>1 DEF NickInv, Holds
<1>5. QED BY <1>2, <1>3, <1>4 DEF NickInv

(* The table once connection d has released the nickname it has now.       *)
Freed(d, names) == [n \in Nick |-> IF n = nick'[d] THEN Nobody ELSE names[n]]

(* A loop over the rooms that pauses keeps the nickname; one that ends     *)
(* releases it.                                                            *)
LEMMA QuitNames ==
  \A t \in Task : \A todo, L, names : TypeOK /\ QuitRooms(t, todo, L, names) =>
    /\ Others(t)
    /\ \/ (task'[t].at = "quit" /\ clients' = names)
       \/ (task'[t].at = "close" /\ clients' = Freed(t[1], names))
<1> SUFFICES ASSUME NEW t \in Task, NEW todo, NEW L, NEW names, TypeOK,
                    QuitRooms(t, todo, L, names)
             PROVE  /\ Others(t)
                    /\ \/ (task'[t].at = "quit" /\ clients' = names)
                       \/ (task'[t].at = "close" /\ clients' = Freed(t[1], names))
  OBVIOUS
<1>1. Others(t) /\ task'[t].at \in {"quit", "close"}
  BY QuitMoves
<1>2. \/ (clients' = names /\ task'[t].at # "close")
      \/ (clients' = Freed(t[1], names) /\ task'[t].at = "close")
  <2>1. \/ (task' = [task EXCEPT ![t] = At("close")] /\ clients' = Freed(t[1], names))
        \/ \E S \in SUBSET todo : \E r \in (todo \ S) \cap Present :
             /\ clients' = names
             /\ task' = [task EXCEPT ![t] =
                  [At("quit") EXCEPT !.room = ObjectOf(r),
                     !.todo = todo \ (S \cup {r}),
                     !.wait = Listeners(RoomOf(r), t[1])]]
    BY DEF QuitRooms, Freed
  <2>2. /\ At("close").at = "close"
        /\ \A o, rest, waiting :
             [At("quit") EXCEPT !.room = o, !.todo = rest,
                                !.wait = waiting].at # "close"
    BY DEF At
  <2>3. ASSUME NEW o, NEW rest, NEW waiting,
               task' = [task EXCEPT ![t] =
                 [At("quit") EXCEPT !.room = o, !.todo = rest,
                                    !.wait = waiting]]
        PROVE  task'[t].at # "close"
    BY <2>2, <2>3 DEF TypeOK
  <2>4. task' = [task EXCEPT ![t] = At("close")] => task'[t].at = "close"
    BY <2>2 DEF TypeOK
  <2>5. ASSUME NEW S \in SUBSET todo, NEW r \in (todo \ S) \cap Present,
               task' = [task EXCEPT ![t] =
                 [At("quit") EXCEPT !.room = ObjectOf(r),
                    !.todo = todo \ (S \cup {r}),
                    !.wait = Listeners(RoomOf(r), t[1])]]
        PROVE  task'[t].at # "close"
    <3> DEFINE o == ObjectOf(r)  rest == todo \ (S \cup {r})
               waiting == Listeners(RoomOf(r), t[1])
    <3>1. task' = [task EXCEPT ![t] =
            [At("quit") EXCEPT !.room = o, !.todo = rest, !.wait = waiting]]
      BY <2>5
    <3> HIDE DEF o, rest, waiting
    <3>2. QED BY <2>3, <3>1
  <2>6. QED BY <2>1, <2>4, <2>5
<1>3. QED BY <1>1, <1>2

(* The loop over the rooms goes on for a connection that is closed.        *)
LEMMA QuitNick ==
  \A dr : \A t \in Task, names \in Names : \A todo, L :
    /\ TypeOK /\ nick' \in [Client -> Nick \cup {NoNick}]
    /\ NickInv(dr, nick', conn, names, task)
    /\ QuitRooms(t, todo, L, names)
    /\ conn' = [conn EXCEPT ![t[1]] = "closed"]
    /\ task[t].at # "close"
    /\ conn[t[1]] = "open" \/ task[t].at = "quit"
    => NickInv(dr, nick', conn', clients', task')
<1> SUFFICES ASSUME NEW dr, NEW t \in Task, NEW names \in Names,
                    NEW todo, NEW L, TypeOK,
                    nick' \in [Client -> Nick \cup {NoNick}],
                    NickInv(dr, nick', conn, names, task),
                    QuitRooms(t, todo, L, names),
                    conn' = [conn EXCEPT ![t[1]] = "closed"],
                    task[t].at # "close",
                    conn[t[1]] = "open" \/ task[t].at = "quit"
             PROVE  NickInv(dr, nick', conn', clients', task')
  OBVIOUS
<1> DEFINE c == t[1]
           free == [n \in Nick |-> IF n = nick'[c] THEN Nobody ELSE names[n]]
<1>1. c \in Client /\ (conn[c] = "open" \/ conn[c] = "closed")
  BY TasksTyped DEF NickInv, OneCloser, Closing
<1>2. /\ Others(t) /\ Closing(task'[t])
      /\ \/ (task'[t].at = "quit" /\ clients' = names)
         \/ (task'[t].at = "close" /\ clients' = free)
  BY QuitNames DEF Closing, Freed
<1>3. /\ conn'[c] = "closed"
      /\ \A d \in Client \ {c} : conn'[d] = conn[d]
  BY <1>1 DEF TypeOK
<1>4. \A u \in Task : u # t /\ u[1] = c => ~ Closing(task[u])
  BY <1>1 DEF NickInv, OneCloser, Closing
<1>5. dr # "begun" => (nick'[c] \in Nick => names[nick'[c]] = c)
  BY <1>1, PeerChatConstants DEF NickInv, Unique, Holds
<1>6. \A n \in Nick : names[n] = c => n = nick'[c]
  BY <1>1, PeerChatConstants DEF NickInv, Named
<1>7. IdleFresh(nick', conn', task')
  <2>1. \A d \in Client : task'[Own(d)].at = "idle" =>
          Own(d) # t /\ task[Own(d)].at = "idle"
    BY <1>2, TasksTyped DEF Others, Closing
  <2>2. \A d \in Client : task'[Own(d)].at = "idle" => d # c
    BY <1>1, <2>1 DEF NickInv, IdleFresh
  <2>3. QED BY <1>3, <2>1, <2>2 DEF NickInv, IdleFresh
<1>8. OneCloser(conn', task')
  <2>1. \A u \in Task : u # t => task'[u] = task[u]
    BY <1>2 DEF Others
  <2>2. ASSUME NEW u \in Task, Closing(task'[u]) PROVE conn'[u[1]] = "closed"
    <3>1. CASE u = t
      BY <1>3, <3>1
    <3>2. CASE u # t
      BY <1>3, <1>4, <2>1, <2>2, <3>2, TasksTyped DEF NickInv, OneCloser
    <3>3. QED BY <3>1, <3>2
  <2>3. ASSUME NEW u \in Task, NEW v \in Task, u[1] = v[1],
               Closing(task'[u]), Closing(task'[v])
        PROVE  u = v
    BY <1>4, <2>1, <2>3 DEF NickInv, OneCloser
  <2>4. ASSUME NEW d \in Client, conn'[d] = "closed"
        PROVE  \E u \in Task : u[1] = d /\ Closing(task'[u])
    <3>1. CASE d = c
      BY <1>2, <3>1
    <3>2. CASE d # c
      <4>1. PICK u \in Task : u[1] = d /\ Closing(task[u])
        BY <1>3, <2>4, <3>2 DEF NickInv, OneCloser
      <4>2. u # t
        BY <3>2, <4>1
      <4>3. QED BY <2>1, <4>1, <4>2
    <3>3. QED BY <3>1, <3>2
  <2>5. QED BY <2>2, <2>3, <2>4 DEF OneCloser
<1>9. ASSUME dr # "begun"
      PROVE  \A n \in Nick : \/ clients'[n] = names[n]
                             \/ (clients'[n] = Nobody /\ names[n] = c)
  <2>1. CASE clients' = names
    BY <2>1
  <2>2. CASE clients' = free
    <3>1. ASSUME NEW n \in Nick, n = nick'[c]
          PROVE  clients'[n] = Nobody /\ names[n] = c
      BY <1>5, <1>9, <2>2, <3>1
    <3>2. ASSUME NEW n \in Nick, n # nick'[c] PROVE clients'[n] = names[n]
      BY <2>2, <3>2
    <3>3. QED BY <3>1, <3>2
  <2>3. QED BY <1>2, <2>1, <2>2
<1>10. ASSUME dr # "begun" PROVE Holds(nick', clients', task')
  <2>1. ASSUME NEW u \in Task, task'[u].at = "quit", nick'[u[1]] \in Nick
        PROVE  clients'[nick'[u[1]]] = u[1]
    <3>1. CASE u = t
      BY <1>2, <1>5, <1>10, <2>1, <3>1
    <3>2. CASE u # t
      <4>1. task[u].at = "quit" /\ u[1] # c
        BY <1>2, <1>4, <2>1, <3>2 DEF Others, Closing
      <4>2. names[nick'[u[1]]] = u[1]
        BY <1>10, <2>1, <4>1 DEF NickInv, Holds
      <4>3. QED BY <1>9, <1>10, <2>1, <4>1, <4>2
    <3>3. QED BY <3>1, <3>2
  <2>2. ASSUME NEW u \in Task, task'[u].at = "close", NEW n \in Nick
        PROVE  clients'[n] # u[1]
    <3>1. u[1] # Nobody
      BY TasksTyped, PeerChatConstants
    <3>2. CASE u = t
      <4>1. clients' = free
        BY <1>2, <2>2, <3>2
      <4>2. QED BY <1>6, <3>1, <3>2, <4>1
    <3>3. CASE u # t
      <4>1. task[u].at = "close"
        BY <1>2, <2>2, <3>3 DEF Others
      <4>2. names[n] # u[1]
        BY <1>10, <4>1 DEF NickInv, Holds
      <4>3. QED BY <1>9, <1>10, <3>1, <4>2
    <3>4. QED BY <3>2, <3>3
  <2>3. QED BY <2>1, <2>2 DEF Holds
<1>11. ASSUME dr # "begun" PROVE Unique(nick', conn', clients')
  <2>1. ASSUME NEW n \in Nick, clients'[n] # Nobody
        PROVE  conn'[clients'[n]] \in {"open", "closed"}
    <3>1. clients'[n] = names[n] /\ names[n] \in Client
      BY <1>9, <1>11, <2>1 DEF Names
    <3>2. conn[names[n]] \in {"open", "closed"}
      BY <1>11, <2>1, <3>1 DEF NickInv, Unique
    <3>3. QED BY <1>3, <3>1, <3>2
  <2>2. ASSUME NEW d \in Client, conn'[d] = "open", nick'[d] # NoNick
        PROVE  clients'[nick'[d]] = d
    <3>1. d # c /\ nick'[d] \in Nick
      BY <1>3, <2>2
    <3>2. names[nick'[d]] = d
      BY <1>3, <1>11, <2>2, <3>1 DEF NickInv, Unique
    <3>3. d # Nobody
      BY PeerChatConstants
    <3>4. QED BY <1>9, <1>11, <3>1, <3>2, <3>3
  <2>3. QED BY <2>1, <2>2 DEF Unique
<1>12. Named(nick', clients')
  <2>1. \A n \in Nick : clients'[n] = names[n] \/ clients'[n] = Nobody
    BY <1>2
  <2>2. QED BY <2>1 DEF NickInv, Named
<1>13. QED BY <1>7, <1>8, <1>10, <1>11, <1>12 DEF NickInv

LEMMA DisconnectNick ==
  \A dr : \A t \in Task, names \in Names :
    /\ TypeOK /\ nick' \in [Client -> Nick \cup {NoNick}]
    /\ NickInv(dr, nick', conn, names, task)
    /\ Disconnect(t, names) /\ task[t].at \notin {"quit", "close"}
    => NickInv(dr, nick', conn', clients', task')
<1> SUFFICES ASSUME NEW dr, NEW t \in Task, NEW names \in Names, TypeOK,
                    nick' \in [Client -> Nick \cup {NoNick}],
                    NickInv(dr, nick', conn, names, task), Disconnect(t, names),
                    task[t].at \notin {"quit", "close"}
             PROVE  NickInv(dr, nick', conn', clients', task')
  OBVIOUS
<1>1. CASE conn[t[1]] = "open"
  <2>1. /\ QuitRooms(t, joined[t[1]], {}, names)
        /\ conn' = [conn EXCEPT ![t[1]] = "closed"]
    BY <1>1 DEF Disconnect
  <2>2. QED BY <1>1, <2>1, QuitNick
<1>2. CASE conn[t[1]] # "open"
  <2>1. clients' = names /\ conn' = conn /\ task' = [task EXCEPT ![t] = At("end")]
    BY <1>2 DEF Disconnect
  <2>2. Others(t) /\ task'[t].at = "end"
    BY <2>1 DEF TypeOK, Others, At
  <2>3. QED BY <2>1, <2>2, MoveNick
<1>3. QED BY <1>1, <1>2

(* The nickname is taken and the old one freed in one step, before the     *)
(* rooms hear of it, and also by a connection that a drain is closing.     *)
(* The table stays right unless that connection has been disconnected.     *)
LEMMA RenamingNick ==
  \A dr : \A c \in Client, n \in Nick :
    /\ TypeOK /\ NickInv(dr, nick, conn, clients, task) /\ NickCmd(c, n)
    /\ dr # "begun" => task[Drainer(c)].at # "close"
    => /\ NickInv(dr, nick', conn, Renaming(c, n), task)
       /\ Renaming(c, n) \in Names /\ nick' \in [Client -> Nick \cup {NoNick}]
       /\ nick'[c] = n
<1> SUFFICES ASSUME NEW dr, NEW c \in Client, NEW n \in Nick, TypeOK,
                    NickInv(dr, nick, conn, clients, task), NickCmd(c, n),
                    dr # "begun" => task[Drainer(c)].at # "close"
             PROVE  /\ NickInv(dr, nick', conn, Renaming(c, n), task)
                    /\ Renaming(c, n) \in Names
                    /\ nick' \in [Client -> Nick \cup {NoNick}]
                    /\ nick'[c] = n
  OBVIOUS
<1> DEFINE names == Renaming(c, n)
<1>1. /\ nick'[c] = n
      /\ \A d \in Client \ {c} : nick'[d] = nick[d]
      /\ nick' \in [Client -> Nick \cup {NoNick}]
      /\ names \in Names
  BY DEF NickCmd, TypeOK, Renaming, Names
<1>2. /\ task[Own(c)].at = "read"
      /\ conn[c] \in {"open", "closed"}
      /\ clients[n] \in {c, Nobody}
  BY DEF NickCmd, Reading
<1>3. /\ names[n] = c
      /\ \A m \in Nick : m # n =>
           names[m] = IF m = nick[c] THEN Nobody ELSE clients[m]
  BY DEF Renaming
<1>4. \A t \in Task : t[1] = c => t = Own(c) \/ t = Drainer(c)
  BY DEF Task, Own, Drainer
<1>5. ASSUME dr # "begun", nick[c] \in Nick PROVE clients[nick[c]] = c
  <2>1. CASE conn[c] = "open"
    BY <1>5, <2>1, PeerChatConstants DEF NickInv, Unique
  <2>2. CASE conn[c] = "closed"
    <3>1. PICK t \in Task : t[1] = c /\ Closing(task[t])
      BY <2>2 DEF NickInv, OneCloser
    <3>2. task[t].at = "quit"
      BY <1>2, <1>4, <1>5, <3>1 DEF Closing
    <3>3. QED BY <1>5, <3>1, <3>2 DEF NickInv, Holds
  <2>3. QED BY <1>2, <2>1, <2>2
<1>6. \A m \in Nick : clients[m] = c => m = nick[c]
  BY PeerChatConstants DEF NickInv, Named
<1>7. ASSUME dr # "begun"
      PROVE  \A d \in Client \ {c} : \A m \in Nick : clients[m] = d => names[m] = d
  <2> SUFFICES ASSUME NEW d \in Client \ {c}, NEW m \in Nick, clients[m] = d
               PROVE  names[m] = d
    OBVIOUS
  <2>1. m # n
    BY <1>2, PeerChatConstants
  <2>2. m # nick[c]
    BY <1>5, <1>7
  <2>3. QED BY <1>3, <2>1, <2>2
<1>8. \A m \in Nick : names[m] # Nobody /\ m # n =>
        names[m] = clients[m] /\ clients[m] # c
  BY <1>3, <1>6
<1>9. IdleFresh(nick', conn, task)
  BY <1>1, <1>2 DEF NickInv, IdleFresh
<1>10. ASSUME dr # "begun" PROVE Holds(nick', names, task)
  <2>1. ASSUME NEW t \in Task, task[t].at = "quit", nick'[t[1]] \in Nick
        PROVE  names[nick'[t[1]]] = t[1]
    <3>1. CASE t[1] = c
      BY <1>1, <1>3, <3>1
    <3>2. CASE t[1] # c
      <4>1. t[1] \in Client \ {c}
        BY <3>2, TasksTyped
      <4>2. nick[t[1]] = nick'[t[1]] /\ clients[nick'[t[1]]] = t[1]
        BY <1>1, <1>10, <2>1, <4>1 DEF NickInv, Holds
      <4>3. QED BY <1>7, <1>10, <2>1, <4>1, <4>2
    <3>3. QED BY <3>1, <3>2
  <2>2. ASSUME NEW t \in Task, task[t].at = "close", NEW m \in Nick
        PROVE  names[m] # t[1]
    <3>1. t[1] # c
      BY <1>2, <1>4, <1>10, <2>2
    <3>2. t[1] # Nobody
      BY TasksTyped, PeerChatConstants
    <3>3. clients[m] # t[1]
      BY <1>10, <2>2 DEF NickInv, Holds
    <3>4. QED BY <1>3, <3>1, <3>2, <3>3
  <2>3. QED BY <2>1, <2>2 DEF Holds
<1>11. ASSUME dr # "begun" PROVE Unique(nick', conn, names)
  <2>1. ASSUME NEW m \in Nick, names[m] # Nobody
        PROVE  conn[names[m]] \in {"open", "closed"}
    <3>1. CASE m = n
      BY <1>2, <1>3, <3>1
    <3>2. CASE m # n
      <4>1. names[m] = clients[m]
        BY <1>8, <2>1, <3>2
      <4>2. QED BY <1>11, <2>1, <4>1 DEF NickInv, Unique
    <3>3. QED BY <3>1, <3>2
  <2>2. ASSUME NEW d \in Client, conn[d] = "open", nick'[d] # NoNick
        PROVE  names[nick'[d]] = d
    <3>1. CASE d = c
      BY <1>1, <1>3, <3>1
    <3>2. CASE d # c
      <4>1. nick'[d] = nick[d] /\ nick[d] \in Nick /\ clients[nick[d]] = d
        BY <1>1, <1>11, <2>2, <3>2 DEF NickInv, Unique, TypeOK
      <4>2. QED BY <1>7, <1>11, <3>2, <4>1
    <3>3. QED BY <3>1, <3>2
  <2>3. QED BY <2>1, <2>2 DEF Unique
<1>12. Named(nick', names)
  <2> SUFFICES ASSUME NEW m \in Nick, names[m] # Nobody PROVE nick'[names[m]] = m
    BY DEF Named
  <2>1. CASE m = n
    BY <1>1, <1>3, <2>1
  <2>2. CASE m # n
    <3>1. names[m] = clients[m] /\ names[m] # c /\ names[m] \in Client
      BY <1>1, <1>8, <2>2 DEF Names
    <3>2. QED BY <1>1, <3>1 DEF NickInv, Named
  <2>3. QED BY <2>1, <2>2
<1>13. OneCloser(conn, task)
  BY DEF NickInv
<1>14. QED BY <1>1, <1>9, <1>10, <1>11, <1>12, <1>13 DEF NickInv

NickIInv(dr) == NickInv(dr, nick, conn, clients, task) /\ DrainLater

(* A drain that has begun has begun for good.                              *)
LEMMA DrainStays == [Next]_vars /\ drain' # "begun" => drain # "begun"
<1> SUFFICES ASSUME [Next]_vars, drain = "begun" PROVE drain' = "begun"
  OBVIOUS
<1>1. ASSUME NEW c \in Client, Command(c) PROVE drain' = drain
  BY <1>1 DEF Command, NickCmd, Message, UserCmd, Join, JoinNew, Part, Tell, Who, SetCKey,
     Mode, List, Enter
<1>2. ASSUME NEW t \in Task, Resume(t) PROVE drain' = drain
  BY <1>2 DEF Resume, QuitNext, RenameNext, PartNext, Told, MessageFailed, Replied
<1>3. QED
  BY <1>1, <1>2 DEF Next, vars, Connect, Leave, Lose, DrainClient, Closed, RequestDrain,
     BeginDrain

(* No connection has a NICK executed after it has released its nickname,   *)
(* as one that a drain has just disconnected may.                          *)
NoLateNick == \A c \in Departed, n \in Nick : ~ NickCmd(c, n)

LEMMA OwnLater ==
  \A c \in Client : DrainLater /\ Others(Own(c)) /\ drain' = drain => DrainLater'
<1>1. \A c, d \in Client : Drainer(d) \in Task /\ Drainer(d) # Own(c)
  BY TasksTyped DEF Own, Drainer
<1>2. QED BY <1>1 DEF DrainLater, Others

(* An own task goes on without a disconnection.                            *)
LEMMA StepNick ==
  \A dr : \A c \in Client :
    /\ NickIInv(dr) /\ Others(Own(c)) /\ UNCHANGED <<nick, conn, clients, drain>>
    /\ task[Own(c)].at \notin {"quit", "close"}
    /\ task'[Own(c)].at \notin {"idle", "quit", "close"}
    => NickIInv(dr)'
<1> SUFFICES ASSUME NEW dr, NEW c \in Client, NickIInv(dr), Others(Own(c)),
                    UNCHANGED <<nick, conn, clients, drain>>,
                    task[Own(c)].at \notin {"quit", "close"},
                    task'[Own(c)].at \notin {"idle", "quit", "close"}
             PROVE  NickIInv(dr)'
  OBVIOUS
<1>1. NickInv(dr, nick', conn, clients', task)
  BY DEF NickIInv
<1>2. NickInv(dr, nick', conn', clients', task')
  BY <1>1, MoveNick, TasksTyped
<1>3. DrainLater'
  BY OwnLater DEF NickIInv
<1>4. QED BY <1>2, <1>3 DEF NickIInv

LEMMA EndNick ==
  \A dr : \A c \in Client :
    /\ TypeOK /\ NickIInv(dr) /\ Disconnect(Own(c), clients)
    /\ UNCHANGED <<nick, drain>>
    /\ task[Own(c)].at \notin {"quit", "close"}
    => NickIInv(dr)'
<1> SUFFICES ASSUME NEW dr, NEW c \in Client, TypeOK, NickIInv(dr),
                    Disconnect(Own(c), clients), UNCHANGED <<nick, drain>>,
                    task[Own(c)].at \notin {"quit", "close"}
             PROVE  NickIInv(dr)'
  OBVIOUS
<1>1. /\ NickInv(dr, nick', conn, clients, task)
      /\ nick' \in [Client -> Nick \cup {NoNick}] /\ clients \in Names
  BY DEF NickIInv, TypeOK, Names
<1>2. NickInv(dr, nick', conn', clients', task')
  BY <1>1, DisconnectNick, TasksTyped
<1>3. DrainLater'
  BY DisconnectMoves, OwnLater, TasksTyped DEF NickIInv
<1>4. QED BY <1>2, <1>3 DEF NickIInv

LEMMA RenameNick ==
  \A dr : \A c \in Client, names \in Names : \A r, todo, old :
    /\ TypeOK /\ nick' \in [Client -> Nick \cup {NoNick}]
    /\ NickInv(dr, nick', conn, names, task) /\ DrainLater /\ drain' = drain
    /\ RenameIn(c, r, todo, old, names)
    /\ task[Own(c)].at \notin {"quit", "close"}
    => NickIInv(dr)'
<1> SUFFICES ASSUME NEW dr, NEW c \in Client, NEW names \in Names, NEW r,
                    NEW todo, NEW old, TypeOK, nick' \in [Client -> Nick \cup {NoNick}],
                    NickInv(dr, nick', conn, names, task), DrainLater,
                    drain' = drain, RenameIn(c, r, todo, old, names),
                    task[Own(c)].at \notin {"quit", "close"}
             PROVE  NickIInv(dr)'
  OBVIOUS
<1>1. DrainLater'
  BY RenameMoves, OwnLater
<1>2. CASE r \in Present
  <2>1. conn' = conn /\ clients' = names
    BY <1>2 DEF RenameIn
  <2>2. task'[Own(c)].at = "rename" /\ Others(Own(c))
    <3>1. \A waiting : [At("rename") EXCEPT !.todo = todo, !.old = old,
                                            !.wait = waiting].at = "rename"
      BY DEF At
    <3>2. PICK waiting : Goto(c, [At("rename") EXCEPT
                                    !.todo = todo, !.old = old, !.wait = waiting])
      BY <1>2 DEF RenameIn
    <3>3. QED BY <3>1, <3>2, GotoMoves
  <2>3. QED BY <1>1, <2>1, <2>2, MoveNick, TasksTyped DEF NickIInv
<1>3. CASE r \notin Present
  BY <1>1, <1>3, DisconnectNick, TasksTyped DEF RenameIn, NickIInv
<1>4. QED BY <1>2, <1>3

LEMMA CommandNick ==
  ASSUME NEW dr, TypeOK, NickIInv(dr), NEW c \in Client, Command(c),
         dr # "begun" => NoLateNick
  PROVE  NickIInv(dr)'
<1>1. ASSUME NEW n \in Nick, NickCmd(c, n) PROVE NickIInv(dr)'
  <2>1. /\ NickInv(dr, nick', conn, Renaming(c, n), task)
        /\ Renaming(c, n) \in Names /\ nick' \in [Client -> Nick \cup {NoNick}]
    <3>1. dr # "begun" => task[Drainer(c)].at # "close"
      <4>1. task[Drainer(c)].at = "close" => c \in Departed
        BY TasksTyped DEF Departed
      <4>2. QED BY <1>1, <4>1 DEF NoLateNick
    <3>2. QED BY <1>1, <3>1, RenamingNick DEF NickIInv
  <2>2. task[Own(c)].at = "read" /\ drain' = drain /\ DrainLater
    BY <1>1 DEF NickCmd, Reading, NickIInv
  <2>3. CASE nick[c] = NoNick \/ joined[c] = {}
    <3>1. clients' = Renaming(c, n) /\ Back(c) /\ conn' = conn
      BY <1>1, <2>3 DEF NickCmd
    <3>2. task'[Own(c)].at \in {"read", "end"} /\ Others(Own(c))
      BY <3>1, GotoMoves
    <3>3. NickInv(dr, nick', conn', clients', task')
      BY <2>1, <2>2, <3>1, <3>2, MoveNick, TasksTyped
    <3>4. QED BY <2>2, <3>2, <3>3, OwnLater DEF NickIInv
  <2>4. CASE ~ (nick[c] = NoNick \/ joined[c] = {})
    <3>1. \E r \in joined[c] :
            RenameIn(c, r, joined[c] \ {r}, nick[c], Renaming(c, n))
      BY <1>1, <2>4 DEF NickCmd
    <3>2. QED BY <2>1, <2>2, <3>1, RenameNick
  <2>5. QED BY <2>3, <2>4
<1>2. ASSUME NEW frame, Goto(c, frame), task[Own(c)].at = "read",
             frame.at \notin {"idle", "quit", "close"},
             UNCHANGED <<nick, conn, clients, drain>>
      PROVE  NickIInv(dr)'
  BY <1>2, GotoMoves, StepNick
<1>3. ASSUME NEW room, NEW x, Broadcasting(c, room, x),
             task[Own(c)].at = "read", UNCHANGED <<nick, conn, clients, drain>>
      PROVE  NickIInv(dr)'
  BY <1>3, GotoMoves, StepNick
<1>4. ASSUME NEW n \in Nick, Message(c, n) PROVE NickIInv(dr)'
  <2>1. task[Own(c)].at = "read" /\ UNCHANGED <<nick, drain>>
    BY <1>4 DEF Message, Reading
  <2>2. CASE lost[clients[n]]
    <3>1. Disconnect(Own(c), clients)
      BY <1>4, <2>2 DEF Message
    <3>2. QED BY <2>1, <3>1, EndNick
  <2>3. CASE ~ lost[clients[n]]
    <3>1. /\ Goto(c, [At("direct") EXCEPT !.wait = {clients[n]}])
          /\ UNCHANGED <<conn, clients>>
      BY <1>4, <2>3 DEF Message, serverVars
    <3>2. [At("direct") EXCEPT !.wait = {clients[n]}].at = "direct"
      BY DEF At
    <3>3. QED BY <1>2, <2>1, <3>1, <3>2
  <2>4. QED BY <2>2, <2>3
<1>5. CASE UserCmd(c)
  BY <1>5, GotoMoves, StepNick DEF UserCmd, Reading, serverVars
<1>6. ASSUME NEW r \in Channel, Join(c, r) \/ JoinNew(c, r) PROVE NickIInv(dr)'
  BY <1>3, <1>6 DEF Join, JoinNew, Enter, Reading
<1>7. ASSUME NEW r \in Channel, Part(c, r) PROVE NickIInv(dr)'
  <2>1. [At("part") EXCEPT !.room = ObjectOf(r),
           !.wait = Listeners(RoomOf(r), Nobody)].at = "part"
    BY DEF At
  <2>2. QED BY <1>2, <1>7, <2>1 DEF Part, Reading, connVars, serverVars
<1>8. ASSUME NEW r \in Channel, Tell(c, r) PROVE NickIInv(dr)'
  BY <1>3, <1>8 DEF Tell, Reading, connVars, serverVars
<1>9. ASSUME NEW r \in Channel, Who(c, r) PROVE NickIInv(dr)'
  <2>1. [At("who") EXCEPT !.room = ObjectOf(r), !.wait = {c},
           !.size = Cardinality(Users(RoomOf(r)))].at = "who"
    BY DEF At
  <2>2. QED BY <1>2, <1>9, <2>1 DEF Who, Reading, connVars, serverVars
<1>10. ASSUME NEW r \in Channel, NEW n \in Nick, SetCKey(c, r, n) PROVE NickIInv(dr)'
  BY <1>3, <1>10 DEF SetCKey, Reading, connVars
<1>11. ASSUME NEW r \in Channel, NEW n \in Nick, NEW given \in BOOLEAN,
              Mode(c, r, n, given)
       PROVE  NickIInv(dr)'
  BY <1>3, <1>11 DEF Mode, Reading, connVars
<1>12. CASE List(c)
  <2>1. [At("list") EXCEPT !.wait = {c}, !.size = Cardinality(Present)].at = "list"
    BY DEF At
  <2>2. QED BY <1>2, <1>12, <2>1 DEF List, Reading, connVars, serverVars
<1>13. QED
  BY <1>1, <1>4, <1>5, <1>6, <1>7, <1>8, <1>9, <1>10, <1>11, <1>12 DEF Command

LEMMA ResumeNick ==
  ASSUME NEW dr, TypeOK, NickIInv(dr), NEW t \in Task, Resume(t)
  PROVE  NickIInv(dr)'
<1>1. t[1] \in Client
  BY TasksTyped
<1>2. CASE QuitNext(t)
  <2>1. /\ QuitRooms(t, task[t].todo, {task[t].room}, clients)
        /\ task[t].at = "quit" /\ nick' = nick /\ conn' = conn /\ drain' = drain
    BY <1>2 DEF QuitNext
  <2>2. conn[t[1]] = "closed"
    BY <2>1 DEF NickIInv, NickInv, OneCloser, Closing
  <2>3. conn' = [conn EXCEPT ![t[1]] = "closed"]
    BY <1>1, <2>1, <2>2 DEF TypeOK
  <2>4. /\ NickInv(dr, nick', conn, clients, task) /\ clients \in Names
        /\ nick' \in [Client -> Nick \cup {NoNick}]
    BY <2>1 DEF NickIInv, TypeOK, Names
  <2>5. NickInv(dr, nick', conn', clients', task')
    BY <2>1, <2>3, <2>4, QuitNick
  <2>6. DrainLater'
    <3>1. Others(t)
      BY <2>1, QuitMoves
    <3>2. ASSUME drain # "begun", NEW c \in Client PROVE task'[Drainer(c)].at = "end"
      <4>1. task[Drainer(c)].at = "end" /\ Drainer(c) \in Task
        BY <3>2, TasksTyped DEF NickIInv, DrainLater
      <4>2. QED BY <2>1, <3>1, <4>1 DEF Others
    <3>3. QED BY <2>1, <3>2 DEF DrainLater
  <2>7. QED BY <2>5, <2>6 DEF NickIInv
<1>3. ASSUME NEW c \in Client, Back(c), task[Own(c)].at \notin {"quit", "close"},
             UNCHANGED <<nick, conn, clients, drain>>
      PROVE  NickIInv(dr)'
  BY <1>3, GotoMoves, StepNick
<1>4. ASSUME NEW c \in Client, RenameNext(c) PROVE NickIInv(dr)'
  <2>1. task[Own(c)].at = "rename" /\ UNCHANGED <<nick, drain>>
    BY <1>4 DEF RenameNext
  <2>2. CASE task[Own(c)].todo = {}
    BY <1>3, <1>4, <2>1, <2>2 DEF RenameNext, serverVars
  <2>3. CASE task[Own(c)].todo # {}
    <3>1. \E r \in task[Own(c)].todo :
            RenameIn(c, r, task[Own(c)].todo \ {r}, task[Own(c)].old, clients)
      BY <1>4, <2>3 DEF RenameNext
    <3>2. /\ NickInv(dr, nick', conn, clients, task) /\ DrainLater
          /\ clients \in Names /\ nick' \in [Client -> Nick \cup {NoNick}]
      BY <2>1 DEF NickIInv, TypeOK, Names
    <3>3. QED BY <2>1, <3>1, <3>2, RenameNick
  <2>4. QED BY <2>2, <2>3
<1>5. ASSUME NEW c \in Client, PartNext(c) \/ Told(c) PROVE NickIInv(dr)'
  BY <1>3, <1>5 DEF PartNext, Told, connVars, serverVars
<1>6. ASSUME NEW c \in Client, MessageFailed(c) PROVE NickIInv(dr)'
  BY <1>6, EndNick DEF MessageFailed
<1>7. ASSUME NEW c \in Client, Replied(c) PROVE NickIInv(dr)'
  <2>1. CASE Iterated(task[Own(c)]) = task[Own(c)].size
    BY <1>3, <1>7, <2>1 DEF Replied, serverVars
  <2>2. CASE Iterated(task[Own(c)]) # task[Own(c)].size
    BY <1>7, <2>2, EndNick DEF Replied
  <2>3. QED BY <2>1, <2>2
<1>8. QED BY <1>1, <1>2, <1>4, <1>5, <1>6, <1>7 DEF Resume

LEMMA NextNick ==
  ASSUME NEW dr, TypeOK, NickIInv(dr), [Next]_vars,
         dr # "begun" => NoLateNick
  PROVE  NickIInv(dr)'
<1>1. ASSUME NEW c \in Client, Connect(c) PROVE NickIInv(dr)'
  <2>1. /\ task[Own(c)].at = "idle" /\ Own(c) \in Task
        /\ conn' = [conn EXCEPT ![c] = "open"]
        /\ task' = [task EXCEPT ![Own(c)] = At("read")]
        /\ UNCHANGED <<nick, clients, drain>>
    BY <1>1, TasksTyped DEF Connect, serverVars
  <2>2. Others(Own(c)) /\ task'[Own(c)].at = "read"
    BY <2>1 DEF TypeOK, Others, At
  <2>3. /\ nick[c] = NoNick /\ conn[c] = "none"
        /\ conn'[c] = "open" /\ \A d \in Client \ {c} : conn'[d] = conn[d]
    BY <2>1 DEF NickIInv, NickInv, IdleFresh, TypeOK
  <2>4. IdleFresh(nick', conn', task')
    <3>1. \A d \in Client : task'[Own(d)].at = "idle" =>
            Own(d) # Own(c) /\ task[Own(d)].at = "idle"
      BY <2>2, TasksTyped DEF Others
    <3>2. \A d \in Client : task'[Own(d)].at = "idle" => d # c
      BY <3>1
    <3>3. QED BY <2>1, <2>3, <3>1, <3>2 DEF NickIInv, NickInv, IdleFresh
  <2>5. OneCloser(conn', task')
    <3>1. \A u \in Task : Closing(task'[u]) <=> Closing(task[u])
      BY <2>1, <2>2 DEF Others, Closing
    <3>2. \A u \in Task : Closing(task[u]) => u[1] # c
      BY <2>3 DEF NickIInv, NickInv, OneCloser
    <3>3. QED BY <2>3, <3>1, <3>2, TasksTyped DEF NickIInv, NickInv, OneCloser
  <2>6. dr # "begun" => Holds(nick', clients', task')
    <3>1. \A u \in Task : task'[u].at \in {"quit", "close"} => task'[u] = task[u]
      BY <2>2 DEF Others
    <3>2. QED BY <2>1, <3>1 DEF NickIInv, NickInv, Holds
  <2>7. dr # "begun" => Unique(nick', conn', clients')
    BY <2>1, <2>3, PeerChatConstants DEF NickIInv, NickInv, Unique, TypeOK
  <2>8. DrainLater'
    BY <2>1, <2>2, OwnLater DEF NickIInv
  <2>9. QED BY <2>1, <2>4, <2>5, <2>6, <2>7, <2>8 DEF NickIInv, NickInv, Named
<1>2. ASSUME NEW c \in Client, Leave(c) PROVE NickIInv(dr)'
  BY <1>2, EndNick DEF Leave
<1>3. CASE UNCHANGED <<nick, conn, clients, task, drain>>
  BY <1>3 DEF NickIInv, NickInv, IdleFresh, OneCloser, Holds, Unique, Named, DrainLater
<1>4. ASSUME NEW c \in Client, DrainClient(c) PROVE NickIInv(dr)'
  <2>1. /\ Disconnect(Drainer(c), clients) /\ task[Drainer(c)].at = "start"
        /\ UNCHANGED <<nick, drain>>
    BY <1>4 DEF DrainClient
  <2>2. /\ NickInv(dr, nick', conn, clients, task) /\ clients \in Names
        /\ nick' \in [Client -> Nick \cup {NoNick}]
    BY <2>1 DEF NickIInv, TypeOK, Names
  <2>3. NickInv(dr, nick', conn', clients', task')
    BY <2>1, <2>2, DisconnectNick, TasksTyped
  <2>4. drain' = "begun"
    BY <2>1 DEF NickIInv, DrainLater
  <2>5. QED BY <2>3, <2>4 DEF NickIInv, DrainLater
<1>5. ASSUME NEW t \in Task, Closed(t) PROVE NickIInv(dr)'
  <2> DEFINE c == t[1]
  <2>1. /\ task[t].at = "close" /\ c \in Client
        /\ conn' = [conn EXCEPT ![c] = "gone"]
        /\ task' = [task EXCEPT ![t] = At("end")]
        /\ UNCHANGED <<nick, clients, drain>>
    BY <1>5, TasksTyped DEF Closed, serverVars
  <2>2. Others(t) /\ task'[t].at = "end"
    BY <2>1 DEF TypeOK, Others, At
  <2>3. /\ conn[c] = "closed" /\ conn'[c] = "gone"
        /\ \A d \in Client \ {c} : conn'[d] = conn[d]
    BY <2>1 DEF NickIInv, NickInv, OneCloser, Closing, TypeOK
  <2>4. IdleFresh(nick', conn', task')
    <3>1. \A d \in Client : task'[Own(d)].at = "idle" => task[Own(d)].at = "idle"
      BY <2>2, TasksTyped DEF Others
    <3>2. \A d \in Client : task'[Own(d)].at = "idle" => d # c
      BY <2>3, <3>1 DEF NickIInv, NickInv, IdleFresh
    <3>3. QED BY <2>1, <2>3, <3>1, <3>2 DEF NickIInv, NickInv, IdleFresh
  <2>5. OneCloser(conn', task')
    <3>1. \A u \in Task : Closing(task'[u]) <=> Closing(task[u]) /\ u # t
      BY <2>2 DEF Others, Closing
    <3>2. \A u \in Task : Closing(task[u]) /\ u[1] = c => u = t
      BY <2>1 DEF NickIInv, NickInv, OneCloser, Closing
    <3>3. ASSUME NEW d \in Client, conn'[d] = "closed"
          PROVE  \E u \in Task : u[1] = d /\ Closing(task'[u])
      <4>1. d # c
        BY <2>3, <3>3
      <4>2. PICK u \in Task : u[1] = d /\ Closing(task[u])
        BY <2>3, <3>3, <4>1 DEF NickIInv, NickInv, OneCloser
      <4>3. QED BY <3>1, <4>1, <4>2
    <3>4. \A u \in Task : Closing(task'[u]) => conn'[u[1]] = "closed"
      BY <2>3, <3>1, <3>2, TasksTyped DEF NickIInv, NickInv, OneCloser
    <3>5. \A u, v \in Task :
            u[1] = v[1] /\ Closing(task'[u]) /\ Closing(task'[v]) => u = v
      BY <3>1 DEF NickIInv, NickInv, OneCloser
    <3>6. QED BY <3>3, <3>4, <3>5 DEF OneCloser
  <2>6. dr # "begun" => Holds(nick', clients', task')
    <3>1. \A u \in Task : task'[u].at \in {"quit", "close"} => task'[u] = task[u]
      BY <2>2 DEF Others
    <3>2. QED BY <2>1, <3>1 DEF NickIInv, NickInv, Holds
  <2>7. dr # "begun" => Unique(nick', conn', clients')
    <3>1. dr # "begun" => \A n \in Nick : clients[n] # c
      BY <2>1 DEF NickIInv, NickInv, Holds
    <3>2. \A n \in Nick : clients[n] \in Client \cup {Nobody}
      BY DEF TypeOK
    <3>3. QED BY <2>1, <2>3, <3>1, <3>2 DEF NickIInv, NickInv, Unique
  <2>8. DrainLater'
    <3>1. \A d \in Client : task[Drainer(d)].at = "end" => task'[Drainer(d)].at = "end"
      BY <2>2, TasksTyped DEF Others
    <3>2. QED BY <2>1, <3>1 DEF NickIInv, DrainLater
  <2>9. QED BY <2>1, <2>4, <2>5, <2>6, <2>7, <2>8 DEF NickIInv, NickInv, Named
<1>6. CASE RequestDrain
  BY <1>6 DEF RequestDrain, connVars, serverVars, NickIInv, NickInv, IdleFresh,
     OneCloser, Holds, Unique, Named, DrainLater
<1>7. CASE BeginDrain
  <2>1. /\ drain = "requested" /\ drain' = "begun"
        /\ UNCHANGED <<nick, conn, clients>>
        /\ task' = [t \in Task |-> IF t[2] = "drain" /\ t[1] \in Connected
                                   THEN At("start") ELSE task[t]]
    BY <1>7 DEF BeginDrain, connVars, serverVars
  <2>2. \A t \in Task : t[2] = "drain" => task[t].at = "end"
    <3>1. \A t \in Task : t[2] = "drain" => t = Drainer(t[1]) /\ t[1] \in Client
      BY DEF Task, Drainer
    <3>2. QED BY <2>1, <3>1 DEF NickIInv, DrainLater
  <2>3. \A t \in Task : \/ task'[t] = task[t]
                        \/ task'[t].at = "start" /\ task[t].at = "end"
    <3>1. At("start").at = "start"
      BY DEF At
    <3>2. QED BY <2>1, <2>2, <3>1
  <2>4. \A t \in Task : /\ Closing(task'[t]) <=> Closing(task[t])
                        /\ task'[t].at = "idle" => task[t].at = "idle"
                        /\ task'[t].at \in {"quit", "close"} => task'[t] = task[t]
    BY <2>3 DEF Closing
  <2>5. IdleFresh(nick', conn', task')
    BY <2>1, <2>4, TasksTyped DEF NickIInv, NickInv, IdleFresh
  <2>6. OneCloser(conn', task')
    BY <2>1, <2>4 DEF NickIInv, NickInv, OneCloser
  <2>7. dr # "begun" => Holds(nick', clients', task')
    BY <2>1, <2>4 DEF NickIInv, NickInv, Holds
  <2>8. (dr # "begun" => Unique(nick', conn', clients')) /\ DrainLater'
    BY <2>1 DEF NickIInv, NickInv, Unique, DrainLater
  <2>9. QED BY <2>1, <2>5, <2>6, <2>7, <2>8 DEF NickIInv, NickInv, Named
<1>8. QED
  BY <1>1, <1>2, <1>3, <1>4, <1>5, <1>6, <1>7, CommandNick, ResumeNick
  DEF Next, vars, connVars, serverVars, Lose

(* With the state of the drain, as it is: the table is right before it.    *)
NickOK == NickIInv(drain)

(* Before a drain no connection has been disconnected and still reads.     *)
LEMMA NoneLate ==
  TypeOK /\ NickOK /\ drain # "begun" => NoLateNick
<1> SUFFICES ASSUME TypeOK, NickOK, drain # "begun",
                    NEW c \in Departed, NEW n \in Nick, NickCmd(c, n)
             PROVE  FALSE
  BY DEF NoLateNick
<1>1. /\ c \in Client /\ task[Own(c)].at = "read" /\ conn[c] # "gone"
  BY DEF NickCmd, Reading, Departed
<1>2. task[Drainer(c)].at = "end"
  BY <1>1 DEF NickOK, NickIInv, DrainLater
<1>3. \A t \in Task : t[1] = c => t = Own(c) \/ t = Drainer(c)
  BY DEF Task, Own, Drainer
<1>4. QED BY <1>1, <1>2, <1>3 DEF Departed

LEMMA InitNick == \A dr : Init => NickIInv(dr)
<1> SUFFICES ASSUME NEW dr, Init PROVE NickIInv(dr)
  OBVIOUS
<1>1. \A t \in Task : task[t].at \in {"idle", "end"}
  BY DEF Init, At
<1>2. \A c \in Client : task[Drainer(c)].at = "end"
  <2>1. \A c \in Client : Drainer(c) \in Task /\ Drainer(c)[2] = "drain"
    BY DEF Task, Drainer
  <2>2. QED BY <2>1 DEF Init, At
<1>3. QED BY <1>1, <1>2 DEF Init, NickIInv, NickInv, IdleFresh, OneCloser,
                            Holds, Unique, Named, DrainLater, Closing

(* Until a drain begins the whole invariant holds, and after that all but  *)
(* the part on the table that a late NICK may break.                       *)
LEMMA NickInvariant == Spec => [](TypeOK /\ RenameNamed /\ NickOK)
<1> DEFINE Inv == TypeOK /\ RenameNamed /\ NickOK
<1>1. Init => Inv
  BY InitTyped, InitNick, TasksTyped DEF Init, RenameNamed, At, NickOK
<1>2. ASSUME Inv, [Next]_vars PROVE NickOK'
  <2>1. PICK dr : dr = drain'
    OBVIOUS
  <2>2. dr # "begun" => drain # "begun"
    BY <1>2, <2>1, DrainStays
  <2>3. NickIInv(dr) /\ (dr # "begun" => NoLateNick)
    BY <1>2, <2>2, NoneLate DEF NickOK, NickIInv, NickInv
  <2>4. NickIInv(dr)'
    BY <1>2, <2>3, NextNick
  <2>5. QED BY <2>1, <2>4 DEF NickOK, NickIInv, NickInv
<1>3. Inv /\ [Next]_vars => Inv'
  BY <1>2, NextTyped, NamedKept
<1>4. QED BY <1>1, <1>3, PTL DEF Spec

(* Two connections never share an entry of the nickname table, and until a *)
(* drain begins the table is the inverse of the nicknames, for any number  *)
(* of connections and whatever renamings and disconnections overlap: a     *)
(* renaming loop cut short leaves no entry behind.                         *)
THEOREM NickCorrect == Spec => []NickUnique
<1>1. NickOK => NickUnique
  BY DEF NickOK, NickIInv, NickInv, Named, Unique, NickUnique
<1>2. QED BY <1>1, NickInvariant, PTL

-----------------------------------------------------------------------------
(* The nickname table implements Nicknames.  A connection that has not     *)
(* departed has an entry under its nickname and no other, so releasing or  *)
(* replacing that one entry is giving up all it has.                       *)

LEMMA TableOwn ==
  \A c \in Client :
    TypeOK /\ NickIInv("no") /\ conn[c] \in {"open", "closed"} /\ c \notin Departed =>
      \A n \in Nick : clients[n] = c <=> n = nick[c]
<1> SUFFICES ASSUME NEW c \in Client, TypeOK, NickIInv("no"),
                    conn[c] \in {"open", "closed"}, c \notin Departed,
                    NEW n \in Nick
             PROVE  clients[n] = c <=> n = nick[c]
  OBVIOUS
<1>1. clients[n] = c => n = nick[c]
  BY PeerChatConstants DEF NickIInv, NickInv, Named
<1>2. ASSUME n = nick[c] PROVE clients[n] = c
  <2>1. CASE conn[c] = "open"
    BY <1>2, <2>1, PeerChatConstants DEF NickIInv, NickInv, Unique
  <2>2. CASE conn[c] = "closed"
    <3>1. PICK t \in Task : t[1] = c /\ Closing(task[t])
      BY <2>2 DEF NickIInv, NickInv, OneCloser
    <3>2. task[t].at = "quit"
      BY <3>1 DEF Closing, Departed
    <3>3. QED BY <1>2, <3>1, <3>2 DEF NickIInv, NickInv, Holds
  <2>3. QED BY <2>1, <2>2
<1>3. QED BY <1>1, <1>2

(* A step of one task: whoever departs is the connection it belongs to.    *)
SameGone == \A c \in Client : conn'[c] = "gone" <=> conn[c] = "gone"

LEMMA DepartedMoves ==
  \A t \in Task :
    Others(t) /\ task[t].at # "close" /\ SameGone =>
      /\ task'[t].at # "close" => Departed' = Departed
      /\ task'[t].at = "close" => Departed' = Departed \cup {t[1]}
<1> SUFFICES ASSUME NEW t \in Task, Others(t), task[t].at # "close", SameGone
             PROVE  /\ task'[t].at # "close" => Departed' = Departed
                    /\ task'[t].at = "close" => Departed' = Departed \cup {t[1]}
  OBVIOUS
<1>1. t[1] \in Client
  BY TasksTyped
<1>2. \A u \in Task : task[u].at = "close" => task'[u].at = "close"
  BY DEF Others
<1>3. \A u \in Task : task'[u].at = "close" => task[u].at = "close" \/ u = t
  BY DEF Others
<1>4. \A c \in Client : c \in Departed => c \in Departed'
  BY <1>2 DEF Departed, SameGone
<1>5. \A c \in Client : c \in Departed' => c \in Departed
                                          \/ (c = t[1] /\ task'[t].at = "close")
  BY <1>3 DEF Departed, SameGone
<1>6. task'[t].at = "close" => t[1] \in Departed'
  BY <1>1 DEF Departed
<1>7. Departed \subseteq Client /\ Departed' \subseteq Client
  BY DEF Departed
<1>8. QED BY <1>1, <1>4, <1>5, <1>6, <1>7

(* The table stays as it is.                                               *)
Unmoved == clients' = clients /\ Departed' = Departed

(* What a disconnection does to a table.                                   *)
LEMMA DisconnectNames ==
  \A t \in Task : \A names : TypeOK /\ Disconnect(t, names) =>
    /\ Others(t) /\ SameGone
    /\ \/ task'[t].at # "close" /\ clients' = names
       \/ conn[t[1]] = "open" /\ task'[t].at = "close" /\ clients' = Freed(t[1], names)
<1> SUFFICES ASSUME NEW t \in Task, NEW names, TypeOK, Disconnect(t, names)
             PROVE  /\ Others(t) /\ SameGone
                    /\ \/ task'[t].at # "close" /\ clients' = names
                       \/ /\ conn[t[1]] = "open" /\ task'[t].at = "close"
                          /\ clients' = Freed(t[1], names)
  OBVIOUS
<1>1. CASE conn[t[1]] = "open"
  <2>1. /\ QuitRooms(t, joined[t[1]], {}, names)
        /\ conn' = [conn EXCEPT ![t[1]] = "closed"]
    BY <1>1 DEF Disconnect
  <2>2. SameGone
    BY <1>1, <2>1, TasksTyped DEF SameGone, TypeOK
  <2>3. QED BY <1>1, <2>1, <2>2, QuitNames
<1>2. CASE conn[t[1]] # "open"
  <2>1. clients' = names /\ conn' = conn /\ task' = [task EXCEPT ![t] = At("end")]
    BY <1>2 DEF Disconnect
  <2>2. Others(t) /\ task'[t].at = "end"
    BY <2>1 DEF TypeOK, Others, At
  <2>3. QED BY <2>1, <2>2 DEF SameGone
<1>3. QED BY <1>1, <1>2

(* Releasing one's nickname is leaving.                                    *)
LEMMA ReleaseLeaves ==
  \A t \in Task :
    /\ TypeOK /\ NickIInv("no") /\ nick' = nick
    /\ conn[t[1]] = "open" \/ task[t].at = "quit"
    /\ Others(t) /\ SameGone /\ task[t].at # "close" /\ task'[t].at = "close"
    /\ clients' = Freed(t[1], clients)
    => Registry!Leave(t[1])
<1> SUFFICES ASSUME NEW t \in Task, TypeOK, NickIInv("no"), nick' = nick,
                    conn[t[1]] = "open" \/ task[t].at = "quit",
                    Others(t), SameGone, task[t].at # "close", task'[t].at = "close",
                    clients' = Freed(t[1], clients)
             PROVE  Registry!Leave(t[1])
  OBVIOUS
<1>1. t[1] \in Client
  BY TasksTyped
<1>2. conn[t[1]] \in {"open", "closed"}
  BY DEF NickIInv, NickInv, OneCloser, Closing
<1>3. \A u \in Task : u[1] = t[1] => task[u].at # "close"
  <2>1. CASE conn[t[1]] = "open"
    BY <2>1 DEF NickIInv, NickInv, OneCloser, Closing
  <2>2. CASE task[t].at = "quit"
    BY <2>2 DEF NickIInv, NickInv, OneCloser, Closing
  <2>3. QED BY <2>1, <2>2
<1>4. t[1] \notin Departed
  BY <1>2, <1>3 DEF Departed
<1>5. \A n \in Nick : clients[n] = t[1] <=> n = nick[t[1]]
  BY <1>1, <1>2, <1>4, TableOwn
<1>6. clients' = [n \in Nick |-> IF clients[n] = t[1] THEN Nobody ELSE clients[n]]
  <2>1. clients' = [n \in Nick |-> IF n = nick[t[1]] THEN Nobody ELSE clients[n]]
    BY DEF Freed
  <2>2. QED BY <1>5, <2>1
<1>7. Departed' = Departed \cup {t[1]}
  BY DepartedMoves
<1>8. QED BY <1>4, <1>6, <1>7 DEF Registry!Leave, Registry!GivenUp

(* A disconnection of its own accord is nothing yet, or leaving.           *)
LEMMA DisconnectLeaves ==
  \A t \in Task :
    /\ TypeOK /\ NickIInv("no") /\ nick' = nick /\ task[t].at # "close"
    /\ Disconnect(t, clients)
    => Unmoved \/ Registry!Leave(t[1])
<1> SUFFICES ASSUME NEW t \in Task, TypeOK, NickIInv("no"), nick' = nick,
                    task[t].at # "close", Disconnect(t, clients)
             PROVE  Unmoved \/ Registry!Leave(t[1])
  OBVIOUS
<1>1. /\ Others(t) /\ SameGone
      /\ \/ task'[t].at # "close" /\ clients' = clients
         \/ conn[t[1]] = "open" /\ task'[t].at = "close" /\ clients' = Freed(t[1], clients)
  BY DisconnectNames
<1>2. CASE task'[t].at # "close" /\ clients' = clients
  BY <1>1, <1>2, DepartedMoves DEF Unmoved
<1>3. CASE conn[t[1]] = "open" /\ task'[t].at = "close" /\ clients' = Freed(t[1], clients)
  BY <1>1, <1>3, ReleaseLeaves
<1>4. QED BY <1>1, <1>2, <1>3

(* NICK is choosing, or leaving if its first round finds the room gone and *)
(* nobody has to hear of the disconnection.                                *)
LEMMA NickChooses ==
  \A c \in Client, n \in Nick :
    TypeOK /\ NickIInv("no") /\ NoLateNick /\ NickCmd(c, n)
      => Registry!Choose(c, n) \/ Registry!Leave(c)
<1> SUFFICES ASSUME NEW c \in Client, NEW n \in Nick, TypeOK, NickIInv("no"),
                    NoLateNick, NickCmd(c, n)
             PROVE  Registry!Choose(c, n) \/ Registry!Leave(c)
  OBVIOUS
<1> DEFINE names == Renaming(c, n)
<1>1. /\ task[Own(c)].at = "read"
      /\ conn[c] \in {"open", "closed"} /\ clients[n] \in {c, Nobody}
  BY DEF NickCmd, Reading
<1>2. nick'[c] = n /\ Own(c) \in Task /\ Own(c)[1] = c
  BY TasksTyped DEF NickCmd, TypeOK, Own
<1>3. c \notin Departed
  BY DEF NoLateNick
<1>4. \A m \in Nick : clients[m] = c <=> m = nick[c]
  BY <1>1, <1>3, TableOwn
<1>5. names = [Registry!GivenUp(c) EXCEPT ![n] = c]
  <2>1. \A m \in Nick : names[m] = IF m = n THEN c ELSE
                                   IF clients[m] = c THEN Nobody ELSE clients[m]
    BY <1>4 DEF Renaming
  <2>2. names = [m \in Nick |-> names[m]]
    BY DEF Renaming
  <2>3. QED BY <2>1, <2>2 DEF Registry!GivenUp
<1>6. Freed(c, names) = Registry!GivenUp(c)
  <2>1. \A m \in Nick : Freed(c, names)[m] = IF clients[m] = c THEN Nobody ELSE clients[m]
    BY <1>1, <1>2, <1>4 DEF Freed, Renaming
  <2>2. Freed(c, names) = [m \in Nick |-> Freed(c, names)[m]]
    BY DEF Freed
  <2>3. QED BY <2>1, <2>2 DEF Registry!GivenUp
<1> HIDE DEF names
<1>7. ASSUME clients' = names, Others(Own(c)), SameGone, task'[Own(c)].at # "close"
      PROVE  Registry!Choose(c, n)
  <2>1. Departed' = Departed
    BY <1>1, <1>2, <1>7, DepartedMoves
  <2>2. QED BY <1>1, <1>3, <1>5, <1>7, <2>1 DEF Registry!Choose
<1>8. CASE nick[c] = NoNick \/ joined[c] = {}
  <2>1. clients' = names /\ Back(c) /\ conn' = conn
    BY <1>8 DEF NickCmd, names
  <2>2. QED BY <1>7, <2>1, GotoMoves DEF SameGone
<1>9. CASE ~ (nick[c] = NoNick \/ joined[c] = {})
  <2>1. PICK r \in joined[c] : RenameIn(c, r, joined[c] \ {r}, nick[c], names)
    BY <1>9 DEF NickCmd, names
  <2>2. CASE r \in Present
    <3>1. clients' = names /\ conn' = conn
      BY <2>1, <2>2 DEF RenameIn
    <3>2. Others(Own(c)) /\ task'[Own(c)].at = "rename"
      <4>1. \A waiting : [At("rename") EXCEPT !.todo = joined[c] \ {r}, !.old = nick[c],
                                              !.wait = waiting].at = "rename"
        BY DEF At
      <4>2. PICK waiting : Goto(c, [At("rename") EXCEPT
                             !.todo = joined[c] \ {r}, !.old = nick[c], !.wait = waiting])
        BY <2>1, <2>2 DEF RenameIn
      <4>3. QED BY <4>1, <4>2, GotoMoves
    <3>3. QED BY <1>7, <3>1, <3>2 DEF SameGone
  <2>3. CASE r \notin Present
    <3>1. Disconnect(Own(c), names)
      BY <2>1, <2>3 DEF RenameIn
    <3>2. /\ Others(Own(c)) /\ SameGone
          /\ \/ task'[Own(c)].at # "close" /\ clients' = names
             \/ task'[Own(c)].at = "close" /\ clients' = Freed(c, names)
      BY <1>2, <3>1, DisconnectNames
    <3>3. CASE task'[Own(c)].at # "close" /\ clients' = names
      BY <1>7, <3>2, <3>3
    <3>4. CASE task'[Own(c)].at = "close" /\ clients' = Freed(c, names)
      <4>1. Departed' = Departed \cup {c}
        BY <1>1, <1>2, <3>2, <3>4, DepartedMoves
      <4>2. QED BY <1>3, <1>6, <3>4, <4>1 DEF Registry!Leave
    <3>5. QED BY <3>2, <3>3, <3>4
  <2>4. QED BY <2>2, <2>3
<1>10. QED BY <1>8, <1>9

(* A task goes on without a disconnection: the table stays.                *)
LEMMA StepUnmoved ==
  \A c \in Client :
    /\ Others(Own(c)) /\ UNCHANGED <<conn, clients>>
    /\ task[Own(c)].at # "close" /\ task'[Own(c)].at # "close"
    => Unmoved
  BY DepartedMoves, TasksTyped DEF SameGone, Unmoved

(* What one step means to the registry.                                    *)
RegistryStep == Unmoved \/ \E c \in Client :
                  Registry!Leave(c) \/ \E n \in Nick : Registry!Choose(c, n)

LEMMA CommandRegistry ==
  ASSUME TypeOK, NickIInv("no"), NoLateNick, NEW c \in Client, Command(c)
  PROVE  RegistryStep
<1>1. ASSUME NEW n \in Nick, NickCmd(c, n) PROVE RegistryStep
  BY <1>1, NickChooses DEF RegistryStep
<1>2. ASSUME NEW frame, Goto(c, frame), task[Own(c)].at = "read",
             frame.at # "close", UNCHANGED <<conn, clients>>
      PROVE  RegistryStep
  BY <1>2, GotoMoves, StepUnmoved DEF RegistryStep
<1>3. ASSUME NEW room, NEW x, Broadcasting(c, room, x),
             task[Own(c)].at = "read", UNCHANGED <<conn, clients>>
      PROVE  RegistryStep
  BY <1>3, GotoMoves, StepUnmoved DEF RegistryStep
<1>4. ASSUME NEW n \in Nick, Message(c, n) PROVE RegistryStep
  <2>1. task[Own(c)].at = "read" /\ nick' = nick
    BY <1>4 DEF Message, Reading
  <2>2. CASE lost[clients[n]]
    <3>1. Disconnect(Own(c), clients)
      BY <1>4, <2>2 DEF Message
    <3>2. Unmoved \/ Registry!Leave(Own(c)[1])
      BY <2>1, <3>1, DisconnectLeaves, TasksTyped
    <3>3. QED BY <3>2 DEF RegistryStep, Own
  <2>3. CASE ~ lost[clients[n]]
    <3>1. /\ Goto(c, [At("direct") EXCEPT !.wait = {clients[n]}])
          /\ UNCHANGED <<conn, clients>>
      BY <1>4, <2>3 DEF Message, serverVars
    <3>2. [At("direct") EXCEPT !.wait = {clients[n]}].at = "direct"
      BY DEF At
    <3>3. QED BY <1>2, <2>1, <3>1, <3>2
  <2>4. QED BY <2>2, <2>3
<1>5. CASE UserCmd(c)
  <2>1. Back(c) /\ task[Own(c)].at = "read" /\ UNCHANGED <<conn, clients>>
    BY <1>5 DEF UserCmd, Reading, serverVars
  <2>2. QED BY <2>1, GotoMoves, StepUnmoved DEF RegistryStep
<1>6. ASSUME NEW r \in Channel, Join(c, r) \/ JoinNew(c, r) \/ Tell(c, r)
      PROVE  RegistryStep
  BY <1>3, <1>6 DEF Join, JoinNew, Tell, Enter, Reading, connVars, serverVars
<1>7. ASSUME NEW r \in Channel, Part(c, r) PROVE RegistryStep
  <2>1. [At("part") EXCEPT !.room = ObjectOf(r),
           !.wait = Listeners(RoomOf(r), Nobody)].at = "part"
    BY DEF At
  <2>2. QED BY <1>2, <1>7, <2>1 DEF Part, Reading, connVars, serverVars
<1>8. ASSUME NEW r \in Channel, Who(c, r) PROVE RegistryStep
  <2>1. [At("who") EXCEPT !.room = ObjectOf(r), !.wait = {c},
           !.size = Cardinality(Users(RoomOf(r)))].at = "who"
    BY DEF At
  <2>2. QED BY <1>2, <1>8, <2>1 DEF Who, Reading, connVars, serverVars
<1>9. ASSUME NEW r \in Channel, NEW n \in Nick, NEW given \in BOOLEAN,
             SetCKey(c, r, n) \/ Mode(c, r, n, given)
      PROVE  RegistryStep
  BY <1>3, <1>9 DEF SetCKey, Mode, Reading, connVars
<1>10. CASE List(c)
  <2>1. [At("list") EXCEPT !.wait = {c}, !.size = Cardinality(Present)].at = "list"
    BY DEF At
  <2>2. QED BY <1>2, <1>10, <2>1 DEF List, Reading, connVars, serverVars
<1>11. QED
  BY <1>1, <1>4, <1>5, <1>6, <1>7, <1>8, <1>9, <1>10 DEF Command

LEMMA ResumeRegistry ==
  ASSUME TypeOK, NickIInv("no"), NEW t \in Task, Resume(t)
  PROVE  RegistryStep
<1>1. t[1] \in Client
  BY TasksTyped
<1>2. CASE QuitNext(t)
  <2>1. /\ QuitRooms(t, task[t].todo, {task[t].room}, clients)
        /\ task[t].at = "quit" /\ nick' = nick /\ conn' = conn
    BY <1>2 DEF QuitNext
  <2>2. /\ Others(t) /\ SameGone
        /\ \/ (task'[t].at = "quit" /\ clients' = clients)
           \/ (task'[t].at = "close" /\ clients' = Freed(t[1], clients))
    BY <2>1, QuitNames DEF SameGone
  <2>3. CASE task'[t].at = "quit" /\ clients' = clients
    BY <2>1, <2>2, <2>3, DepartedMoves DEF RegistryStep, Unmoved
  <2>4. CASE task'[t].at = "close" /\ clients' = Freed(t[1], clients)
    BY <1>1, <2>1, <2>2, <2>4, ReleaseLeaves DEF RegistryStep
  <2>5. QED BY <2>2, <2>3, <2>4
<1>3. ASSUME NEW c \in Client, Back(c), task[Own(c)].at # "close",
             UNCHANGED <<conn, clients>>
      PROVE  RegistryStep
  BY <1>3, GotoMoves, StepUnmoved DEF RegistryStep
<1>4. ASSUME NEW c \in Client, Disconnect(Own(c), clients), nick' = nick,
             task[Own(c)].at # "close"
      PROVE  RegistryStep
  <2>1. Unmoved \/ Registry!Leave(Own(c)[1])
    BY <1>4, DisconnectLeaves, TasksTyped
  <2>2. QED BY <2>1 DEF RegistryStep, Own
<1>5. ASSUME NEW c \in Client, RenameNext(c) PROVE RegistryStep
  <2>1. task[Own(c)].at = "rename" /\ nick' = nick
    BY <1>5 DEF RenameNext
  <2>2. CASE task[Own(c)].todo = {}
    BY <1>3, <1>5, <2>1, <2>2 DEF RenameNext, serverVars
  <2>3. CASE task[Own(c)].todo # {}
    <3>1. PICK r \in task[Own(c)].todo :
            RenameIn(c, r, task[Own(c)].todo \ {r}, task[Own(c)].old, clients)
      BY <1>5, <2>3 DEF RenameNext
    <3>2. CASE r \in Present
      <4>1. UNCHANGED <<conn, clients>>
        BY <3>1, <3>2 DEF RenameIn
      <4>2. task'[Own(c)].at = "rename" /\ Others(Own(c))
        <5> DEFINE rest == task[Own(c)].todo \ {r}  old == task[Own(c)].old
        <5>1. \A waiting : [At("rename") EXCEPT !.todo = rest, !.old = old,
                                                !.wait = waiting].at = "rename"
          BY DEF At
        <5>2. PICK waiting : Goto(c, [At("rename") EXCEPT !.todo = rest, !.old = old,
                                                          !.wait = waiting])
          BY <3>1, <3>2 DEF RenameIn
        <5> HIDE DEF rest, old
        <5>3. QED BY <5>1, <5>2, GotoMoves
      <4>3. QED BY <2>1, <4>1, <4>2, StepUnmoved DEF RegistryStep
    <3>3. CASE r \notin Present
      BY <1>4, <2>1, <3>1, <3>3 DEF RenameIn
    <3>4. QED BY <3>2, <3>3
  <2>4. QED BY <2>2, <2>3
<1>6. ASSUME NEW c \in Client, PartNext(c) \/ Told(c) PROVE RegistryStep
  BY <1>3, <1>6 DEF PartNext, Told, connVars, serverVars
<1>7. ASSUME NEW c \in Client, MessageFailed(c) PROVE RegistryStep
  BY <1>4, <1>7 DEF MessageFailed
<1>8. ASSUME NEW c \in Client, Replied(c) PROVE RegistryStep
  <2>1. CASE Iterated(task[Own(c)]) = task[Own(c)].size
    BY <1>3, <1>8, <2>1 DEF Replied, serverVars
  <2>2. CASE Iterated(task[Own(c)]) # task[Own(c)].size
    BY <1>4, <1>8, <2>2 DEF Replied
  <2>3. QED BY <2>1, <2>2
<1>9. QED BY <1>1, <1>2, <1>5, <1>6, <1>7, <1>8 DEF Resume

LEMMA NextRegistry ==
  ASSUME TypeOK, NickIInv("no"), [Next]_vars, [NoLateNick]_vars
  PROVE  RegistryStep
<1>1. CASE /\ clients' = clients /\ SameGone
           /\ \A t \in Task : task'[t].at = "close" <=> task[t].at = "close"
  <2>1. Departed' = Departed
    BY <1>1 DEF Departed, SameGone
  <2>2. QED BY <1>1, <2>1 DEF RegistryStep, Unmoved
<1>2. ASSUME NEW c \in Client, Connect(c) PROVE RegistryStep
  <2>1. /\ task[Own(c)].at = "idle" /\ Own(c) \in Task /\ clients' = clients
        /\ conn' = [conn EXCEPT ![c] = "open"]
        /\ task' = [task EXCEPT ![Own(c)] = At("read")]
    BY <1>2, TasksTyped DEF Connect, serverVars
  <2>2. conn[c] = "none"
    BY <2>1 DEF NickIInv, NickInv, IdleFresh
  <2>3. SameGone
    BY <2>1, <2>2 DEF SameGone, TypeOK
  <2>4. \A t \in Task : task'[t].at = "close" <=> task[t].at = "close"
    BY <2>1 DEF TypeOK, At
  <2>5. QED BY <1>1, <2>1, <2>3, <2>4
<1>3. ASSUME NEW t \in Task, Disconnect(t, clients), nick' = nick,
             task[t].at # "close"
      PROVE  RegistryStep
  BY <1>3, DisconnectLeaves, TasksTyped DEF RegistryStep
<1>4. ASSUME NEW c \in Client, Leave(c) \/ DrainClient(c) PROVE RegistryStep
  BY <1>3, <1>4, TasksTyped DEF Leave, DrainClient
<1>5. ASSUME NEW t \in Task, Closed(t) PROVE RegistryStep
  <2>1. /\ task[t].at = "close" /\ t[1] \in Client /\ clients' = clients
        /\ conn' = [conn EXCEPT ![t[1]] = "gone"]
        /\ task' = [task EXCEPT ![t] = At("end")]
    BY <1>5, TasksTyped DEF Closed, serverVars
  <2>2. \A u \in Task : task'[u].at = "close" <=> task[u].at = "close" /\ u # t
    BY <2>1 DEF TypeOK, At
  <2>3. \A c \in Client : conn'[c] = "gone" <=> conn[c] = "gone" \/ c = t[1]
    BY <2>1 DEF TypeOK
  <2>4. \A u \in Task : task[u].at = "close" /\ u # t => u[1] # t[1]
    BY <2>1 DEF NickIInv, NickInv, OneCloser, Closing
  <2>5. \A c \in Client : c \in Departed' <=> c \in Departed
    BY <2>1, <2>2, <2>3, <2>4 DEF Departed
  <2>6. Departed' = Departed
    BY <2>5 DEF Departed
  <2>7. QED BY <2>1, <2>6 DEF RegistryStep, Unmoved
<1>6. CASE BeginDrain
  <2>1. UNCHANGED <<conn, clients>> /\ drain = "requested"
    BY <1>6 DEF BeginDrain, connVars, serverVars
  <2>2. \A t \in Task : t[2] = "drain" => task[t].at = "end"
    <3>1. \A t \in Task : t[2] = "drain" => t = Drainer(t[1]) /\ t[1] \in Client
      BY DEF Task, Drainer
    <3>2. QED BY <2>1, <3>1 DEF NickIInv, DrainLater
  <2>3. \A t \in Task : task'[t].at = "close" <=> task[t].at = "close"
    BY <1>6, <2>2 DEF BeginDrain, At
  <2>4. QED BY <1>1, <2>1, <2>3 DEF SameGone
<1>7. CASE RequestDrain \/ vars' = vars
  BY <1>1, <1>7 DEF RequestDrain, vars, connVars, serverVars, SameGone
<1>8. ASSUME NEW c \in Client, Lose(c) PROVE RegistryStep
  BY <1>1, <1>8 DEF Lose, serverVars, SameGone
<1>9. ASSUME NEW c \in Client, Command(c), NoLateNick PROVE RegistryStep
  BY <1>9, CommandRegistry
<1>10. QED
  BY <1>2, <1>4, <1>5, <1>6, <1>7, <1>8, <1>9, ResumeRegistry DEF Next

(* The whole invariant holds while no NICK comes too late.                 *)
LEMMA TableKept ==
  ASSUME TypeOK, NickIInv("no"), [Next]_vars, [NoLateNick]_vars
  PROVE  NickIInv("no")'
<1>1. CASE vars' = vars
  BY <1>1 DEF vars, connVars, serverVars, NickIInv, NickInv, IdleFresh, OneCloser,
     Holds, Unique, Named, DrainLater
<1>2. CASE NoLateNick
  BY <1>2, NextNick
<1>3. QED BY <1>1, <1>2

(* What a drain may not do if the table is to keep its promise to the end. *)
NoneLateInDrain == drain = "begun" => NoLateNick

(* The chat service implements Nicknames for any number of connections,    *)
(* nicknames and rooms, up to the drain without any condition, and through *)
(* it as long as no connection that the drain has disconnected has a NICK  *)
(* executed: nobody is given a nickname somebody else has, nobody's is     *)
(* taken away, and nobody releases another's.                              *)
THEOREM NicknamesCorrect ==
  Spec /\ [][NoneLateInDrain]_vars => ImplementsNicknames
<1>1. Init => Registry!Init
  <2> SUFFICES ASSUME Init PROVE Registry!Init
    OBVIOUS
  <2>1. \A t \in Task : task[t].at \in {"idle", "end"}
    BY DEF Init, At
  <2>2. Departed = {}
    BY <2>1 DEF Departed, Init
  <2>3. QED BY <2>2 DEF Init, Registry!Init
<1>2. TypeOK /\ NickIInv("no") /\ [Next]_vars /\ [NoLateNick]_vars
        => [Registry!Next]_(Registry!vars)
  <2> SUFFICES ASSUME TypeOK, NickIInv("no"), [Next]_vars, [NoLateNick]_vars
               PROVE  [Registry!Next]_(Registry!vars)
    OBVIOUS
  <2>1. RegistryStep
    BY NextRegistry
  <2>2. QED BY <2>1 DEF RegistryStep, Unmoved, Registry!Next, Registry!vars
<1>3. TypeOK /\ NickOK /\ [NoneLateInDrain]_vars => [NoLateNick]_vars
  BY NoneLate DEF NoneLateInDrain
<1>4. TypeOK /\ NickIInv("no") /\ [Next]_vars /\ [NoLateNick]_vars => NickIInv("no")'
  BY TableKept
<1>5. Init => NickIInv("no")
  BY InitNick
<1>6. QED
  BY <1>1, <1>2, <1>3, <1>4, <1>5, NickInvariant, PTL
  DEF Spec, ImplementsNicknames, Registry!Spec

-----------------------------------------------------------------------------
(* Disconnections that wait for one another.  A closed connection's task   *)
(* sends to those that were open when it reached a room, so of any closed  *)
(* connections the last to have reached one waits for none of the others.  *)

Leaving(S) == S # {} /\ \A c \in S : conn[c] = "closed"

Founded ==
  \A S \in SUBSET Client : Leaving(S) =>
    \E c \in S : \A t \in Task :
      t[1] = c /\ task[t].at = "quit" => task[t].wait \cap S = {}

(* Whoever a disconnection waits for has connected.                        *)
WaitsKnown ==
  \A t \in Task : task[t].at = "quit" => \A d \in task[t].wait : conn[d] # "none"

(* An open connection has a reading task, and a drain will close it.       *)
OpenTasks ==
  \A c \in Client : conn[c] = "open" =>
    /\ task[Own(c)].at \notin {"idle", "end"}
    /\ drain = "begun" => task[Drainer(c)].at = "start"

StuckInv == Founded /\ WaitsKnown /\ OpenTasks

(* A step of the tasks of one connection that leaves its disconnection, if *)
(* there is one, as it is.                                                 *)
Calm(t) ==
  /\ Others(t) /\ UNCHANGED <<conn, drain>>
  /\ ~ Closing(task[t]) /\ ~ Closing(task'[t])
  /\ conn[t[1]] = "open" => t = Own(t[1]) /\ task'[t].at \notin {"idle", "end"}

LEMMA CalmStuck == \A t \in Task : StuckInv /\ Calm(t) => StuckInv'
<1> SUFFICES ASSUME NEW t \in Task, StuckInv, Calm(t) PROVE StuckInv'
  OBVIOUS
<1>1. \A u \in Task : task'[u].at = "quit" => u # t /\ task'[u] = task[u]
  BY DEF Calm, Others, Closing
<1>2. conn' = conn
  BY DEF Calm
<1>3. Founded'
  <2> SUFFICES ASSUME NEW S \in SUBSET Client, Leaving(S)'
               PROVE  \E c \in S : \A u \in Task :
                        u[1] = c /\ task'[u].at = "quit" => task'[u].wait \cap S = {}
    BY DEF Founded
  <2>1. Leaving(S)
    BY <1>2 DEF Leaving
  <2>2. PICK c \in S : \A u \in Task :
          u[1] = c /\ task[u].at = "quit" => task[u].wait \cap S = {}
    BY <2>1 DEF StuckInv, Founded
  <2>3. QED BY <1>1, <2>2
<1>4. WaitsKnown'
  BY <1>1, <1>2 DEF StuckInv, WaitsKnown
<1>5. ASSUME NEW c \in Client, conn'[c] = "open"
      PROVE  /\ task'[Own(c)].at \notin {"idle", "end"}
             /\ drain' = "begun" => task'[Drainer(c)].at = "start"
  <2>1. /\ Own(c) \in Task /\ Drainer(c) \in Task /\ Own(c)[1] = c /\ Drainer(c)[1] = c
        /\ Own(c) # Drainer(c)
    BY TasksTyped DEF Own, Drainer
  <2>2. /\ task[Own(c)].at \notin {"idle", "end"}
        /\ drain' = "begun" => task[Drainer(c)].at = "start"
    BY <1>2, <1>5 DEF StuckInv, OpenTasks, Calm
  <2>3. t # Drainer(c)
    BY <1>2, <1>5, <2>1 DEF Calm
  <2>4. QED BY <1>2, <1>5, <2>1, <2>2, <2>3 DEF Calm, Others
<1>6. QED BY <1>3, <1>4, <1>5 DEF StuckInv, OpenTasks

(* A task that reaches the next room waits for open connections only, and  *)
(* not for its own.                                                        *)
LEMMA QuitWaits ==
  \A t \in Task : \A todo, L, names : TypeOK /\ QuitRooms(t, todo, L, names) =>
    /\ Others(t) /\ Closing(task'[t])
    /\ task'[t].at = "quit" => \A d \in task'[t].wait : conn[d] = "open" /\ d # t[1]
<1> SUFFICES ASSUME NEW t \in Task, NEW todo, NEW L, NEW names, TypeOK,
                    QuitRooms(t, todo, L, names)
             PROVE  /\ Others(t) /\ Closing(task'[t])
                    /\ task'[t].at = "quit" =>
                         \A d \in task'[t].wait : conn[d] = "open" /\ d # t[1]
  OBVIOUS
<1>1. Others(t) /\ Closing(task'[t])
  BY QuitMoves DEF Closing
<1>2. ASSUME task' = [task EXCEPT ![t] = At("close")] PROVE task'[t].at # "quit"
  BY <1>2 DEF TypeOK, At
<1>3. ASSUME NEW S, NEW r,
             task' = [task EXCEPT ![t] =
               [At("quit") EXCEPT !.room = ObjectOf(r), !.todo = todo \ (S \cup {r}),
                                  !.wait = Listeners(RoomOf(r), t[1])]]
      PROVE  task'[t].wait = Listeners(RoomOf(r), t[1])
  <2> DEFINE o == ObjectOf(r)  rest == todo \ (S \cup {r})
             waiting == Listeners(RoomOf(r), t[1])
             f == [At("quit") EXCEPT !.room = o, !.todo = rest, !.wait = waiting]
  <2>1. task' = [task EXCEPT ![t] = f]
    BY <1>3
  <2>2. f.wait = waiting
    <3> HIDE DEF o, rest, waiting
    <3>1. QED BY DEF At
  <2> HIDE DEF f, waiting
  <2>3. task'[t].wait = waiting
    BY <2>1, <2>2 DEF TypeOK
  <2>4. QED BY <2>3 DEF waiting
<1>4. \/ task' = [task EXCEPT ![t] = At("close")]
      \/ \E S \in SUBSET todo : \E r \in (todo \ S) \cap Present :
           task' = [task EXCEPT ![t] =
             [At("quit") EXCEPT !.room = ObjectOf(r), !.todo = todo \ (S \cup {r}),
                                !.wait = Listeners(RoomOf(r), t[1])]]
  BY DEF QuitRooms
<1>5. task'[t].at = "quit" => \E r : task'[t].wait = Listeners(RoomOf(r), t[1])
  BY <1>2, <1>3, <1>4
<1>6. \A r : \A d \in Listeners(RoomOf(r), t[1]) : conn[d] = "open" /\ d # t[1]
  BY DEF Listeners
<1>7. QED BY <1>1, <1>5, <1>6

LEMMA ReachStuck ==
  \A t \in Task : \A todo, L, names :
    /\ TypeOK /\ TypeOK' /\ StuckInv /\ NickOK' /\ QuitRooms(t, todo, L, names)
    /\ conn' = [conn EXCEPT ![t[1]] = "closed"] /\ drain' = drain
    /\ conn[t[1]] \in {"open", "closed"}
    => StuckInv'
<1> SUFFICES ASSUME NEW t \in Task, NEW todo, NEW L, NEW names, TypeOK, TypeOK',
                    StuckInv, NickOK', QuitRooms(t, todo, L, names),
                    conn' = [conn EXCEPT ![t[1]] = "closed"], drain' = drain,
                    conn[t[1]] \in {"open", "closed"}
             PROVE  StuckInv'
  OBVIOUS
<1> DEFINE c == t[1]
<1>1. /\ Others(t) /\ Closing(task'[t])
      /\ task'[t].at = "quit" => \A d \in task'[t].wait : conn[d] = "open" /\ d # c
  BY QuitWaits
<1>2. /\ c \in Client /\ conn'[c] = "closed"
      /\ \A d \in Client \ {c} : conn'[d] = conn[d]
  BY TasksTyped DEF TypeOK
<1>3. \A u \in Task : u[1] = c /\ task'[u].at = "quit" => u = t
  BY <1>1 DEF NickOK, NickIInv, NickInv, OneCloser, Closing
<1>4. Founded'
  <2> SUFFICES ASSUME NEW S \in SUBSET Client, S # {}, \A d \in S : conn'[d] = "closed"
               PROVE  \E d \in S : \A u \in Task :
                        u[1] = d /\ task'[u].at = "quit" => task'[u].wait \cap S = {}
    BY DEF Founded, Leaving
  <2>1. CASE c \in S
    <3>1. \A d \in S : d = c \/ conn[d] = "closed"
      BY <1>2
    <3>2. task'[t].at = "quit" => task'[t].wait \cap S = {}
      BY <1>1, <3>1
    <3>3. QED BY <1>3, <2>1, <3>2
  <2>2. CASE c \notin S
    <3>1. Leaving(S)
      BY <1>2, <2>2 DEF Leaving
    <3>2. PICK d \in S : \A u \in Task :
            u[1] = d /\ task[u].at = "quit" => task[u].wait \cap S = {}
      BY <3>1 DEF StuckInv, Founded
    <3>3. \A u \in Task : u[1] = d => task'[u] = task[u]
      BY <1>1, <2>2 DEF Others
    <3>4. QED BY <3>2, <3>3
  <2>3. QED BY <2>1, <2>2
<1>5. WaitsKnown'
  <2> SUFFICES ASSUME NEW u \in Task, task'[u].at = "quit", NEW d \in task'[u].wait
               PROVE  conn'[d] # "none"
    BY DEF WaitsKnown
  <2>1. conn[d] # "none"
    <3>1. CASE u = t
      BY <1>1, <3>1
    <3>2. CASE u # t
      BY <1>1, <3>2 DEF Others, StuckInv, WaitsKnown
    <3>3. QED BY <3>1, <3>2
  <2>2. d \in Client
    BY DEF TypeOK, Frame
  <2>3. QED BY <1>2, <2>1, <2>2
<1>6. ASSUME NEW d \in Client, conn'[d] = "open"
      PROVE  /\ task'[Own(d)].at \notin {"idle", "end"}
             /\ drain' = "begun" => task'[Drainer(d)].at = "start"
  <2>1. d # c /\ conn[d] = "open"
    BY <1>2, <1>6
  <2>2. /\ Own(d) \in Task /\ Drainer(d) \in Task /\ Own(d) # t /\ Drainer(d) # t
    BY <2>1, TasksTyped
  <2>3. task'[Own(d)] = task[Own(d)] /\ task'[Drainer(d)] = task[Drainer(d)]
    BY <1>1, <2>2 DEF Others
  <2>4. QED BY <2>1, <2>3 DEF StuckInv, OpenTasks
<1>7. QED BY <1>4, <1>5, <1>6 DEF StuckInv, OpenTasks

(* A task that disconnects its connection, or finds it closed already.     *)
LEMMA EndStuck ==
  \A t \in Task : \A names :
    /\ TypeOK /\ TypeOK' /\ StuckInv /\ NickOK' /\ Disconnect(t, names)
    /\ drain' = drain /\ ~ Closing(task[t])
    => StuckInv'
<1> SUFFICES ASSUME NEW t \in Task, NEW names, TypeOK, TypeOK', StuckInv, NickOK',
                    Disconnect(t, names), drain' = drain, ~ Closing(task[t])
             PROVE  StuckInv'
  OBVIOUS
<1>1. CASE conn[t[1]] = "open"
  BY <1>1, ReachStuck DEF Disconnect
<1>2. CASE conn[t[1]] # "open"
  <2>1. task' = [task EXCEPT ![t] = At("end")] /\ conn' = conn
    BY <1>2 DEF Disconnect
  <2>2. Others(t) /\ task'[t].at = "end"
    BY <2>1 DEF TypeOK, Others, At
  <2>3. Calm(t)
    BY <1>2, <2>1, <2>2 DEF Calm, Closing
  <2>4. QED BY <2>3, CalmStuck
<1>3. QED BY <1>1, <1>2

(* The reading task goes to another await, or back to reading.             *)
LEMMA GotoStuck ==
  \A c \in Client :
    /\ TypeOK /\ StuckInv /\ UNCHANGED <<conn, drain>> /\ ~ Closing(task[Own(c)])
    /\ \/ \E frame : /\ Goto(c, frame)
                     /\ frame.at \notin {"idle", "end", "quit", "close"}
       \/ \E room, x : Broadcasting(c, room, x)
       \/ Back(c)
    => StuckInv'
<1> SUFFICES ASSUME NEW c \in Client, TypeOK, StuckInv, UNCHANGED <<conn, drain>>,
                    ~ Closing(task[Own(c)]),
                    \/ \E frame : /\ Goto(c, frame)
                                  /\ frame.at \notin {"idle", "end", "quit", "close"}
                    \/ \E room, x : Broadcasting(c, room, x)
                    \/ Back(c)
             PROVE  StuckInv'
  OBVIOUS
<1>1. Own(c) \in Task /\ Own(c)[1] = c
  BY TasksTyped
<1>2. /\ Others(Own(c)) /\ task'[Own(c)].at \notin {"idle", "quit", "close"}
      /\ task'[Own(c)].at = "end" => Back(c)
  BY GotoMoves
<1>3. Back(c) /\ conn[c] = "open" => task'[Own(c)].at # "end"
  <2> SUFFICES ASSUME Back(c), conn[c] = "open" PROVE task'[Own(c)].at # "end"
    OBVIOUS
  <2>1. Goto(c, At("read"))
    BY DEF Back
  <2>2. QED BY <2>1, GotoMoves DEF At
<1>4. Calm(Own(c))
  BY <1>1, <1>2, <1>3 DEF Calm, Closing
<1>5. QED BY <1>1, <1>4, CalmStuck

LEMMA RenameStuck ==
  \A c \in Client : \A r, todo, old, names :
    /\ TypeOK /\ TypeOK' /\ StuckInv /\ NickOK' /\ drain' = drain
    /\ RenameIn(c, r, todo, old, names) /\ ~ Closing(task[Own(c)])
    => StuckInv'
<1> SUFFICES ASSUME NEW c \in Client, NEW r, NEW todo, NEW old, NEW names, TypeOK,
                    TypeOK', StuckInv, NickOK', drain' = drain,
                    RenameIn(c, r, todo, old, names), ~ Closing(task[Own(c)])
             PROVE  StuckInv'
  OBVIOUS
<1>1. CASE r \in Present
  <2>1. \A waiting : [At("rename") EXCEPT !.todo = todo, !.old = old,
                                          !.wait = waiting].at = "rename"
    BY DEF At
  <2>2. PICK waiting : Goto(c, [At("rename") EXCEPT !.todo = todo, !.old = old,
                                                    !.wait = waiting])
    BY <1>1 DEF RenameIn
  <2> DEFINE f == [At("rename") EXCEPT !.todo = todo, !.old = old, !.wait = waiting]
  <2>3. Goto(c, f) /\ f.at = "rename"
    BY <2>1, <2>2
  <2> HIDE DEF f
  <2>4. conn' = conn
    BY <1>1 DEF RenameIn
  <2>5. QED BY <2>3, <2>4, GotoStuck
<1>2. CASE r \notin Present
  BY <1>2, EndStuck, TasksTyped DEF RenameIn
<1>3. QED BY <1>1, <1>2

LEMMA CommandStuck ==
  ASSUME TypeOK, TypeOK', StuckInv, NickOK', NEW c \in Client, Command(c)
  PROVE  StuckInv'
<1>1. ASSUME NEW n \in Nick, NickCmd(c, n) PROVE StuckInv'
  <2>1. ~ Closing(task[Own(c)]) /\ drain' = drain
    BY <1>1 DEF NickCmd, Reading, Closing
  <2>2. CASE nick[c] = NoNick \/ joined[c] = {}
    BY <1>1, <2>1, <2>2, GotoStuck DEF NickCmd
  <2>3. CASE ~ (nick[c] = NoNick \/ joined[c] = {})
    <3>1. \E r \in joined[c] :
            RenameIn(c, r, joined[c] \ {r}, nick[c], Renaming(c, n))
      BY <1>1, <2>3 DEF NickCmd
    <3>2. QED BY <2>1, <3>1, RenameStuck
  <2>4. QED BY <2>2, <2>3
<1>2. ASSUME NEW n \in Nick, Message(c, n) PROVE StuckInv'
  <2>1. ~ Closing(task[Own(c)]) /\ drain' = drain
    BY <1>2 DEF Message, Reading, Closing
  <2>2. CASE lost[clients[n]]
    BY <1>2, <2>1, <2>2, EndStuck, TasksTyped DEF Message
  <2>3. CASE ~ lost[clients[n]]
    <3>1. Goto(c, [At("direct") EXCEPT !.wait = {clients[n]}]) /\ conn' = conn
      BY <1>2, <2>3 DEF Message
    <3>2. [At("direct") EXCEPT !.wait = {clients[n]}].at = "direct"
      BY DEF At
    <3>3. QED BY <2>1, <3>1, <3>2, GotoStuck
  <2>4. QED BY <2>2, <2>3
<1>3. CASE UserCmd(c)
  BY <1>3, GotoStuck DEF UserCmd, Reading, Closing
<1>4. ASSUME NEW r \in Channel, Join(c, r) \/ JoinNew(c, r) PROVE StuckInv'
  BY <1>4, GotoStuck DEF Join, JoinNew, Enter, Reading, Closing
<1>5. ASSUME NEW r \in Channel, Part(c, r) PROVE StuckInv'
  <2>1. [At("part") EXCEPT !.room = ObjectOf(r),
           !.wait = Listeners(RoomOf(r), Nobody)].at = "part"
    BY DEF At
  <2>2. QED BY <1>5, <2>1, GotoStuck DEF Part, Reading, Closing, connVars
<1>6. ASSUME NEW r \in Channel, Tell(c, r) PROVE StuckInv'
  BY <1>6, GotoStuck DEF Tell, Reading, Closing, connVars
<1>7. ASSUME NEW r \in Channel, Who(c, r) PROVE StuckInv'
  <2>1. [At("who") EXCEPT !.room = ObjectOf(r), !.wait = {c},
           !.size = Cardinality(Users(RoomOf(r)))].at = "who"
    BY DEF At
  <2>2. QED BY <1>7, <2>1, GotoStuck DEF Who, Reading, Closing, connVars
<1>8. ASSUME NEW r \in Channel, NEW n \in Nick, NEW given \in BOOLEAN,
             SetCKey(c, r, n) \/ Mode(c, r, n, given)
      PROVE  StuckInv'
  BY <1>8, GotoStuck DEF SetCKey, Mode, Reading, Closing, connVars
<1>9. CASE List(c)
  <2>1. [At("list") EXCEPT !.wait = {c}, !.size = Cardinality(Present)].at = "list"
    BY DEF At
  <2>2. QED BY <1>9, <2>1, GotoStuck DEF List, Reading, Closing, connVars
<1>10. QED
  BY <1>1, <1>2, <1>3, <1>4, <1>5, <1>6, <1>7, <1>8, <1>9 DEF Command

LEMMA ResumeStuck ==
  ASSUME TypeOK, TypeOK', StuckInv, NickOK, NickOK', NEW t \in Task, Resume(t)
  PROVE  StuckInv'
<1>1. t[1] \in Client
  BY TasksTyped
<1>2. CASE QuitNext(t)
  <2>1. conn[t[1]] = "closed"
    BY <1>2 DEF QuitNext, NickOK, NickIInv, NickInv, OneCloser, Closing
  <2>2. conn' = [conn EXCEPT ![t[1]] = "closed"]
    BY <1>1, <1>2, <2>1 DEF QuitNext, TypeOK
  <2>3. QED BY <1>2, <2>1, <2>2, ReachStuck DEF QuitNext
<1>3. ASSUME NEW c \in Client, RenameNext(c) PROVE StuckInv'
  <2>1. ~ Closing(task[Own(c)]) /\ drain' = drain
    BY <1>3 DEF RenameNext, Closing
  <2>2. \/ Back(c) /\ conn' = conn
        \/ \E r \in task[Own(c)].todo :
             RenameIn(c, r, task[Own(c)].todo \ {r}, task[Own(c)].old, clients)
    BY <1>3 DEF RenameNext
  <2>3. QED BY <2>1, <2>2, GotoStuck, RenameStuck
<1>4. ASSUME NEW c \in Client, PartNext(c) \/ Told(c) PROVE StuckInv'
  BY <1>4, GotoStuck DEF PartNext, Told, connVars, Closing
<1>5. ASSUME NEW c \in Client, MessageFailed(c) \/ Replied(c) PROVE StuckInv'
  <2>1. ~ Closing(task[Own(c)]) /\ drain' = drain
    BY <1>5 DEF MessageFailed, Replied, Closing
  <2>2. \/ Back(c) /\ conn' = conn
        \/ Disconnect(Own(c), clients)
    BY <1>5 DEF MessageFailed, Replied
  <2>3. QED BY <2>1, <2>2, GotoStuck, EndStuck, TasksTyped
<1>6. QED BY <1>1, <1>2, <1>3, <1>4, <1>5 DEF Resume

LEMMA NextStuck ==
  ASSUME TypeOK, TypeOK', StuckInv, NickOK, NickOK', [Next]_vars
  PROVE  StuckInv'
<1>1. ASSUME NEW c \in Client, Connect(c) PROVE StuckInv'
  <2>1. /\ task[Own(c)].at = "idle" /\ Own(c) \in Task
        /\ conn' = [conn EXCEPT ![c] = "open"] /\ drain = "no" /\ drain' = "no"
        /\ task' = [task EXCEPT ![Own(c)] = At("read")]
    BY <1>1, TasksTyped DEF Connect
  <2>2. Others(Own(c)) /\ task'[Own(c)].at = "read"
    BY <2>1 DEF TypeOK, Others, At
  <2>3. /\ conn[c] = "none" /\ conn'[c] = "open"
        /\ \A d \in Client \ {c} : conn'[d] = conn[d]
    BY <2>1 DEF NickOK, NickIInv, NickInv, IdleFresh, TypeOK
  <2>4. \A u \in Task : task'[u].at = "quit" => task'[u] = task[u]
    BY <2>2 DEF Others
  <2>5. Founded'
    <3>1. \A S \in SUBSET Client : Leaving(S)' => Leaving(S)
      BY <2>3 DEF Leaving
    <3>2. QED BY <2>4, <3>1 DEF StuckInv, Founded
  <2>6. WaitsKnown'
    BY <2>3, <2>4 DEF StuckInv, WaitsKnown, TypeOK, Frame
  <2>7. OpenTasks'
    <3>1. \A d \in Client \ {c} : task'[Own(d)] = task[Own(d)]
      <4>1. \A d \in Client \ {c} : Own(d) \in Task /\ Own(d) # Own(c)
        BY TasksTyped
      <4>2. QED BY <2>2, <4>1 DEF Others
    <3>2. QED BY <2>1, <2>2, <2>3, <3>1 DEF StuckInv, OpenTasks
  <2>8. QED BY <2>5, <2>6, <2>7 DEF StuckInv
<1>2. ASSUME NEW c \in Client, Leave(c) \/ DrainClient(c) PROVE StuckInv'
  BY <1>2, EndStuck, TasksTyped DEF Leave, DrainClient, Closing
<1>3. ASSUME NEW t \in Task, Closed(t) PROVE StuckInv'
  <2> DEFINE c == t[1]
  <2>1. /\ task[t].at = "close" /\ c \in Client
        /\ conn' = [conn EXCEPT ![c] = "gone"] /\ drain' = drain
        /\ task' = [task EXCEPT ![t] = At("end")]
    BY <1>3, TasksTyped DEF Closed
  <2>2. Others(t) /\ task'[t].at = "end"
    BY <2>1 DEF TypeOK, Others, At
  <2>3. /\ conn[c] = "closed" /\ conn'[c] = "gone"
        /\ \A d \in Client \ {c} : conn'[d] = conn[d]
    BY <2>1 DEF NickOK, NickIInv, NickInv, OneCloser, Closing, TypeOK
  <2>4. \A u \in Task : task'[u].at = "quit" => task'[u] = task[u]
    BY <2>2 DEF Others
  <2>5. Founded'
    <3>1. \A S \in SUBSET Client : Leaving(S)' => Leaving(S)
      BY <2>3 DEF Leaving
    <3>2. QED BY <2>4, <3>1 DEF StuckInv, Founded
  <2>6. WaitsKnown'
    <3>1. \A d \in Client : conn[d] # "none" => conn'[d] # "none"
      BY <2>3
    <3>2. \A u \in Task : task[u].wait \subseteq Client
      BY DEF TypeOK, Frame
    <3>3. QED BY <2>4, <3>1, <3>2 DEF StuckInv, WaitsKnown
  <2>7. ASSUME NEW d \in Client, conn'[d] = "open"
        PROVE  /\ task'[Own(d)].at \notin {"idle", "end"}
               /\ drain' = "begun" => task'[Drainer(d)].at = "start"
    <3>1. d # c /\ conn[d] = "open"
      BY <2>3, <2>7
    <3>2. /\ Own(d) \in Task /\ Drainer(d) \in Task /\ Own(d) # t /\ Drainer(d) # t
      BY <3>1, TasksTyped
    <3>3. QED BY <2>1, <2>2, <3>1, <3>2 DEF Others, StuckInv, OpenTasks
  <2>8. QED BY <2>5, <2>6, <2>7 DEF StuckInv, OpenTasks
<1>4. ASSUME UNCHANGED <<conn, task>>, drain' = drain \/ drain' = "requested"
      PROVE  StuckInv'
  BY <1>4 DEF StuckInv, Founded, Leaving, WaitsKnown, OpenTasks
<1>5. CASE BeginDrain
  <2>1. /\ conn' = conn
        /\ task' = [t \in Task |-> IF t[2] = "drain" /\ t[1] \in Connected
                                   THEN At("start") ELSE task[t]]
    BY <1>5 DEF BeginDrain, connVars
  <2>2. \A t \in Task : task'[t].at = "quit" => task'[t] = task[t]
    BY <2>1 DEF At
  <2>3. Founded' /\ WaitsKnown'
    <3>1. \A S \in SUBSET Client : Leaving(S)' => Leaving(S)
      BY <2>1 DEF Leaving
    <3>2. Founded'
      BY <2>2, <3>1 DEF StuckInv, Founded
    <3>3. WaitsKnown'
      BY <2>1, <2>2 DEF StuckInv, WaitsKnown
    <3>4. QED BY <3>2, <3>3
  <2>4. ASSUME NEW c \in Client, conn'[c] = "open"
        PROVE  /\ task'[Own(c)].at \notin {"idle", "end"}
               /\ task'[Drainer(c)].at = "start"
    <3>1. /\ Own(c) \in Task /\ Drainer(c) \in Task /\ Own(c)[2] = "own"
          /\ Drainer(c)[1] = c /\ Drainer(c)[2] = "drain"
      BY DEF Own, Drainer, Task
    <3>2. c \in Connected /\ task[Own(c)].at \notin {"idle", "end"}
      BY <2>1, <2>4 DEF StuckInv, OpenTasks, Connected
    <3>3. task'[Own(c)] = task[Own(c)] /\ task'[Drainer(c)] = At("start")
      BY <2>1, <3>1, <3>2
    <3>4. QED BY <3>2, <3>3 DEF At
  <2>5. QED BY <2>3, <2>4 DEF StuckInv, OpenTasks
<1>6. QED
  BY <1>1, <1>2, <1>3, <1>4, <1>5, CommandStuck, ResumeStuck
  DEF Next, vars, connVars, Lose, RequestDrain

Able(t) == \/ task[t].at \in {"start", "close"}
           \/ task[t].at = "quit" /\ Released(t)

(* A drain never gets stuck, for any number of connections and rooms: no   *)
(* set of disconnections waits for one another, so until all connections   *)
(* are gone one of them can go on although no peer reads.                  *)
THEOREM DrainUnstuck == Spec => []NeverStuck
<1>1. Init => StuckInv
  <2> SUFFICES ASSUME Init PROVE StuckInv
    OBVIOUS
  <2>1. /\ \A c \in Client : conn[c] = "none"
        /\ \A t \in Task : task[t].at # "quit"
    BY DEF Init, At
  <2>2. QED BY <2>1 DEF StuckInv, Founded, Leaving, WaitsKnown, OpenTasks
<1>2. /\ TypeOK /\ TypeOK' /\ StuckInv /\ NickOK /\ NickOK' /\ [Next]_vars
      => StuckInv'
  BY NextStuck
<1>3. ASSUME TypeOK, NickOK, StuckInv PROVE NeverStuck
  <2> SUFFICES ASSUME drain = "begun", NEW c \in Client, conn[c] \notin {"none", "gone"}
               PROVE  \E t \in Task : Able(t)
    BY DEF NeverStuck, Able
  <2>1. ASSUME NEW d \in Client, conn[d] = "open"
        PROVE  \E t \in Task : Able(t)
    <3>1. Drainer(d) \in Task /\ task[Drainer(d)].at = "start"
      BY <1>3, <2>1, TasksTyped DEF StuckInv, OpenTasks
    <3>2. Able(Drainer(d))
      BY <3>1 DEF Able
    <3>3. QED BY <3>1, <3>2
  <2>2. CASE \A d \in Client : conn[d] # "open"
    <3> DEFINE S == {d \in Client : conn[d] = "closed"}
    <3>1. Leaving(S)
      BY <1>3, <2>2 DEF Leaving, TypeOK
    <3> HIDE DEF S
    <3>2. S \in SUBSET Client
      BY DEF S
    <3>3. PICK d \in S : \A t \in Task :
            t[1] = d /\ task[t].at = "quit" => task[t].wait \cap S = {}
      BY <1>3, <3>1, <3>2 DEF StuckInv, Founded
    <3>4. PICK t \in Task : t[1] = d /\ Closing(task[t])
      BY <1>3, <3>3 DEF S, NickOK, NickIInv, NickInv, OneCloser
    <3>5. ASSUME task[t].at = "quit", NEW e \in task[t].wait PROVE conn[e] = "gone"
      <4>1. e \in Client
        BY <1>3, <3>5 DEF TypeOK, Frame
      <4>2. conn[e] # "closed" /\ conn[e] # "none" /\ conn[e] # "open"
        BY <1>3, <2>2, <3>3, <3>4, <3>5, <4>1 DEF S, StuckInv, WaitsKnown
      <4>3. QED BY <1>3, <4>1, <4>2 DEF TypeOK
    <3>6. task[t].at = "quit" => Released(t)
      BY <3>5 DEF Released
    <3>7. Able(t)
      BY <3>4, <3>6 DEF Closing, Able
    <3>8. QED BY <3>7
  <2>3. QED BY <2>1, <2>2
<1>4. QED BY <1>1, <1>2, <1>3, NickInvariant, PTL DEF Spec

-----------------------------------------------------------------------------
(* Seats.  Before a drain a connection is in the room objects that hold an *)
(* entry of its nickname for it, and in no other: those it has joined and, *)
(* while it is leaving, those its disconnection has not reached.  A nick-  *)
(* name is changed in one step at most in one room: a renaming in several  *)
(* rooms gives way with only some of them done.                            *)

WholeRenamings ==
  drain # "begun" =>
    \A c \in Client : nick'[c] # nick[c] => \A r, s \in joined[c] : r = s

Seats(c) ==
  IF conn[c] = "open" THEN joined[c]
  ELSE IF task[Own(c)].at = "quit"
       THEN {task[Own(c)].room[1]} \cup task[Own(c)].todo
       ELSE {}

Sits(r, n) == IF r \in Present THEN RoomOf(r).users[n] ELSE Nobody

Seated ==
  \A c \in Client : \A r \in Seats(c) :
    /\ r \in joined[c] /\ r \in Channel /\ nick[c] \in Nick
    /\ Sits(r, nick[c]) = c

Occupied ==
  \A r \in Channel, n \in Nick : Sits(r, n) # Nobody =>
    nick[Sits(r, n)] = n /\ r \in Seats(Sits(r, n))

(* What a suspended task may rely on.                                      *)
HeldBy(c) ==
  LET f == task[Own(c)] IN
  /\ f.at = "idle" => joined[c] = {}
  /\ f.at = "quit" => f.room = ObjectOf(f.room[1]) /\ f.room[1] \notin f.todo
  /\ f.at = "part" => /\ conn[c] = "open" /\ f.room[1] \in joined[c]
                      /\ f.room = ObjectOf(f.room[1])
  /\ f.at = "rename" => /\ conn[c] = "open" /\ f.todo \subseteq joined[c]
                        /\ f.todo = {} \/ f.old = nick[c]

Held == \A c \in Client : HeldBy(c)

SeatInv == Seated /\ Occupied /\ Held

(* A state before a drain.                                                 *)
Serves == TypeOK /\ NickOK /\ SeatInv /\ drain # "begun"

(* No room goes but one that is left empty.                                *)
EmptyGo ==
  \A r \in Present : channels'[r] # channels[r] => Users(rooms'[ObjectOf(r)]) = {}

(* A staging room does not get too full.                                   *)
Occupants(r) == {n \in Nick : Sits(r, n) # Nobody}
Few(r) == /\ IsFiniteSet(Occupants(r))
          /\ Cardinality(Occupants(r)) <= ParticipantLimit

StepSafe == EmptyGo /\ \A r \in Staging : Few(r) => Few(r)'

LEMMA FewShrinks ==
  \A r : Few(r) /\ (\A n \in Nick : Sits(r, n)' # Nobody => Sits(r, n) # Nobody) => Few(r)'
<1> SUFFICES ASSUME NEW r, Few(r),
                    \A n \in Nick : Sits(r, n)' # Nobody => Sits(r, n) # Nobody
             PROVE  Few(r)'
  OBVIOUS
<1>1. Occupants(r)' \subseteq Occupants(r)
  BY DEF Occupants
<1>2. IsFiniteSet(Occupants(r)) /\ Cardinality(Occupants(r)) <= ParticipantLimit
  BY DEF Few
<1>3. /\ IsFiniteSet(Occupants(r)')
      /\ Cardinality(Occupants(r)') <= Cardinality(Occupants(r))
  BY <1>1, <1>2, FS_Subset
<1>4. Cardinality(Occupants(r)') \in Nat /\ Cardinality(Occupants(r)) \in Nat
  BY <1>2, <1>3, FS_CardinalityType
<1>5. Cardinality(Occupants(r)') <= ParticipantLimit
  BY <1>2, <1>3, <1>4 DEF ParticipantLimit
<1>6. QED BY <1>3, <1>5 DEF Few

LEMMA SitsTyped ==
  TypeOK => \A r \in Channel, n \in Nick : Sits(r, n) \in Client \cup {Nobody}
  BY PresentTyped DEF Sits, Room

(* The own task of a connection is what closes it.                         *)
LEMMA ClosedByOwn ==
  Serves => \A c \in Client : /\ conn[c] = "closed" <=> Closing(task[Own(c)])
                              /\ task[Drainer(c)].at = "end"
<1> SUFFICES ASSUME Serves, NEW c \in Client
             PROVE  /\ conn[c] = "closed" <=> Closing(task[Own(c)])
                    /\ task[Drainer(c)].at = "end"
  OBVIOUS
<1>1. task[Drainer(c)].at = "end"
  BY DEF Serves, NickOK, NickIInv, DrainLater
<1>2. \A t \in Task : t[1] = c => t = Own(c) \/ t = Drainer(c)
  BY DEF Task, Own, Drainer
<1>3. Closing(task[Own(c)]) => conn[c] = "closed"
  BY TasksTyped DEF Serves, NickOK, NickIInv, NickInv, OneCloser
<1>4. conn[c] = "closed" => Closing(task[Own(c)])
  BY <1>1, <1>2 DEF Serves, NickOK, NickIInv, NickInv, OneCloser, Closing
<1>5. QED BY <1>1, <1>3, <1>4

(* Who has a seat has its nickname, in the table as well.                  *)
LEMMA SeatNamed ==
  Serves => \A c \in Client : \A r \in Seats(c) : clients[nick[c]] = c
<1> SUFFICES ASSUME Serves, NEW c \in Client, NEW r \in Seats(c)
             PROVE  clients[nick[c]] = c
  OBVIOUS
<1>1. nick[c] \in Nick
  BY DEF Serves, SeatInv, Seated
<1>2. CASE conn[c] = "open"
  BY <1>1, <1>2, PeerChatConstants DEF Serves, NickOK, NickIInv, NickInv, Unique
<1>3. CASE conn[c] # "open"
  <2>1. task[Own(c)].at = "quit" /\ Own(c) \in Task /\ Own(c)[1] = c
    BY <1>3, TasksTyped DEF Seats
  <2>2. QED BY <1>1, <2>1 DEF Serves, NickOK, NickIInv, NickInv, Holds
<1>4. QED BY <1>2, <1>3

(* An entry under the nickname of an open connection is that connection's. *)
LEMMA EntryOwn ==
  Serves => \A c \in Client, r \in Channel :
    conn[c] = "open" /\ nick[c] \in Nick =>
      /\ Sits(r, nick[c]) \in {c, Nobody}
      /\ Sits(r, nick[c]) = c <=> r \in joined[c]
<1> SUFFICES ASSUME Serves, NEW c \in Client, NEW r \in Channel,
                    conn[c] = "open", nick[c] \in Nick
             PROVE  /\ Sits(r, nick[c]) \in {c, Nobody}
                    /\ Sits(r, nick[c]) = c <=> r \in joined[c]
  OBVIOUS
<1>1. clients[nick[c]] = c
  BY PeerChatConstants DEF Serves, NickOK, NickIInv, NickInv, Unique
<1>2. Seats(c) = joined[c]
  BY DEF Seats
<1>3. ASSUME Sits(r, nick[c]) # Nobody
      PROVE  Sits(r, nick[c]) = c /\ r \in joined[c]
  <2>1. PICK d \in Client : d = Sits(r, nick[c])
    BY <1>3, SitsTyped DEF Serves
  <2>2. nick[d] = nick[c] /\ r \in Seats(d)
    BY <1>3, <2>1 DEF Serves, SeatInv, Occupied
  <2>3. clients[nick[d]] = d
    BY <2>2, SeatNamed
  <2>4. QED BY <1>1, <1>2, <2>1, <2>2, <2>3
<1>4. r \in joined[c] => Sits(r, nick[c]) = c
  BY <1>2 DEF Serves, SeatInv, Seated
<1>5. QED BY <1>3, <1>4, PeerChatConstants

(* The tasks of the other connections and what they rely on.               *)
Bystanders(c) ==
  /\ Others(Own(c))
  /\ \A d \in Client \ {c} : /\ conn'[d] = conn[d] /\ joined'[d] = joined[d]
                             /\ nick'[d] = nick[d]

LEMMA BystandersKeep ==
  \A c \in Client : Serves /\ Bystanders(c) =>
    /\ \A d \in Client \ {c} : Seats(d)' = Seats(d)
    /\ (\A d \in Client \ {c} : \A r \in Seats(d) : channels'[r] = channels[r])
         => \A d \in Client \ {c} : HeldBy(d)'
<1> SUFFICES ASSUME NEW c \in Client, Serves, Bystanders(c), NEW d \in Client \ {c}
             PROVE  /\ Seats(d)' = Seats(d)
                    /\ (\A r \in Seats(d) : channels'[r] = channels[r]) => HeldBy(d)'
  OBVIOUS
<1>1. Own(d) # Own(c) /\ Own(d) \in Task
  BY TasksTyped DEF Own
<1>2. /\ task'[Own(d)] = task[Own(d)] /\ conn'[d] = conn[d]
      /\ joined'[d] = joined[d] /\ nick'[d] = nick[d]
  BY <1>1 DEF Bystanders, Others
<1>3. Seats(d)' = Seats(d)
  BY <1>2 DEF Seats
<1>4. ASSUME \A r \in Seats(d) : channels'[r] = channels[r]
      PROVE  HeldBy(d)'
  <2>1. HeldBy(d)
    BY DEF Serves, SeatInv, Held
  <2>2. task[Own(d)].at = "quit" => task[Own(d)].room[1] \in Seats(d)
    BY ClosedByOwn DEF Seats, Closing
  <2>3. task[Own(d)].at = "part" => task[Own(d)].room[1] \in Seats(d)
    BY <2>1 DEF HeldBy, Seats
  <2>4. QED
    BY <1>2, <1>4, <2>1, <2>2, <2>3 DEF HeldBy, ObjectOf
<1>5. QED BY <1>3, <1>4

(* A step that leaves the entries of all rooms alone.                      *)
SameSeats ==
  /\ \A r \in Channel, n \in Nick : Sits(r, n)' = Sits(r, n)
  /\ channels' = channels

LEMMA SameUsersSits ==
  TypeOK /\ channels' = channels /\ (\A o \in Object : rooms'[o].users = rooms[o].users)
    => SameSeats
  BY PresentTyped DEF SameSeats, Sits, Present, RoomOf, ObjectOf

LEMMA KeepSeats ==
  \A c \in Client :
    /\ Serves /\ Bystanders(c) /\ SameSeats
    /\ nick' = nick /\ joined' = joined
    /\ Seats(c)' = Seats(c) /\ HeldBy(c)'
    => SeatInv' /\ StepSafe
<1> SUFFICES ASSUME NEW c \in Client, Serves, Bystanders(c), SameSeats,
                    nick' = nick, joined' = joined, Seats(c)' = Seats(c), HeldBy(c)'
             PROVE  SeatInv' /\ StepSafe
  OBVIOUS
<1>1. \A d \in Client : Seats(d)' = Seats(d)
  BY BystandersKeep
<1>2. Held'
  BY BystandersKeep DEF SameSeats, Held
<1>3. Seated'
  <2>1. Seated
    BY DEF Serves, SeatInv
  <2>2. \A d \in Client : \A r \in Seats(d)' :
          /\ r \in joined'[d] /\ r \in Channel /\ nick'[d] \in Nick
          /\ Sits(r, nick[d])' = d
    BY <1>1, <2>1 DEF Seated, SameSeats
  <2>3. QED BY <2>2 DEF Seated
<1>4. Occupied'
  <2>1. Occupied
    BY DEF Serves, SeatInv
  <2>2. \A r \in Channel, n \in Nick : Sits(r, n)' # Nobody =>
          nick[Sits(r, n)] = n /\ r \in Seats(Sits(r, n))'
    BY <1>1, <2>1, SitsTyped DEF Occupied, SameSeats, Serves
  <2>3. QED BY <2>2 DEF Occupied, SameSeats
<1>5. StepSafe
  <2>1. EmptyGo
    BY DEF EmptyGo, SameSeats
  <2>2. \A r \in Staging : Few(r) => Few(r)'
    BY FewShrinks, PeerChatConstants DEF SameSeats
  <2>3. QED BY <2>1, <2>2 DEF StepSafe
<1>6. QED BY <1>2, <1>3, <1>4, <1>5 DEF SeatInv

(* Connection c leaves the rooms R.                                        *)
ObjectsOf(R) == {ObjectOf(r) : r \in R}

LeaveEffect(c, R) ==
  /\ \A r \in Channel, n \in Nick :
       Sits(r, n)' = IF r \in R /\ n = nick[c] THEN Nobody ELSE Sits(r, n)
  /\ \A r \in Channel \ R : channels'[r] = channels[r]
  /\ EmptyGo

LEMMA LeaveSits ==
  \A c \in Client : \A R :
    /\ TypeOK /\ nick' = nick /\ R \subseteq Present
    /\ LeaveRooms(c, ObjectsOf(R))
    => LeaveEffect(c, R)
<1> SUFFICES ASSUME NEW c \in Client, NEW R, TypeOK, nick' = nick,
                    R \subseteq Present, LeaveRooms(c, ObjectsOf(R))
             PROVE  LeaveEffect(c, R)
  OBVIOUS
<1> DEFINE left(r) == Without(RoomOf(r), nick[c])
<1>1. \A r \in R : /\ r \in Channel /\ channels[r] # Absent
                   /\ ObjectOf(r) \in Object /\ ObjectOf(r) = <<r, channels[r]>>
                   /\ RoomOf(r) = rooms[ObjectOf(r)] /\ RoomOf(r) \in Room
  BY PresentTyped DEF Present, ObjectOf, RoomOf
<1>2. \A o : o \in ObjectsOf(R) <=> \E r \in R : o = <<r, channels[r]>>
  BY DEF ObjectsOf, ObjectOf
<1>3. /\ \A o \in Object : rooms'[o] = IF o \in ObjectsOf(R) THEN Without(rooms[o], nick[c])
                                       ELSE rooms[o]
      /\ \A r \in Channel : channels'[r] =
           IF \E o \in ObjectsOf(R) : o[1] = r /\ Users(Without(rooms[o], nick[c])) = {}
           THEN Absent ELSE channels[r]
  BY DEF LeaveRooms
<1>4. \A r \in Channel : r \in Present =>
        /\ <<r, channels[r]>> \in Object
        /\ <<r, channels[r]>> \in ObjectsOf(R) <=> r \in R
  BY <1>2, PresentTyped DEF ObjectOf
<1>5. \A r \in Channel :
        (\E o \in ObjectsOf(R) : o[1] = r /\ Users(Without(rooms[o], nick[c])) = {})
          <=> r \in R /\ Users(left(r)) = {}
  <2>1. ASSUME NEW r \in Channel, r \in R, Users(left(r)) = {}
        PROVE  \E o \in ObjectsOf(R) : o[1] = r /\ Users(Without(rooms[o], nick[c])) = {}
    <3>1. <<r, channels[r]>> \in ObjectsOf(R) /\ <<r, channels[r]>>[1] = r
      BY <1>2, <2>1
    <3>2. left(r) = Without(rooms[<<r, channels[r]>>], nick[c])
      BY DEF RoomOf, ObjectOf
    <3>3. QED BY <2>1, <3>1, <3>2
  <2>2. ASSUME NEW r \in Channel, NEW o \in ObjectsOf(R), o[1] = r,
               Users(Without(rooms[o], nick[c])) = {}
        PROVE  r \in R /\ Users(left(r)) = {}
    <3>1. PICK q \in R : o = <<q, channels[q]>>
      BY <1>2, <2>2
    <3>2. q = r
      BY <2>2, <3>1
    <3>3. left(r) = Without(rooms[o], nick[c])
      BY <3>1, <3>2 DEF RoomOf, ObjectOf
    <3>4. QED BY <2>2, <3>1, <3>2, <3>3
  <2>3. QED BY <2>1, <2>2
<1>6. \A r \in Channel : channels'[r] = IF r \in R /\ Users(left(r)) = {} THEN Absent
                                        ELSE channels[r]
  BY <1>3, <1>5
<1>7. \A r \in R, n \in Nick : left(r).users[n] = IF n = nick[c] THEN Nobody
                                                  ELSE RoomOf(r).users[n]
  BY DEF Without
<1>8. \A r \in R : rooms'[<<r, channels[r]>>] = left(r)
  BY <1>1, <1>3, <1>4 DEF RoomOf, ObjectOf
<1>9. EmptyGo
  BY <1>1, <1>6, <1>8 DEF EmptyGo, Present, ObjectOf
<1>10. ASSUME NEW r \in Channel, NEW n \in Nick
       PROVE  Sits(r, n)' = IF r \in R /\ n = nick[c] THEN Nobody ELSE Sits(r, n)
  <2>0. Sits(r, n)' = IF channels'[r] # Absent THEN rooms'[<<r, channels'[r]>>].users[n]
                      ELSE Nobody
    BY DEF Sits, Present, RoomOf, ObjectOf
  <2>00. Sits(r, n) = IF channels[r] # Absent THEN rooms[<<r, channels[r]>>].users[n]
                      ELSE Nobody
    BY DEF Sits, Present, RoomOf, ObjectOf
  <2>1. CASE r \notin R
    <3>1. channels'[r] = channels[r]
      BY <1>6, <2>1
    <3>2. channels[r] # Absent => rooms'[<<r, channels[r]>>] = rooms[<<r, channels[r]>>]
      BY <1>3, <1>4, <2>1 DEF Present
    <3>3. QED BY <2>0, <2>00, <2>1, <3>1, <3>2
  <2>2. CASE r \in R /\ Users(left(r)) = {}
    <3>1. Sits(r, n)' = Nobody
      BY <1>6, <2>0, <2>2
    <3>2. left(r).users[n] = Nobody
      BY <2>2 DEF Users
    <3>3. n # nick[c] => Sits(r, n) = Nobody
      BY <1>1, <1>7, <2>2, <2>00, <3>2 DEF RoomOf, ObjectOf
    <3>4. QED BY <2>2, <3>1, <3>3
  <2>3. CASE r \in R /\ Users(left(r)) # {}
    <3>1. channels'[r] = channels[r] /\ channels[r] # Absent
      BY <1>1, <1>6, <2>3
    <3>2. Sits(r, n)' = left(r).users[n]
      BY <1>8, <2>0, <2>3, <3>1
    <3>3. Sits(r, n) = RoomOf(r).users[n]
      BY <2>00, <3>1 DEF RoomOf, ObjectOf
    <3>4. QED BY <1>7, <2>3, <3>2, <3>3
  <2>4. QED BY <2>1, <2>2, <2>3
<1>11. \A r \in Channel \ R : channels'[r] = channels[r]
  BY <1>6
<1>12. QED BY <1>9, <1>10, <1>11 DEF LeaveEffect

LEMMA LeaveSeats ==
  \A c \in Client : \A R :
    /\ Serves /\ Bystanders(c) /\ nick' = nick
    /\ R \subseteq Seats(c) /\ Seats(c)' = Seats(c) \ R /\ Seats(c)' \subseteq joined'[c]
    /\ LeaveRooms(c, ObjectsOf(R))
    /\ (\A r \in Channel \ R : channels'[r] = channels[r]) => HeldBy(c)'
    => SeatInv' /\ StepSafe
<1> SUFFICES ASSUME NEW c \in Client, NEW R, Serves, Bystanders(c), nick' = nick,
                    R \subseteq Seats(c), Seats(c)' = Seats(c) \ R,
                    Seats(c)' \subseteq joined'[c], LeaveRooms(c, ObjectsOf(R)),
                    (\A r \in Channel \ R : channels'[r] = channels[r]) => HeldBy(c)'
             PROVE  SeatInv' /\ StepSafe
  OBVIOUS
<1>1. Seated /\ Occupied /\ Held /\ TypeOK
  BY DEF Serves, SeatInv
<1>2. R \subseteq Present
  BY <1>1, PeerChatConstants DEF Seated, Sits
<1>3. LeaveEffect(c, R)
  BY <1>1, <1>2, LeaveSits
<1>4. /\ \A r \in Channel, n \in Nick :
           Sits(r, n)' = IF r \in R /\ n = nick[c] THEN Nobody ELSE Sits(r, n)
      /\ \A r \in Channel \ R : channels'[r] = channels[r]
      /\ EmptyGo
  BY <1>3 DEF LeaveEffect
<1>5. \A d \in Client \ {c} : Seats(d)' = Seats(d) /\ joined'[d] = joined[d]
  BY BystandersKeep DEF Bystanders
<1>6. ASSUME NEW d \in Client \ {c}, NEW r \in Seats(d), r \in R
      PROVE  nick[d] # nick[c]
  BY <1>1, <1>6 DEF Seated
<1>7. ASSUME NEW d \in Client \ {c}, NEW r \in Seats(d)
      PROVE  channels'[r] = channels[r]
  <2>1. Sits(r, nick[d])' = d /\ r \in Channel /\ nick[d] \in Nick
    BY <1>1, <1>4, <1>6, <1>7 DEF Seated
  <2>2. r \in Present'
    BY <2>1, PeerChatConstants DEF Sits
  <2>3. channels'[r] \in {channels[r], Absent}
    BY <2>1 DEF LeaveRooms
  <2>4. QED BY <2>2, <2>3 DEF Present
<1>8. Held'
  <2>1. HeldBy(c)'
    BY <1>4
  <2>2. \A d \in Client \ {c} : HeldBy(d)'
    BY <1>7, BystandersKeep
  <2>3. QED BY <2>1, <2>2 DEF Held
<1>9. Seated'
  <2>1. ASSUME NEW d \in Client, NEW r \in Seats(d)'
        PROVE  /\ r \in joined'[d] /\ r \in Channel /\ nick[d] \in Nick
               /\ Sits(r, nick[d])' = d
    <3>1. CASE d = c
      <4>1. r \in Seats(c) /\ r \notin R /\ r \in joined'[c]
        BY <2>1, <3>1
      <4>2. QED BY <1>1, <1>4, <3>1, <4>1 DEF Seated
    <3>2. CASE d # c
      <4>1. d \in Client \ {c} /\ r \in Seats(d)
        BY <1>5, <2>1, <3>2
      <4>2. r \in R => nick[d] # nick[c]
        BY <1>6, <4>1
      <4>3. r \in joined[d] /\ r \in Channel /\ nick[d] \in Nick /\ Sits(r, nick[d]) = d
        BY <1>1, <4>1 DEF Seated
      <4>4. QED BY <1>4, <1>5, <4>1, <4>2, <4>3
    <3>3. QED BY <3>1, <3>2
  <2>2. QED BY <2>1 DEF Seated
<1>10. Occupied'
  <2>1. ASSUME NEW r \in Channel, NEW n \in Nick, NEW d \in Client, Sits(r, n)' = d
        PROVE  nick[d] = n /\ r \in Seats(d)'
    <3>1. Sits(r, n) = d /\ ~ (r \in R /\ n = nick[c])
      BY <1>4, <2>1, PeerChatConstants
    <3>2. nick[d] = n /\ r \in Seats(d)
      BY <1>1, <3>1, PeerChatConstants DEF Occupied
    <3>3. QED BY <1>5, <3>1, <3>2
  <2>2. \A r \in Channel, n \in Nick : Sits(r, n)' \in Client \cup {Nobody}
    BY <1>1, <1>4, SitsTyped
  <2>3. ASSUME NEW r \in Channel, NEW n \in Nick, Sits(r, n)' # Nobody
        PROVE  nick[Sits(r, n)'] = n /\ r \in (Seats(Sits(r, n)))'
    <3>1. PICK d \in Client : Sits(r, n)' = d
      BY <2>2, <2>3
    <3>2. nick[d] = n /\ r \in Seats(d)'
      BY <2>1, <3>1
    <3>3. QED BY <3>1, <3>2
  <2>4. QED BY <2>3 DEF Occupied
<1>11. \A r \in Staging : Few(r) => Few(r)'
  BY <1>4, FewShrinks, PeerChatConstants
<1>12. QED BY <1>4, <1>8, <1>9, <1>10, <1>11 DEF SeatInv, StepSafe

LEMMA QuitSeats ==
  \A c \in Client, R \in SUBSET Channel, todo \in SUBSET Channel, names \in Names :
    /\ Serves /\ nick' = nick /\ joined' = joined
    /\ conn' = [conn EXCEPT ![c] = "closed"]
    /\ Seats(c) = R \cup todo /\ R \cap todo = {}
    /\ QuitRooms(Own(c), todo, ObjectsOf(R), names)
    => SeatInv' /\ StepSafe
<1> SUFFICES ASSUME NEW c \in Client, NEW R \in SUBSET Channel,
                    NEW todo \in SUBSET Channel, NEW names \in Names,
                    Serves, nick' = nick, joined' = joined,
                    conn' = [conn EXCEPT ![c] = "closed"],
                    Seats(c) = R \cup todo, R \cap todo = {},
                    QuitRooms(Own(c), todo, ObjectsOf(R), names)
             PROVE  SeatInv' /\ StepSafe
  OBVIOUS
<1>1. Own(c) \in Task /\ Own(c)[1] = c /\ TypeOK /\ Seated
  BY TasksTyped DEF Serves, SeatInv
<1>2. \A r \in Seats(c) : r \in Present /\ r \in joined[c] /\ r \in Channel
  BY <1>1, PeerChatConstants DEF Seated, Sits
<1>3. conn'[c] = "closed" /\ \A d \in Client \ {c} : conn'[d] = conn[d]
  BY <1>1 DEF TypeOK
<1>4. Bystanders(c)
  BY <1>1, <1>3, QuitMoves DEF Bystanders
<1>5. PICK S \in SUBSET todo :
        /\ LeaveRooms(c, ObjectsOf(R) \cup {ObjectOf(r) : r \in S \cap Present})
        /\ \/ S = todo /\ task' = [task EXCEPT ![Own(c)] = At("close")]
           \/ \E r \in (todo \ S) \cap Present :
                task' = [task EXCEPT ![Own(c)] =
                  [At("quit") EXCEPT !.room = ObjectOf(r), !.todo = todo \ (S \cup {r}),
                                     !.wait = Listeners(RoomOf(r), c)]]
  BY <1>1 DEF QuitRooms
<1> DEFINE left == R \cup S
<1>6. LeaveRooms(c, ObjectsOf(left)) /\ left \subseteq Seats(c)
  <2>1. S \subseteq Present
    BY <1>2
  <2>2. ObjectsOf(R) \cup {ObjectOf(r) : r \in S \cap Present} = ObjectsOf(left)
    BY <2>1 DEF ObjectsOf
  <2>3. QED BY <1>5, <2>2
<1>7. CASE S = todo /\ task' = [task EXCEPT ![Own(c)] = At("close")]
  <2>1. task'[Own(c)].at = "close"
    BY <1>1, <1>7 DEF TypeOK, At
  <2>2. Seats(c)' = {} /\ HeldBy(c)'
    BY <1>3, <2>1 DEF Seats, HeldBy
  <2>3. Seats(c) \ left = {}
    BY <1>7
  <2> HIDE DEF left
  <2>4. QED BY <1>4, <1>6, <2>2, <2>3, LeaveSeats
<1>8. ASSUME NEW r \in (todo \ S) \cap Present,
             task' = [task EXCEPT ![Own(c)] =
               [At("quit") EXCEPT !.room = ObjectOf(r), !.todo = todo \ (S \cup {r}),
                                  !.wait = Listeners(RoomOf(r), c)]]
      PROVE  SeatInv' /\ StepSafe
  <2> DEFINE f == [At("quit") EXCEPT !.room = ObjectOf(r), !.todo = todo \ (S \cup {r}),
                                     !.wait = Listeners(RoomOf(r), c)]
  <2>1. f.at = "quit" /\ f.room = <<r, channels[r]>> /\ f.todo = todo \ (S \cup {r})
    BY DEF At, ObjectOf
  <2>2. task'[Own(c)] = f
    BY <1>1, <1>8 DEF TypeOK
  <2> HIDE DEF f
  <2>3. f.room[1] = r
    BY <2>1
  <2>4. Seats(c)' = {r} \cup (todo \ (S \cup {r}))
    BY <1>3, <2>1, <2>2, <2>3 DEF Seats
  <2>5. Seats(c)' = Seats(c) \ left
    BY <2>4
  <2>6. r \in Channel \ left
    BY <1>2
  <2>7. channels'[r] = channels[r] => HeldBy(c)'
    BY <2>1, <2>2, <2>3 DEF HeldBy, ObjectOf
  <2>8. Seats(c)' \subseteq joined'[c]
    BY <1>2, <2>5
  <2> HIDE DEF left
  <2>9. QED BY <1>4, <1>6, <2>5, <2>6, <2>7, <2>8, LeaveSeats
<1>9. QED BY <1>5, <1>7, <1>8

LEMMA EndSeats ==
  \A c \in Client :
    /\ Serves /\ nick' = nick /\ joined' = joined
    /\ Disconnect(Own(c), clients) /\ ~ Closing(task[Own(c)])
    => SeatInv' /\ StepSafe
<1> SUFFICES ASSUME NEW c \in Client, Serves, nick' = nick, joined' = joined,
                    Disconnect(Own(c), clients), ~ Closing(task[Own(c)])
             PROVE  SeatInv' /\ StepSafe
  OBVIOUS
<1>1. Own(c) \in Task /\ Own(c)[1] = c /\ TypeOK /\ clients \in Names
      /\ joined[c] \in SUBSET Channel
  BY TasksTyped DEF Serves, TypeOK, Names
<1>2. CASE conn[c] = "open"
  <2>1. /\ conn' = [conn EXCEPT ![c] = "closed"]
        /\ QuitRooms(Own(c), joined[c], {}, clients)
    BY <1>1, <1>2 DEF Disconnect
  <2>2. ObjectsOf({}) = {} /\ Seats(c) = {} \cup joined[c] /\ {} \cap joined[c] = {}
    BY <1>2 DEF ObjectsOf, Seats
  <2>3. {} \in SUBSET Channel
    OBVIOUS
  <2>4. QED BY <1>1, <2>1, <2>2, <2>3, QuitSeats
<1>3. CASE conn[c] # "open"
  <2>1. /\ task' = [task EXCEPT ![Own(c)] = At("end")]
        /\ UNCHANGED <<conn, channels, rooms>>
    BY <1>1, <1>3 DEF Disconnect
  <2>2. task'[Own(c)].at = "end" /\ Others(Own(c))
    BY <1>1, <2>1 DEF TypeOK, At, Others
  <2>3. Bystanders(c)
    BY <2>1, <2>2 DEF Bystanders
  <2>4. Seats(c)' = Seats(c) /\ HeldBy(c)'
    BY <1>3, <2>1, <2>2 DEF Seats, HeldBy, Closing
  <2>5. SameSeats
    BY <1>1, <2>1, SameUsersSits
  <2>6. QED BY <2>3, <2>4, <2>5, KeepSeats
<1>4. QED BY <1>2, <1>3

(* A command or its rest that moves nobody.                                *)
LEMMA PlainSeats ==
  \A c \in Client :
    /\ Serves /\ Others(Own(c)) /\ UNCHANGED <<nick, joined, conn>> /\ SameSeats
    /\ task[Own(c)].at # "quit"
    /\ task'[Own(c)].at \notin {"idle", "quit", "part", "rename"}
    => SeatInv' /\ StepSafe
<1> SUFFICES ASSUME NEW c \in Client, Serves, Others(Own(c)),
                    UNCHANGED <<nick, joined, conn>>, SameSeats,
                    task[Own(c)].at # "quit",
                    task'[Own(c)].at \notin {"idle", "quit", "part", "rename"}
             PROVE  SeatInv' /\ StepSafe
  OBVIOUS
<1>1. Bystanders(c)
  BY DEF Bystanders
<1>2. Seats(c)' = Seats(c) /\ HeldBy(c)'
  BY DEF Seats, HeldBy
<1>3. QED BY <1>1, <1>2, KeepSeats

LEMMA UnmovedSeats ==
  Serves /\ UNCHANGED <<channels, rooms>> => SameSeats
  BY SameUsersSits DEF Serves

LEMMA MapSeats ==
  \A r \in Channel : \A room :
    /\ Serves /\ r \in Present /\ channels' = channels
    /\ rooms' = [rooms EXCEPT ![ObjectOf(r)] = room]
    /\ room.users = RoomOf(r).users
    => SameSeats
<1> SUFFICES ASSUME NEW r \in Channel, NEW room, Serves, r \in Present,
                    channels' = channels, rooms' = [rooms EXCEPT ![ObjectOf(r)] = room],
                    room.users = RoomOf(r).users
             PROVE  SameSeats
  OBVIOUS
<1>1. \A o \in Object : rooms'[o].users = rooms[o].users
  BY DEF Serves, TypeOK, RoomOf
<1>2. QED BY <1>1, SameUsersSits DEF Serves

LEMMA GotoPlain ==
  \A c \in Client :
    /\ Serves /\ UNCHANGED <<nick, joined, conn>> /\ SameSeats
    /\ task[Own(c)].at # "quit"
    /\ \/ Back(c)
       \/ \E room, x : Broadcasting(c, room, x)
       \/ \E frame : /\ Goto(c, frame)
                     /\ frame.at \notin {"idle", "quit", "part", "rename"}
    => SeatInv' /\ StepSafe
<1> SUFFICES ASSUME NEW c \in Client, Serves, UNCHANGED <<nick, joined, conn>>, SameSeats,
                    task[Own(c)].at # "quit",
                    \/ Back(c)
                    \/ \E room, x : Broadcasting(c, room, x)
                    \/ \E frame : /\ Goto(c, frame)
                                  /\ frame.at \notin {"idle", "quit", "part", "rename"}
             PROVE  SeatInv' /\ StepSafe
  OBVIOUS
<1>1. Others(Own(c)) /\ task'[Own(c)].at \notin {"idle", "quit", "part", "rename"}
  BY GotoMoves DEF Serves
<1>2. QED BY <1>1, PlainSeats

LEMMA SitsAt ==
  \A d \in Client : \A q, m : nick'[d] = m /\ Sits(q, m)' = d => Sits(q, nick[d])' = d
  BY DEF Sits

(* JOIN: the entry is the connection's own or free.                        *)
LEMMA EnterSeats ==
  \A c \in Client, r \in Channel, g \in Generation, room \in Room :
    /\ Serves /\ conn[c] = "open" /\ nick[c] \in Nick
    /\ task[Own(c)].at = "read"
    /\ \A n \in Nick : room.users[n] = Sits(r, n)
    /\ channels[r] \in {g, Absent}
    /\ Enter(c, r, g, room)
    => /\ SeatInv' /\ EmptyGo
       /\ \A q \in Channel, n \in Nick :
            Sits(q, n)' = IF q = r /\ n = nick[c] THEN c ELSE Sits(q, n)
<1> SUFFICES ASSUME NEW c \in Client, NEW r \in Channel, NEW g \in Generation,
                    NEW room \in Room, Serves, conn[c] = "open", nick[c] \in Nick,
                    task[Own(c)].at = "read",
                    \A n \in Nick : room.users[n] = Sits(r, n),
                    channels[r] \in {g, Absent},
                    Enter(c, r, g, room)
             PROVE  /\ SeatInv' /\ EmptyGo
                    /\ \A q \in Channel, n \in Nick :
                         Sits(q, n)' = IF q = r /\ n = nick[c] THEN c ELSE Sits(q, n)
  OBVIOUS
<1> DEFINE entered == With(room, nick[c], c)
<1>1. Seated /\ Occupied /\ Held /\ TypeOK
  BY DEF Serves, SeatInv
<1>2. /\ rooms' = [rooms EXCEPT ![<<r, g>>] = entered]
      /\ channels' = [channels EXCEPT ![r] = g]
      /\ joined' = [joined EXCEPT ![c] = @ \cup {r}]
      /\ UNCHANGED <<nick, conn>> /\ Broadcasting(c, entered, Nobody)
  BY DEF Enter
<1>3. Others(Own(c)) /\ task'[Own(c)].at = "told"
  BY <1>1, <1>2, GotoMoves
<1>4. /\ channels'[r] = g /\ \A q \in Channel \ {r} : channels'[q] = channels[q]
      /\ joined'[c] = joined[c] \cup {r}
      /\ \A d \in Client \ {c} : joined'[d] = joined[d]
      /\ <<r, g>> \in Object /\ rooms'[<<r, g>>] = entered
      /\ \A o \in Object : o # <<r, g>> => rooms'[o] = rooms[o]
  BY <1>1, <1>2 DEF TypeOK, Object
<1>5. Bystanders(c)
  BY <1>2, <1>3, <1>4 DEF Bystanders
<1>6. \A n \in Nick : entered.users[n] = IF n = nick[c] THEN c ELSE Sits(r, n)
  BY DEF With, Room
<1>7. ASSUME NEW q \in Channel, NEW n \in Nick
      PROVE  Sits(q, n)' = IF q = r /\ n = nick[c] THEN c ELSE Sits(q, n)
  <2>1. Sits(q, n)' = IF channels'[q] # Absent THEN rooms'[<<q, channels'[q]>>].users[n]
                      ELSE Nobody
    BY DEF Sits, Present, RoomOf, ObjectOf
  <2>2. Sits(q, n) = IF channels[q] # Absent THEN rooms[<<q, channels[q]>>].users[n]
                     ELSE Nobody
    BY DEF Sits, Present, RoomOf, ObjectOf
  <2>3. CASE q = r
    <3>1. g # Absent
      BY PeerChatConstants
    <3>2. Sits(q, n)' = entered.users[n]
      BY <1>4, <2>1, <2>3, <3>1
    <3>3. QED BY <1>6, <2>3, <3>2
  <2>4. CASE q # r
    <3>1. channels'[q] = channels[q] /\ <<q, channels[q]>> # <<r, g>>
      BY <1>4, <2>4
    <3>2. channels[q] # Absent => <<q, channels[q]>> \in Object
      BY <1>1 DEF TypeOK, Object
    <3>3. QED BY <1>4, <2>1, <2>2, <2>4, <3>1, <3>2
  <2>5. QED BY <2>3, <2>4
<1>8. /\ Sits(r, nick[c]) \in {c, Nobody} /\ Seats(c) = joined[c]
      /\ Seats(c)' = Seats(c) \cup {r}
  BY <1>2, <1>4, EntryOwn DEF Seats
<1>9. \A d \in Client \ {c} : Seats(d)' = Seats(d)
  BY <1>5, BystandersKeep
<1>10. EmptyGo
  BY <1>4 DEF EmptyGo, Present
<1>11. Held'
  <2>1. HeldBy(c)'
    BY <1>3 DEF HeldBy
  <2>2. ASSUME NEW d \in Client \ {c}, NEW q \in Seats(d)
        PROVE  channels'[q] = channels[q]
    <3>1. q \in Present /\ q \in Channel
      BY <1>1, PeerChatConstants DEF Seated, Sits
    <3>2. QED BY <1>4, <3>1 DEF Present
  <2>3. \A d \in Client \ {c} : HeldBy(d)'
    BY <1>5, <2>2, BystandersKeep
  <2>4. QED BY <2>1, <2>3 DEF Held
<1> HIDE DEF entered
<1>12. Seated'
  <2>1. ASSUME NEW d \in Client, NEW q \in Seats(d)'
        PROVE  /\ q \in joined'[d] /\ q \in Channel
               /\ \E n \in Nick : nick'[d] = n /\ Sits(q, n)' = d
    <3>1. CASE d = c /\ q = r
      BY <1>2, <1>4, <1>7, <3>1
    <3>2. CASE d = c /\ q # r
      <4>1. q \in Seats(c)
        BY <1>8, <2>1, <3>2
      <4>2. PICK n \in Nick : n = nick[c] /\ Sits(q, n) = c
        BY <1>1, <4>1 DEF Seated
      <4>3. q \in joined[c] /\ q \in Channel
        BY <1>1, <4>1 DEF Seated
      <4>4. QED BY <1>2, <1>4, <1>7, <3>2, <4>2, <4>3
    <3>3. CASE d # c
      <4>1. d \in Client \ {c} /\ q \in Seats(d)
        BY <1>9, <2>1, <3>3
      <4>2. PICK n \in Nick : n = nick[d] /\ Sits(q, n) = d
        BY <1>1, <4>1 DEF Seated
      <4>3. q \in joined[d] /\ q \in Channel
        BY <1>1, <4>1 DEF Seated
      <4>4. ~ (q = r /\ n = nick[c])
        BY <1>8, <4>1, <4>2, PeerChatConstants
      <4>5. QED BY <1>2, <1>4, <1>7, <4>1, <4>2, <4>3, <4>4
    <3>4. QED BY <3>1, <3>2, <3>3
  <2>2. QED BY <1>2, <2>1, SitsAt DEF Seated
<1>13. Occupied'
  <2>1. ASSUME NEW q \in Channel, NEW n \in Nick, Sits(q, n)' # Nobody
        PROVE  nick[Sits(q, n)'] = n /\ q \in (Seats(Sits(q, n)))'
    <3>1. CASE q = r /\ n = nick[c]
      <4>1. Sits(q, n)' = c
        BY <1>7, <3>1
      <4>2. r \in Seats(c)'
        BY <1>8
      <4>3. QED BY <3>1, <4>1, <4>2
    <3>2. CASE ~ (q = r /\ n = nick[c])
      <4>1. PICK d \in Client : d = Sits(q, n) /\ Sits(q, n)' = d
        BY <1>1, <1>7, <2>1, <3>2, SitsTyped
      <4>2. nick[d] = n /\ q \in Seats(d)
        BY <1>1, <4>1, PeerChatConstants DEF Occupied
      <4>3. q \in Seats(d)'
        BY <1>8, <1>9, <4>2
      <4>4. QED BY <4>1, <4>2, <4>3
    <3>3. QED BY <3>1, <3>2
  <2>2. QED BY <1>2, <2>1 DEF Occupied
<1>14. QED BY <1>7, <1>10, <1>11, <1>12, <1>13 DEF SeatInv

(* A round of the renaming loop: what it does to the room and to the task. *)
LEMMA RenameRound ==
  \A c \in Client, r \in Channel : \A todo, old, names :
    /\ Serves /\ r \in Present /\ RenameIn(c, r, todo, old, names)
    => /\ conn' = conn /\ channels' = channels /\ Others(Own(c))
       /\ rooms' = [rooms EXCEPT ![ObjectOf(r)] = Renamed(RoomOf(r), c, old, nick'[c])]
       /\ task'[Own(c)].at = "rename" /\ task'[Own(c)].todo = todo
       /\ task'[Own(c)].old = old
<1> SUFFICES ASSUME NEW c \in Client, NEW r \in Channel, NEW todo, NEW old, NEW names,
                    Serves, r \in Present, RenameIn(c, r, todo, old, names)
             PROVE  /\ conn' = conn /\ channels' = channels /\ Others(Own(c))
                    /\ rooms' = [rooms EXCEPT ![ObjectOf(r)] =
                                   Renamed(RoomOf(r), c, old, nick'[c])]
                    /\ task'[Own(c)].at = "rename" /\ task'[Own(c)].todo = todo
                    /\ task'[Own(c)].old = old
  OBVIOUS
<1>1. PICK waiting : Goto(c, [At("rename") EXCEPT !.todo = todo, !.old = old,
                                                  !.wait = waiting])
  BY DEF RenameIn
<1> DEFINE f == [At("rename") EXCEPT !.todo = todo, !.old = old, !.wait = waiting]
<1>2. f.at = "rename" /\ f.todo = todo /\ f.old = old
  BY DEF At
<1>3. Goto(c, f)
  BY <1>1
<1> HIDE DEF f
<1>4. task'[Own(c)] = f /\ Others(Own(c))
  BY <1>3, GotoMoves DEF Serves
<1>5. QED BY <1>2, <1>4 DEF RenameIn

(* To the nickname it has: the room's users stay as they are.              *)
LEMMA RenameSame ==
  \A c \in Client, r \in Channel : \A todo, names :
    /\ Serves /\ conn[c] = "open" /\ nick' = nick /\ joined' = joined
    /\ r \in joined[c] /\ todo \subseteq joined[c]
    /\ task[Own(c)].at # "quit"
    /\ RenameIn(c, r, todo, nick[c], names)
    => SeatInv' /\ StepSafe
<1> SUFFICES ASSUME NEW c \in Client, NEW r \in Channel, NEW todo, NEW names,
                    Serves, conn[c] = "open", nick' = nick, joined' = joined,
                    r \in joined[c], todo \subseteq joined[c],
                    task[Own(c)].at # "quit",
                    RenameIn(c, r, todo, nick[c], names)
             PROVE  SeatInv' /\ StepSafe
  OBVIOUS
<1>1. r \in Seats(c)
  BY DEF Seats
<1>2. Sits(r, nick[c]) = c /\ nick[c] \in Nick
  BY <1>1 DEF Serves, SeatInv, Seated
<1>3. r \in Present /\ RoomOf(r).users[nick[c]] = c
  BY <1>2, PeerChatConstants DEF Sits
<1>4. RoomOf(r) \in Room
  BY <1>3, PresentTyped DEF Serves
<1> DEFINE room == Renamed(RoomOf(r), c, nick[c], nick[c])
<1>5. room.users = RoomOf(r).users
  <2>1. RoomOf(r).users \in [Nick -> Client \cup {Nobody}]
    BY <1>4 DEF Room
  <2>2. room.users = [m \in Nick |-> IF m = nick[c] THEN c ELSE
                                     IF m = nick[c] THEN Nobody ELSE RoomOf(r).users[m]]
    BY DEF Renamed
  <2>3. \A m \in Nick : room.users[m] = RoomOf(r).users[m]
    BY <1>3, <2>2
  <2> HIDE DEF room
  <2>4. QED BY <2>1, <2>2, <2>3
<1>6. /\ conn' = conn /\ channels' = channels /\ Others(Own(c))
      /\ rooms' = [rooms EXCEPT ![ObjectOf(r)] = room]
      /\ task'[Own(c)].at = "rename" /\ task'[Own(c)].todo = todo
      /\ task'[Own(c)].old = nick[c]
  BY <1>3, RenameRound
<1> HIDE DEF room
<1>7. SameSeats
  BY <1>3, <1>5, <1>6, MapSeats
<1>8. Bystanders(c)
  BY <1>6 DEF Bystanders
<1>9. Seats(c)' = Seats(c) /\ HeldBy(c)'
  BY <1>6 DEF Seats, HeldBy
<1>10. QED BY <1>7, <1>8, <1>9, KeepSeats

(* To another one, in its only room.                                       *)
LEMMA RenameOther ==
  \A c \in Client, n \in Nick, r \in Channel : \A names :
    /\ Serves /\ conn[c] = "open" /\ joined' = joined
    /\ nick' = [nick EXCEPT ![c] = n] /\ n # nick[c] /\ clients[n] \in {c, Nobody}
    /\ joined[c] = {r} /\ task[Own(c)].at # "quit"
    /\ RenameIn(c, r, {}, nick[c], names)
    => SeatInv' /\ StepSafe
<1> SUFFICES ASSUME NEW c \in Client, NEW n \in Nick, NEW r \in Channel, NEW names,
                    Serves, conn[c] = "open", joined' = joined,
                    nick' = [nick EXCEPT ![c] = n], n # nick[c],
                    clients[n] \in {c, Nobody}, joined[c] = {r},
                    task[Own(c)].at # "quit",
                    RenameIn(c, r, {}, nick[c], names)
             PROVE  SeatInv' /\ StepSafe
  OBVIOUS
<1>1. Seated /\ Occupied /\ Held /\ TypeOK
  BY DEF Serves, SeatInv
<1>2. Seats(c) = {r}
  BY DEF Seats
<1>3. PICK old \in Nick : old = nick[c] /\ Sits(r, old) = c
  BY <1>1, <1>2 DEF Seated
<1>4. r \in Present /\ RoomOf(r) \in Room /\ ObjectOf(r) \in Object
  BY <1>1, <1>3, PeerChatConstants, PresentTyped DEF Sits
<1>5. nick'[c] = n /\ \A d \in Client \ {c} : nick'[d] = nick[d]
  BY <1>1 DEF TypeOK
<1> DEFINE room == Renamed(RoomOf(r), c, old, n)
<1>6. /\ conn' = conn /\ channels' = channels /\ Others(Own(c))
      /\ rooms' = [rooms EXCEPT ![ObjectOf(r)] = room]
      /\ task'[Own(c)].at = "rename" /\ task'[Own(c)].todo = {}
  BY <1>3, <1>4, <1>5, RenameRound
<1>7. \A m \in Nick : room.users[m] = IF m = n THEN c ELSE IF m = old THEN Nobody
                                      ELSE RoomOf(r).users[m]
  BY DEF Renamed
<1> HIDE DEF room
<1>8. ASSUME NEW q \in Channel, NEW m \in Nick
      PROVE  Sits(q, m)' = IF q # r THEN Sits(q, m) ELSE IF m = n THEN c
                           ELSE IF m = old THEN Nobody ELSE Sits(q, m)
  <2>1. Sits(q, m)' = IF channels[q] # Absent THEN rooms'[<<q, channels[q]>>].users[m]
                      ELSE Nobody
    BY <1>6 DEF Sits, Present, RoomOf, ObjectOf
  <2>2. Sits(q, m) = IF channels[q] # Absent THEN rooms[<<q, channels[q]>>].users[m]
                     ELSE Nobody
    BY DEF Sits, Present, RoomOf, ObjectOf
  <2>3. ObjectOf(r) = <<r, channels[r]>> /\ channels[r] # Absent
    BY <1>4 DEF ObjectOf, Present
  <2>4. CASE q # r
    <3>1. channels[q] # Absent => <<q, channels[q]>> \in Object
      BY <1>1 DEF TypeOK, Object
    <3>2. <<q, channels[q]>> # ObjectOf(r)
      BY <2>3, <2>4
    <3>3. channels[q] # Absent => rooms'[<<q, channels[q]>>] = rooms[<<q, channels[q]>>]
      BY <1>1, <1>6, <3>1, <3>2 DEF TypeOK
    <3>4. QED BY <2>1, <2>2, <2>4, <3>3
  <2>5. CASE q = r
    <3>1. rooms'[ObjectOf(r)] = room
      BY <1>1, <1>4, <1>6 DEF TypeOK
    <3>2. Sits(q, m)' = room.users[m]
      BY <2>1, <2>3, <2>5, <3>1
    <3>3. Sits(q, m) = RoomOf(r).users[m]
      BY <2>2, <2>3, <2>5 DEF RoomOf
    <3>4. QED BY <1>7, <2>5, <3>2, <3>3
  <2>6. QED BY <2>4, <2>5
<1>9. Bystanders(c)
  BY <1>5, <1>6 DEF Bystanders
<1>10. Seats(c)' = {r} /\ HeldBy(c)'
  BY <1>2, <1>6 DEF Seats, HeldBy
<1>11. /\ \A d \in Client \ {c} : Seats(d)' = Seats(d)
       /\ \A d \in Client \ {c} : HeldBy(d)'
  BY <1>6, <1>9, BystandersKeep
<1>12. Held'
  BY <1>10, <1>11 DEF Held
<1>13. ASSUME NEW d \in Client \ {c}, NEW q \in Seats(d)
       PROVE  \E m \in Nick : /\ nick'[d] = m /\ nick[d] = m
                              /\ Sits(q, m) = d /\ Sits(q, m)' = d
  <2>1. PICK m \in Nick : m = nick[d] /\ Sits(q, m) = d
    BY <1>1, <1>13 DEF Seated
  <2>2. q \in Channel
    BY <1>1, <1>13 DEF Seated
  <2>3. clients[m] = d
    BY <1>13, <2>1, SeatNamed
  <2>4. m # n
    BY <2>3, PeerChatConstants
  <2>5. q = r => m # old
    BY <1>3, <2>1
  <2>6. QED BY <1>5, <1>8, <2>1, <2>2, <2>4, <2>5
<1>14. Seated'
  <2>1. ASSUME NEW d \in Client, NEW q \in Seats(d)'
        PROVE  /\ q \in joined'[d] /\ q \in Channel
               /\ \E m \in Nick : nick'[d] = m /\ Sits(q, m)' = d
    <3>1. CASE d = c
      BY <1>5, <1>8, <1>10, <2>1, <3>1
    <3>2. CASE d # c
      <4>1. d \in Client \ {c} /\ q \in Seats(d)
        BY <1>11, <2>1, <3>2
      <4>2. q \in joined[d] /\ q \in Channel
        BY <1>1, <4>1 DEF Seated
      <4>3. QED BY <1>13, <4>1, <4>2
    <3>3. QED BY <3>1, <3>2
  <2>2. QED BY <2>1, SitsAt DEF Seated
<1>15. Occupied'
  <2>1. ASSUME NEW q \in Channel, NEW m \in Nick, Sits(q, m)' # Nobody
        PROVE  nick'[Sits(q, m)'] = m /\ q \in (Seats(Sits(q, m)))'
    <3>1. CASE q = r /\ m = n
      <4>1. Sits(q, m)' = c
        BY <1>8, <3>1
      <4>2. q \in Seats(c)'
        BY <1>10, <3>1
      <4>3. QED BY <1>5, <3>1, <4>1, <4>2
    <3>2. CASE ~ (q = r /\ m = n)
      <4>1. PICK d \in Client : d = Sits(q, m) /\ Sits(q, m)' = d
        BY <1>1, <1>8, <2>1, <3>2, SitsTyped
      <4>2. nick[d] = m /\ q \in Seats(d)
        BY <1>1, <4>1, PeerChatConstants DEF Occupied
      <4>3. d # c
        <5>1. ASSUME d = c PROVE FALSE
          <6>1. q = r /\ m = old
            BY <1>2, <1>3, <4>2, <5>1
          <6>2. Sits(q, m)' = Nobody
            BY <1>3, <1>8, <6>1
          <6>3. QED BY <2>1, <6>2
        <5>2. QED BY <5>1
      <4>4. q \in Seats(d)' /\ nick'[d] = m
        BY <1>5, <1>11, <4>2, <4>3
      <4>5. QED BY <4>1, <4>4
    <3>3. QED BY <3>1, <3>2
  <2>2. QED BY <2>1 DEF Occupied
<1>16. ASSUME NEW q \in Staging, Few(q) PROVE Few(q)'
  <2>1. q \in Channel
    BY PeerChatConstants
  <2>2. CASE q # r
    BY <1>8, <1>16, <2>1, <2>2, FewShrinks
  <2>3. CASE q = r
    <3>1. IsFiniteSet(Occupants(q)) /\ Cardinality(Occupants(q)) <= ParticipantLimit
      BY <1>16 DEF Few
    <3>2. old \in Occupants(q)
      BY <1>3, <2>3, PeerChatConstants DEF Occupants
    <3>3. Occupants(q)' = (Occupants(q) \ {old}) \cup {n}
      <4>1. \A m \in Nick : Sits(q, m)' # Nobody <=> m = n \/ (m # old /\ Sits(q, m) # Nobody)
        BY <1>3, <1>8, <2>1, <2>3, PeerChatConstants
      <4>2. QED BY <4>1 DEF Occupants
    <3>4. /\ IsFiniteSet(Occupants(q) \ {old})
          /\ Cardinality(Occupants(q) \ {old}) = Cardinality(Occupants(q)) - 1
      BY <3>1, <3>2, FS_RemoveElement
    <3>5. /\ IsFiniteSet(Occupants(q)')
          /\ \/ Cardinality(Occupants(q)') = Cardinality(Occupants(q) \ {old}) + 1
             \/ Cardinality(Occupants(q)') = Cardinality(Occupants(q) \ {old})
      BY <3>3, <3>4, FS_AddElement
    <3>6. Cardinality(Occupants(q)) \in Nat
      BY <3>1, FS_CardinalityType
    <3>7. Cardinality(Occupants(q)') <= ParticipantLimit
      BY <3>1, <3>4, <3>5, <3>6 DEF ParticipantLimit
    <3>8. QED BY <3>5, <3>7 DEF Few
  <2>4. QED BY <2>2, <2>3
<1>17. EmptyGo
  BY <1>6 DEF EmptyGo
<1>18. QED BY <1>12, <1>14, <1>15, <1>16, <1>17 DEF SeatInv, StepSafe

LEMMA ReadingOpen ==
  \A c \in Client : Serves /\ Reading(c) =>
    conn[c] = "open" /\ task[Own(c)].at = "read" /\ Seats(c) = joined[c]
  BY ClosedByOwn DEF Reading, Closing, Seats

LEMMA NickSeats ==
  ASSUME Serves, WholeRenamings, NEW c \in Client, NEW n \in Nick, NickCmd(c, n)
  PROVE  SeatInv' /\ StepSafe
<1>1. /\ conn[c] = "open" /\ task[Own(c)].at = "read" /\ Seats(c) = joined[c]
      /\ nick' = [nick EXCEPT ![c] = n] /\ joined' = joined /\ clients[n] \in {c, Nobody}
  BY ReadingOpen DEF NickCmd
<1>2. Seated /\ Occupied /\ Held /\ TypeOK
  BY DEF Serves, SeatInv
<1>3. nick'[c] = n /\ \A d \in Client \ {c} : nick'[d] = nick[d]
  BY <1>1, <1>2 DEF TypeOK
<1>4. CASE nick[c] = NoNick \/ joined[c] = {}
  <2>1. joined[c] = {}
    BY <1>1, <1>2, <1>4, PeerChatConstants DEF Seated
  <2>2. Back(c) /\ UNCHANGED <<conn, channels, rooms>>
    BY <1>4 DEF NickCmd
  <2>3. Others(Own(c)) /\ task'[Own(c)].at \in {"read", "end"}
    BY <1>2, <2>2, GotoMoves
  <2>4. Bystanders(c)
    BY <1>1, <1>3, <2>2, <2>3 DEF Bystanders
  <2>5. SameSeats
    BY <2>2, UnmovedSeats
  <2>6. /\ \A d \in Client \ {c} : Seats(d)' = Seats(d)
        /\ \A d \in Client \ {c} : HeldBy(d)'
    BY <2>4, <2>5, BystandersKeep DEF SameSeats
  <2>7. Seats(c) = {} /\ Seats(c)' = {} /\ HeldBy(c)'
    BY <1>1, <2>1, <2>2, <2>3 DEF Seats, HeldBy
  <2>8. Held'
    BY <2>6, <2>7 DEF Held
  <2>9. Seated'
    <3>1. ASSUME NEW d \in Client, NEW q \in Seats(d)'
          PROVE  /\ q \in joined'[d] /\ q \in Channel
                 /\ \E m \in Nick : nick'[d] = m /\ Sits(q, m)' = d
      <4>1. d \in Client \ {c} /\ q \in Seats(d)
        BY <2>6, <2>7, <3>1
      <4>2. PICK m \in Nick : m = nick[d] /\ Sits(q, m) = d
        BY <1>2, <4>1 DEF Seated
      <4>3. q \in joined[d] /\ q \in Channel
        BY <1>2, <4>1 DEF Seated
      <4>4. QED BY <1>1, <1>3, <2>5, <4>1, <4>2, <4>3 DEF SameSeats
    <3>2. QED BY <3>1, SitsAt DEF Seated
  <2>10. Occupied'
    <3>1. ASSUME NEW q \in Channel, NEW m \in Nick, Sits(q, m)' # Nobody
          PROVE  nick'[Sits(q, m)'] = m /\ q \in (Seats(Sits(q, m)))'
      <4>1. PICK d \in Client : d = Sits(q, m) /\ Sits(q, m)' = d
        BY <1>2, <2>5, <3>1, SitsTyped DEF SameSeats
      <4>2. nick[d] = m /\ q \in Seats(d)
        BY <1>2, <4>1, PeerChatConstants DEF Occupied
      <4>3. q \in Seats(d)' /\ nick'[d] = m
        BY <1>3, <2>6, <2>7, <4>2
      <4>4. QED BY <4>1, <4>3
    <3>2. QED BY <3>1 DEF Occupied
  <2>11. StepSafe
    BY <2>5, FewShrinks, PeerChatConstants DEF StepSafe, EmptyGo, SameSeats
  <2>12. QED BY <2>8, <2>9, <2>10, <2>11 DEF SeatInv
<1>5. CASE ~ (nick[c] = NoNick \/ joined[c] = {})
  <2>1. PICK r \in joined[c] : RenameIn(c, r, joined[c] \ {r}, nick[c], Renaming(c, n))
    BY <1>5 DEF NickCmd
  <2>2. r \in Channel /\ joined[c] \ {r} \subseteq joined[c]
    BY <1>1, <1>2 DEF Seated
  <2>3. CASE n = nick[c]
    <3>1. nick' = nick
      BY <1>1, <1>2, <2>3 DEF TypeOK
    <3>2. QED BY <1>1, <2>1, <2>2, <3>1, RenameSame
  <2>4. CASE n # nick[c]
    <3>1. joined[c] = {r}
      BY <1>3, <2>4 DEF WholeRenamings, Serves
    <3>2. joined[c] \ {r} = {}
      BY <3>1
    <3>3. RenameIn(c, r, {}, nick[c], Renaming(c, n))
      BY <2>1, <3>2
    <3>4. QED BY <1>1, <2>2, <2>4, <3>1, <3>3, RenameOther
  <2>5. QED BY <2>3, <2>4
<1>6. QED BY <1>4, <1>5

LEMMA JoinSeats ==
  ASSUME Serves, NEW c \in Client, NEW r \in Channel, Join(c, r)
  PROVE  SeatInv' /\ StepSafe
<1>1. /\ conn[c] = "open" /\ task[Own(c)].at = "read" /\ nick[c] \in Nick /\ TypeOK
      /\ r \in Present /\ Enter(c, r, channels[r], RoomOf(r))
      /\ In(c, r) \/ HasRoomFor(c, r)
  BY ReadingOpen DEF Join, Welcomed, Serves, TypeOK
<1>2. channels[r] \in Generation /\ RoomOf(r) \in Room
  BY <1>1, PresentTyped DEF TypeOK, Present
<1>3. \A n \in Nick : RoomOf(r).users[n] = Sits(r, n)
  BY <1>1 DEF Sits
<1>4. /\ SeatInv' /\ EmptyGo
      /\ \A q \in Channel, n \in Nick :
           Sits(q, n)' = IF q = r /\ n = nick[c] THEN c ELSE Sits(q, n)
  BY <1>1, <1>2, <1>3, EnterSeats
<1>5. ASSUME NEW q \in Staging, Few(q) PROVE Few(q)'
  <2>1. q \in Channel
    BY PeerChatConstants
  <2>2. CASE q # r \/ In(c, r)
    <3>1. \A n \in Nick : Sits(q, n)' # Nobody => Sits(q, n) # Nobody
      BY <1>1, <1>4, <2>1, <2>2 DEF In, Users, Sits
    <3>2. QED BY <1>5, <3>1, FewShrinks
  <2>3. CASE q = r /\ ~ In(c, r)
    <3>1. Users(RoomOf(r)) = Occupants(q)
      BY <1>3, <2>3 DEF Users, Occupants
    <3>2. IsFiniteSet(Occupants(q)) /\ Cardinality(Occupants(q)) < ParticipantLimit
      BY <1>1, <1>5, <2>3, <3>1 DEF HasRoomFor, Few
    <3>3. Occupants(q)' = Occupants(q) \cup {nick[c]}
      <4>1. \A n \in Nick : Sits(q, n)' # Nobody <=> n = nick[c] \/ Sits(q, n) # Nobody
        BY <1>1, <1>4, <2>1, <2>3, PeerChatConstants
      <4>2. QED BY <1>1, <4>1 DEF Occupants
    <3>4. /\ IsFiniteSet(Occupants(q)')
          /\ \/ Cardinality(Occupants(q)') = Cardinality(Occupants(q)) + 1
             \/ Cardinality(Occupants(q)') = Cardinality(Occupants(q))
      BY <3>2, <3>3, FS_AddElement
    <3>5. Cardinality(Occupants(q)) \in Nat
      BY <3>2, FS_CardinalityType
    <3>6. Cardinality(Occupants(q)') <= ParticipantLimit
      BY <3>2, <3>4, <3>5 DEF ParticipantLimit
    <3>7. QED BY <3>4, <3>6 DEF Few
  <2>4. QED BY <2>2, <2>3
<1>6. QED BY <1>4, <1>5 DEF StepSafe

LEMMA JoinNewSeats ==
  ASSUME Serves, NEW c \in Client, NEW r \in Channel, JoinNew(c, r)
  PROVE  SeatInv' /\ StepSafe
<1>1. /\ conn[c] = "open" /\ task[Own(c)].at = "read" /\ nick[c] \in Nick
      /\ r \notin Present /\ channels[r] = Absent
  BY ReadingOpen DEF JoinNew, Welcomed, Serves, TypeOK, Present
<1>2. PICK g \in Generation : Enter(c, r, g, EmptyRoom)
  BY DEF JoinNew
<1>3. \A n \in Nick : EmptyRoom.users[n] = Sits(r, n) /\ Sits(r, n) = Nobody
  BY <1>1 DEF EmptyRoom, Sits
<1>4. /\ SeatInv' /\ EmptyGo
      /\ \A q \in Channel, n \in Nick :
           Sits(q, n)' = IF q = r /\ n = nick[c] THEN c ELSE Sits(q, n)
  BY <1>1, <1>2, <1>3, EmptyTyped, EnterSeats
<1>5. ASSUME NEW q \in Staging, Few(q) PROVE Few(q)'
  <2>1. q \in Channel
    BY PeerChatConstants
  <2>2. CASE q # r
    BY <1>4, <1>5, <2>1, <2>2, FewShrinks
  <2>3. CASE q = r
    <3>1. Occupants(q)' = {nick[c]}
      <4>1. \A n \in Nick : Sits(q, n)' # Nobody <=> n = nick[c]
        BY <1>1, <1>3, <1>4, <2>1, <2>3, PeerChatConstants
      <4>2. QED BY <1>1, <4>1 DEF Occupants
    <3>2. IsFiniteSet(Occupants(q)') /\ Cardinality(Occupants(q)') = 1
      BY <3>1, FS_Singleton
    <3>3. QED BY <3>2 DEF Few, ParticipantLimit
  <2>4. QED BY <2>2, <2>3
<1>6. QED BY <1>4, <1>5 DEF StepSafe

LEMMA PartSeats ==
  ASSUME Serves, NEW c \in Client, NEW r \in Channel, Part(c, r)
  PROVE  SeatInv' /\ StepSafe
<1>1. /\ conn[c] = "open" /\ task[Own(c)].at = "read" /\ In(c, r) /\ TypeOK
      /\ UNCHANGED <<nick, joined, conn, channels, rooms>>
      /\ Goto(c, [At("part") EXCEPT !.room = ObjectOf(r),
                                    !.wait = Listeners(RoomOf(r), Nobody)])
  BY ReadingOpen DEF Part, connVars, serverVars, Serves
<1> DEFINE f == [At("part") EXCEPT !.room = ObjectOf(r),
                                   !.wait = Listeners(RoomOf(r), Nobody)]
<1>2. f.at = "part" /\ f.room = ObjectOf(r)
  BY DEF At
<1>3. Goto(c, f)
  BY <1>1
<1> HIDE DEF f
<1>4. task'[Own(c)] = f /\ Others(Own(c))
  BY <1>1, <1>3, GotoMoves
<1>5. r \in joined[c]
  <2>1. nick[c] \in Nick /\ Sits(r, nick[c]) # Nobody
    BY <1>1 DEF In, Users, Sits
  <2>2. QED BY <1>1, <2>1, EntryOwn
<1>6. SameSeats /\ Bystanders(c)
  BY <1>1, <1>4, UnmovedSeats DEF Bystanders
<1>7. ObjectOf(r) = <<r, channels[r]>> /\ <<r, channels[r]>>[1] = r
  BY DEF ObjectOf
<1>8. HeldBy(c)'
  BY <1>1, <1>2, <1>4, <1>5, <1>7 DEF HeldBy, ObjectOf
<1>9. Seats(c)' = Seats(c)
  BY <1>1 DEF Seats
<1>10. QED BY <1>1, <1>6, <1>8, <1>9, KeepSeats

LEMMA CommandSeats ==
  ASSUME Serves, WholeRenamings, NEW c \in Client, Command(c)
  PROVE  SeatInv' /\ StepSafe
<1>1. ASSUME NEW n \in Nick, Message(c, n) PROVE SeatInv' /\ StepSafe
  <2>1. task[Own(c)].at = "read" /\ UNCHANGED <<nick, joined>>
    BY <1>1 DEF Message, Reading
  <2>2. CASE lost[clients[n]]
    BY <1>1, <2>1, <2>2, EndSeats DEF Message, Closing
  <2>3. CASE ~ lost[clients[n]]
    <3>1. /\ Goto(c, [At("direct") EXCEPT !.wait = {clients[n]}])
          /\ UNCHANGED <<conn, channels, rooms>>
      BY <1>1, <2>3 DEF Message, serverVars
    <3>2. [At("direct") EXCEPT !.wait = {clients[n]}].at = "direct"
      BY DEF At
    <3>3. QED BY <2>1, <3>1, <3>2, UnmovedSeats, GotoPlain
  <2>4. QED BY <2>2, <2>3
<1>2. CASE UserCmd(c)
  BY <1>2, UnmovedSeats, GotoPlain DEF UserCmd, Reading, serverVars
<1>3. ASSUME NEW r \in Channel, Tell(c, r) PROVE SeatInv' /\ StepSafe
  BY <1>3, UnmovedSeats, GotoPlain DEF Tell, Reading, connVars, serverVars
<1>4. ASSUME NEW r \in Channel, Who(c, r) PROVE SeatInv' /\ StepSafe
  <2>1. [At("who") EXCEPT !.room = ObjectOf(r), !.wait = {c},
           !.size = Cardinality(Users(RoomOf(r)))].at = "who"
    BY DEF At
  <2>2. QED BY <1>4, <2>1, UnmovedSeats, GotoPlain DEF Who, Reading, connVars, serverVars
<1>5. CASE List(c)
  <2>1. [At("list") EXCEPT !.wait = {c}, !.size = Cardinality(Present)].at = "list"
    BY DEF At
  <2>2. QED BY <1>5, <2>1, UnmovedSeats, GotoPlain DEF List, Reading, connVars, serverVars
<1>6. ASSUME NEW r \in Channel, NEW n \in Nick, SetCKey(c, r, n)
      PROVE  SeatInv' /\ StepSafe
  <2> DEFINE room == [RoomOf(r) EXCEPT !.keys = @ \cup {nick[clients[n]]}]
  <2>1. r \in Present /\ ObjectOf(r) \in Object /\ RoomOf(r) \in Room
    BY <1>6, PresentTyped DEF SetCKey, Serves
  <2>2. rooms' = [rooms EXCEPT ![ObjectOf(r)] = room] /\ room.users = RoomOf(r).users
    BY <1>6, <2>1 DEF SetCKey, RoomOf, TypeOK, Serves, Room
  <2> HIDE DEF room
  <2>3. SameSeats
    BY <1>6, <2>1, <2>2, MapSeats DEF SetCKey
  <2>4. QED BY <1>6, <2>3, GotoPlain DEF SetCKey, Reading, connVars
<1>7. ASSUME NEW r \in Channel, NEW n \in Nick, NEW given \in BOOLEAN, Mode(c, r, n, given)
      PROVE  SeatInv' /\ StepSafe
  <2> DEFINE room == [RoomOf(r) EXCEPT !.ops = IF given THEN @ \cup {n} ELSE @ \ {n}]
  <2>1. r \in Present /\ ObjectOf(r) \in Object /\ RoomOf(r) \in Room
    BY <1>7, PresentTyped DEF Mode, Serves
  <2>2. rooms' = [rooms EXCEPT ![ObjectOf(r)] = room] /\ room.users = RoomOf(r).users
    BY <1>7, <2>1 DEF Mode, RoomOf, TypeOK, Serves, Room
  <2> HIDE DEF room
  <2>3. SameSeats
    BY <1>7, <2>1, <2>2, MapSeats DEF Mode
  <2>4. QED BY <1>7, <2>3, GotoPlain DEF Mode, Reading, connVars
<1>8. QED
  BY <1>1, <1>2, <1>3, <1>4, <1>5, <1>6, <1>7, NickSeats, JoinSeats, JoinNewSeats, PartSeats
  DEF Command

LEMMA ResumeSeats ==
  ASSUME Serves, NEW t \in Task, Resume(t)
  PROVE  SeatInv' /\ StepSafe
<1>1. Seated /\ Held /\ TypeOK
  BY DEF Serves, SeatInv
<1>2. CASE QuitNext(t)
  <2>1. /\ task[t].at = "quit" /\ UNCHANGED <<nick, joined, conn>>
        /\ QuitRooms(t, task[t].todo, {task[t].room}, clients)
    BY <1>2 DEF QuitNext
  <2>2. PICK c \in Client : t = Own(c) \/ t = Drainer(c)
    BY DEF Task, Own, Drainer
  <2>3. t = Own(c) /\ conn[c] = "closed" /\ task[Own(c)] \in Frame
    BY <1>1, <2>1, <2>2, ClosedByOwn, TasksTyped DEF Closing, TypeOK
  <2> DEFINE r == task[t].room[1]
             todo == task[t].todo
  <2>4. Seats(c) = {r} \cup todo /\ task[t].room = ObjectOf(r) /\ r \notin todo
    BY <1>1, <2>1, <2>3 DEF Seats, Held, HeldBy
  <2>5. r \in Channel /\ todo \in SUBSET Channel /\ clients \in Names
    BY <1>1, <2>3, <2>4 DEF Seated, Frame, TypeOK, Names
  <2>6. ObjectsOf({r}) = {task[t].room} /\ {r} \cap todo = {}
    BY <2>4 DEF ObjectsOf
  <2>7. conn' = [conn EXCEPT ![c] = "closed"]
    BY <1>1, <2>1, <2>3 DEF TypeOK
  <2>8. QuitRooms(Own(c), todo, ObjectsOf({r}), clients)
    BY <2>1, <2>3, <2>6
  <2> HIDE DEF r, todo
  <2>9. {r} \in SUBSET Channel
    BY <2>5
  <2>10. QED BY <2>1, <2>4, <2>5, <2>6, <2>7, <2>8, <2>9, QuitSeats
<1>3. ASSUME NEW c \in Client, Back(c), task[Own(c)].at # "quit",
             UNCHANGED <<nick, joined, conn, channels, rooms>>
      PROVE  SeatInv' /\ StepSafe
  BY <1>3, UnmovedSeats, GotoPlain
<1>4. ASSUME NEW c \in Client, RenameNext(c) PROVE SeatInv' /\ StepSafe
  <2> DEFINE f == task[Own(c)]
  <2>1. f.at = "rename" /\ UNCHANGED <<nick, joined>>
    BY <1>4 DEF RenameNext
  <2>2. CASE f.todo = {}
    <3>1. Back(c) /\ UNCHANGED <<conn, channels, rooms>>
      BY <1>4, <2>2 DEF RenameNext, serverVars
    <3>2. QED BY <1>3, <2>1, <3>1
  <2>3. CASE f.todo # {}
    <3>1. conn[c] = "open" /\ f.todo \subseteq joined[c] /\ f.old = nick[c]
      BY <1>1, <2>1, <2>3 DEF Held, HeldBy
    <3>2. PICK r \in f.todo : RenameIn(c, r, f.todo \ {r}, nick[c], clients)
      BY <1>4, <2>3, <3>1 DEF RenameNext
    <3>3. r \in joined[c] /\ r \in Channel /\ f.todo \ {r} \subseteq joined[c]
      BY <1>1, <3>1 DEF TypeOK
    <3>4. QED BY <2>1, <3>1, <3>2, <3>3, RenameSame
  <2>4. QED BY <2>2, <2>3
<1>5. ASSUME NEW c \in Client, PartNext(c) PROVE SeatInv' /\ StepSafe
  <2> DEFINE r == task[Own(c)].room[1]
  <2>1. /\ task[Own(c)].at = "part" /\ UNCHANGED <<nick, conn>> /\ Back(c)
        /\ LeaveRooms(c, {task[Own(c)].room})
        /\ joined' = [joined EXCEPT ![c] = @ \ {r}]
    BY <1>5 DEF PartNext
  <2>2. conn[c] = "open" /\ r \in joined[c] /\ task[Own(c)].room = ObjectOf(r)
    BY <1>1, <2>1 DEF Held, HeldBy
  <2>3. Others(Own(c)) /\ task'[Own(c)].at \in {"read", "end"}
    BY <1>1, <2>1, GotoMoves
  <2>4. /\ joined'[c] = joined[c] \ {r}
        /\ \A d \in Client \ {c} : joined'[d] = joined[d]
    BY <1>1, <2>1 DEF TypeOK
  <2>5. Bystanders(c) /\ HeldBy(c)'
    BY <2>1, <2>3, <2>4 DEF Bystanders, HeldBy
  <2>6. Seats(c) = joined[c] /\ Seats(c)' = joined'[c]
    BY <2>1, <2>2 DEF Seats
  <2>7. LeaveRooms(c, ObjectsOf({r}))
    BY <2>1, <2>2 DEF ObjectsOf
  <2> HIDE DEF r
  <2>8. {r} \subseteq Seats(c) /\ Seats(c)' = Seats(c) \ {r} /\ Seats(c)' \subseteq joined'[c]
    BY <2>2, <2>4, <2>6
  <2>9. QED BY <2>1, <2>5, <2>7, <2>8, LeaveSeats
<1>6. ASSUME NEW c \in Client, Told(c) PROVE SeatInv' /\ StepSafe
  BY <1>3, <1>6 DEF Told, connVars, serverVars
<1>7. ASSUME NEW c \in Client, MessageFailed(c) PROVE SeatInv' /\ StepSafe
  BY <1>7, EndSeats DEF MessageFailed, Closing
<1>8. ASSUME NEW c \in Client, Replied(c) PROVE SeatInv' /\ StepSafe
  <2>1. CASE Iterated(task[Own(c)]) = task[Own(c)].size
    BY <1>3, <1>8, <2>1 DEF Replied, serverVars
  <2>2. CASE Iterated(task[Own(c)]) # task[Own(c)].size
    BY <1>8, <2>2, EndSeats DEF Replied, Closing
  <2>3. QED BY <2>1, <2>2
<1>9. t[1] \in Client
  BY TasksTyped
<1>10. QED BY <1>2, <1>4, <1>5, <1>6, <1>7, <1>8, <1>9 DEF Resume

LEMMA NextSeats ==
  ASSUME Serves, [WholeRenamings]_vars, [Next]_vars
  PROVE  StepSafe /\ (drain' # "begun" => SeatInv')
<1>0. TypeOK /\ Held
  BY DEF Serves, SeatInv
<1>1. ASSUME UNCHANGED <<nick, joined, conn, channels, rooms, task>>
      PROVE  SeatInv' /\ StepSafe
  <2>1. SameSeats /\ \A c \in Client : Seats(c)' = Seats(c) /\ HeldBy(c)' = HeldBy(c)
    BY <1>1, UnmovedSeats DEF Seats, HeldBy, ObjectOf
  <2>2. \A c \in Client : Bystanders(c)
    BY <1>1 DEF Bystanders, Others
  <2>3. ASSUME NEW c \in Client PROVE SeatInv' /\ StepSafe
    BY <1>0, <1>1, <2>1, <2>2, KeepSeats DEF Held
  <2>4. CASE Client = {}
    <3>1. Seated' /\ Held'
      BY <2>4 DEF Seated, Held
    <3>2. \A r \in Channel, n \in Nick : Sits(r, n) = Nobody
      BY <1>0, <2>4, SitsTyped
    <3>3. Occupied'
      BY <2>1, <3>2 DEF Occupied, SameSeats
    <3>4. StepSafe
      BY <2>1, FewShrinks, PeerChatConstants DEF StepSafe, EmptyGo, SameSeats
    <3>5. QED BY <3>1, <3>3, <3>4 DEF SeatInv
  <2>5. QED BY <2>3, <2>4
<1>2. CASE UNCHANGED vars
  BY <1>1, <1>2 DEF vars, connVars, serverVars
<1>3. ASSUME NEW c \in Client, Connect(c) PROVE SeatInv' /\ StepSafe
  <2>1. /\ task[Own(c)].at = "idle" /\ Own(c) \in Task
        /\ conn' = [conn EXCEPT ![c] = "open"]
        /\ task' = [task EXCEPT ![Own(c)] = At("read")]
        /\ UNCHANGED <<nick, joined, channels, rooms>>
    BY <1>3, TasksTyped DEF Connect, serverVars
  <2>2. Others(Own(c)) /\ task'[Own(c)].at = "read"
    BY <1>0, <2>1 DEF TypeOK, Others, At
  <2>3. /\ joined[c] = {} /\ \A d \in Client \ {c} : conn'[d] = conn[d]
    BY <1>0, <2>1 DEF TypeOK, Held, HeldBy
  <2>4. Seats(c) = {} /\ Seats(c)' = {}
    BY <2>1, <2>2, <2>3 DEF Seats
  <2>5. Bystanders(c) /\ HeldBy(c)' /\ SameSeats
    BY <2>1, <2>2, <2>3, UnmovedSeats DEF Bystanders, HeldBy
  <2>6. QED BY <2>1, <2>4, <2>5, KeepSeats
<1>4. ASSUME NEW c \in Client, Leave(c) PROVE SeatInv' /\ StepSafe
  BY <1>4, EndSeats DEF Leave, Closing
<1>5. ASSUME NEW c \in Client, DrainClient(c) PROVE FALSE
  BY <1>5, ClosedByOwn DEF DrainClient
<1>6. ASSUME NEW t \in Task, Closed(t) PROVE SeatInv' /\ StepSafe
  <2>1. PICK c \in Client : t = Own(c) \/ t = Drainer(c)
    BY DEF Task, Own, Drainer
  <2>2. t = Own(c) /\ task[Own(c)].at = "close" /\ conn[c] = "closed"
    BY <1>6, <2>1, ClosedByOwn DEF Closed, Closing
  <2>3. /\ conn' = [conn EXCEPT ![c] = "gone"]
        /\ task' = [task EXCEPT ![Own(c)] = At("end")]
        /\ UNCHANGED <<nick, joined, channels, rooms>>
    BY <1>6, <2>2, TasksTyped DEF Closed, serverVars
  <2>4. /\ Others(Own(c)) /\ task'[Own(c)].at = "end" /\ conn'[c] = "gone"
        /\ \A d \in Client \ {c} : conn'[d] = conn[d]
    BY <1>0, <2>3, TasksTyped DEF TypeOK, Others, At
  <2>5. Seats(c) = {} /\ Seats(c)' = {}
    BY <2>2, <2>4 DEF Seats
  <2>6. Bystanders(c) /\ HeldBy(c)' /\ SameSeats
    BY <2>3, <2>4, UnmovedSeats DEF Bystanders, HeldBy
  <2>7. QED BY <2>3, <2>5, <2>6, KeepSeats
<1>7. ASSUME NEW c \in Client, Lose(c) PROVE SeatInv' /\ StepSafe
  BY <1>1, <1>7 DEF Lose, serverVars
<1>8. CASE RequestDrain
  BY <1>1, <1>8 DEF RequestDrain, connVars, serverVars
<1>9. CASE BeginDrain
  <2>1. drain' = "begun" /\ SameSeats
    BY <1>9, UnmovedSeats DEF BeginDrain, serverVars
  <2>2. QED
    BY <2>1, FewShrinks, PeerChatConstants DEF StepSafe, EmptyGo, SameSeats
<1>10. ASSUME NEW c \in Client, Command(c) PROVE SeatInv' /\ StepSafe
  <2>1. WholeRenamings
    BY <1>0 DEF WholeRenamings, vars, connVars
  <2>2. QED BY <1>10, <2>1, CommandSeats
<1>11. QED
  BY <1>2, <1>3, <1>4, <1>5, <1>6, <1>7, <1>8, <1>9, <1>10, ResumeSeats DEF Next

SeatsBefore == drain # "begun" => SeatInv
FewBefore == drain # "begun" => \A r \in Staging : Few(r)

LEMMA InitSeats == Init => SeatsBefore /\ FewBefore
<1> SUFFICES ASSUME Init PROVE SeatsBefore /\ FewBefore
  OBVIOUS
<1>1. /\ \A r \in Channel : channels[r] = Absent
      /\ \A c \in Client : conn[c] = "none" /\ joined[c] = {} /\ task[Own(c)].at = "idle"
  <2>1. \A c \in Client : Own(c) \in Task /\ Own(c)[2] = "own"
    BY DEF Task, Own
  <2>2. QED BY <2>1 DEF Init, At
<1>2. \A r \in Channel, n \in Nick : Sits(r, n) = Nobody
  BY <1>1 DEF Sits, Present
<1>3. \A c \in Client : Seats(c) = {} /\ HeldBy(c)
  BY <1>1 DEF Seats, HeldBy
<1>4. SeatInv
  BY <1>2, <1>3 DEF SeatInv, Seated, Occupied, Held
<1>5. ASSUME NEW r \in Staging PROVE Few(r)
  <2>1. Occupants(r) = {}
    BY <1>2, PeerChatConstants DEF Occupants
  <2>2. IsFiniteSet(Occupants(r)) /\ Cardinality(Occupants(r)) = 0
    BY <2>1, FS_EmptySet
  <2>3. QED BY <2>2 DEF Few, ParticipantLimit
<1>6. QED BY <1>4, <1>5 DEF SeatsBefore, FewBefore

LEMMA StepSeats ==
  TypeOK /\ NickOK /\ SeatsBefore /\ [Next]_vars /\ [WholeRenamings]_vars
    => /\ SeatsBefore' /\ (FewBefore => FewBefore')
       /\ drain # "begun" => EmptyGo
<1> SUFFICES ASSUME TypeOK, NickOK, SeatsBefore, [Next]_vars, [WholeRenamings]_vars
             PROVE  /\ SeatsBefore' /\ (FewBefore => FewBefore')
                    /\ drain # "begun" => EmptyGo
  OBVIOUS
<1>1. drain # "begun" => StepSafe /\ (drain' # "begun" => SeatInv')
  BY NextSeats DEF Serves, SeatsBefore
<1>2. QED
  BY <1>1, DrainStays DEF SeatsBefore, FewBefore, StepSafe

(* Until a drain begins the rooms and the connections agree on who is in a *)
(* room, for any number of connections and rooms, if no connection changes *)
(* its nickname while it is in several rooms: what is left of the ways the *)
(* two could come apart is the loop that renames it room by room.          *)
THEOREM MembershipCorrect == Spec /\ [][WholeRenamings]_vars => []MembershipAgrees
<1>1. TypeOK /\ NickOK /\ SeatsBefore => MembershipAgrees
  <2> SUFFICES ASSUME TypeOK, NickOK, SeatsBefore, drain # "begun"
               PROVE  MembershipAgrees
    BY DEF MembershipAgrees
  <2>1. Serves
    BY DEF Serves, SeatsBefore
  <2>2. ASSUME NEW r \in Present, NEW n \in Users(RoomOf(r)), NEW c, c = RoomOf(r).users[n]
        PROVE  nick[c] = n /\ r \in joined[c] /\ conn[c] \in {"open", "closed"}
    <3>1. r \in Channel /\ n \in Nick /\ Sits(r, n) = c /\ c # Nobody
      BY <2>2 DEF Present, Users, Sits
    <3>2. c \in Client /\ nick[c] = n /\ r \in Seats(c)
      BY <2>1, <3>1, SitsTyped DEF Serves, SeatInv, Occupied
    <3>3. r \in joined[c]
      BY <2>1, <3>2 DEF Serves, SeatInv, Seated
    <3>4. conn[c] # "open" => task[Own(c)].at = "quit"
      BY <3>2 DEF Seats
    <3>5. QED BY <2>1, <3>2, <3>3, <3>4, ClosedByOwn DEF Closing
  <2>3. ASSUME NEW c \in Client, conn[c] = "open", NEW r \in joined[c]
        PROVE  r \in Present /\ RoomOf(r).users[nick[c]] = c
    <3>1. Sits(r, nick[c]) = c
      BY <2>1, <2>3 DEF Serves, SeatInv, Seated, Seats
    <3>2. QED BY <3>1, PeerChatConstants DEF Sits
  <2>4. QED BY <2>2, <2>3 DEF MembershipAgrees
<1>2. TypeOK /\ NickOK /\ SeatsBefore /\ [Next]_vars /\ [WholeRenamings]_vars => SeatsBefore'
  BY StepSeats
<1>3. Init => SeatsBefore
  BY InitSeats
<1>4. QED BY <1>1, <1>2, <1>3, NickInvariant, PTL DEF Spec

(* Under the same condition a name loses its room only when that is left   *)
(* empty: a room that a PART or a disconnection holds across a broadcast   *)
(* is still the room of its name.                                          *)
THEOREM RoomsCorrect == Spec /\ [][WholeRenamings]_vars => OnlyEmptyRoomsGo
<1> DEFINE Goes == drain # "begun" => \A r \in Present : channels'[r] # channels[r] =>
                     Users(rooms'[ObjectOf(r)]) = {}
<1>1. TypeOK /\ NickOK /\ SeatsBefore /\ [Next]_vars /\ [WholeRenamings]_vars
        => SeatsBefore' /\ [Goes]_vars
  BY StepSeats DEF EmptyGo
<1>2. Init => SeatsBefore
  BY InitSeats
<1>3. QED
  BY <1>1, <1>2, NickInvariant, PTL DEF Spec, OnlyEmptyRoomsGo

(* And until a drain begins no staging room has a third player, in its own *)
(* table or by what the connections have joined, whatever departures,      *)
(* renamings and joins are under way while the limit is checked.           *)
THEOREM StagingCorrect ==
  Spec /\ [][WholeRenamings]_vars => [](drain # "begun" => TwoPlayers)
<1> DEFINE Limit == drain # "begun" => TwoPlayers
<1>1. TypeOK /\ NickOK /\ SeatsBefore /\ FewBefore => Limit
  <2> SUFFICES ASSUME TypeOK, NickOK, SeatsBefore, FewBefore, drain # "begun",
                      NEW r \in Staging
               PROVE  /\ r \in Present => Cardinality(Users(RoomOf(r))) <= ParticipantLimit
                      /\ Cardinality({c \in Client : conn[c] = "open" /\ r \in joined[c]})
                           <= ParticipantLimit
    BY DEF TwoPlayers
  <2>1. /\ IsFiniteSet(Occupants(r)) /\ Cardinality(Occupants(r)) <= ParticipantLimit
        /\ Seated
    BY DEF FewBefore, Few, SeatsBefore, SeatInv
  <2>2. r \in Present => Users(RoomOf(r)) = Occupants(r)
    BY DEF Users, Occupants, Sits
  <2> DEFINE players == {c \in Client : conn[c] = "open" /\ r \in joined[c]}
             name == [c \in players |-> nick[c]]
  <2>3. \A c \in players : nick[c] \in Nick /\ Sits(r, nick[c]) = c
    BY <2>1 DEF Seated, Seats
  <2>4. \A c \in players : nick[c] \in Occupants(r)
    BY <2>3, PeerChatConstants DEF Occupants
  <2>5. \A c, d \in players : nick[c] = nick[d] => c = d
    BY <2>3
  <2>6. name \in Injection(players, Occupants(r))
    BY <2>4, <2>5 DEF Injection, IsInjective
  <2> HIDE DEF name, players
  <2>7. IsFiniteSet(players) /\ Cardinality(players) <= Cardinality(Occupants(r))
    BY <2>1, <2>6, FS_Injection
  <2>8. Cardinality(players) \in Nat /\ Cardinality(Occupants(r)) \in Nat
    BY <2>1, <2>7, FS_CardinalityType
  <2>9. Cardinality(players) <= ParticipantLimit
    BY <2>1, <2>7, <2>8 DEF ParticipantLimit
  <2>10. QED BY <2>1, <2>2, <2>9 DEF players
<1>2. TypeOK /\ NickOK /\ SeatsBefore /\ FewBefore /\ [Next]_vars /\ [WholeRenamings]_vars
        => SeatsBefore' /\ FewBefore'
  BY StepSeats
<1>3. Init => SeatsBefore /\ FewBefore
  BY InitSeats
<1>4. QED BY <1>1, <1>2, <1>3, NickInvariant, PTL DEF Spec
=============================================================================
