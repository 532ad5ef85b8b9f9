-------------------------- MODULE GameSession_proofs --------------------------
(***************************************************************************)
(* Proofs about GameSession, for any number of clients, rooms and slots and *)
(* any budget: what client and server take for true of rooms, rosters and   *)
(* slots agrees when nothing is under way between them, the server is used  *)
(* as ServerCore assumes, and the copies of a board follow the board.       *)
(***************************************************************************)
EXTENDS GameSession, ServerCore_proofs, NumbersAndQueues

-----------------------------------------------------------------------------
(* Types of messages and games *)

SlotsSeen == {<< >>} \cup [SlotIndex -> SlotView]

\* NetworkTypeOK does not say that networkSlots is a function of the clients.
TypesInv == SessionTypeOK /\ networkSlots \in [Client -> SlotsSeen]

LEMMA SendType ==
  ASSUME toServer \in [Client -> Seq(ClientMessage)], NEW c \in Client, NEW m \in ClientMessage, Send(c, m)
  PROVE  toServer' \in [Client -> Seq(ClientMessage)]
<1>1. Append(toServer[c], m) \in Seq(ClientMessage)
  OBVIOUS
<1> QED BY <1>1 DEF Send

\* What a message of the server carries.
LEMMA AnswerTypes ==
  ASSUME NEW m \in ServerMessage
  PROVE  /\ m.type = "game_room_joined" =>
              m.room \in RoomId /\ m.client \in Client /\ m.clients \in SUBSET Member /\ m.slots \in Slots
         /\ m.type \in {"game_looby", "create_game"} => m.slots \in Slots
         /\ m.type = "leave_game_room" => m.client \in Client /\ m.clients \in SUBSET Member
         /\ m.type = "game_command" => m.pause \in BOOLEAN
         /\ m.type \in BoardKind => m.player \in PlayerId /\ m.value \in BoardValue
         /\ m.type \in {"request_game_restart", "game_restart"} => m.blocks \in Blocks
BY DEF ServerMessage, BoardKind

LEMMA GameTypes ==
  /\ \A g \in Game, pause_ \in BOOLEAN : setPause(g, pause_) \in Game
  /\ \A g \in Game : restartedGame(g) \in Game /\ CountDownOver(g) \in Game
  /\ \A n \in Nat : createdGame(n) \in Game
<1>1. ASSUME NEW g \in Game, NEW pause_ \in BOOLEAN PROVE setPause(g, pause_) \in Game
  <2>1. pauseGame(g) \in Game /\ unPauseGame(g) \in Game
    BY DEF Game, pauseGame, unPauseGame
  <2>2. g.paused \in BOOLEAN /\ g.scheduled \in BOOLEAN
    BY DEF Game
  <2>3. \/ g.paused = pause_ /\ setPause(g, pause_) = g
        \/ g.paused # pause_ /\ pause_ /\ setPause(g, pause_) = pauseGame(g)
        \/ g.paused # pause_ /\ ~pause_ /\ setPause(g, pause_) \in {g, unPauseGame(g)}
    BY <2>2 DEF setPause
  <2> QED BY <2>1, <2>3
<1>2. ASSUME NEW g \in Game PROVE restartedGame(g) \in Game /\ CountDownOver(g) \in Game
  <2>1. [g EXCEPT !.paused = TRUE, !.scheduled = FALSE] \in Game /\ CountDownOver(g) \in Game
    BY DEF Game, CountDownOver
  <2> QED BY <1>1, <2>1 DEF restartedGame
<1>3. ASSUME NEW n \in Nat PROVE createdGame(n) \in Game
  <2>1. [countDown |-> n > 1, paused |-> TRUE, scheduled |-> FALSE] \in Game
    <3>1. (n > 1) \in BOOLEAN
      OBVIOUS
    <3> QED BY <3>1 DEF Game
  <2> QED BY <1>2, <2>1 DEF createdGame
<1> QED BY <1>1, <1>2, <1>3

LEMMA FirstGameType == FirstGame \in Game
BY GameTypes DEF FirstGame

LEMMA ViewType ==
  ASSUME NEW me, NEW slots \in Slots
  PROVE  View(me, slots) \in [SlotIndex -> SlotView]
BY DEF View, Slots, SlotView

\* A history that goes on is one of a player.
LEMMA ContinueType ==
  ASSUME NEW c \in Client, players[c] \in Seq(Player), NEW which, NEW change \in Change
  PROVE  Continue(c, which, change) \in Seq(Player) /\ Len(Continue(c, which, change)) = Len(players[c])
<1>1. ASSUME NEW p \in Player PROVE [p EXCEPT !.board = Append(@, change)] \in Player
  <2>1. p.board \in Seq(Change)
    BY DEF Player
  <2>2. Append(p.board, change) \in Seq(Change)
    BY <2>1
  <2> QED BY <2>2 DEF Player
<1>2. DOMAIN players[c] = 1 .. Len(players[c]) /\ Len(players[c]) \in Nat
      /\ \A i \in DOMAIN players[c] : players[c][i] \in Player
  OBVIOUS
<1> DEFINE F(i) == IF i \in which THEN [players[c][i] EXCEPT !.board = Append(@, change)] ELSE players[c][i]
<1>3. \A i \in 1 .. Len(players[c]) : F(i) \in Player
  BY <1>1, <1>2
<1>4. Continue(c, which, change) = [i \in 1 .. Len(players[c]) |-> F(i)]
  BY <1>2 DEF Continue
<1> HIDE DEF F
<1> QED BY <1>2, <1>3, <1>4

LEMMA PlayersOfType ==
  ASSUME NEW c \in Client, NEW slots \in Slots, networkSlots[c] \in [SlotIndex -> SlotView], clientId[c] \in Client
  PROVE  PlayersOf(c, slots) \in Seq(Player) /\ Len(PlayersOf(c, slots)) \in Nat
<1> DEFINE TakenSlot == [type : {"Remote"}, client : Client, player : PlayerId]
           all == [k \in 1 .. NumSlots |-> slots[k - 1]]
           tpPlayers == Taken(slots)
           paired == [k \in DOMAIN tpPlayers |-> [tp |-> tpPlayers[k], view |-> networkSlots[c][k - 1]]]
           made == SelectIn(paired, [tp : Slot, view : {"Local", "Remote"}])
           Pair == [tp : TakenSlot, view : SlotView]
<1>0. NumSlots \in Nat /\ \A k \in 1 .. NumSlots : k - 1 \in SlotIndex
  BY SizeAssumption DEF SlotIndex
<1>1. all \in Seq(Slot) /\ Len(all) = NumSlots
  <2>1. \A k \in 1 .. NumSlots : slots[k - 1] \in Slot
    BY <1>0 DEF Slots
  <2> QED BY <1>0, <2>1
<1>2. tpPlayers \in Seq(Slot \cap (Slot \ {OpenSlot})) /\ Len(tpPlayers) <= NumSlots
  <2>1. tpPlayers = SelectIn(all, Slot \ {OpenSlot})
    BY DEF Taken
  <2> HIDE DEF all, tpPlayers
  <2> QED BY <1>1, <2>1, SelectInParts
<1>3. Slot \cap (Slot \ {OpenSlot}) \subseteq TakenSlot
  BY DEF Slot
<1>4. /\ DOMAIN tpPlayers = 1 .. Len(tpPlayers) /\ Len(tpPlayers) \in Nat
      /\ \A k \in 1 .. Len(tpPlayers) : tpPlayers[k] \in TakenSlot
  <2> HIDE DEF tpPlayers, TakenSlot
  <2>1. DOMAIN tpPlayers = 1 .. Len(tpPlayers) /\ Len(tpPlayers) \in Nat
        /\ \A k \in 1 .. Len(tpPlayers) : tpPlayers[k] \in Slot \cap (Slot \ {OpenSlot})
    BY <1>2
  <2> QED BY <1>3, <2>1
<1> HIDE DEF tpPlayers, TakenSlot
<1>5. \A k \in 1 .. Len(tpPlayers) : k - 1 \in SlotIndex
  BY <1>0, <1>2, <1>4
<1>6. \A k \in 1 .. Len(tpPlayers) : [tp |-> tpPlayers[k], view |-> networkSlots[c][k - 1]] \in Pair
  BY <1>4, <1>5
<1>7. paired \in Seq(Pair) /\ Len(paired) = Len(tpPlayers)
  <2> HIDE DEF Pair
  <2> QED BY <1>4, <1>6
<1>8. made \in Seq(Pair \cap [tp : Slot, view : {"Local", "Remote"}]) /\ Len(made) <= NumSlots
  <2> HIDE DEF paired, Pair
  <2>1. made \in Seq(Pair \cap [tp : Slot, view : {"Local", "Remote"}]) /\ Len(made) <= Len(paired)
    BY <1>7, SelectInParts
  <2>2. Len(made) \in Nat
    BY <2>1
  <2> HIDE DEF made
  <2> QED BY <1>0, <1>2, <1>4, <1>7, <2>1, <2>2
<1>9. /\ DOMAIN made = 1 .. Len(made) /\ Len(made) \in Nat
      /\ \A k \in 1 .. Len(made) : made[k].tp \in TakenSlot /\ made[k].view \in {"Local", "Remote"}
  <2>1. \A pair \in Pair \cap [tp : Slot, view : {"Local", "Remote"}] :
          pair.tp \in TakenSlot /\ pair.view \in {"Local", "Remote"}
    OBVIOUS
  <2> HIDE DEF made, Pair
  <2>2. /\ DOMAIN made = 1 .. Len(made) /\ Len(made) \in Nat
        /\ \A k \in 1 .. Len(made) : made[k] \in Pair \cap [tp : Slot, view : {"Local", "Remote"}]
    BY <1>8
  <2> QED BY <2>1, <2>2
<1> HIDE DEF made
<1> DEFINE P(k) == [player |-> made[k].tp.player,
                    client |-> IF made[k].view = "Local" THEN clientId[c] ELSE made[k].tp.client,
                    local  |-> made[k].view = "Local",
                    board  |-> << >>,
                    index  |-> k]
<1>10. ASSUME NEW k \in 1 .. Len(made) PROVE P(k) \in Player
  <2>1. made[k].tp.player \in PlayerId /\ made[k].tp.client \in Client
    BY <1>9 DEF TakenSlot
  <2>2. k \in 1 .. NumSlots
    BY <1>0, <1>8, <1>9
  <2>3. << >> \in Seq(Change) /\ (made[k].view = "Local") \in BOOLEAN
    OBVIOUS
  <2> QED BY <2>1, <2>2, <2>3 DEF Player
<1>11. PlayersOf(c, slots) = [k \in 1 .. Len(made) |-> P(k)]
  BY <1>9 DEF PlayersOf, made, tpPlayers
<1> HIDE DEF P
<1> QED BY <1>9, <1>10, <1>11

-----------------------------------------------------------------------------
(* Types: what clients do *)

ClientTypes ==
  /\ NetworkTypeOK
  /\ networkSlots \in [Client -> SlotsSeen]

LEMMA TypesOfClients ==
  ASSUME ClientTypes
  PROVE  /\ phase \in [Client -> {"off", "connect", "lobby", "game", "lost"}]
         /\ gameRoomId \in [Client -> RoomId \cup {NoRoom}]
         /\ clientId \in [Client -> Client \cup {NoClient}]
         /\ networkSlots \in [Client -> SlotsSeen]
         /\ players \in [Client -> Seq(Player)]
         /\ listening \in [Client -> BOOLEAN]
         /\ gameRoomClients \in [Client -> SUBSET Member]
         /\ tetrisGame \in [Client -> Game]
         /\ toServer \in [Client -> Seq(ClientMessage)]
         /\ toClient \in [Client -> Seq(ServerMessage)]
BY DEF ClientTypes, NetworkTypeOK

\* The state of a client that has seen a room.
KnowsRoom(c) == clientId[c] \in Client /\ networkSlots[c] \in [SlotIndex -> SlotView]
-----------------------------------------------------------------------------
(* What users do *)

\* Nothing of what a view of the room and the connection consists of changes at the client.
SameView == UNCHANGED <<phase, gameRoomId, clientId, networkSlots, gameRoomClients, toClient>>

\* What c sends, if anything, is no kick, and asks to enter a room only when c may ask.
Sends(c) ==
  \/ UNCHANGED toServer
  \/ /\ Running(c)
     /\ \E m \in ClientMessage :
          /\ Send(c, m)
          /\ m.type # "remove_client"
          /\ m.type \in Entry => MayAsk(c) /\ ~isInsideRoom(c)

LEMMA SendsType ==
  ASSUME ClientTypes, NEW c \in Client, Sends(c)
  PROVE  toServer' \in [Client -> Seq(ClientMessage)]
BY SendType, TypesOfClients DEF Sends

LEMMA SameViewTypes ==
  ASSUME ClientTypes, SameView,
         players' \in [Client -> Seq(Player)], listening' \in [Client -> BOOLEAN],
         tetrisGame' \in [Client -> Game], toServer' \in [Client -> Seq(ClientMessage)]
  PROVE  ClientTypes'
<1>1. /\ phase' \in [Client -> {"off", "connect", "lobby", "game", "lost"}]
      /\ gameRoomId' \in [Client -> RoomId \cup {NoRoom}]
      /\ clientId' \in [Client -> Client \cup {NoClient}]
      /\ networkSlots' \in [Client -> SlotsSeen]
      /\ gameRoomClients' \in [Client -> SUBSET Member]
      /\ toClient' \in [Client -> Seq(ServerMessage)]
  BY TypesOfClients DEF SameView
<1>2. \A c \in Client : networkSlots'[c] = << >> \/ networkSlots'[c] \in [SlotIndex -> SlotView]
  BY <1>1 DEF SlotsSeen
<1> QED BY <1>1, <1>2 DEF ClientTypes, NetworkTypeOK

LEMMA UserSteps ==
  ASSUME ClientTypes, NEW c \in Client, UserCommand(c), ~LoseConnection(c)
  PROVE  SameView /\ Sends(c) /\ ClientTypes'
<1> USE DEF SameView, clientVars
<1>0. /\ players \in [Client -> Seq(Player)] /\ listening \in [Client -> BOOLEAN]
      /\ tetrisGame \in [Client -> Game] /\ toServer \in [Client -> Seq(ClientMessage)]
  BY TypesOfClients
<1>entry. /\ \A isPublic : CreateGameRoom(isPublic).type = "create_game_room"
          /\ \A r : JoinGameRoom(r).type = "join_game_room"
          /\ \A m \in {LeaveGameRoom, StartGame, RequestGameRestart, RequestGameRoomList} :
               m.type \notin Entry /\ m.type # "remove_client"
          /\ \A i, request : PlayerSlot(i, request).type = "player_slot"
          /\ \A p : GameCommand(p).type = "game_command"
          /\ \A kind, p, v : Board(kind, p, v).type = kind
  BY DEF CreateGameRoom, JoinGameRoom, LeaveGameRoom, StartGame, RequestGameRestart, RequestGameRoomList,
         PlayerSlot, GameCommand, Board, Entry
<1>inside. ASSUME NEW m \in ClientMessage, m.type \notin Entry, m.type # "remove_client", InsideSend(c, m)
           PROVE  SameView /\ Sends(c) /\ UNCHANGED <<players, listening, tetrisGame>>
  BY <1>inside DEF InsideSend, Sends
<1>1. CASE MayAsk(c) /\ \E isPublic \in BOOLEAN : createGameRoom(c, isPublic)
  <2>1. PICK isPublic \in BOOLEAN : createGameRoom(c, isPublic)
    BY <1>1
  <2>2. CreateGameRoom(isPublic) \in ClientMessage
    BY RequestTypes
  <2>3. SameView /\ Sends(c) /\ UNCHANGED <<players, listening, tetrisGame>>
    BY <1>1, <1>entry, <2>1, <2>2 DEF createGameRoom, Sends
  <2> QED BY <1>0, <2>3, SendsType, SameViewTypes
<1>2. CASE MayAsk(c) /\ \E r \in RoomId : KnownRoom(r) /\ joinGameRoom(c, r)
  <2>1. PICK r \in RoomId : joinGameRoom(c, r)
    BY <1>2
  <2>2. JoinGameRoom(r) \in ClientMessage
    BY RequestTypes
  <2>3. SameView /\ Sends(c) /\ UNCHANGED <<players, tetrisGame>>
    BY <1>2, <1>entry, <2>1, <2>2 DEF joinGameRoom, Sends
  <2>4. listening' \in [Client -> BOOLEAN]
    BY <1>0, <2>1 DEF joinGameRoom
  <2> QED BY <1>0, <2>3, <2>4, SendsType, SameViewTypes
<1>3. CASE leaveGameRoom(c)
  BY <1>0, <1>3, <1>inside, <1>entry, RequestTypes, SendsType, SameViewTypes DEF leaveGameRoom
<1>4. CASE \E i \in SlotIndex, request \in {"PLAYER", "OPEN_SLOT"} : setPlayerSlot(c, i, request)
  <2>1. PICK i \in SlotIndex, request \in {"PLAYER", "OPEN_SLOT"} : InsideSend(c, PlayerSlot(i, request))
    BY <1>4 DEF setPlayerSlot
  <2>2. PlayerSlot(i, request) \in ClientMessage
    BY RequestTypes DEF SlotRequest
  <2>3. PlayerSlot(i, request).type = "player_slot" /\ "player_slot" \notin Entry
    BY <1>entry DEF Entry
  <2>4. SameView /\ Sends(c) /\ UNCHANGED <<players, listening, tetrisGame>>
    BY <1>inside, <2>1, <2>2, <2>3
  <2> QED BY <1>0, <2>4, SendsType, SameViewTypes
<1>5. CASE startGame(c)
  BY <1>0, <1>5, <1>inside, <1>entry, RequestTypes, SendsType, SameViewTypes DEF startGame
<1>6. CASE pause(c)
  <2>1. tetrisGame[c] \in Game /\ (~tetrisGame[c].paused) \in BOOLEAN
    BY <1>0
  <2>2. CASE InsideSend(c, GameCommand(~tetrisGame[c].paused))
    <3>1. GameCommand(~tetrisGame[c].paused) \in ClientMessage
      BY <2>1, RequestTypes
    <3>2. GameCommand(~tetrisGame[c].paused).type = "game_command" /\ "game_command" \notin Entry
      BY <1>entry DEF Entry
    <3>3. SameView /\ Sends(c) /\ UNCHANGED <<players, listening, tetrisGame>>
      BY <1>inside, <2>2, <3>1, <3>2
    <3> QED BY <1>0, <3>3, SendsType, SameViewTypes
  <2>3. CASE /\ tetrisGame' = [tetrisGame EXCEPT ![c] = setPause(@, ~@.paused)]
             /\ UNCHANGED <<phase, gameRoomId, clientId, networkSlots, players, listening, gameRoomClients,
                            toServer, toClient>>
    <3>1. setPause(tetrisGame[c], ~tetrisGame[c].paused) \in Game
      BY <2>1, GameTypes
    <3>2. tetrisGame' \in [Client -> Game]
      BY <1>0, <2>3, <3>1
    <3>3. SameView /\ Sends(c) /\ UNCHANGED <<players, listening>>
      BY <2>3 DEF Sends
    <3> QED BY <1>0, <3>2, <3>3, SendsType, SameViewTypes
  <2> QED BY <1>6, <2>2, <2>3 DEF pause
<1>7. CASE restartGame(c)
  <2>1. CASE InsideSend(c, RequestGameRestart)
    BY <1>0, <2>1, <1>inside, <1>entry, RequestTypes, SendsType, SameViewTypes
  <2>2. CASE /\ tetrisGame' = [tetrisGame EXCEPT ![c] = restartedGame(@)]
             /\ \E blocks \in Blocks :
                  players' = [players EXCEPT ![c] = Continue(c, DOMAIN players[c], Restart(blocks))]
             /\ UNCHANGED <<phase, gameRoomId, clientId, networkSlots, listening, gameRoomClients,
                            toServer, toClient>>
    <3>1. tetrisGame' \in [Client -> Game]
      <4>1. restartedGame(tetrisGame[c]) \in Game
        BY <1>0, GameTypes
      <4> QED BY <1>0, <2>2, <4>1
    <3>2. PICK blocks \in Blocks :
            players' = [players EXCEPT ![c] = Continue(c, DOMAIN players[c], Restart(blocks))]
      BY <2>2
    <3>3. Restart(blocks) \in Change
      BY DEF Restart, Change
    <3>4. Continue(c, DOMAIN players[c], Restart(blocks)) \in Seq(Player)
      BY <1>0, <3>3, ContinueType
    <3>5. players' \in [Client -> Seq(Player)]
      BY <1>0, <3>2, <3>4
    <3>6. SameView /\ Sends(c) /\ UNCHANGED listening
      BY <2>2 DEF Sends
    <3> QED BY <1>0, <3>1, <3>5, <3>6, SendsType, SameViewTypes
  <2> QED BY <1>7, <2>1, <2>2 DEF restartGame
<1>8. CASE requestGameRoomList(c)
  <2>1. SameView /\ Sends(c) /\ UNCHANGED <<players, listening, tetrisGame>>
    BY <1>8, <1>entry, RequestTypes DEF requestGameRoomList, Sends
  <2> QED BY <1>0, <2>1, SendsType, SameViewTypes
<1>9. CASE \E i \in DOMAIN players[c], kind \in BoardKind, v \in BoardValue :
             LocalChange(c, i, [type |-> kind, value |-> v])
  <2>1. PICK i \in DOMAIN players[c], kind \in BoardKind, v \in BoardValue :
          LocalChange(c, i, [type |-> kind, value |-> v])
    BY <1>9
  <2> DEFINE change == [type |-> kind, value |-> v]
             mine == players[c]
             k == mine[i].index
             p == [mine[i] EXCEPT !.board = Append(mine[i].board, change)]
  <2>2. change \in Change /\ change.type = kind /\ change.value = v
    BY DEF Change
  <2>3. mine \in Seq(Player) /\ i \in DOMAIN mine /\ mine[i] \in Player
    BY <1>0, <2>1
  <2>4. p \in Player
    <3>1. mine[i].board \in Seq(Change)
      BY <2>3 DEF Player
    <3>2. Append(mine[i].board, change) \in Seq(Change)
      BY <2>2, <3>1
    <3> HIDE DEF change, mine
    <3> QED BY <2>3, <3>2 DEF Player
  <2>5. players' = [players EXCEPT ![c] = [mine EXCEPT ![i] = p]]
    BY <1>0, <2>1 DEF LocalChange
  <2>6. [mine EXCEPT ![i] = p] \in Seq(Player)
    <3> HIDE DEF mine, p
    <3> QED BY <2>3, <2>4
  <2>7. players' \in [Client -> Seq(Player)]
    BY <1>0, <2>5, <2>6
  <2>8. Sends(c)
    <3>1. CASE listening[c] /\ k \in DOMAIN players[c]
      <4>1. Running(c) /\ Send(c, Board(kind, mine[k].player, v))
        BY <2>1, <2>2, <3>1 DEF LocalChange
      <4>2. mine[k].player \in PlayerId
        <5>1. mine[k] \in Player
          BY <2>3, <3>1
        <5> QED BY <5>1 DEF Player
      <4>3. Board(kind, mine[k].player, v) \in ClientMessage
        BY <4>2, RequestTypes
      <4>4. Board(kind, mine[k].player, v).type \notin Entry
            /\ Board(kind, mine[k].player, v).type # "remove_client"
        BY <1>entry DEF Entry, BoardKind
      <4> QED BY <4>1, <4>3, <4>4 DEF Sends
    <3>2. CASE ~(listening[c] /\ k \in DOMAIN players[c])
      BY <2>1, <3>2 DEF LocalChange, Sends
    <3> QED BY <3>1, <3>2
  <2>9. SameView /\ UNCHANGED <<listening, tetrisGame>>
    BY <2>1 DEF LocalChange
  <2> QED BY <1>0, <2>7, <2>8, <2>9, SendsType, SameViewTypes
<1> QED BY <1>1, <1>2, <1>3, <1>4, <1>5, <1>6, <1>7, <1>8, <1>9 DEF UserCommand

LEMMA FrameTypes ==
  ASSUME ClientTypes, NEW c \in Client, updateGame(c)
  PROVE  SameView /\ ClientTypes' /\ UNCHANGED toServer
<1>1. tetrisGame \in [Client -> Game] /\ toServer \in [Client -> Seq(ClientMessage)]
      /\ players \in [Client -> Seq(Player)] /\ listening \in [Client -> BOOLEAN]
  BY TypesOfClients
<1>2. CountDownOver(tetrisGame[c]) \in Game
  BY <1>1, GameTypes
<1>3. tetrisGame' \in [Client -> Game]
  BY <1>1, <1>2 DEF updateGame
<1>4. SameView /\ UNCHANGED <<players, listening, toServer>>
  BY DEF updateGame, SameView
<1> QED BY <1>1, <1>3, <1>4, SameViewTypes

\* What came through is a beginning of what was sent.
LEMMA LoseTypes ==
  ASSUME ClientTypes, NEW c \in Client, LoseConnection(c)
  PROVE  /\ ClientTypes'
         /\ phase' = [phase EXCEPT ![c] = "lost"]
         /\ UNCHANGED <<gameRoomId, clientId, networkSlots, gameRoomClients>>
         /\ toClient' = [toClient EXCEPT ![c] = << >>]
         /\ \E k \in 0 .. Len(toServer[c]) : toServer' = [toServer EXCEPT ![c] = SubSeq(toServer[c], 1, k)]
<1>1. PICK k \in 0 .. Len(toServer[c]) : toServer' = [toServer EXCEPT ![c] = SubSeq(toServer[c], 1, k)]
  BY TypesOfClients DEF LoseConnection
<1>2. SubSeq(toServer[c], 1, k) \in Seq(ClientMessage)
  <2>1. toServer[c] \in Seq(ClientMessage)
    BY TypesOfClients
  <2> QED BY <2>1
<1>3. toServer' \in [Client -> Seq(ClientMessage)]
  BY <1>1, <1>2, TypesOfClients
<1>4. toClient' \in [Client -> Seq(ServerMessage)] /\ phase' \in [Client -> {"off", "connect", "lobby", "game", "lost"}]
  BY TypesOfClients DEF LoseConnection
<1>5. ClientTypes'
  BY <1>3, <1>4 DEF ClientTypes, NetworkTypeOK, LoseConnection
<1> QED BY <1>1, <1>5 DEF LoseConnection

-----------------------------------------------------------------------------
(* What a client makes of a message *)

\* How a client sees the room and the connection.
Sight == [phase : {"off", "connect", "lobby", "game", "lost"}, room : RoomId \cup {NoRoom},
          me : Client \cup {NoClient}, roster : SUBSET Member, slots : SlotsSeen]

Seen(c) == [phase |-> phase[c], room |-> gameRoomId[c], me |-> clientId[c],
            roster |-> gameRoomClients[c], slots |-> networkSlots[c]]

JoinedBy(v, m) ==
  LET me == IF v.me = NoClient THEN m.client ELSE v.me
  IN  [phase |-> "lobby", room |-> m.room, me |-> me, roster |-> m.clients, slots |-> View(me, m.slots)]

LeftBy(v, m) ==
  IF m.client = v.me
    THEN [phase |-> "connect", room |-> NoRoom, me |-> v.me, roster |-> m.clients, slots |-> v.slots]
    ELSE [phase |-> v.phase, room |-> v.room, me |-> v.me, roster |-> m.clients, slots |-> v.slots]

\* What a client that sees v sees once it has handled m.
After(v, m) ==
  IF v.phase # "game" /\ m.type = "game_room_joined" THEN JoinedBy(v, m)
  ELSE IF v.phase # "connect" /\ m.type = "leave_game_room" THEN LeftBy(v, m)
  ELSE IF v.phase = "lobby" /\ m.type = "game_looby"
    THEN [phase |-> v.phase, room |-> v.room, me |-> v.me, roster |-> v.roster, slots |-> View(v.me, m.slots)]
  ELSE IF v.phase = "lobby" /\ m.type = "create_game"
    THEN [phase |-> "game", room |-> v.room, me |-> v.me, roster |-> {}, slots |-> v.slots]
  ELSE v

\* What c sends when it handles a message asks for nothing but a game.
Replies(c) ==
  \E s \in Seq(ClientMessage) :
    /\ toServer' = [toServer EXCEPT ![c] = @ \o s]
    /\ \A k \in 1 .. Len(s) : s[k].type \notin Entry /\ s[k].type # "remove_client"

SameOthers(c) == \A d \in Client : d # c => Seen(d)' = Seen(d)

LEMMA NoReply ==
  ASSUME ClientTypes, NEW c \in Client, UNCHANGED toServer
  PROVE  Replies(c) /\ toServer' \in [Client -> Seq(ClientMessage)]
<1>1. << >> \in Seq(ClientMessage) /\ toServer[c] \in Seq(ClientMessage)
  BY TypesOfClients
<1>2. toServer[c] \o << >> = toServer[c] /\ Len(<< >>) = 0
  BY <1>1, ConcatEmptySeq, EmptySeq
<1>3. toServer' = [toServer EXCEPT ![c] = toServer[c] \o << >>]
  BY <1>2, TypesOfClients
<1>4. \A k \in 1 .. Len(<< >>) : FALSE
  BY <1>2
<1> QED BY <1>1, <1>3, <1>4, TypesOfClients DEF Replies

LEMMA ReplyType ==
  ASSUME ClientTypes, NEW c \in Client, Replies(c)
  PROVE  toServer' \in [Client -> Seq(ClientMessage)]
<1>1. PICK s \in Seq(ClientMessage) : toServer' = [toServer EXCEPT ![c] = toServer[c] \o s]
  BY TypesOfClients DEF Replies
<1>2. toServer[c] \o s \in Seq(ClientMessage)
  <2>1. toServer[c] \in Seq(ClientMessage)
    BY TypesOfClients
  <2> QED BY <2>1
<1> QED BY <1>1, <1>2, TypesOfClients

\* One message is a reply.
LEMMA OneReply ==
  ASSUME ClientTypes, NEW c \in Client, NEW m \in ClientMessage, Send(c, m),
         m.type \notin Entry, m.type # "remove_client"
  PROVE  Replies(c)
<1> DEFINE s == << m >>
<1>1. s \in Seq(ClientMessage) /\ Len(s) = 1 /\ s[1] = m
  OBVIOUS
<1>2. toServer[c] \in Seq(ClientMessage)
  BY TypesOfClients
<1>3. Append(toServer[c], m) = toServer[c] \o s
  BY <1>2
<1>4. toServer' = [toServer EXCEPT ![c] = toServer[c] \o s]
  BY <1>3 DEF Send
<1> HIDE DEF s
<1>5. \A k \in 1 .. Len(s) : k = 1
  BY <1>1
<1>6. \A k \in 1 .. Len(s) : s[k].type \notin Entry /\ s[k].type # "remove_client"
  BY <1>1, <1>5
<1> QED BY <1>1, <1>4, <1>6 DEF Replies

\* A handler that leaves the view alone.
LEMMA SameSight ==
  ASSUME ClientTypes, NEW c \in Client,
         UNCHANGED <<phase, gameRoomId, clientId, networkSlots, gameRoomClients>>
  PROVE  Seen(c)' = Seen(c) /\ SameOthers(c)
BY DEF Seen, SameOthers

\* The handlers that say something of the room.
LEMMA RoomHandlers ==
  ASSUME ClientTypes, toClient' \in [Client -> Seq(ServerMessage)], NEW c \in Client, NEW m \in ServerMessage
  PROVE  /\ m.type = "game_looby" /\ phase[c] = "lobby" /\ handleGameLooby(c, m)
              => ClientTypes' /\ Seen(c)' = After(Seen(c), m) /\ SameOthers(c) /\ UNCHANGED toServer
         /\ m.type = "game_room_joined" /\ phase[c] \in {"connect", "lobby"} /\ handleGameRoomJoined(c, m)
              => ClientTypes' /\ Seen(c)' = After(Seen(c), m) /\ SameOthers(c) /\ UNCHANGED toServer
         /\ m.type = "leave_game_room" /\ phase[c] \in {"lobby", "game"} /\ handleLeaveGameRoom(c, m)
              => ClientTypes' /\ Seen(c)' = After(Seen(c), m) /\ SameOthers(c) /\ UNCHANGED toServer
<1>0. /\ phase \in [Client -> {"off", "connect", "lobby", "game", "lost"}]
      /\ gameRoomId \in [Client -> RoomId \cup {NoRoom}]
      /\ clientId \in [Client -> Client \cup {NoClient}]
      /\ networkSlots \in [Client -> SlotsSeen]
      /\ gameRoomClients \in [Client -> SUBSET Member]
  BY TypesOfClients
<1>types. /\ phase' \in [Client -> {"off", "connect", "lobby", "game", "lost"}]
          /\ gameRoomId' \in [Client -> RoomId \cup {NoRoom}]
          /\ clientId' \in [Client -> Client \cup {NoClient}]
          /\ networkSlots' \in [Client -> SlotsSeen]
          /\ gameRoomClients' \in [Client -> SUBSET Member]
          /\ UNCHANGED <<players, listening, tetrisGame, toServer>>
          => ClientTypes'
  <2>1. networkSlots' \in [Client -> SlotsSeen] =>
          \A d \in Client : networkSlots'[d] = << >> \/ networkSlots'[d] \in [SlotIndex -> SlotView]
    BY DEF SlotsSeen
  <2> QED BY <2>1 DEF ClientTypes, NetworkTypeOK
<1>1. ASSUME m.type = "game_looby", phase[c] = "lobby", handleGameLooby(c, m)
      PROVE  ClientTypes' /\ Seen(c)' = After(Seen(c), m) /\ SameOthers(c) /\ UNCHANGED toServer
  <2>1. m.slots \in Slots
    BY <1>1, AnswerTypes
  <2> DEFINE slots == View(clientId[c], m.slots)
             sight == [phase |-> phase[c], room |-> gameRoomId[c], me |-> clientId[c],
                       roster |-> gameRoomClients[c], slots |-> slots]
  <2>2. slots \in SlotsSeen
    BY <2>1, ViewType DEF SlotsSeen
  <2>3. /\ networkSlots' = [networkSlots EXCEPT ![c] = slots]
        /\ UNCHANGED <<phase, gameRoomId, clientId, players, listening, gameRoomClients, tetrisGame, toServer>>
    BY <1>1 DEF handleGameLooby
  <2>6. After(Seen(c), m) = sight
    BY <1>1 DEF After, Seen
  <2> HIDE DEF slots
  <2>4. ClientTypes'
    BY <1>0, <1>types, <2>2, <2>3
  <2>5. Seen(c)' = sight
    BY <1>0, <2>3 DEF Seen
  <2>7. SameOthers(c)
    BY <1>0, <2>3 DEF Seen, SameOthers
  <2> QED BY <2>3, <2>4, <2>5, <2>6, <2>7
<1>2. ASSUME m.type = "game_room_joined", phase[c] \in {"connect", "lobby"}, handleGameRoomJoined(c, m)
      PROVE  ClientTypes' /\ Seen(c)' = After(Seen(c), m) /\ SameOthers(c) /\ UNCHANGED toServer
  <2> DEFINE me == IF clientId[c] = NoClient THEN m.client ELSE clientId[c]
             slots == View(me, m.slots)
  <2>1. m.slots \in Slots /\ m.client \in Client /\ m.room \in RoomId /\ m.clients \in SUBSET Member
    BY <1>2, AnswerTypes
  <2>2. me \in Client /\ slots \in SlotsSeen
    BY <1>0, <2>1, ViewType DEF SlotsSeen
  <2>3. /\ phase' = [phase EXCEPT ![c] = "lobby"]
        /\ gameRoomId' = [gameRoomId EXCEPT ![c] = m.room]
        /\ clientId' = [clientId EXCEPT ![c] = me]
        /\ networkSlots' = [networkSlots EXCEPT ![c] = slots]
        /\ gameRoomClients' = [gameRoomClients EXCEPT ![c] = m.clients]
        /\ UNCHANGED <<players, listening, tetrisGame, toServer>>
    BY <1>2 DEF handleGameRoomJoined
  <2>4. After(Seen(c), m) = [phase |-> "lobby", room |-> m.room, me |-> me, roster |-> m.clients, slots |-> slots]
    BY <1>2 DEF After, Seen, JoinedBy
  <2> HIDE DEF me, slots
  <2>5. ClientTypes'
    BY <1>0, <1>types, <2>1, <2>2, <2>3
  <2>6. Seen(c)' = [phase |-> "lobby", room |-> m.room, me |-> me, roster |-> m.clients, slots |-> slots]
    BY <1>0, <2>3 DEF Seen
  <2>7. SameOthers(c)
    BY <1>0, <2>3 DEF Seen, SameOthers
  <2> QED BY <2>3, <2>4, <2>5, <2>6, <2>7
<1>3. ASSUME m.type = "leave_game_room", phase[c] \in {"lobby", "game"}, handleLeaveGameRoom(c, m)
      PROVE  ClientTypes' /\ Seen(c)' = After(Seen(c), m) /\ SameOthers(c) /\ UNCHANGED toServer
  <2>1. m.clients \in SUBSET Member
    BY <1>3, AnswerTypes
  <2>2. /\ gameRoomClients' = [gameRoomClients EXCEPT ![c] = m.clients]
        /\ UNCHANGED <<clientId, networkSlots, players, listening, tetrisGame, toServer>>
    BY <1>3 DEF handleLeaveGameRoom
  <2>3. After(Seen(c), m) = LeftBy(Seen(c), m)
    BY <1>3 DEF After, Seen
  <2>4. CASE m.client = clientId[c]
    <3>1. phase' = [phase EXCEPT ![c] = "connect"] /\ gameRoomId' = [gameRoomId EXCEPT ![c] = NoRoom]
      BY <1>3, <2>4 DEF handleLeaveGameRoom
    <3>2. ClientTypes'
      BY <1>0, <1>types, <2>1, <2>2, <3>1
    <3>3. Seen(c)' = LeftBy(Seen(c), m)
      BY <1>0, <2>2, <2>4, <3>1 DEF Seen, LeftBy
    <3>4. SameOthers(c)
      BY <1>0, <2>2, <3>1 DEF Seen, SameOthers
    <3> QED BY <2>2, <2>3, <3>2, <3>3, <3>4
  <2>5. CASE m.client # clientId[c]
    <3>1. UNCHANGED <<phase, gameRoomId>>
      BY <1>3, <2>5 DEF handleLeaveGameRoom
    <3>2. ClientTypes'
      BY <1>0, <1>types, <2>1, <2>2, <3>1
    <3>3. Seen(c)' = LeftBy(Seen(c), m)
      BY <1>0, <2>2, <2>5, <3>1 DEF Seen, LeftBy
    <3>4. SameOthers(c)
      BY <1>0, <2>2, <3>1 DEF Seen, SameOthers
    <3> QED BY <2>2, <2>3, <3>2, <3>3, <3>4
  <2> QED BY <2>4, <2>5
<1> QED BY <1>1, <1>2, <1>3

\* A game begins with the players of the message.
LEMMA CreateHandler ==
  ASSUME ClientTypes, toClient' \in [Client -> Seq(ServerMessage)], NEW c \in Client, NEW m \in ServerMessage,
         m.type = "create_game", phase[c] = "lobby", KnowsRoom(c), handleCreateGame(c, m)
  PROVE  ClientTypes' /\ Seen(c)' = After(Seen(c), m) /\ SameOthers(c) /\ UNCHANGED toServer
<1>0. /\ phase \in [Client -> {"off", "connect", "lobby", "game", "lost"}]
      /\ gameRoomClients \in [Client -> SUBSET Member] /\ players \in [Client -> Seq(Player)]
      /\ listening \in [Client -> BOOLEAN] /\ tetrisGame \in [Client -> Game]
  BY TypesOfClients
<1>1. m.slots \in Slots
  BY AnswerTypes
<1>2. PlayersOf(c, m.slots) \in Seq(Player) /\ Len(PlayersOf(c, m.slots)) \in Nat
  BY <1>1, PlayersOfType DEF KnowsRoom
<1>3. /\ phase' = [phase EXCEPT ![c] = "game"]
      /\ players' = [players EXCEPT ![c] = PlayersOf(c, m.slots)]
      /\ listening' = [listening EXCEPT ![c] = TRUE]
      /\ tetrisGame' = [tetrisGame EXCEPT ![c] = createdGame(Len(players'[c]))]
      /\ gameRoomClients' = [gameRoomClients EXCEPT ![c] = {}]
      /\ UNCHANGED <<gameRoomId, clientId, networkSlots, toServer>>
  BY DEF handleCreateGame
<1>4. players' \in [Client -> Seq(Player)] /\ Len(players'[c]) \in Nat
  BY <1>0, <1>2, <1>3
<1>5. tetrisGame' \in [Client -> Game]
  <2>1. createdGame(Len(players'[c])) \in Game
    BY <1>4, GameTypes
  <2> QED BY <1>0, <1>3, <2>1
<1>6. /\ phase' \in [Client -> {"off", "connect", "lobby", "game", "lost"}]
      /\ listening' \in [Client -> BOOLEAN]
      /\ gameRoomClients' \in [Client -> SUBSET Member]
  BY <1>0, <1>3
<1>7. ClientTypes'
  BY <1>3, <1>4, <1>5, <1>6 DEF ClientTypes, NetworkTypeOK
<1>8. Seen(c)' = After(Seen(c), m)
  BY <1>0, <1>3 DEF Seen, After
<1>9. SameOthers(c)
  BY <1>0, <1>3 DEF Seen, SameOthers
<1> QED BY <1>3, <1>7, <1>8, <1>9

\* The handlers of a game that only concern the boards and whether it is paused.
LEMMA GameHandlers ==
  ASSUME ClientTypes, toClient' \in [Client -> Seq(ServerMessage)], NEW c \in Client, NEW m \in ServerMessage,
         \/ m.type = "game_command" /\ handleGameCommand(c, m)
         \/ m.type = "request_game_restart" /\ handleRequestGameRestart(c, m)
         \/ m.type = "game_restart" /\ handleGameRestart(c, m)
         \/ m.type \in BoardKind /\ handleBoard(c, m)
         \/ m.type = "remove_client" /\ handleRemoveClient(c, m)
  PROVE  ClientTypes' /\ Replies(c) /\ UNCHANGED <<phase, gameRoomId, clientId, networkSlots, gameRoomClients>>
<1> DEFINE Same == UNCHANGED <<phase, gameRoomId, clientId, networkSlots, gameRoomClients>>
<1>0. /\ players \in [Client -> Seq(Player)] /\ listening \in [Client -> BOOLEAN]
      /\ tetrisGame \in [Client -> Game] /\ toServer \in [Client -> Seq(ClientMessage)]
  BY TypesOfClients
<1>types. /\ Same /\ listening' = listening
          /\ players' \in [Client -> Seq(Player)] /\ tetrisGame' \in [Client -> Game]
          /\ toServer' \in [Client -> Seq(ClientMessage)]
          => ClientTypes'
  BY DEF ClientTypes, NetworkTypeOK
<1>boards. ASSUME NEW which, NEW change \in Change,
                  players' = [players EXCEPT ![c] = Continue(c, which, change)]
           PROVE  players' \in [Client -> Seq(Player)]
  <2>1. Continue(c, which, change) \in Seq(Player)
    BY <1>0, ContinueType
  <2> QED BY <1>0, <1>boards, <2>1
<1>restarted. tetrisGame' = [tetrisGame EXCEPT ![c] = restartedGame(@)] => tetrisGame' \in [Client -> Game]
  <2>1. restartedGame(tetrisGame[c]) \in Game
    BY <1>0, GameTypes
  <2> QED BY <1>0, <2>1
<1>restart. m.type \in {"request_game_restart", "game_restart"} =>
              m.blocks \in Blocks /\ Restart(m.blocks) \in Change
  BY AnswerTypes DEF Restart, Change
<1>1. CASE m.type = "game_command" /\ handleGameCommand(c, m)
  <2>1. m.pause \in BOOLEAN
    BY <1>1, AnswerTypes
  <2>2. setPause(tetrisGame[c], m.pause) \in Game
    BY <1>0, <2>1, GameTypes
  <2>3. tetrisGame' \in [Client -> Game]
    BY <1>0, <1>1, <2>2 DEF handleGameCommand
  <2>4. Same /\ UNCHANGED <<players, listening, toServer>>
    BY <1>1 DEF handleGameCommand
  <2> QED BY <1>0, <1>types, <2>3, <2>4, NoReply
<1>2. CASE m.type = "request_game_restart" /\ handleRequestGameRestart(c, m)
  <2>1. GameRestart(m.blocks) \in ClientMessage /\ GameRestart(m.blocks).type = "game_restart"
    BY <1>2, <1>restart, RequestTypes DEF GameRestart
  <2>2. Send(c, GameRestart(m.blocks))
    BY <1>2 DEF handleRequestGameRestart
  <2>3. Replies(c)
    BY <2>1, <2>2, OneReply DEF Entry
  <2>4. toServer' \in [Client -> Seq(ClientMessage)]
    BY <2>3, ReplyType
  <2>5. players' \in [Client -> Seq(Player)]
    BY <1>2, <1>boards, <1>restart DEF handleRequestGameRestart
  <2>6. Same /\ UNCHANGED listening /\ tetrisGame' \in [Client -> Game]
    BY <1>2, <1>restarted DEF handleRequestGameRestart
  <2> QED BY <1>types, <2>3, <2>4, <2>5, <2>6
<1>3. CASE m.type = "game_restart" /\ handleGameRestart(c, m)
  <2>1. CASE m.client = clientId[c]
    <3>1. UNCHANGED <<clientVars, toServer>>
      BY <1>3, <2>1 DEF handleGameRestart, Skip
    <3>2. Same /\ UNCHANGED <<players, listening, tetrisGame, toServer>>
      BY <3>1 DEF clientVars
    <3> QED BY <1>0, <1>types, <3>2, NoReply
  <2>2. CASE m.client # clientId[c]
    <3>1. players' \in [Client -> Seq(Player)]
      BY <1>3, <2>2, <1>boards, <1>restart DEF handleGameRestart
    <3>2. Same /\ UNCHANGED <<listening, toServer>> /\ tetrisGame' \in [Client -> Game]
      BY <1>3, <2>2, <1>restarted DEF handleGameRestart
    <3> QED BY <1>0, <1>types, <3>1, <3>2, NoReply
  <2> QED BY <2>1, <2>2
<1>4. CASE m.type \in BoardKind /\ handleBoard(c, m)
  <2>1. [type |-> m.type, value |-> m.value] \in Change
    BY <1>4, AnswerTypes DEF Change
  <2>2. players' \in [Client -> Seq(Player)]
    BY <1>4, <1>boards, <2>1 DEF handleBoard
  <2>3. Same /\ UNCHANGED <<listening, tetrisGame, toServer>>
    BY <1>4 DEF handleBoard
  <2> QED BY <1>0, <1>types, <2>2, <2>3, NoReply
<1>5. CASE m.type = "remove_client" /\ handleRemoveClient(c, m)
  <2> DEFINE mine  == players[c]
             ends  == [type |-> "board_move", value |-> GameOver]
             over  == Continue(c, DOMAIN players[c], ends)
             heard == {i \in Local(c) : listening[c] /\ players[c][i].index \in DOMAIN players[c]}
             sends == SelectIn(players[c], {players[c][i] : i \in heard})
             stay  == {i \in DOMAIN players[c] : players[c][i].client # m.client}
             Said(k) == Board("board_move", mine[sends[k].index].player, GameOver)
             s     == [k \in DOMAIN sends |-> Said(k)]
  <2>1. /\ players' = [players EXCEPT ![c] = SelectIn(over, {over[i] : i \in stay})]
        /\ toServer' = [toServer EXCEPT ![c] = @ \o s]
        /\ Same /\ UNCHANGED <<listening, tetrisGame>>
    BY <1>5 DEF handleRemoveClient
  <2>2. mine \in Seq(Player) /\ \A i \in DOMAIN mine : mine[i] \in Player
    BY <1>0
  <2>3. over \in Seq(Player)
    <3>1. ends \in Change
      BY GameOverAssumption DEF Change, BoardKind
    <3> QED BY <2>2, <3>1, ContinueType
  <2>4. SelectIn(over, {over[i] : i \in stay}) \in Seq(Player)
    <3> DEFINE S == {over[i] : i \in stay}
    <3> HIDE DEF over, S
    <3>1. SelectIn(over, S) \in Seq(Player \cap S)
      BY <2>3, SelectInParts
    <3>2. SelectIn(over, S) \in Seq(Player)
      BY <3>1
    <3> QED BY <3>2 DEF S
  <2>5. players' \in [Client -> Seq(Player)]
    BY <1>0, <2>1, <2>4
  <2>6. /\ DOMAIN sends = 1 .. Len(sends) /\ Len(sends) \in Nat
        /\ \A k \in 1 .. Len(sends) : sends[k] \in {mine[i] : i \in heard}
    <3> DEFINE S == {mine[i] : i \in heard}
    <3> HIDE DEF S, heard
    <3>1. SelectIn(mine, S) \in Seq(Player \cap S)
      BY <2>2, SelectInParts
    <3>2. /\ DOMAIN SelectIn(mine, S) = 1 .. Len(SelectIn(mine, S)) /\ Len(SelectIn(mine, S)) \in Nat
          /\ \A k \in 1 .. Len(SelectIn(mine, S)) : SelectIn(mine, S)[k] \in S
      BY <3>1
    <3> QED BY <3>2 DEF S
  <2>7. ASSUME NEW k \in 1 .. Len(sends)
        PROVE  Said(k) \in ClientMessage /\ Said(k).type = "board_move"
    <3>1. PICK i \in heard : sends[k] = mine[i]
      BY <2>6
    <3>2. sends[k].index \in DOMAIN mine
      BY <3>1
    <3>3. mine[sends[k].index].player \in PlayerId
      BY <2>2, <3>2 DEF Player
    <3> HIDE DEF sends, mine
    <3> QED BY <3>3, RequestTypes, GameOverAssumption DEF Board, BoardKind
  <2>8. s \in Seq(ClientMessage) /\ Len(s) = Len(sends) /\ \A k \in 1 .. Len(s) : s[k].type = "board_move"
    <3> HIDE DEF sends, Said
    <3> QED BY <2>6, <2>7
  <2>9. Replies(c)
    <3> HIDE DEF s
    <3> QED BY <2>1, <2>8 DEF Replies, Entry
  <2>10. toServer' \in [Client -> Seq(ClientMessage)]
    BY <2>9, ReplyType
  <2> QED BY <1>0, <1>types, <2>1, <2>5, <2>9, <2>10
<1> QED BY <1>1, <1>2, <1>3, <1>4, <1>5

\* Handling a message does what After says.
LEMMA MessageSteps ==
  ASSUME ClientTypes, NEW c \in Client, nextMessage(c), phase[c] = "lobby" => KnowsRoom(c)
  PROVE  /\ ClientTypes'
         /\ Seen(c)' = After(Seen(c), Head(toClient[c])) /\ SameOthers(c)
         /\ Replies(c)
         /\ toClient[c] # << >> /\ toClient' = [toClient EXCEPT ![c] = Tail(@)]
         /\ Running(c)
<1> DEFINE m == Head(toClient[c])
<1>0. /\ toClient \in [Client -> Seq(ServerMessage)]
      /\ toClient[c] # << >> /\ toClient' = [toClient EXCEPT ![c] = Tail(toClient[c])]
      /\ phase[c] \in {"connect", "lobby", "game"}
  BY TypesOfClients DEF nextMessage
<1>1. m \in ServerMessage /\ Tail(toClient[c]) \in Seq(ServerMessage)
  <2>1. toClient[c] \in Seq(ServerMessage)
    BY <1>0
  <2> QED BY <1>0, <2>1, HeadTailProperties
<1>2. toClient' \in [Client -> Seq(ServerMessage)]
  BY <1>0, <1>1
<1>3. \/ phase[c] = "connect" /\ HandleInConnect(c, m)
      \/ phase[c] = "lobby" /\ HandleInLobby(c, m)
      \/ phase[c] = "game" /\ HandleInGame(c, m)
  BY DEF nextMessage
<1> DEFINE Fine == ClientTypes' /\ Seen(c)' = After(Seen(c), m) /\ SameOthers(c) /\ Replies(c)
<1> SUFFICES Fine
  BY <1>0 DEF Running
<1> HIDE DEF m
<1>skip. ASSUME Skip, After(Seen(c), m) = Seen(c)
         PROVE  ClientTypes' /\ Seen(c)' = After(Seen(c), m) /\ SameOthers(c) /\ Replies(c)
  <2>1. UNCHANGED <<phase, gameRoomId, clientId, networkSlots, players, listening, gameRoomClients, tetrisGame,
                    toServer>>
    BY <1>skip DEF Skip, clientVars
  <2>2. ClientTypes'
    BY <1>2, <2>1 DEF ClientTypes, NetworkTypeOK
  <2>3. Seen(c)' = Seen(c) /\ SameOthers(c)
    BY <2>1, SameSight
  <2> QED BY <1>skip, <2>1, <2>2, <2>3, NoReply
<1>same. Seen(c).phase = phase[c]
  BY DEF Seen
<1>4. CASE phase[c] = "connect" /\ HandleInConnect(c, m)
  <2>1. CASE m.type = "game_room_joined" /\ handleGameRoomJoined(c, m)
    BY <1>0, <1>1, <1>2, <1>4, <2>1, RoomHandlers, NoReply
  <2>2. CASE m.type # "game_room_joined" /\ Skip
    BY <1>0, <1>4, <1>skip, <1>same, <2>2 DEF After
  <2> QED BY <1>4, <2>1, <2>2 DEF HandleInConnect
<1>5. CASE phase[c] = "lobby" /\ HandleInLobby(c, m)
  <2>1. CASE \/ m.type = "game_looby" /\ handleGameLooby(c, m)
             \/ m.type = "game_room_joined" /\ handleGameRoomJoined(c, m)
             \/ m.type = "leave_game_room" /\ handleLeaveGameRoom(c, m)
    BY <1>1, <1>2, <1>5, <2>1, RoomHandlers, NoReply
  <2>2. CASE m.type = "create_game" /\ handleCreateGame(c, m)
    BY <1>1, <1>2, <1>5, <2>2, CreateHandler, NoReply
  <2>3. CASE m.type \notin {"game_looby", "game_room_joined", "leave_game_room", "create_game"} /\ Skip
    BY <1>5, <1>skip, <1>same, <2>3 DEF After
  <2> QED BY <1>5, <2>1, <2>2, <2>3 DEF HandleInLobby
<1>6. CASE phase[c] = "game" /\ HandleInGame(c, m)
  <2>kinds. "board_move" # "leave_game_room" /\ BoardKind = {"board_move", "next_block", "board_external_squares"}
    BY DEF BoardKind
  <2>1. ASSUME \/ m.type = "game_command" /\ handleGameCommand(c, m)
               \/ m.type = "request_game_restart" /\ handleRequestGameRestart(c, m)
               \/ m.type = "game_restart" /\ handleGameRestart(c, m)
               \/ m.type \in BoardKind /\ handleBoard(c, m)
               \/ m.type = "remove_client" /\ handleRemoveClient(c, m)
        PROVE  ClientTypes' /\ Seen(c)' = After(Seen(c), m) /\ SameOthers(c) /\ Replies(c)
    <3>1. ClientTypes' /\ Replies(c) /\ UNCHANGED <<phase, gameRoomId, clientId, networkSlots, gameRoomClients>>
      BY <1>1, <1>2, <2>1, GameHandlers
    <3>2. m.type # "leave_game_room"
      BY <2>1, <2>kinds
    <3>3. After(Seen(c), m) = Seen(c)
      BY <1>6, <1>same, <3>2 DEF After
    <3>4. Seen(c)' = Seen(c) /\ SameOthers(c)
      BY <3>1, SameSight
    <3> QED BY <3>1, <3>3, <3>4
  <2>2. CASE m.type = "leave_game_room" /\ handleLeaveGameRoom(c, m)
    BY <1>1, <1>2, <1>6, <2>2, RoomHandlers, NoReply
  <2>3. CASE m.type # "leave_game_room" /\ Skip
    <3>1. After(Seen(c), m) = Seen(c)
      BY <1>6, <1>same, <2>3 DEF After
    <3> QED BY <1>skip, <2>3, <3>1
  <2> QED BY <1>6, <2>1, <2>2, <2>3, <2>kinds DEF HandleInGame
<1> QED BY <1>3, <1>4, <1>5, <1>6

-----------------------------------------------------------------------------
(* Views under way: what a client will see of the room *)

\* A view that c may have.
Good(c, v) ==
  /\ v \in Sight
  /\ v.me \in {NoClient, c}
  /\ v.phase \in {"connect", "lobby", "game"}
  /\ v.phase = "connect" <=> v.room = NoRoom
  /\ v.room # NoRoom => v.me = c /\ v.slots \in [SlotIndex -> SlotView]

\* The server has c in room, and its rooms are rooms.
AgreesWith(c, v, room, rooms) ==
  /\ v.room = room
  /\ v.phase = "lobby" =>
       /\ v.slots = View(c, rooms[v.room].playerSlots)
       /\ ~RethrowAsSystemError => v.roster = rooms[v.room].connectedClients

\* The messages of queue lead a client that sees first through the views h.
Leads(c, h, first, queue) ==
  /\ h \in [0 .. Len(queue) -> Sight]
  /\ h[0] = first
  /\ \A k \in 1 .. Len(queue) : h[k] = After(h[k - 1], queue[k])
  /\ \A k \in 0 .. Len(queue) : Good(c, h[k])

\* The messages on their way to c lead it to what the server knows.
SeesRight(c) ==
  \E h : /\ Leads(c, h, Seen(c), toClient[c])
         /\ AgreesWith(c, h[Len(toClient[c])], roomIdByClientId[c], gameRoomById)

ViewInv == \A c \in Client : Running(c) => SeesRight(c)

LEMMA AfterType ==
  ASSUME NEW v \in Sight, NEW m \in ServerMessage
  PROVE  After(v, m) \in Sight
<1>1. /\ v.phase \in {"off", "connect", "lobby", "game", "lost"} /\ v.room \in RoomId \cup {NoRoom}
      /\ v.me \in Client \cup {NoClient} /\ v.roster \in SUBSET Member /\ v.slots \in SlotsSeen
  BY DEF Sight
<1>2. m.type \in {"game_looby", "game_room_joined"} => \A me : View(me, m.slots) \in SlotsSeen
  BY AnswerTypes, ViewType DEF SlotsSeen
<1>3. m.type = "game_room_joined" => JoinedBy(v, m) \in Sight
  BY <1>1, <1>2, AnswerTypes DEF JoinedBy, Sight
<1>4. m.type = "leave_game_room" => LeftBy(v, m) \in Sight
  BY <1>1, AnswerTypes DEF LeftBy, Sight
<1>5. m.type = "game_looby" =>
        [phase |-> v.phase, room |-> v.room, me |-> v.me, roster |-> v.roster, slots |-> View(v.me, m.slots)] \in Sight
  BY <1>1, <1>2 DEF Sight
<1>6. [phase |-> "game", room |-> v.room, me |-> v.me, roster |-> {}, slots |-> v.slots] \in Sight
  BY <1>1 DEF Sight
<1> QED BY <1>3, <1>4, <1>5, <1>6 DEF After

\* The first message is handled.
LEMMA LeadsOn ==
  ASSUME NEW c \in Client, NEW T, NEW queue \in Seq(T), queue # << >>, NEW first, NEW h,
         Leads(c, h, first, queue)
  PROVE  \E g : Leads(c, g, After(first, Head(queue)), Tail(queue)) /\ g[Len(Tail(queue))] = h[Len(queue)]
<1> DEFINE n == Len(queue)
           rest == Tail(queue)
           g == [k \in 0 .. n - 1 |-> h[k + 1]]
<1>1. /\ n \in Nat /\ n >= 1 /\ Len(rest) = n - 1
      /\ \A k \in 1 .. n - 1 : rest[k] = queue[k + 1]
      /\ Head(queue) = queue[1]
  <2>1. /\ rest \in Seq(T) /\ Len(rest) = n - 1 /\ \A k \in 1 .. Len(rest) : rest[k] = queue[k + 1]
    BY HeadTailProperties
  <2>2. n \in Nat /\ n # 0 /\ Head(queue) = queue[1]
    BY EmptySeq
  <2> HIDE DEF n, rest
  <2> QED BY <2>1, <2>2
<1>2. /\ h \in [0 .. n -> Sight] /\ h[0] = first
      /\ \A k \in 1 .. n : h[k] = After(h[k - 1], queue[k])
      /\ \A k \in 0 .. n : Good(c, h[k])
  BY DEF Leads
<1> HIDE DEF n, rest
<1>3. g \in [0 .. n - 1 -> Sight] /\ \A k \in 0 .. n - 1 : Good(c, g[k])
  BY <1>1, <1>2
<1>4. g[0] = After(first, Head(queue)) /\ g[n - 1] = h[n]
  BY <1>1, <1>2
<1>5. \A k \in 1 .. n - 1 : g[k] = After(g[k - 1], rest[k])
  <2> SUFFICES ASSUME NEW k \in 1 .. n - 1 PROVE g[k] = After(g[k - 1], rest[k])
    OBVIOUS
  <2>1. k \in 0 .. n - 1 /\ k - 1 \in 0 .. n - 1 /\ k + 1 \in 1 .. n /\ (k - 1) + 1 = k /\ (k + 1) - 1 = k
    BY <1>1
  <2>2. g[k] = h[k + 1] /\ g[k - 1] = h[k]
    BY <2>1
  <2>3. h[k + 1] = After(h[k], queue[k + 1])
    BY <1>2, <2>1
  <2> QED BY <1>1, <2>2, <2>3
<1> HIDE DEF g
<1>6. Leads(c, g, After(first, Head(queue)), rest) /\ g[Len(rest)] = h[n]
  BY <1>1, <1>3, <1>4, <1>5 DEF Leads
<1> QED BY <1>6 DEF n, rest

Times(n, m) == [i \in 1 .. n |-> m]

LeadsTo(c, first, queue, last) == \E h : Leads(c, h, first, queue) /\ h[Len(queue)] = last

\* Copies of a message are sent, and a second one changes nothing.
LEMMA LeadsFurther ==
  ASSUME NEW c \in Client, NEW queue \in Seq(ServerMessage), NEW first, NEW v, LeadsTo(c, first, queue, v),
         NEW n \in Nat, NEW m \in ServerMessage, NEW w, Good(c, w),
         n = 0 => w = v,
         n # 0 => w = After(v, m) /\ After(w, m) = w
  PROVE  LeadsTo(c, first, queue \o Times(n, m), w)
<1>0. PICK h : Leads(c, h, first, queue) /\ h[Len(queue)] = v
  BY DEF LeadsTo
<1> DEFINE T == ServerMessage
           l == Len(queue)
           s == [i \in 1 .. n |-> m]
           all == queue \o s
           g == [k \in 0 .. l + n |-> IF k <= l THEN h[k] ELSE w]
<1>1. s \in Seq(T) /\ Len(s) = n /\ l \in Nat
  OBVIOUS
<1>2. /\ Len(all) = l + n
      /\ \A k \in 1 .. l : all[k] = queue[k]
      /\ \A k \in l + 1 .. l + n : all[k] = m
  <2>1. \A k \in 1 .. Len(queue) + Len(s) : all[k] = IF k <= Len(queue) THEN queue[k] ELSE s[k - Len(queue)]
    BY <1>1, ConcatProperties
  <2>2. Len(all) = Len(queue) + Len(s)
    BY <1>1, ConcatProperties
  <2>3. \A k \in 1 .. n : s[k] = m
    OBVIOUS
  <2> HIDE DEF s, all
  <2>4. \A k \in l + 1 .. l + n : all[k] = s[k - l]
    BY <1>1, <2>1
  <2>5. \A k \in l + 1 .. l + n : k - l \in 1 .. n
    BY <1>1
  <2> QED BY <1>1, <2>1, <2>2, <2>3, <2>4, <2>5
<1>3. /\ h \in [0 .. l -> Sight] /\ h[0] = first
      /\ \A k \in 1 .. l : h[k] = After(h[k - 1], queue[k])
      /\ \A k \in 0 .. l : Good(c, h[k])
  BY <1>0 DEF Leads
<1>4. w = IF n = 0 THEN h[l] ELSE After(h[l], m)
  BY <1>0
<1> HIDE DEF l, s, all
<1>5. g \in [0 .. l + n -> Sight] /\ \A k \in 0 .. l + n : Good(c, g[k])
  <2>1. w \in Sight
    BY DEF Good
  <2>2. \A k \in 0 .. l + n : k <= l => k \in 0 .. l
    BY <1>1
  <2> QED BY <1>3, <2>1, <2>2
<1>6. g[0] = first /\ g[l + n] = w
  <2>1. 0 \in 0 .. l + n /\ 0 <= l /\ l + n \in 0 .. l + n
    BY <1>1
  <2>2. CASE n = 0
    BY <1>1, <1>3, <1>4, <2>1, <2>2
  <2>3. CASE n # 0
    <3>1. ~(l + n <= l)
      BY <1>1, <2>3
    <3> QED BY <1>3, <2>1, <3>1
  <2> QED BY <2>2, <2>3
<1>7. \A k \in 1 .. l + n : g[k] = After(g[k - 1], all[k])
  <2> SUFFICES ASSUME NEW k \in 1 .. l + n PROVE g[k] = After(g[k - 1], all[k])
    OBVIOUS
  <2>0. k \in 0 .. l + n /\ k - 1 \in 0 .. l + n
    BY <1>1
  <2>1. CASE k <= l
    <3>1. k \in 1 .. l /\ k - 1 <= l
      BY <1>1, <2>1
    <3> QED BY <1>2, <1>3, <2>0, <2>1, <3>1
  <2>2. CASE k = l + 1
    <3>1. ~(k <= l) /\ k - 1 <= l /\ k - 1 = l /\ n # 0 /\ k \in l + 1 .. l + n
      BY <1>1, <2>2
    <3>2. g[k] = w /\ g[k - 1] = h[l] /\ all[k] = m
      BY <1>2, <2>0, <3>1
    <3> QED BY <1>4, <3>1, <3>2
  <2>3. CASE k > l + 1
    <3>1. ~(k <= l) /\ ~(k - 1 <= l) /\ n # 0 /\ k \in l + 1 .. l + n
      BY <1>1, <2>3
    <3>2. g[k] = w /\ g[k - 1] = w /\ all[k] = m
      BY <1>2, <2>0, <3>1
    <3> QED BY <3>1, <3>2
  <2>4. k <= l \/ k = l + 1 \/ k > l + 1
    BY <1>1
  <2> QED BY <2>1, <2>2, <2>3, <2>4
<1> HIDE DEF g
<1>8. Leads(c, g, first, all) /\ g[Len(all)] = w
  BY <1>2, <1>5, <1>6, <1>7 DEF Leads
<1> QED BY <1>8 DEF all, s, Times, LeadsTo

\* A client outside, to which no answer to a request is on its way, stays outside.
LEMMA LeadsNowhere ==
  ASSUME NEW c \in Client, NEW queue \in Seq(ServerMessage), NEW first, NEW h, Leads(c, h, first, queue),
         first.room = NoRoom, \A k \in 1 .. Len(queue) : queue[k].type # "game_room_joined"
  PROVE  h[Len(queue)].room = NoRoom
<1> DEFINE inside == {k \in 0 .. Len(queue) : h[k].room # NoRoom}
<1>0. Len(queue) \in Nat
  OBVIOUS
<1> SUFFICES ASSUME inside # {} PROVE FALSE
  <2>1. Len(queue) \in 0 .. Len(queue)
    BY <1>0
  <2> QED BY <2>1
<1>1. PICK k \in inside : \A j \in inside : k <= j
  <2>1. inside \in SUBSET Nat
    BY <1>0
  <2> HIDE DEF inside
  <2> QED BY <2>1, LeastExists
<1>2. h[0].room = NoRoom
  BY DEF Leads
<1>3. k \in 1 .. Len(queue) /\ k - 1 \in 0 .. Len(queue) /\ ~(k - 1 \in inside)
  BY <1>0, <1>1, <1>2
<1>4. h[k - 1].room = NoRoom /\ Good(c, h[k - 1]) /\ h[k] = After(h[k - 1], queue[k])
  BY <1>3 DEF Leads
<1>5. h[k - 1].phase = "connect"
  BY <1>4 DEF Good
<1>6. queue[k].type # "game_room_joined"
  BY <1>3
<1>7. h[k] = h[k - 1]
  BY <1>4, <1>5, <1>6 DEF After
<1> QED BY <1>1, <1>4, <1>7

-----------------------------------------------------------------------------
(* What the server tells a client *)

\* The server sends d copies of one message, and who agreed with it will agree once they are handled.
ServerTells(d) ==
  \E n \in Nat, m \in ServerMessage :
    /\ sent'[d] = [i \in 1 .. n |-> m]
    /\ n <= 1 \/ AtMostEntries(d, n)
    /\ n # 0 /\ m.type = "game_room_joined" => roomIdByClientId'[d] # NoRoom
    /\ \A v : Good(d, v) /\ AgreesWith(d, v, roomIdByClientId[d], gameRoomById) =>
         \E w : /\ w = IF n = 0 THEN v ELSE After(v, m)
                /\ n # 0 => After(w, m) = w
                /\ Good(d, w)
                /\ AgreesWith(d, w, roomIdByClientId'[d], gameRoomById')

\* Nobody is told, and nothing of what anybody sees has changed.
LEMMA TellsNothing ==
  ASSUME NEW d \in Client, sent'[d] = << >>, ServerMessage # {}, UNCHANGED <<roomIdByClientId, gameRoomById>>
  PROVE  ServerTells(d)
<1>1. PICK m \in ServerMessage : TRUE
  OBVIOUS
<1>2. sent'[d] = [i \in 1 .. 0 |-> m]
  OBVIOUS
<1>3. ASSUME NEW v, Good(d, v), AgreesWith(d, v, roomIdByClientId[d], gameRoomById)
      PROVE  AgreesWith(d, v, roomIdByClientId'[d], gameRoomById')
  BY <1>3
<1>4. \A v : Good(d, v) /\ AgreesWith(d, v, roomIdByClientId[d], gameRoomById) =>
        \E w : /\ w = IF 0 = 0 THEN v ELSE After(v, m)
               /\ 0 # 0 => After(w, m) = w
               /\ Good(d, w)
               /\ AgreesWith(d, w, roomIdByClientId'[d], gameRoomById')
  BY <1>3
<1> QED BY <1>2, <1>4 DEF ServerTells

LEMMA PlainMessage ==
  ASSUME NEW v, NEW m, m.type \in Plain
  PROVE  After(v, m) = v
BY DEF After, Plain, BoardKind

LEMMA RoomTells ==
  ASSUME MembershipInv, NEW c \in Client, Inside(c), ~RoomGone(c), NEW d \in Client, NEW room \in Room,
         NEW n \in Nat, NEW m \in ServerMessage, sent'[d] = [i \in 1 .. n |-> m], RoomTold(c, d, room, n, m)
  PROVE  ServerTells(d)
<1> DEFINE r == roomIdByClientId[c]
<1>1. /\ r \in RoomId /\ RoomOf(c) \in Room /\ RoomOf(c) = gameRoomById[r] /\ RoomExists(r)
      /\ gameRoomById \in [RoomId -> Room \cup {NoRoom}]
      /\ roomIdByClientId[d] \in RoomId \cup {NoRoom}
      /\ r # NoRoom
  BY RoomOfType, NoIdAssumption DEF RoomOf, RoomGone, MembershipInv, ServerTypeOK
<1>2. HasMember(room, d) <=> roomIdByClientId[d] = r
  BY <1>1 DEF RoomTold, HasMember, MembershipInv, MembershipAgrees
<1>3. /\ gameRoomById'[r] = room
      /\ \A q \in RoomId : q # r => gameRoomById'[q] = gameRoomById[q]
      /\ roomIdByClientId' = roomIdByClientId
      /\ room.connectedClients = gameRoomById[r].connectedClients
  BY <1>1 DEF RoomTold
<1>kind. m.type # "game_room_joined" /\ AtMostEntries(d, n)
  <2>1. m.type # "game_room_joined"
    BY DEF RoomTold, GameLooby, CreateGame, Plain, BoardKind
  <2>2. gameRoomById'[r] # NoRoom /\ n <= Cardinality(EntriesOf(gameRoomById'[r], d))
    BY <1>3, NoRoomAssumption DEF RoomTold
  <2> QED BY <1>1, <2>1, <2>2 DEF AtMostEntries
<1> SUFFICES ASSUME NEW v, Good(d, v), AgreesWith(d, v, roomIdByClientId[d], gameRoomById)
             PROVE  \E w : /\ w = IF n = 0 THEN v ELSE After(v, m)
                           /\ n # 0 => After(w, m) = w
                           /\ Good(d, w)
                           /\ AgreesWith(d, w, roomIdByClientId'[d], gameRoomById')
  BY <1>kind DEF ServerTells
<1>4. v \in Sight /\ v.room = roomIdByClientId[d]
  BY DEF Good, AgreesWith
<1>5. CASE roomIdByClientId[d] # r
  <2>1. n = 0
    BY <1>2, <1>5 DEF RoomTold
  <2>2. v.phase = "lobby" => v.room # NoRoom
    BY DEF Good
  <2>3. v.phase = "lobby" => gameRoomById'[v.room] = gameRoomById[v.room]
    BY <1>1, <1>3, <1>4, <1>5, <2>2
  <2>4. AgreesWith(d, v, roomIdByClientId'[d], gameRoomById')
    BY <1>3, <2>3 DEF AgreesWith
  <2> QED BY <2>1, <2>4
<1>6. CASE roomIdByClientId[d] = r
  <2>1. v.room = r /\ v.me = d /\ v.phase \in {"lobby", "game"}
    BY <1>1, <1>4, <1>6 DEF Good
  <2>2. CASE m = GameLooby(room.playerSlots)
    <3>1. n # 0 /\ m.type = "game_looby" /\ m.slots = room.playerSlots
      BY <1>2, <1>6, <2>2 DEF RoomTold, GameLooby, CreateGame, Plain, BoardKind
    <3>2. CASE v.phase = "lobby"
      <4> DEFINE w == After(v, m)
      <4>1. w = [phase |-> "lobby", room |-> r, me |-> d, roster |-> v.roster, slots |-> View(d, room.playerSlots)]
        BY <2>1, <3>1, <3>2 DEF After
      <4>2. w \in Sight
        BY <1>4, AfterType
      <4>3. View(d, room.playerSlots) \in [SlotIndex -> SlotView]
        BY ViewType DEF Room
      <4> HIDE DEF w
      <4>4. Good(d, w)
        BY <1>1, <4>1, <4>2, <4>3 DEF Good
      <4>5. After(w, m) = w
        BY <3>1, <4>1 DEF After
      <4>6. ~RethrowAsSystemError => v.roster = room.connectedClients
        BY <1>3, <2>1, <3>2 DEF AgreesWith
      <4>7. AgreesWith(d, w, roomIdByClientId'[d], gameRoomById')
        BY <1>3, <1>6, <4>1, <4>6 DEF AgreesWith
      <4> QED BY <3>1, <4>4, <4>5, <4>7 DEF w
    <3>3. CASE v.phase = "game"
      <4>1. After(v, m) = v
        BY <3>1, <3>3 DEF After
      <4>2. AgreesWith(d, v, roomIdByClientId'[d], gameRoomById')
        BY <1>3, <3>3 DEF AgreesWith
      <4> QED BY <4>1, <4>2
    <3> QED BY <2>1, <3>2, <3>3
  <2>3. CASE room.playerSlots = RoomOf(c).playerSlots /\ (m = CreateGame(room.playerSlots) \/ m.type \in Plain)
    <3>1. AgreesWith(d, v, roomIdByClientId'[d], gameRoomById')
      BY <1>1, <1>3, <2>1, <2>3 DEF AgreesWith
    <3>2. CASE m.type \in Plain
      BY <3>1, <3>2, PlainMessage
    <3>3. CASE m = CreateGame(room.playerSlots) /\ v.phase = "game"
      <4>1. After(v, m) = v
        BY <3>3 DEF After, CreateGame
      <4> QED BY <3>1, <4>1
    <3>4. CASE m = CreateGame(room.playerSlots) /\ v.phase = "lobby"
      <4> DEFINE w == After(v, m)
      <4>1. w = [phase |-> "game", room |-> r, me |-> d, roster |-> {}, slots |-> v.slots]
        BY <2>1, <3>4 DEF After, CreateGame
      <4>2. w \in Sight
        BY <1>4, AfterType
      <4>3. v.slots \in [SlotIndex -> SlotView]
        BY <1>1, <2>1 DEF Good
      <4> HIDE DEF w
      <4>4. Good(d, w)
        BY <1>1, <4>1, <4>2, <4>3 DEF Good
      <4>5. After(w, m) = w
        BY <3>4, <4>1 DEF After, CreateGame
      <4>6. AgreesWith(d, w, roomIdByClientId'[d], gameRoomById')
        BY <1>3, <1>6, <4>1 DEF AgreesWith
      <4>7. CASE n = 0
        BY <3>1, <4>7
      <4> QED BY <4>4, <4>5, <4>6, <4>7 DEF w
    <3> QED BY <2>1, <2>3, <3>2, <3>3, <3>4
  <2> QED BY <2>2, <2>3 DEF RoomTold
<1> QED BY <1>5, <1>6

\* A client enters a room.
LEMMA EntersTells ==
  ASSUME MembershipInv, MembershipInv', NEW c \in Client, NEW r \in RoomId, NEW room \in Room, Enters(c, r, room),
         NEW d \in remoteByClientId
  PROVE  ServerTells(d)
<1>0. d \in Client
  BY DEF MembershipInv, ServerTypeOK
<1>1. PICK k \in room.connectionIds :
        /\ gameRoomById' = [gameRoomById EXCEPT ![r] = AddClient(room, c, k)]
        /\ sent' = SendToAllClients(AddClient(room, c, k),
              GameRoomJoined(r, c, AddClient(room, c, k).connectedClients, AddClient(room, c, k).playerSlots))
  BY DEF Enters, EnterRoom
<1> DEFINE joined == AddClient(room, c, k)
           m == GameRoomJoined(r, c, joined.connectedClients, joined.playerSlots)
<1>2. joined \in Room /\ joined # NoRoom
  BY RoomOperationsType, NoRoomAssumption
<1>3. joined.connectedClients \in SUBSET Member /\ joined.playerSlots \in Slots
  BY <1>2 DEF Room
<1> HIDE DEF joined
<1>4. /\ m \in ServerMessage /\ m.type = "game_room_joined" /\ m.room = r /\ m.client = c
      /\ m.clients = joined.connectedClients /\ m.slots = joined.playerSlots
  BY <1>3 DEF GameRoomJoined, ServerMessage
<1>5. sent' = SendToAllClients(joined, m)
  BY <1>1 DEF joined
<1> HIDE DEF m
<1>6. /\ gameRoomById'[r] = joined /\ \A q \in RoomId : q # r => gameRoomById'[q] = gameRoomById[q]
      /\ roomIdByClientId'[d] = IF d = c THEN r ELSE roomIdByClientId[d]
      /\ roomIdByClientId[c] \in {NoRoom, r} /\ r # NoRoom
      /\ roomIdByClientId[d] \in RoomId \cup {NoRoom}
  BY <1>0, <1>1, NoIdAssumption DEF Enters, EnterRoom, Inside, MembershipInv, ServerTypeOK, joined
<1>7. HasMember(joined, d) <=> roomIdByClientId'[d] = r
  BY <1>0, <1>2, <1>6 DEF MembershipInv, MembershipAgrees, RoomExists
<1>copies. PICK n \in Nat : /\ SendToAllClients(joined, m)[d] = [i \in 1 .. n |-> m]
                            /\ n # 0 <=> d \in remoteByClientId /\ HasMember(joined, d)
                            /\ n <= Cardinality(EntriesOf(joined, d))
  BY <1>0, <1>2, CopiesSent
<1>8. sent'[d] = [i \in 1 .. n |-> m] /\ (n # 0 <=> HasMember(joined, d))
  BY <1>5, <1>copies
<1>few. AtMostEntries(d, n) /\ (n # 0 => roomIdByClientId'[d] # NoRoom)
  <2>1. gameRoomById'[r] # NoRoom /\ n <= Cardinality(EntriesOf(gameRoomById'[r], d))
    BY <1>2, <1>6, <1>copies
  <2> QED BY <1>6, <1>7, <1>8, <2>1 DEF AtMostEntries
<1> SUFFICES ASSUME NEW v, Good(d, v), AgreesWith(d, v, roomIdByClientId[d], gameRoomById)
             PROVE  \E w : /\ w = IF n = 0 THEN v ELSE After(v, m)
                           /\ n # 0 => After(w, m) = w
                           /\ Good(d, w)
                           /\ AgreesWith(d, w, roomIdByClientId'[d], gameRoomById')
  BY <1>4, <1>8, <1>few DEF ServerTells
<1>9. v \in Sight /\ v.room = roomIdByClientId[d] /\ v.phase \in {"connect", "lobby", "game"}
  BY DEF Good, AgreesWith
<1>10. CASE n = 0
  <2>1. d # c /\ roomIdByClientId[d] # r /\ roomIdByClientId'[d] = roomIdByClientId[d]
    BY <1>6, <1>7, <1>8, <1>10
  <2>2. v.phase = "lobby" => gameRoomById'[v.room] = gameRoomById[v.room]
    BY <1>6, <1>9, <2>1 DEF Good
  <2>3. AgreesWith(d, v, roomIdByClientId'[d], gameRoomById')
    BY <2>1, <2>2 DEF AgreesWith
  <2> QED BY <1>10, <2>3
<1>11. CASE n # 0
  <2>1. roomIdByClientId'[d] = r
    BY <1>7, <1>8, <1>11
  <2>2. v.room # NoRoom => v.room = r
    BY <1>6, <1>9, <2>1
  <2>3. CASE v.phase = "game"
    <3>1. v.room = r
      BY <2>2, <2>3 DEF Good
    <3>2. AgreesWith(d, v, roomIdByClientId'[d], gameRoomById')
      BY <2>1, <2>3, <3>1 DEF AgreesWith
    <3>3. After(v, m) = v
      BY <1>4, <2>3 DEF After
    <3> QED BY <1>11, <3>2, <3>3
  <2>4. CASE v.phase # "game"
    <3> DEFINE w == After(v, m)
    <3>1. w = JoinedBy(v, m)
      BY <1>4, <2>4 DEF After
    <3>2. v.me = d \/ (v.me = NoClient /\ d = c)
      <4>1. CASE v.me = NoClient
        <5>1. v.room = NoRoom
          BY <1>0, <4>1, NoIdAssumption DEF Good
        <5> QED BY <1>6, <1>9, <2>1, <4>1, <5>1
      <4> QED BY <4>1 DEF Good
    <3>3. w = [phase |-> "lobby", room |-> r, me |-> d, roster |-> joined.connectedClients,
               slots |-> View(d, joined.playerSlots)]
      BY <1>0, <1>4, <3>1, <3>2, NoIdAssumption DEF JoinedBy
    <3>4. w \in Sight
      BY <1>4, <1>9, AfterType
    <3>5. View(d, joined.playerSlots) \in [SlotIndex -> SlotView]
      BY <1>3, ViewType
    <3> HIDE DEF w
    <3>6. Good(d, w)
      BY <1>6, <3>3, <3>4, <3>5 DEF Good
    <3>7. After(w, m) = w
      BY <1>0, <1>4, <3>3, NoIdAssumption DEF After, JoinedBy
    <3>8. AgreesWith(d, w, roomIdByClientId'[d], gameRoomById')
      BY <1>6, <2>1, <3>3 DEF AgreesWith
    <3> QED BY <1>11, <3>6, <3>7, <3>8 DEF w
  <2> QED BY <2>3, <2>4
<1> QED BY <1>10, <1>11

\* A client leaves its room.
LEMMA LeavesTells ==
  ASSUME MembershipInv, NEW c \in Client, Inside(c), ~RoomGone(c), HandleLeaveGameRoom(c),
         NEW d \in remoteByClientId
  PROVE  ServerTells(d)
<1> DEFINE r == roomIdByClientId[c]
           gone == Disconnect(RoomOf(c), c)
           m == GameRoomLeft(r, c, gone.connectedClients)
<1>0. d \in Client
  BY DEF MembershipInv, ServerTypeOK
<1>1. /\ r \in RoomId /\ RoomOf(c) \in Room /\ RoomOf(c) = gameRoomById[r] /\ RoomExists(r) /\ r # NoRoom
      /\ gone \in Room
  BY RoomOfType, RoomOperationsType, NoIdAssumption DEF RoomOf, RoomGone, MembershipInv
<1>2. /\ gone.connectedClients = {e \in RoomOf(c).connectedClients : e.client # c}
      /\ gone.playerSlots = RoomOf(c).playerSlots
  BY <1>1 DEF Disconnect, EntriesOf, Room
<1>3. gone.connectedClients \in SUBSET Member
  BY <1>1 DEF Room
<1>4. /\ gameRoomById' = [gameRoomById EXCEPT ![r] = IF IsEmpty(gone) THEN NoRoom ELSE gone]
      /\ sent' = SendToAllClients(RoomOf(c), m)
      /\ roomIdByClientId' = [roomIdByClientId EXCEPT ![c] = NoRoom]
  BY DEF HandleLeaveGameRoom
<1> HIDE DEF gone, r
<1>5. /\ m \in ServerMessage /\ m.type = "leave_game_room" /\ m.client = c
      /\ m.clients = gone.connectedClients
  BY <1>1, <1>3 DEF GameRoomLeft, ServerMessage
<1> HIDE DEF m
<1>6. /\ gameRoomById'[r] = IF IsEmpty(gone) THEN NoRoom ELSE gone
      /\ \A q \in RoomId : q # r => gameRoomById'[q] = gameRoomById[q]
      /\ roomIdByClientId'[d] = IF d = c THEN NoRoom ELSE roomIdByClientId[d]
      /\ roomIdByClientId[c] = r
      /\ roomIdByClientId[d] \in RoomId \cup {NoRoom}
  BY <1>0, <1>1, <1>4 DEF MembershipInv, ServerTypeOK, r
<1>7. HasMember(RoomOf(c), d) <=> roomIdByClientId[d] = r
  BY <1>0, <1>1 DEF MembershipInv, MembershipAgrees, RoomExists
<1>copies. PICK n \in Nat : /\ SendToAllClients(RoomOf(c), m)[d] = [i \in 1 .. n |-> m]
                            /\ n # 0 <=> d \in remoteByClientId /\ HasMember(RoomOf(c), d)
                            /\ n <= Cardinality(EntriesOf(RoomOf(c), d))
  BY <1>0, <1>1, CopiesSent
<1>8. sent'[d] = [i \in 1 .. n |-> m] /\ (n # 0 <=> HasMember(RoomOf(c), d))
  BY <1>4, <1>copies
<1>few. AtMostEntries(d, n) /\ m.type # "game_room_joined"
  <2>1. RoomExists(r) /\ n <= Cardinality(EntriesOf(gameRoomById[r], d))
    BY <1>1, <1>copies
  <2> QED BY <1>1, <1>5, <2>1 DEF AtMostEntries
<1> SUFFICES ASSUME NEW v, Good(d, v), AgreesWith(d, v, roomIdByClientId[d], gameRoomById)
             PROVE  \E w : /\ w = IF n = 0 THEN v ELSE After(v, m)
                           /\ n # 0 => After(w, m) = w
                           /\ Good(d, w)
                           /\ AgreesWith(d, w, roomIdByClientId'[d], gameRoomById')
  BY <1>5, <1>8, <1>few DEF ServerTells
<1>9. v \in Sight /\ v.room = roomIdByClientId[d] /\ v.phase \in {"connect", "lobby", "game"}
  BY DEF Good, AgreesWith
<1>10. CASE n = 0
  <2>1. d # c /\ roomIdByClientId[d] # r /\ roomIdByClientId'[d] = roomIdByClientId[d]
    BY <1>6, <1>7, <1>8, <1>10
  <2>2. v.phase = "lobby" => gameRoomById'[v.room] = gameRoomById[v.room]
    BY <1>6, <1>9, <2>1 DEF Good
  <2>3. AgreesWith(d, v, roomIdByClientId'[d], gameRoomById')
    BY <2>1, <2>2 DEF AgreesWith
  <2> QED BY <1>10, <2>3
<1>11. CASE n # 0
  <2> DEFINE w == After(v, m)
  <2>1. v.room = r /\ v.me = d /\ v.phase \in {"lobby", "game"} /\ v.slots \in [SlotIndex -> SlotView]
    BY <1>1, <1>7, <1>8, <1>9, <1>11 DEF Good
  <2>2. w = LeftBy(v, m)
    BY <1>5, <2>1 DEF After
  <2>3. w \in Sight
    BY <1>5, <1>9, AfterType
  <2> HIDE DEF w
  <2>4. CASE d = c
    <3>1. w = [phase |-> "connect", room |-> NoRoom, me |-> d, roster |-> gone.connectedClients, slots |-> v.slots]
      BY <1>5, <2>1, <2>2, <2>4 DEF LeftBy
    <3>2. Good(d, w)
      BY <2>3, <3>1 DEF Good
    <3>3. After(w, m) = w
      BY <1>5, <3>1 DEF After
    <3>4. AgreesWith(d, w, roomIdByClientId'[d], gameRoomById')
      BY <1>6, <2>4, <3>1 DEF AgreesWith
    <3> QED BY <1>11, <3>2, <3>3, <3>4 DEF w
  <2>5. CASE d # c
    <3>1. w = [phase |-> v.phase, room |-> r, me |-> d, roster |-> gone.connectedClients, slots |-> v.slots]
      BY <1>5, <2>1, <2>2, <2>5 DEF LeftBy
    <3>2. Good(d, w)
      BY <1>1, <2>1, <2>3, <3>1 DEF Good
    <3>3. After(w, m) = w
      BY <1>5, <2>1, <2>5, <3>1 DEF After, LeftBy
    <3>4. gameRoomById'[r] = gone
      <4>1. HasMember(RoomOf(c), d)
        BY <1>8, <1>11
      <4>2. ~IsEmpty(gone)
        BY <1>2, <2>5, <4>1 DEF IsEmpty, HasMember
      <4> QED BY <1>6, <4>2
    <3>5. v.phase = "lobby" => v.slots = View(d, gone.playerSlots)
      BY <1>1, <1>2, <2>1 DEF AgreesWith
    <3>6. AgreesWith(d, w, roomIdByClientId'[d], gameRoomById')
      BY <1>6, <1>9, <2>1, <2>5, <3>1, <3>4, <3>5 DEF AgreesWith
    <3> QED BY <1>11, <3>2, <3>3, <3>6 DEF w
  <2> QED BY <2>4, <2>5
<1> QED BY <1>10, <1>11

\* A message to those in the room of c, or to those but c.
LEMMA RoomSends ==
  ASSUME MembershipInv, NEW c \in Client, Inside(c), ~RoomGone(c), NEW d \in remoteByClientId,
         NEW room \in Room, NEW m \in ServerMessage,
         room.connectedClients = RoomOf(c).connectedClients,
         gameRoomById' = [gameRoomById EXCEPT ![roomIdByClientId[c]] = room],
         UNCHANGED roomIdByClientId,
         \/ m = GameLooby(room.playerSlots) /\ sent' = SendToAllClients(room, m)
         \/ /\ m = CreateGame(room.playerSlots) \/ m.type \in Plain
            /\ room.playerSlots = RoomOf(c).playerSlots
            /\ sent' \in {SendToAllClients(room, m), SendToOtherClients(room, m, c)}
  PROVE  ServerTells(d)
<1>0. d \in Client
  BY DEF MembershipInv, ServerTypeOK
<1>1. PICK n \in Nat : /\ SendToAllClients(room, m)[d] = [i \in 1 .. n |-> m]
                       /\ n # 0 <=> d \in remoteByClientId /\ HasMember(room, d)
                       /\ n <= Cardinality(EntriesOf(room, d))
  BY <1>0, CopiesSent
<1>2. CASE sent'[d] = SendToAllClients(room, m)[d]
  <2>1. RoomTold(c, d, room, n, m)
    BY <1>1 DEF RoomTold
  <2>2. sent'[d] = [i \in 1 .. n |-> m]
    BY <1>1, <1>2
  <2> QED BY <1>0, <2>1, <2>2, RoomTells
<1>3. CASE sent' = SendToOtherClients(room, m, c) /\ d = c /\ room.playerSlots = RoomOf(c).playerSlots
           /\ (m = CreateGame(room.playerSlots) \/ m.type \in Plain)
  <2>1. sent'[d] = << >>
    BY <1>3 DEF SendToOtherClients, SendToAllClients
  <2>2. sent'[d] = [i \in 1 .. 0 |-> m]
    BY <2>1
  <2>3. 0 <= Cardinality(EntriesOf(room, d))
    <3>1. EntriesOf(room, d) \in SUBSET Member
      BY DEF EntriesOf, Room
    <3> QED BY <3>1, EntriesFinite
  <2>4. RoomTold(c, d, room, 0, m)
    BY <1>3, <2>3 DEF RoomTold
  <2> QED BY <1>0, <2>2, <2>4, RoomTells
<1>4. d # c => SendToOtherClients(room, m, c)[d] = SendToAllClients(room, m)[d]
  BY <1>0 DEF SendToOtherClients, SendToAllClients
<1> QED BY <1>2, <1>3, <1>4

\* The rooms stay as they are.
LEMMA RelaySends ==
  ASSUME MembershipInv, NEW c \in Client, Inside(c), ~RoomGone(c), NEW d \in remoteByClientId,
         NEW m \in ServerMessage, NEW out, Relay(out),
         \/ /\ m \in {GameLooby(RoomOf(c).playerSlots), CreateGame(RoomOf(c).playerSlots)}
            /\ out = SendToAllClients(RoomOf(c), m)
         \/ /\ m.type \in Plain
            /\ out \in {SendToAllClients(RoomOf(c), m), SendToOtherClients(RoomOf(c), m, c)}
  PROVE  ServerTells(d)
<1> DEFINE room == RoomOf(c)
<1>1. room \in Room
  BY RoomOfType DEF MembershipInv
<1>2. gameRoomById' = [gameRoomById EXCEPT ![roomIdByClientId[c]] = room]
  BY DEF Relay, RoomOf, MembershipInv, ServerTypeOK
<1>3. sent' = out /\ UNCHANGED roomIdByClientId
  BY DEF Relay
<1>4. \/ m = GameLooby(room.playerSlots) /\ sent' = SendToAllClients(room, m)
      \/ /\ m = CreateGame(room.playerSlots) \/ m.type \in Plain
         /\ sent' \in {SendToAllClients(room, m), SendToOtherClients(room, m, c)}
  BY <1>3
<1>5. room.connectedClients = RoomOf(c).connectedClients /\ room.playerSlots = RoomOf(c).playerSlots
  OBVIOUS
<1> HIDE DEF room
<1> QED BY <1>1, <1>2, <1>3, <1>4, <1>5, RoomSends

\* Whatever the server does with a message, everybody registered who agreed with it will agree again.
LEMMA HandleTells ==
  ASSUME MembershipInv, MembershipInv', NEW c \in Client, NEW m \in ClientMessage, ~RoomGone(c), Handle(c, m),
         m.type # "remove_client", NEW d \in remoteByClientId
  PROVE  ServerTells(d)
<1>0. d \in Client /\ ServerTypeOK /\ ServerMessage # {}
  BY MessagesOfRooms DEF MembershipInv, ServerTypeOK
<1>quiet. ASSUME sent' = NoMessages, UNCHANGED <<roomIdByClientId, gameRoomById>> PROVE ServerTells(d)
  <2>1. sent'[d] = << >>
    BY <1>0, <1>quiet DEF NoMessages
  <2> QED BY <1>0, <1>quiet, <2>1, TellsNothing
<1>ignore. /\ Ignore => ServerTells(d)
           /\ \A room : FrontOfEmptyList(room) => ServerTells(d)
  BY <1>quiet DEF Ignore, FrontOfEmptyList
<1>again. EnterAgain(c) => ServerTells(d)
  <2> SUFFICES ASSUME EnterAgain(c) PROVE ServerTells(d)
    OBVIOUS
  <2>1. Inside(c)
    BY DEF EnterAgain
  <2>2. roomIdByClientId[c] \in RoomId /\ RoomOf(c) \in Room
    BY <1>0, <2>1, RoomOfType
  <2>3. EnterRoom(c, roomIdByClientId[c], RoomOf(c)) => Enters(c, roomIdByClientId[c], RoomOf(c))
    BY <2>1, <2>2 DEF Enters, RoomOf, RoomGone
  <2> QED BY <1>ignore, <2>2, <2>3, EntersTells DEF EnterAgain
<1>1. CASE m.type = "create_game_room" /\ HandleCreateGameRoom(c, m.isPublic)
  <2>1. m.isPublic \in BOOLEAN
    BY <1>1 DEF ClientMessage, BoardKind
  <2>2. NewRoom(m.isPublic) \in Room
    BY <2>1, NewRoomType
  <2>3. /\ NewRoom(m.isPublic).connectedClients = {}
        /\ NewRoom(m.isPublic).connectionIds = ConnectionId
    BY DEF NewRoom
  <2>4. CASE ~Inside(c) /\ \E r \in RoomId : FreshRoom(r) /\ EnterRoom(c, r, NewRoom(m.isPublic))
    <3>1. PICK r \in RoomId : FreshRoom(r) /\ EnterRoom(c, r, NewRoom(m.isPublic))
      BY <2>4
    <3>2. Enters(c, r, NewRoom(m.isPublic))
      BY <2>2, <2>3, <2>4, <3>1 DEF Enters
    <3> QED BY <2>2, <3>2, EntersTells
  <2> QED BY <1>1, <1>again, <2>4 DEF HandleCreateGameRoom
<1>2. CASE m.type = "join_game_room" /\ HandleJoinGameRoom(c, m.room)
  <2>1. m.room \in RoomId
    BY <1>2 DEF ClientMessage, BoardKind
  <2>2. CASE ~Inside(c) /\ RoomExists(m.room) /\ EnterRoom(c, m.room, gameRoomById[m.room])
    <3>1. gameRoomById[m.room] \in Room
      BY <1>0, <2>1, <2>2 DEF RoomExists, ServerTypeOK
    <3>2. Enters(c, m.room, gameRoomById[m.room])
      BY <2>2, <3>1 DEF Enters, Inside
    <3> QED BY <2>1, <3>1, <3>2, EntersTells
  <2> QED BY <1>2, <1>again, <1>ignore, <2>2 DEF HandleJoinGameRoom
<1>3. CASE m.type = "leave_game_room" /\ HandleLeaveGameRoom(c)
  <2>1. CASE Inside(c)
    BY <1>3, <2>1, LeavesTells
  <2>2. CASE ~Inside(c)
    BY <1>3, <1>ignore, <2>2 DEF HandleLeaveGameRoom
  <2> QED BY <2>1, <2>2
<1>4. CASE m.type = "request_game_room_list" /\ HandleRequestGameRoomList(c)
  <2>1. sent' = SendToClient(c, RoomList) /\ UNCHANGED <<roomIdByClientId, gameRoomById>>
    BY <1>4 DEF HandleRequestGameRoomList
  <2>2. CASE d # c
    <3>1. sent'[d] = << >>
      BY <1>0, <2>1, <2>2 DEF SendToClient, NoMessages
    <3> QED BY <1>0, <2>1, <3>1, TellsNothing
  <2>3. CASE d = c
    <3>1. sent'[d] = << RoomList >>
      BY <1>0, <2>1, <2>3 DEF SendToClient, NoMessages
    <3>2. RoomList \in ServerMessage
      BY <1>0, RoomListType
    <3>3. RoomList.type = "game_room_list"
      BY DEF RoomList, GameRoomList
    <3> HIDE DEF RoomList
    <3>4. sent'[d] = [i \in 1 .. 1 |-> RoomList]
      BY <3>1
    <3>5. \A v : After(v, RoomList) = v
      BY <3>3, PlainMessage DEF Plain
    <3>6. roomIdByClientId'[d] = roomIdByClientId[d] /\ gameRoomById' = gameRoomById
      BY <2>1
    <3>7. 1 \in Nat /\ 1 <= 1 /\ RoomList.type # "game_room_joined"
      BY <3>3
    <3>8. \A v : Good(d, v) /\ AgreesWith(d, v, roomIdByClientId[d], gameRoomById) =>
            \E w : /\ w = IF 1 = 0 THEN v ELSE After(v, RoomList)
                   /\ 1 # 0 => After(w, RoomList) = w
                   /\ Good(d, w)
                   /\ AgreesWith(d, w, roomIdByClientId'[d], gameRoomById')
      BY <3>5, <3>6
    <3> QED BY <3>2, <3>4, <3>7, <3>8 DEF ServerTells
  <2> QED BY <2>2, <2>3
<1>5. CASE ~Inside(c) /\ Ignore
  BY <1>5, <1>ignore
<1>6. ASSUME Inside(c),
             \/ m.type = "player_slot" /\ HandlePlayerSlot(c, m.index, m.request)
             \/ m.type = "game_command" /\ HandleGameCommand(c, m.pause)
             \/ m.type = "start_game" /\ HandleStartGame(c)
             \/ m.type \in BoardKind /\ HandleBoard(c, m)
             \/ m.type = "request_game_restart" /\ HandleRequestGameRestart(c)
             \/ m.type = "game_restart" /\ HandleGameRestart(c, m.blocks)
      PROVE  ServerTells(d)
  <2>0. RoomOf(c) \in Room
    BY <1>0, <1>6, RoomOfType
  <2>slots. RoomOf(c).playerSlots \in Slots
    BY <2>0 DEF Room
  <2>1. CASE m.type = "player_slot" /\ HandlePlayerSlot(c, m.index, m.request)
    <3>1. ASSUME NEW slot \in Slot, m.index \in SlotIndex, UpdateSlot(c, m.index, slot) PROVE ServerTells(d)
      <4> DEFINE room == SetSlot(RoomOf(c), m.index, slot)
      <4>1. room \in Room
        BY <2>0, <3>1, RoomOperationsType
      <4>2. room.connectedClients = RoomOf(c).connectedClients
        BY <2>0 DEF SetSlot, Room
      <4>3. /\ gameRoomById' = [gameRoomById EXCEPT ![roomIdByClientId[c]] = room]
            /\ UNCHANGED roomIdByClientId
            /\ sent' = SendToAllClients(room, GameLooby(room.playerSlots))
        BY <3>1 DEF UpdateSlot, UpdateRoom
      <4> HIDE DEF room
      <4>4. GameLooby(room.playerSlots) \in ServerMessage
        BY <4>1, MessagesOfRooms DEF Room
      <4> QED BY <1>6, <4>1, <4>2, <4>3, <4>4, RoomSends
    <3>2. /\ OpenSlot \in Slot
          /\ \A p \in PlayerId : RemoteSlot(c, p) \in Slot
      BY DEF Slot, RemoteSlot
    <3>3. CASE Relay(SendToAllClients(RoomOf(c), GameLooby(RoomOf(c).playerSlots)))
      <4>1. GameLooby(RoomOf(c).playerSlots) \in ServerMessage
        BY <2>slots, MessagesOfRooms
      <4> QED BY <1>6, <3>3, <4>1, RelaySends
    <3> QED BY <2>1, <3>1, <3>2, <3>3, <1>ignore DEF HandlePlayerSlot
  <2>2. CASE m.type = "game_command" /\ HandleGameCommand(c, m.pause)
    <3> DEFINE room == SetPause(RoomOf(c), m.pause)
    <3>1. m.pause \in BOOLEAN
      BY <2>2 DEF ClientMessage, BoardKind
    <3>2. room \in Room
      BY <2>0, <3>1, RoomOperationsType
    <3>3. room.connectedClients = RoomOf(c).connectedClients /\ room.playerSlots = RoomOf(c).playerSlots
      BY <2>0 DEF SetPause, Room
    <3>4. /\ gameRoomById' = [gameRoomById EXCEPT ![roomIdByClientId[c]] = room]
          /\ UNCHANGED roomIdByClientId
          /\ sent' = SendToAllClients(RoomOf(c), Paused(m.pause))
      BY <2>2 DEF HandleGameCommand, UpdateRoom
    <3> HIDE DEF room
    <3>5. SendToAllClients(RoomOf(c), Paused(m.pause)) = SendToAllClients(room, Paused(m.pause))
      BY <3>3 DEF SendToAllClients, EntriesOf
    <3>6. Paused(m.pause) \in ServerMessage /\ Paused(m.pause).type \in Plain
      BY <3>1, MessagesOfRooms
    <3> QED BY <1>6, <3>2, <3>3, <3>4, <3>5, <3>6, RoomSends
  <2>3. CASE m.type = "start_game" /\ HandleStartGame(c)
    <3>1. CreateGame(RoomOf(c).playerSlots) \in ServerMessage
      BY <2>slots, MessagesOfRooms
    <3>2. Relay(SendToAllClients(RoomOf(c), CreateGame(RoomOf(c).playerSlots)))
      BY <2>3 DEF HandleStartGame
    <3> QED BY <1>6, <3>1, <3>2, RelaySends
  <2>4. CASE m.type \in BoardKind /\ HandleBoard(c, m)
    <3>1. m \in ServerMessage /\ m.type \in Plain
      BY <2>4 DEF ClientMessage, ServerMessage, BoardKind, Plain
    <3>2. Relay(SendToOtherClients(RoomOf(c), m, c))
      BY <2>4 DEF HandleBoard
    <3> QED BY <1>6, <3>1, <3>2, RelaySends
  <2>5. CASE m.type = "request_game_restart" /\ HandleRequestGameRestart(c)
    <3>1. PICK b \in Blocks : Relay(SendToAllClients(RoomOf(c), AskRestart(b)))
      BY <2>5 DEF HandleRequestGameRestart
    <3>2. AskRestart(b) \in ServerMessage /\ AskRestart(b).type \in Plain
      BY MessagesOfRooms
    <3> QED BY <1>6, <3>1, <3>2, RelaySends
  <2>6. CASE m.type = "game_restart" /\ HandleGameRestart(c, m.blocks)
    <3>1. m.blocks \in Blocks
      BY <2>6 DEF ClientMessage, BoardKind
    <3>2. Restarted(c, m.blocks) \in ServerMessage /\ Restarted(c, m.blocks).type \in Plain
      BY <3>1, MessagesOfRooms
    <3>3. Relay(SendToOtherClients(RoomOf(c), Restarted(c, m.blocks), c))
      BY <2>6 DEF HandleGameRestart
    <3> QED BY <1>6, <3>2, <3>3, RelaySends
  <2> QED BY <1>6, <2>1, <2>2, <2>3, <2>4, <2>5, <2>6
<1> QED BY <1>1, <1>2, <1>3, <1>4, <1>5, <1>6 DEF Handle

LEMMA EndsTell ==
  ASSUME MembershipInv, OneEntryPerClient, NEW c \in Client, SessionEnds(c), NEW d \in remoteByClientId, d # c
  PROVE  ServerTells(d)
<1>0. d \in Client /\ ServerMessage # {} /\ RethrowAsSystemError
  BY MessagesOfRooms DEF MembershipInv, ServerTypeOK, SessionEnds
<1>1. CASE sent' = NoMessages /\ UNCHANGED <<roomIdByClientId, gameRoomById>>
  <2>1. sent'[d] = << >>
    BY <1>0, <1>1 DEF NoMessages
  <2> QED BY <1>0, <1>1, <2>1, TellsNothing
<1>2. ASSUME NEW r \in RoomId, NEW gone, EndsIn(c, r, gone)
      PROVE  ServerTells(d)
  <2> DEFINE m == ClientRemoved(c)
  <2>1. /\ gameRoomById'[r] = gone /\ \A q \in RoomId : q # r => gameRoomById'[q] = gameRoomById[q]
        /\ roomIdByClientId'[d] = roomIdByClientId[d] /\ roomIdByClientId[d] \in RoomId \cup {NoRoom}
        /\ RoomExists(r)
    BY <1>0, <1>2 DEF EndsIn, MembershipInv, ServerTypeOK
  <2>2. m \in ServerMessage /\ m.type \in Plain
    BY MessagesOfRooms
  <2> HIDE DEF m
  <2>3. \E n \in Nat : sent'[d] = [i \in 1 .. n |-> m] /\ (n <= 1 \/ AtMostEntries(d, n))
    <3>1. CASE sent' = NoMessages
      <4>1. sent'[d] = [i \in 1 .. 0 |-> m]
        BY <1>0, <3>1 DEF NoMessages
      <4> QED BY <4>1
    <3>2. CASE gone \in Room /\ sent' = SendToAllClients(gone, m)
      <4>1. PICK n \in Nat : /\ SendToAllClients(gone, m)[d] = [i \in 1 .. n |-> m]
                             /\ n # 0 <=> d \in remoteByClientId /\ HasMember(gone, d)
                             /\ n <= Cardinality(EntriesOf(gone, d))
        BY <1>0, <3>2, CopiesSent
      <4>2. AtMostEntries(d, n)
        BY <2>1, <3>2, <4>1, NoRoomAssumption DEF AtMostEntries
      <4> QED BY <3>2, <4>1, <4>2
    <3> QED BY <1>2, <3>1, <3>2 DEF EndsIn, m
  <2>4. PICK n \in Nat : sent'[d] = [i \in 1 .. n |-> m] /\ (n <= 1 \/ AtMostEntries(d, n))
    BY <2>3
  <2>5. m.type # "game_room_joined" /\ \A v : After(v, m) = v
    BY <2>2, PlainMessage DEF Plain, BoardKind
  <2>6. ASSUME NEW v, Good(d, v), AgreesWith(d, v, roomIdByClientId[d], gameRoomById)
        PROVE  AgreesWith(d, v, roomIdByClientId'[d], gameRoomById')
    <3>1. v.room = roomIdByClientId[d] /\ (v.phase = "lobby" => v.room # NoRoom)
      BY <2>6 DEF Good, AgreesWith
    <3>2. CASE v.phase = "lobby" /\ v.room = r
      <4>1. HasMember(gameRoomById[r], d)
        BY <1>0, <3>1, <3>2 DEF MembershipInv, MembershipAgrees
      <4>2. gone.playerSlots = gameRoomById[r].playerSlots
        BY <1>0, <1>2, <4>1 DEF EndsIn
      <4> QED BY <1>0, <2>1, <2>6, <3>1, <3>2, <4>2 DEF AgreesWith
    <3>3. CASE v.phase = "lobby" /\ v.room # r
      BY <2>1, <2>6, <3>1, <3>3 DEF AgreesWith
    <3>4. CASE v.phase # "lobby"
      BY <2>1, <2>6, <3>4 DEF AgreesWith
    <3> QED BY <3>2, <3>3, <3>4
  <2>7. \A v : Good(d, v) /\ AgreesWith(d, v, roomIdByClientId[d], gameRoomById) =>
          \E w : /\ w = IF n = 0 THEN v ELSE After(v, m)
                 /\ n # 0 => After(w, m) = w
                 /\ Good(d, w)
                 /\ AgreesWith(d, w, roomIdByClientId'[d], gameRoomById')
    BY <2>5, <2>6
  <2> QED BY <2>2, <2>4, <2>5, <2>7 DEF ServerTells
<1> QED BY <1>1, <1>2, EndShape

\* A client that is not registered is told nothing.
LEMMA OutsideSends ==
  ASSUME NEW c \in Client, NEW m, Handle(c, m), NEW d \in Client \ remoteByClientId, d # c
  PROVE  sent'[d] = << >>
<1>1. /\ \A room, x : SendToAllClients(room, x)[d] = << >>
      /\ \A room, x : SendToOtherClients(room, x, c)[d] = << >>
      /\ \A x : SendToClient(c, x)[d] = << >>
      /\ NoMessages[d] = << >>
  BY DEF SendToAllClients, SendToOtherClients, SendToClient, NoMessages
<1>2. /\ \A r, room : EnterRoom(c, r, room) => sent'[d] = << >>
      /\ \A room : FrontOfEmptyList(room) => sent'[d] = << >>
      /\ Ignore => sent'[d] = << >>
  BY <1>1 DEF EnterRoom, FrontOfEmptyList, Ignore
<1>3. EnterAgain(c) => sent'[d] = << >>
  BY <1>2 DEF EnterAgain
<1>4. /\ HandleCreateGameRoom(c, m.isPublic) => sent'[d] = << >>
      /\ HandleJoinGameRoom(c, m.room) => sent'[d] = << >>
      /\ HandleLeaveGameRoom(c) => sent'[d] = << >>
      /\ HandleRequestGameRoomList(c) => sent'[d] = << >>
  BY <1>1, <1>2, <1>3 DEF HandleCreateGameRoom, HandleJoinGameRoom, HandleLeaveGameRoom, HandleRequestGameRoomList
<1>5. /\ HandlePlayerSlot(c, m.index, m.request) => sent'[d] = << >>
      /\ HandleGameCommand(c, m.pause) => sent'[d] = << >>
      /\ HandleStartGame(c) => sent'[d] = << >>
      /\ HandleBoard(c, m) => sent'[d] = << >>
  BY <1>1, <1>2 DEF HandlePlayerSlot, UpdateSlot, UpdateRoom, HandleGameCommand, HandleStartGame, HandleBoard, Relay
<1>6. /\ HandleRequestGameRestart(c) => sent'[d] = << >>
      /\ HandleGameRestart(c, m.blocks) => sent'[d] = << >>
      /\ HandleRemoveClient(c, m.client) => sent'[d] = << >>
  BY <1>1, <1>2 DEF HandleRequestGameRestart, HandleGameRestart, HandleRemoveClient, UpdateRoom, Relay
<1> QED BY <1>2, <1>4, <1>5, <1>6 DEF Handle

\* With one entry per client, before and after, nobody is sent a message twice.
LEMMA TellsOnce ==
  ASSUME ServerTypeOK, ServerTypeOK', OneEntryPerClient, OneEntryPerClient', NEW d \in Client, ServerTells(d)
  PROVE  Len(sent'[d]) <= 1
<1>1. PICK n \in Nat, m \in ServerMessage : sent'[d] = [i \in 1 .. n |-> m] /\ (n <= 1 \/ AtMostEntries(d, n))
  BY DEF ServerTells
<1>2. Len(sent'[d]) = n
  BY <1>1
<1>3. ASSUME NEW room \in Room, \A e, f \in room.connectedClients : e.client = f.client => e = f
      PROVE  Cardinality(EntriesOf(room, d)) <= 1
  <2>1. \A e, f \in EntriesOf(room, d) : e = f
    BY <1>3 DEF EntriesOf
  <2>2. CASE EntriesOf(room, d) = {}
    BY <2>2, FS_EmptySet
  <2>3. ASSUME NEW e \in EntriesOf(room, d) PROVE Cardinality(EntriesOf(room, d)) <= 1
    <3>1. EntriesOf(room, d) = {e}
      BY <2>1
    <3>2. Cardinality(EntriesOf(room, d)) = 1
      BY <3>1, FS_Singleton
    <3> QED BY <3>2
  <2> QED BY <2>2, <2>3
<1>4. ASSUME NEW room \in Room PROVE Cardinality(EntriesOf(room, d)) \in Nat
  <2>1. EntriesOf(room, d) \in SUBSET Member
    BY DEF EntriesOf, Room
  <2> QED BY <2>1, EntriesFinite
<1>5. ASSUME AtMostEntries(d, n) PROVE n <= 1
  <2>1. PICK room \in Room : /\ n <= Cardinality(EntriesOf(room, d))
                             /\ \A e, f \in room.connectedClients : e.client = f.client => e = f
    <3>1. /\ \A r \in RoomId : RoomExists(r) => gameRoomById[r] \in Room
          /\ \A r \in RoomId : gameRoomById'[r] # NoRoom => gameRoomById'[r] \in Room
      BY DEF ServerTypeOK, RoomExists
    <3>2. /\ \A r \in RoomId : RoomExists(r) =>
               \A e, f \in gameRoomById[r].connectedClients : e.client = f.client => e = f
          /\ \A r \in RoomId : gameRoomById'[r] # NoRoom =>
               \A e, f \in gameRoomById'[r].connectedClients : e.client = f.client => e = f
      BY DEF OneEntryPerClient, RoomExists
    <3> QED BY <1>5, <3>1, <3>2 DEF AtMostEntries
  <2>2. Cardinality(EntriesOf(room, d)) <= 1 /\ Cardinality(EntriesOf(room, d)) \in Nat
    BY <1>3, <1>4, <2>1
  <2> QED BY <2>1, <2>2
<1> QED BY <1>1, <1>2, <1>5

-----------------------------------------------------------------------------
(* The invariant *)

\* The server closes the session of a lost connection only when clients are patient: with an entry
\* of a client left in a room it has no record of, later sessions would meet the records disagreeing.
Careful == RethrowAsSystemError => ~RepeatedRequests

\* What is known of a client before it is connected, while it runs, and at any time.
ConnInv ==
  /\ sessions \subseteq remoteByClientId
  /\ \A c \in Client :
       /\ phase[c] = "off" =>
            /\ gameRoomId[c] = NoRoom /\ clientId[c] = NoClient
            /\ toServer[c] = << >> /\ toClient[c] = << >>
            /\ c \notin remoteByClientId
       /\ Running(c) => c \in remoteByClientId
       /\ clientId[c] \in {NoClient, c}
       /\ \A k \in 1 .. Len(toServer[c]) : toServer[c][k].type # "remove_client"

\* The requests of a client to enter a room that are on their way.
Requests(c) == {k \in 1 .. Len(toServer[c]) : toServer[c][k].type \in Entry}

NoAnswer(c) == \A k \in 1 .. Len(toClient[c]) : toClient[c][k].type # "game_room_joined"

Waits(c) ==
  Requests(c) # {} =>
    /\ roomIdByClientId[c] = NoRoom
    /\ \A j, k \in Requests(c) : j = k
    /\ NoAnswer(c)

\* A patient client asks when it is outside, and when nothing is on its way that may let it in.
PatientInv ==
  /\ left["again"] = 0
  /\ OneEntryPerClient
  /\ SentOnce
  /\ \A c \in Client : Waits(c)

SessionInv ==
  /\ TypesInv
  /\ ConnInv
  /\ MembershipAgrees /\ NoEmptyRoom
  /\ ViewInv
  /\ ~RepeatedRequests => PatientInv

-----------------------------------------------------------------------------
(* The steps of the clients *)

LEMMA Budget ==
  ASSUME left \in [Command -> Nat], NEW c \in Client, UserCommand(c)
  PROVE  left' \in [Command -> Nat] /\ left'["again"] = left["again"] /\ UNCHANGED <<vars, usedIds>>
<1>1. ASSUME NEW command \in Command \ {"again"}, Spend(command)
      PROVE  left' \in [Command -> Nat] /\ left'["again"] = left["again"] /\ UNCHANGED <<vars, usedIds>>
  <2>1. "again" \in Command
    BY DEF Command
  <2> QED BY <1>1, <2>1 DEF Spend
<1>2. {"create", "join", "leave", "slot", "start", "pause", "restart", "list", "change", "lose"}
        \subseteq Command \ {"again"}
  BY DEF Command
<1> QED BY <1>1, <1>2 DEF UserCommand

\* The server stands still.
LEMMA ServerStands ==
  ASSUME TypesInv, MembershipAgrees, NoEmptyRoom, ClientTypes', UNCHANGED <<vars, usedIds>>,
         left' \in [Command -> Nat]
  PROVE  TypesInv' /\ MembershipAgrees' /\ NoEmptyRoom'
<1>1. ServerTypeOK'
  BY DEF TypesInv, SessionTypeOK, ServerTypeOK, vars
<1>2. usedIds' \in SUBSET (RoomId \cup PlayerId)
  BY DEF TypesInv, SessionTypeOK
<1>3. TypesInv'
  BY <1>1, <1>2 DEF TypesInv, SessionTypeOK, ClientTypes
<1>4. MembershipAgrees' /\ NoEmptyRoom'
  BY DEF MembershipAgrees, NoEmptyRoom, RoomExists, vars
<1> QED BY <1>3, <1>4

\* What a client sees stays as it is, and so does what is on its way to it and what the server knows.
LEMMA SightStays ==
  ASSUME NEW c \in Client, Seen(c)' = Seen(c), toClient'[c] = toClient[c],
         UNCHANGED <<roomIdByClientId, gameRoomById>>, SeesRight(c)
  PROVE  SeesRight(c)'
BY DEF SeesRight

\* A client that waits goes on waiting when it sends nothing that asks, and is told nothing new.
LEMMA WaitsOn ==
  ASSUME NEW c \in Client, Waits(c), Requests(c)' \subseteq Requests(c), roomIdByClientId'[c] = roomIdByClientId[c],
         NoAnswer(c) => NoAnswer(c)'
  PROVE  Waits(c)'
BY DEF Waits

\* To append messages that ask for nothing adds no request.
LEMMA RequestsAppend ==
  ASSUME NEW c \in Client, toServer \in [Client -> Seq(ClientMessage)], NEW s \in Seq(ClientMessage),
         toServer' = [toServer EXCEPT ![c] = toServer[c] \o s],
         \A k \in 1 .. Len(s) : s[k].type \notin Entry /\ s[k].type # "remove_client",
         \A k \in 1 .. Len(toServer[c]) : toServer[c][k].type # "remove_client"
  PROVE  /\ Requests(c)' = Requests(c)
         /\ \A k \in 1 .. Len(toServer'[c]) : toServer'[c][k].type # "remove_client"
<1> DEFINE q == toServer[c]
           all == q \o s
<1>1. q \in Seq(ClientMessage) /\ toServer'[c] = all
  OBVIOUS
<1>2. /\ Len(all) = Len(q) + Len(s) /\ Len(q) \in Nat /\ Len(s) \in Nat
      /\ \A k \in 1 .. Len(q) + Len(s) : all[k] = IF k <= Len(q) THEN q[k] ELSE s[k - Len(q)]
  BY <1>1, ConcatProperties
<1>3. /\ \A k \in 1 .. Len(q) : q[k].type # "remove_client"
      /\ Requests(c) = {k \in 1 .. Len(q) : q[k].type \in Entry}
      /\ Requests(c)' = {k \in 1 .. Len(all) : all[k].type \in Entry}
  BY <1>1 DEF Requests
<1> HIDE DEF q, all
<1>4. ASSUME NEW k \in 1 .. Len(all)
      PROVE  \/ k \in 1 .. Len(q) /\ all[k] = q[k]
             \/ k \notin 1 .. Len(q) /\ all[k].type \notin Entry /\ all[k].type # "remove_client"
  <2>1. CASE k <= Len(q)
    BY <1>2, <2>1
  <2>2. CASE ~(k <= Len(q))
    <3>1. k - Len(q) \in 1 .. Len(s) /\ k \notin 1 .. Len(q) /\ all[k] = s[k - Len(q)]
      BY <1>2, <2>2
    <3> QED BY <3>1
  <2> QED BY <2>1, <2>2
<1>5. 1 .. Len(q) \subseteq 1 .. Len(all)
  BY <1>2
<1>6. Requests(c)' = Requests(c)
  BY <1>3, <1>4, <1>5
<1>7. \A k \in 1 .. Len(all) : all[k].type # "remove_client"
  BY <1>3, <1>4
<1> QED BY <1>1, <1>6, <1>7

\* The same of one message, which may ask.
LEMMA RequestsSend ==
  ASSUME NEW c \in Client, toServer \in [Client -> Seq(ClientMessage)], NEW m \in ClientMessage, Send(c, m),
         m.type # "remove_client", \A k \in 1 .. Len(toServer[c]) : toServer[c][k].type # "remove_client"
  PROVE  /\ m.type \notin Entry => Requests(c)' = Requests(c)
         /\ Requests(c) = {} => \A j, k \in Requests(c)' : j = k
         /\ \A k \in 1 .. Len(toServer'[c]) : toServer'[c][k].type # "remove_client"
<1> DEFINE q == toServer[c]
           all == Append(q, m)
<1>1. q \in Seq(ClientMessage) /\ toServer'[c] = all
  BY DEF Send
<1>2. /\ Len(all) = Len(q) + 1 /\ Len(q) \in Nat
      /\ \A k \in 1 .. Len(q) : all[k] = q[k]
      /\ all[Len(q) + 1] = m
  BY <1>1, AppendProperties
<1>3. /\ \A k \in 1 .. Len(q) : q[k].type # "remove_client"
      /\ Requests(c) = {k \in 1 .. Len(q) : q[k].type \in Entry}
      /\ Requests(c)' = {k \in 1 .. Len(all) : all[k].type \in Entry}
  BY <1>1 DEF Requests
<1> HIDE DEF q, all
<1>4. 1 .. Len(all) = (1 .. Len(q)) \cup {Len(q) + 1} /\ Len(q) + 1 \notin 1 .. Len(q)
  BY <1>2
<1>5. m.type \notin Entry => Requests(c)' = Requests(c)
  BY <1>2, <1>3, <1>4
<1>6. Requests(c) = {} => \A j, k \in Requests(c)' : j = k
  BY <1>2, <1>3, <1>4
<1>7. \A k \in 1 .. Len(all) : all[k].type # "remove_client"
  BY <1>2, <1>3, <1>4
<1> QED BY <1>1, <1>5, <1>6, <1>7

\* The invariant is about lists of the server that a client does not change.
LEMMA ListsStay ==
  ASSUME SessionInv, UNCHANGED <<vars, usedIds>>, left'["again"] = left["again"]
  PROVE  ~RepeatedRequests => left'["again"] = 0 /\ OneEntryPerClient' /\ SentOnce'
BY DEF SessionInv, PatientInv, OneEntryPerClient, SentOnce, RoomExists, vars

LEMMA TypesOfSession ==
  ASSUME TypesInv
  PROVE  /\ ClientTypes /\ ServerTypeOK
         /\ left \in [Command -> Nat]
         /\ usedIds \in SUBSET (RoomId \cup PlayerId)
BY DEF TypesInv, SessionTypeOK, ClientTypes

\* A client that sees nothing of the room has none.
LEMMA OutsideSees ==
  ASSUME TypesInv, NEW c \in Client, SeesRight(c), gameRoomId[c] = NoRoom, NoAnswer(c)
  PROVE  roomIdByClientId[c] = NoRoom
<1>1. PICK h : /\ Leads(c, h, Seen(c), toClient[c])
               /\ AgreesWith(c, h[Len(toClient[c])], roomIdByClientId[c], gameRoomById)
  BY DEF SeesRight
<1>2. toClient[c] \in Seq(ServerMessage)
  BY TypesOfSession, TypesOfClients
<1>3. Seen(c).room = NoRoom
  BY DEF Seen
<1>4. h[Len(toClient[c])].room = NoRoom
  BY <1>1, <1>2, <1>3, LeadsNowhere DEF NoAnswer
<1> QED BY <1>1, <1>4 DEF AgreesWith

\* What users do, but for a lost connection, and what a frame does.
LEMMA SameViewStep ==
  ASSUME SessionInv, NEW c \in Client, SameView, Sends(c), ClientTypes', UNCHANGED <<vars, usedIds>>,
         left' \in [Command -> Nat], left'["again"] = left["again"]
  PROVE  SessionInv'
<1>0. /\ TypesInv /\ ConnInv /\ MembershipAgrees /\ NoEmptyRoom /\ ViewInv
      /\ toServer \in [Client -> Seq(ClientMessage)]
  BY TypesOfSession, TypesOfClients DEF SessionInv
<1>1. TypesInv' /\ MembershipAgrees' /\ NoEmptyRoom'
  BY <1>0, ServerStands
<1>2. /\ \A d \in Client : Running(d)' <=> Running(d)
      /\ \A d \in Client : Seen(d)' = Seen(d) /\ toClient'[d] = toClient[d] /\ (NoAnswer(d)' <=> NoAnswer(d))
      /\ UNCHANGED <<roomIdByClientId, gameRoomById, remoteByClientId, sessions>>
  BY DEF SameView, Seen, Running, NoAnswer, vars
<1>3. ViewInv'
  BY <1>0, <1>2, SightStays DEF ViewInv
<1>4. ASSUME NEW d \in Client, toServer'[d] # toServer[d]
      PROVE  /\ d = c /\ Running(c)
             /\ \E m \in ClientMessage : Send(c, m) /\ m.type # "remove_client"
                                         /\ (m.type \in Entry => MayAsk(c) /\ ~isInsideRoom(c))
  BY <1>0, <1>4 DEF Sends, Send
<1>kick. ASSUME NEW d \in Client
         PROVE  \A k \in 1 .. Len(toServer'[d]) : toServer'[d][k].type # "remove_client"
  <2>1. CASE toServer'[d] = toServer[d]
    BY <1>0, <2>1 DEF ConnInv
  <2>2. CASE toServer'[d] # toServer[d]
    <3>1. PICK m \in ClientMessage : Send(c, m) /\ m.type # "remove_client"
      BY <1>4, <2>2
    <3> QED BY <1>0, <1>4, <2>2, <3>1, RequestsSend DEF ConnInv
  <2> QED BY <2>1, <2>2
<1>5. ConnInv'
  <2>1. ASSUME NEW d \in Client, phase'[d] = "off"
        PROVE  toServer'[d] = toServer[d]
    BY <1>4, <2>1 DEF SameView, Running
  <2> QED BY <1>0, <1>2, <1>kick, <2>1 DEF ConnInv, SameView
<1>6. ASSUME ~RepeatedRequests PROVE PatientInv'
  <2>0. left["again"] = 0 /\ \A d \in Client : Waits(d)
    BY <1>6 DEF SessionInv, PatientInv
  <2> SUFFICES ASSUME NEW d \in Client PROVE Waits(d)'
    BY <1>6, ListsStay DEF PatientInv
  <2>1. CASE toServer'[d] = toServer[d]
    BY <1>2, <2>0, <2>1, WaitsOn DEF Requests
  <2>2. CASE toServer'[d] # toServer[d]
    <3>1. PICK m \in ClientMessage : /\ Send(c, m) /\ m.type # "remove_client"
                                     /\ m.type \in Entry => MayAsk(c) /\ ~isInsideRoom(c)
      BY <1>4, <2>2
    <3>2. d = c /\ Running(c)
      BY <1>4, <2>2
    <3>3. /\ m.type \notin Entry => Requests(c)' = Requests(c)
          /\ Requests(c) = {} => \A j, k \in Requests(c)' : j = k
      BY <1>0, <3>1, RequestsSend DEF ConnInv
    <3>4. CASE m.type \notin Entry
      BY <1>2, <2>0, <3>2, <3>3, <3>4, WaitsOn
    <3>5. CASE m.type \in Entry
      <4>1. ~Asking(c) /\ gameRoomId[c] = NoRoom
        BY <2>0, <3>1, <3>5 DEF MayAsk, isInsideRoom
      <4>2. toServer[c] \in Seq(ClientMessage) /\ toClient[c] \in Seq(ServerMessage)
        BY <1>0, TypesOfSession, TypesOfClients
      <4>3. DOMAIN toServer[c] = 1 .. Len(toServer[c]) /\ DOMAIN toClient[c] = 1 .. Len(toClient[c])
        BY <4>2
      <4>4. Requests(c) = {} /\ NoAnswer(c)
        BY <4>1, <4>3 DEF Asking, Requests, NoAnswer, Entry
      <4>5. roomIdByClientId[c] = NoRoom
        BY <1>0, <3>2, <4>1, <4>4, OutsideSees DEF ViewInv
      <4> QED BY <1>2, <3>2, <3>3, <4>4, <4>5 DEF Waits
    <3> QED BY <3>4, <3>5
  <2> QED BY <2>1, <2>2
<1>7. (~RepeatedRequests => PatientInv)'
  BY <1>6
<1> QED BY <1>1, <1>3, <1>5, <1>7 DEF SessionInv

LEMMA UserStep ==
  ASSUME SessionInv, NEW c \in Client, UserCommand(c), ~LoseConnection(c)
  PROVE  SessionInv'
<1>1. ClientTypes /\ left \in [Command -> Nat]
  BY TypesOfSession DEF SessionInv
<1> QED BY <1>1, UserSteps, Budget, SameViewStep

LEMMA FrameStep ==
  ASSUME SessionInv, NEW c \in Client, Frame(c)
  PROVE  SessionInv'
<1>1. ClientTypes /\ left \in [Command -> Nat]
  BY TypesOfSession DEF SessionInv
<1>2. SameView /\ ClientTypes' /\ UNCHANGED toServer
  BY <1>1, FrameTypes DEF Frame
<1>3. UNCHANGED <<vars, left, usedIds>> /\ Sends(c)
  BY <1>2 DEF Frame, Sends
<1> QED BY <1>1, <1>2, <1>3, SameViewStep

\* Of a connection that is lost the server gets a beginning of what was sent.
LEMMA LoseStep ==
  ASSUME SessionInv, NEW c \in Client, LoseConnection(c), UNCHANGED <<vars, usedIds>>,
         left' \in [Command -> Nat], left'["again"] = left["again"]
  PROVE  SessionInv'
<1>0. /\ TypesInv /\ ConnInv /\ MembershipAgrees /\ NoEmptyRoom /\ ViewInv
      /\ ClientTypes
  BY TypesOfSession DEF SessionInv
<1>types. /\ toServer \in [Client -> Seq(ClientMessage)] /\ toClient \in [Client -> Seq(ServerMessage)]
          /\ phase \in [Client -> {"off", "connect", "lobby", "game", "lost"}]
  BY <1>0, TypesOfClients
<1>lost. /\ ClientTypes'
         /\ phase' = [phase EXCEPT ![c] = "lost"]
         /\ UNCHANGED <<gameRoomId, clientId, networkSlots, gameRoomClients>>
         /\ toClient' = [toClient EXCEPT ![c] = << >>]
         /\ \E k \in 0 .. Len(toServer[c]) : toServer' = [toServer EXCEPT ![c] = SubSeq(toServer[c], 1, k)]
  BY <1>0, LoseTypes
<1>1. TypesInv' /\ MembershipAgrees' /\ NoEmptyRoom'
  BY <1>0, <1>lost, ServerStands
<1>2. /\ phase'[c] = "lost" /\ toClient'[c] = << >>
      /\ \A d \in Client : d # c => phase'[d] = phase[d] /\ toClient'[d] = toClient[d] /\ toServer'[d] = toServer[d]
      /\ UNCHANGED <<roomIdByClientId, gameRoomById, remoteByClientId, sessions>>
  BY <1>types, <1>lost DEF vars
<1>3. /\ Len(toServer'[c]) <= Len(toServer[c]) /\ Len(toServer'[c]) \in Nat /\ Len(toServer[c]) \in Nat
      /\ \A k \in 1 .. Len(toServer'[c]) : toServer'[c][k] = toServer[c][k]
  <2> DEFINE q == toServer[c]
  <2>1. PICK k \in 0 .. Len(q) : toServer' = [toServer EXCEPT ![c] = SubSeq(q, 1, k)]
    BY <1>lost
  <2>2. q \in Seq(ClientMessage) /\ toServer'[c] = SubSeq(q, 1, k)
    BY <1>types, <2>1
  <2> HIDE DEF q
  <2>3. Len(SubSeq(q, 1, k)) = k /\ \A i \in 1 .. k : SubSeq(q, 1, k)[i] = q[i]
    BY <2>2
  <2>4. Len(q) \in Nat
    BY <2>2
  <2> QED BY <2>2, <2>3, <2>4 DEF q
<1>4. ViewInv'
  <2> SUFFICES ASSUME NEW d \in Client, Running(d)' PROVE SeesRight(d)'
    BY DEF ViewInv
  <2>1. d # c
    BY <1>2 DEF Running
  <2>2. Running(d) /\ Seen(d)' = Seen(d) /\ toClient'[d] = toClient[d]
    BY <1>lost, <1>2, <2>1 DEF Running, Seen
  <2> QED BY <1>0, <1>2, <2>2, SightStays DEF ViewInv
<1>5. 1 .. Len(toServer'[c]) \subseteq 1 .. Len(toServer[c])
  BY <1>3
<1>6. ConnInv'
  <2>1. ASSUME NEW d \in Client
        PROVE  \A k \in 1 .. Len(toServer'[d]) : toServer'[d][k].type # "remove_client"
    BY <1>0, <1>2, <1>3, <1>5 DEF ConnInv
  <2>2. ASSUME NEW d \in Client
        PROVE  /\ phase'[d] = "off" => d # c
               /\ phase'[d] \in {"connect", "lobby", "game"} => d # c
    BY <1>2
  <2> QED BY <1>0, <1>lost, <1>2, <2>1, <2>2 DEF ConnInv, Running
<1>7. ASSUME ~RepeatedRequests PROVE PatientInv'
  <2>0. \A d \in Client : Waits(d)
    BY <1>7 DEF SessionInv, PatientInv
  <2> SUFFICES ASSUME NEW d \in Client PROVE Waits(d)'
    BY <1>7, ListsStay DEF PatientInv
  <2>1. CASE d # c
    BY <1>2, <2>0, <2>1, WaitsOn DEF Requests, NoAnswer
  <2>2. CASE d = c
    <3>1. Requests(c)' \subseteq Requests(c)
      BY <1>3, <1>5 DEF Requests
    <3>2. NoAnswer(c)'
      BY <1>2 DEF NoAnswer
    <3> QED BY <1>2, <2>0, <2>2, <3>1, <3>2, WaitsOn
  <2> QED BY <2>1, <2>2
<1>8. (~RepeatedRequests => PatientInv)'
  BY <1>7
<1> QED BY <1>1, <1>4, <1>6, <1>8 DEF SessionInv

LEMMA ReceiveStep ==
  ASSUME SessionInv, NEW c \in Client, ClientReceives(c)
  PROVE  SessionInv'
<1>0. /\ TypesInv /\ ConnInv /\ MembershipAgrees /\ NoEmptyRoom /\ ViewInv
      /\ ClientTypes /\ left \in [Command -> Nat]
      /\ nextMessage(c) /\ UNCHANGED <<vars, left, usedIds>>
  BY TypesOfSession DEF SessionInv, ClientReceives
<1>types. /\ toServer \in [Client -> Seq(ClientMessage)] /\ toClient \in [Client -> Seq(ServerMessage)]
  BY <1>0, TypesOfClients
<1>runs. Running(c)
  BY <1>0 DEF nextMessage, Running
<1>h. PICK h : /\ Leads(c, h, Seen(c), toClient[c])
               /\ AgreesWith(c, h[Len(toClient[c])], roomIdByClientId[c], gameRoomById)
  BY <1>0, <1>runs DEF ViewInv, SeesRight
<1>knows. phase[c] = "lobby" => KnowsRoom(c)
  <2>1. Good(c, Seen(c))
    <3>1. 0 \in 0 .. Len(toClient[c])
      BY <1>types
    <3> QED BY <1>h, <3>1 DEF Leads
  <2> QED BY <2>1 DEF Good, Seen, KnowsRoom
<1>1. /\ ClientTypes'
      /\ Seen(c)' = After(Seen(c), Head(toClient[c])) /\ SameOthers(c)
      /\ Replies(c)
      /\ toClient[c] # << >> /\ toClient' = [toClient EXCEPT ![c] = Tail(@)]
  BY <1>0, <1>knows, MessageSteps
<1>2. TypesInv' /\ MembershipAgrees' /\ NoEmptyRoom'
  BY <1>0, <1>1, ServerStands
<1>3. PICK s \in Seq(ClientMessage) :
        /\ toServer' = [toServer EXCEPT ![c] = toServer[c] \o s]
        /\ \A k \in 1 .. Len(s) : s[k].type \notin Entry /\ s[k].type # "remove_client"
  BY <1>types, <1>1 DEF Replies
<1>4. /\ toClient'[c] = Tail(toClient[c]) /\ toClient[c] \in Seq(ServerMessage)
      /\ \A d \in Client : d # c => /\ toClient'[d] = toClient[d] /\ toServer'[d] = toServer[d]
                                    /\ Seen(d)' = Seen(d)
      /\ UNCHANGED <<roomIdByClientId, gameRoomById, remoteByClientId, sessions>>
  BY <1>types, <1>0, <1>1, <1>3 DEF SameOthers, vars
<1>5. \A d \in Client : d # c => /\ phase'[d] = phase[d] /\ gameRoomId'[d] = gameRoomId[d]
                                 /\ clientId'[d] = clientId[d]
  <2>1. \A d \in Client : /\ Seen(d).phase = phase[d] /\ Seen(d).room = gameRoomId[d] /\ Seen(d).me = clientId[d]
                          /\ Seen(d)'.phase = phase'[d] /\ Seen(d)'.room = gameRoomId'[d]
                          /\ Seen(d)'.me = clientId'[d]
    BY DEF Seen
  <2> QED BY <1>4, <2>1
<1>g. PICK g : /\ Leads(c, g, After(Seen(c), Head(toClient[c])), Tail(toClient[c]))
               /\ g[Len(Tail(toClient[c]))] = h[Len(toClient[c])]
  BY <1>1, <1>4, <1>h, LeadsOn
<1>sees. SeesRight(c)'
  <2>1. Leads(c, g, Seen(c)', toClient'[c])
    BY <1>1, <1>4, <1>g
  <2>2. AgreesWith(c, g[Len(toClient'[c])], roomIdByClientId'[c], gameRoomById')
    BY <1>h, <1>g, <1>4
  <2>3. \E x : /\ Leads(c, x, Seen(c)', toClient'[c])
               /\ AgreesWith(c, x[Len(toClient'[c])], roomIdByClientId'[c], gameRoomById')
    BY <2>1, <2>2
  <2> QED BY <2>3 DEF SeesRight, Leads, Good, AgreesWith
<1>good. phase'[c] \in {"connect", "lobby", "game"} /\ clientId'[c] \in {NoClient, c}
  <2>1. Good(c, Seen(c)')
    <3>1. 0 \in 0 .. Len(Tail(toClient[c]))
      BY <1>1, <1>4, TailOf
    <3> QED BY <1>1, <1>g, <3>1 DEF Leads
  <2>2. Seen(c)'.phase = phase'[c] /\ Seen(c)'.me = clientId'[c]
    BY DEF Seen
  <2> QED BY <2>1, <2>2 DEF Good
<1>6. ViewInv'
  <2> SUFFICES ASSUME NEW d \in Client, Running(d)' PROVE SeesRight(d)'
    BY DEF ViewInv
  <2>1. CASE d = c
    BY <1>sees, <2>1
  <2>2. CASE d # c
    <3>1. Running(d) /\ Seen(d)' = Seen(d) /\ toClient'[d] = toClient[d]
      BY <1>4, <1>5, <2>2 DEF Running
    <3> QED BY <1>0, <1>4, <3>1, SightStays DEF ViewInv
  <2> QED BY <2>1, <2>2
<1>7. /\ Requests(c)' = Requests(c)
      /\ \A k \in 1 .. Len(toServer'[c]) : toServer'[c][k].type # "remove_client"
  BY <1>0, <1>types, <1>3, RequestsAppend DEF ConnInv
<1>8. ConnInv'
  <2>1. ASSUME NEW d \in Client
        PROVE  /\ phase'[d] = "off" =>
                    /\ gameRoomId'[d] = NoRoom /\ clientId'[d] = NoClient
                    /\ toServer'[d] = << >> /\ toClient'[d] = << >>
                    /\ d \notin remoteByClientId
               /\ phase'[d] \in {"connect", "lobby", "game"} => d \in remoteByClientId
               /\ clientId'[d] \in {NoClient, d}
               /\ \A k \in 1 .. Len(toServer'[d]) : toServer'[d][k].type # "remove_client"
    <3>1. CASE d = c
      BY <1>0, <1>runs, <1>good, <1>7, <3>1 DEF ConnInv
    <3>2. CASE d # c
      BY <1>0, <1>4, <1>5, <3>2 DEF ConnInv, Running
    <3> QED BY <3>1, <3>2
  <2> QED BY <1>0, <1>4, <2>1 DEF ConnInv, Running
<1>9. ASSUME ~RepeatedRequests PROVE PatientInv'
  <2>0. \A d \in Client : Waits(d)
    BY <1>9 DEF SessionInv, PatientInv
  <2> SUFFICES ASSUME NEW d \in Client PROVE Waits(d)'
    BY <1>0, <1>9, ListsStay DEF PatientInv
  <2>1. CASE d # c
    BY <1>4, <2>0, <2>1, WaitsOn DEF Requests, NoAnswer
  <2>2. CASE d = c
    <3>1. NoAnswer(c) => NoAnswer(c)'
      BY <1>1, <1>4, TailOf DEF NoAnswer
    <3> QED BY <1>4, <1>7, <2>0, <2>2, <3>1, WaitsOn
  <2> QED BY <2>1, <2>2
<1>10. (~RepeatedRequests => PatientInv)'
  BY <1>9
<1> QED BY <1>2, <1>6, <1>8, <1>10 DEF SessionInv

-----------------------------------------------------------------------------
(* The steps of the server *)

\* Who was going to agree with the server is going to agree once more.
LEMMA TellsSight ==
  ASSUME TypesInv, NEW d \in Client, SeesRight(d), ServerTells(d), Seen(d)' = Seen(d),
         toClient'[d] = toClient[d] \o sent'[d]
  PROVE  SeesRight(d)'
<1>1. PICK h : /\ Leads(d, h, Seen(d), toClient[d])
               /\ AgreesWith(d, h[Len(toClient[d])], roomIdByClientId[d], gameRoomById)
  BY DEF SeesRight
<1>2. toClient[d] \in Seq(ServerMessage)
  BY TypesOfSession, TypesOfClients
<1> DEFINE v == h[Len(toClient[d])]
<1>3. Good(d, v)
  <2>1. Len(toClient[d]) \in 0 .. Len(toClient[d])
    BY <1>2
  <2> QED BY <1>1, <2>1 DEF Leads
<1>4. PICK n \in Nat, m \in ServerMessage :
        /\ sent'[d] = [i \in 1 .. n |-> m]
        /\ \A u : Good(d, u) /\ AgreesWith(d, u, roomIdByClientId[d], gameRoomById) =>
             \E w : /\ w = IF n = 0 THEN u ELSE After(u, m)
                    /\ n # 0 => After(w, m) = w
                    /\ Good(d, w)
                    /\ AgreesWith(d, w, roomIdByClientId'[d], gameRoomById')
  BY DEF ServerTells
<1>5. PICK w : /\ w = IF n = 0 THEN v ELSE After(v, m)
               /\ n # 0 => After(w, m) = w
               /\ Good(d, w)
               /\ AgreesWith(d, w, roomIdByClientId'[d], gameRoomById')
  BY <1>1, <1>3, <1>4
<1>6. LeadsTo(d, Seen(d), toClient[d], v)
  BY <1>1 DEF LeadsTo
<1>7. LeadsTo(d, Seen(d), toClient[d] \o Times(n, m), w)
  <2> HIDE DEF v
  <2>1. /\ n = 0 => w = v
        /\ n # 0 => w = After(v, m) /\ After(w, m) = w
        /\ Good(d, w)
    BY <1>5
  <2> QED BY <1>2, <1>6, <2>1, LeadsFurther
<1>8. LeadsTo(d, Seen(d)', toClient'[d], w)
  BY <1>4, <1>7 DEF Times
<1>9. \E x : /\ Leads(d, x, Seen(d)', toClient'[d])
             /\ AgreesWith(d, x[Len(toClient'[d])], roomIdByClientId'[d], gameRoomById')
  BY <1>5, <1>8 DEF LeadsTo
<1> QED BY <1>9 DEF SeesRight, Leads, Good, AgreesWith

\* A client that stays outside gets no answer that lets it in.
LEMMA TellsNoAnswer ==
  ASSUME TypesInv, NEW d \in Client, ServerTells(d), NoAnswer(d), roomIdByClientId'[d] = NoRoom,
         toClient'[d] = toClient[d] \o sent'[d]
  PROVE  NoAnswer(d)'
<1>1. PICK n \in Nat, m \in ServerMessage :
        /\ sent'[d] = [i \in 1 .. n |-> m]
        /\ n # 0 /\ m.type = "game_room_joined" => roomIdByClientId'[d] # NoRoom
  BY DEF ServerTells
<1> DEFINE q == toClient[d]
           s == [i \in 1 .. n |-> m]
           all == q \o s
<1>2. q \in Seq(ServerMessage)
  BY TypesOfSession, TypesOfClients
<1>3. s \in Seq(ServerMessage) /\ Len(s) = n /\ \A k \in 1 .. n : s[k] = m
  OBVIOUS
<1>4. toClient'[d] = all /\ \A k \in 1 .. Len(q) : q[k].type # "game_room_joined"
  BY <1>1 DEF NoAnswer
<1> HIDE DEF q, s
<1>5. /\ Len(all) = Len(q) + n /\ Len(q) \in Nat
      /\ \A k \in 1 .. Len(q) + n : all[k] = IF k <= Len(q) THEN q[k] ELSE s[k - Len(q)]
  <2>1. /\ Len(all) = Len(q) + Len(s)
        /\ \A k \in 1 .. Len(q) + Len(s) : all[k] = IF k <= Len(q) THEN q[k] ELSE s[k - Len(q)]
    BY <1>2, <1>3, ConcatProperties
  <2>2. Len(q) \in Nat
    BY <1>2
  <2> HIDE DEF all
  <2> QED BY <1>3, <2>1, <2>2
<1> HIDE DEF all
<1>6. ASSUME NEW k \in 1 .. Len(all) PROVE all[k].type # "game_room_joined"
  <2>1. CASE k <= Len(q)
    BY <1>4, <1>5, <2>1
  <2>2. CASE ~(k <= Len(q))
    <3>1. k - Len(q) \in 1 .. n /\ n # 0
      BY <1>5, <2>2
    <3>2. all[k] = m
      BY <1>3, <1>5, <2>2, <3>1
    <3> QED BY <1>1, <3>1, <3>2
  <2> QED BY <2>1, <2>2
<1> QED BY <1>4, <1>6 DEF NoAnswer

\* What a step of the server for c is: clients stand still, and those that run are told.
ServerMoves(c) ==
  /\ UNCHANGED <<clientVars, left>>
  /\ toClient' = Queued(toClient)
  /\ phase[c] # "off"
  /\ sessions' \subseteq remoteByClientId'
  /\ remoteByClientId' \subseteq remoteByClientId
  /\ \A d \in Client : d # c \/ phase[d] # "lost" => (d \in remoteByClientId' <=> d \in remoteByClientId)
  /\ \A d \in remoteByClientId : d # c \/ phase[d] # "lost" => ServerTells(d)
  /\ \A d \in Client : d \notin remoteByClientId /\ d # c => sent'[d] = << >>
  /\ \/ UNCHANGED toServer
     \/ toServer[c] # << >> /\ toServer' = [toServer EXCEPT ![c] = Tail(toServer[c])]

LEMMA ServerMovesTypes ==
  ASSUME TypesInv, ServerTypeOK', usedIds' \in SUBSET (RoomId \cup PlayerId), NEW c \in Client, ServerMoves(c)
  PROVE  TypesInv'
<1>0. ClientTypes
  BY TypesOfSession
<1>1. toClient' \in [Client -> Seq(ServerMessage)]
  <2>1. \A d \in Client : toClient[d] \in Seq(ServerMessage) /\ sent'[d] \in Seq(ServerMessage)
    BY <1>0, TypesOfClients DEF ServerTypeOK
  <2>2. \A d \in Client : toClient[d] \o sent'[d] \in Seq(ServerMessage)
    BY <2>1, ConcatProperties
  <2> QED BY <2>1, <2>2 DEF ServerMoves, Queued
<1>2. toServer' \in [Client -> Seq(ClientMessage)]
  <2>1. toServer \in [Client -> Seq(ClientMessage)]
    BY <1>0, TypesOfClients
  <2>2. toServer[c] # << >> => Tail(toServer[c]) \in Seq(ClientMessage)
    BY <2>1, TailOf
  <2> QED BY <2>1, <2>2 DEF ServerMoves
<1>3. UNCHANGED <<phase, gameRoomId, clientId, networkSlots, players, listening, gameRoomClients, tetrisGame, left>>
  BY DEF ServerMoves, clientVars
<1>4. NetworkTypeOK' /\ networkSlots' \in [Client -> SlotsSeen]
  BY <1>0, <1>1, <1>2, <1>3 DEF ClientTypes, NetworkTypeOK
<1>5. left' \in [Command -> Nat]
  BY <1>3, TypesOfSession
<1> QED BY <1>4, <1>5 DEF TypesInv, SessionTypeOK

\* To take the first message removes no other request.
LEMMA RequestsTail ==
  ASSUME NEW c \in Client, toServer \in [Client -> Seq(ClientMessage)], toServer[c] # << >>,
         toServer' = [toServer EXCEPT ![c] = Tail(toServer[c])],
         \A k \in 1 .. Len(toServer[c]) : toServer[c][k].type # "remove_client"
  PROVE  /\ Requests(c)' # {} => Requests(c) # {}
         /\ (\A j, k \in Requests(c) : j = k) => \A j, k \in Requests(c)' : j = k
         /\ (\A j, k \in Requests(c) : j = k) /\ Head(toServer[c]).type \in Entry => Requests(c)' = {}
         /\ \A k \in 1 .. Len(toServer'[c]) : toServer'[c][k].type # "remove_client"
         /\ Head(toServer[c]).type # "remove_client"
<1> DEFINE q == toServer[c]
           rest == Tail(q)
<1>1. q \in Seq(ClientMessage) /\ toServer'[c] = rest
  OBVIOUS
<1>2. /\ Len(rest) = Len(q) - 1 /\ Len(q) \in Nat /\ Len(q) >= 1 /\ Head(q) = q[1]
      /\ \A k \in 1 .. Len(rest) : rest[k] = q[k + 1] /\ k + 1 \in 1 .. Len(q)
  BY <1>1, TailOf
<1>3. /\ \A k \in 1 .. Len(q) : q[k].type # "remove_client"
      /\ Requests(c) = {k \in 1 .. Len(q) : q[k].type \in Entry}
      /\ Requests(c)' = {k \in 1 .. Len(rest) : rest[k].type \in Entry}
  BY <1>1 DEF Requests
<1> HIDE DEF q, rest
<1>4. \A k \in Requests(c)' : k \in Nat /\ k >= 1 /\ k + 1 \in Requests(c)
  <2> SUFFICES ASSUME NEW k \in Requests(c)' PROVE k \in Nat /\ k >= 1 /\ k + 1 \in Requests(c)
    OBVIOUS
  <2>1. k \in 1 .. Len(rest) /\ rest[k].type \in Entry
    BY <1>3
  <2>2. rest[k] = q[k + 1] /\ k + 1 \in 1 .. Len(q)
    BY <1>2, <2>1
  <2> QED BY <1>3, <2>1, <2>2
<1>5. q[1].type \in Entry => 1 \in Requests(c)
  BY <1>2, <1>3
<1>6. ASSUME \A j, k \in Requests(c) : j = k
      PROVE  /\ \A j, k \in Requests(c)' : j = k
             /\ q[1].type \in Entry => Requests(c)' = {}
  <2>1. \A j, k \in Requests(c)' : j + 1 = k + 1
    BY <1>4, <1>6
  <2>2. \A j, k \in Requests(c)' : j = k
    BY <1>4, <2>1
  <2>3. ASSUME q[1].type \in Entry, NEW k \in Requests(c)' PROVE FALSE
    <3>1. k + 1 = 1
      BY <1>4, <1>5, <1>6, <2>3
    <3> QED BY <1>4, <3>1
  <2> QED BY <2>2, <2>3
<1>7. \A k \in 1 .. Len(rest) : rest[k].type # "remove_client"
  BY <1>2, <1>3
<1>8. q[1].type # "remove_client"
  BY <1>2, <1>3
<1> QED BY <1>1, <1>2, <1>4, <1>6, <1>7, <1>8 DEF q

\* No message ends or begins a session.
LEMMA HandleStays ==
  ASSUME NEW c \in Client, NEW m, Handle(c, m)
  PROVE  UNCHANGED <<remoteByClientId, sessions>>
<1> DEFINE Same == UNCHANGED <<remoteByClientId, sessions>>
<1>1. /\ \A r, room : EnterRoom(c, r, room) => Same
      /\ \A room : FrontOfEmptyList(room) => Same
      /\ \A room, out : UpdateRoom(c, room, out) => Same
      /\ \A out : Relay(out) => Same
      /\ Ignore => Same
  BY DEF EnterRoom, FrontOfEmptyList, UpdateRoom, Relay, Ignore
<1>2. EnterAgain(c) => Same
  BY <1>1 DEF EnterAgain
<1>3. /\ HandleCreateGameRoom(c, m.isPublic) => Same
      /\ HandleJoinGameRoom(c, m.room) => Same
      /\ HandleLeaveGameRoom(c) => Same
      /\ HandleRequestGameRoomList(c) => Same
  BY <1>1, <1>2 DEF HandleCreateGameRoom, HandleJoinGameRoom, HandleLeaveGameRoom, HandleRequestGameRoomList
<1>4. /\ HandlePlayerSlot(c, m.index, m.request) => Same
      /\ HandleGameCommand(c, m.pause) => Same
      /\ HandleStartGame(c) => Same
      /\ HandleBoard(c, m) => Same
  BY <1>1 DEF HandlePlayerSlot, UpdateSlot, HandleGameCommand, HandleStartGame, HandleBoard
<1>5. /\ HandleRequestGameRestart(c) => Same
      /\ HandleGameRestart(c, m.blocks) => Same
      /\ HandleRemoveClient(c, m.client) => Same
  BY <1>1 DEF HandleRequestGameRestart, HandleGameRestart, HandleRemoveClient
<1> HIDE DEF Same
<1>6. Same
  BY <1>1, <1>3, <1>4, <1>5 DEF Handle
<1> QED BY <1>6 DEF Same

\* Who waits and is not let in goes on waiting.
MayWait(d) == Requests(d)' # {} => roomIdByClientId'[d] = NoRoom /\ \A j, k \in Requests(d)' : j = k

LEMMA ServerStep ==
  ASSUME SessionInv, NEW c \in Client, ServerMoves(c), TypesInv', MembershipAgrees', NoEmptyRoom',
         ~RepeatedRequests => OneEntryPerClient' /\ SentOnce' /\ \A d \in Client : MayWait(d)
  PROVE  SessionInv'
<1>0. /\ TypesInv /\ ConnInv /\ ViewInv /\ ClientTypes
      /\ toServer \in [Client -> Seq(ClientMessage)] /\ toClient \in [Client -> Seq(ServerMessage)]
  BY TypesOfSession, TypesOfClients DEF SessionInv
<1>1. /\ UNCHANGED <<phase, gameRoomId, clientId, networkSlots, gameRoomClients, left>>
      /\ \A d \in Client : Seen(d)' = Seen(d) /\ (Running(d)' <=> Running(d))
  BY DEF ServerMoves, clientVars, Seen, Running
<1>2. \A d \in Client : toClient'[d] = IF phase[d] = "lost" THEN toClient[d] ELSE toClient[d] \o sent'[d]
  BY DEF ServerMoves, Queued
<1>3. \A d \in Client : Running(d) => phase[d] # "lost" /\ d \in remoteByClientId /\ ServerTells(d)
  BY <1>0 DEF ConnInv, ServerMoves, Running
<1>4. ViewInv'
  <2> SUFFICES ASSUME NEW d \in Client, Running(d)' PROVE SeesRight(d)'
    BY DEF ViewInv
  <2>1. Running(d) /\ SeesRight(d) /\ ServerTells(d) /\ phase[d] # "lost"
    BY <1>0, <1>1, <1>3 DEF ViewInv
  <2>2. toClient'[d] = toClient[d] \o sent'[d]
    BY <1>2, <2>1
  <2> QED BY <1>0, <1>1, <2>1, <2>2, TellsSight
<1>5. ASSUME NEW d \in Client, phase[d] = "off"
      PROVE  toServer'[d] = toServer[d] /\ toClient'[d] = toClient[d] /\ d \notin remoteByClientId'
  <2>1. toServer[d] = << >> /\ toClient[d] = << >> /\ d \notin remoteByClientId /\ d # c
    BY <1>0, <1>5 DEF ConnInv, ServerMoves
  <2>2. sent'[d] = << >>
    BY <2>1 DEF ServerMoves
  <2>3. << >> \o << >> = << >>
    BY ConcatEmptySeq, EmptySeq
  <2>4. toClient'[d] = toClient[d]
    BY <1>2, <1>5, <2>1, <2>2, <2>3
  <2>5. toServer'[d] = toServer[d]
    BY <1>0, <2>1 DEF ServerMoves
  <2> QED BY <2>1, <2>4, <2>5 DEF ServerMoves
<1>6. ASSUME NEW d \in Client
      PROVE  \A k \in 1 .. Len(toServer'[d]) : toServer'[d][k].type # "remove_client"
  <2>1. CASE toServer'[d] = toServer[d]
    BY <1>0, <2>1 DEF ConnInv
  <2>2. CASE d = c /\ toServer[c] # << >> /\ toServer' = [toServer EXCEPT ![c] = Tail(toServer[c])]
    BY <1>0, <2>2, RequestsTail DEF ConnInv
  <2> QED BY <1>0, <2>1, <2>2 DEF ServerMoves
<1>7. ConnInv'
  <2>1. ASSUME NEW d \in Client
        PROVE  /\ phase'[d] = "off" =>
                    /\ gameRoomId'[d] = NoRoom /\ clientId'[d] = NoClient
                    /\ toServer'[d] = << >> /\ toClient'[d] = << >>
                    /\ d \notin remoteByClientId'
               /\ Running(d)' => d \in remoteByClientId'
               /\ clientId'[d] \in {NoClient, d}
    <3>1. Running(d)' => d \in remoteByClientId'
      BY <1>1, <1>3 DEF ServerMoves
    <3> QED BY <1>0, <1>1, <1>5, <3>1 DEF ConnInv
  <2>2. sessions' \subseteq remoteByClientId'
    BY DEF ServerMoves
  <2> QED BY <1>6, <2>1, <2>2 DEF ConnInv
<1>8. ASSUME ~RepeatedRequests PROVE PatientInv'
  <2>0. left'["again"] = 0 /\ \A d \in Client : Waits(d)
    BY <1>1, <1>8 DEF SessionInv, PatientInv
  <2> SUFFICES ASSUME NEW d \in Client PROVE Waits(d)'
    BY <1>8, <2>0 DEF PatientInv
  <2> SUFFICES ASSUME Requests(d)' # {}
               PROVE  roomIdByClientId'[d] = NoRoom /\ (\A j, k \in Requests(d)' : j = k) /\ NoAnswer(d)'
    BY DEF Waits
  <2>1. roomIdByClientId'[d] = NoRoom /\ (\A j, k \in Requests(d)' : j = k)
    BY <1>8 DEF MayWait
  <2>2. Requests(d) # {}
    <3>1. CASE toServer'[d] = toServer[d]
      BY <3>1 DEF Requests
    <3>2. CASE d = c /\ toServer[c] # << >> /\ toServer' = [toServer EXCEPT ![c] = Tail(toServer[c])]
      BY <1>0, <3>2, RequestsTail DEF ConnInv
    <3> QED BY <1>0, <3>1, <3>2 DEF ServerMoves
  <2>3. NoAnswer(d)
    BY <2>0, <2>2 DEF Waits
  <2>4. CASE Running(d)
    <3>1. ServerTells(d) /\ toClient'[d] = toClient[d] \o sent'[d]
      BY <1>2, <1>3, <2>4
    <3> QED BY <1>0, <2>1, <2>3, <3>1, TellsNoAnswer
  <2>5. CASE ~Running(d)
    <3>1. phase[d] \in {"off", "lost"}
      BY <1>0, <2>5, TypesOfClients DEF Running
    <3>2. toClient'[d] = toClient[d]
      BY <1>2, <1>5, <3>1
    <3> QED BY <2>1, <2>3, <3>2 DEF NoAnswer
  <2> QED BY <2>4, <2>5
<1>9. (~RepeatedRequests => PatientInv)'
  BY <1>8
<1> QED BY <1>4, <1>7, <1>9 DEF SessionInv

\* The ids in the rooms of the server.
LEMMA IdsOfType ==
  ASSUME NEW rooms \in [RoomId -> Room \cup {NoRoom}]
  PROVE  IdsOf(rooms) \in SUBSET (RoomId \cup PlayerId)
<1>1. ASSUME NEW r \in RoomId, rooms[r] # NoRoom, NEW i \in SlotIndex, rooms[r].playerSlots[i].player # NoPlayer
      PROVE  rooms[r].playerSlots[i].player \in PlayerId
  <2>1. rooms[r] \in Room
    BY <1>1
  <2>2. rooms[r].playerSlots[i] \in Slot
    BY <2>1 DEF Room, Slots
  <2> QED BY <1>1, <2>2 DEF Slot, OpenSlot
<1> QED BY <1>1 DEF IdsOf

LEMMA DeliverStep ==
  ASSUME SessionInv, Careful, NEW c \in Client, Deliver(c)
  PROVE  SessionInv'
<1>0. /\ TypesInv /\ ConnInv /\ MembershipInv /\ ClientTypes /\ ServerTypeOK
      /\ toServer \in [Client -> Seq(ClientMessage)]
      /\ usedIds \in SUBSET (RoomId \cup PlayerId)
  BY TypesOfSession, TypesOfClients DEF SessionInv, MembershipInv
<1> DEFINE m == Head(toServer[c])
<1>1. /\ toServer[c] # << >> /\ toServer' = [toServer EXCEPT ![c] = Tail(toServer[c])]
      /\ ReceivedFromRemote(c, m) /\ NewIdsAreUnused /\ toClient' = Queued(toClient)
      /\ UNCHANGED <<clientVars, left>>
  BY DEF Deliver
<1>2. m \in ClientMessage
  BY <1>0, <1>1, TailOf
<1>3. m.type # "remove_client"
  BY <1>0, <1>1, RequestsTail DEF ConnInv
<1>4. ~RoomGone(c)
  BY <1>0, MembersRoomExists DEF RoomGone, RoomOfClientExists
<1>5. Handle(c, m) /\ c \in sessions
  BY <1>1, <1>4 DEF ReceivedFromRemote
<1>patient. ASSUME ~RepeatedRequests PROVE OneEntryPerClient /\ \A d \in Client : Waits(d)
  BY <1>patient DEF SessionInv, PatientInv
<1> HIDE DEF m
<1>6. ServerTypeOK'
  BY <1>0, <1>2, <1>4, <1>5, HandleTypes
<1>7. MembershipAgrees' /\ NoEmptyRoom'
  <2>1. UNCHANGED <<roomIdByClientId, gameRoomById>> => MembershipAgrees' /\ NoEmptyRoom'
    BY <1>0 DEF MembershipInv, MembershipAgrees, NoEmptyRoom, RoomExists
  <2> QED BY <1>0, <1>2, <1>3, <1>4, <1>5, <2>1, HandleShape, EntersMembership, LeavesMembership, UpdatesMembership
<1>8. \A d \in remoteByClientId : ServerTells(d)
  <2>1. MembershipInv'
    BY <1>6, <1>7 DEF MembershipInv
  <2> QED BY <1>0, <1>2, <1>3, <1>4, <1>5, <2>1, HandleTells
<1>9. \A d \in Client : d \notin remoteByClientId /\ d # c => sent'[d] = << >>
  BY <1>5, OutsideSends
<1>10. UNCHANGED <<remoteByClientId, sessions>>
  BY <1>2, <1>5, HandleStays
<1>11. phase[c] # "off"
  BY <1>0, <1>1 DEF ConnInv
<1>12. ServerMoves(c)
  BY <1>0, <1>1, <1>8, <1>9, <1>10, <1>11 DEF ServerMoves, ConnInv
<1>13. usedIds' \in SUBSET (RoomId \cup PlayerId)
  <2>1. gameRoomById' \in [RoomId -> Room \cup {NoRoom}]
    BY <1>6 DEF ServerTypeOK
  <2>2. IdsOf(gameRoomById') \in SUBSET (RoomId \cup PlayerId)
    BY <2>1, IdsOfType
  <2> QED BY <1>0, <1>1, <2>2 DEF NewIdsAreUnused
<1>14. TypesInv'
  BY <1>0, <1>6, <1>12, <1>13, ServerMovesTypes
<1>15. ASSUME ~RepeatedRequests PROVE OneEntryPerClient' /\ SentOnce' /\ \A d \in Client : MayWait(d)
  <2>1. m.type \in Entry => ~Inside(c)
    <3>1. ASSUME m.type \in Entry PROVE 1 \in Requests(c)
      BY <1>0, <1>1, <3>1, TailOf DEF m, Requests
    <3> QED BY <1>15, <1>patient, <3>1 DEF Waits, Inside
  <2>2. OneEntryPerClient'
    BY <1>0, <1>2, <1>3, <1>4, <1>5, <1>15, <1>patient, <2>1, HandleEntries
  <2>3. SentOnce'
    <3> SUFFICES ASSUME NEW d \in Client PROVE Len(sent'[d]) <= 1
      BY DEF SentOnce
    <3>1. CASE d \in remoteByClientId
      BY <1>0, <1>6, <1>8, <1>15, <1>patient, <2>2, <3>1, TellsOnce
    <3>2. CASE d \notin remoteByClientId
      <4>1. sent'[d] = << >>
        BY <1>0, <1>5, <1>9, <3>2 DEF ConnInv
      <4> QED BY <4>1
    <3> QED BY <3>1, <3>2
  <2>4. ASSUME NEW d \in Client, Requests(d)' # {}
        PROVE  roomIdByClientId'[d] = NoRoom /\ \A j, k \in Requests(d)' : j = k
    <3>0. Waits(d)
      BY <1>15, <1>patient
    <3>1. CASE d # c
      <4>1. Requests(d)' = Requests(d)
        BY <1>0, <1>1, <3>1 DEF Requests
      <4>2. roomIdByClientId'[d] = roomIdByClientId[d]
        BY <1>0, <1>2, <1>3, <1>4, <1>5, <3>1, HandleMoves
      <4> QED BY <2>4, <3>0, <4>1, <4>2 DEF Waits
    <3>2. CASE d = c
      <4>1. Requests(c)' # {} => Requests(c) # {}
        BY <1>0, <1>1, RequestsTail DEF ConnInv, m
      <4>2. (\A j, k \in Requests(c) : j = k) => \A j, k \in Requests(c)' : j = k
        BY <1>0, <1>1, RequestsTail DEF ConnInv, m
      <4>3. (\A j, k \in Requests(c) : j = k) /\ m.type \in Entry => Requests(c)' = {}
        BY <1>0, <1>1, RequestsTail DEF ConnInv, m
      <4>4. Requests(c)' # {}
        BY <2>4, <3>2 DEF Requests
      <4>5. /\ \A j, k \in Requests(c) : j = k
            /\ roomIdByClientId[c] = NoRoom
        BY <1>15, <1>patient, <4>1, <4>4 DEF Waits
      <4>6. m.type \notin Entry
        BY <4>3, <4>4, <4>5
      <4>7. roomIdByClientId'[c] = NoRoom
        BY <1>0, <1>2, <1>3, <1>4, <1>5, <4>5, <4>6, HandleMoves DEF Inside
      <4>8. \A j, k \in Requests(c)' : j = k
        BY <4>2, <4>5
      <4>9. roomIdByClientId'[d] = NoRoom
        BY <3>2, <4>7
      <4>10. Requests(d)' = Requests(c)'
        BY <3>2 DEF Requests
      <4> QED BY <4>8, <4>9, <4>10
    <3> QED BY <3>1, <3>2
  <2> QED BY <2>2, <2>3, <2>4 DEF MayWait
<1> QED BY <1>7, <1>12, <1>14, <1>15, ServerStep

\* The server accepts a connection: the client is outside, and nothing is on its way to it.
LEMMA ConnectStep ==
  ASSUME SessionInv, NEW c \in Client, Connect(c)
  PROVE  SessionInv'
<1>0. /\ TypesInv /\ ConnInv /\ MembershipAgrees /\ NoEmptyRoom /\ ViewInv
      /\ ClientTypes /\ ServerTypeOK /\ left \in [Command -> Nat]
  BY TypesOfSession DEF SessionInv
<1>types. /\ phase \in [Client -> {"off", "connect", "lobby", "game", "lost"}]
          /\ gameRoomClients \in [Client -> SUBSET Member]
          /\ networkSlots \in [Client -> SlotsSeen]
  BY <1>0, TypesOfClients
<1>off. /\ gameRoomId[c] = NoRoom /\ clientId[c] = NoClient
        /\ toServer[c] = << >> /\ toClient[c] = << >>
  BY <1>0 DEF ConnInv, Connect
<1>1. /\ phase' = [phase EXCEPT ![c] = "connect"] /\ phase[c] = "off"
      /\ UNCHANGED <<gameRoomId, clientId, networkSlots, players, listening, gameRoomClients, tetrisGame,
                     toServer, toClient, usedIds>>
      /\ UNCHANGED <<roomIdByClientId, gameRoomById, undefined>>
      /\ remoteByClientId' = remoteByClientId \cup {c} /\ sessions' = sessions \cup {c}
      /\ sent' = NoMessages
      /\ roomIdByClientId[c] = NoRoom
  BY DEF Connect, SpawnCoroutine, FreshClient
<1>2. left' \in [Command -> Nat] /\ left'["again"] = left["again"]
  <2>1. left["connect"] \in Nat /\ left["connect"] > 0 /\ left' = [left EXCEPT !["connect"] = left["connect"] - 1]
    BY <1>0 DEF Connect, Command
  <2>2. "connect" \in Command /\ "again" \in Command
    BY DEF Command
  <2>3. left["connect"] - 1 \in Nat
    BY <2>1
  <2> QED BY <1>0, <2>1, <2>2, <2>3
<1>3. TypesInv'
  <2>1. ServerTypeOK'
    BY <1>0, <1>1, NoMessagesType DEF ServerTypeOK
  <2>2. phase' \in [Client -> {"off", "connect", "lobby", "game", "lost"}]
    BY <1>types, <1>1
  <2>3. NetworkTypeOK' /\ networkSlots' \in [Client -> SlotsSeen]
    BY <1>0, <1>1, <2>2 DEF ClientTypes, NetworkTypeOK
  <2>4. usedIds' \in SUBSET (RoomId \cup PlayerId)
    BY <1>0, <1>1, TypesOfSession
  <2> QED BY <1>2, <2>1, <2>3, <2>4 DEF TypesInv, SessionTypeOK
<1>4. MembershipAgrees' /\ NoEmptyRoom'
  BY <1>0, <1>1 DEF MembershipAgrees, NoEmptyRoom, RoomExists
<1>5. \A d \in Client : phase'[d] = IF d = c THEN "connect" ELSE phase[d]
  BY <1>types, <1>1
<1>sees. SeesRight(c)'
  <2> DEFINE v == [phase |-> "connect", room |-> NoRoom, me |-> NoClient,
                   roster |-> gameRoomClients[c], slots |-> networkSlots[c]]
             h == [k \in 0 .. 0 |-> v]
  <2>1. Seen(c)' = v
    BY <1>off, <1>1, <1>5 DEF Seen
  <2>2. v \in Sight
    BY <1>types DEF Sight
  <2>3. Good(c, v)
    BY <2>2 DEF Good
  <2> HIDE DEF v
  <2>4. Len(toClient'[c]) = 0
    BY <1>off, <1>1
  <2>5. h \in [0 .. 0 -> Sight] /\ h[0] = v /\ \A k \in 0 .. 0 : Good(c, h[k])
    BY <2>2, <2>3
  <2>6. Leads(c, h, Seen(c)', toClient'[c])
    <3>1. \A k \in 1 .. 0 : h[k] = After(h[k - 1], toClient'[c][k])
      OBVIOUS
    <3> HIDE DEF h
    <3> QED BY <2>1, <2>4, <2>5, <3>1 DEF Leads
  <2>7. AgreesWith(c, h[Len(toClient'[c])], roomIdByClientId'[c], gameRoomById')
    <3>1. v.room = NoRoom /\ v.phase = "connect"
      BY DEF v
    <3> QED BY <1>1, <2>4, <2>5, <3>1 DEF AgreesWith
  <2>8. \E x : /\ Leads(c, x, Seen(c)', toClient'[c])
               /\ AgreesWith(c, x[Len(toClient'[c])], roomIdByClientId'[c], gameRoomById')
    BY <2>6, <2>7
  <2> QED BY <2>8 DEF SeesRight, Leads, Good, AgreesWith
<1>6. ViewInv'
  <2> SUFFICES ASSUME NEW d \in Client, Running(d)' PROVE SeesRight(d)'
    BY DEF ViewInv
  <2>1. CASE d = c
    BY <1>sees, <2>1
  <2>2. CASE d # c
    <3>1. Running(d) /\ Seen(d)' = Seen(d) /\ toClient'[d] = toClient[d]
      BY <1>1, <1>5, <2>2 DEF Running, Seen
    <3> QED BY <1>0, <1>1, <3>1, SightStays DEF ViewInv
  <2> QED BY <2>1, <2>2
<1>7. ConnInv'
  <2>1. sessions' \subseteq remoteByClientId'
    BY <1>0, <1>1 DEF ConnInv
  <2>2. ASSUME NEW d \in Client
        PROVE  /\ phase'[d] = "off" =>
                    /\ gameRoomId'[d] = NoRoom /\ clientId'[d] = NoClient
                    /\ toServer'[d] = << >> /\ toClient'[d] = << >>
                    /\ d \notin remoteByClientId'
               /\ Running(d)' => d \in remoteByClientId'
               /\ clientId'[d] \in {NoClient, d}
               /\ \A k \in 1 .. Len(toServer'[d]) : toServer'[d][k].type # "remove_client"
    <3>1. Running(d)' => d \in remoteByClientId'
      BY <1>0, <1>1, <1>5 DEF ConnInv, Running
    <3> QED BY <1>0, <1>1, <1>5, <3>1 DEF ConnInv
  <2> QED BY <2>1, <2>2 DEF ConnInv
<1>8. ASSUME ~RepeatedRequests PROVE PatientInv'
  <2>0. left'["again"] = 0 /\ OneEntryPerClient /\ \A d \in Client : Waits(d)
    BY <1>2, <1>8 DEF SessionInv, PatientInv
  <2>1. OneEntryPerClient'
    BY <1>1, <2>0 DEF OneEntryPerClient, RoomExists
  <2>2. SentOnce'
    BY <1>1 DEF SentOnce, NoMessages
  <2>3. ASSUME NEW d \in Client PROVE Waits(d)'
    BY <1>1, <2>0, WaitsOn DEF Requests, NoAnswer
  <2> QED BY <2>0, <2>1, <2>2, <2>3 DEF PatientInv
<1>9. (~RepeatedRequests => PatientInv)'
  BY <1>8
<1> QED BY <1>3, <1>4, <1>6, <1>7, <1>9 DEF SessionInv

\* The server gives up a session.  What it still sends the client goes nowhere.
LEMMA OverStep ==
  ASSUME SessionInv, Careful, NEW c \in Client, SessionOver(c)
  PROVE  SessionInv'
<1>0. /\ TypesInv /\ ConnInv /\ MembershipInv /\ ServerTypeOK
  BY TypesOfSession DEF SessionInv, MembershipInv
<1>patient. ASSUME ~RepeatedRequests PROVE OneEntryPerClient /\ \A d \in Client : Waits(d)
  BY <1>patient DEF SessionInv, PatientInv
<1>1. /\ phase[c] = "lost" /\ toClient' = Queued(toClient)
      /\ UNCHANGED <<clientVars, toServer, left, usedIds>>
      /\ SessionFails(c) \/ SessionEnds(c)
  BY DEF SessionOver
<1>2. ServerTypeOK' /\ MembershipAgrees' /\ NoEmptyRoom'
  <2>1. CASE SessionFails(c)
    BY <1>0, <2>1, NoMessagesType
       DEF SessionFails, ServerTypeOK, MembershipInv, MembershipAgrees, NoEmptyRoom, RoomExists
  <2>2. CASE SessionEnds(c)
    <3>1. OneEntryPerClient
      BY <1>patient, <2>2 DEF Careful, SessionEnds
    <3> QED BY <1>0, <2>2, <3>1, SessionEndsType, EndsMembership
  <2> QED BY <1>1, <2>1, <2>2
<1>3. ASSUME NEW d \in remoteByClientId, d # c PROVE ServerTells(d)
  <2>0. d \in Client /\ ServerMessage # {}
    BY <1>0, MessagesOfRooms DEF ServerTypeOK
  <2>1. CASE SessionFails(c)
    <3>1. sent'[d] = << >> /\ UNCHANGED <<roomIdByClientId, gameRoomById>>
      BY <2>0, <2>1 DEF SessionFails, NoMessages
    <3> QED BY <2>0, <3>1, TellsNothing
  <2>2. CASE SessionEnds(c)
    <3>1. OneEntryPerClient
      BY <1>patient, <2>2 DEF Careful, SessionEnds
    <3> QED BY <1>0, <1>3, <2>2, <3>1, EndsTell
  <2> QED BY <1>1, <2>1, <2>2
<1>shape. \/ sent' = NoMessages /\ UNCHANGED <<roomIdByClientId, gameRoomById>>
          \/ SessionEnds(c) /\ \E r \in RoomId : \E gone : EndsIn(c, r, gone)
  <2>1. CASE SessionFails(c)
    BY <2>1 DEF SessionFails
  <2>2. CASE SessionEnds(c)
    <3>1. OneEntryPerClient
      BY <1>patient, <2>2 DEF Careful, SessionEnds
    <3> QED BY <1>0, <2>2, <3>1, EndShape
  <2> QED BY <1>1, <2>1, <2>2
<1>4. \A d \in Client : d \notin remoteByClientId \/ d = c => sent'[d] = << >>
  <2> SUFFICES ASSUME NEW d \in Client, d \notin remoteByClientId \/ d = c PROVE sent'[d] = << >>
    OBVIOUS
  <2>1. NoMessages[d] = << >>
    BY DEF NoMessages
  <2>2. ASSUME NEW r \in RoomId, NEW gone, EndsIn(c, r, gone) PROVE sent'[d] = << >>
    <3>1. CASE sent' = NoMessages
      BY <2>1, <3>1
    <3>2. CASE /\ gone \in Room /\ sent' = SendToAllClients(gone, ClientRemoved(c))
               /\ gone.connectedClients = {e \in gameRoomById[r].connectedClients : e.client # c}
      <4>1. d = c => EntriesOf(gone, d) = {}
        BY <3>2 DEF EntriesOf
      <4>2. CASE d \notin remoteByClientId
        BY <3>2, <4>2 DEF SendToAllClients
      <4>3. CASE d = c
        <5>1. Cardinality(EntriesOf(gone, d)) = 0
          BY <4>1, <4>3, FS_EmptySet
        <5>2. [i \in 1 .. 0 |-> ClientRemoved(c)] = << >>
          OBVIOUS
        <5> QED BY <3>2, <5>1, <5>2 DEF SendToAllClients
      <4> QED BY <4>2, <4>3
    <3> QED BY <2>2, <3>1, <3>2 DEF EndsIn
  <2> QED BY <1>shape, <2>1, <2>2
<1>5. \A d \in Client : roomIdByClientId'[d] = roomIdByClientId[d] \/ roomIdByClientId'[d] = NoRoom
  BY <1>0, <1>shape DEF EndsIn, ServerTypeOK
<1>6. /\ sessions' = sessions \ {c}
      /\ remoteByClientId' = remoteByClientId \/ remoteByClientId' = remoteByClientId \ {c}
  BY <1>1 DEF SessionFails, SessionEnds
<1>7. ServerMoves(c)
  <2>1. sessions' \subseteq remoteByClientId'
    BY <1>0, <1>6 DEF ConnInv
  <2>2. \A d \in Client : d # c \/ phase[d] # "lost" => (d \in remoteByClientId' <=> d \in remoteByClientId)
    BY <1>1, <1>6
  <2>3. \A d \in remoteByClientId : d # c \/ phase[d] # "lost" => ServerTells(d)
    BY <1>1, <1>3
  <2>4. \A d \in Client : d \notin remoteByClientId /\ d # c => sent'[d] = << >>
    BY <1>4
  <2> QED BY <1>1, <1>6, <2>1, <2>2, <2>3, <2>4 DEF ServerMoves
<1>8. TypesInv'
  <2>1. usedIds' \in SUBSET (RoomId \cup PlayerId)
    BY <1>0, <1>1, TypesOfSession
  <2> QED BY <1>0, <1>2, <1>7, <2>1, ServerMovesTypes
<1>9. ASSUME ~RepeatedRequests PROVE OneEntryPerClient' /\ SentOnce' /\ \A d \in Client : MayWait(d)
  <2>1. OneEntryPerClient'
    <3>1. CASE UNCHANGED gameRoomById
      BY <1>9, <1>patient, <3>1 DEF OneEntryPerClient, RoomExists
    <3>2. CASE SessionEnds(c)
      BY <1>0, <1>9, <1>patient, <3>2, EndsMembership
    <3> QED BY <1>shape, <3>1, <3>2
  <2>2. SentOnce'
    <3> SUFFICES ASSUME NEW d \in Client PROVE Len(sent'[d]) <= 1
      BY DEF SentOnce
    <3>1. CASE d \in remoteByClientId /\ d # c
      BY <1>0, <1>2, <1>3, <1>9, <1>patient, <2>1, <3>1, TellsOnce
    <3>2. CASE d \notin remoteByClientId \/ d = c
      <4>1. sent'[d] = << >>
        BY <1>4, <3>2
      <4> QED BY <4>1
    <3> QED BY <3>1, <3>2
  <2>3. ASSUME NEW d \in Client PROVE MayWait(d)
    <3>1. Requests(d)' = Requests(d)
      BY <1>1 DEF Requests
    <3>2. Waits(d)
      BY <1>9, <1>patient
    <3> QED BY <1>5, <3>1, <3>2 DEF MayWait, Waits
  <2> QED BY <2>1, <2>2, <2>3
<1> QED BY <1>2, <1>7, <1>8, <1>9, ServerStep

-----------------------------------------------------------------------------
(* The theorems of agreement *)

LEMMA SessionStarts == SessionInit => SessionInv
<1> SUFFICES ASSUME SessionInit PROVE SessionInv
  OBVIOUS
<1>1. ServerTypeOK /\ MembershipAgrees /\ NoEmptyRoom /\ OneEntryPerClient /\ SentOnce
  <2>1. /\ roomIdByClientId = [c \in Client |-> NoRoom] /\ gameRoomById = [r \in RoomId |-> NoRoom]
        /\ remoteByClientId = {} /\ sessions = {} /\ undefined = FALSE /\ sent = NoMessages
    BY DEF SessionInit, Init
  <2>2. ServerTypeOK
    BY <2>1, NoMessagesType DEF ServerTypeOK
  <2>3. \A r \in RoomId : ~RoomExists(r)
    BY <2>1 DEF RoomExists
  <2>4. MembershipAgrees /\ NoEmptyRoom /\ OneEntryPerClient
    BY <2>1, <2>3, NoIdAssumption DEF MembershipAgrees, NoEmptyRoom, OneEntryPerClient
  <2>5. SentOnce
    BY <2>1 DEF SentOnce, NoMessages
  <2> QED BY <2>2, <2>4, <2>5
<1>2. NetworkTypeOK /\ networkSlots \in [Client -> SlotsSeen]
  <2>1. /\ phase \in [Client -> {"off", "connect", "lobby", "game", "lost"}]
        /\ gameRoomId \in [Client -> RoomId \cup {NoRoom}]
        /\ clientId \in [Client -> Client \cup {NoClient}]
        /\ networkSlots \in [Client -> SlotsSeen]
        /\ \A c \in Client : networkSlots[c] = << >>
    BY DEF SessionInit, NetworkInit, SlotsSeen
  <2>2. /\ players \in [Client -> Seq(Player)]
        /\ listening \in [Client -> BOOLEAN]
        /\ gameRoomClients \in [Client -> SUBSET Member]
        /\ toServer \in [Client -> Seq(ClientMessage)]
        /\ toClient \in [Client -> Seq(ServerMessage)]
    BY DEF SessionInit, NetworkInit
  <2>3. tetrisGame \in [Client -> Game]
    BY FirstGameType DEF SessionInit, NetworkInit
  <2> QED BY <2>1, <2>2, <2>3 DEF NetworkTypeOK
<1>3. left \in [Command -> Nat] /\ (~RepeatedRequests => left["again"] = 0)
  BY BudgetAssumption DEF SessionInit
<1>4. TypesInv
  BY <1>1, <1>2, <1>3 DEF TypesInv, SessionTypeOK, SessionInit
<1>5. \A c \in Client : /\ phase[c] = "off" /\ gameRoomId[c] = NoRoom /\ clientId[c] = NoClient
                        /\ toServer[c] = << >> /\ toClient[c] = << >>
  BY DEF SessionInit, NetworkInit
<1>6. ConnInv
  BY <1>5 DEF SessionInit, Init, ConnInv, Running
<1>7. ViewInv
  BY <1>5 DEF ViewInv, Running
<1>8. \A c \in Client : Waits(c)
  BY <1>5 DEF Waits, Requests
<1> QED BY <1>1, <1>3, <1>4, <1>6, <1>7, <1>8 DEF SessionInv, PatientInv

LEMMA SessionStands ==
  ASSUME SessionInv, UNCHANGED sessionVars
  PROVE  SessionInv'
<1>0. /\ TypesInv /\ ConnInv /\ MembershipAgrees /\ NoEmptyRoom /\ ViewInv /\ ClientTypes
      /\ left \in [Command -> Nat]
  BY TypesOfSession DEF SessionInv
<1>1. /\ UNCHANGED <<vars, usedIds, left, toServer, toClient>>
      /\ UNCHANGED <<phase, gameRoomId, clientId, networkSlots, players, listening, gameRoomClients, tetrisGame>>
  BY DEF sessionVars, networkVars, clientVars
<1>2. ClientTypes'
  BY <1>0, <1>1 DEF ClientTypes, NetworkTypeOK
<1>3. TypesInv' /\ MembershipAgrees' /\ NoEmptyRoom'
  BY <1>0, <1>1, <1>2, ServerStands
<1>4. /\ UNCHANGED <<roomIdByClientId, gameRoomById, remoteByClientId, sessions>>
      /\ \A c \in Client : Seen(c)' = Seen(c) /\ (Running(c)' <=> Running(c))
  BY <1>1 DEF vars, Seen, Running
<1>5. ViewInv'
  BY <1>0, <1>1, <1>4, SightStays DEF ViewInv
<1>6. ConnInv'
  BY <1>0, <1>1, <1>4 DEF ConnInv
<1>7. ASSUME ~RepeatedRequests PROVE PatientInv'
  <2>1. \A c \in Client : Waits(c)
    BY <1>7 DEF SessionInv, PatientInv
  <2>2. \A c \in Client : Waits(c)'
    BY <1>1, <1>4, <2>1, WaitsOn DEF Requests, NoAnswer
  <2> QED BY <1>1, <1>7, <2>2, ListsStay DEF PatientInv
<1>8. (~RepeatedRequests => PatientInv)'
  BY <1>7
<1> QED BY <1>3, <1>5, <1>6, <1>8 DEF SessionInv

LEMMA SessionSteps ==
  ASSUME Careful, SessionInv, [SessionNext]_sessionVars
  PROVE  SessionInv'
<1>1. ASSUME NEW c \in Client, UserCommand(c) PROVE SessionInv'
  <2>1. CASE ~LoseConnection(c)
    BY <1>1, <2>1, UserStep
  <2>2. CASE LoseConnection(c)
    <3>1. left \in [Command -> Nat]
      BY TypesOfSession DEF SessionInv
    <3>2. left' \in [Command -> Nat] /\ left'["again"] = left["again"] /\ UNCHANGED <<vars, usedIds>>
      BY <1>1, <3>1, Budget
    <3> QED BY <2>2, <3>2, LoseStep
  <2> QED BY <2>1, <2>2
<1>2. CASE SessionNext
  BY <1>1, <1>2, ConnectStep, DeliverStep, ReceiveStep, FrameStep, OverStep DEF SessionNext
<1>3. CASE UNCHANGED sessionVars
  BY <1>3, SessionStands
<1> QED BY <1>2, <1>3

LEMMA SessionInvHolds ==
  ASSUME Careful
  PROVE  SessionSpec => []SessionInv
<1>1. SessionInv /\ [SessionNext]_sessionVars => SessionInv'
  BY SessionSteps
<1> QED BY <1>1, SessionStarts, PTL DEF SessionSpec

\* What a client sees when nothing is on its way to it.
LEMMA QuietSees ==
  ASSUME SessionInv, NEW c \in Client, Quiet(c)
  PROVE  Good(c, Seen(c)) /\ AgreesWith(c, Seen(c), roomIdByClientId[c], gameRoomById)
<1>1. SeesRight(c) /\ toClient[c] = << >>
  BY DEF SessionInv, ViewInv, Quiet
<1>2. PICK h : /\ Leads(c, h, Seen(c), toClient[c])
               /\ AgreesWith(c, h[Len(toClient[c])], roomIdByClientId[c], gameRoomById)
  BY <1>1 DEF SeesRight
<1>3. Len(toClient[c]) = 0 /\ 0 \in 0 .. 0
  BY <1>1
<1> QED BY <1>2, <1>3 DEF Leads

\* Whatever crosses on its way, a client and the server agree on the room the client is in once
\* nothing is under way between them, and a client takes no other id for its own: for any number of
\* clients, messages and rooms.  That the server closes the sessions of lost connections is assumed
\* only of clients that wait for the answer to a create or join.
THEOREM RoomAgrees ==
  ASSUME Careful
  PROVE  SessionSpec => []RoomAgreesWhenQuiet
<1>1. SessionInv => RoomAgreesWhenQuiet
  <2> SUFFICES ASSUME SessionInv PROVE RoomAgreesWhenQuiet
    OBVIOUS
  <2>1. SessionTypeOK /\ \A c \in Client : clientId[c] \in {NoClient, c}
    BY DEF SessionInv, TypesInv, ConnInv
  <2>2. ASSUME NEW c \in Client, Quiet(c) PROVE gameRoomId[c] = roomIdByClientId[c]
    BY <2>2, QuietSees DEF AgreesWith, Seen
  <2> QED BY <2>1, <2>2 DEF RoomAgreesWhenQuiet
<1> QED BY <1>1, SessionInvHolds, PTL

\* In the lobby, the roster and the slots shown are those of the room once nothing is under way to
\* the client: with the exception handling as it is in the code, where a lost connection changes
\* neither, so that every change of either is told.
THEOREM LobbyAgrees ==
  ASSUME RethrowAsSystemError = FALSE
  PROVE  SessionSpec => []LobbyAgreesWhenQuiet
<1>1. Careful
  BY DEF Careful
<1>2. SessionInv => LobbyAgreesWhenQuiet
  <2> SUFFICES ASSUME SessionInv, NEW c \in Client, Quiet(c), phase[c] = "lobby"
               PROVE  /\ gameRoomClients[c] = gameRoomById[gameRoomId[c]].connectedClients
                      /\ networkSlots[c] = View(c, gameRoomById[gameRoomId[c]].playerSlots)
    BY DEF LobbyAgreesWhenQuiet
  <2> QED BY QuietSees DEF AgreesWith, Seen
<1> QED BY <1>1, <1>2, SessionInvHolds, PTL

\* While clients come, leave and vanish at any moment, nobody is inside a room that is gone, the map
\* and the lists of the server say the same, no room stays behind empty, and clients that wait for
\* the answer to a create or join are sent each message once: however sessions end.
THEOREM ServerRecordsAreRight ==
  ASSUME RepeatedRequests = FALSE
  PROVE  SessionSpec => []ServerRecordsAgree
<1>1. Careful
  BY DEF Careful
<1>2. SessionInv => ServerRecordsAgree
  <2> SUFFICES ASSUME SessionInv PROVE ServerRecordsAgree
    OBVIOUS
  <2>1. MembershipAgrees /\ NoEmptyRoom /\ SentOnce
    BY DEF SessionInv, PatientInv
  <2>2. RoomOfClientExists
    BY <2>1, TypesOfSession, MembersRoomExists DEF SessionInv, MembershipInv
  <2> QED BY <2>1, <2>2 DEF ServerRecordsAgree
<1> QED BY <1>1, <1>2, SessionInvHolds, PTL

\* What happens at the server is what ServerCore assumes of it: the messages of real clients, under
\* way at any time, never include a kick, and patient clients ask to enter only when they are outside.
LEMMA ServerMayReceive ==
  ASSUME SessionInv, NEW c \in Client, Deliver(c)
  PROVE  Receive(c)
<1> DEFINE m == Head(toServer[c])
<1>0. /\ toServer \in [Client -> Seq(ClientMessage)] /\ ConnInv
  BY TypesOfSession, TypesOfClients DEF SessionInv
<1>1. toServer[c] # << >> /\ ReceivedFromRemote(c, m)
  BY DEF Deliver
<1>2. m \in ClientMessage /\ m = toServer[c][1] /\ 1 \in 1 .. Len(toServer[c])
  BY <1>0, <1>1, TailOf
<1>3. m.type # "remove_client"
  BY <1>0, <1>2 DEF ConnInv
<1>4. m.type \in Entry => RepeatedRequests \/ ~Inside(c)
  <2> SUFFICES ASSUME m.type \in Entry, ~RepeatedRequests PROVE ~Inside(c)
    OBVIOUS
  <2>1. 1 \in Requests(c)
    BY <1>2 DEF Requests
  <2> QED BY <2>1 DEF SessionInv, PatientInv, Waits, Inside
<1>5. MaySend(c, m)
  BY <1>3, <1>4 DEF MaySend, Entry
<1> HIDE DEF m
<1> QED BY <1>1, <1>2, <1>5 DEF Receive

\* The server with real clients is a behaviour of ServerCore: so what is proved of ServerCore for
\* clients that send anything at any time holds of the session.
THEOREM SessionUsesServer ==
  ASSUME Careful
  PROVE  SessionSpec => ServerSpec
<1>1. SessionInit => Init
  BY DEF SessionInit
<1>2. SessionInv /\ [SessionNext]_sessionVars => [Next]_vars
  <2> SUFFICES ASSUME SessionInv, [SessionNext]_sessionVars PROVE [Next]_vars
    OBVIOUS
  <2>1. ASSUME NEW c \in Client, Connect(c) PROVE Next
    BY <2>1 DEF Connect, Next
  <2>2. ASSUME NEW c \in Client, UserCommand(c) PROVE UNCHANGED vars
    BY <2>2, TypesOfSession, Budget DEF SessionInv
  <2>3. ASSUME NEW c \in Client, Deliver(c) PROVE Next
    BY <2>3, ServerMayReceive DEF Next
  <2>4. ASSUME NEW c \in Client, ClientReceives(c) \/ Frame(c) PROVE UNCHANGED vars
    BY <2>4 DEF ClientReceives, Frame
  <2>5. ASSUME NEW c \in Client, SessionOver(c) PROVE Next
    BY <2>5 DEF SessionOver, Next
  <2>6. CASE UNCHANGED sessionVars
    BY <2>6 DEF sessionVars
  <2> QED BY <2>1, <2>2, <2>3, <2>4, <2>5, <2>6 DEF SessionNext
<1> QED BY <1>1, <1>2, SessionInvHolds, PTL DEF SessionSpec, ServerSpec, Spec

-----------------------------------------------------------------------------
(* The game of a room                                                      *)
(*                                                                         *)
(* From here on: that copies follow their boards.  A change of a board goes *)
(* from its owner through the queue to the server, and from there through   *)
(* the queues of the others.  The invariant says of each copy which number  *)
(* of changes it has, how the messages on their way to it count on from     *)
(* there (Hearing), and how those on their way to the server count on from  *)
(* that to the board of the owner (Saying), until somebody leaves.          *)

\* The players of c are those of the slots, in their order, and its own are steered by it.
SeatsOf(c, slots, n) ==
  /\ Len(players[c]) = n
  /\ \A k \in 1 .. n :
       /\ players[c][k].player = slots[k - 1].player
       /\ players[c][k].client = slots[k - 1].client
       /\ players[c][k].local <=> slots[k - 1].client = c
       /\ players[c][k].index = k

\* Who sees the slots as they are makes of them the players they stand for.
LEMMA SeatsMade ==
  ASSUME NEW c \in Client, NEW slots, NEW n, TakenInOrder(slots, n),
         networkSlots[c] = View(c, slots), clientId[c] = c
  PROVE  /\ Len(PlayersOf(c, slots)) = n
         /\ \A k \in 1 .. n :
              /\ PlayersOf(c, slots)[k].player = slots[k - 1].player
              /\ PlayersOf(c, slots)[k].client = slots[k - 1].client
              /\ PlayersOf(c, slots)[k].local <=> slots[k - 1].client = c
              /\ PlayersOf(c, slots)[k].index = k
              /\ PlayersOf(c, slots)[k].board = << >>
<1>0. slots \in Slots /\ n \in 0 .. NumSlots /\ n \in Nat /\ NumSlots \in Nat
  BY SizeAssumption DEF TakenInOrder
<1> DEFINE all == [k \in 1 .. NumSlots |-> slots[k - 1]]
           tp == Taken(slots)
           paired == [k \in DOMAIN tp |-> [tp |-> tp[k], view |-> networkSlots[c][k - 1]]]
           X == [tp : Slot, view : {"Local", "Remote"}]
           made == SelectIn(paired, X)
<1>1. /\ all \in Seq(Slot) /\ Len(all) = NumSlots
      /\ \A k \in 1 .. NumSlots : all[k] = slots[k - 1] /\ all[k] \in Slot /\ (all[k] \in Slot \ {OpenSlot} <=> k <= n)
  <2>1. \A k \in 1 .. NumSlots : k - 1 \in SlotIndex /\ (k - 1 < n <=> k <= n)
    BY <1>0 DEF SlotIndex
  <2>2. \A k \in 1 .. NumSlots : slots[k - 1] \in Slot
    BY <1>0, <2>1 DEF Slots
  <2>3. all \in Seq(Slot) /\ Len(all) = NumSlots
    BY <1>0, <2>2
  <2>4. \A k \in 1 .. NumSlots : slots[k - 1] # OpenSlot <=> k <= n
    BY <2>1 DEF TakenInOrder
  <2> QED BY <2>2, <2>3, <2>4
<1>2. tp = [k \in 1 .. n |-> all[k]]
  <2>1. n \in 0 .. Len(all)
    BY <1>0, <1>1
  <2>2. tp = SelectIn(all, Slot \ {OpenSlot})
    BY DEF Taken
  <2>3. \A k \in 1 .. Len(all) : all[k] \in Slot \ {OpenSlot} <=> k <= n
    BY <1>1
  <2> HIDE DEF tp, all
  <2> QED BY <1>1, <2>1, <2>2, <2>3, SelectBeginning
<1>3. \A k \in 1 .. n : k \in 1 .. NumSlots /\ k - 1 \in SlotIndex /\ tp[k] = slots[k - 1] /\ slots[k - 1] \in Slot \ {OpenSlot}
  <2>1. \A k \in 1 .. n : k \in 1 .. NumSlots /\ k - 1 \in SlotIndex /\ k <= n
    BY <1>0 DEF SlotIndex
  <2> HIDE DEF tp, all
  <2> QED BY <1>1, <1>2, <2>1
<1>4. \A k \in 1 .. n : networkSlots[c][k - 1] = IF slots[k - 1].client = c THEN "Local" ELSE "Remote"
  <2>1. DOMAIN slots = SlotIndex
    BY <1>0 DEF Slots
  <2>2. \A k \in 1 .. n : slots[k - 1].type # "Open"
    BY <1>3 DEF Slot
  <2> QED BY <1>3, <2>1, <2>2 DEF View
<1> HIDE DEF tp, all
<1>5. /\ paired \in Seq(X) /\ Len(paired) = n
      /\ \A k \in 1 .. n : paired[k] = [tp |-> slots[k - 1], view |-> networkSlots[c][k - 1]] /\ paired[k] \in X
  <2>1. DOMAIN tp = 1 .. n
    BY <1>2
  <2>2. \A k \in 1 .. n : paired[k] = [tp |-> slots[k - 1], view |-> networkSlots[c][k - 1]]
    BY <1>3, <2>1
  <2>3. ASSUME NEW k \in 1 .. n PROVE paired[k] \in X
    <3>1. networkSlots[c][k - 1] \in {"Local", "Remote"}
      BY <1>4
    <3>2. slots[k - 1] \in Slot
      BY <1>3
    <3>3. [tp |-> slots[k - 1], view |-> networkSlots[c][k - 1]] \in X
      BY <3>1, <3>2
    <3> HIDE DEF paired, X
    <3> QED BY <2>2, <3>3
  <2> HIDE DEF X
  <2>4. paired \in Seq(X) /\ Len(paired) = n
    BY <1>0, <2>1, <2>3
  <2> QED BY <2>2, <2>3, <2>4
<1>6. made = [k \in 1 .. n |-> paired[k]]
  <2>1. n \in 0 .. Len(paired) /\ \A k \in 1 .. Len(paired) : paired[k] \in X <=> k <= n
    BY <1>0, <1>5
  <2> HIDE DEF X, paired
  <2> QED BY <1>5, <2>1, SelectBeginning
<1>7. PlayersOf(c, slots) = [k \in DOMAIN made |->
         [player |-> made[k].tp.player,
          client |-> IF made[k].view = "Local" THEN clientId[c] ELSE made[k].tp.client,
          local  |-> made[k].view = "Local",
          board  |-> << >>,
          index  |-> k]]
  BY DEF PlayersOf, tp
<1>8. DOMAIN made = 1 .. n /\ \A k \in 1 .. n : made[k] = [tp |-> slots[k - 1], view |-> networkSlots[c][k - 1]]
  <2> HIDE DEF paired, made
  <2> QED BY <1>5, <1>6
<1> HIDE DEF made, paired
<1>9. PlayersOf(c, slots) = [k \in 1 .. n |->
         [player |-> slots[k - 1].player,
          client |-> IF networkSlots[c][k - 1] = "Local" THEN c ELSE slots[k - 1].client,
          local  |-> networkSlots[c][k - 1] = "Local",
          board  |-> << >>,
          index  |-> k]]
  BY <1>7, <1>8
<1>10. Len(PlayersOf(c, slots)) = n
  BY <1>0, <1>9
<1>11. ASSUME NEW k \in 1 .. n
       PROVE  /\ PlayersOf(c, slots)[k].player = slots[k - 1].player
              /\ PlayersOf(c, slots)[k].client = slots[k - 1].client
              /\ PlayersOf(c, slots)[k].local <=> slots[k - 1].client = c
              /\ PlayersOf(c, slots)[k].index = k
              /\ PlayersOf(c, slots)[k].board = << >>
  <2> DEFINE one == [player |-> slots[k - 1].player,
                     client |-> IF networkSlots[c][k - 1] = "Local" THEN c ELSE slots[k - 1].client,
                     local  |-> networkSlots[c][k - 1] = "Local",
                     board  |-> << >>,
                     index  |-> k]
  <2>1. PlayersOf(c, slots)[k] = one
    BY <1>9
  <2>2. /\ one.player = slots[k - 1].player /\ one.index = k /\ one.board = << >>
        /\ one.local = (networkSlots[c][k - 1] = "Local")
        /\ one.client = IF networkSlots[c][k - 1] = "Local" THEN c ELSE slots[k - 1].client
    OBVIOUS
  <2>3. networkSlots[c][k - 1] = "Local" <=> slots[k - 1].client = c
    BY <1>4
  <2> HIDE DEF one
  <2> QED BY <2>1, <2>2, <2>3
<1> QED BY <1>10, <1>11

-----------------------------------------------------------------------------
(* How a copy follows its board *)

\* What tells of a change of a board.
Changes == BoardKind \cup {"game_restart"}

ChangeOf(m) == IF m.type = "game_restart" THEN Restart(m.blocks) ELSE [type |-> m.type, value |-> m.value]

\* After v changes of board, change is the next.
IsNext(board, v, change) == v + 1 <= Len(board) /\ board[v + 1] = change

\* What d knows of the board of a slot: so many changes, or that it will hear no more (-1), or nothing
\* for it is in no game (-2).
Known == {v \in Int : v >= -2}

IsAbout(m, slot) ==
  \/ m.type \in BoardKind /\ m.player = slot.player
  \/ m.type = "game_restart" /\ m.client = slot.client

Leaves(m, d) == m.type = "leave_game_room" /\ m.client = d

Hears(d, slot, board, v, m, w) ==
  \/ v = -2 /\ m.type = "create_game" /\ w = 0
  \/ v = -2 /\ m.type # "create_game" /\ w = -2
  \/ v = -1 /\ w = -1
  \/ v >= 0 /\ Leaves(m, d) /\ w = -1
  \/ v >= 0 /\ ~Leaves(m, d) /\ IsAbout(m, slot) /\ IsNext(board, v, ChangeOf(m)) /\ w = v + 1
  \/ v >= 0 /\ ~Leaves(m, d) /\ ~IsAbout(m, slot) /\ w = v

Hearing(d, slot, board) ==
  {t \in Known \X ServerMessage \X Known : Hears(d, slot, board, t[1], t[2], t[3])}

\* What the server has been told of the board of a slot by its owner, until it leaves (-1).
Said == {v \in Int : v >= -1}

IsSaid(m, slot) ==
  \/ m.type \in BoardKind /\ m.player = slot.player
  \/ m.type = "game_restart"

Says(slot, board, v, m, w) ==
  \/ v = -1 /\ w = -1
  \/ v >= 0 /\ m.type = "leave_game_room" /\ w = -1
  \/ v >= 0 /\ m.type # "leave_game_room" /\ IsSaid(m, slot) /\ IsNext(board, v, ChangeOf(m)) /\ w = v + 1
  \/ v >= 0 /\ m.type # "leave_game_room" /\ ~IsSaid(m, slot) /\ w = v

Saying(slot, board) ==
  {t \in Said \X ClientMessage \X Said : Says(slot, board, t[1], t[2], t[3])}

\* How the view of c changes; the game is created when c is in the lobby and sees the slots as they are.
Views(c, slots) ==
  {t \in Sight \X ServerMessage \X Sight :
     /\ t[3] = After(t[1], t[2])
     /\ t[2].type = "create_game" => /\ t[2].slots = slots
                                     /\ t[1].phase = "lobby" /\ t[1].slots = View(c, slots)}

\* c plays, or will, and nothing under way ends that.
Stays(c, slots) == \E last : Linked(Seen(c), toClient[c], last, Views(c, slots)) /\ last.phase = "game"

\* c tells nobody what becomes of its boards, and will not.
Silent(c) == ~listening[c] /\ phase[c] # "game" /\ NoneOf(toClient[c], {"create_game"})

\* The k-th board at its owner.
Own(c, k) == IF players[c] = << >> THEN << >> ELSE players[c][k].board

Heard(d, k) == IF phase[d] = "game" THEN Len(players[d][k].board) ELSE -2

\* d has the beginning of board, and will know v changes of it.
KnowsOf(d, k, slot, board, v) ==
  /\ phase[d] = "game" => StartsWith(board, players[d][k].board)
  /\ Linked(Heard(d, k), toClient[d], v, Hearing(d, slot, board))

\* The owner c of a board of which all have been told v changes: it is not in room r, or back and silent,
\* or the rest is on its way until it leaves.
Owns(c, slot, board, v, slots, r) ==
  \/ roomIdByClientId[c] # r
  \/ NoneOf(toServer[c], Changes) /\ Silent(c)
  \/ \E w \in Said : /\ Linked(v, toServer[c], w, Saying(slot, board))
                     /\ w = -1 \/ phase[c] = "lost" \/ (w = Len(board) /\ Stays(c, slots))

\* The copy that d has, or will have, of the k-th board.
Follows(d, k, slots, r) ==
  LET slot == slots[k - 1]
      c    == slot.client
  IN  c # d => \E v \in Known : /\ KnowsOf(d, k, slot, Own(c, k), v)
                                /\ v >= 0 => /\ roomIdByClientId[d] = r
                                             /\ Owns(c, slot, Own(c, k), v, slots, r)

\* What c has of the game.
Seated(c, slots, n) ==
  /\ players[c] = << >> \/ SeatsOf(c, slots, n)
  /\ phase[c] = "game" => SeatsOf(c, slots, n) /\ listening[c]
  /\ \A j, k \in 1 .. Len(toClient[c]) :
       toClient[c][j].type = "create_game" /\ toClient[c][k].type = "create_game" => j = k
  /\ ~NoneOf(toClient[c], {"create_game"}) => players[c] = << >> /\ ~listening[c] /\ phase[c] # "game"
  /\ Running(c) => \E last : Linked(Seen(c), toClient[c], last, Views(c, slots))

\* What c sends: it tells of its own boards, and of none after it asked to join a room.
TellsOfItsOwn(c, slots, n) ==
  /\ \A j, k \in 1 .. Len(toServer[c]) :
       j < k /\ toServer[c][j].type = "join_game_room" => toServer[c][k].type \notin Changes
  /\ ~NoneOf(toServer[c], {"join_game_room"}) => Silent(c)
  /\ \A j \in 1 .. Len(toServer[c]) : toServer[c][j].type \in BoardKind =>
       \E k \in 1 .. n : slots[k - 1].client = c /\ toServer[c][j].player = slots[k - 1].player
  /\ NoneOf(toServer[c], {"start_game"})

\* The one game, of room r.
GameOn(slots, n, r) ==
  /\ TakenInOrder(slots, n) /\ DistinctPlayers(slots)
  /\ r \in RoomId /\ r \in usedIds
  /\ left["start"] = 0
  /\ \A c \in Client : Seated(c, slots, n) /\ TellsOfItsOwn(c, slots, n)
  /\ \A d \in Client, k \in 1 .. n : Follows(d, k, slots, r)

\* What it means that a triple belongs to what is heard, ...
LEMMA HearingIs ==
  ASSUME NEW d, NEW slot, NEW board, NEW v \in Known, NEW m \in ServerMessage, NEW w \in Known
  PROVE  <<v, m, w>> \in Hearing(d, slot, board) <=> Hears(d, slot, board, v, m, w)
BY DEF Hearing

\* ... and to what is said.
LEMMA SayingIs ==
  ASSUME NEW slot, NEW board, NEW v \in Said, NEW m \in ClientMessage, NEW w \in Said
  PROVE  <<v, m, w>> \in Saying(slot, board) <=> Says(slot, board, v, m, w)
BY DEF Saying

\* A board that grows has had all changes it had.
LEMMA BoardGrows ==
  ASSUME NEW old \in Seq(Change), NEW new \in Seq(Change), StartsWith(new, old)
  PROVE  /\ \A v \in Nat : \A change : IsNext(old, v, change) => IsNext(new, v, change)
         /\ \A short \in Seq(Change) : StartsWith(old, short) => StartsWith(new, short)
<1>1. ASSUME NEW v \in Nat, NEW change, IsNext(old, v, change) PROVE IsNext(new, v, change)
  BY <1>1 DEF IsNext, StartsWith
<1>2. ASSUME NEW short \in Seq(Change), StartsWith(old, short) PROVE StartsWith(new, short)
  BY <1>2 DEF StartsWith
<1> QED BY <1>1, <1>2

\* What was heard or said of a board is so of the board that has grown.
LEMMA HearingGrows ==
  ASSUME NEW old \in Seq(Change), NEW new \in Seq(Change), StartsWith(new, old), NEW d, NEW slot
  PROVE  Hearing(d, slot, old) \subseteq Hearing(d, slot, new) /\ Saying(slot, old) \subseteq Saying(slot, new)
<1>1. \A v \in Nat : \A change : IsNext(old, v, change) => IsNext(new, v, change)
  BY BoardGrows
<1>2. ASSUME NEW t \in Hearing(d, slot, old) PROVE t \in Hearing(d, slot, new)
  <2>1. t \in Known \X ServerMessage \X Known /\ Hears(d, slot, old, t[1], t[2], t[3])
    BY DEF Hearing
  <2>2. t[1] \in Int /\ (t[1] >= 0 => t[1] \in Nat)
    BY <2>1 DEF Known
  <2>3. Hears(d, slot, new, t[1], t[2], t[3])
    BY <1>1, <2>1, <2>2 DEF Hears
  <2> QED BY <2>1, <2>3 DEF Hearing
<1>3. ASSUME NEW t \in Saying(slot, old) PROVE t \in Saying(slot, new)
  <2>1. t \in Said \X ClientMessage \X Said /\ Says(slot, old, t[1], t[2], t[3])
    BY DEF Saying
  <2>2. t[1] \in Int /\ (t[1] >= 0 => t[1] \in Nat)
    BY <2>1 DEF Said
  <2>3. Says(slot, new, t[1], t[2], t[3])
    BY <1>1, <2>1, <2>2 DEF Says
  <2> QED BY <2>1, <2>3 DEF Saying
<1> QED BY <1>2, <1>3

\* A board is a sequence of changes.
LEMMA OwnType ==
  ASSUME ClientTypes, NEW slots, NEW n, NEW c \in Client, players[c] = << >> \/ SeatsOf(c, slots, n), NEW k \in 1 .. n
  PROVE  Own(c, k) \in Seq(Change)
<1>1. players[c] \in Seq(Player)
  BY TypesOfClients
<1>2. CASE players[c] = << >>
  BY <1>2 DEF Own
<1>3. CASE players[c] # << >>
  <2>1. k \in 1 .. Len(players[c])
    BY <1>3 DEF SeatsOf
  <2>2. players[c][k] \in Player
    BY <1>1, <2>1
  <2> QED BY <1>3, <2>2 DEF Own, Player
<1> QED BY <1>2, <1>3

\* The steps of c at its end of the connection change nothing at the others.
OthersStay(c) ==
  \A d \in Client : d # c =>
    /\ phase'[d] = phase[d] /\ players'[d] = players[d] /\ listening'[d] = listening[d]
    /\ toServer'[d] = toServer[d] /\ toClient'[d] = toClient[d]
    /\ Seen(d)' = Seen(d)

\* What c knows of the boards of others is right after the step.
HearsOn(c, slots, n) ==
  \A k \in 1 .. n : slots[k - 1].client # c =>
    \A board \in Seq(Change), v \in Known : KnowsOf(c, k, slots[k - 1], board, v) =>
      \E w \in Known : KnowsOf(c, k, slots[k - 1], board, w)' /\ (w >= 0 => w = v)

\* The boards of c grow, and what is told of them is right after the step.
OwnsOn(c, slots, n, r) ==
  \A k \in 1 .. n : slots[k - 1].client = c =>
    /\ Own(c, k)' \in Seq(Change) /\ StartsWith(Own(c, k)', Own(c, k))
    /\ \A v \in Nat : Owns(c, slots[k - 1], Own(c, k), v, slots, r)
                        => Owns(c, slots[k - 1], Own(c, k), v, slots, r)'

\* Who has done nothing owns what it owned.
LEMMA SameOwner ==
  ASSUME NEW c \in Client, NEW k, NEW slot, NEW v, NEW slots, NEW r,
         phase'[c] = phase[c], players'[c] = players[c], listening'[c] = listening[c],
         toServer'[c] = toServer[c], toClient'[c] = toClient[c], Seen(c)' = Seen(c),
         roomIdByClientId'[c] = roomIdByClientId[c]
  PROVE  /\ Own(c, k)' = Own(c, k)
         /\ Owns(c, slot, Own(c, k), v, slots, r)' <=> Owns(c, slot, Own(c, k), v, slots, r)
<1>1. Own(c, k)' = Own(c, k)
  BY DEF Own
<1>2. Silent(c)' <=> Silent(c)
  BY DEF Silent
<1>3. Stays(c, slots)' <=> Stays(c, slots)
  BY DEF Stays
<1> QED BY <1>1, <1>2, <1>3 DEF Owns

\* The boards of seated players.
LEMMA BoardTypes ==
  ASSUME ClientTypes, NEW slots, NEW n, NEW c \in Client, SeatsOf(c, slots, n), NEW k \in 1 .. n
  PROVE  players[c][k] \in Player /\ players[c][k].board \in Seq(Change) /\ k \in 1 .. Len(players[c])
<1>1. players[c] \in Seq(Player)
  BY TypesOfClients
<1>2. k \in 1 .. Len(players[c])
  BY DEF SeatsOf
<1>3. players[c][k] \in Player
  BY <1>1, <1>2
<1> QED BY <1>2, <1>3 DEF Player

\* A step of c at its end of the connection.
LEMMA ClientStep ==
  ASSUME NEW slots, NEW n, NEW r, GameOn(slots, n, r), ClientTypes, NEW c \in Client, OthersStay(c),
         UNCHANGED <<roomIdByClientId, usedIds>>, left'["start"] = 0,
         Seated(c, slots, n)', TellsOfItsOwn(c, slots, n)', HearsOn(c, slots, n), OwnsOn(c, slots, n, r)
  PROVE  GameOn(slots, n, r)'
<1>0. /\ TakenInOrder(slots, n) /\ DistinctPlayers(slots)
      /\ r \in RoomId /\ r \in usedIds
      /\ \A d \in Client : Seated(d, slots, n) /\ TellsOfItsOwn(d, slots, n)
      /\ \A d \in Client, k \in 1 .. n : Follows(d, k, slots, r)
  BY DEF GameOn
<1>1. ASSUME NEW d \in Client, d # c PROVE Seated(d, slots, n)' /\ TellsOfItsOwn(d, slots, n)'
  <2>1. /\ phase'[d] = phase[d] /\ players'[d] = players[d] /\ listening'[d] = listening[d]
        /\ toServer'[d] = toServer[d] /\ toClient'[d] = toClient[d] /\ Seen(d)' = Seen(d)
    BY <1>1 DEF OthersStay
  <2>2. Seated(d, slots, n) /\ TellsOfItsOwn(d, slots, n)
    BY <1>0
  <2>3. (SeatsOf(d, slots, n)' <=> SeatsOf(d, slots, n)) /\ (Running(d)' <=> Running(d)) /\ (Silent(d)' <=> Silent(d))
    BY <2>1 DEF SeatsOf, Running, Silent
  <2>4. Seated(d, slots, n)'
    BY <2>1, <2>2, <2>3 DEF Seated
  <2>5. TellsOfItsOwn(d, slots, n)'
    BY <2>1, <2>2, <2>3 DEF TellsOfItsOwn
  <2> QED BY <2>4, <2>5
<1>2. ASSUME NEW d \in Client, NEW k \in 1 .. n PROVE Follows(d, k, slots, r)'
  <2> DEFINE slot == slots[k - 1]
             e == slot.client
  <2>0. e \in Client
    BY <1>0, TakenSlots
  <2> SUFFICES ASSUME e # d
               PROVE  \E w \in Known : /\ KnowsOf(d, k, slot, Own(e, k), w)'
                                       /\ w >= 0 => /\ roomIdByClientId'[d] = r
                                                    /\ Owns(e, slot, Own(e, k), w, slots, r)'
    BY DEF Follows
  <2>1. PICK v \in Known : /\ KnowsOf(d, k, slot, Own(e, k), v)
                           /\ v >= 0 => /\ roomIdByClientId[d] = r
                                        /\ Owns(e, slot, Own(e, k), v, slots, r)
    BY <1>0 DEF Follows
  <2>2. v >= 0 => v \in Nat
    BY DEF Known
  <2>3. Own(e, k) \in Seq(Change)
    BY <1>0, <2>0, OwnType DEF Seated
  <2>4. CASE e = c
    <3>1. /\ phase'[d] = phase[d] /\ players'[d] = players[d] /\ toClient'[d] = toClient[d]
      BY <2>4 DEF OthersStay
    <3>2. phase[d] = "game" => players[d][k].board \in Seq(Change)
      BY <1>0, BoardTypes DEF Seated
    <3>3. /\ Own(c, k)' \in Seq(Change) /\ StartsWith(Own(c, k)', Own(c, k))
          /\ v \in Nat /\ Owns(c, slot, Own(c, k), v, slots, r) => Owns(c, slot, Own(c, k), v, slots, r)'
      BY <2>4 DEF OwnsOn
    <3>4. KnowsOf(d, k, slot, Own(e, k), v)'
      <4> DEFINE old == Own(e, k)
                 new == Own(e, k)'
      <4>1. old \in Seq(Change) /\ new \in Seq(Change) /\ StartsWith(new, old) /\ KnowsOf(d, k, slot, old, v)
        BY <2>1, <2>3, <2>4, <3>3
      <4> HIDE DEF old, new, slot
      <4>2. /\ phase'[d] = "game" => StartsWith(new, players'[d][k].board)
            /\ Linked(Heard(d, k)', toClient'[d], v, Hearing(d, slot, new))
        <5>1. phase[d] = "game" => StartsWith(new, players[d][k].board)
          BY <3>2, <4>1, BoardGrows DEF KnowsOf
        <5>2. Hearing(d, slot, old) \subseteq Hearing(d, slot, new)
          BY <4>1, HearingGrows
        <5>3. Linked(Heard(d, k), toClient[d], v, Hearing(d, slot, new))
          BY <4>1, <5>2, LinkedMore DEF KnowsOf
        <5>4. Heard(d, k)' = Heard(d, k)
          BY <3>1 DEF Heard
        <5> QED BY <3>1, <5>1, <5>3, <5>4
      <4> QED BY <4>2 DEF KnowsOf, new
    <3> QED BY <2>1, <2>2, <2>4, <3>3, <3>4
  <2>5. CASE e # c
    <3>1. /\ phase'[e] = phase[e] /\ players'[e] = players[e] /\ listening'[e] = listening[e]
          /\ toServer'[e] = toServer[e] /\ toClient'[e] = toClient[e] /\ Seen(e)' = Seen(e)
          /\ roomIdByClientId'[e] = roomIdByClientId[e] /\ roomIdByClientId'[d] = roomIdByClientId[d]
      BY <2>0, <2>5 DEF OthersStay
    <3>2. /\ Own(e, k)' = Own(e, k)
          /\ \A w : Owns(e, slot, Own(e, k), w, slots, r)' <=> Owns(e, slot, Own(e, k), w, slots, r)
      BY <2>0, <3>1, SameOwner
    <3> DEFINE board == Own(e, k)
    <3>3. \E w \in Known : KnowsOf(d, k, slot, board, w)' /\ (w >= 0 => w = v)
      <4>1. CASE d = c
        BY <2>1, <2>3, <2>5, <4>1, <3>2 DEF HearsOn
      <4>2. CASE d # c
        <5>1. /\ phase'[d] = phase[d] /\ players'[d] = players[d] /\ toClient'[d] = toClient[d]
          BY <4>2 DEF OthersStay
        <5>2. Heard(d, k)' = Heard(d, k)
          BY <5>1 DEF Heard
        <5>3. KnowsOf(d, k, slot, board, v)'
          BY <2>1, <3>2, <5>1, <5>2 DEF KnowsOf
        <5> QED BY <5>3
      <4> QED BY <4>1, <4>2
    <3> QED BY <2>1, <3>1, <3>2, <3>3
  <2> QED BY <2>4, <2>5
<1>3. Seated(c, slots, n)' /\ TellsOfItsOwn(c, slots, n)'
  OBVIOUS
<1>4. \A d \in Client : Seated(d, slots, n)' /\ TellsOfItsOwn(d, slots, n)'
  BY <1>1, <1>3
<1> QED BY <1>0, <1>2, <1>4 DEF GameOn

\* c sends what tells of no change of a board, or nothing.
SendsPlainly(c) ==
  /\ phase'[c] = phase[c] /\ players'[c] = players[c] /\ toClient'[c] = toClient[c] /\ Seen(c)' = Seen(c)
  /\ \/ toServer'[c] = toServer[c]
     \/ \E m \in ClientMessage :
          /\ toServer'[c] = Append(toServer[c], m)
          /\ m.type \notin Changes /\ m.type # "start_game"
          /\ m.type = "join_game_room" => Silent(c)'
  /\ listening'[c] => listening[c]
  /\ phase[c] = "game" => listening'[c] = listening[c]

\* Who sends nothing of a board disturbs nothing.
LEMMA PlainStep ==
  ASSUME NEW slots, NEW n, NEW r, GameOn(slots, n, r), ClientTypes, NEW c \in Client, OthersStay(c),
         UNCHANGED <<roomIdByClientId, usedIds>>, left'["start"] = 0, SendsPlainly(c)
  PROVE  GameOn(slots, n, r)'
<1>0. /\ TakenInOrder(slots, n)
      /\ Seated(c, slots, n) /\ TellsOfItsOwn(c, slots, n)
      /\ toServer[c] \in Seq(ClientMessage)
  BY TypesOfClients DEF GameOn
<1>1. /\ phase'[c] = phase[c] /\ players'[c] = players[c] /\ toClient'[c] = toClient[c] /\ Seen(c)' = Seen(c)
      /\ listening'[c] => listening[c]
      /\ phase[c] = "game" => listening'[c] = listening[c]
      /\ roomIdByClientId'[c] = roomIdByClientId[c]
  BY DEF SendsPlainly
<1>2. /\ SeatsOf(c, slots, n)' <=> SeatsOf(c, slots, n)
      /\ Running(c)' <=> Running(c)
      /\ Silent(c) => Silent(c)'
      /\ Stays(c, slots)' <=> Stays(c, slots)
  BY <1>1 DEF SeatsOf, Running, Silent, Stays
<1>3. Seated(c, slots, n)'
  BY <1>0, <1>1, <1>2 DEF Seated
<1>4. HearsOn(c, slots, n)
  <2> SUFFICES ASSUME NEW k \in 1 .. n, NEW board, NEW v \in Known, KnowsOf(c, k, slots[k - 1], board, v)
               PROVE  KnowsOf(c, k, slots[k - 1], board, v)'
    BY DEF HearsOn
  <2>1. Heard(c, k)' = Heard(c, k)
    BY <1>1 DEF Heard
  <2> QED BY <1>1, <2>1 DEF KnowsOf
<1>5. CASE toServer'[c] = toServer[c]
  <2>1. TellsOfItsOwn(c, slots, n)'
    BY <1>0, <1>2, <1>5 DEF TellsOfItsOwn
  <2>2. ASSUME NEW k \in 1 .. n
        PROVE  /\ Own(c, k)' \in Seq(Change) /\ StartsWith(Own(c, k)', Own(c, k))
               /\ \A v \in Nat : Owns(c, slots[k - 1], Own(c, k), v, slots, r)
                                   => Owns(c, slots[k - 1], Own(c, k), v, slots, r)'
    <3>1. Own(c, k)' = Own(c, k)
      BY <1>1 DEF Own
    <3>2. Own(c, k) \in Seq(Change)
      BY <1>0, OwnType DEF Seated
    <3> QED BY <1>1, <1>2, <1>5, <3>1, <3>2 DEF Owns, StartsWith
  <2>3. OwnsOn(c, slots, n, r)
    BY <2>2 DEF OwnsOn
  <2> QED BY <1>3, <1>4, <2>1, <2>3, ClientStep
<1>6. ASSUME NEW m \in ClientMessage, toServer'[c] = Append(toServer[c], m),
             m.type \notin Changes, m.type # "start_game", m.type = "join_game_room" => Silent(c)'
      PROVE  GameOn(slots, n, r)'
  <2>0. /\ \A types : NoneOf(toServer'[c], types) <=> NoneOf(toServer[c], types) /\ m.type \notin types
        /\ Len(toServer'[c]) = Len(toServer[c]) + 1 /\ Len(toServer[c]) \in Nat
        /\ toServer'[c][Len(toServer[c]) + 1] = m
        /\ \A k \in 1 .. Len(toServer[c]) : toServer'[c][k] = toServer[c][k]
    BY <1>0, <1>6, NoneOfAppend
  <2>1. TellsOfItsOwn(c, slots, n)'
    <3>1. \A k \in 1 .. Len(toServer'[c]) : k \in 1 .. Len(toServer[c]) \/ toServer'[c][k] = m
      BY <2>0
    <3>2. ASSUME NEW j \in 1 .. Len(toServer'[c]), NEW k \in 1 .. Len(toServer'[c]), j < k,
                 toServer'[c][j].type = "join_game_room"
          PROVE  toServer'[c][k].type \notin Changes
      <4>1. CASE k \in 1 .. Len(toServer[c])
        <5>1. j \in 1 .. Len(toServer[c])
          BY <3>2, <4>1, <2>0
        <5> QED BY <1>0, <2>0, <3>2, <4>1, <5>1 DEF TellsOfItsOwn
      <4> QED BY <1>6, <3>1, <4>1
    <3>3. ~NoneOf(toServer'[c], {"join_game_room"}) => Silent(c)'
      BY <1>0, <1>2, <1>6, <2>0 DEF TellsOfItsOwn
    <3>4. ASSUME NEW j \in 1 .. Len(toServer'[c]), toServer'[c][j].type \in BoardKind
          PROVE  \E k \in 1 .. n : slots[k - 1].client = c /\ toServer'[c][j].player = slots[k - 1].player
      <4>1. j \in 1 .. Len(toServer[c])
        BY <1>6, <3>1, <3>4 DEF Changes
      <4> QED BY <1>0, <2>0, <3>4, <4>1 DEF TellsOfItsOwn
    <3>5. NoneOf(toServer'[c], {"start_game"})
      BY <1>0, <1>6, <2>0 DEF TellsOfItsOwn
    <3> QED BY <3>2, <3>3, <3>4, <3>5 DEF TellsOfItsOwn
  <2>2. ASSUME NEW k \in 1 .. n
        PROVE  /\ Own(c, k)' \in Seq(Change) /\ StartsWith(Own(c, k)', Own(c, k))
               /\ \A v \in Nat : Owns(c, slots[k - 1], Own(c, k), v, slots, r)
                                   => Owns(c, slots[k - 1], Own(c, k), v, slots, r)'
    <3> DEFINE slot == slots[k - 1]
               board == Own(c, k)
    <3>1. board' = board
      BY <1>1 DEF Own
    <3>2. board \in Seq(Change)
      BY <1>0, OwnType DEF Seated
    <3>3. ASSUME NEW v \in Nat, Owns(c, slot, board, v, slots, r) PROVE Owns(c, slot, board, v, slots, r)'
      <4>1. CASE roomIdByClientId[c] # r
        BY <1>1, <4>1 DEF Owns
      <4>2. CASE NoneOf(toServer[c], Changes) /\ Silent(c)
        <5>1. NoneOf(toServer'[c], Changes) /\ Silent(c)'
          BY <1>2, <1>6, <2>0, <4>2
        <5> QED BY <5>1 DEF Owns
      <4>3. ASSUME NEW w \in Said, Linked(v, toServer[c], w, Saying(slot, board)),
                   w = -1 \/ phase[c] = "lost" \/ (w = Len(board) /\ Stays(c, slots))
            PROVE  Owns(c, slot, board, v, slots, r)'
        <5>1. \E x \in Said : <<w, m, x>> \in Saying(slot, board) /\ (x = -1 \/ x = w)
          <6>1. CASE w = -1 \/ m.type = "leave_game_room"
            <7>1. -1 \in Said
              BY DEF Said
            <7>2. Says(slot, board, w, m, -1)
              BY <6>1 DEF Says, Said
            <7> QED BY <7>1, <7>2, SayingIs
          <6>2. CASE w # -1 /\ m.type # "leave_game_room"
            <7>1. ~IsSaid(m, slot) /\ w >= 0
              BY <1>6, <6>2 DEF IsSaid, Changes, Said
            <7>2. Says(slot, board, w, m, w)
              BY <6>2, <7>1 DEF Says
            <7> QED BY <7>2, SayingIs
          <6> QED BY <6>1, <6>2
        <5>2. PICK x \in Said : <<w, m, x>> \in Saying(slot, board) /\ (x = -1 \/ x = w)
          BY <5>1
        <5> HIDE DEF board, slot
        <5>3. Linked(v, toServer'[c], x, Saying(slot, board))
          BY <1>0, <1>6, <4>3, <5>2, LinkedAppend
        <5>4. x = -1 \/ phase'[c] = "lost" \/ (x = Len(board) /\ Stays(c, slots)')
          BY <1>1, <1>2, <4>3, <5>2
        <5>5. Linked(v, toServer'[c], x, Saying(slot, board')) /\ (x = -1 \/ phase'[c] = "lost" \/ (x = Len(board') /\ Stays(c, slots)'))
          BY <3>1, <5>3, <5>4
        <5> QED BY <5>5 DEF Owns
      <4> QED BY <3>3, <4>1, <4>2, <4>3 DEF Owns
    <3>4. StartsWith(board, board)
      BY <3>2 DEF StartsWith
    <3> QED BY <3>1, <3>2, <3>3, <3>4
  <2>3. OwnsOn(c, slots, n, r)
    BY <2>2 DEF OwnsOn
  <2> QED BY <1>3, <1>4, <2>1, <2>3, ClientStep
<1> QED BY <1>5, <1>6 DEF SendsPlainly

-----------------------------------------------------------------------------
(* Boards that grow *)

\* The boards of some players of c are changed.
Grows(c, which, change) ==
  /\ Len(players'[c]) = Len(players[c])
  /\ \A k \in 1 .. Len(players[c]) :
       players'[c][k] = IF k \in which THEN [players[c][k] EXCEPT !.board = Append(@, change)] ELSE players[c][k]

\* Continue makes boards grow.
LEMMA ContinueGrows ==
  ASSUME ClientTypes, NEW c \in Client, NEW which, NEW change \in Change,
         players' = [players EXCEPT ![c] = Continue(c, which, change)]
  PROVE  Grows(c, which, change)
<1>1. players \in [Client -> Seq(Player)]
  BY TypesOfClients
<1>2. players'[c] = Continue(c, which, change)
  BY <1>1
<1>3. Len(Continue(c, which, change)) = Len(players[c])
  BY <1>1, ContinueType
<1>4. DOMAIN players[c] = 1 .. Len(players[c])
  BY <1>1
<1> QED BY <1>2, <1>3, <1>4 DEF Grows, Continue

\* Who sits where stays, and the boards at their owner have one change more.
LEMMA GrowsSeats ==
  ASSUME ClientTypes, ClientTypes', NEW slots, NEW n \in Nat, NEW c \in Client,
         players[c] = << >> \/ SeatsOf(c, slots, n),
         NEW which, NEW change \in Change, Grows(c, which, change)
  PROVE  /\ SeatsOf(c, slots, n) => SeatsOf(c, slots, n)'
         /\ players[c] = << >> <=> players'[c] = << >>
         /\ \A k \in 1 .. n :
              /\ Own(c, k)' = IF players[c] # << >> /\ k \in which THEN Append(Own(c, k), change) ELSE Own(c, k)
              /\ Own(c, k)' \in Seq(Change) /\ StartsWith(Own(c, k)', Own(c, k))
<1>1. players[c] \in Seq(Player) /\ players'[c] \in Seq(Player)
  <2>1. players \in [Client -> Seq(Player)]
    BY TypesOfClients
  <2>2. players' \in [Client -> Seq(Player)]
    BY DEF ClientTypes, NetworkTypeOK
  <2> QED BY <2>1, <2>2
<1>2. players[c] = << >> <=> players'[c] = << >>
  BY <1>1, EmptySeq DEF Grows
<1>3. ASSUME NEW k \in 1 .. Len(players[c])
      PROVE  /\ players'[c][k].player = players[c][k].player /\ players'[c][k].client = players[c][k].client
             /\ players'[c][k].local = players[c][k].local /\ players'[c][k].index = players[c][k].index
             /\ players'[c][k].board = IF k \in which THEN Append(players[c][k].board, change) ELSE players[c][k].board
  <2>1. players[c][k] \in Player
    BY <1>1
  <2>2. players'[c][k] = IF k \in which THEN [players[c][k] EXCEPT !.board = Append(@, change)] ELSE players[c][k]
    BY DEF Grows
  <2>3. DOMAIN players[c][k] = {"player", "client", "local", "board", "index"}
    BY <2>1 DEF Player
  <2>4. CASE k \in which
    <3> DEFINE p == players[c][k]
               b == Append(players[c][k].board, change)
    <3>1. players'[c][k] = [p EXCEPT !.board = b]
      BY <2>2, <2>4
    <3>2. DOMAIN p = {"player", "client", "local", "board", "index"}
      BY <2>3
    <3> HIDE DEF p, b
    <3>3. /\ [p EXCEPT !.board = b].player = p.player /\ [p EXCEPT !.board = b].client = p.client
          /\ [p EXCEPT !.board = b].local = p.local /\ [p EXCEPT !.board = b].index = p.index
          /\ [p EXCEPT !.board = b].board = b
      BY <3>2
    <3> QED BY <2>4, <3>1, <3>3 DEF p, b
  <2>5. CASE k \notin which
    BY <2>2, <2>5
  <2> QED BY <2>4, <2>5
<1>4. ASSUME SeatsOf(c, slots, n) PROVE SeatsOf(c, slots, n)'
  <2>1. Len(players[c]) = n /\ Len(players'[c]) = n
    BY <1>4 DEF SeatsOf, Grows
  <2> QED BY <1>3, <1>4, <2>1 DEF SeatsOf
<1>5. ASSUME NEW k \in 1 .. n
      PROVE  /\ Own(c, k)' = IF players[c] # << >> /\ k \in which THEN Append(Own(c, k), change) ELSE Own(c, k)
             /\ Own(c, k)' \in Seq(Change) /\ StartsWith(Own(c, k)', Own(c, k))
  <2>1. Own(c, k) \in Seq(Change)
    BY OwnType
  <2>2. Own(c, k)' = IF players[c] # << >> /\ k \in which THEN Append(Own(c, k), change) ELSE Own(c, k)
    <3>1. CASE players[c] = << >>
      BY <1>2, <3>1 DEF Own
    <3>2. CASE players[c] # << >>
      <4>1. k \in 1 .. Len(players[c])
        BY <3>2 DEF SeatsOf
      <4> QED BY <1>2, <1>3, <3>2, <4>1 DEF Own
    <3> QED BY <3>1, <3>2
  <2>3. Append(Own(c, k), change) \in Seq(Change) /\ StartsWith(Append(Own(c, k), change), Own(c, k))
    BY <2>1 DEF StartsWith
  <2>4. StartsWith(Own(c, k), Own(c, k))
    BY <2>1 DEF StartsWith
  <2> QED BY <2>1, <2>2, <2>3, <2>4
<1> QED BY <1>2, <1>4, <1>5

\* Without a game on its way, who plays none will play none.
LEMMA NoGameWithout ==
  ASSUME NEW c, NEW slots, NEW queue \in Seq(ServerMessage), NEW first, NEW last,
         Linked(first, queue, last, Views(c, slots)), first.phase # "game", NoneOf(queue, {"create_game"})
  PROVE  last.phase # "game"
<1> DEFINE P == {v \in Sight \cup {first} : v.phase # "game"}
<1>1. first \in P
  OBVIOUS
<1>2. ASSUME NEW k \in 1 .. Len(queue), NEW v, NEW w, v \in P, <<v, queue[k], w>> \in Views(c, slots)
      PROVE  w \in P
  <2>1. w \in Sight /\ w = After(v, queue[k])
    BY <1>2 DEF Views
  <2>2. queue[k].type # "create_game" /\ v.phase # "game"
    BY <1>2 DEF NoneOf
  <2>3. w.phase # "game"
    BY <2>1, <2>2 DEF After, JoinedBy, LeftBy
  <2> QED BY <2>1, <2>3
<1> HIDE DEF P
<1>3. last \in P
  BY <1>1, <1>2, LinkedWithin
<1> QED BY <1>3 DEF P

\* Who is outside and has no answer on its way has no game on its way.
LEMMA NoGameOutside ==
  ASSUME NEW c, NEW slots, NEW queue \in Seq(ServerMessage), NEW first, NEW last,
         Linked(first, queue, last, Views(c, slots)), first.phase = "connect", NoneOf(queue, {"game_room_joined"})
  PROVE  NoneOf(queue, {"create_game"})
<1> DEFINE P == {v \in Sight \cup {first} : v.phase = "connect"}
<1>1. first \in P
  OBVIOUS
<1>2. ASSUME NEW k \in 1 .. Len(queue), NEW v, NEW w, v \in P, <<v, queue[k], w>> \in Views(c, slots)
      PROVE  w \in P
  <2>1. w \in Sight /\ w = After(v, queue[k])
    BY <1>2 DEF Views
  <2>2. queue[k].type # "game_room_joined" /\ v.phase = "connect"
    BY <1>2 DEF NoneOf
  <2>3. w = v
    BY <2>1, <2>2 DEF After
  <2> QED BY <2>1, <2>2, <2>3
<1>3. ASSUME NEW k \in 1 .. Len(queue), queue[k].type = "create_game" PROVE FALSE
  <2>1. \E v \in P : \E w : <<v, queue[k], w>> \in Views(c, slots)
    <3> HIDE DEF P
    <3> QED BY <1>1, <1>2, LinkedAlong
  <2>2. PICK v \in P : \E w : <<v, queue[k], w>> \in Views(c, slots)
    BY <2>1
  <2>3. v.phase = "lobby"
    BY <1>3, <2>2 DEF Views
  <2> QED BY <2>3
<1> QED BY <1>3 DEF NoneOf

\* The owner sends the change its board has gone through.
LEMMA SaidOn ==
  ASSUME NEW queue \in Seq(ClientMessage), NEW slot, NEW old \in Seq(Change), NEW new \in Seq(Change),
         NEW v, NEW w \in Said, Linked(v, queue, w, Saying(slot, old)), w = -1 \/ w = Len(old),
         NEW m \in ClientMessage, m.type # "leave_game_room",
         IsSaid(m, slot) => new = Append(old, ChangeOf(m)),
         ~IsSaid(m, slot) => new = old
  PROVE  \E x \in Said : /\ Linked(v, Append(queue, m), x, Saying(slot, new))
                         /\ x = IF w = -1 THEN -1 ELSE Len(new)
<1>1. StartsWith(new, old)
  <2> DEFINE change == ChangeOf(m)
  <2>1. new = old \/ new = Append(old, change)
    OBVIOUS
  <2> HIDE DEF change
  <2> QED BY <2>1 DEF StartsWith
<1>2. Linked(v, queue, w, Saying(slot, new))
  <2>1. Saying(slot, old) \subseteq Saying(slot, new)
    BY <1>1, HearingGrows
  <2> QED BY <2>1, LinkedMore
<1>3. CASE w = -1
  <2>1. Says(slot, new, -1, m, -1) /\ -1 \in Said
    BY DEF Says, Said
  <2>2. <<w, m, -1>> \in Saying(slot, new)
    BY <1>3, <2>1, SayingIs
  <2> QED BY <1>2, <1>3, <2>1, <2>2, LinkedAppend
<1>4. CASE w # -1 /\ IsSaid(m, slot)
  <2>1. w = Len(old) /\ Len(new) = w + 1 /\ w \in Nat /\ new[w + 1] = ChangeOf(m)
    BY <1>4
  <2>2. Says(slot, new, w, m, w + 1) /\ w + 1 \in Said
    BY <1>4, <2>1 DEF Says, Said, IsNext
  <2>3. <<w, m, w + 1>> \in Saying(slot, new)
    BY <2>2, SayingIs
  <2> QED BY <1>2, <1>4, <2>1, <2>2, <2>3, LinkedAppend
<1>5. CASE w # -1 /\ ~IsSaid(m, slot)
  <2>1. w = Len(new) /\ w \in Nat /\ w >= 0
    BY <1>5
  <2>2. Says(slot, new, w, m, w)
    <3> HIDE DEF Said
    <3> QED BY <1>5, <2>1 DEF Says
  <2>3. <<w, m, w>> \in Saying(slot, new)
    BY <2>2, SayingIs
  <2> QED BY <1>2, <1>5, <2>1, <2>3, LinkedAppend
<1> QED BY <1>3, <1>4, <1>5

\* A change of its boards is sent by who has not asked to join a room.
LEMMA TellsOn ==
  ASSUME NEW slots, NEW n, NEW c \in Client, TellsOfItsOwn(c, slots, n), toServer[c] \in Seq(ClientMessage),
         NEW m \in ClientMessage, toServer'[c] = Append(toServer[c], m), m.type \in Changes,
         NoneOf(toServer[c], {"join_game_room"}),
         m.type \in BoardKind => \E k \in 1 .. n : slots[k - 1].client = c /\ m.player = slots[k - 1].player
  PROVE  TellsOfItsOwn(c, slots, n)'
<1>0. /\ \A types : NoneOf(toServer'[c], types) <=> NoneOf(toServer[c], types) /\ m.type \notin types
      /\ Len(toServer'[c]) = Len(toServer[c]) + 1 /\ Len(toServer[c]) \in Nat
      /\ toServer'[c][Len(toServer[c]) + 1] = m
      /\ \A k \in 1 .. Len(toServer[c]) : toServer'[c][k] = toServer[c][k]
  BY NoneOfAppend
<1>1. m.type # "join_game_room" /\ m.type # "start_game"
  BY DEF Changes, BoardKind
<1>2. NoneOf(toServer'[c], {"join_game_room"}) /\ NoneOf(toServer'[c], {"start_game"})
  BY <1>0, <1>1 DEF TellsOfItsOwn
<1>3. ASSUME NEW j \in 1 .. Len(toServer'[c]), toServer'[c][j].type \in BoardKind
      PROVE  \E k \in 1 .. n : slots[k - 1].client = c /\ toServer'[c][j].player = slots[k - 1].player
  <2>1. CASE j \in 1 .. Len(toServer[c])
    BY <1>0, <1>3, <2>1 DEF TellsOfItsOwn
  <2>2. CASE j \notin 1 .. Len(toServer[c])
    <3>1. toServer'[c][j] = m
      BY <1>0, <2>2
    <3> QED BY <1>3, <3>1
  <2> QED BY <2>1, <2>2
<1>4. \A j \in 1 .. Len(toServer'[c]) : toServer'[c][j].type # "join_game_room"
  BY <1>2 DEF NoneOf
<1> QED BY <1>2, <1>3, <1>4 DEF TellsOfItsOwn

\* What is known of the boards of others does not depend on the own ones.
LEMMA GrowsHears ==
  ASSUME ClientTypes, NEW slots, NEW n \in Nat, NEW c \in Client, Seated(c, slots, n),
         NEW which, NEW change, Grows(c, which, change), phase'[c] = phase[c], toClient'[c] = toClient[c],
         \A k \in 1 .. n : k \in which => slots[k - 1].client = c \/ phase[c] # "game"
  PROVE  HearsOn(c, slots, n)
<1> SUFFICES ASSUME NEW k \in 1 .. n, slots[k - 1].client # c, NEW board \in Seq(Change), NEW v \in Known,
                    KnowsOf(c, k, slots[k - 1], board, v)
             PROVE  KnowsOf(c, k, slots[k - 1], board, v)'
  BY DEF HearsOn
<1>1. phase[c] = "game" => players'[c][k] = players[c][k]
  <2> SUFFICES ASSUME phase[c] = "game" PROVE players'[c][k] = players[c][k]
    OBVIOUS
  <2>1. k \in 1 .. Len(players[c])
    BY DEF Seated, SeatsOf
  <2> QED BY <2>1 DEF Grows
<1>2. Heard(c, k)' = Heard(c, k)
  BY <1>1 DEF Heard
<1> QED BY <1>1, <1>2 DEF KnowsOf

\* A player of c moves, gets a block or gets rows.
LEMMA LocalStep ==
  ASSUME NEW slots, NEW n, NEW r, GameOn(slots, n, r), ClientTypes, ClientTypes', NEW c \in Client,
         UNCHANGED <<roomIdByClientId, usedIds>>, left'["start"] = 0,
         NEW i \in DOMAIN players[c], NEW change \in [type : BoardKind, value : BoardValue],
         LocalChange(c, i, change)
  PROVE  GameOn(slots, n, r)'
<1>0. /\ TakenInOrder(slots, n) /\ DistinctPlayers(slots) /\ n \in Nat
      /\ Seated(c, slots, n) /\ TellsOfItsOwn(c, slots, n)
      /\ players \in [Client -> Seq(Player)]
      /\ toServer \in [Client -> Seq(ClientMessage)]
      /\ toServer[c] \in Seq(ClientMessage) /\ toClient[c] \in Seq(ServerMessage)
      /\ change \in Change
  BY TypesOfClients DEF GameOn, TakenInOrder, Change
<1>1. /\ Running(c) /\ players[c][i].local
      /\ players' = [players EXCEPT ![c][i].board = Append(@, change)]
      /\ UNCHANGED <<phase, gameRoomId, clientId, networkSlots, listening, gameRoomClients, tetrisGame, toClient>>
  BY DEF LocalChange
<1>2. players[c] # << >> /\ SeatsOf(c, slots, n) /\ i \in 1 .. n /\ slots[i - 1].client = c
      /\ players[c][i].index = i /\ players[c][i].player = slots[i - 1].player /\ i \in 1 .. Len(players[c])
  <2>1. i \in 1 .. Len(players[c])
    BY <1>0
  <2>2. players[c] # << >> /\ SeatsOf(c, slots, n)
    BY <1>0, <2>1 DEF Seated
  <2> QED BY <1>1, <2>1, <2>2 DEF SeatsOf
<1>3. Grows(c, {i}, change)
  <2> DEFINE p == players[c]
             one == [p[i] EXCEPT !.board = Append(p[i].board, change)]
  <2>1. players'[c] = [p EXCEPT ![i] = one]
    BY <1>0, <1>1
  <2>2. p \in Seq(Player) /\ i \in 1 .. Len(p) /\ DOMAIN p = 1 .. Len(p)
    BY <1>0, <1>2
  <2> HIDE DEF p, one
  <2>3. Len([p EXCEPT ![i] = one]) = Len(p)
    BY <2>2
  <2>4. ASSUME NEW k \in 1 .. Len(p) PROVE [p EXCEPT ![i] = one][k] = IF k = i THEN one ELSE p[k]
    BY <2>2
  <2>5. ASSUME NEW k \in 1 .. Len(p)
        PROVE  players'[c][k] = IF k \in {i} THEN [p[k] EXCEPT !.board = Append(p[k].board, change)] ELSE p[k]
    <3>1. CASE k = i
      <4>1. players'[c][k] = one
        BY <2>1, <2>4, <3>1
      <4> QED BY <3>1, <4>1 DEF one
    <3>2. CASE k # i
      <4>1. players'[c][k] = p[k]
        BY <2>1, <2>4, <3>2
      <4> QED BY <3>2, <4>1
    <3> QED BY <3>1, <3>2
  <2>6. Len(players'[c]) = Len(p)
    BY <2>1, <2>3
  <2> QED BY <2>5, <2>6 DEF Grows, p
<1>4. /\ SeatsOf(c, slots, n)'
      /\ players'[c] # << >>
      /\ \A k \in 1 .. n :
           /\ Own(c, k)' = IF k = i THEN Append(Own(c, k), change) ELSE Own(c, k)
           /\ Own(c, k)' \in Seq(Change) /\ StartsWith(Own(c, k)', Own(c, k))
  <2> DEFINE which == {i}
  <2>1. /\ SeatsOf(c, slots, n)'
        /\ players[c] = << >> <=> players'[c] = << >>
        /\ \A k \in 1 .. n :
             /\ Own(c, k)' = IF players[c] # << >> /\ k \in which THEN Append(Own(c, k), change) ELSE Own(c, k)
             /\ Own(c, k)' \in Seq(Change) /\ StartsWith(Own(c, k)', Own(c, k))
    <3>1. players[c] = << >> \/ SeatsOf(c, slots, n)
      BY <1>2
    <3>2. SeatsOf(c, slots, n) /\ n \in Nat /\ change \in Change
      BY <1>0, <1>2
    <3>3. Grows(c, which, change)
      BY <1>3
    <3> HIDE DEF which
    <3> QED BY <3>1, <3>2, <3>3, GrowsSeats
  <2>2. \A k : k \in which <=> k = i
    OBVIOUS
  <2> QED BY <1>2, <2>1, <2>2
<1> DEFINE m == Board(change.type, players[c][i].player, change.value)
<1>5. /\ m \in ClientMessage /\ m.type \in BoardKind /\ m.player = slots[i - 1].player
      /\ ChangeOf(m) = change /\ m.type # "leave_game_room" /\ m.type \in Changes
  <2>1. slots[i - 1].player \in PlayerId
    BY <1>0, <1>2, TakenSlots
  <2>2. m \in ClientMessage
    BY <1>2, <2>1, RequestTypes
  <2>3. m.type = change.type /\ m.value = change.value /\ m.player = players[c][i].player
    BY DEF Board
  <2>4. m.type # "leave_game_room" /\ m.type # "game_restart" /\ m.type \in BoardKind
    BY <2>3 DEF BoardKind
  <2> QED BY <1>2, <2>2, <2>3, <2>4 DEF ChangeOf, Changes
<1> HIDE DEF m
<1>6. \/ ~listening[c] /\ toServer' = toServer
      \/ listening[c] /\ toServer'[c] = Append(toServer[c], m) /\ \A d \in Client : d # c => toServer'[d] = toServer[d]
  BY <1>0, <1>2 DEF LocalChange, Send, m
<1>7. OthersStay(c)
  BY <1>0, <1>1, <1>6 DEF OthersStay, Seen
<1>8. /\ Seen(c)' = Seen(c) /\ (Running(c)' <=> Running(c)) /\ (Silent(c)' <=> Silent(c))
      /\ (Stays(c, slots)' <=> Stays(c, slots))
  BY <1>1 DEF Seen, Running, Silent, Stays
<1>9. phase[c] # "game" => ~listening[c] \/ NoneOf(toClient[c], {"create_game"})
  BY <1>0 DEF Seated
<1>10. Seated(c, slots, n)'
  BY <1>0, <1>1, <1>2, <1>4, <1>8 DEF Seated
<1>11. TellsOfItsOwn(c, slots, n)'
  <2>1. CASE toServer'[c] = toServer[c]
    BY <1>0, <1>8, <2>1 DEF TellsOfItsOwn
  <2>2. CASE listening[c] /\ toServer'[c] = Append(toServer[c], m)
    <3>1. NoneOf(toServer[c], {"join_game_room"})
      BY <1>0, <2>2 DEF TellsOfItsOwn, Silent
    <3> QED BY <1>0, <1>2, <1>5, <2>2, <3>1, TellsOn
  <2> QED BY <1>6, <2>1, <2>2
<1>12. HearsOn(c, slots, n)
  BY <1>0, <1>1, <1>2, <1>3, GrowsHears
<1>13. ASSUME NEW k \in 1 .. n, NEW v \in Nat, Owns(c, slots[k - 1], Own(c, k), v, slots, r)
       PROVE  Owns(c, slots[k - 1], Own(c, k), v, slots, r)'
  <2> DEFINE slot == slots[k - 1]
             old == Own(c, k)
             new == Own(c, k)'
  <2>1. CASE roomIdByClientId[c] # r
    BY <2>1 DEF Owns
  <2>2. CASE NoneOf(toServer[c], Changes) /\ Silent(c)
    <3>1. toServer'[c] = toServer[c]
      BY <1>6, <2>2 DEF Silent
    <3> QED BY <1>8, <2>2, <3>1 DEF Owns
  <2>3. ASSUME NEW w \in Said, Linked(v, toServer[c], w, Saying(slot, old)),
               w = -1 \/ phase[c] = "lost" \/ (w = Len(old) /\ Stays(c, slots))
        PROVE  Owns(c, slot, Own(c, k), v, slots, r)'
    <3>1. old \in Seq(Change) /\ new \in Seq(Change) /\ StartsWith(new, old)
      BY <1>0, <1>4, OwnType DEF Seated
    <3>2. w = -1 \/ (w = Len(old) /\ Stays(c, slots))
      BY <1>1, <2>3 DEF Running
    <3>3. CASE toServer'[c] = toServer[c] /\ ~listening[c]
      <4>1. w = -1
        <5>1. ASSUME Stays(c, slots) PROVE FALSE
          <6>1. PICK last : Linked(Seen(c), toClient[c], last, Views(c, slots)) /\ last.phase = "game"
            BY <5>1 DEF Stays
          <6>2. phase[c] # "game"
            BY <1>0, <3>3 DEF Seated
          <6>3. Seen(c).phase # "game"
            BY <6>2 DEF Seen
          <6>4. NoneOf(toClient[c], {"create_game"})
            BY <1>0, <1>2 DEF Seated
          <6> QED BY <1>0, <6>1, <6>3, <6>4, NoGameWithout
        <5> QED BY <3>2, <5>1
      <4>2. Linked(v, toServer[c], w, Saying(slot, new))
        <5> HIDE DEF old, new
        <5>1. Saying(slot, old) \subseteq Saying(slot, new)
          BY <3>1, HearingGrows
        <5> QED BY <2>3, <5>1, LinkedMore
      <4> QED BY <3>3, <4>1, <4>2 DEF Owns
    <3>4. CASE toServer'[c] = Append(toServer[c], m)
      <4>1. IsSaid(m, slot) <=> k = i
        <5>1. m.type # "game_restart"
          BY <1>5 DEF BoardKind
        <5>2. slots[i - 1].player = slots[k - 1].player => k = i
          <6>1. i - 1 \in SlotIndex /\ k - 1 \in SlotIndex /\ slots[i - 1] # OpenSlot
            BY <1>0, <1>2, TakenSlots
          <6>2. slots[i - 1].player = slots[k - 1].player => i - 1 = k - 1
            BY <1>0, <6>1 DEF DistinctPlayers
          <6> QED BY <1>2, <6>2
        <5> QED BY <1>5, <5>1, <5>2 DEF IsSaid
      <4>2. /\ IsSaid(m, slot) => new = Append(old, ChangeOf(m))
            /\ ~IsSaid(m, slot) => new = old
        BY <1>4, <1>5, <4>1
      <4> HIDE DEF old, new, slot
      <4>3. w = -1 \/ w = Len(old)
        BY <3>2
      <4>4. PICK x \in Said : /\ Linked(v, Append(toServer[c], m), x, Saying(slot, new))
                              /\ x = IF w = -1 THEN -1 ELSE Len(new)
        BY <1>0, <1>5, <2>3, <3>1, <4>2, <4>3, SaidOn
      <4>5. Linked(v, toServer'[c], x, Saying(slot, new)) /\ (x = -1 \/ (x = Len(new) /\ Stays(c, slots)'))
        BY <1>8, <3>2, <3>4, <4>4
      <4> QED BY <4>5 DEF Owns, new
    <3> QED BY <1>6, <3>3, <3>4
  <2> QED BY <1>13, <2>1, <2>2, <2>3 DEF Owns
<1>14. OwnsOn(c, slots, n, r)
  BY <1>4, <1>13 DEF OwnsOn
<1> QED BY <1>7, <1>10, <1>11, <1>12, <1>14, ClientStep

\* Who has a game on its way has no players yet.
LEMMA StaysWithout ==
  ASSUME NEW slots, NEW n, NEW c \in Client, Seated(c, slots, n), ClientTypes, Stays(c, slots), phase[c] # "game"
  PROVE  players[c] = << >> /\ ~listening[c] /\ ~NoneOf(toClient[c], {"create_game"})
<1>1. PICK last : Linked(Seen(c), toClient[c], last, Views(c, slots)) /\ last.phase = "game"
  BY DEF Stays
<1>2. Seen(c).phase # "game"
  BY DEF Seen
<1>3. toClient[c] \in Seq(ServerMessage)
  BY TypesOfClients
<1>4. ~NoneOf(toClient[c], {"create_game"})
  BY <1>1, <1>2, <1>3, NoGameWithout
<1> QED BY <1>4 DEF Seated

\* Outside a room the players of the last game restart alone.
LEMMA AloneStep ==
  ASSUME NEW slots, NEW n, NEW r, GameOn(slots, n, r), ClientTypes, ClientTypes', NEW c \in Client,
         UNCHANGED <<roomIdByClientId, usedIds>>, left'["start"] = 0,
         phase[c] # "game", NEW blocks \in Blocks,
         players' = [players EXCEPT ![c] = Continue(c, DOMAIN players[c], Restart(blocks))],
         UNCHANGED <<phase, gameRoomId, clientId, networkSlots, listening, gameRoomClients, toServer, toClient>>
  PROVE  GameOn(slots, n, r)'
<1> DEFINE which == DOMAIN players[c]
           change == Restart(blocks)
<1>0. /\ TakenInOrder(slots, n) /\ n \in Nat
      /\ Seated(c, slots, n) /\ TellsOfItsOwn(c, slots, n)
      /\ players \in [Client -> Seq(Player)]
      /\ change \in Change
  BY TypesOfClients DEF GameOn, TakenInOrder, Change, Restart
<1> HIDE DEF change
<1>1. players' = [players EXCEPT ![c] = Continue(c, which, change)]
  BY DEF change
<1>2. \A d \in Client : d # c => players'[d] = players[d]
  BY <1>0, <1>1
<1> HIDE DEF which
<1>3. Grows(c, which, change)
  BY <1>0, <1>1, ContinueGrows
<1>4. players[c] = << >> \/ SeatsOf(c, slots, n)
  BY <1>0 DEF Seated
<1>5. /\ SeatsOf(c, slots, n) => SeatsOf(c, slots, n)'
      /\ players[c] = << >> <=> players'[c] = << >>
      /\ \A k \in 1 .. n :
           /\ Own(c, k)' = IF players[c] # << >> /\ k \in which THEN Append(Own(c, k), change) ELSE Own(c, k)
           /\ Own(c, k)' \in Seq(Change) /\ StartsWith(Own(c, k)', Own(c, k))
  BY <1>0, <1>3, <1>4, GrowsSeats
<1>6. OthersStay(c)
  BY <1>2 DEF OthersStay, Seen
<1>7. /\ Seen(c)' = Seen(c) /\ (Running(c)' <=> Running(c)) /\ (Silent(c)' <=> Silent(c))
      /\ (Stays(c, slots)' <=> Stays(c, slots))
  BY DEF Seen, Running, Silent, Stays
<1>8. Seated(c, slots, n)'
  BY <1>0, <1>5, <1>7 DEF Seated
<1>9. TellsOfItsOwn(c, slots, n)'
  BY <1>0, <1>7 DEF TellsOfItsOwn
<1>10. HearsOn(c, slots, n)
  <2>1. phase'[c] = phase[c] /\ toClient'[c] = toClient[c] /\ \A k \in 1 .. n : k \in which => phase[c] # "game"
    OBVIOUS
  <2> QED BY <1>0, <1>3, <2>1, GrowsHears
<1>11. ASSUME NEW k \in 1 .. n, NEW v \in Nat, Owns(c, slots[k - 1], Own(c, k), v, slots, r)
       PROVE  Owns(c, slots[k - 1], Own(c, k), v, slots, r)'
  <2> DEFINE slot == slots[k - 1]
             old == Own(c, k)
             new == Own(c, k)'
  <2>1. CASE roomIdByClientId[c] # r
    BY <2>1 DEF Owns
  <2>2. CASE NoneOf(toServer[c], Changes) /\ Silent(c)
    BY <1>7, <2>2 DEF Owns
  <2>3. ASSUME NEW w \in Said, Linked(v, toServer[c], w, Saying(slot, old)),
               w = -1 \/ phase[c] = "lost" \/ (w = Len(old) /\ Stays(c, slots))
        PROVE  Owns(c, slot, Own(c, k), v, slots, r)'
    <3>1. old \in Seq(Change) /\ new \in Seq(Change) /\ StartsWith(new, old)
      BY <1>0, <1>4, <1>5, OwnType
    <3>2. Linked(v, toServer[c], w, Saying(slot, new))
      <4> HIDE DEF old, new
      <4>1. Saying(slot, old) \subseteq Saying(slot, new)
        BY <3>1, HearingGrows
      <4> QED BY <2>3, <4>1, LinkedMore
    <3>3. w = -1 \/ phase[c] = "lost" \/ (w = Len(new) /\ Stays(c, slots))
      <4>1. ASSUME Stays(c, slots) PROVE new = old
        <5>1. players[c] = << >>
          BY <1>0, <4>1, StaysWithout
        <5> QED BY <1>5, <5>1
      <4> QED BY <2>3, <4>1
    <3> QED BY <1>7, <3>2, <3>3 DEF Owns
  <2> QED BY <1>11, <2>1, <2>2, <2>3 DEF Owns
<1>12. OwnsOn(c, slots, n, r)
  BY <1>5, <1>11 DEF OwnsOn
<1> QED BY <1>6, <1>8, <1>9, <1>10, <1>12, ClientStep

\* The connection of c is lost: what it had sent comes through in part, and it reads no more.
LEMMA LostStep ==
  ASSUME NEW slots, NEW n, NEW r, GameOn(slots, n, r), ClientTypes, ClientTypes', NEW c \in Client,
         UNCHANGED <<roomIdByClientId, usedIds>>, left'["start"] = 0, LoseConnection(c)
  PROVE  GameOn(slots, n, r)'
<1>0. /\ TakenInOrder(slots, n) /\ n \in Nat
      /\ Seated(c, slots, n) /\ TellsOfItsOwn(c, slots, n)
      /\ toServer[c] \in Seq(ClientMessage)
      /\ phase \in [Client -> {"off", "connect", "lobby", "game", "lost"}]
      /\ toServer \in [Client -> Seq(ClientMessage)] /\ toClient \in [Client -> Seq(ServerMessage)]
  BY TypesOfClients DEF GameOn, TakenInOrder
<1>1. PICK i \in 0 .. Len(toServer[c]) : toServer' = [toServer EXCEPT ![c] = SubSeq(toServer[c], 1, i)]
  BY <1>0 DEF LoseConnection
<1> DEFINE kept == SubSeq(toServer[c], 1, i)
<1>2. /\ phase'[c] = "lost" /\ toClient'[c] = << >> /\ toServer'[c] = kept
      /\ UNCHANGED <<gameRoomId, clientId, networkSlots, players, listening, gameRoomClients>>
  BY <1>0, <1>1 DEF LoseConnection
<1>3. OthersStay(c)
  <2>1. \A d \in Client : d # c => phase'[d] = phase[d] /\ toClient'[d] = toClient[d] /\ toServer'[d] = toServer[d]
    BY <1>0, <1>1 DEF LoseConnection
  <2> QED BY <1>2, <2>1 DEF OthersStay, Seen
<1>4. /\ kept \in Seq(ClientMessage) /\ Len(kept) = i
      /\ \A k \in 1 .. i : kept[k] = toServer[c][k] /\ k \in 1 .. Len(toServer[c])
  <2>1. Len(toServer[c]) \in Nat
    BY <1>0
  <2> QED BY <1>0, <2>1, SubSeqProperties
<1> HIDE DEF kept
<1>5. \A types : NoneOf(toServer[c], types) => NoneOf(kept, types)
  BY <1>4 DEF NoneOf
<1>6. NoneOf(<< >>, {"create_game"})
  BY EmptySeq DEF NoneOf
<1>7. Silent(c) => Silent(c)'
  BY <1>2, <1>6 DEF Silent
<1>8. Seated(c, slots, n)'
  <2>1. Len(toClient'[c]) = 0
    BY <1>2
  <2>2. ~Running(c)' /\ NoneOf(toClient'[c], {"create_game"})
    BY <1>2, <1>6 DEF Running
  <2>3. SeatsOf(c, slots, n)' <=> SeatsOf(c, slots, n)
    BY <1>2 DEF SeatsOf
  <2> QED BY <1>0, <1>2, <2>1, <2>2, <2>3 DEF Seated
<1>9. TellsOfItsOwn(c, slots, n)'
  <2>1. ~NoneOf(kept, {"join_game_room"}) => Silent(c)'
    BY <1>0, <1>5, <1>7 DEF TellsOfItsOwn
  <2>2. NoneOf(kept, {"start_game"})
    BY <1>0, <1>5 DEF TellsOfItsOwn
  <2>3. ASSUME NEW j \in 1 .. i, NEW k \in 1 .. i, j < k, kept[j].type = "join_game_room"
        PROVE  kept[k].type \notin Changes
    <3>1. j \in 1 .. Len(toServer[c]) /\ k \in 1 .. Len(toServer[c]) /\ kept[j] = toServer[c][j] /\ kept[k] = toServer[c][k]
      BY <1>4
    <3> QED BY <1>0, <2>3, <3>1 DEF TellsOfItsOwn
  <2>4. ASSUME NEW j \in 1 .. i, kept[j].type \in BoardKind
        PROVE  \E k \in 1 .. n : slots[k - 1].client = c /\ kept[j].player = slots[k - 1].player
    <3>1. j \in 1 .. Len(toServer[c]) /\ kept[j] = toServer[c][j]
      BY <1>4
    <3> QED BY <1>0, <2>4, <3>1 DEF TellsOfItsOwn
  <2> QED BY <1>2, <1>4, <2>1, <2>2, <2>3, <2>4 DEF TellsOfItsOwn
<1>10. HearsOn(c, slots, n)
  <2> SUFFICES ASSUME NEW k \in 1 .. n, NEW board
               PROVE  KnowsOf(c, k, slots[k - 1], board, -2)' /\ -2 \in Known
    BY DEF HearsOn
  <2>1. Heard(c, k)' = -2
    BY <1>2 DEF Heard
  <2>2. Linked(-2, << >>, -2, Hearing(c, slots[k - 1], board))
    BY LinkedEmpty
  <2> QED BY <1>2, <2>1, <2>2 DEF KnowsOf, Known
<1>11. ASSUME NEW k \in 1 .. n, NEW v \in Nat, Owns(c, slots[k - 1], Own(c, k), v, slots, r)
       PROVE  Owns(c, slots[k - 1], Own(c, k), v, slots, r)'
  <2> DEFINE slot == slots[k - 1]
             board == Own(c, k)
             steps == Saying(slot, board)
  <2>0. board' = board
    BY <1>2 DEF Own
  <2>1. CASE roomIdByClientId[c] # r
    BY <2>1 DEF Owns
  <2>2. CASE NoneOf(toServer[c], Changes) /\ Silent(c)
    BY <1>2, <1>5, <1>7, <2>2 DEF Owns
  <2>3. ASSUME NEW w \in Said, Linked(v, toServer[c], w, steps)
        PROVE  Owns(c, slot, Own(c, k), v, slots, r)'
    <3>1. v \in Said /\ \A x, m, y : <<x, m, y>> \in steps => y \in Said
      BY DEF Said, Saying
    <3> HIDE DEF steps
    <3>2. PICK x : Linked(v, kept, x, steps)
      BY <1>0, <2>3, LinkedBeginning DEF kept
    <3>3. x \in Said
      BY <1>4, <3>1, <3>2, LinkedWithin
    <3>4. Linked(v, toServer'[c], x, Saying(slot, board'))
      BY <1>2, <2>0, <3>2 DEF steps
    <3> QED BY <1>2, <3>3, <3>4 DEF Owns
  <2> QED BY <1>11, <2>1, <2>2, <2>3 DEF Owns
<1>12. OwnsOn(c, slots, n, r)
  <2> SUFFICES ASSUME NEW k \in 1 .. n PROVE Own(c, k)' \in Seq(Change) /\ StartsWith(Own(c, k)', Own(c, k))
    BY <1>11 DEF OwnsOn
  <2>1. Own(c, k)' = Own(c, k)
    BY <1>2 DEF Own
  <2>2. Own(c, k) \in Seq(Change)
    BY <1>0, OwnType DEF Seated
  <2> QED BY <2>1, <2>2 DEF StartsWith
<1> QED BY <1>3, <1>8, <1>9, <1>10, <1>12, ClientStep

\* What a client takes itself to be fits the room it takes itself to be in.
LEMMA OutsidePhase ==
  ASSUME SessionInv, NEW c \in Client, Running(c)
  PROVE  gameRoomId[c] = NoRoom <=> phase[c] = "connect"
<1>1. PICK h : Leads(c, h, Seen(c), toClient[c])
  BY DEF SessionInv, ViewInv, SeesRight
<1>2. toClient[c] \in Seq(ServerMessage)
  BY TypesOfSession, TypesOfClients DEF SessionInv
<1>3. 0 \in 0 .. Len(toClient[c])
  <2>1. Len(toClient[c]) \in Nat
    BY <1>2
  <2> QED BY <2>1
<1>4. Good(c, Seen(c))
  BY <1>1, <1>3 DEF Leads
<1> QED BY <1>4 DEF Good, Seen

\* A message that is about no board, no start and no join.
LEMMA SaysPlainly ==
  ASSUME ClientTypes, NEW c \in Client, NEW m \in ClientMessage, Send(c, m),
         m.type \notin Changes, m.type \notin {"start_game", "join_game_room"},
         UNCHANGED <<phase, gameRoomId, clientId, networkSlots, players, listening, gameRoomClients, toClient>>
  PROVE  SendsPlainly(c) /\ OthersStay(c)
<1>1. toServer'[c] = Append(toServer[c], m) /\ \A d \in Client : d # c => toServer'[d] = toServer[d]
  BY TypesOfClients DEF Send
<1> QED BY <1>1 DEF SendsPlainly, OthersStay, Seen

\* A step that is seen nowhere.
LEMMA SaysNothing ==
  ASSUME NEW c \in Client,
         UNCHANGED <<phase, gameRoomId, clientId, networkSlots, players, listening, gameRoomClients,
                     toServer, toClient>>
  PROVE  SendsPlainly(c) /\ OthersStay(c)
BY DEF SendsPlainly, OthersStay, Seen

\* Users never start a second game.
LEMMA CopyUserStep ==
  ASSUME RepeatedRequests = FALSE, SessionInv, SessionInv', NEW slots, NEW n, NEW r, GameOn(slots, n, r),
         NEW c \in Client, UserCommand(c)
  PROVE  GameOn(slots, n, r)'
<1>0. /\ ClientTypes /\ ClientTypes' /\ left \in [Command -> Nat] /\ left["start"] = 0
      /\ Seated(c, slots, n)
      /\ listening \in [Client -> BOOLEAN] /\ toServer \in [Client -> Seq(ClientMessage)]
      /\ toClient \in [Client -> Seq(ServerMessage)] /\ tetrisGame \in [Client -> Game]
  <2>1. ClientTypes'
    BY DEF SessionInv, TypesInv, SessionTypeOK, ClientTypes
  <2> QED BY <2>1, TypesOfSession, TypesOfClients DEF SessionInv, GameOn
<1>1. UNCHANGED <<vars, usedIds>>
  BY <1>0, Budget
<1>2. UNCHANGED <<roomIdByClientId, usedIds>>
  BY <1>1 DEF vars
<1>3. ASSUME NEW command \in Command, Spend(command) PROVE left'["start"] = 0
  <2>1. "start" \in Command
    BY DEF Command
  <2> QED BY <1>0, <1>3, <2>1 DEF Spend
<1>4. ~(Spend("start") /\ startGame(c))
  BY <1>0 DEF Spend
<1>5. left'["start"] = 0
  <2>1. {"create", "join", "leave", "slot", "start", "pause", "restart", "list", "change", "lose"} \subseteq Command
    BY DEF Command
  <2> QED BY <1>3, <2>1 DEF UserCommand
<1>types. /\ \A isPublic : CreateGameRoom(isPublic).type = "create_game_room"
          /\ \A room : JoinGameRoom(room).type = "join_game_room"
          /\ LeaveGameRoom.type = "leave_game_room" /\ RequestGameRestart.type = "request_game_restart"
          /\ RequestGameRoomList.type = "request_game_room_list"
          /\ \A i, request : PlayerSlot(i, request).type = "player_slot"
          /\ \A p : GameCommand(p).type = "game_command"
  BY DEF CreateGameRoom, JoinGameRoom, LeaveGameRoom, RequestGameRestart, RequestGameRoomList,
         PlayerSlot, GameCommand
<1>plain. {"create_game_room", "leave_game_room", "request_game_restart", "request_game_room_list", "player_slot",
           "game_command", "join_game_room"} \cap Changes = {}
  BY DEF Changes, BoardKind
<1>6. ASSUME NEW m \in ClientMessage, Send(c, m), UNCHANGED <<clientVars, toClient>>,
             m.type \in {"create_game_room", "leave_game_room", "request_game_restart", "request_game_room_list",
                         "player_slot", "game_command"}
      PROVE  GameOn(slots, n, r)'
  <2>1. UNCHANGED <<phase, gameRoomId, clientId, networkSlots, players, listening, gameRoomClients, toClient>>
    BY <1>6 DEF clientVars
  <2>2. m.type \notin Changes /\ m.type \notin {"start_game", "join_game_room"}
    BY <1>6, <1>plain
  <2>3. SendsPlainly(c) /\ OthersStay(c)
    BY <1>0, <1>6, <2>1, <2>2, SaysPlainly
  <2> QED BY <1>0, <1>2, <1>5, <2>3, PlainStep
<1>7. CASE \E isPublic \in BOOLEAN : createGameRoom(c, isPublic)
  <2>1. PICK isPublic \in BOOLEAN : createGameRoom(c, isPublic)
    BY <1>7
  <2>2. CreateGameRoom(isPublic) \in ClientMessage /\ CreateGameRoom(isPublic).type = "create_game_room"
    BY <1>types, RequestTypes
  <2> QED BY <1>6, <2>1, <2>2 DEF createGameRoom
<1>8. CASE MayAsk(c) /\ \E room \in RoomId : KnownRoom(room) /\ joinGameRoom(c, room)
  <2>1. PICK room \in RoomId : joinGameRoom(c, room)
    BY <1>8
  <2> DEFINE m == JoinGameRoom(room)
  <2>2. m \in ClientMessage /\ m.type = "join_game_room" /\ m.type \notin Changes /\ m.type # "start_game"
    BY <1>types, <1>plain, RequestTypes
  <2>3. /\ Running(c) /\ gameRoomId[c] = NoRoom /\ Send(c, m)
        /\ UNCHANGED <<phase, gameRoomId, clientId, networkSlots, players, gameRoomClients, toClient>>
        /\ listening' = [listening EXCEPT ![c] = FALSE]
    BY <2>1 DEF joinGameRoom, isInsideRoom
  <2> HIDE DEF m
  <2>4. phase[c] = "connect"
    BY <2>3, OutsidePhase
  <2>5. NoneOf(toClient[c], {"game_room_joined"})
    <3>1. left["again"] = 0
      BY DEF SessionInv, PatientInv
    <3>2. ~Asking(c)
      BY <1>8, <3>1 DEF MayAsk
    <3>3. DOMAIN toClient[c] = 1 .. Len(toClient[c])
      BY <1>0
    <3> QED BY <3>2, <3>3 DEF Asking, NoneOf
  <2>6. NoneOf(toClient[c], {"create_game"})
    <3>1. PICK last : Linked(Seen(c), toClient[c], last, Views(c, slots))
      BY <1>0, <2>3 DEF Seated
    <3>2. Seen(c).phase = "connect"
      BY <2>4 DEF Seen
    <3>3. toClient[c] \in Seq(ServerMessage)
      BY <1>0
    <3> QED BY <2>5, <3>1, <3>2, <3>3, NoGameOutside
  <2>7. ~listening'[c] /\ \A d \in Client : d # c => listening'[d] = listening[d]
    BY <1>0, <2>3
  <2>8. toServer'[c] = Append(toServer[c], m) /\ \A d \in Client : d # c => toServer'[d] = toServer[d]
    BY <1>0, <2>3 DEF Send
  <2>9. Silent(c)'
    BY <2>3, <2>4, <2>6, <2>7 DEF Silent
  <2>10. OthersStay(c)
    BY <2>3, <2>7, <2>8 DEF OthersStay, Seen
  <2>11. Seen(c)' = Seen(c)
    BY <2>3 DEF Seen
  <2>12. SendsPlainly(c)
    BY <2>2, <2>3, <2>4, <2>7, <2>8, <2>9, <2>11 DEF SendsPlainly
  <2> QED BY <1>0, <1>2, <1>5, <2>10, <2>12, PlainStep
<1>9. CASE leaveGameRoom(c)
  BY <1>6, <1>9, <1>types, RequestTypes DEF leaveGameRoom, InsideSend
<1>10. CASE \E i \in SlotIndex, request \in {"PLAYER", "OPEN_SLOT"} : setPlayerSlot(c, i, request)
  <2>1. PICK i \in SlotIndex, request \in {"PLAYER", "OPEN_SLOT"} : InsideSend(c, PlayerSlot(i, request))
    BY <1>10 DEF setPlayerSlot
  <2>2. PlayerSlot(i, request) \in ClientMessage /\ PlayerSlot(i, request).type = "player_slot"
    BY <1>types, RequestTypes DEF SlotRequest
  <2> QED BY <1>6, <2>1, <2>2 DEF InsideSend
<1>11. CASE pause(c)
  <2>1. CASE InsideSend(c, GameCommand(~tetrisGame[c].paused))
    <3>1. (~tetrisGame[c].paused) \in BOOLEAN
      OBVIOUS
    <3>2. GameCommand(~tetrisGame[c].paused) \in ClientMessage
      BY <3>1, RequestTypes
    <3>3. GameCommand(~tetrisGame[c].paused).type = "game_command"
      BY <1>types
    <3> QED BY <1>6, <2>1, <3>2, <3>3 DEF InsideSend
  <2>2. CASE UNCHANGED <<phase, gameRoomId, clientId, networkSlots, players, listening, gameRoomClients,
                         toServer, toClient>>
    BY <1>0, <1>2, <1>5, <2>2, SaysNothing, PlainStep
  <2> QED BY <1>11, <2>1, <2>2 DEF pause
<1>12. CASE restartGame(c)
  <2>1. CASE InsideSend(c, RequestGameRestart)
    BY <1>6, <2>1, <1>types, RequestTypes DEF InsideSend
  <2>2. CASE /\ ~isInsideRoom(c)
             /\ \E blocks \in Blocks :
                  players' = [players EXCEPT ![c] = Continue(c, DOMAIN players[c], Restart(blocks))]
             /\ UNCHANGED <<phase, gameRoomId, clientId, networkSlots, listening, gameRoomClients,
                            toServer, toClient>>
    <3>1. PICK blocks \in Blocks :
            players' = [players EXCEPT ![c] = Continue(c, DOMAIN players[c], Restart(blocks))]
      BY <2>2
    <3>2. phase[c] # "game"
      BY <2>2, OutsidePhase DEF isInsideRoom, Running
    <3> QED BY <1>0, <1>2, <1>5, <2>2, <3>1, <3>2, AloneStep
  <2> QED BY <1>12, <2>1, <2>2 DEF restartGame
<1>13. CASE requestGameRoomList(c)
  BY <1>6, <1>13, <1>types, RequestTypes DEF requestGameRoomList
<1>14. CASE \E i \in DOMAIN players[c], kind \in BoardKind, v \in BoardValue :
              LocalChange(c, i, [type |-> kind, value |-> v])
  <2>1. PICK i \in DOMAIN players[c], kind \in BoardKind, v \in BoardValue :
          LocalChange(c, i, [type |-> kind, value |-> v])
    BY <1>14
  <2> DEFINE change == [type |-> kind, value |-> v]
  <2>2. change \in [type : BoardKind, value : BoardValue] /\ LocalChange(c, i, change)
    BY <2>1
  <2> HIDE DEF change
  <2> QED BY <1>0, <1>2, <1>5, <2>2, LocalStep
<1>15. CASE LoseConnection(c)
  BY <1>0, <1>2, <1>5, <1>15, LostStep
<1> QED BY <1>4, <1>7, <1>8, <1>9, <1>10, <1>11, <1>12, <1>13, <1>14, <1>15 DEF UserCommand

\* A countdown is over.
LEMMA CopyFrameStep ==
  ASSUME SessionInv, NEW slots, NEW n, NEW r, GameOn(slots, n, r), NEW c \in Client, Frame(c)
  PROVE  GameOn(slots, n, r)'
<1>1. ClientTypes /\ left["start"] = 0
  BY TypesOfSession DEF SessionInv, GameOn
<1>2. /\ UNCHANGED <<phase, gameRoomId, clientId, networkSlots, players, listening, gameRoomClients, toServer, toClient>>
      /\ UNCHANGED <<vars, left, usedIds>>
  BY DEF Frame, updateGame
<1>3. UNCHANGED <<roomIdByClientId, usedIds>> /\ left'["start"] = 0
  BY <1>1, <1>2 DEF vars
<1> QED BY <1>1, <1>2, <1>3, SaysNothing, PlainStep

\* A client is connected.
LEMMA CopyConnectStep ==
  ASSUME SessionInv, NEW slots, NEW n, NEW r, GameOn(slots, n, r), NEW c \in Client, Connect(c)
  PROVE  GameOn(slots, n, r)'
<1>0. /\ ClientTypes /\ left \in [Command -> Nat] /\ left["start"] = 0
      /\ Seated(c, slots, n) /\ TellsOfItsOwn(c, slots, n)
      /\ phase \in [Client -> {"off", "connect", "lobby", "game", "lost"}]
      /\ phase[c] = "off" /\ toServer[c] = << >> /\ toClient[c] = << >>
  BY TypesOfSession, TypesOfClients DEF SessionInv, GameOn, Connect, ConnInv
<1>1. /\ UNCHANGED <<gameRoomId, clientId, networkSlots, players, listening, gameRoomClients, toServer, toClient>>
      /\ UNCHANGED <<roomIdByClientId, usedIds>>
      /\ phase'[c] = "connect" /\ \A d \in Client : d # c => phase'[d] = phase[d]
  BY <1>0 DEF Connect, SpawnCoroutine
<1>2. left'["start"] = 0
  <2>1. "start" \in Command /\ "connect" \in Command
    BY DEF Command
  <2> QED BY <1>0, <2>1 DEF Connect
<1>3. OthersStay(c)
  BY <1>1 DEF OthersStay, Seen
<1>4. NoneOf(<< >>, {"create_game"}) /\ Len(<< >>) = 0 /\ \A types : NoneOf(<< >>, types)
  BY EmptySeq DEF NoneOf
<1>5. Seated(c, slots, n)'
  <2>1. SeatsOf(c, slots, n)' <=> SeatsOf(c, slots, n)
    BY <1>1 DEF SeatsOf
  <2>2. Linked(Seen(c), << >>, Seen(c), Views(c, slots))'
    BY LinkedEmpty
  <2>3. Linked(Seen(c), toClient[c], Seen(c), Views(c, slots))'
    BY <1>0, <1>1, <2>2
  <2>4. \E last : Linked(Seen(c)', toClient'[c], last, Views(c, slots))
    BY <2>3 DEF Views
  <2> QED BY <1>0, <1>1, <1>4, <2>1, <2>4 DEF Seated, Views
<1>6. TellsOfItsOwn(c, slots, n)'
  <2>1. Len(toServer'[c]) = 0 /\ \A types : NoneOf(toServer'[c], types)
    BY <1>0, <1>1, <1>4
  <2> QED BY <2>1 DEF TellsOfItsOwn
<1>7. HearsOn(c, slots, n)
  <2>1. Heard(c, 1) = -2 /\ \A k : Heard(c, k)' = Heard(c, k)
    BY <1>0, <1>1 DEF Heard
  <2> QED BY <1>0, <1>1, <2>1 DEF HearsOn, KnowsOf
<1>8. ASSUME NEW k \in 1 .. n, NEW v \in Nat, Owns(c, slots[k - 1], Own(c, k), v, slots, r)
      PROVE  Owns(c, slots[k - 1], Own(c, k), v, slots, r)'
  <2> DEFINE board == Own(c, k)
  <2>0. board' = board
    BY <1>1 DEF Own
  <2>1. ~Stays(c, slots)
    <3> SUFFICES ASSUME NEW last, Linked(Seen(c), << >>, last, Views(c, slots)), last.phase = "game" PROVE FALSE
      BY <1>0 DEF Stays
    <3>1. Seen(c) = last
      BY LinkedEmpty
    <3> QED BY <1>0, <3>1 DEF Seen
  <2>2. Silent(c) => Silent(c)'
    BY <1>1 DEF Silent
  <2> HIDE DEF board
  <2> QED BY <1>0, <1>1, <1>8, <2>0, <2>1, <2>2 DEF Owns, board
<1>9. OwnsOn(c, slots, n, r)
  <2> SUFFICES ASSUME NEW k \in 1 .. n PROVE Own(c, k)' \in Seq(Change) /\ StartsWith(Own(c, k)', Own(c, k))
    BY <1>8 DEF OwnsOn
  <2>1. Own(c, k)' = Own(c, k)
    BY <1>1 DEF Own
  <2>2. Own(c, k) \in Seq(Change)
    BY <1>0, OwnType DEF Seated
  <2> QED BY <2>1, <2>2 DEF StartsWith
<1> QED BY <1>0, <1>1, <1>2, <1>3, <1>5, <1>6, <1>7, <1>9, ClientStep

\* c takes the next message on its way to it.
Takes(c) ==
  /\ toClient[c] # << >> /\ toClient'[c] = Tail(toClient[c])
  /\ Running(c)
  /\ Seen(c)' = After(Seen(c), Head(toClient[c]))

\* What will be seen of the room after the message.
LEMMA ViewsTail ==
  ASSUME ClientTypes, NEW slots, NEW n, NEW c \in Client, Seated(c, slots, n), Takes(c)
  PROVE  /\ \E last : Linked(Seen(c), toClient[c], last, Views(c, slots))'
         /\ Stays(c, slots) => Stays(c, slots)'
         /\ Head(toClient[c]).type = "create_game" =>
              /\ Head(toClient[c]).slots = slots
              /\ phase[c] = "lobby" /\ networkSlots[c] = View(c, slots)
<1>0. toClient[c] \in Seq(ServerMessage) /\ toClient[c] # << >>
  BY TypesOfClients DEF Takes
<1>1. ASSUME NEW last, Linked(Seen(c), toClient[c], last, Views(c, slots))
      PROVE  /\ Linked(Seen(c)', toClient'[c], last, Views(c, slots))
             /\ Head(toClient[c]).type = "create_game" =>
                  /\ Head(toClient[c]).slots = slots
                  /\ phase[c] = "lobby" /\ networkSlots[c] = View(c, slots)
  <2>1. PICK next : /\ <<Seen(c), Head(toClient[c]), next>> \in Views(c, slots)
                    /\ Linked(next, Tail(toClient[c]), last, Views(c, slots))
    BY <1>0, <1>1, LinkedTail
  <2>2. /\ next = After(Seen(c), Head(toClient[c]))
        /\ Head(toClient[c]).type = "create_game" =>
             /\ Head(toClient[c]).slots = slots
             /\ Seen(c).phase = "lobby" /\ Seen(c).slots = View(c, slots)
    BY <2>1 DEF Views
  <2>3. Seen(c).phase = phase[c] /\ Seen(c).slots = networkSlots[c]
    BY DEF Seen
  <2> QED BY <2>1, <2>2, <2>3 DEF Takes
<1>2. Views(c, slots)' = Views(c, slots)
  BY DEF Views, After, JoinedBy, LeftBy, View
<1>3. \E last : Linked(Seen(c), toClient[c], last, Views(c, slots))
  BY DEF Seated, Takes
<1>4. ASSUME Stays(c, slots) PROVE Stays(c, slots)'
  BY <1>1, <1>2, <1>4 DEF Stays
<1>5. \E last : Linked(Seen(c), toClient[c], last, Views(c, slots))'
  BY <1>1, <1>2, <1>3
<1> QED BY <1>1, <1>3, <1>4, <1>5

\* What a message says of the boards of others is done to the copies.
LEMMA HeardOn ==
  ASSUME ClientTypes, NEW slots, NEW n, NEW c \in Client, Seated(c, slots, n), Takes(c), NEW m, m = Head(toClient[c]),
         m.type # "create_game",
         phase[c] # "game" => phase'[c] # "game",
         phase[c] = "game" => (phase'[c] = "game" <=> ~Leaves(m, c)),
         \A k \in 1 .. n : slots[k - 1].client # c /\ phase[c] = "game" /\ phase'[c] = "game" =>
           players'[c][k].board = IF IsAbout(m, slots[k - 1]) THEN Append(players[c][k].board, ChangeOf(m))
                                                              ELSE players[c][k].board
  PROVE  HearsOn(c, slots, n)
<1> SUFFICES ASSUME NEW k \in 1 .. n, slots[k - 1].client # c, NEW board \in Seq(Change), NEW v \in Known,
                    KnowsOf(c, k, slots[k - 1], board, v)
             PROVE  \E w \in Known : KnowsOf(c, k, slots[k - 1], board, w)' /\ (w >= 0 => w = v)
  BY DEF HearsOn
<1> DEFINE slot == slots[k - 1]
           rest == Tail(toClient[c])
           steps == Hearing(c, slot, board)
<1>0. /\ toClient[c] \in Seq(ServerMessage) /\ toClient[c] # << >> /\ rest \in Seq(ServerMessage)
      /\ toClient'[c] = rest /\ m \in ServerMessage
  BY TypesOfClients, TailOf DEF Takes
<1>1. /\ phase[c] = "game" => StartsWith(board, players[c][k].board)
      /\ Linked(Heard(c, k), toClient[c], v, steps)
  BY DEF KnowsOf
<1>2. PICK x : /\ <<Heard(c, k), m, x>> \in steps
               /\ Linked(x, rest, v, steps)
  <2> HIDE DEF steps
  <2> QED BY <1>0, <1>1, LinkedTail
<1>3. Hears(c, slot, board, Heard(c, k), m, x) /\ x \in Known /\ Heard(c, k) \in Known
  BY <1>2 DEF Hearing
<1> HIDE DEF steps, rest
<1>4. CASE phase[c] # "game"
  <2>1. Heard(c, k) = -2 /\ Heard(c, k)' = -2
    BY <1>4 DEF Heard
  <2>2. x = -2
    BY <1>3, <2>1 DEF Hears
  <2>3. KnowsOf(c, k, slot, board, v)'
    BY <1>0, <1>2, <1>4, <2>1, <2>2 DEF KnowsOf, steps
  <2> QED BY <2>3
<1>5. CASE phase[c] = "game"
  <2> DEFINE copy == players[c][k].board
  <2>0. copy \in Seq(Change)
    BY <1>5, BoardTypes DEF Seated
  <2>1. Heard(c, k) = Len(copy) /\ Len(copy) \in Nat
    BY <1>5, <2>0 DEF Heard
  <2>2. CASE Leaves(m, c)
    <3>1. Heard(c, k)' = -2 /\ phase'[c] # "game"
      BY <1>5, <2>2 DEF Heard
    <3>2. NoneOf(rest, {"create_game"})
      <4>1. NoneOf(toClient[c], {"create_game"})
        BY <1>5 DEF Seated
      <4> QED BY <1>0, <4>1, NoneOfTail DEF rest
    <3>3. \A i \in 1 .. Len(rest) : <<-2, rest[i], -2>> \in steps
      <4> SUFFICES ASSUME NEW i \in 1 .. Len(rest) PROVE <<-2, rest[i], -2>> \in steps
        OBVIOUS
      <4>1. rest[i] \in ServerMessage /\ rest[i].type # "create_game" /\ -2 \in Known
        BY <1>0, <3>2 DEF NoneOf, Known
      <4>2. Hears(c, slot, board, -2, rest[i], -2)
        BY <4>1 DEF Hears
      <4> QED BY <4>1, <4>2, HearingIs DEF steps
    <3>4. Linked(-2, rest, -2, steps)
      BY <1>0, <3>3, LinkedStill
    <3>5. KnowsOf(c, k, slot, board, -2)'
      BY <1>0, <3>1, <3>4 DEF KnowsOf, steps
    <3> QED BY <3>5 DEF Known
  <2>3. CASE ~Leaves(m, c)
    <3>0. phase'[c] = "game"
      BY <1>5, <2>3
    <3>1. CASE IsAbout(m, slot)
      <4>1. IsNext(board, Len(copy), ChangeOf(m)) /\ x = Len(copy) + 1
        BY <1>3, <2>1, <2>3, <3>1 DEF Hears
      <4> DEFINE change == ChangeOf(m)
                 new == Append(copy, change)
      <4>2. players'[c][k].board = new
        BY <1>5, <3>0, <3>1
      <4>3. Len(new) = Len(copy) + 1 /\ \A i \in 1 .. Len(new) : new[i] = IF i = Len(copy) + 1 THEN change ELSE copy[i]
        <5> HIDE DEF change, copy
        <5> QED BY <2>0
      <4>4. StartsWith(board, new)
        <5>1. StartsWith(board, copy)
          BY <1>1, <1>5
        <5>2. Len(new) <= Len(board) /\ board[Len(copy) + 1] = change
          BY <4>1, <4>3, <2>1 DEF IsNext
        <5>3. DOMAIN new = 1 .. Len(new) /\ DOMAIN copy = 1 .. Len(copy)
          <6> HIDE DEF change, copy
          <6> QED BY <2>0
        <5> HIDE DEF change, copy, new
        <5>4. \A i \in 1 .. Len(new) : new[i] = board[i]
          BY <2>1, <4>3, <5>1, <5>2, <5>3 DEF StartsWith
        <5> QED BY <5>2, <5>3, <5>4 DEF StartsWith
      <4>5. Heard(c, k)' = x
        BY <3>0, <4>1, <4>2, <4>3 DEF Heard
      <4>6. KnowsOf(c, k, slot, board, v)'
        BY <1>0, <1>2, <4>2, <4>4, <4>5 DEF KnowsOf, steps
      <4> QED BY <4>6
    <3>2. CASE ~IsAbout(m, slot)
      <4>1. x = Len(copy)
        BY <1>3, <2>1, <2>3, <3>2 DEF Hears
      <4>2. players'[c][k].board = copy
        BY <1>5, <3>0, <3>2
      <4>3. Heard(c, k)' = x
        BY <3>0, <4>1, <4>2 DEF Heard
      <4>4. KnowsOf(c, k, slot, board, v)'
        BY <1>0, <1>1, <1>2, <1>5, <4>2, <4>3 DEF KnowsOf, steps
      <4> QED BY <4>4
    <3> QED BY <3>1, <3>2
  <2> QED BY <2>2, <2>3
<1> QED BY <1>4, <1>5

\* A message that creates no game leaves everybody seated.
LEMMA SeatedOn ==
  ASSUME ClientTypes, NEW slots, NEW n, NEW c \in Client, Seated(c, slots, n), Takes(c),
         Head(toClient[c]).type # "create_game",
         players[c] = << >> => players'[c] = << >>, SeatsOf(c, slots, n) => SeatsOf(c, slots, n)',
         listening'[c] = listening[c], phase'[c] = "game" => phase[c] = "game"
  PROVE  Seated(c, slots, n)' /\ (Silent(c) => Silent(c)')
<1>0. /\ toClient[c] \in Seq(ServerMessage) /\ toClient[c] # << >> /\ toClient'[c] = Tail(toClient[c])
  BY TypesOfClients DEF Takes
<1> DEFINE types == {"create_game"}
<1>1. \E last : Linked(Seen(c), toClient[c], last, Views(c, slots))'
  BY ViewsTail
<1>2. \A j, k \in 1 .. Len(toClient[c]) : toClient[c][j].type \in types /\ toClient[c][k].type \in types => j = k
  BY DEF Seated
<1>3. /\ NoneOf(toClient[c], types) <=> NoneOf(toClient'[c], types)
      /\ \A j, k \in 1 .. Len(toClient'[c]) : toClient'[c][j].type \in types /\ toClient'[c][k].type \in types => j = k
  <2>1. Head(toClient[c]).type \notin types
    OBVIOUS
  <2> HIDE DEF types
  <2> QED BY <1>0, <1>2, <2>1, NoneOfTail
<1>4. Seated(c, slots, n)'
  BY <1>1, <1>3 DEF Seated
<1>5. Silent(c) => Silent(c)'
  BY <1>3 DEF Silent
<1> QED BY <1>4, <1>5

\* Who sends nothing tells of what it told of.
LEMMA SameTells ==
  ASSUME NEW slots, NEW n, NEW c \in Client, TellsOfItsOwn(c, slots, n), toServer'[c] = toServer[c],
         Silent(c) => Silent(c)'
  PROVE  TellsOfItsOwn(c, slots, n)'
BY DEF TellsOfItsOwn

\* Who is told of the boards of others, or of none, and sends nothing, owns what it owned.
LEMMA SameOwns ==
  ASSUME NEW slots, NEW n, NEW r, NEW c \in Client, ClientTypes, Seated(c, slots, n), Takes(c),
         toServer'[c] = toServer[c], roomIdByClientId'[c] = roomIdByClientId[c], Silent(c) => Silent(c)',
         \A k \in 1 .. n : slots[k - 1].client = c => Own(c, k)' = Own(c, k)
  PROVE  OwnsOn(c, slots, n, r)
<1> SUFFICES ASSUME NEW k \in 1 .. n, slots[k - 1].client = c
             PROVE  /\ Own(c, k)' \in Seq(Change) /\ StartsWith(Own(c, k)', Own(c, k))
                    /\ \A v \in Nat : Owns(c, slots[k - 1], Own(c, k), v, slots, r)
                                        => Owns(c, slots[k - 1], Own(c, k), v, slots, r)'
  BY DEF OwnsOn
<1>1. Own(c, k)' = Own(c, k) /\ Own(c, k) \in Seq(Change)
  BY OwnType DEF Seated
<1>2. Stays(c, slots) => Stays(c, slots)'
  BY ViewsTail
<1>3. phase[c] # "lost"
  BY DEF Takes, Running
<1>4. ASSUME NEW v \in Nat, Owns(c, slots[k - 1], Own(c, k), v, slots, r)
      PROVE  Owns(c, slots[k - 1], Own(c, k), v, slots, r)'
  <2> DEFINE board == Own(c, k)
             slot == slots[k - 1]
  <2>1. board' = board
    BY <1>1
  <2> HIDE DEF board, slot
  <2>2. Owns(c, slot, board, v, slots, r)
    BY <1>4 DEF board, slot
  <2>3. \/ roomIdByClientId[c] # r
        \/ NoneOf(toServer[c], Changes) /\ Silent(c)
        \/ \E w \in Said : /\ Linked(v, toServer[c], w, Saying(slot, board))
                           /\ w = -1 \/ phase[c] = "lost" \/ (w = Len(board) /\ Stays(c, slots))
    BY <2>2 DEF Owns
  <2>4. \/ roomIdByClientId'[c] # r
        \/ NoneOf(toServer'[c], Changes) /\ Silent(c)'
        \/ \E w \in Said : /\ Linked(v, toServer'[c], w, Saying(slot, board))
                           /\ w = -1 \/ phase'[c] = "lost" \/ (w = Len(board) /\ Stays(c, slots)')
    BY <1>2, <1>3, <2>3
  <2>5. Owns(c, slot, board, v, slots, r)'
    <3>1. slot' = slot
      BY DEF slot
    <3> QED BY <2>1, <2>4, <3>1 DEF Owns
  <2> QED BY <2>5 DEF board, slot
<1> QED BY <1>1, <1>4 DEF StartsWith

\* A message that concerns no board.
LEMMA NoBoardStep ==
  ASSUME NEW slots, NEW n, NEW r, GameOn(slots, n, r), ClientTypes, NEW c \in Client, OthersStay(c),
         UNCHANGED <<roomIdByClientId, usedIds>>, left'["start"] = 0, Takes(c), NEW m, m = Head(toClient[c]),
         players'[c] = players[c], listening'[c] = listening[c], toServer'[c] = toServer[c],
         m.type # "create_game",
         phase[c] # "game" => phase'[c] # "game",
         phase[c] = "game" => (phase'[c] = "game" <=> ~Leaves(m, c)),
         \A k \in 1 .. n : slots[k - 1].client # c /\ phase[c] = "game" => ~IsAbout(m, slots[k - 1])
  PROVE  GameOn(slots, n, r)'
<1>1. Seated(c, slots, n) /\ TellsOfItsOwn(c, slots, n)
  BY DEF GameOn
<1>2. (SeatsOf(c, slots, n)' <=> SeatsOf(c, slots, n)) /\ \A k : Own(c, k)' = Own(c, k)
  BY DEF SeatsOf, Own
<1>3. Seated(c, slots, n)' /\ (Silent(c) => Silent(c)')
  BY <1>1, <1>2, SeatedOn
<1>4. TellsOfItsOwn(c, slots, n)'
  BY <1>1, <1>3, SameTells
<1>5. HearsOn(c, slots, n)
  BY <1>1, HeardOn
<1>6. OwnsOn(c, slots, n, r)
  BY <1>1, <1>2, <1>3, SameOwns
<1> QED BY <1>3, <1>4, <1>5, <1>6, ClientStep

\* A message in a game of which c makes something of the boards of others.
LEMMA OthersBoardStep ==
  ASSUME NEW slots, NEW n, NEW r, GameOn(slots, n, r), ClientTypes, ClientTypes', NEW c \in Client, OthersStay(c),
         UNCHANGED <<roomIdByClientId, usedIds>>, left'["start"] = 0, Takes(c), NEW m, m = Head(toClient[c]),
         listening'[c] = listening[c], toServer'[c] = toServer[c], phase[c] = "game", phase'[c] = "game",
         m.type \in Changes, ChangeOf(m) \in Change, NEW which, Grows(c, which, ChangeOf(m)),
         \A k \in 1 .. n : k \in which <=> slots[k - 1].client # c /\ IsAbout(m, slots[k - 1])
  PROVE  GameOn(slots, n, r)'
<1> DEFINE change == ChangeOf(m)
<1>1. /\ Seated(c, slots, n) /\ TellsOfItsOwn(c, slots, n) /\ n \in Nat
      /\ SeatsOf(c, slots, n) /\ Len(players[c]) = n
      /\ players[c] \in Seq(Player) /\ change \in Change /\ Grows(c, which, change)
  <2>1. Seated(c, slots, n) /\ TellsOfItsOwn(c, slots, n) /\ n \in Nat
    BY DEF GameOn, TakenInOrder
  <2>2. SeatsOf(c, slots, n) /\ Len(players[c]) = n
    BY <2>1 DEF Seated, SeatsOf
  <2>3. players[c] \in Seq(Player)
    BY TypesOfClients
  <2> QED BY <2>1, <2>2, <2>3
<1>2. m.type # "create_game" /\ m.type # "leave_game_room"
  BY DEF Changes, BoardKind
<1>3. CASE players[c] = << >>
  <2>1. n = 0 /\ players'[c] = << >>
    <3>1. players'[c] \in Seq(Player)
      BY TypesOfClients DEF ClientTypes, NetworkTypeOK
    <3> QED BY <1>1, <1>3, <3>1, EmptySeq DEF Grows
  <2>2. SeatsOf(c, slots, n)'
    BY <2>1 DEF SeatsOf
  <2>3. Seated(c, slots, n)' /\ (Silent(c) => Silent(c)')
    BY <1>1, <1>2, <2>1, <2>2, SeatedOn
  <2>4. TellsOfItsOwn(c, slots, n)'
    BY <1>1, <2>3, SameTells
  <2>5. HearsOn(c, slots, n) /\ OwnsOn(c, slots, n, r)
    BY <2>1 DEF HearsOn, OwnsOn
  <2> QED BY <2>3, <2>4, <2>5, ClientStep
<1>4. CASE players[c] # << >>
  <2> HIDE DEF change
  <2>1. /\ SeatsOf(c, slots, n)'
        /\ \A k \in 1 .. n : Own(c, k)' = IF players[c] # << >> /\ k \in which THEN Append(Own(c, k), change) ELSE Own(c, k)
    <3>1. n \in Nat /\ change \in Change /\ (players[c] = << >> \/ SeatsOf(c, slots, n))
      BY <1>1
    <3>2. Grows(c, which, change)
      BY <1>1
    <3>3. SeatsOf(c, slots, n)
      BY <1>1
    <3>4. /\ SeatsOf(c, slots, n) => SeatsOf(c, slots, n)'
          /\ players[c] = << >> <=> players'[c] = << >>
          /\ \A k \in 1 .. n :
               /\ Own(c, k)' = IF players[c] # << >> /\ k \in which THEN Append(Own(c, k), change) ELSE Own(c, k)
               /\ Own(c, k)' \in Seq(Change) /\ StartsWith(Own(c, k)', Own(c, k))
      BY <3>1, <3>2, GrowsSeats
    <3> QED BY <3>3, <3>4
  <2>2. players'[c] # << >> /\ \A k \in 1 .. n : Own(c, k) = players[c][k].board /\ Own(c, k)' = players'[c][k].board
    <3>1. players[c] = << >> <=> players'[c] = << >>
      <4>1. players'[c] \in Seq(Player)
        BY TypesOfClients DEF ClientTypes, NetworkTypeOK
      <4> QED BY <1>1, <4>1, EmptySeq DEF Grows
    <3> QED BY <1>4, <3>1 DEF Own
  <2>3. Seated(c, slots, n)' /\ (Silent(c) => Silent(c)')
    BY <1>1, <1>2, <1>4, <2>1, SeatedOn
  <2>4. TellsOfItsOwn(c, slots, n)'
    BY <1>1, <2>3, SameTells
  <2>5. HearsOn(c, slots, n)
    <3>1. \A k \in 1 .. n : slots[k - 1].client # c =>
            players'[c][k].board = IF IsAbout(m, slots[k - 1]) THEN Append(players[c][k].board, change)
                                                               ELSE players[c][k].board
      BY <1>4, <2>1, <2>2
    <3>2. ~Leaves(m, c)
      BY <1>2 DEF Leaves
    <3> QED BY <1>1, <1>2, <3>1, <3>2, HeardOn DEF change
  <2>6. OwnsOn(c, slots, n, r)
    BY <1>1, <2>1, <2>3, SameOwns
  <2> QED BY <2>3, <2>4, <2>5, <2>6, ClientStep
<1> QED BY <1>3, <1>4

\* c restarts its own boards and tells the others.
LEMMA RestartStep ==
  ASSUME NEW slots, NEW n, NEW r, GameOn(slots, n, r), ClientTypes, ClientTypes', NEW c \in Client, OthersStay(c),
         UNCHANGED <<roomIdByClientId, usedIds>>, left'["start"] = 0, Takes(c),
         Head(toClient[c]).type = "request_game_restart",
         listening'[c] = listening[c], phase[c] = "game", phase'[c] = "game",
         NEW blocks \in Blocks, toServer'[c] = Append(toServer[c], GameRestart(blocks)),
         NEW which, \A k \in 1 .. n : k \in which <=> slots[k - 1].client = c, Grows(c, which, Restart(blocks))
  PROVE  GameOn(slots, n, r)'
<1> DEFINE change == Restart(blocks)
           reply == GameRestart(blocks)
<1>1. /\ Seated(c, slots, n) /\ TellsOfItsOwn(c, slots, n) /\ n \in Nat
      /\ SeatsOf(c, slots, n) /\ Len(players[c]) = n
      /\ players[c] \in Seq(Player) /\ change \in Change /\ Grows(c, which, change)
      /\ toServer[c] \in Seq(ClientMessage)
  <2>1. Seated(c, slots, n) /\ TellsOfItsOwn(c, slots, n) /\ n \in Nat
    BY DEF GameOn, TakenInOrder
  <2>2. SeatsOf(c, slots, n) /\ Len(players[c]) = n
    BY <2>1 DEF Seated, SeatsOf
  <2>3. players[c] \in Seq(Player) /\ toServer[c] \in Seq(ClientMessage)
    BY TypesOfClients
  <2>4. change \in Change
    BY DEF Change, Restart
  <2> QED BY <2>1, <2>2, <2>3, <2>4
<1>2. /\ reply \in ClientMessage /\ reply.type = "game_restart" /\ ChangeOf(reply) = change
      /\ reply.type \in Changes /\ reply.type \notin BoardKind
      /\ \A slot : IsSaid(reply, slot)
  <2>1. reply \in ClientMessage
    BY RequestTypes
  <2>2. reply.type = "game_restart" /\ reply.blocks = blocks
    BY DEF GameRestart
  <2> QED BY <2>1, <2>2 DEF ChangeOf, Changes, BoardKind, IsSaid
<1> HIDE DEF change, reply
<1>3. /\ SeatsOf(c, slots, n)'
      /\ \A k \in 1 .. n : Own(c, k)' \in Seq(Change) /\ StartsWith(Own(c, k)', Own(c, k))
      /\ \A k \in 1 .. n : slots[k - 1].client = c => Own(c, k)' = Append(Own(c, k), change)
      /\ \A k \in 1 .. n : slots[k - 1].client # c => players'[c][k].board = players[c][k].board
  <2>1. n \in Nat /\ change \in Change /\ (players[c] = << >> \/ SeatsOf(c, slots, n))
    BY <1>1
  <2>2. Grows(c, which, change)
    BY <1>1
  <2>3. /\ SeatsOf(c, slots, n) => SeatsOf(c, slots, n)'
        /\ players[c] = << >> <=> players'[c] = << >>
        /\ \A k \in 1 .. n :
             /\ Own(c, k)' = IF players[c] # << >> /\ k \in which THEN Append(Own(c, k), change) ELSE Own(c, k)
             /\ Own(c, k)' \in Seq(Change) /\ StartsWith(Own(c, k)', Own(c, k))
    BY <2>1, <2>2, GrowsSeats
  <2>4. \A k \in 1 .. n : players[c] # << >>
    <3>1. players[c] = << >> => n = 0
      BY <1>1, EmptySeq
    <3> QED BY <1>1, <3>1
  <2>5. \A k \in 1 .. n : slots[k - 1].client # c => players'[c][k].board = players[c][k].board
    BY <1>1, <2>2 DEF Grows
  <2> QED BY <1>1, <2>3, <2>4, <2>5
<1>4. Seated(c, slots, n)' /\ (Silent(c) => Silent(c)')
  <2>1. players[c] = << >> => players'[c] = << >>
    <3>1. players'[c] \in Seq(Player)
      BY TypesOfClients DEF ClientTypes, NetworkTypeOK
    <3> QED BY <1>1, <3>1, EmptySeq DEF Grows
  <2>2. Head(toClient[c]).type # "create_game"
    OBVIOUS
  <2> QED BY <1>1, <1>3, <2>1, <2>2, SeatedOn
<1>5. TellsOfItsOwn(c, slots, n)'
  <2>1. NoneOf(toServer[c], {"join_game_room"})
    BY <1>1 DEF TellsOfItsOwn, Silent
  <2>2. toServer'[c] = Append(toServer[c], reply)
    BY DEF reply
  <2> QED BY <1>1, <1>2, <2>1, <2>2, TellsOn
<1>6. HearsOn(c, slots, n)
  <2> DEFINE m == Head(toClient[c])
  <2>1. m.type # "create_game" /\ ~Leaves(m, c) /\ \A slot : ~IsAbout(m, slot)
    BY DEF Leaves, IsAbout, BoardKind
  <2> HIDE DEF m
  <2>2. m = Head(toClient[c])
    BY DEF m
  <2> QED BY <1>1, <1>3, <2>1, <2>2, HeardOn
<1>7. ASSUME NEW k \in 1 .. n, slots[k - 1].client = c, NEW v \in Nat, Owns(c, slots[k - 1], Own(c, k), v, slots, r)
      PROVE  Owns(c, slots[k - 1], Own(c, k), v, slots, r)'
  <2> DEFINE slot == slots[k - 1]
             old == Own(c, k)
             new == Own(c, k)'
  <2>1. CASE roomIdByClientId[c] # r
    BY <2>1 DEF Owns
  <2>2. CASE NoneOf(toServer[c], Changes) /\ Silent(c)
    BY <2>2 DEF Silent
  <2>3. ASSUME NEW w \in Said, Linked(v, toServer[c], w, Saying(slot, old)),
               w = -1 \/ phase[c] = "lost" \/ (w = Len(old) /\ Stays(c, slots))
        PROVE  Owns(c, slot, Own(c, k), v, slots, r)'
    <3>1. old \in Seq(Change) /\ new \in Seq(Change) /\ new = Append(old, change)
      BY <1>1, <1>3, <1>7, OwnType
    <3>2. w = -1 \/ (w = Len(old) /\ Stays(c, slots))
      BY <2>3 DEF Takes, Running
    <3>3. Stays(c, slots) => Stays(c, slots)'
      BY <1>1, ViewsTail
    <3>4. /\ reply.type # "leave_game_room"
          /\ IsSaid(reply, slot) => new = Append(old, ChangeOf(reply))
          /\ ~IsSaid(reply, slot) => new = old
      BY <1>2, <3>1
    <3> HIDE DEF old, new, slot
    <3>5. w = -1 \/ w = Len(old)
      BY <3>2
    <3>6. toServer[c] \in Seq(ClientMessage) /\ reply \in ClientMessage /\ old \in Seq(Change) /\ new \in Seq(Change)
      BY <1>1, <1>2, <3>1
    <3>8. Linked(v, toServer[c], w, Saying(slot, old))
      BY <2>3
    <3>9. PICK x \in Said : /\ Linked(v, Append(toServer[c], reply), x, Saying(slot, new))
                            /\ x = IF w = -1 THEN -1 ELSE Len(new)
      BY <3>4, <3>5, <3>6, <3>8, SaidOn, SMTT(60)
    <3>7. Linked(v, toServer'[c], x, Saying(slot, new)) /\ (x = -1 \/ (x = Len(new) /\ Stays(c, slots)'))
      BY <3>2, <3>3, <3>9 DEF reply
    <3> QED BY <3>7 DEF Owns, new, slot
  <2> QED BY <1>7, <2>1, <2>2, <2>3 DEF Owns
<1>8. OwnsOn(c, slots, n, r)
  BY <1>3, <1>7 DEF OwnsOn
<1> QED BY <1>4, <1>5, <1>6, <1>8, ClientStep

\* c begins the game that was on its way.
LEMMA CreatedStep ==
  ASSUME NEW slots, NEW n, NEW r, GameOn(slots, n, r), ClientTypes, ClientTypes', NEW c \in Client, OthersStay(c),
         UNCHANGED <<roomIdByClientId, usedIds>>, left'["start"] = 0, Takes(c),
         Head(toClient[c]).type = "create_game", clientId[c] = c, phase'[c] = "game", listening'[c] = TRUE,
         players'[c] = PlayersOf(c, Head(toClient[c]).slots), toServer'[c] = toServer[c]
  PROVE  GameOn(slots, n, r)'
<1> DEFINE m == Head(toClient[c])
           rest == Tail(toClient[c])
<1>0. /\ TakenInOrder(slots, n) /\ n \in Nat
      /\ Seated(c, slots, n) /\ TellsOfItsOwn(c, slots, n)
      /\ toClient[c] \in Seq(ServerMessage) /\ toClient[c] # << >> /\ toClient'[c] = rest
      /\ rest \in Seq(ServerMessage) /\ m \in ServerMessage
  BY TypesOfClients, TailOf DEF GameOn, TakenInOrder, Takes
<1>1. m.slots = slots /\ phase[c] = "lobby" /\ networkSlots[c] = View(c, slots)
  BY <1>0, ViewsTail
<1>2. /\ Len(players'[c]) = n
      /\ \A k \in 1 .. n :
           /\ players'[c][k].player = slots[k - 1].player
           /\ players'[c][k].client = slots[k - 1].client
           /\ players'[c][k].local <=> slots[k - 1].client = c
           /\ players'[c][k].index = k
           /\ players'[c][k].board = << >>
  BY <1>0, <1>1, SeatsMade
<1>3. SeatsOf(c, slots, n)'
  BY <1>2 DEF SeatsOf
<1>4. ~NoneOf(toClient[c], {"create_game"}) /\ NoneOf(rest, {"create_game"})
  <2> DEFINE types == {"create_game"}
  <2>1. Head(toClient[c]) = toClient[c][1] /\ 1 \in 1 .. Len(toClient[c])
    BY <1>0, TailOf
  <2>2. \A j, k \in 1 .. Len(toClient[c]) : toClient[c][j].type \in types /\ toClient[c][k].type \in types => j = k
    BY <1>0 DEF Seated
  <2>3. Head(toClient[c]).type \in types
    OBVIOUS
  <2>4. ~NoneOf(toClient[c], types)
    BY <2>1, <2>3 DEF NoneOf
  <2> HIDE DEF types
  <2>5. NoneOf(rest, types)
    BY <1>0, <2>2, <2>3, NoneOfTail
  <2> QED BY <2>4, <2>5 DEF types
<1> HIDE DEF m, rest
<1>5. Seated(c, slots, n)'
  <2>1. \E last : Linked(Seen(c), toClient[c], last, Views(c, slots))'
    BY <1>0, ViewsTail
  <2>2. NoneOf(toClient'[c], {"create_game"})
    BY <1>0, <1>4
  <2>3. \A k \in 1 .. Len(toClient'[c]) : toClient'[c][k].type # "create_game"
    BY <2>2 DEF NoneOf
  <2> QED BY <1>3, <2>1, <2>2, <2>3 DEF Seated
<1>6. ~Silent(c) /\ players[c] = << >>
  BY <1>0, <1>4 DEF Silent, Seated
<1>7. TellsOfItsOwn(c, slots, n)'
  BY <1>0, <1>6 DEF TellsOfItsOwn
<1>8. \A k \in 1 .. n : Own(c, k) = << >> /\ Own(c, k)' = << >>
  <2> SUFFICES ASSUME NEW k \in 1 .. n PROVE Own(c, k) = << >> /\ Own(c, k)' = << >>
    OBVIOUS
  <2> QED BY <1>2, <1>6 DEF Own
<1>9. HearsOn(c, slots, n)
  <2> SUFFICES ASSUME NEW k \in 1 .. n, slots[k - 1].client # c, NEW board \in Seq(Change), NEW v \in Known,
                      KnowsOf(c, k, slots[k - 1], board, v)
               PROVE  KnowsOf(c, k, slots[k - 1], board, v)'
    BY DEF HearsOn
  <2> DEFINE steps == Hearing(c, slots[k - 1], board)
  <2>1. Heard(c, k) = -2 /\ Heard(c, k)' = 0
    <3>1. players'[c][k].board = << >>
      BY <1>2
    <3> QED BY <1>1, <3>1 DEF Heard
  <2>2. Linked(Heard(c, k), toClient[c], v, steps)
    BY DEF KnowsOf
  <2>3. PICK x : <<-2, m, x>> \in steps /\ Linked(x, rest, v, steps)
    <3> HIDE DEF steps
    <3> QED BY <1>0, <2>1, <2>2, LinkedTail DEF m, rest
  <2>4. x = 0
    BY <2>3 DEF Hearing, Hears, m
  <2>5. StartsWith(board, players'[c][k].board)
    BY <1>2, EmptySeq DEF StartsWith
  <2> QED BY <1>0, <2>1, <2>3, <2>4, <2>5 DEF KnowsOf
<1>10. ASSUME NEW k \in 1 .. n, NEW v \in Nat, Owns(c, slots[k - 1], Own(c, k), v, slots, r)
       PROVE  Owns(c, slots[k - 1], Own(c, k), v, slots, r)'
  <2> DEFINE slot == slots[k - 1]
             board == Own(c, k)
  <2>1. board' = board
    BY <1>8
  <2>2. Stays(c, slots) => Stays(c, slots)'
    BY <1>0, ViewsTail
  <2>3. phase[c] # "lost"
    BY <1>1
  <2> HIDE DEF board, slot
  <2>4. Owns(c, slot, board, v, slots, r)
    BY <1>10 DEF board, slot
  <2>5. \/ roomIdByClientId'[c] # r
        \/ \E w \in Said : /\ Linked(v, toServer'[c], w, Saying(slot, board))
                           /\ w = -1 \/ (w = Len(board) /\ Stays(c, slots)')
    BY <1>6, <2>2, <2>3, <2>4 DEF Owns
  <2>6. slot' = slot
    BY DEF slot
  <2>7. Owns(c, slot, board, v, slots, r)'
    BY <2>1, <2>5, <2>6 DEF Owns
  <2> QED BY <2>7 DEF board, slot
<1>11. OwnsOn(c, slots, n, r)
  <2> SUFFICES ASSUME NEW k \in 1 .. n PROVE Own(c, k)' \in Seq(Change) /\ StartsWith(Own(c, k)', Own(c, k))
    BY <1>10 DEF OwnsOn
  <2>1. << >> \in Seq(Change) /\ StartsWith(<< >>, << >>)
    BY DEF StartsWith
  <2> QED BY <1>8, <2>1
<1> QED BY <1>5, <1>7, <1>9, <1>11, ClientStep

\* No handler changes the boards, the listening or the messages of another client.
LEMMA OthersReceive ==
  ASSUME ClientTypes, NEW c \in Client, nextMessage(c)
  PROVE  \A d \in Client : d # c => /\ players'[d] = players[d] /\ listening'[d] = listening[d]
                                    /\ toServer'[d] = toServer[d] /\ toClient'[d] = toClient[d]
                                    /\ phase'[d] = phase[d]
<1>0. /\ players \in [Client -> Seq(Player)] /\ listening \in [Client -> BOOLEAN]
      /\ phase \in [Client -> {"off", "connect", "lobby", "game", "lost"}]
      /\ toServer \in [Client -> Seq(ClientMessage)] /\ toClient \in [Client -> Seq(ServerMessage)]
  BY TypesOfClients
<1> DEFINE m == Head(toClient[c])
           Same(old, new) == \A d \in Client : d # c => new[d] = old[d]
<1>1. Same(toClient, toClient')
  BY <1>0 DEF nextMessage
<1>2. \/ HandleInConnect(c, m) \/ HandleInLobby(c, m) \/ HandleInGame(c, m)
  BY DEF nextMessage
<1> HIDE DEF m
<1>3. CASE Skip
  BY <1>1, <1>3 DEF Skip, clientVars
<1>4. CASE handleGameLooby(c, m)
  BY <1>1, <1>4 DEF handleGameLooby
<1>5. CASE handleGameRoomJoined(c, m)
  BY <1>0, <1>1, <1>5 DEF handleGameRoomJoined
<1>6. CASE handleLeaveGameRoom(c, m)
  <2>1. Same(phase, phase')
    BY <1>0, <1>6 DEF handleLeaveGameRoom
  <2> QED BY <1>1, <1>6, <2>1 DEF handleLeaveGameRoom
<1>7. CASE handleCreateGame(c, m)
  BY <1>0, <1>1, <1>7 DEF handleCreateGame
<1>8. CASE handleGameCommand(c, m)
  BY <1>1, <1>8 DEF handleGameCommand
<1>9. CASE handleRequestGameRestart(c, m)
  BY <1>0, <1>1, <1>9 DEF handleRequestGameRestart, Send
<1>10. CASE handleGameRestart(c, m)
  <2>1. CASE m.client = clientId[c]
    BY <1>3, <1>10, <2>1 DEF handleGameRestart
  <2>2. CASE m.client # clientId[c]
    BY <1>0, <1>1, <1>10, <2>2 DEF handleGameRestart
  <2> QED BY <2>1, <2>2
<1>11. CASE handleBoard(c, m)
  BY <1>0, <1>1, <1>11 DEF handleBoard
<1>12. CASE handleRemoveClient(c, m)
  BY <1>0, <1>1, <1>12 DEF handleRemoveClient
<1> QED BY <1>2, <1>3, <1>4, <1>5, <1>6, <1>7, <1>8, <1>9, <1>10, <1>11, <1>12
        DEF HandleInConnect, HandleInLobby, HandleInGame

\* c takes the message, and nothing changes at the others.
LEMMA ReceiveTakes ==
  ASSUME SessionInv, NEW c \in Client, ClientReceives(c)
  PROVE  /\ Running(c) /\ toClient[c] # << >> /\ Good(c, Seen(c))
         /\ phase[c] \in {"lobby", "game"} => KnowsRoom(c) /\ clientId[c] = c
         /\ Seen(c)' = After(Seen(c), Head(toClient[c])) /\ SameOthers(c)
         /\ toClient'[c] = Tail(toClient[c])
         /\ Takes(c) /\ OthersStay(c)
<1> DEFINE m == Head(toClient[c])
<1>0. ClientTypes /\ toClient \in [Client -> Seq(ServerMessage)]
  <2>1. ClientTypes
    BY TypesOfSession DEF SessionInv
  <2> QED BY <2>1, TypesOfClients
<1>1. nextMessage(c) /\ UNCHANGED <<vars, left, usedIds>>
  BY DEF ClientReceives
<1>3. Running(c) /\ toClient[c] # << >>
  BY <1>1 DEF nextMessage, Running
<1>4. Good(c, Seen(c))
  <2>1. PICK h : Leads(c, h, Seen(c), toClient[c])
    BY <1>3 DEF SessionInv, ViewInv, SeesRight
  <2>2. 0 \in 0 .. Len(toClient[c])
    <3>1. toClient[c] \in Seq(ServerMessage)
      BY <1>0
    <3> QED BY <3>1
  <2> QED BY <2>1, <2>2 DEF Leads
<1>5. phase[c] \in {"lobby", "game"} => KnowsRoom(c) /\ clientId[c] = c
  BY <1>4 DEF Good, Seen, KnowsRoom
<1>6. /\ Seen(c)' = After(Seen(c), m) /\ SameOthers(c)
      /\ toClient'[c] = Tail(toClient[c])
  BY <1>0, <1>1, <1>5, MessageSteps
<1>7. Takes(c)
  BY <1>3, <1>6 DEF Takes
<1>8. OthersStay(c)
  BY <1>0, <1>1, <1>6, OthersReceive DEF OthersStay, SameOthers
<1> QED BY <1>3, <1>4, <1>5, <1>6, <1>7, <1>8

\* c handles a message.
LEMMA CopyReceiveStep ==
  ASSUME SessionInv, SessionInv', NEW slots, NEW n, NEW r, GameOn(slots, n, r), NEW c \in Client,
         NoneOf(toClient[c], {"remove_client"}), ClientReceives(c)
  PROVE  GameOn(slots, n, r)'
<1> DEFINE m == Head(toClient[c])
<1>0. /\ ClientTypes /\ ClientTypes' /\ left["start"] = 0
      /\ Seated(c, slots, n) /\ n \in Nat
      /\ players \in [Client -> Seq(Player)] /\ listening \in [Client -> BOOLEAN]
      /\ phase \in [Client -> {"off", "connect", "lobby", "game", "lost"}]
      /\ toServer \in [Client -> Seq(ClientMessage)] /\ toClient \in [Client -> Seq(ServerMessage)]
  <2>1. ClientTypes'
    BY DEF SessionInv, TypesInv, SessionTypeOK, ClientTypes
  <2>2. ClientTypes
    BY TypesOfSession DEF SessionInv
  <2> QED BY <2>1, <2>2, TypesOfClients DEF GameOn, TakenInOrder
<1>1. nextMessage(c) /\ UNCHANGED <<vars, left, usedIds>>
  BY DEF ClientReceives
<1>2. UNCHANGED <<roomIdByClientId, usedIds>> /\ left'["start"] = 0
  BY <1>0, <1>1 DEF vars
<1>3. /\ Running(c) /\ toClient[c] # << >> /\ Good(c, Seen(c))
      /\ phase[c] \in {"lobby", "game"} => KnowsRoom(c) /\ clientId[c] = c
      /\ Seen(c)' = After(Seen(c), m) /\ SameOthers(c)
      /\ toClient'[c] = Tail(toClient[c])
      /\ Takes(c) /\ OthersStay(c)
  BY ReceiveTakes
<1>4. Good(c, Seen(c))
  BY <1>3
<1>5. phase[c] \in {"lobby", "game"} => KnowsRoom(c) /\ clientId[c] = c
  BY <1>3
<1>6. /\ Seen(c)' = After(Seen(c), m) /\ SameOthers(c)
      /\ toClient'[c] = Tail(toClient[c])
  BY <1>3
<1>7. Takes(c)
  BY <1>3
<1>8. OthersStay(c)
  BY <1>3
<1>9. m \in ServerMessage /\ m.type # "remove_client"
  <2>1. toClient[c] \in Seq(ServerMessage)
    BY <1>0
  <2>2. 1 \in 1 .. Len(toClient[c]) /\ m = toClient[c][1] /\ m \in ServerMessage
    BY <1>3, <2>1, TailOf
  <2> QED BY <2>2 DEF NoneOf
<1>10. m.type = "create_game" => m.slots = slots /\ phase[c] = "lobby" /\ networkSlots[c] = View(c, slots)
  BY <1>0, <1>7, ViewsTail
<1>11. \/ phase[c] = "connect" /\ HandleInConnect(c, m)
       \/ phase[c] = "lobby" /\ HandleInLobby(c, m)
       \/ phase[c] = "game" /\ HandleInGame(c, m)
  BY <1>1 DEF nextMessage
<1>12. phase[c] = "game" => /\ SeatsOf(c, slots, n) /\ players[c] \in Seq(Player)
                            /\ DOMAIN players[c] = 1 .. n
  BY <1>0 DEF Seated, SeatsOf
<1>kinds. "game_restart" \notin BoardKind /\ "leave_game_room" \notin BoardKind /\ "create_game" \notin BoardKind
          /\ "game_command" \notin BoardKind /\ "request_game_restart" \notin BoardKind
          /\ "game_looby" \notin BoardKind /\ "game_room_joined" \notin BoardKind /\ "game_room_list" \notin BoardKind
  BY DEF BoardKind
<1> HIDE DEF m
\* The handlers that change neither players nor what is sent.
<1>plain. ASSUME UNCHANGED <<players, listening, toServer>>, m.type # "create_game",
                 phase[c] # "game" => phase'[c] # "game",
                 phase[c] = "game" => (phase'[c] = "game" <=> ~Leaves(m, c)),
                 \A k \in 1 .. n : slots[k - 1].client # c /\ phase[c] = "game" => ~IsAbout(m, slots[k - 1])
          PROVE  GameOn(slots, n, r)'
  <2>1. players'[c] = players[c] /\ listening'[c] = listening[c] /\ toServer'[c] = toServer[c] /\ m = Head(toClient[c])
    BY <1>plain DEF m
  <2> QED BY <1>0, <1>2, <1>7, <1>8, <1>plain, <2>1, NoBoardStep
<1>13. CASE Skip /\ (phase[c] = "game" => m.type \notin {"game_restart", "leave_game_room"} \cup BoardKind)
            /\ (phase[c] = "lobby" => m.type # "create_game")
  <2>1. UNCHANGED <<players, listening, toServer, phase>>
    BY <1>13 DEF Skip, clientVars
  <2>2. m.type # "create_game"
    BY <1>10, <1>13
  <2> QED BY <1>13, <1>plain, <2>1, <2>2 DEF Leaves, IsAbout
<1>14. CASE phase[c] = "lobby" /\ m.type = "game_looby" /\ handleGameLooby(c, m)
  BY <1>14, <1>plain DEF handleGameLooby
<1>15. CASE phase[c] \in {"connect", "lobby"} /\ m.type = "game_room_joined" /\ handleGameRoomJoined(c, m)
  <2>1. UNCHANGED <<players, listening, toServer>> /\ phase'[c] = "lobby"
    BY <1>0, <1>15 DEF handleGameRoomJoined
  <2> QED BY <1>15, <1>plain, <2>1
<1>16. CASE phase[c] \in {"lobby", "game"} /\ m.type = "leave_game_room" /\ handleLeaveGameRoom(c, m)
  <2>1. UNCHANGED <<players, listening, toServer>> /\ phase'[c] = IF m.client = c THEN "connect" ELSE phase[c]
    BY <1>0, <1>5, <1>16 DEF handleLeaveGameRoom
  <2> QED BY <1>16, <1>kinds, <1>plain, <2>1 DEF Leaves, IsAbout
<1>17. CASE phase[c] = "lobby" /\ m.type = "create_game" /\ handleCreateGame(c, m)
  <2>1. /\ phase'[c] = "game" /\ listening'[c] = TRUE
        /\ players'[c] = PlayersOf(c, m.slots) /\ toServer'[c] = toServer[c]
    BY <1>0, <1>17 DEF handleCreateGame
  <2>2. Head(toClient[c]).type = "create_game" /\ players'[c] = PlayersOf(c, Head(toClient[c]).slots) /\ clientId[c] = c
    BY <1>5, <1>17, <2>1 DEF m
  <2> QED BY <1>0, <1>2, <1>7, <1>8, <2>1, <2>2, CreatedStep
<1>18. CASE phase[c] = "game" /\ m.type = "game_command" /\ handleGameCommand(c, m)
  <2>1. UNCHANGED <<players, listening, toServer, phase>>
    BY <1>18 DEF handleGameCommand
  <2> QED BY <1>18, <1>kinds, <1>plain, <2>1 DEF Leaves, IsAbout
<1>19. CASE phase[c] = "game" /\ m.type = "request_game_restart" /\ handleRequestGameRestart(c, m)
  <2> DEFINE which == Local(c)
             blocks == m.blocks
  <2>1. blocks \in Blocks /\ Restart(blocks) \in Change
    BY <1>9, <1>19, AnswerTypes DEF Restart, Change
  <2>2. /\ players' = [players EXCEPT ![c] = Continue(c, which, Restart(blocks))]
        /\ toServer'[c] = Append(toServer[c], GameRestart(blocks))
        /\ listening'[c] = listening[c] /\ phase'[c] = "game"
    BY <1>0, <1>19 DEF handleRequestGameRestart, Send
  <2>3. \A k \in 1 .. n : k \in which <=> slots[k - 1].client = c
    BY <1>12, <1>19 DEF Local, SeatsOf
  <2>4. Head(toClient[c]).type = "request_game_restart" /\ phase[c] = "game"
    BY <1>19 DEF m
  <2> HIDE DEF which, blocks
  <2>5. Grows(c, which, Restart(blocks))
    BY <1>0, <2>1, <2>2, ContinueGrows
  <2> QED BY <1>0, <1>2, <1>7, <1>8, <2>1, <2>2, <2>3, <2>4, <2>5, RestartStep
\* The handlers that change copies.
<1>copies. ASSUME phase[c] = "game", m.type \in Changes, UNCHANGED <<phase, listening, toServer>>, NEW which, ChangeOf(m) \in Change,
                  players' = [players EXCEPT ![c] = Continue(c, which, ChangeOf(m))],
                  \A k \in 1 .. n : k \in which <=> slots[k - 1].client # c /\ IsAbout(m, slots[k - 1])
           PROVE  GameOn(slots, n, r)'
  <2>1. Grows(c, which, ChangeOf(m))
    BY <1>0, <1>copies, ContinueGrows
  <2>2. phase'[c] = "game" /\ listening'[c] = listening[c] /\ toServer'[c] = toServer[c] /\ m = Head(toClient[c])
    BY <1>copies DEF m
  <2> QED BY <1>0, <1>2, <1>7, <1>8, <1>copies, <2>1, <2>2, OthersBoardStep
<1>20. CASE phase[c] = "game" /\ m.type = "game_restart" /\ handleGameRestart(c, m)
  <2>1. CASE m.client = c
    <3>1. UNCHANGED <<players, listening, toServer, phase>>
      BY <1>5, <1>20, <2>1 DEF handleGameRestart, Skip, clientVars
    <3> QED BY <1>20, <1>kinds, <1>plain, <2>1, <3>1 DEF Leaves, IsAbout
  <2>2. CASE m.client # c
    <3> DEFINE which == {i \in DOMAIN players[c] : players[c][i].client = m.client}
    <3>1. ChangeOf(m) = Restart(m.blocks) /\ ChangeOf(m) \in Change /\ m.type \in Changes
      BY <1>9, <1>20, AnswerTypes DEF ChangeOf, Restart, Change, Changes
    <3>2. players' = [players EXCEPT ![c] = Continue(c, which, ChangeOf(m))] /\ UNCHANGED <<phase, listening, toServer>>
      BY <1>5, <1>20, <2>2, <3>1 DEF handleGameRestart
    <3>3. \A k \in 1 .. n : k \in which <=> slots[k - 1].client # c /\ IsAbout(m, slots[k - 1])
      BY <1>12, <1>20, <1>kinds, <2>2 DEF IsAbout, SeatsOf
    <3> HIDE DEF which
    <3> QED BY <1>20, <1>copies, <3>1, <3>2, <3>3
  <2> QED BY <2>1, <2>2
<1>21. CASE phase[c] = "game" /\ m.type \in BoardKind /\ handleBoard(c, m)
  <2> DEFINE which == {i \in DOMAIN players[c] \ Local(c) : players[c][i].player = m.player}
  <2>1. ChangeOf(m) = [type |-> m.type, value |-> m.value] /\ ChangeOf(m) \in Change /\ m.type \in Changes
    BY <1>9, <1>21, <1>kinds, AnswerTypes DEF ChangeOf, Change, Changes
  <2>2. players' = [players EXCEPT ![c] = Continue(c, which, ChangeOf(m))] /\ UNCHANGED <<phase, listening, toServer>>
    BY <1>21, <2>1 DEF handleBoard
  <2>3. \A k \in 1 .. n : k \in which <=> slots[k - 1].client # c /\ IsAbout(m, slots[k - 1])
    BY <1>12, <1>21, <1>kinds DEF IsAbout, SeatsOf, Local
  <2> HIDE DEF which
  <2> QED BY <1>21, <1>copies, <2>1, <2>2, <2>3
<1>22. CASE phase[c] = "connect" /\ HandleInConnect(c, m)
  BY <1>13, <1>15, <1>22 DEF HandleInConnect
<1>23. CASE phase[c] = "lobby" /\ HandleInLobby(c, m)
  BY <1>13, <1>14, <1>15, <1>16, <1>17, <1>23 DEF HandleInLobby
<1>24. CASE phase[c] = "game" /\ HandleInGame(c, m)
  <2>1. CASE m.type \in {"game_looby", "game_room_joined", "create_game", "game_room_list"} /\ Skip
    BY <1>13, <1>24, <1>kinds, <2>1
  <2>2. CASE m.type = "request_game_restart" /\ Skip
    BY <1>13, <1>24, <1>kinds, <2>2
  <2> QED BY <1>9, <1>16, <1>18, <1>19, <1>20, <1>21, <1>24, <2>1, <2>2 DEF HandleInGame
<1> QED BY <1>11, <1>22, <1>23, <1>24

-----------------------------------------------------------------------------
(* What the server makes of a message, told to d *)

\* d is told x when the server handles the message m of c: what it is told of the boards and of the
\* game comes from a client of its room.
Passes(c, d, m, x) ==
  /\ x.type # "remove_client"
  /\ x.type = "create_game" => m.type = "start_game" /\ x.slots = RoomOf(c).playerSlots
  /\ x.type = "leave_game_room" => m.type = "leave_game_room" /\ x.client = c
  /\ x.type \in Changes \cup {"create_game"} => Inside(c) /\ roomIdByClientId[d] = roomIdByClientId[c]
  /\ x.type \in Changes => /\ d # c /\ m.type = x.type /\ ChangeOf(x) = ChangeOf(m)
                           /\ x.type \in BoardKind => x.player = m.player
                           /\ x.type = "game_restart" => x.client = c

\* d has to be told.
MustHear(c, d, m) ==
  /\ d \in remoteByClientId /\ Inside(c) /\ roomIdByClientId[d] = roomIdByClientId[c]
  /\ \/ m.type \in Changes /\ d # c
     \/ m.type \in {"leave_game_room", "start_game"}

\* d is told of m at most once, and is told what it has to be.
IsTold(c, d, m) ==
  \/ sent'[d] = << >> /\ ~MustHear(c, d, m)
  \/ \E x \in ServerMessage :
       /\ sent'[d] = << x >> /\ Passes(c, d, m, x)
       /\ MustHear(c, d, m) => \/ x.type = m.type
                               \/ m.type = "start_game" /\ x.type = "create_game"

\* Those in the room of c are told x, c perhaps not.
LEMMA RoomHears ==
  ASSUME MembershipInv, NEW c \in Client, Inside(c), ~RoomGone(c), NEW d \in Client, NEW m,
         NEW x \in ServerMessage, NEW room \in Room, room.connectedClients = RoomOf(c).connectedClients,
         \/ sent' = SendToAllClients(room, x) /\ x.type \notin Changes /\ m.type \notin Changes
         \/ sent' = SendToOtherClients(room, x, c) /\ m.type \in Changes,
         Len(sent'[d]) <= 1,
         d # c \/ m.type \notin Changes => Passes(c, d, m, x) \/ roomIdByClientId[d] # roomIdByClientId[c],
         m.type \in Changes \cup {"leave_game_room"} => x.type = m.type,
         m.type = "start_game" => x.type = "create_game"
  PROVE  IsTold(c, d, m)
<1>1. HasMember(room, d) <=> roomIdByClientId[d] = roomIdByClientId[c]
  <2>1. /\ roomIdByClientId[c] \in RoomId /\ RoomExists(roomIdByClientId[c])
        /\ RoomOf(c) = gameRoomById[roomIdByClientId[c]]
    BY RoomOfType DEF RoomGone, RoomOf, MembershipInv
  <2>2. HasMember(RoomOf(c), d) <=> roomIdByClientId[d] = roomIdByClientId[c]
    BY <2>1 DEF MembershipInv, MembershipAgrees
  <2> QED BY <2>2 DEF HasMember
<1>2. CASE sent'[d] = SendToAllClients(room, x)[d] /\ (d # c \/ m.type \notin Changes)
  <2>1. /\ d \in remoteByClientId /\ HasMember(room, d) => sent'[d] = << x >>
        /\ ~(d \in remoteByClientId /\ HasMember(room, d)) => sent'[d] = << >>
    BY <1>2, ToldOnce
  <2>2. CASE d \in remoteByClientId /\ HasMember(room, d)
    <3>1. Passes(c, d, m, x) /\ sent'[d] = << x >>
      BY <1>1, <1>2, <2>1, <2>2
    <3>2. MustHear(c, d, m) => x.type = m.type \/ (m.type = "start_game" /\ x.type = "create_game")
      BY DEF MustHear
    <3> QED BY <3>1, <3>2 DEF IsTold
  <2>3. CASE ~(d \in remoteByClientId /\ HasMember(room, d))
    <3>1. ~MustHear(c, d, m)
      BY <1>1, <2>3 DEF MustHear
    <3> QED BY <2>1, <2>3, <3>1 DEF IsTold
  <2> QED BY <2>2, <2>3
<1>3. CASE d = c /\ m.type \in Changes
  <2>1. sent'[d] = << >>
    BY <1>3 DEF SendToOtherClients, SendToAllClients
  <2>2. ~MustHear(c, d, m)
    BY <1>3 DEF MustHear, Changes, BoardKind
  <2> QED BY <2>1, <2>2 DEF IsTold
<1>4. d # c => SendToOtherClients(room, x, c)[d] = SendToAllClients(room, x)[d]
  BY DEF SendToOtherClients, SendToAllClients
<1> QED BY <1>2, <1>3, <1>4

\* What tells of no game and no board is passed, whomever it is told.
LEMMA PassesPlainly ==
  ASSUME NEW c, NEW d, NEW m, NEW x, x.type \notin Changes \cup {"create_game", "leave_game_room", "remove_client"}
  PROVE  Passes(c, d, m, x)
BY DEF Passes

\* Every message is told to whom it has to be, once.
LEMMA MessageIsTold ==
  ASSUME MembershipInv, NEW c \in Client, NEW m \in ClientMessage, ~RoomGone(c), Handle(c, m),
         m.type # "remove_client", NEW d \in Client, ServerMessage # {}, sent'[d] \in Seq(ServerMessage),
         Len(sent'[d]) <= 1
  PROVE  IsTold(c, d, m)
<1>0. ServerTypeOK
  BY DEF MembershipInv
<1>kinds. /\ \A x : x \in {"create_game_room", "join_game_room", "request_game_room_list", "player_slot", "game_command",
                           "request_game_restart", "game_looby", "game_room_joined", "game_room_list"} =>
                     x \notin Changes \cup {"create_game", "leave_game_room", "remove_client", "start_game"}
          /\ "leave_game_room" \notin Changes /\ "start_game" \notin Changes /\ "create_game" \notin Changes
          /\ "game_restart" \in Changes /\ "game_restart" \notin BoardKind /\ BoardKind \subseteq Changes
          /\ "remove_client" \notin Changes
  BY DEF Changes, BoardKind
<1>quiet. ASSUME m.type \notin Changes \cup {"leave_game_room", "start_game"} PROVE IsTold(c, d, m) \/ sent'[d] # << >>
  BY <1>quiet DEF IsTold, MustHear
<1>said. ASSUME NEW x, sent'[d] = << x >>, x.type \notin Changes \cup {"create_game", "leave_game_room", "remove_client"},
                m.type \notin Changes \cup {"leave_game_room", "start_game"}
         PROVE  IsTold(c, d, m)
  <2>1. x \in ServerMessage
    <3>1. sent'[d][1] = x /\ 1 \in 1 .. Len(sent'[d])
      BY <1>said
    <3> QED BY <3>1
  <2>2. Passes(c, d, m, x)
    BY <1>said, PassesPlainly
  <2> QED BY <1>said, <2>1, <2>2 DEF IsTold, MustHear
<1>outside. ASSUME ~Inside(c), sent' = NoMessages PROVE IsTold(c, d, m)
  BY <1>outside DEF IsTold, MustHear, NoMessages
<1>enters. ASSUME NEW r \in RoomId, NEW room \in Room, EnterRoom(c, r, room), m.type \in Entry PROVE IsTold(c, d, m)
  <2>1. PICK k \in room.connectionIds :
          sent' = SendToAllClients(AddClient(room, c, k),
                    GameRoomJoined(r, c, AddClient(room, c, k).connectedClients, AddClient(room, c, k).playerSlots))
    BY <1>enters DEF EnterRoom
  <2> DEFINE joined == AddClient(room, c, k)
             x == GameRoomJoined(r, c, joined.connectedClients, joined.playerSlots)
  <2>2. joined \in Room /\ x.type = "game_room_joined" /\ sent'[d] = SendToAllClients(joined, x)[d]
    BY <2>1, RoomOperationsType DEF GameRoomJoined
  <2> HIDE DEF joined, x
  <2>3. sent'[d] = << x >> \/ sent'[d] = << >>
    BY <2>2, ToldOnce
  <2>4. m.type \notin Changes \cup {"leave_game_room", "start_game"}
    BY <1>enters, <1>kinds DEF Entry
  <2>5. x.type \notin Changes \cup {"create_game", "leave_game_room", "remove_client"}
    BY <1>kinds, <2>2
  <2> QED BY <1>quiet, <1>said, <2>3, <2>4, <2>5
<1>none. ASSUME sent' = NoMessages, m.type \notin Changes \cup {"leave_game_room", "start_game"} PROVE IsTold(c, d, m)
  BY <1>none, <1>quiet DEF NoMessages
<1>again. ASSUME EnterAgain(c), m.type \in Entry PROVE IsTold(c, d, m)
  <2>1. roomIdByClientId[c] \in RoomId /\ RoomOf(c) \in Room
    BY <1>0, <1>again, RoomOfType DEF EnterAgain
  <2>2. m.type \notin Changes \cup {"leave_game_room", "start_game"}
    BY <1>again, <1>kinds DEF Entry
  <2> QED BY <1>again, <1>enters, <1>none, <2>1, <2>2 DEF EnterAgain, FrontOfEmptyList
<1>1. CASE m.type = "create_game_room" /\ HandleCreateGameRoom(c, m.isPublic)
  <2>1. m.isPublic \in BOOLEAN /\ m.type \in Entry
    BY <1>1 DEF ClientMessage, BoardKind, Entry
  <2>2. NewRoom(m.isPublic) \in Room
    BY <2>1, NewRoomType
  <2> QED BY <1>1, <1>again, <1>enters, <2>1, <2>2 DEF HandleCreateGameRoom
<1>2. CASE m.type = "join_game_room" /\ HandleJoinGameRoom(c, m.room)
  <2>1. m.room \in RoomId /\ m.type \in Entry
    BY <1>2 DEF ClientMessage, BoardKind, Entry
  <2>2. m.type \notin Changes \cup {"leave_game_room", "start_game"}
    BY <1>2, <1>kinds
  <2>3. RoomExists(m.room) => gameRoomById[m.room] \in Room
    BY <1>0, <2>1 DEF RoomExists, ServerTypeOK
  <2> QED BY <1>2, <1>again, <1>enters, <1>none, <2>1, <2>2, <2>3 DEF HandleJoinGameRoom, FrontOfEmptyList, Ignore
<1>3. CASE m.type = "leave_game_room" /\ HandleLeaveGameRoom(c)
  <2>1. CASE ~Inside(c)
    BY <1>3, <1>outside, <2>1 DEF HandleLeaveGameRoom, Ignore
  <2>2. CASE Inside(c)
    <3> DEFINE r == roomIdByClientId[c]
               room == RoomOf(c)
               gone == Disconnect(room, c)
               x == GameRoomLeft(r, c, gone.connectedClients)
    <3>1. r \in RoomId /\ room \in Room /\ gone \in Room
      BY <1>0, <2>2, RoomOfType, RoomOperationsType
    <3>2. sent' = SendToAllClients(room, x)
      BY <1>3, <2>2 DEF HandleLeaveGameRoom
    <3>3. gone.connectedClients \in SUBSET Member
      BY <3>1 DEF Room
    <3> HIDE DEF gone, room, r
    <3>4. x.type = "leave_game_room" /\ x.client = c
      BY DEF GameRoomLeft
    <3>5. x \in ServerMessage
      BY <3>1, <3>3 DEF GameRoomLeft, ServerMessage
    <3> HIDE DEF x
    <3>6. Passes(c, d, m, x)
      BY <1>3, <1>kinds, <3>4 DEF Passes
    <3>7. x.type \notin Changes /\ m.type \notin Changes /\ x.type = m.type /\ m.type # "start_game"
      BY <1>3, <1>kinds, <3>4
    <3>8. room.connectedClients = RoomOf(c).connectedClients
      BY DEF room
    <3> QED BY <2>2, <3>1, <3>2, <3>5, <3>6, <3>7, <3>8, RoomHears
  <2> QED BY <2>1, <2>2
<1>4. CASE m.type = "request_game_room_list" /\ HandleRequestGameRoomList(c)
  <2>1. sent'[d] = << >> \/ sent'[d] = << RoomList >>
    BY <1>4 DEF HandleRequestGameRoomList, SendToClient, NoMessages
  <2>2. RoomList.type = "game_room_list"
    BY DEF RoomList, GameRoomList
  <2> HIDE DEF RoomList
  <2>3. RoomList.type \notin Changes \cup {"create_game", "leave_game_room", "remove_client"}
    BY <1>kinds, <2>2
  <2>4. m.type \notin Changes \cup {"leave_game_room", "start_game"}
    BY <1>4, <1>kinds
  <2> QED BY <1>quiet, <1>said, <2>1, <2>3, <2>4
<1>5. CASE ~Inside(c) /\ Ignore
  BY <1>5, <1>outside DEF Ignore
<1>6. ASSUME Inside(c),
             \/ m.type = "player_slot" /\ HandlePlayerSlot(c, m.index, m.request)
             \/ m.type = "game_command" /\ HandleGameCommand(c, m.pause)
             \/ m.type = "start_game" /\ HandleStartGame(c)
             \/ m.type \in BoardKind /\ HandleBoard(c, m)
             \/ m.type = "request_game_restart" /\ HandleRequestGameRestart(c)
             \/ m.type = "game_restart" /\ HandleGameRestart(c, m.blocks)
      PROVE  IsTold(c, d, m)
  <2> DEFINE room == RoomOf(c)
  <2>0. room \in Room /\ room.playerSlots \in Slots
    <3>1. room \in Room
      BY <1>0, <1>6, RoomOfType
    <3> QED BY <3>1 DEF Room
  <2>all. ASSUME NEW x, NEW some \in Room, sent' = SendToAllClients(some, x),
                 x.type \in {"game_looby", "game_command", "request_game_restart"},
                 m.type \in {"player_slot", "game_command", "request_game_restart"}
          PROVE  IsTold(c, d, m)
    <3>1. sent'[d] = << x >> \/ sent'[d] = << >>
      BY <2>all, ToldOnce
    <3>2. m.type \notin Changes \cup {"leave_game_room", "start_game"}
      BY <1>kinds, <2>all
    <3>3. x.type \notin Changes \cup {"create_game", "leave_game_room", "remove_client"}
      BY <1>kinds, <2>all
    <3> QED BY <1>quiet, <1>said, <3>1, <3>2, <3>3
  <2>1. CASE m.type = "player_slot" /\ HandlePlayerSlot(c, m.index, m.request)
    <3>1. ASSUME NEW slot \in Slot, m.index \in SlotIndex, UpdateSlot(c, m.index, slot) PROVE IsTold(c, d, m)
      <4> DEFINE some == SetSlot(room, m.index, slot)
                 x == GameLooby(some.playerSlots)
      <4>1. some \in Room
        BY <2>0, <3>1, RoomOperationsType
      <4>2. sent' = SendToAllClients(some, x)
        BY <3>1 DEF UpdateSlot, UpdateRoom
      <4> HIDE DEF some
      <4>3. x.type = "game_looby"
        BY DEF GameLooby
      <4> HIDE DEF x
      <4> QED BY <2>1, <2>all, <4>1, <4>2, <4>3
    <3>2. /\ OpenSlot \in Slot
          /\ \A p \in PlayerId : RemoteSlot(c, p) \in Slot
      BY DEF Slot, RemoteSlot
    <3>3. CASE Relay(SendToAllClients(room, GameLooby(room.playerSlots)))
      <4> DEFINE x == GameLooby(room.playerSlots)
      <4>1. sent' = SendToAllClients(room, x) /\ x.type = "game_looby"
        BY <3>3 DEF Relay, GameLooby
      <4> HIDE DEF x, room
      <4> QED BY <2>0, <2>1, <2>all, <4>1
    <3>4. Ignore => IsTold(c, d, m)
      BY <1>kinds, <1>none, <2>1 DEF Ignore
    <3> QED BY <2>1, <3>1, <3>2, <3>3, <3>4 DEF HandlePlayerSlot
  <2>2. CASE m.type = "game_command" /\ HandleGameCommand(c, m.pause)
    <3>1. sent' = SendToAllClients(room, Paused(m.pause)) /\ Paused(m.pause).type = "game_command"
      BY <2>2 DEF HandleGameCommand, UpdateRoom, Paused
    <3> HIDE DEF room
    <3> QED BY <2>0, <2>2, <2>all, <3>1
  <2>3. CASE m.type = "request_game_restart" /\ HandleRequestGameRestart(c)
    <3>1. PICK b \in Blocks : sent' = SendToAllClients(room, AskRestart(b))
      BY <2>3 DEF HandleRequestGameRestart, Relay
    <3>2. AskRestart(b).type = "request_game_restart"
      BY DEF AskRestart
    <3> HIDE DEF room
    <3> QED BY <2>0, <2>3, <2>all, <3>1, <3>2
  <2>4. CASE m.type = "start_game" /\ HandleStartGame(c)
    <3> DEFINE x == CreateGame(room.playerSlots)
    <3>1. sent' = SendToAllClients(room, x)
      BY <2>4 DEF HandleStartGame, Relay
    <3>2. x \in ServerMessage
      BY <2>0, MessagesOfRooms
    <3>3. x.type = "create_game" /\ x.slots = RoomOf(c).playerSlots
      BY DEF CreateGame
    <3>5. room.connectedClients = RoomOf(c).connectedClients
      OBVIOUS
    <3> HIDE DEF x, room
    <3>4. Passes(c, d, m, x) \/ roomIdByClientId[d] # roomIdByClientId[c]
      BY <1>6, <1>kinds, <2>4, <3>3 DEF Passes
    <3>6. x.type \notin Changes /\ m.type \notin Changes \cup {"leave_game_room"}
      BY <1>kinds, <2>4, <3>3
    <3> QED BY <1>6, <2>0, <2>4, <3>1, <3>2, <3>3, <3>4, <3>5, <3>6, RoomHears
  <2>5. CASE m.type \in BoardKind /\ HandleBoard(c, m)
    <3>1. sent' = SendToOtherClients(room, m, c)
      BY <2>5 DEF HandleBoard, Relay
    <3>2. m \in ServerMessage
      BY <2>5 DEF ClientMessage, ServerMessage, BoardKind
    <3>3. m.type \in Changes /\ m.type \notin {"create_game", "leave_game_room", "start_game", "game_restart"}
      BY <2>5 DEF Changes, BoardKind
    <3>5. room.connectedClients = RoomOf(c).connectedClients
      OBVIOUS
    <3> HIDE DEF room
    <3>4. d # c => Passes(c, d, m, m) \/ roomIdByClientId[d] # roomIdByClientId[c]
      BY <1>6, <1>kinds, <3>3 DEF Passes
    <3> QED BY <1>6, <2>0, <3>1, <3>2, <3>3, <3>4, <3>5, RoomHears
  <2>6. CASE m.type = "game_restart" /\ HandleGameRestart(c, m.blocks)
    <3> DEFINE x == Restarted(c, m.blocks)
    <3>1. sent' = SendToOtherClients(room, x, c)
      BY <2>6 DEF HandleGameRestart, Relay
    <3>2. x \in ServerMessage
      <4>1. m.blocks \in Blocks
        BY <2>6 DEF ClientMessage, BoardKind
      <4> QED BY <4>1, MessagesOfRooms
    <3>3. x.type = "game_restart" /\ x.client = c /\ x.blocks = m.blocks
      BY DEF Restarted
    <3>5. room.connectedClients = RoomOf(c).connectedClients
      OBVIOUS
    <3> HIDE DEF x, room
    <3>6. ChangeOf(x) = ChangeOf(m)
      BY <2>6, <3>3 DEF ChangeOf
    <3>7. m.type \in Changes /\ x.type = m.type /\ m.type \notin {"create_game", "leave_game_room", "start_game", "remove_client"}
          /\ x.type \notin BoardKind
      BY <2>6, <3>3 DEF Changes, BoardKind
    <3>4. d # c => Passes(c, d, m, x) \/ roomIdByClientId[d] # roomIdByClientId[c]
      BY <1>6, <3>3, <3>6, <3>7 DEF Passes
    <3> QED BY <1>6, <2>0, <3>1, <3>2, <3>4, <3>5, <3>7, RoomHears
  <2> QED BY <1>6, <2>1, <2>2, <2>3, <2>4, <2>5, <2>6
<1> QED BY <1>1, <1>2, <1>3, <1>4, <1>5, <1>6 DEF Handle

\* A message moves its client only when it asks to enter or to leave; what it creates is a new room.
LEMMA MessageMoves ==
  ASSUME ServerTypeOK, NEW c \in Client, NEW m \in ClientMessage, Handle(c, m), m.type # "remove_client",
         NewIdsAreUnused
  PROVE  /\ m.type \notin Entry \cup {"leave_game_room"} => roomIdByClientId' = roomIdByClientId
         /\ m.type = "leave_game_room" => roomIdByClientId'[c] = NoRoom
         /\ m.type = "create_game_room" /\ ~Inside(c) => roomIdByClientId'[c] \notin usedIds
<1>1. ASSUME m.type \notin Entry \cup {"leave_game_room"} PROVE roomIdByClientId' = roomIdByClientId
  <2> DEFINE Same == roomIdByClientId' = roomIdByClientId
  <2>1. /\ Ignore => Same
        /\ \A room, out : UpdateRoom(c, room, out) => Same
        /\ \A out : Relay(out) => Same
    BY DEF Ignore, UpdateRoom, Relay
  <2> HIDE DEF Same
  <2>2. /\ HandlePlayerSlot(c, m.index, m.request) => Same
        /\ HandleGameCommand(c, m.pause) => Same
        /\ HandleStartGame(c) => Same
        /\ HandleBoard(c, m) => Same
        /\ HandleRequestGameRestart(c) => Same
        /\ HandleGameRestart(c, m.blocks) => Same
    BY <2>1 DEF HandlePlayerSlot, UpdateSlot, HandleGameCommand, HandleStartGame, HandleBoard, HandleRequestGameRestart,
                HandleGameRestart
  <2>3. HandleRequestGameRoomList(c) => Same
    BY DEF HandleRequestGameRoomList, Same
  <2>4. Same
    BY <1>1, <2>1, <2>2, <2>3 DEF Handle, Entry
  <2> QED BY <2>4 DEF Same
<1>2. ASSUME m.type = "leave_game_room" PROVE roomIdByClientId'[c] = NoRoom
  <2>1. HandleLeaveGameRoom(c)
    BY <1>2 DEF Handle, BoardKind
  <2> QED BY <2>1 DEF HandleLeaveGameRoom, Ignore, Inside, ServerTypeOK
<1>3. ASSUME m.type = "create_game_room", ~Inside(c) PROVE roomIdByClientId'[c] \notin usedIds
  <2>1. HandleCreateGameRoom(c, m.isPublic)
    BY <1>3 DEF Handle, BoardKind
  <2>2. PICK r \in RoomId : FreshRoom(r) /\ EnterRoom(c, r, NewRoom(m.isPublic))
    BY <1>3, <2>1 DEF HandleCreateGameRoom, EnterAgain
  <2> DEFINE new == NewRoom(m.isPublic)
  <2>3. m.isPublic \in BOOLEAN /\ new \in Room
    <3>1. m.isPublic \in BOOLEAN
      BY <1>3 DEF ClientMessage, BoardKind
    <3> QED BY <3>1, NewRoomType
  <2>4. PICK k \in new.connectionIds : gameRoomById' = [gameRoomById EXCEPT ![r] = AddClient(new, c, k)]
    BY <2>2 DEF EnterRoom
  <2>5. AddClient(new, c, k) # NoRoom
    <3> HIDE DEF new
    <3> QED BY <2>3, RoomOperationsType, NoRoomAssumption
  <2>6. gameRoomById'[r] # NoRoom
    BY <2>4, <2>5 DEF ServerTypeOK
  <2>7. r \in IdsOf(gameRoomById')
    BY <2>6 DEF IdsOf
  <2>8. r \notin IdsOf(gameRoomById)
    <3>1. gameRoomById[r] = NoRoom
      BY <2>2 DEF FreshRoom, RoomExists
    <3>2. ASSUME NEW q \in RoomId, gameRoomById[q] # NoRoom, NEW i \in SlotIndex,
                 gameRoomById[q].playerSlots[i].player # NoPlayer
          PROVE  gameRoomById[q].playerSlots[i].player # r
      <4>1. gameRoomById[q].playerSlots[i] \in Slot
        BY <3>2 DEF ServerTypeOK, Room, Slots
      <4>2. gameRoomById[q].playerSlots[i].player \in PlayerId
        BY <3>2, <4>1 DEF Slot, OpenSlot
      <4> QED BY <4>2, DistinctIdAssumption
    <3> QED BY <3>1, <3>2 DEF IdsOf
  <2>9. r \notin usedIds
    BY <2>7, <2>8 DEF NewIdsAreUnused
  <2>10. roomIdByClientId'[c] = r
    BY <2>2 DEF EnterRoom, ServerTypeOK
  <2> QED BY <2>9, <2>10
<1> QED BY <1>1, <1>2, <1>3

\* The server handles the message m of c.
Delivers(c, m) ==
  /\ toServer[c] # << >> /\ m = Head(toServer[c]) /\ m \in ClientMessage
  /\ toServer'[c] = Tail(toServer[c]) /\ \A d \in Client : d # c => toServer'[d] = toServer[d]
  /\ UNCHANGED <<clientVars, left>> /\ usedIds \subseteq usedIds'
  /\ \A d \in Client : /\ IsTold(c, d, m)
                       /\ phase[d] = "lost" => toClient'[d] = toClient[d]
                       /\ phase[d] # "lost" => toClient'[d] = toClient[d] \o sent'[d]
                       /\ d # c => roomIdByClientId'[d] = roomIdByClientId[d]
  /\ c \in remoteByClientId
  /\ m.type \notin Entry \cup {"leave_game_room"} => roomIdByClientId'[c] = roomIdByClientId[c]
  /\ m.type = "leave_game_room" => roomIdByClientId'[c] = NoRoom
  /\ m.type = "create_game_room" => roomIdByClientId'[c] \notin usedIds
  /\ m.type \in Entry => ~Inside(c)

\* What the server does with the next message of a client that waits for its answers.
LEMMA DeliverShape ==
  ASSUME RepeatedRequests = FALSE, SessionInv, SessionInv', NEW c \in Client, Deliver(c)
  PROVE  Delivers(c, Head(toServer[c])) /\ Handle(c, Head(toServer[c])) /\ ~RoomGone(c)
<1> DEFINE m == Head(toServer[c])
<1>0. /\ TypesInv /\ ConnInv /\ MembershipInv /\ ServerTypeOK /\ ServerTypeOK'
      /\ toServer \in [Client -> Seq(ClientMessage)]
      /\ PatientInv /\ PatientInv'
  <2>1. ServerTypeOK'
    BY DEF SessionInv, TypesInv, SessionTypeOK
  <2>2. PatientInv /\ PatientInv'
    BY DEF SessionInv
  <2> QED BY <2>1, <2>2, TypesOfSession, TypesOfClients DEF SessionInv, MembershipInv
<1>1. /\ toServer[c] # << >> /\ toServer' = [toServer EXCEPT ![c] = Tail(toServer[c])]
      /\ ReceivedFromRemote(c, m) /\ NewIdsAreUnused /\ toClient' = Queued(toClient)
      /\ UNCHANGED <<clientVars, left>>
  BY DEF Deliver
<1>2. m \in ClientMessage
  BY <1>0, <1>1, TailOf
<1>3. m.type # "remove_client"
  BY <1>0, <1>1, RequestsTail DEF ConnInv
<1>4. ~RoomGone(c)
  BY <1>0, MembersRoomExists DEF RoomGone, RoomOfClientExists
<1>5. Handle(c, m) /\ c \in sessions /\ c \in remoteByClientId
  BY <1>0, <1>1, <1>4 DEF ReceivedFromRemote, ConnInv
<1>6. m.type \in Entry => ~Inside(c)
  <2>1. ASSUME m.type \in Entry PROVE 1 \in Requests(c)
    BY <1>0, <1>1, <2>1, TailOf DEF Requests
  <2> QED BY <1>0, <2>1 DEF PatientInv, Waits, Inside
<1> HIDE DEF m
<1>7. ServerMessage # {}
  BY <1>0, MessagesOfRooms DEF MembershipInv
<1>8. ASSUME NEW d \in Client PROVE IsTold(c, d, m)
  <2>1. sent'[d] \in Seq(ServerMessage) /\ Len(sent'[d]) <= 1
    BY <1>0 DEF ServerTypeOK, PatientInv, SentOnce
  <2> QED BY <1>0, <1>2, <1>3, <1>4, <1>5, <1>7, <2>1, MessageIsTold
<1>9. /\ m.type \notin Entry \cup {"leave_game_room"} => roomIdByClientId'[c] = roomIdByClientId[c]
      /\ m.type = "leave_game_room" => roomIdByClientId'[c] = NoRoom
      /\ m.type = "create_game_room" => roomIdByClientId'[c] \notin usedIds
  <2>1. /\ m.type \notin Entry \cup {"leave_game_room"} => roomIdByClientId' = roomIdByClientId
        /\ m.type = "leave_game_room" => roomIdByClientId'[c] = NoRoom
        /\ m.type = "create_game_room" /\ ~Inside(c) => roomIdByClientId'[c] \notin usedIds
    BY <1>0, <1>1, <1>2, <1>3, <1>5, MessageMoves
  <2>2. m.type = "create_game_room" => m.type \in Entry
    BY DEF Entry
  <2> QED BY <1>6, <2>1, <2>2
<1>10. \A d \in Client : d # c => roomIdByClientId'[d] = roomIdByClientId[d]
  BY <1>0, <1>2, <1>3, <1>4, <1>5, HandleMoves
<1>11. usedIds \subseteq usedIds'
  BY <1>1 DEF NewIdsAreUnused
<1>12. toServer'[c] = Tail(toServer[c]) /\ \A d \in Client : d # c => toServer'[d] = toServer[d]
  BY <1>0, <1>1
<1>13. \A d \in Client : /\ phase[d] = "lost" => toClient'[d] = toClient[d]
                         /\ phase[d] # "lost" => toClient'[d] = toClient[d] \o sent'[d]
  BY <1>1 DEF Queued
<1>14. Delivers(c, m)
  BY <1>1, <1>2, <1>5, <1>6, <1>8, <1>9, <1>10, <1>11, <1>12, <1>13 DEF Delivers, m
<1> QED BY <1>4, <1>5, <1>14 DEF m

-----------------------------------------------------------------------------
(* What the server tells the clients of a game *)

\* d is not told of m, as it need not be.
Untold(c, d, m) == toClient'[d] = toClient[d] /\ (Running(d) => ~MustHear(c, d, m))

\* d is told x.
Told(c, d, m, x) ==
  /\ Running(d) /\ x \in ServerMessage /\ Passes(c, d, m, x)
  /\ toClient'[d] = Append(toClient[d], x)
  /\ x.type # "create_game"
  /\ MustHear(c, d, m) => x.type = m.type

\* Each client is told one message or none.
LEMMA DeliverTells ==
  ASSUME ClientTypes, ConnInv', NEW c \in Client, NEW m, Delivers(c, m), m.type # "start_game", NEW d \in Client
  PROVE  Untold(c, d, m) \/ \E x : Told(c, d, m, x)
<1>1. /\ IsTold(c, d, m)
      /\ phase[d] = "lost" => toClient'[d] = toClient[d]
      /\ phase[d] # "lost" => toClient'[d] = toClient[d] \o sent'[d]
  BY DEF Delivers
<1>2. toClient[d] \in Seq(ServerMessage) /\ phase[d] \in {"off", "connect", "lobby", "game", "lost"}
  BY TypesOfClients
<1>3. CASE phase[d] = "lost"
  BY <1>1, <1>3 DEF Untold, Running
<1>4. CASE phase[d] # "lost" /\ sent'[d] = << >> /\ ~MustHear(c, d, m)
  BY <1>1, <1>2, <1>4 DEF Untold
<1>5. CASE phase[d] # "lost" /\ ~(sent'[d] = << >> /\ ~MustHear(c, d, m))
  <2>1. PICK x \in ServerMessage :
          /\ sent'[d] = << x >> /\ Passes(c, d, m, x)
          /\ MustHear(c, d, m) => x.type = m.type \/ (m.type = "start_game" /\ x.type = "create_game")
    BY <1>1, <1>5 DEF IsTold
  <2>2. toClient'[d] = Append(toClient[d], x)
    <3>1. toClient'[d] = toClient[d] \o << x >>
      BY <1>1, <1>5, <2>1
    <3> QED BY <1>2, <3>1
  <2>3. x.type # "create_game"
    BY <2>1 DEF Passes
  <2>4. phase[d] # "off"
    <3>1. phase'[d] = phase[d]
      BY DEF Delivers, clientVars
    <3>2. phase'[d] = "off" => toClient'[d] = << >>
      BY DEF ConnInv
    <3>3. toClient'[d] # << >>
      BY <1>2, <2>2
    <3> QED BY <3>1, <3>2, <3>3
  <2>5. Running(d)
    BY <1>2, <1>5, <2>4 DEF Running
  <2> QED BY <2>1, <2>2, <2>3, <2>5 DEF Told
<1> QED BY <1>3, <1>4, <1>5

\* What is known of all that is on its way to a client holds for the states it leads through.
LEMMA LinkedIsLed ==
  ASSUME NEW c, NEW slots, NEW queue \in Seq(ServerMessage), NEW first, NEW last,
         Linked(first, queue, last, Views(c, slots)), NEW h, Leads(c, h, first, queue)
  PROVE  last = h[Len(queue)]
<1>1. PICK g : /\ g[0] = first /\ g[Len(queue)] = last
               /\ \A k \in 1 .. Len(queue) : <<g[k - 1], queue[k], g[k]>> \in Views(c, slots)
  BY DEF Linked
<1>2. /\ h[0] = first
      /\ \A k \in 1 .. Len(queue) : h[k] = After(h[k - 1], queue[k])
  BY DEF Leads
<1>3. \A k \in 1 .. Len(queue) : g[k] = After(g[k - 1], queue[k])
  BY <1>1 DEF Views
<1> DEFINE out == {k \in 0 .. Len(queue) : g[k] # h[k]}
<1>0. Len(queue) \in Nat
  OBVIOUS
<1> SUFFICES ASSUME out # {} PROVE FALSE
  BY <1>0, <1>1
<1>4. PICK k \in out : \A j \in out : k <= j
  <2>1. out \in SUBSET Nat
    BY <1>0
  <2> HIDE DEF out
  <2> QED BY <2>1, LeastExists
<1>5. k \in 1 .. Len(queue) /\ k - 1 \in 0 .. Len(queue) /\ ~(k - 1 \in out)
  BY <1>0, <1>1, <1>2, <1>4
<1>6. g[k - 1] = h[k - 1]
  BY <1>5
<1> QED BY <1>2, <1>3, <1>4, <1>5, <1>6

\* A view that c may have in a game ends only when c is told that it has left.
LEMMA GameGoesOn ==
  ASSUME NEW c, NEW v, Good(c, v), v.phase = "game", NEW x, ~Leaves(x, c)
  PROVE  After(v, x).phase = "game"
<1>1. v.me = c
  BY DEF Good
<1> QED BY <1>1 DEF After, LeftBy, Leaves

\* What is on its way to d, and what d is, after the step.
LEMMA DeliverSeats ==
  ASSUME ClientTypes, ClientTypes', ViewInv, NEW slots, NEW n, NEW c \in Client, NEW m, UNCHANGED clientVars,
         NEW d \in Client, Seated(d, slots, n), Untold(c, d, m) \/ \E x : Told(c, d, m, x)
  PROVE  /\ Seated(d, slots, n)'
         /\ Silent(d) => Silent(d)'
         /\ (d # c \/ m.type # "leave_game_room") /\ Stays(d, slots) => Stays(d, slots)'
<1>1. /\ phase'[d] = phase[d] /\ players'[d] = players[d] /\ listening'[d] = listening[d] /\ Seen(d)' = Seen(d)
      /\ Running(d)' <=> Running(d)
      /\ SeatsOf(d, slots, n)' <=> SeatsOf(d, slots, n)
  BY DEF clientVars, Seen, Running, SeatsOf
<1>2. CASE Untold(c, d, m)
  <2>1. toClient'[d] = toClient[d]
    BY <1>2 DEF Untold
  <2>2. Seated(d, slots, n)'
    <3>1. Seated(d, slots, n)
      OBVIOUS
    <3> QED BY <1>1, <2>1, <3>1 DEF Seated, NoneOf, Views
  <2>3. Silent(d) => Silent(d)'
    BY <1>1, <2>1 DEF Silent, NoneOf
  <2>4. Stays(d, slots) => Stays(d, slots)'
    BY <1>1, <2>1 DEF Stays, Views
  <2> QED BY <2>2, <2>3, <2>4
<1>3. CASE \E x : Told(c, d, m, x)
  <2>1. PICK x : Told(c, d, m, x)
    BY <1>3
  <2>2. /\ Running(d) /\ x \in ServerMessage /\ Passes(c, d, m, x)
        /\ toClient'[d] = Append(toClient[d], x) /\ x.type # "create_game"
    BY <2>1 DEF Told
  <2>3. toClient[d] \in Seq(ServerMessage) /\ Seen(d) \in Sight
    BY TypesOfClients DEF Seen, Sight
  <2>4. /\ NoneOf(Append(toClient[d], x), {"create_game"}) <=> NoneOf(toClient[d], {"create_game"}) /\ x.type \notin {"create_game"}
        /\ Len(Append(toClient[d], x)) = Len(toClient[d]) + 1 /\ Len(toClient[d]) \in Nat
        /\ Append(toClient[d], x)[Len(toClient[d]) + 1] = x
        /\ \A k \in 1 .. Len(toClient[d]) : Append(toClient[d], x)[k] = toClient[d][k]
    BY <2>3, NoneOfAppend
  <2>5. NoneOf(toClient[d], {"create_game"})' <=> NoneOf(toClient[d], {"create_game"})
    <3>1. NoneOf(toClient[d], {"create_game"})' <=> NoneOf(toClient'[d], {"create_game"})
      BY DEF NoneOf
    <3> QED BY <2>2, <2>4, <3>1
  <2>6. ASSUME NEW last, Linked(Seen(d), toClient[d], last, Views(d, slots))
        PROVE  /\ last \in Sight
               /\ Linked(Seen(d), toClient[d], After(last, x), Views(d, slots))'
    <3>1. last \in Sight
      <4>1. \A k \in 1 .. Len(toClient[d]) : \A v, w : v \in Sight /\ <<v, toClient[d][k], w>> \in Views(d, slots) => w \in Sight
        BY DEF Views
      <4> DEFINE steps == Views(d, slots)
                 first == Seen(d)
      <4>2. Linked(first, toClient[d], last, steps) /\ first \in Sight
        BY <2>3, <2>6
      <4> HIDE DEF steps, first
      <4> QED BY <2>3, <4>1, <4>2, LinkedWithin DEF steps
    <3>2. <<last, x, After(last, x)>> \in Views(d, slots)
      <4>1. After(last, x) \in Sight
        BY <2>2, <3>1, AfterType
      <4> HIDE DEF Sight
      <4> QED BY <2>2, <3>1, <4>1 DEF Views
    <3>3. Linked(Seen(d), Append(toClient[d], x), After(last, x), Views(d, slots))
      <4> DEFINE steps == Views(d, slots)
                 first == Seen(d)
                 next == After(last, x)
      <4>1. Linked(first, toClient[d], last, steps) /\ <<last, x, next>> \in steps
        BY <2>6, <3>2
      <4> HIDE DEF steps, first, next
      <4>2. Linked(first, Append(toClient[d], x), next, steps)
        BY <2>3, <4>1, LinkedAppend
      <4> QED BY <4>2 DEF steps, first, next
    <3>4. Linked(Seen(d)', toClient'[d], After(last, x), Views(d, slots))
      BY <1>1, <2>2, <3>3
    <3>5. Linked(Seen(d), toClient[d], After(last, x), Views(d, slots))'
      BY <3>4 DEF Linked, Views
    <3> QED BY <3>1, <3>5
  <2>7. Seated(d, slots, n)'
    <3>1. players'[d] = << >> \/ SeatsOf(d, slots, n)'
      BY <1>1 DEF Seated
    <3>2. phase'[d] = "game" => SeatsOf(d, slots, n)' /\ listening'[d]
      BY <1>1 DEF Seated
    <3>3. \A j, k \in 1 .. Len(toClient'[d]) :
            toClient'[d][j].type = "create_game" /\ toClient'[d][k].type = "create_game" => j = k
      <4>1. \A j \in 1 .. Len(toClient'[d]) : toClient'[d][j].type = "create_game" =>
              j \in 1 .. Len(toClient[d]) /\ toClient[d][j].type = "create_game"
        <5> TAKE j \in 1 .. Len(toClient'[d])
        <5>1. j \in 1 .. Len(toClient[d]) \/ j = Len(toClient[d]) + 1
          BY <2>2, <2>4
        <5> QED BY <2>2, <2>4, <5>1
      <4> QED BY <4>1 DEF Seated
    <3>4. ~NoneOf(toClient[d], {"create_game"})' => players'[d] = << >> /\ ~listening'[d] /\ phase'[d] # "game"
      BY <1>1, <2>5 DEF Seated
    <3>5. Running(d)' => \E last : Linked(Seen(d), toClient[d], last, Views(d, slots))'
      <4>1. PICK last : Linked(Seen(d), toClient[d], last, Views(d, slots))
        BY <2>2 DEF Seated
      <4> QED BY <2>6, <4>1
    <3> QED BY <3>1, <3>2, <3>3, <3>4, <3>5 DEF Seated
  <2>8. Silent(d) => Silent(d)'
    BY <1>1, <2>5 DEF Silent
  <2>9. ASSUME d # c \/ m.type # "leave_game_room", Stays(d, slots) PROVE Stays(d, slots)'
    <3>1. PICK last : Linked(Seen(d), toClient[d], last, Views(d, slots)) /\ last.phase = "game"
      BY <2>9 DEF Stays
    <3>2. PICK h : Leads(d, h, Seen(d), toClient[d])
      BY <2>2 DEF ViewInv, SeesRight
    <3>3. last = h[Len(toClient[d])]
      BY <2>3, <3>1, <3>2, LinkedIsLed
    <3>4. Good(d, last)
      BY <2>4, <3>2, <3>3 DEF Leads
    <3>5. ~Leaves(x, d)
      BY <2>2, <2>9 DEF Leaves, Passes
    <3>6. After(last, x).phase = "game"
      BY <3>1, <3>4, <3>5, GameGoesOn
    <3> QED BY <2>6, <3>1, <3>6 DEF Stays
  <2> QED BY <2>7, <2>8, <2>9
<1> QED BY <1>2, <1>3

\* What d makes of x when it knows v changes of a board.
Hear(d, slot, v, x) ==
  IF v < 0 THEN v ELSE IF Leaves(x, d) THEN -1 ELSE IF IsAbout(x, slot) THEN v + 1 ELSE v

\* Who knows of the changes of a board runs.
LEMMA HearsRunning ==
  ASSUME ClientTypes, ConnInv, NEW d \in Client, phase[d] = "lost" => toClient[d] = << >>,
         NEW k, NEW slot, NEW board, NEW v, v \in Known, v >= 0, KnowsOf(d, k, slot, board, v)
  PROVE  Running(d) /\ d \in remoteByClientId
<1>1. phase[d] \in {"off", "connect", "lobby", "game", "lost"}
  BY TypesOfClients
<1>2. ASSUME phase[d] \in {"off", "lost"} PROVE FALSE
  <2>1. toClient[d] = << >> /\ Heard(d, k) = -2
    BY <1>2 DEF ConnInv, Heard
  <2> DEFINE steps == Hearing(d, slot, board)
  <2>2. Linked(-2, << >>, v, steps)
    BY <2>1 DEF KnowsOf
  <2> HIDE DEF steps
  <2>3. v = -2
    BY <2>2, LinkedEmpty
  <2> QED BY <2>3
<1>3. Running(d)
  BY <1>1, <1>2 DEF Running
<1> QED BY <1>3 DEF ConnInv

\* What is on its way to a copy is what it was, and x.
LEMMA HearsTold ==
  ASSUME ClientTypes, UNCHANGED clientVars, NEW c \in Client, NEW m, NEW d \in Client, NEW k, NEW slot, NEW board, NEW v \in Known,
         KnowsOf(d, k, slot, board, v)
  PROVE  /\ Untold(c, d, m) => KnowsOf(d, k, slot, board, v)'
         /\ \A x : /\ Told(c, d, m, x)
                   /\ v >= 0 /\ ~Leaves(x, d) /\ IsAbout(x, slot) => IsNext(board, v, ChangeOf(x))
                   => KnowsOf(d, k, slot, board, Hear(d, slot, v, x))' /\ Hear(d, slot, v, x) \in Known
<1>1. phase'[d] = phase[d] /\ players'[d] = players[d]
  BY DEF clientVars
<1>2. /\ Heard(d, k)' = Heard(d, k)
      /\ phase[d] = "game" => StartsWith(board, players[d][k].board)
      /\ phase'[d] = "game" => StartsWith(board, players'[d][k].board)
      /\ Linked(Heard(d, k), toClient[d], v, Hearing(d, slot, board))
  BY <1>1 DEF Heard, KnowsOf
<1>3. Untold(c, d, m) => KnowsOf(d, k, slot, board, v)'
  BY <1>1, <1>2 DEF Untold, KnowsOf, StartsWith
<1>4. ASSUME NEW x, Told(c, d, m, x), v >= 0 /\ ~Leaves(x, d) /\ IsAbout(x, slot) => IsNext(board, v, ChangeOf(x))
      PROVE  KnowsOf(d, k, slot, board, Hear(d, slot, v, x))' /\ Hear(d, slot, v, x) \in Known
  <2> DEFINE w == Hear(d, slot, v, x)
  <2>1. x \in ServerMessage /\ x.type # "create_game" /\ toClient'[d] = Append(toClient[d], x)
    BY <1>4 DEF Told
  <2>2. v \in Int /\ v >= -2
    BY DEF Known
  <2>3. w \in Known
    BY <2>2 DEF Hear, Known
  <2>4. Hears(d, slot, board, v, x, w)
    <3>1. v < 0 => w = v /\ (v = -2 \/ v = -1)
      BY <2>2 DEF Hear
    <3>2. v >= 0 /\ Leaves(x, d) => w = -1
      BY <2>2 DEF Hear
    <3>3. v >= 0 /\ ~Leaves(x, d) /\ IsAbout(x, slot) => w = v + 1
      BY <2>2 DEF Hear
    <3>4. v >= 0 /\ ~Leaves(x, d) /\ ~IsAbout(x, slot) => w = v
      BY <2>2 DEF Hear
    <3> HIDE DEF w
    <3> QED BY <1>4, <2>1, <2>2, <3>1, <3>2, <3>3, <3>4 DEF Hears
  <2> HIDE DEF w
  <2>5. <<v, x, w>> \in Hearing(d, slot, board)
    BY <2>1, <2>3, <2>4, HearingIs
  <2>6. Linked(Heard(d, k), Append(toClient[d], x), w, Hearing(d, slot, board))
    <3> DEFINE steps == Hearing(d, slot, board)
               first == Heard(d, k)
    <3>1. Linked(first, toClient[d], v, steps) /\ <<v, x, w>> \in steps
      BY <1>2, <2>5
    <3>2. toClient[d] \in Seq(ServerMessage)
      BY TypesOfClients
    <3> HIDE DEF steps, first
    <3>3. Linked(first, Append(toClient[d], x), w, steps)
      BY <3>1, <3>2, LinkedAppend
    <3> QED BY <3>3 DEF steps, first
  <2>7. Linked(Heard(d, k)', toClient'[d], w, Hearing(d, slot, board))
    BY <1>2, <2>1, <2>6
  <2>8. \A u : Linked(Heard(d, k)', toClient'[d], u, Hearing(d, slot, board)) => KnowsOf(d, k, slot, board, u)'
    BY <1>2 DEF KnowsOf, Linked, Hearing, Hears, StartsWith
  <2>9. KnowsOf(d, k, slot, board, w)'
    BY <2>7, <2>8
  <2> QED BY <2>3, <2>9 DEF w
<1> QED BY <1>3, <1>4

\* A message of the server about the board of a slot comes from its owner, who said it.
LEMMA AboutIsSaid ==
  ASSUME NEW slots, NEW n, TakenInOrder(slots, n), DistinctPlayers(slots), NEW c \in Client, NEW m,
         toServer[c] \in Seq(ClientMessage),
         Delivers(c, m), TellsOfItsOwn(c, slots, n), NEW d \in Client, NEW x, Passes(c, d, m, x), NEW k \in 1 .. n
  PROVE  /\ IsAbout(x, slots[k - 1]) =>
              /\ slots[k - 1].client = c /\ IsSaid(m, slots[k - 1]) /\ ChangeOf(x) = ChangeOf(m)
              /\ m.type \in Changes /\ roomIdByClientId[d] = roomIdByClientId[c]
         /\ slots[k - 1].client = c /\ IsSaid(m, slots[k - 1]) /\ x.type = m.type => IsAbout(x, slots[k - 1])
<1>1. "game_restart" \notin BoardKind
  BY DEF BoardKind
<1>2. ASSUME IsAbout(x, slots[k - 1])
      PROVE  /\ slots[k - 1].client = c /\ IsSaid(m, slots[k - 1]) /\ ChangeOf(x) = ChangeOf(m)
             /\ m.type \in Changes /\ roomIdByClientId[d] = roomIdByClientId[c]
  <2>1. x.type \in Changes
    BY <1>2 DEF IsAbout, Changes
  <2>2. /\ d # c /\ m.type = x.type /\ ChangeOf(x) = ChangeOf(m)
        /\ x.type \in BoardKind => x.player = m.player
        /\ x.type = "game_restart" => x.client = c
        /\ roomIdByClientId[d] = roomIdByClientId[c]
    BY <2>1 DEF Passes
  <2>3. CASE x.type \in BoardKind
    <3>1. m = toServer[c][1] /\ 1 \in 1 .. Len(toServer[c])
      BY DEF Delivers
    <3>2. PICK j \in 1 .. n : slots[j - 1].client = c /\ m.player = slots[j - 1].player
      BY <2>2, <2>3, <3>1 DEF TellsOfItsOwn
    <3>3. slots[k - 1].player = m.player
      BY <1>1, <1>2, <2>2, <2>3 DEF IsAbout
    <3>4. /\ k - 1 \in SlotIndex /\ slots[k - 1] # OpenSlot
          /\ slots[k - 1].client \in Client /\ slots[k - 1].player \in PlayerId
      BY TakenSlots
    <3>5. /\ j - 1 \in SlotIndex /\ slots[j - 1] # OpenSlot
          /\ slots[j - 1].client \in Client /\ slots[j - 1].player \in PlayerId
      BY TakenSlots
    <3>6. k - 1 = j - 1
      BY <3>2, <3>3, <3>4, <3>5 DEF DistinctPlayers
    <3>7. slots[k - 1].client = c
      BY <3>2, <3>6
    <3> QED BY <2>1, <2>2, <2>3, <3>3, <3>7 DEF IsSaid
  <2>4. CASE x.type = "game_restart"
    BY <1>1, <1>2, <2>1, <2>2, <2>4 DEF IsAbout, IsSaid
  <2> QED BY <2>1, <2>3, <2>4 DEF Changes
<1>3. ASSUME slots[k - 1].client = c, IsSaid(m, slots[k - 1]), x.type = m.type PROVE IsAbout(x, slots[k - 1])
  <2>1. x.type \in Changes
    BY <1>3 DEF IsSaid, Changes
  <2>2. /\ x.type \in BoardKind => x.player = m.player
        /\ x.type = "game_restart" => x.client = c
    BY <2>1 DEF Passes
  <2> QED BY <1>1, <1>3, <2>2 DEF IsSaid, IsAbout
<1> QED BY <1>2, <1>3

\* Who is in the room stays there, or is told that it left.
LEMMA RoomStays ==
  ASSUME ServerTypeOK, NEW c \in Client, NEW m, Delivers(c, m), NEW d \in Client, Running(d), d \in remoteByClientId,
         NEW r \in RoomId, roomIdByClientId[d] = r
  PROVE  /\ Untold(c, d, m) => roomIdByClientId'[d] = r
         /\ \A x : Told(c, d, m, x) /\ ~Leaves(x, d) => roomIdByClientId'[d] = r
<1>1. CASE d # c
  BY <1>1 DEF Delivers
<1>2. CASE d = c
  <2>1. Inside(c)
    BY <1>2, NoIdAssumption DEF Inside
  <2>2. m.type \notin Entry
    BY <2>1 DEF Delivers
  <2>3. m.type # "leave_game_room" => roomIdByClientId'[d] = r
    BY <1>2, <2>2 DEF Delivers
  <2>4. ASSUME m.type = "leave_game_room"
        PROVE  ~Untold(c, d, m) /\ \A x : Told(c, d, m, x) => Leaves(x, d)
    <3>1. MustHear(c, d, m)
      BY <1>2, <2>1, <2>4 DEF MustHear
    <3>2. ASSUME NEW x, Told(c, d, m, x) PROVE Leaves(x, d)
      <4>1. x.type = "leave_game_room"
        BY <2>4, <3>1, <3>2 DEF Told
      <4> QED BY <1>2, <3>2, <4>1 DEF Told, Passes, Leaves
    <3> QED BY <3>1, <3>2 DEF Untold
  <2> QED BY <2>3, <2>4
<1> QED BY <1>1, <1>2

\* The owner stays as it is but for what is on its way.
LEMMA OwnStays ==
  ASSUME UNCHANGED clientVars, NEW e \in Client, NEW k
  PROVE  /\ Own(e, k)' = Own(e, k)
         /\ phase'[e] = phase[e]
         /\ \A slot, v, w : Linked(v, toServer'[e], w, Saying(slot, Own(e, k))) <=> Linked(v, toServer[e], w, Saying(slot, Own(e, k)))'
BY DEF clientVars, Own, Linked, Saying, Says

\* The owner did not send m.
LEMMA OtherOwns ==
  ASSUME ClientTypes, ClientTypes', ViewInv, NEW slots, NEW n, NEW r, GameOn(slots, n, r),
         NEW c \in Client, NEW m, Delivers(c, m),
         NEW e \in Client, e # c, Untold(c, e, m) \/ \E x : Told(c, e, m, x), NEW k \in 1 .. n, NEW v,
         Owns(e, slots[k - 1], Own(e, k), v, slots, r)
  PROVE  Owns(e, slots[k - 1], Own(e, k), v, slots, r)'
<1>1. /\ UNCHANGED clientVars
      /\ toServer'[e] = toServer[e] /\ roomIdByClientId'[e] = roomIdByClientId[e]
  BY DEF Delivers
<1>2. /\ Own(e, k)' = Own(e, k)
      /\ phase'[e] = phase[e]
  BY <1>1, OwnStays
<1>3. /\ Silent(e) => Silent(e)'
      /\ Stays(e, slots) => Stays(e, slots)'
  <2>1. Seated(e, slots, n)
    BY DEF GameOn
  <2> QED BY <1>1, <2>1, DeliverSeats
<1>4. CASE roomIdByClientId[e] # r
  BY <1>1, <1>4 DEF Owns
<1>5. CASE NoneOf(toServer[e], Changes) /\ Silent(e)
  BY <1>1, <1>3, <1>5 DEF Owns, NoneOf
<1>6. CASE \E w \in Said : /\ Linked(v, toServer[e], w, Saying(slots[k - 1], Own(e, k)))
                           /\ w = -1 \/ phase[e] = "lost" \/ (w = Len(Own(e, k)) /\ Stays(e, slots))
  <2>1. PICK w \in Said : /\ Linked(v, toServer[e], w, Saying(slots[k - 1], Own(e, k)))
                          /\ w = -1 \/ phase[e] = "lost" \/ (w = Len(Own(e, k)) /\ Stays(e, slots))
    BY <1>6
  <2>2. Linked(v, toServer[e], w, Saying(slots[k - 1], Own(e, k)))'
    BY <1>1, <2>1, OwnStays
  <2>3. (w = -1 \/ phase[e] = "lost" \/ (w = Len(Own(e, k)) /\ Stays(e, slots)))'
    BY <1>2, <1>3, <2>1
  <2> QED BY <2>2, <2>3 DEF Owns
<1> QED BY <1>4, <1>5, <1>6 DEF Owns

\* The owner sent m, and is out of the room, or tells nothing.
LEMMA OwnerApart ==
  ASSUME ClientTypes, ClientTypes', ServerTypeOK, ViewInv, NEW slots, NEW n, NEW r, GameOn(slots, n, r),
         NEW c \in Client, NEW m, Delivers(c, m), Untold(c, c, m) \/ \E x : Told(c, c, m, x), NEW slot, NEW board, NEW v,
         \/ roomIdByClientId[c] # r
         \/ NoneOf(toServer[c], Changes) /\ Silent(c)
         \/ m.type = "leave_game_room"
  PROVE  Owns(c, slot, board, v, slots, r)'
<1>1. /\ UNCHANGED clientVars
      /\ toServer[c] \in Seq(ClientMessage) /\ toServer[c] # << >>
      /\ m = Head(toServer[c]) /\ toServer'[c] = Tail(toServer[c])
  BY TypesOfClients DEF Delivers
<1>2. Silent(c) => Silent(c)'
  <2>1. Seated(c, slots, n)
    BY DEF GameOn
  <2>2. /\ Seated(c, slots, n)'
        /\ Silent(c) => Silent(c)'
        /\ (c # c \/ m.type # "leave_game_room") /\ Stays(c, slots) => Stays(c, slots)'
    BY <1>1, <2>1, DeliverSeats
  <2> QED BY <2>2
<1>3. ASSUME NoneOf(Tail(toServer[c]), Changes), Silent(c) PROVE Owns(c, slot, board, v, slots, r)'
  <2>1. NoneOf(toServer[c], Changes)'
    BY <1>1, <1>3 DEF NoneOf
  <2> QED BY <1>2, <1>3, <2>1 DEF Owns
<1>4. CASE NoneOf(toServer[c], Changes) /\ Silent(c)
  <2>1. NoneOf(Tail(toServer[c]), Changes)
    <3> DEFINE types == Changes
               queue == toServer[c]
    <3>1. queue \in Seq(ClientMessage) /\ queue # << >> /\ NoneOf(queue, types)
      BY <1>1, <1>4
    <3> HIDE DEF types, queue
    <3>2. NoneOf(queue, types) => NoneOf(Tail(queue), types)
      BY <3>1, NoneOfTail
    <3> QED BY <3>1, <3>2 DEF types, queue
  <2> QED BY <1>3, <1>4, <2>1
<1>5. CASE m.type = "leave_game_room"
  <2>1. roomIdByClientId'[c] = NoRoom /\ r \in RoomId
    BY <1>5 DEF Delivers, GameOn
  <2>2. roomIdByClientId'[c] # r
    BY <2>1, NoIdAssumption
  <2> QED BY <2>2 DEF Owns
<1>6. CASE roomIdByClientId[c] # r /\ m.type # "leave_game_room"
  <2>1. CASE m.type \notin Entry
    <3>1. roomIdByClientId'[c] # r
      BY <1>6, <2>1 DEF Delivers
    <3> QED BY <3>1 DEF Owns
  <2>2. CASE m.type = "create_game_room"
    <3>1. roomIdByClientId'[c] \notin usedIds /\ r \in usedIds
      BY <2>2 DEF Delivers, GameOn
    <3>2. roomIdByClientId'[c] # r
      BY <3>1
    <3> QED BY <3>2 DEF Owns
  <2>3. CASE m.type = "join_game_room"
    <3>1. TellsOfItsOwn(c, slots, n)
      BY DEF GameOn
    <3>2. Len(toServer[c]) \in Nat /\ Len(toServer[c]) >= 1 /\ toServer[c][1] = m
          /\ Len(Tail(toServer[c])) = Len(toServer[c]) - 1
          /\ \A j \in 1 .. Len(Tail(toServer[c])) : Tail(toServer[c])[j] = toServer[c][j + 1]
      BY <1>1
    <3>3. NoneOf(Tail(toServer[c]), Changes)
      <4> SUFFICES ASSUME NEW j \in 1 .. Len(Tail(toServer[c])) PROVE Tail(toServer[c])[j].type \notin Changes
        BY DEF NoneOf
      <4>1. 1 \in 1 .. Len(toServer[c]) /\ j + 1 \in 1 .. Len(toServer[c]) /\ 1 < j + 1
        BY <3>2
      <4>2. toServer[c][j + 1].type \notin Changes
        BY <2>3, <3>1, <3>2, <4>1 DEF TellsOfItsOwn
      <4> QED BY <3>2, <4>2
    <3>4. ~NoneOf(toServer[c], {"join_game_room"})
      BY <2>3, <3>2 DEF NoneOf
    <3>5. Silent(c)
      BY <3>1, <3>4 DEF TellsOfItsOwn
    <3> QED BY <1>3, <3>3, <3>5
  <2> QED BY <2>1, <2>2, <2>3 DEF Entry
<1> QED BY <1>4, <1>5, <1>6

\* The owner sent m from the room.
LEMMA OwnerInside ==
  ASSUME ClientTypes, ClientTypes', ViewInv, NEW slots, NEW n, NEW r, GameOn(slots, n, r),
         NEW c \in Client, NEW m, Delivers(c, m), m.type # "leave_game_room",
         Untold(c, c, m) \/ \E x : Told(c, c, m, x),
         NEW k \in 1 .. n, NEW v \in Nat,
         NEW w \in Said, Linked(v, toServer[c], w, Saying(slots[k - 1], Own(c, k))),
         w = -1 \/ phase[c] = "lost" \/ (w = Len(Own(c, k)) /\ Stays(c, slots))
  PROVE  /\ IsSaid(m, slots[k - 1]) =>
              /\ IsNext(Own(c, k), v, ChangeOf(m))
              /\ Owns(c, slots[k - 1], Own(c, k), v + 1, slots, r)'
         /\ ~IsSaid(m, slots[k - 1]) => Owns(c, slots[k - 1], Own(c, k), v, slots, r)'
<1> DEFINE slot == slots[k - 1]
           board == Own(c, k)
           steps == Saying(slot, board)
<1>1. /\ UNCHANGED clientVars
      /\ toServer[c] \in Seq(ClientMessage) /\ toServer[c] # << >>
      /\ m = Head(toServer[c]) /\ toServer'[c] = Tail(toServer[c])
  BY TypesOfClients DEF Delivers
<1>2. Linked(v, toServer[c], w, steps)
  OBVIOUS
<1>3. Own(c, k)' = Own(c, k) /\ phase'[c] = phase[c]
  BY <1>1, OwnStays
<1>4. Stays(c, slots) => Stays(c, slots)'
  <2>1. Seated(c, slots, n)
    BY DEF GameOn
  <2>2. /\ Seated(c, slots, n)'
        /\ Silent(c) => Silent(c)'
        /\ (c # c \/ m.type # "leave_game_room") /\ Stays(c, slots) => Stays(c, slots)'
    BY <1>1, <2>1, DeliverSeats
  <2> QED BY <2>2
<1>5. \E next : <<v, Head(toServer[c]), next>> \in steps /\ Linked(next, Tail(toServer[c]), w, steps)
  <2> HIDE DEF steps
  <2> QED BY <1>1, <1>2, LinkedTail
<1>6. PICK next : <<v, m, next>> \in steps /\ Linked(next, toServer'[c], w, steps)
  BY <1>1, <1>5
<1>7. next \in Said /\ Says(slot, board, v, m, next)
  BY <1>6 DEF Saying
<1>8. Linked(next, toServer[c], w, Saying(slot, Own(c, k)))'
  BY <1>1, <1>6, OwnStays
<1>9. (w = -1 \/ phase[c] = "lost" \/ (w = Len(Own(c, k)) /\ Stays(c, slots)))'
  BY <1>3, <1>4
<1>10. Owns(c, slot, Own(c, k), next, slots, r)'
  BY <1>8, <1>9 DEF Owns
<1>11. IsSaid(m, slot) => next = v + 1 /\ IsNext(board, v, ChangeOf(m))
  BY <1>7 DEF Says
<1>12. ~IsSaid(m, slot) => next = v
  BY <1>7 DEF Says
<1> QED BY <1>10, <1>11, <1>12

\* The copy of the board of another client is told what its owner said.
LEMMA OwnerTells ==
  ASSUME ClientTypes, ClientTypes', ServerTypeOK, ViewInv, NEW slots, NEW n, NEW r, GameOn(slots, n, r),
         NEW c \in Client, NEW m, Delivers(c, m),
         \A e \in Client : Untold(c, e, m) \/ \E x : Told(c, e, m, x),
         NEW d \in Client, NEW k \in 1 .. n, slots[k - 1].client # d,
         NEW v \in Nat, Owns(slots[k - 1].client, slots[k - 1], Own(slots[k - 1].client, k), v, slots, r),
         roomIdByClientId[d] = r, Running(d), d \in remoteByClientId
  PROVE  /\ Untold(c, d, m) => Owns(slots[k - 1].client, slots[k - 1], Own(slots[k - 1].client, k), v, slots, r)'
         /\ \A x : Told(c, d, m, x) /\ ~Leaves(x, d) =>
              /\ IsAbout(x, slots[k - 1]) => IsNext(Own(slots[k - 1].client, k), v, ChangeOf(x))
              /\ Owns(slots[k - 1].client, slots[k - 1], Own(slots[k - 1].client, k), Hear(d, slots[k - 1], v, x), slots, r)'
<1> DEFINE slot == slots[k - 1]
           e == slot.client
<1>0. /\ TakenInOrder(slots, n) /\ DistinctPlayers(slots) /\ TellsOfItsOwn(c, slots, n)
      /\ toServer[c] \in Seq(ClientMessage)
  BY TypesOfClients DEF GameOn
<1>1. e \in Client
  <2>1. /\ k - 1 \in SlotIndex /\ slots[k - 1] # OpenSlot
        /\ slots[k - 1].client \in Client /\ slots[k - 1].player \in PlayerId
    BY <1>0, TakenSlots
  <2> QED BY <2>1
<1>2. ASSUME NEW x, Told(c, d, m, x)
      PROVE  /\ IsAbout(x, slot) =>
                  /\ e = c /\ IsSaid(m, slot) /\ ChangeOf(x) = ChangeOf(m)
                  /\ m.type \in Changes /\ roomIdByClientId[d] = roomIdByClientId[c]
             /\ e = c /\ IsSaid(m, slot) /\ x.type = m.type => IsAbout(x, slot)
  <2>1. Passes(c, d, m, x)
    BY <1>2 DEF Told
  <2> QED BY <1>0, <2>1, AboutIsSaid
<1>3. CASE e # c
  <2>1. Owns(e, slot, Own(e, k), v, slots, r)'
    BY <1>1, <1>3, OtherOwns
  <2>2. ASSUME NEW x, Told(c, d, m, x), ~Leaves(x, d) PROVE Hear(d, slot, v, x) = v /\ ~IsAbout(x, slot)
    BY <1>2, <1>3, <2>2 DEF Hear
  <2> QED BY <2>1, <2>2
<1>4. CASE e = c /\ (roomIdByClientId[c] # r \/ (NoneOf(toServer[c], Changes) /\ Silent(c)) \/ m.type = "leave_game_room")
  <2>1. \A u, board : Owns(c, slot, board, u, slots, r)'
    BY <1>4, OwnerApart
  <2>2. \A u : Owns(c, slot, Own(c, k), u, slots, r)'
    BY <2>1
  <2>3. ASSUME NEW x, Told(c, d, m, x) PROVE ~IsAbout(x, slot)
    <3>1. m.type \in Changes => ~NoneOf(toServer[c], Changes)
      <4>1. m = toServer[c][1] /\ 1 \in 1 .. Len(toServer[c])
        BY <1>0 DEF Delivers
      <4> QED BY <4>1 DEF NoneOf
    <3>2. m.type \in Changes => m.type # "leave_game_room"
      BY DEF Changes, BoardKind
    <3> QED BY <1>2, <1>4, <2>3, <3>1, <3>2
  <2> QED BY <1>4, <2>2, <2>3
<1>5. CASE e = c /\ ~(roomIdByClientId[c] # r \/ (NoneOf(toServer[c], Changes) /\ Silent(c)) \/ m.type = "leave_game_room")
  <2>1. PICK w \in Said : /\ Linked(v, toServer[c], w, Saying(slot, Own(c, k)))
                          /\ w = -1 \/ phase[c] = "lost" \/ (w = Len(Own(c, k)) /\ Stays(c, slots))
    BY <1>5 DEF Owns
  <2>2. /\ IsSaid(m, slot) => /\ IsNext(Own(c, k), v, ChangeOf(m))
                              /\ Owns(c, slot, Own(c, k), v + 1, slots, r)'
        /\ ~IsSaid(m, slot) => Owns(c, slot, Own(c, k), v, slots, r)'
    BY <1>5, <2>1, OwnerInside
  <2>3. IsSaid(m, slot) => MustHear(c, d, m)
    <3>1. IsSaid(m, slot) => m.type \in Changes
      BY DEF IsSaid, Changes
    <3>2. roomIdByClientId[d] = roomIdByClientId[c] /\ Inside(c) /\ d # c
      <4>1. r \in RoomId
        BY DEF GameOn
      <4> QED BY <1>5, <4>1, NoIdAssumption DEF Inside
    <3> QED BY <3>1, <3>2 DEF MustHear
  <2>4. Untold(c, d, m) => ~IsSaid(m, slot)
    BY <2>3 DEF Untold
  <2>5. ASSUME NEW x, Told(c, d, m, x), ~Leaves(x, d)
        PROVE  /\ IsSaid(m, slot) <=> IsAbout(x, slot)
               /\ IsAbout(x, slot) => Hear(d, slot, v, x) = v + 1 /\ ChangeOf(x) = ChangeOf(m)
               /\ ~IsAbout(x, slot) => Hear(d, slot, v, x) = v
    <3>1. MustHear(c, d, m) => x.type = m.type
      BY <2>5 DEF Told
    <3>2. IsSaid(m, slot) <=> IsAbout(x, slot)
      BY <1>2, <1>5, <2>3, <2>5, <3>1
    <3> QED BY <1>2, <2>5, <3>2 DEF Hear
  <2>6. Untold(c, d, m) => Owns(c, slot, Own(c, k), v, slots, r)'
    BY <2>2, <2>4
  <2>7. ASSUME NEW x, Told(c, d, m, x), ~Leaves(x, d)
        PROVE  /\ IsAbout(x, slot) => IsNext(Own(c, k), v, ChangeOf(x))
               /\ Owns(c, slot, Own(c, k), Hear(d, slot, v, x), slots, r)'
    <3>1. CASE IsAbout(x, slot)
      <4>1. IsSaid(m, slot) /\ Hear(d, slot, v, x) = v + 1 /\ ChangeOf(x) = ChangeOf(m)
        BY <2>5, <2>7, <3>1
      <4> QED BY <2>2, <4>1
    <3>2. CASE ~IsAbout(x, slot)
      <4>1. ~IsSaid(m, slot) /\ Hear(d, slot, v, x) = v
        BY <2>5, <2>7, <3>2
      <4> QED BY <2>2, <3>2, <4>1
    <3> QED BY <3>1, <3>2
  <2> QED BY <1>5, <2>6, <2>7
<1> QED BY <1>3, <1>4, <1>5

\* What the others send stays, and c has sent one message less.
LEMMA DeliverTellsOn ==
  ASSUME ClientTypes, NEW slots, NEW n, NEW c \in Client, NEW m, Delivers(c, m), NEW d \in Client,
         TellsOfItsOwn(d, slots, n), Silent(d) => Silent(d)'
  PROVE  TellsOfItsOwn(d, slots, n)'
<1>1. CASE d # c
  <2>1. toServer'[d] = toServer[d]
    BY <1>1 DEF Delivers
  <2> QED BY <2>1, SameTells
<1>2. CASE d = c
  <2>1. toServer[c] \in Seq(ClientMessage) /\ toServer[c] # << >> /\ toServer'[c] = Tail(toServer[c])
    BY TypesOfClients DEF Delivers
  <2>2. /\ Len(toServer'[c]) = Len(toServer[c]) - 1 /\ Len(toServer[c]) \in Nat
        /\ \A j \in 1 .. Len(toServer'[c]) : toServer'[c][j] = toServer[c][j + 1]
    BY <2>1
  <2>3. \A j \in 1 .. Len(toServer'[c]) : j + 1 \in 1 .. Len(toServer[c])
    BY <2>2
  <2>4. \A j, k \in 1 .. Len(toServer'[c]) :
          j < k /\ toServer'[c][j].type = "join_game_room" => toServer'[c][k].type \notin Changes
    <3> SUFFICES ASSUME NEW j \in 1 .. Len(toServer'[c]), NEW k \in 1 .. Len(toServer'[c]),
                        j < k, toServer'[c][j].type = "join_game_room"
                 PROVE  toServer'[c][k].type \notin Changes
      OBVIOUS
    <3>1. toServer[c][j + 1].type = "join_game_room" /\ j + 1 < k + 1
      BY <2>2
    <3>2. toServer[c][k + 1].type \notin Changes
      BY <1>2, <2>3, <3>1 DEF TellsOfItsOwn
    <3> QED BY <2>2, <3>2
  <2>5. \A types : NoneOf(toServer[c], types) => NoneOf(toServer'[c], types)
    BY <2>2, <2>3 DEF NoneOf
  <2>6. ~NoneOf(toServer'[c], {"join_game_room"}) => Silent(c)'
    BY <1>2, <2>5 DEF TellsOfItsOwn
  <2>7. NoneOf(toServer'[c], {"start_game"})
    BY <1>2, <2>5 DEF TellsOfItsOwn
  <2>8. \A j \in 1 .. Len(toServer'[c]) : toServer'[c][j].type \in BoardKind =>
          \E k \in 1 .. n : slots[k - 1].client = c /\ toServer'[c][j].player = slots[k - 1].player
    BY <1>2, <2>2, <2>3 DEF TellsOfItsOwn
  <2>9. ~NoneOf(toServer[c], {"join_game_room"})' => Silent(c)'
    BY <2>6 DEF NoneOf
  <2>10. NoneOf(toServer[c], {"start_game"})'
    BY <2>7 DEF NoneOf
  <2> QED BY <1>2, <2>4, <2>8, <2>9, <2>10 DEF TellsOfItsOwn
<1> QED BY <1>1, <1>2

\* The copy of d goes on following.
LEMMA DeliverFollows ==
  ASSUME ClientTypes, ClientTypes', ServerTypeOK, ConnInv, ViewInv, NEW slots, NEW n, NEW r, GameOn(slots, n, r),
         NEW c \in Client, NEW m, Delivers(c, m),
         \A e \in Client : Untold(c, e, m) \/ \E x : Told(c, e, m, x),
         NEW d \in Client, phase[d] = "lost" => toClient[d] = << >>, NEW k \in 1 .. n
  PROVE  Follows(d, k, slots, r)'
<1> DEFINE slot == slots[k - 1]
           e == slot.client
<1> SUFFICES ASSUME e # d
             PROVE  \E w \in Known : /\ KnowsOf(d, k, slot, Own(e, k), w)'
                                     /\ w >= 0 => /\ roomIdByClientId'[d] = r
                                                  /\ Owns(e, slot, Own(e, k), w, slots, r)'
  BY DEF Follows
<1>0. e \in Client /\ UNCHANGED clientVars /\ r \in RoomId
  <2>1. TakenInOrder(slots, n)
    BY DEF GameOn
  <2>2. /\ k - 1 \in SlotIndex /\ slots[k - 1] # OpenSlot
        /\ slots[k - 1].client \in Client /\ slots[k - 1].player \in PlayerId
    BY <2>1, TakenSlots
  <2> QED BY <2>2 DEF GameOn, Delivers
<1>2. PICK board : board = Own(e, k)
  OBVIOUS
<1>1. PICK v \in Known : /\ KnowsOf(d, k, slot, board, v)
                         /\ v >= 0 => /\ roomIdByClientId[d] = r
                                      /\ Owns(e, slot, board, v, slots, r)
  <2>1. Follows(d, k, slots, r)
    BY DEF GameOn
  <2> QED BY <1>2, <2>1 DEF Follows
<1>7. board = Own(e, k)'
  BY <1>0, <1>2, OwnStays
<1>3. /\ Untold(c, d, m) => KnowsOf(d, k, slot, board, v)'
      /\ \A x : /\ Told(c, d, m, x)
                /\ v >= 0 /\ ~Leaves(x, d) /\ IsAbout(x, slot) => IsNext(board, v, ChangeOf(x))
                => KnowsOf(d, k, slot, board, Hear(d, slot, v, x))' /\ Hear(d, slot, v, x) \in Known
  <2> HIDE DEF slot
  <2>1. KnowsOf(d, k, slot, board, v)
    BY <1>1
  <2> QED BY <1>0, <2>1, HearsTold
<1>4. ASSUME v >= 0
      PROVE  /\ Untold(c, d, m) => Owns(e, slot, Own(e, k), v, slots, r)' /\ roomIdByClientId'[d] = r
             /\ \A x : Told(c, d, m, x) /\ ~Leaves(x, d) =>
                  /\ IsAbout(x, slot) => IsNext(Own(e, k), v, ChangeOf(x))
                  /\ Owns(e, slot, Own(e, k), Hear(d, slot, v, x), slots, r)'
                  /\ roomIdByClientId'[d] = r
  <2>1. Running(d) /\ d \in remoteByClientId
    <3> HIDE DEF slot
    <3> QED BY <1>1, <1>4, HearsRunning
  <2>2. v \in Nat
    BY <1>4 DEF Known
  <2>3. /\ Untold(c, d, m) => roomIdByClientId'[d] = r
        /\ \A x : Told(c, d, m, x) /\ ~Leaves(x, d) => roomIdByClientId'[d] = r
    BY <1>0, <1>1, <1>4, <2>1, RoomStays
  <2>4. /\ Untold(c, d, m) => Owns(slots[k - 1].client, slots[k - 1], Own(slots[k - 1].client, k), v, slots, r)'
        /\ \A x : Told(c, d, m, x) /\ ~Leaves(x, d) =>
             /\ IsAbout(x, slots[k - 1]) => IsNext(Own(slots[k - 1].client, k), v, ChangeOf(x))
             /\ Owns(slots[k - 1].client, slots[k - 1], Own(slots[k - 1].client, k), Hear(d, slots[k - 1], v, x), slots, r)'
    BY <1>1, <1>2, <1>4, <2>1, <2>2, OwnerTells
  <2> QED BY <2>3, <2>4
<1>5. CASE Untold(c, d, m)
  <2>1. KnowsOf(d, k, slot, Own(e, k), v)'
    BY <1>3, <1>5, <1>7
  <2> QED BY <1>4, <1>5, <2>1
<1>6. CASE \E x : Told(c, d, m, x)
  <2>1. PICK x : Told(c, d, m, x)
    BY <1>6
  <2> DEFINE w == Hear(d, slot, v, x)
  <2>2. v >= 0 /\ ~Leaves(x, d) /\ IsAbout(x, slot) => IsNext(board, v, ChangeOf(x))
    BY <1>2, <1>4, <2>1
  <2>3. KnowsOf(d, k, slot, board, w)' /\ w \in Known
    BY <1>3, <2>1, <2>2
  <2>4. KnowsOf(d, k, slot, Own(e, k), w)'
    BY <1>7, <2>3
  <2>5. w >= 0 => v >= 0 /\ ~Leaves(x, d)
    BY DEF Hear, Known
  <2>6. w >= 0 => roomIdByClientId'[d] = r /\ Owns(e, slot, Own(e, k), w, slots, r)'
    BY <1>4, <2>1, <2>5
  <2> QED BY <2>3, <2>4, <2>6
<1> QED BY <1>5, <1>6

\* The server handles a message.
LEMMA CopyDeliverStep ==
  ASSUME SessionInv, SessionInv', NEW slots, NEW n, NEW r, GameOn(slots, n, r), NEW c \in Client, NEW m, Delivers(c, m),
         \A d \in Client : phase[d] = "lost" => toClient[d] = << >>
  PROVE  GameOn(slots, n, r)'
<1>0. /\ ClientTypes /\ ClientTypes' /\ ServerTypeOK /\ ConnInv /\ ConnInv' /\ ViewInv /\ UNCHANGED clientVars
  BY DEF SessionInv, TypesInv, SessionTypeOK, ClientTypes, Delivers
<1>1. m.type # "start_game"
  <2>1. TellsOfItsOwn(c, slots, n)
    BY DEF GameOn
  <2>2. m = toServer[c][1] /\ 1 \in 1 .. Len(toServer[c])
    BY <1>0, TypesOfClients DEF Delivers
  <2> QED BY <2>1, <2>2 DEF TellsOfItsOwn, NoneOf
<1>2. \A d \in Client : Untold(c, d, m) \/ \E x : Told(c, d, m, x)
  BY <1>0, <1>1, DeliverTells
<1>3. ASSUME NEW d \in Client PROVE Seated(d, slots, n)' /\ TellsOfItsOwn(d, slots, n)'
  <2>1. Seated(d, slots, n) /\ TellsOfItsOwn(d, slots, n)
    BY DEF GameOn
  <2>2. /\ Seated(d, slots, n)'
        /\ Silent(d) => Silent(d)'
        /\ (d # c \/ m.type # "leave_game_room") /\ Stays(d, slots) => Stays(d, slots)'
    BY <1>0, <1>2, <2>1, DeliverSeats
  <2>3. TellsOfItsOwn(d, slots, n)'
    BY <1>0, <2>1, <2>2, DeliverTellsOn
  <2> QED BY <2>2, <2>3
<1>4. \A d \in Client, k \in 1 .. n : Follows(d, k, slots, r)'
  BY <1>0, <1>2, DeliverFollows
<1>5. TakenInOrder(slots, n) /\ DistinctPlayers(slots) /\ r \in RoomId /\ r \in usedIds' /\ left'["start"] = 0
  BY DEF GameOn, Delivers
<1> QED BY <1>3, <1>4, <1>5 DEF GameOn

\* A session that fails tells nobody.
LEMMA CopyOverStep ==
  ASSUME RethrowAsSystemError = FALSE, SessionInv, NEW slots, NEW n, NEW r, GameOn(slots, n, r), NEW c \in Client, SessionOver(c)
  PROVE  GameOn(slots, n, r)'
<1>1. toClient \in [Client -> Seq(ServerMessage)] /\ ClientTypes
  <2>1. ClientTypes
    BY DEF SessionInv, TypesInv, SessionTypeOK, ClientTypes
  <2> QED BY <2>1, TypesOfClients
<1>2. SessionFails(c) /\ toClient' = Queued(toClient) /\ UNCHANGED <<clientVars, toServer, left, usedIds>>
  BY DEF SessionOver, SessionEnds
<1>3. sent' = NoMessages /\ UNCHANGED roomIdByClientId
  BY <1>2 DEF SessionFails
<1>4. \A d \in Client : toClient'[d] = toClient[d]
  BY <1>1, <1>2, <1>3 DEF Queued, NoMessages
<1>5. toClient' = toClient
  BY <1>1, <1>2, <1>4 DEF Queued
<1>6. SendsPlainly(c) /\ OthersStay(c)
  BY <1>2, <1>5, SaysNothing DEF clientVars
<1>7. left'["start"] = 0
  BY <1>2 DEF GameOn
<1> QED BY <1>1, <1>2, <1>3, <1>6, <1>7, PlainStep

-----------------------------------------------------------------------------
(* Players of rooms *)

\* No message makes one player sit in two slots.
LEMMA HandleDistinct ==
  ASSUME ServerTypeOK, RoomsDistinct, NEW c \in Client, NEW m \in ClientMessage, ~RoomGone(c), Handle(c, m),
         m.type # "remove_client"
  PROVE  RoomsDistinct'
<1>1. UNCHANGED gameRoomById => RoomsDistinct'
  BY DEF RoomsDistinct, RoomExists, DistinctPlayers
<1>2. /\ Ignore => RoomsDistinct'
      /\ \A out : Relay(out) => RoomsDistinct'
      /\ \A room : FrontOfEmptyList(room) => RoomsDistinct'
      /\ HandleRequestGameRoomList(c) => RoomsDistinct'
  BY <1>1 DEF Ignore, Relay, FrontOfEmptyList, HandleRequestGameRoomList
<1>3. Inside(c) => roomIdByClientId[c] \in RoomId /\ RoomOf(c) \in Room /\ DistinctPlayers(RoomOf(c).playerSlots)
  BY RoomOfType DEF RoomsDistinct, RoomGone, RoomOf
<1>4. \A room, out : UpdateRoom(c, room, out) /\ Inside(c) /\ DistinctPlayers(room.playerSlots) => RoomsDistinct'
  <2> SUFFICES ASSUME NEW room, NEW out, UpdateRoom(c, room, out), Inside(c), DistinctPlayers(room.playerSlots)
               PROVE  RoomsDistinct'
    OBVIOUS
  <2> DEFINE r == roomIdByClientId[c]
  <2>1. gameRoomById' = [gameRoomById EXCEPT ![r] = room] /\ r \in RoomId
    BY <1>3 DEF UpdateRoom
  <2> HIDE DEF r
  <2> QED BY <2>1, RoomDistinct
<1>5. EnterAgain(c) => RoomsDistinct'
  <2> SUFFICES ASSUME EnterRoom(c, roomIdByClientId[c], RoomOf(c)), Inside(c) PROVE RoomsDistinct'
    BY <1>2 DEF EnterAgain
  <2> DEFINE r == roomIdByClientId[c]
             room == RoomOf(c)
  <2>1. r \in RoomId /\ room \in Room /\ DistinctPlayers(room.playerSlots) /\ EnterRoom(c, r, room)
    BY <1>3
  <2> HIDE DEF r, room
  <2> QED BY <2>1, EnterDistinct
<1>6. CASE m.type = "create_game_room" /\ HandleCreateGameRoom(c, m.isPublic)
  <2>1. ASSUME NEW r \in RoomId, EnterRoom(c, r, NewRoom(m.isPublic)) PROVE RoomsDistinct'
    <3> DEFINE room == NewRoom(m.isPublic)
    <3>1. m.isPublic \in BOOLEAN
      BY <1>6 DEF ClientMessage, BoardKind
    <3>2. room \in Room
      BY <3>1, NewRoomType
    <3>3. DistinctPlayers(room.playerSlots)
      BY DEF DistinctPlayers, NewRoom
    <3>4. EnterRoom(c, r, room)
      BY <2>1
    <3> HIDE DEF room
    <3> QED BY <3>2, <3>3, <3>4, EnterDistinct
  <2> QED BY <1>5, <1>6, <2>1 DEF HandleCreateGameRoom
<1>7. CASE m.type = "join_game_room" /\ HandleJoinGameRoom(c, m.room)
  <2>1. ASSUME RoomExists(m.room), EnterRoom(c, m.room, gameRoomById[m.room]) PROVE RoomsDistinct'
    <3> DEFINE r == m.room
               room == gameRoomById[r]
    <3>1. r \in RoomId
      BY <1>7 DEF ClientMessage, BoardKind
    <3>2. room \in Room /\ DistinctPlayers(room.playerSlots) /\ EnterRoom(c, r, room)
      BY <2>1, <3>1 DEF RoomsDistinct, ServerTypeOK, RoomExists
    <3> HIDE DEF room, r
    <3> QED BY <3>1, <3>2, EnterDistinct
  <2> QED BY <1>2, <1>5, <1>7, <2>1 DEF HandleJoinGameRoom
<1>8. CASE m.type = "leave_game_room" /\ HandleLeaveGameRoom(c)
  <2>1. CASE Inside(c)
    <3> DEFINE r    == roomIdByClientId[c]
               left_ == Disconnect(RoomOf(c), c)
               room == IF IsEmpty(left_) THEN NoRoom ELSE left_
    <3>1. gameRoomById' = [gameRoomById EXCEPT ![r] = room]
      BY <1>8, <2>1 DEF HandleLeaveGameRoom, Ignore
    <3>2. DistinctPlayers(left_.playerSlots)
      <4>1. left_.playerSlots = RoomOf(c).playerSlots
        BY <1>3, <2>1 DEF Disconnect, Room
      <4> QED BY <1>3, <2>1, <4>1
    <3>3. room # NoRoom => DistinctPlayers(room.playerSlots)
      BY <3>2
    <3>4. r \in RoomId
      BY <1>3, <2>1
    <3> HIDE DEF room, r
    <3> QED BY <3>1, <3>3, <3>4, RoomDistinct
  <2> QED BY <1>2, <1>8, <2>1 DEF HandleLeaveGameRoom
<1>9. CASE Inside(c) /\ m.type = "player_slot" /\ HandlePlayerSlot(c, m.index, m.request)
  <2> DEFINE i == m.index
  <2>1. ASSUME i \in SlotIndex, NEW slot \in Slot, UpdateSlot(c, i, slot),
               slot = OpenSlot \/ \A j \in SlotIndex : RoomOf(c).playerSlots[j].player # slot.player
        PROVE  RoomsDistinct'
    <3> DEFINE old == RoomOf(c)
               room == SetSlot(old, i, slot)
    <3>1. DistinctPlayers(room.playerSlots)
      <4>1. old \in Room /\ DistinctPlayers(old.playerSlots)
        BY <1>3, <1>9
      <4>2. slot = OpenSlot \/ \A j \in SlotIndex : old.playerSlots[j].player # slot.player
        BY <2>1
      <4> HIDE DEF old, i
      <4> QED BY <2>1, <4>1, <4>2, SlotDistinct
    <3>2. UpdateRoom(c, room, SendToAllClients(room, GameLooby(room.playerSlots)))
      BY <2>1 DEF UpdateSlot
    <3> HIDE DEF room
    <3> QED BY <1>4, <1>9, <3>1, <3>2
  <2>2. OpenSlot \in Slot
    BY DEF Slot
  <2>3. ASSUME NEW p \in PlayerId, FreshPlayer(p)
        PROVE  RemoteSlot(c, p) \in Slot /\ \A j \in SlotIndex : RoomOf(c).playerSlots[j].player # RemoteSlot(c, p).player
    <3>1. RemoteSlot(c, p) \in Slot /\ RemoteSlot(c, p).player = p
      BY DEF RemoteSlot, Slot
    <3>2. \A j \in SlotIndex : RoomOf(c).playerSlots[j].player # p
      BY <1>3, <1>9, <2>3 DEF FreshPlayer, RoomGone, RoomOf
    <3> QED BY <3>1, <3>2
  <2> HIDE DEF i
  <2> QED BY <1>2, <1>9, <2>1, <2>2, <2>3 DEF HandlePlayerSlot, i
<1>10. CASE Inside(c) /\ m.type = "game_command" /\ HandleGameCommand(c, m.pause)
  <2> DEFINE room == SetPause(RoomOf(c), m.pause)
  <2>1. DistinctPlayers(room.playerSlots)
    <3>1. room.playerSlots = RoomOf(c).playerSlots
      BY <1>3, <1>10 DEF SetPause, Room
    <3> QED BY <1>3, <1>10, <3>1
  <2>2. UpdateRoom(c, room, SendToAllClients(RoomOf(c), Paused(m.pause)))
    BY <1>10 DEF HandleGameCommand
  <2> HIDE DEF room
  <2> QED BY <1>4, <1>10, <2>1, <2>2
<1>11. HandleStartGame(c) \/ HandleBoard(c, m) \/ HandleRequestGameRestart(c) \/ HandleGameRestart(c, m.blocks)
         => RoomsDistinct'
  BY <1>2 DEF HandleStartGame, HandleBoard, HandleRequestGameRestart, HandleGameRestart
<1> QED BY <1>2, <1>6, <1>7, <1>8, <1>9, <1>10, <1>11 DEF Handle

\* What holds before and during the game: of the rooms, and of what is on its way to clients.
RoomsInv ==
  /\ RoomsDistinct
  /\ \A r \in RoomId : RoomExists(r) => r \in usedIds
  /\ \A d \in Client : /\ NoneOf(toClient[d], {"remove_client"})
                       /\ phase[d] = "lost" => toClient[d] = << >>

\* At first there are no rooms.
LEMMA RoomsInit == SessionInit => RoomsInv
<1> SUFFICES ASSUME SessionInit PROVE RoomsInv
  OBVIOUS
<1>1. \A r \in RoomId : ~RoomExists(r)
  BY DEF SessionInit, Init, RoomExists
<1>2. \A d \in Client : toClient[d] = << >>
  BY DEF SessionInit, NetworkInit
<1>3. \A d \in Client : NoneOf(toClient[d], {"remove_client"})
  BY <1>2 DEF NoneOf
<1> QED BY <1>1, <1>2, <1>3 DEF RoomsInv, RoomsDistinct

\* The rooms stay.
LEMMA RoomsStay ==
  ASSUME RoomsInv, UNCHANGED <<gameRoomById, usedIds>>,
         \A d \in Client : /\ NoneOf(toClient'[d], {"remove_client"})
                           /\ phase'[d] = "lost" => toClient'[d] = << >>
  PROVE  RoomsInv'
<1>1. RoomsDistinct'
  BY DEF RoomsInv, RoomsDistinct, RoomExists, DistinctPlayers
<1>2. (\A r \in RoomId : RoomExists(r) => r \in usedIds)'
  BY DEF RoomsInv, RoomExists
<1>3. \A d \in Client : NoneOf(toClient[d], {"remove_client"})' /\ (phase'[d] = "lost" => toClient'[d] = << >>)
  BY DEF NoneOf
<1> QED BY <1>1, <1>2, <1>3 DEF RoomsInv

\* The steps in which no client is told anything.
LEMMA RoomsQuietStep ==
  ASSUME SessionInv, RoomsInv, NEW c \in Client,
         \/ RethrowAsSystemError = FALSE /\ SessionOver(c)
         \/ Connect(c) \/ UserCommand(c) \/ Frame(c)
  PROVE  RoomsInv'
<1>0. /\ ClientTypes /\ left \in [Command -> Nat]
      /\ toClient \in [Client -> Seq(ServerMessage)] /\ phase \in [Client -> {"off", "connect", "lobby", "game", "lost"}]
  BY TypesOfSession, TypesOfClients DEF SessionInv
<1>same. ASSUME UNCHANGED <<gameRoomById, usedIds>>, UNCHANGED toClient, UNCHANGED phase \/ phase' = [phase EXCEPT ![c] = "connect"]
         PROVE  RoomsInv'
  <2>1. \A d \in Client : NoneOf(toClient'[d], {"remove_client"})
    BY <1>same DEF RoomsInv
  <2>2. \A d \in Client : phase'[d] = "lost" => phase[d] = "lost"
    BY <1>0, <1>same
  <2>3. \A d \in Client : phase'[d] = "lost" => toClient'[d] = << >>
    BY <1>same, <2>2 DEF RoomsInv
  <2> QED BY <1>same, <2>1, <2>3, RoomsStay
<1>1. CASE RethrowAsSystemError = FALSE /\ SessionOver(c)
  <2>1. SessionFails(c) /\ toClient' = Queued(toClient) /\ UNCHANGED <<clientVars, toServer, left, usedIds>>
    BY <1>1 DEF SessionOver, SessionEnds
  <2>2. sent' = NoMessages /\ UNCHANGED gameRoomById
    BY <2>1 DEF SessionFails
  <2>3. \A d \in Client : toClient'[d] = toClient[d]
    BY <1>0, <2>1, <2>2 DEF Queued, NoMessages
  <2>4. toClient' = toClient
    BY <1>0, <2>1, <2>3 DEF Queued
  <2> QED BY <1>same, <2>1, <2>2, <2>4 DEF clientVars
<1>2. CASE Connect(c)
  BY <1>2, <1>same DEF Connect, SpawnCoroutine
<1>3. CASE Frame(c)
  <2>1. UNCHANGED <<vars, usedIds>> /\ SameView
    BY <1>0, <1>3, FrameTypes DEF Frame
  <2> QED BY <1>same, <2>1 DEF vars, SameView
<1>4. CASE UserCommand(c) /\ ~LoseConnection(c)
  <2>1. UNCHANGED <<vars, usedIds>>
    BY <1>0, <1>4, Budget
  <2>2. SameView
    BY <1>0, <1>4, UserSteps
  <2> QED BY <1>same, <2>1, <2>2 DEF vars, SameView
<1>5. CASE UserCommand(c) /\ LoseConnection(c)
  <2>1. UNCHANGED <<vars, usedIds>>
    BY <1>0, <1>5, Budget
  <2>2. phase' = [phase EXCEPT ![c] = "lost"] /\ toClient' = [toClient EXCEPT ![c] = << >>]
    BY <1>5 DEF LoseConnection
  <2>3. \A d \in Client : NoneOf(toClient'[d], {"remove_client"}) /\ (phase'[d] = "lost" => toClient'[d] = << >>)
    <3> SUFFICES ASSUME NEW d \in Client
                 PROVE  NoneOf(toClient'[d], {"remove_client"}) /\ (phase'[d] = "lost" => toClient'[d] = << >>)
      OBVIOUS
    <3>1. CASE d = c
      <4>1. toClient'[d] = << >>
        BY <1>0, <2>2, <3>1
      <4> QED BY <4>1 DEF NoneOf
    <3>2. CASE d # c
      <4>1. toClient'[d] = toClient[d] /\ phase'[d] = phase[d]
        BY <1>0, <2>2, <3>2
      <4> QED BY <4>1 DEF RoomsInv
    <3> QED BY <3>1, <3>2
  <2> QED BY <2>1, <2>3, RoomsStay DEF vars
<1> QED BY <1>1, <1>2, <1>3, <1>4, <1>5

\* A client handles a message.
LEMMA RoomsReceiveStep ==
  ASSUME SessionInv, RoomsInv, NEW c \in Client, ClientReceives(c)
  PROVE  RoomsInv'
<1>0. /\ ClientTypes /\ toClient \in [Client -> Seq(ServerMessage)]
      /\ phase \in [Client -> {"off", "connect", "lobby", "game", "lost"}]
  BY TypesOfSession, TypesOfClients DEF SessionInv
<1>1. nextMessage(c) /\ UNCHANGED <<vars, left, usedIds>>
  BY DEF ClientReceives
<1>2. /\ toClient[c] # << >> /\ toClient' = [toClient EXCEPT ![c] = Tail(toClient[c])]
  BY <1>1 DEF nextMessage
<1>3. Running(c)
  BY <1>1 DEF nextMessage, Running
<1>4. \A d \in Client : d # c => phase'[d] = phase[d]
  BY <1>0, <1>1, OthersReceive
<1>5. phase'[c] # "lost"
  <2>1. phase[c] = "lobby" => KnowsRoom(c)
    <3>1. PICK h : Leads(c, h, Seen(c), toClient[c])
      BY <1>3 DEF SessionInv, ViewInv, SeesRight
    <3>2. 0 \in 0 .. Len(toClient[c])
      <4>1. toClient[c] \in Seq(ServerMessage)
        BY <1>0
      <4> QED BY <4>1
    <3>3. Good(c, Seen(c))
      BY <3>1, <3>2 DEF Leads
    <3> QED BY <3>3 DEF Good, Seen, KnowsRoom
  <2>2. Seen(c)' = After(Seen(c), Head(toClient[c]))
    BY <1>0, <1>1, <2>1, MessageSteps
  <2>3. After(Seen(c), Head(toClient[c])).phase \in {phase[c], "connect", "lobby", "game"}
    BY DEF After, JoinedBy, LeftBy, Seen
  <2>4. phase'[c] = After(Seen(c), Head(toClient[c])).phase
    BY <2>2 DEF Seen
  <2> QED BY <1>3, <2>3, <2>4 DEF Running
<1>6. \A d \in Client : NoneOf(toClient'[d], {"remove_client"}) /\ (phase'[d] = "lost" => toClient'[d] = << >>)
  <2> SUFFICES ASSUME NEW d \in Client
               PROVE  NoneOf(toClient'[d], {"remove_client"}) /\ (phase'[d] = "lost" => toClient'[d] = << >>)
    OBVIOUS
  <2>1. CASE d = c
    <3> DEFINE queue == toClient[c]
               types == {"remove_client"}
    <3>1. toClient'[d] = Tail(queue) /\ queue \in Seq(ServerMessage) /\ queue # << >> /\ NoneOf(queue, types)
      BY <1>0, <1>2, <2>1 DEF RoomsInv
    <3> HIDE DEF queue, types
    <3>2. NoneOf(queue, types) => NoneOf(Tail(queue), types)
      BY <3>1, NoneOfTail
    <3>3. NoneOf(Tail(queue), types)
      BY <3>1, <3>2
    <3> QED BY <1>5, <2>1, <3>1, <3>3 DEF types
  <2>2. CASE d # c
    <3>1. toClient'[d] = toClient[d] /\ phase'[d] = phase[d]
      BY <1>0, <1>2, <1>4, <2>2
    <3> QED BY <3>1 DEF RoomsInv
  <2> QED BY <2>1, <2>2
<1> QED BY <1>1, <1>6, RoomsStay DEF vars

\* The server handles a message.
LEMMA RoomsDeliverStep ==
  ASSUME SessionInv, RoomsInv, NEW c \in Client, NEW m, m \in ClientMessage, Delivers(c, m), Handle(c, m), ~RoomGone(c),
         m.type # "remove_client", NewIdsAreUnused
  PROVE  RoomsInv'
<1>0. ClientTypes /\ ServerTypeOK /\ toClient \in [Client -> Seq(ServerMessage)]
  BY TypesOfSession, TypesOfClients DEF SessionInv
<1>1. RoomsDistinct'
  BY <1>0, HandleDistinct DEF RoomsInv
<1>2. ASSUME NEW r \in RoomId, gameRoomById'[r] # NoRoom PROVE r \in usedIds'
  <2>1. r \in IdsOf(gameRoomById')
    BY <1>2 DEF IdsOf
  <2> QED BY <2>1 DEF NewIdsAreUnused
<1>3. UNCHANGED clientVars
  BY DEF Delivers
<1>4. ASSUME NEW d \in Client
      PROVE  NoneOf(toClient'[d], {"remove_client"}) /\ (phase'[d] = "lost" => toClient'[d] = << >>)
  <2>1. /\ IsTold(c, d, m)
        /\ phase[d] = "lost" => toClient'[d] = toClient[d]
        /\ phase[d] # "lost" => toClient'[d] = toClient[d] \o sent'[d]
    BY DEF Delivers
  <2>2. phase'[d] = phase[d]
    BY <1>3 DEF clientVars
  <2>3. toClient[d] \in Seq(ServerMessage) /\ NoneOf(toClient[d], {"remove_client"})
    BY <1>0 DEF RoomsInv
  <2>4. CASE phase[d] = "lost"
    BY <2>1, <2>2, <2>3, <2>4 DEF RoomsInv
  <2>5. CASE phase[d] # "lost" /\ sent'[d] = << >>
    <3>1. toClient'[d] = toClient[d]
      BY <2>1, <2>3, <2>5
    <3> QED BY <2>2, <2>3, <2>5, <3>1
  <2>6. CASE phase[d] # "lost" /\ sent'[d] # << >>
    <3>1. PICK x \in ServerMessage : sent'[d] = << x >> /\ Passes(c, d, m, x)
      BY <2>1, <2>6 DEF IsTold
    <3>2. toClient'[d] = Append(toClient[d], x)
      <4>1. toClient'[d] = toClient[d] \o << x >>
        BY <2>1, <2>6, <3>1
      <4> QED BY <2>3, <4>1
    <3>3. x.type \notin {"remove_client"}
      BY <3>1 DEF Passes
    <3> DEFINE queue == toClient[d]
               types == {"remove_client"}
    <3>4. queue \in Seq(ServerMessage) /\ NoneOf(queue, types) /\ x.type \notin types
      BY <2>3, <3>3
    <3> HIDE DEF queue, types
    <3>5. /\ NoneOf(Append(queue, x), types) <=> NoneOf(queue, types) /\ x.type \notin types
          /\ Len(Append(queue, x)) = Len(queue) + 1 /\ Len(queue) \in Nat
          /\ Append(queue, x)[Len(queue) + 1] = x
          /\ \A k \in 1 .. Len(queue) : Append(queue, x)[k] = queue[k]
      BY <3>4, NoneOfAppend
    <3>6. NoneOf(Append(queue, x), types)
      BY <3>4, <3>5
    <3> QED BY <2>2, <2>6, <3>2, <3>6 DEF queue, types
  <2> QED BY <2>4, <2>5, <2>6
<1>5. (\A r \in RoomId : RoomExists(r) => r \in usedIds)'
  BY <1>2 DEF RoomExists
<1>6. \A d \in Client : NoneOf(toClient[d], {"remove_client"})' /\ (phase'[d] = "lost" => toClient'[d] = << >>)
  BY <1>4 DEF NoneOf
<1> QED BY <1>1, <1>5, <1>6 DEF RoomsInv

-----------------------------------------------------------------------------
(* Before the game *)

\* At most one game will be started.
OneStart ==
  \/ left["start"] <= 1 /\ \A c \in Client : NoneOf(toServer[c], {"start_game"})
  \/ /\ left["start"] = 0
     /\ \E c \in Client :
          /\ \A d \in Client : d # c => NoneOf(toServer[d], {"start_game"})
          /\ \A j, k \in 1 .. Len(toServer[c]) :
               toServer[c][j].type = "start_game" /\ toServer[c][k].type = "start_game" => j = k

\* Nobody plays, and nothing under way makes anybody play but a start.
NoGame ==
  /\ \A c \in Client :
       /\ players[c] = << >> /\ ~listening[c] /\ phase[c] # "game"
       /\ NoneOf(toServer[c], Changes)
       /\ NoneOf(toClient[c], {"create_game"})
  /\ OneStart

\* c sends nothing new that starts a game.
LEMMA OneStartOn ==
  ASSUME OneStart, left'["start"] = left["start"], NEW c \in Client, \A d \in Client : d # c => toServer'[d] = toServer[d],
         NEW shift \in Nat,
         \A k \in 1 .. Len(toServer'[c]) :
           \/ k + shift \in 1 .. Len(toServer[c]) /\ toServer'[c][k] = toServer[c][k + shift]
           \/ toServer'[c][k].type # "start_game"
  PROVE  OneStart'
<1>1. NoneOf(toServer[c], {"start_game"}) => NoneOf(toServer'[c], {"start_game"})
  BY DEF NoneOf
<1>2. \A d \in Client : d # c => (NoneOf(toServer[d], {"start_game"}) <=> NoneOf(toServer'[d], {"start_game"}))
  OBVIOUS
<1>3. CASE left["start"] <= 1 /\ \A d \in Client : NoneOf(toServer[d], {"start_game"})
  <2>1. left'["start"] <= 1 /\ \A d \in Client : NoneOf(toServer'[d], {"start_game"})
    BY <1>1, <1>2, <1>3
  <2> QED BY <2>1 DEF OneStart, NoneOf
<1>4. CASE \E e \in Client :
             /\ left["start"] = 0
             /\ \A d \in Client : d # e => NoneOf(toServer[d], {"start_game"})
             /\ \A j, k \in 1 .. Len(toServer[e]) :
                  toServer[e][j].type = "start_game" /\ toServer[e][k].type = "start_game" => j = k
  <2>1. PICK e \in Client :
             /\ left["start"] = 0
             /\ \A d \in Client : d # e => NoneOf(toServer[d], {"start_game"})
             /\ \A j, k \in 1 .. Len(toServer[e]) :
                  toServer[e][j].type = "start_game" /\ toServer[e][k].type = "start_game" => j = k
    BY <1>4
  <2>2. \A d \in Client : d # e => NoneOf(toServer'[d], {"start_game"})
    BY <1>1, <1>2, <2>1
  <2>3. \A j, k \in 1 .. Len(toServer'[e]) :
          toServer'[e][j].type = "start_game" /\ toServer'[e][k].type = "start_game" => j = k
    <3>1. CASE e # c
      BY <2>1, <3>1
    <3>2. CASE e = c
      <4> SUFFICES ASSUME NEW j \in 1 .. Len(toServer'[c]), NEW k \in 1 .. Len(toServer'[c]),
                          toServer'[c][j].type = "start_game", toServer'[c][k].type = "start_game"
                   PROVE  j = k
        BY <3>2
      <4>1. j + shift = k + shift
        BY <2>1, <3>2
      <4> QED BY <4>1
    <3> QED BY <3>1, <3>2
  <2> QED BY <2>1, <2>2, <2>3 DEF OneStart, NoneOf
<1> QED BY <1>3, <1>4 DEF OneStart

\* A step of c at its end of the connection.
LEMMA NoGameOn ==
  ASSUME NoGame, left'["start"] = left["start"], NEW c \in Client,
         \A d \in Client : d # c => /\ players'[d] = players[d] /\ listening'[d] = listening[d] /\ phase'[d] = phase[d]
                                    /\ toServer'[d] = toServer[d] /\ toClient'[d] = toClient[d],
         players'[c] = << >>, ~listening'[c], phase'[c] # "game", NoneOf(toClient'[c], {"create_game"}),
         NEW shift \in Nat,
         \A k \in 1 .. Len(toServer'[c]) :
           \/ k + shift \in 1 .. Len(toServer[c]) /\ toServer'[c][k] = toServer[c][k + shift]
           \/ toServer'[c][k].type \notin Changes \cup {"start_game"}
  PROVE  NoGame'
<1>1. OneStart'
  BY OneStartOn DEF NoGame
<1>2. ASSUME NEW d \in Client
      PROVE  /\ players'[d] = << >> /\ ~listening'[d] /\ phase'[d] # "game"
             /\ NoneOf(toServer'[d], Changes)
             /\ NoneOf(toClient'[d], {"create_game"})
  <2>1. CASE d # c
    BY <2>1 DEF NoGame
  <2>2. CASE d = c
    <3>1. NoneOf(toServer[c], Changes)
      BY DEF NoGame
    <3>2. NoneOf(toServer'[c], Changes)
      BY <3>1 DEF NoneOf
    <3> QED BY <2>2, <3>2
  <2> QED BY <2>1, <2>2
<1> QED BY <1>1, <1>2 DEF NoGame, NoneOf

\* Nothing is sent.
LEMMA NoGameStill ==
  ASSUME NoGame, ClientTypes, left'["start"] = left["start"], NEW c \in Client,
         UNCHANGED <<players, listening, toServer, toClient>>,
         \A d \in Client : d # c => phase'[d] = phase[d], phase'[c] # "game"
  PROVE  NoGame'
<1>1. toServer[c] \in Seq(ClientMessage)
  BY TypesOfClients
<1>2. \A k \in 1 .. Len(toServer'[c]) : k + 0 \in 1 .. Len(toServer[c]) /\ toServer'[c][k] = toServer[c][k + 0]
  BY <1>1
<1>3. players'[c] = << >> /\ ~listening'[c] /\ NoneOf(toClient'[c], {"create_game"})
  BY DEF NoGame
<1>4. \A d \in Client : d # c => /\ players'[d] = players[d] /\ listening'[d] = listening[d] /\ phase'[d] = phase[d]
                                 /\ toServer'[d] = toServer[d] /\ toClient'[d] = toClient[d]
  OBVIOUS
<1>5. 0 \in Nat
  OBVIOUS
<1> QED BY <1>2, <1>3, <1>4, <1>5, NoGameOn

\* A user starts at most one game.
LEMMA NoGameUserStep ==
  ASSUME SessionInv, NoGame, NEW c \in Client, UserCommand(c)
  PROVE  NoGame'
<1>0. /\ ClientTypes /\ left \in [Command -> Nat]
      /\ players \in [Client -> Seq(Player)] /\ phase \in [Client -> {"off", "connect", "lobby", "game", "lost"}]
      /\ listening \in [Client -> BOOLEAN] /\ toServer \in [Client -> Seq(ClientMessage)]
      /\ toClient \in [Client -> Seq(ServerMessage)]
      /\ players[c] = << >> /\ ~listening[c] /\ phase[c] # "game" /\ NoneOf(toClient[c], {"create_game"})
  BY TypesOfSession, TypesOfClients DEF SessionInv, NoGame
<1>1. ASSUME NEW command \in Command \ {"start"}, Spend(command) PROVE left'["start"] = left["start"]
  BY <1>0, <1>1 DEF Spend, Command
<1>2. \/ Spend("start") /\ startGame(c)
      \/ left'["start"] = left["start"] /\ ~(Spend("start") /\ startGame(c))
  <2>1. {"create", "join", "leave", "slot", "pause", "restart", "list", "change", "lose"} \subseteq Command \ {"start"}
    BY DEF Command
  <2> QED BY <1>1, <2>1 DEF UserCommand
<1>types. /\ \A isPublic : CreateGameRoom(isPublic).type = "create_game_room"
          /\ \A room : JoinGameRoom(room).type = "join_game_room"
          /\ LeaveGameRoom.type = "leave_game_room" /\ RequestGameRestart.type = "request_game_restart"
          /\ RequestGameRoomList.type = "request_game_room_list"
          /\ \A i, request : PlayerSlot(i, request).type = "player_slot"
          /\ \A p : GameCommand(p).type = "game_command"
          /\ StartGame.type = "start_game"
  BY DEF CreateGameRoom, JoinGameRoom, LeaveGameRoom, RequestGameRestart, RequestGameRoomList,
         PlayerSlot, GameCommand, StartGame
<1>plain. {"create_game_room", "leave_game_room", "request_game_restart", "request_game_room_list", "player_slot",
           "game_command", "join_game_room"} \cap (Changes \cup {"start_game"}) = {}
  BY DEF Changes, BoardKind
<1>3. ASSUME NEW m, Send(c, m), m.type \notin Changes \cup {"start_game"}, left'["start"] = left["start"],
             UNCHANGED <<phase, players, toClient>>,
             ~listening'[c], \A d \in Client : d # c => listening'[d] = listening[d]
      PROVE  NoGame'
  <2>1. toServer'[c] = Append(toServer[c], m) /\ \A d \in Client : d # c => toServer'[d] = toServer[d]
    BY <1>0, <1>3 DEF Send
  <2>2. \A k \in 1 .. Len(toServer'[c]) :
          \/ k + 0 \in 1 .. Len(toServer[c]) /\ toServer'[c][k] = toServer[c][k + 0]
          \/ toServer'[c][k].type \notin Changes \cup {"start_game"}
    <3>1. toServer[c] \in Seq(ClientMessage)
      BY <1>0
    <3> DEFINE types == Changes \cup {"start_game"}
    <3>2. m.type \notin types
      BY <1>3
    <3> HIDE DEF types
    <3>3. \A k \in 1 .. Len(Append(toServer[c], m)) :
            \/ k \in 1 .. Len(toServer[c]) /\ Append(toServer[c], m)[k] = toServer[c][k]
            \/ Append(toServer[c], m)[k] = m
      BY <3>1
    <3>4. \A k \in 1 .. Len(toServer[c]) : k + 0 = k
      BY <3>1
    <3> QED BY <2>1, <3>2, <3>3, <3>4 DEF types
  <2>3. 0 \in Nat
    OBVIOUS
  <2> QED BY <1>0, <1>3, <2>1, <2>2, <2>3, NoGameOn
<1>4. ASSUME NEW m, Send(c, m), UNCHANGED <<clientVars, toClient>>,
             m.type \in {"create_game_room", "leave_game_room", "request_game_restart", "request_game_room_list",
                         "player_slot", "game_command"},
             left'["start"] = left["start"]
      PROVE  NoGame'
  <2>1. UNCHANGED <<phase, players, toClient>> /\ ~listening'[c] /\ \A d \in Client : d # c => listening'[d] = listening[d]
    BY <1>0, <1>4 DEF clientVars
  <2>2. m.type \notin Changes \cup {"start_game"}
    BY <1>4, <1>plain
  <2> QED BY <1>3, <1>4, <2>1, <2>2
<1>5. CASE Spend("start") /\ startGame(c)
  <2>1. Send(c, StartGame) /\ UNCHANGED <<clientVars, toClient>>
    BY <1>5 DEF startGame, InsideSend
  <2>2. toServer'[c] = Append(toServer[c], StartGame) /\ \A d \in Client : d # c => toServer'[d] = toServer[d]
    BY <1>0, <2>1 DEF Send
  <2>3. left["start"] > 0 /\ left'["start"] = left["start"] - 1 /\ left["start"] \in Nat
    BY <1>0, <1>5 DEF Spend, Command
  <2>4. left["start"] <= 1 /\ \A d \in Client : NoneOf(toServer[d], {"start_game"})
    BY <2>3 DEF NoGame, OneStart
  <2>5. /\ NoneOf(Append(toServer[c], StartGame), Changes) <=> NoneOf(toServer[c], Changes) /\ StartGame.type \notin Changes
        /\ Len(Append(toServer[c], StartGame)) = Len(toServer[c]) + 1 /\ Len(toServer[c]) \in Nat
        /\ Append(toServer[c], StartGame)[Len(toServer[c]) + 1] = StartGame
        /\ \A k \in 1 .. Len(toServer[c]) : Append(toServer[c], StartGame)[k] = toServer[c][k]
    <3> DEFINE types == Changes
    <3>1. toServer[c] \in Seq(ClientMessage)
      BY <1>0
    <3> HIDE DEF types
    <3>2. /\ NoneOf(Append(toServer[c], StartGame), types) <=> NoneOf(toServer[c], types) /\ StartGame.type \notin types
          /\ Len(Append(toServer[c], StartGame)) = Len(toServer[c]) + 1 /\ Len(toServer[c]) \in Nat
          /\ Append(toServer[c], StartGame)[Len(toServer[c]) + 1] = StartGame
          /\ \A k \in 1 .. Len(toServer[c]) : Append(toServer[c], StartGame)[k] = toServer[c][k]
      BY <3>1, NoneOfAppend
    <3> QED BY <3>2 DEF types
  <2>6. StartGame.type \notin Changes
    BY <1>types DEF Changes, BoardKind
  <2>7. \A d \in Client : NoneOf(toServer'[d], Changes)
    BY <2>2, <2>5, <2>6 DEF NoGame
  <2>8. \A j \in 1 .. Len(toServer'[c]) : toServer'[c][j].type = "start_game" => j = Len(toServer[c]) + 1
    <3> SUFFICES ASSUME NEW j \in 1 .. Len(toServer[c]) PROVE toServer'[c][j].type # "start_game"
      BY <2>2, <2>5
    <3> QED BY <2>2, <2>4, <2>5 DEF NoneOf
  <2>9. left'["start"] = 0
    BY <2>3, <2>4
  <2>10. OneStart'
    <3>1. \A d \in Client : d # c => NoneOf(toServer[d], {"start_game"})'
      BY <2>2, <2>4 DEF NoneOf
    <3> QED BY <2>8, <2>9, <3>1 DEF OneStart
  <2>11. \A d \in Client : /\ players'[d] = << >> /\ ~listening'[d] /\ phase'[d] # "game"
                            /\ NoneOf(toClient'[d], {"create_game"})
    BY <2>1 DEF NoGame, clientVars
  <2> QED BY <2>7, <2>10, <2>11 DEF NoGame, NoneOf
<1> SUFFICES ASSUME left'["start"] = left["start"], ~(Spend("start") /\ startGame(c)) PROVE NoGame'
  BY <1>2, <1>5
<1>6. CASE \E isPublic \in BOOLEAN : createGameRoom(c, isPublic)
  BY <1>4, <1>6, <1>types DEF createGameRoom
<1>7. CASE \E room \in RoomId : joinGameRoom(c, room)
  <2>1. PICK room \in RoomId : joinGameRoom(c, room)
    BY <1>7
  <2>2. Send(c, JoinGameRoom(room)) /\ UNCHANGED <<phase, players, toClient>>
    BY <2>1 DEF joinGameRoom
  <2>3. ~listening'[c] /\ \A d \in Client : d # c => listening'[d] = listening[d]
    BY <1>0, <2>1 DEF joinGameRoom
  <2>4. JoinGameRoom(room).type \notin Changes \cup {"start_game"}
    BY <1>types, <1>plain
  <2> QED BY <1>3, <2>2, <2>3, <2>4
<1>8. CASE leaveGameRoom(c)
  BY <1>4, <1>8, <1>types DEF leaveGameRoom, InsideSend
<1>9. CASE \E i \in SlotIndex, request \in {"PLAYER", "OPEN_SLOT"} : setPlayerSlot(c, i, request)
  BY <1>4, <1>9, <1>types DEF setPlayerSlot, InsideSend
<1>10. CASE pause(c)
  <2>1. CASE InsideSend(c, GameCommand(~tetrisGame[c].paused))
    BY <1>4, <2>1, <1>types DEF InsideSend
  <2>2. CASE UNCHANGED <<phase, gameRoomId, clientId, networkSlots, players, listening, gameRoomClients,
                         toServer, toClient>>
    BY <1>0, <2>2, NoGameStill
  <2> QED BY <1>10, <2>1, <2>2 DEF pause
<1>11. CASE restartGame(c)
  <2>1. CASE InsideSend(c, RequestGameRestart)
    BY <1>4, <2>1, <1>types DEF InsideSend
  <2>2. CASE /\ \E blocks \in Blocks :
                  players' = [players EXCEPT ![c] = Continue(c, DOMAIN players[c], Restart(blocks))]
             /\ UNCHANGED <<phase, gameRoomId, clientId, networkSlots, listening, gameRoomClients,
                            toServer, toClient>>
    <3>1. PICK blocks \in Blocks :
            players' = [players EXCEPT ![c] = Continue(c, DOMAIN players[c], Restart(blocks))]
      BY <2>2
    <3>2. Continue(c, DOMAIN players[c], Restart(blocks)) = << >>
      <4> DEFINE which == DOMAIN players[c]
                 change == Restart(blocks)
      <4>1. change \in Change /\ players[c] \in Seq(Player)
        BY <1>0 DEF Restart, Change
      <4> HIDE DEF which, change
      <4>2. Continue(c, which, change) \in Seq(Player) /\ Len(Continue(c, which, change)) = Len(players[c])
        BY <4>1, ContinueType
      <4>3. Len(players[c]) = 0
        BY <1>0
      <4>4. Continue(c, which, change) = << >>
        BY <4>2, <4>3
      <4> QED BY <4>4 DEF which, change
    <3>3. players' = players
      BY <1>0, <3>1, <3>2
    <3> QED BY <1>0, <2>2, <3>3, NoGameStill
  <2> QED BY <1>11, <2>1, <2>2 DEF restartGame
<1>12. CASE requestGameRoomList(c)
  BY <1>4, <1>12, <1>types DEF requestGameRoomList
<1>13. CASE \E i \in DOMAIN players[c] : TRUE
  BY <1>0, <1>13
<1>14. CASE LoseConnection(c)
  <2>1. /\ phase' = [phase EXCEPT ![c] = "lost"] /\ toClient' = [toClient EXCEPT ![c] = << >>]
        /\ UNCHANGED <<players, listening>>
    BY <1>14 DEF LoseConnection
  <2>2. PICK n \in 0 .. Len(toServer[c]) : toServer' = [toServer EXCEPT ![c] = SubSeq(toServer[c], 1, n)]
    BY <1>14 DEF LoseConnection
  <2>3. toServer[c] \in Seq(ClientMessage) /\ toServer'[c] = SubSeq(toServer[c], 1, n)
    BY <1>0, <2>2
  <2>4. \A k \in 1 .. Len(toServer'[c]) : k + 0 \in 1 .. Len(toServer[c]) /\ toServer'[c][k] = toServer[c][k + 0]
    BY <2>3
  <2>5. phase'[c] # "game" /\ toClient'[c] = << >> /\ players'[c] = << >> /\ ~listening'[c]
    BY <1>0, <2>1
  <2>6. NoneOf(toClient'[c], {"create_game"})
    BY <2>5 DEF NoneOf
  <2>7. \A d \in Client : d # c => /\ players'[d] = players[d] /\ listening'[d] = listening[d] /\ phase'[d] = phase[d]
                                   /\ toServer'[d] = toServer[d] /\ toClient'[d] = toClient[d]
    BY <1>0, <2>1, <2>2
  <2>8. 0 \in Nat
    OBVIOUS
  <2> QED BY <2>4, <2>5, <2>6, <2>7, <2>8, NoGameOn
<1> QED BY <1>6, <1>7, <1>8, <1>9, <1>10, <1>11, <1>12, <1>13, <1>14 DEF UserCommand

\* The steps that send nothing.
LEMMA NoGameQuietStep ==
  ASSUME RethrowAsSystemError = FALSE, SessionInv, NoGame, NEW c \in Client, SessionOver(c) \/ Connect(c) \/ Frame(c)
  PROVE  NoGame'
<1>0. /\ ClientTypes /\ left \in [Command -> Nat] /\ phase[c] # "game"
      /\ toClient \in [Client -> Seq(ServerMessage)] /\ phase \in [Client -> {"off", "connect", "lobby", "game", "lost"}]
  BY TypesOfSession, TypesOfClients DEF SessionInv, NoGame
<1>1. CASE SessionOver(c)
  <2>1. SessionFails(c) /\ toClient' = Queued(toClient) /\ UNCHANGED <<clientVars, toServer, left, usedIds>>
    BY <1>1 DEF SessionOver, SessionEnds
  <2>2. sent' = NoMessages
    BY <2>1 DEF SessionFails
  <2>3. \A d \in Client : toClient'[d] = toClient[d]
    BY <1>0, <2>1, <2>2 DEF Queued, NoMessages
  <2>4. toClient' = toClient
    BY <1>0, <2>1, <2>3 DEF Queued
  <2>5. UNCHANGED <<players, listening, toServer, toClient, phase, left>>
    BY <2>1, <2>4 DEF clientVars
  <2> QED BY <1>0, <2>5, NoGameStill
<1>2. CASE Connect(c)
  <2>1. UNCHANGED <<players, listening, toServer, toClient>> /\ phase' = [phase EXCEPT ![c] = "connect"]
    BY <1>2 DEF Connect
  <2>2. left'["start"] = left["start"]
    BY <1>0, <1>2 DEF Connect, Command
  <2>3. phase'[c] # "game" /\ \A d \in Client : d # c => phase'[d] = phase[d]
    BY <1>0, <2>1
  <2> QED BY <1>0, <2>1, <2>2, <2>3, NoGameStill
<1>3. CASE Frame(c)
  <2>1. UNCHANGED <<players, listening, toServer, toClient, phase, left>>
    BY <1>3 DEF Frame, updateGame
  <2> QED BY <1>0, <2>1, NoGameStill
<1> QED BY <1>1, <1>2, <1>3

\* A client handles a message, which creates no game.
LEMMA NoGameReceiveStep ==
  ASSUME SessionInv, NoGame, NEW c \in Client, ClientReceives(c)
  PROVE  NoGame'
<1> DEFINE m == Head(toClient[c])
<1>0. /\ ClientTypes /\ phase[c] # "game" /\ NoneOf(toClient[c], {"create_game"}) /\ players[c] = << >> /\ ~listening[c]
      /\ toClient \in [Client -> Seq(ServerMessage)] /\ phase \in [Client -> {"off", "connect", "lobby", "game", "lost"}]
  BY TypesOfSession, TypesOfClients DEF SessionInv, NoGame
<1>1. nextMessage(c) /\ UNCHANGED <<vars, left, usedIds>>
  BY DEF ClientReceives
<1>2. toClient[c] # << >> /\ toClient' = [toClient EXCEPT ![c] = Tail(toClient[c])]
  BY <1>1 DEF nextMessage
<1>3. m.type # "create_game"
  <2>1. toClient[c] \in Seq(ServerMessage)
    BY <1>0
  <2>2. 1 \in 1 .. Len(toClient[c]) /\ m = toClient[c][1]
    BY <1>2, <2>1
  <2> QED BY <1>0, <2>2 DEF NoneOf
<1>4. \/ phase[c] = "connect" /\ HandleInConnect(c, m)
      \/ phase[c] = "lobby" /\ HandleInLobby(c, m)
  BY <1>0, <1>1 DEF nextMessage
<1> HIDE DEF m
<1>5. UNCHANGED <<players, listening, toServer>> /\ phase'[c] # "game"
  <2>1. CASE Skip
    BY <1>0, <2>1 DEF Skip, clientVars
  <2>2. CASE phase[c] = "lobby" /\ handleGameLooby(c, m)
    BY <1>0, <2>2 DEF handleGameLooby
  <2>3. CASE handleGameRoomJoined(c, m)
    BY <1>0, <2>3 DEF handleGameRoomJoined
  <2>4. CASE phase[c] = "lobby" /\ handleLeaveGameRoom(c, m)
    BY <1>0, <2>4 DEF handleLeaveGameRoom
  <2> QED BY <1>3, <1>4, <2>1, <2>2, <2>3, <2>4 DEF HandleInConnect, HandleInLobby
<1>6. \A d \in Client : d # c => /\ players'[d] = players[d] /\ listening'[d] = listening[d]
                                 /\ toServer'[d] = toServer[d] /\ toClient'[d] = toClient[d]
                                 /\ phase'[d] = phase[d]
  BY <1>0, <1>1, OthersReceive
<1>7. NoneOf(toClient'[c], {"create_game"})
  <2> DEFINE queue == toClient[c]
             types == {"create_game"}
  <2>1. toClient'[c] = Tail(queue) /\ queue \in Seq(ServerMessage) /\ queue # << >> /\ NoneOf(queue, types)
    BY <1>0, <1>2
  <2> HIDE DEF queue, types
  <2>2. NoneOf(queue, types) => NoneOf(Tail(queue), types)
    BY <2>1, NoneOfTail
  <2> QED BY <2>1, <2>2 DEF types
<1>8. \A k \in 1 .. Len(toServer'[c]) : k + 0 \in 1 .. Len(toServer[c]) /\ toServer'[c][k] = toServer[c][k + 0]
  <2>1. toServer[c] \in Seq(ClientMessage) /\ toServer'[c] = toServer[c]
    BY <1>0, <1>5, TypesOfClients
  <2> QED BY <2>1
<1>9. left'["start"] = left["start"] /\ players'[c] = << >> /\ ~listening'[c] /\ phase'[c] # "game" /\ 0 \in Nat
  BY <1>0, <1>1, <1>5
<1> QED BY <1>6, <1>7, <1>8, <1>9, NoGameOn

-----------------------------------------------------------------------------
(* The start *)

\* No message concerns a copy before its game is created.
LEMMA HearsNothingYet ==
  ASSUME NEW queue \in Seq(ServerMessage), NoneOf(queue, {"create_game"}), NEW d, NEW slot, NEW board
  PROVE  Linked(-2, queue, -2, Hearing(d, slot, board))
<1> DEFINE steps == Hearing(d, slot, board)
<1>1. \A k \in 1 .. Len(queue) : <<-2, queue[k], -2>> \in steps
  <2> SUFFICES ASSUME NEW k \in 1 .. Len(queue) PROVE <<-2, queue[k], -2>> \in steps
    OBVIOUS
  <2>1. queue[k] \in ServerMessage /\ queue[k].type # "create_game" /\ -2 \in Known
    BY DEF NoneOf, Known
  <2>2. Hears(d, slot, board, -2, queue[k], -2)
    BY <2>1 DEF Hears
  <2> QED BY <2>1, <2>2, HearingIs
<1> HIDE DEF steps
<1>2. Linked(-2, queue, -2, steps)
  BY <1>1, LinkedStill
<1> QED BY <1>2 DEF steps

\* Who tells of no board has told of nothing, until it leaves.
LEMMA SaysNothingYet ==
  ASSUME NEW queue \in Seq(ClientMessage), NoneOf(queue, Changes), NEW slot
  PROVE  \E w \in {0, -1} : Linked(0, queue, w, Saying(slot, << >>))
<1> DEFINE h == [k \in 0 .. Len(queue) |-> IF \E j \in 1 .. k : queue[j].type = "leave_game_room" THEN -1 ELSE 0]
<1>1. Len(queue) \in Nat /\ h[0] = 0 /\ h[Len(queue)] \in {0, -1}
  OBVIOUS
<1>2. ASSUME NEW k \in 1 .. Len(queue) PROVE <<h[k - 1], queue[k], h[k]>> \in Saying(slot, << >>)
  <2>1. k - 1 \in 0 .. Len(queue) /\ k \in 0 .. Len(queue) /\ k \in Nat /\ k >= 1
    BY <1>1
  <2>2. h[k - 1] \in {0, -1} /\ h[k] \in {0, -1}
    BY <2>1
  <2>3. h[k - 1] = -1 => h[k] = -1
    <3> SUFFICES ASSUME h[k - 1] = -1 PROVE h[k] = -1
      OBVIOUS
    <3>1. PICK j \in 1 .. (k - 1) : queue[j].type = "leave_game_room"
      BY <2>1
    <3>2. j \in 1 .. k
      BY <2>1, <3>1
    <3> QED BY <2>1, <3>1, <3>2
  <2>4. queue[k].type = "leave_game_room" => h[k] = -1
    <3>1. k \in 1 .. k
      BY <2>1
    <3> QED BY <2>1, <3>1
  <2>5. queue[k].type # "leave_game_room" /\ h[k - 1] = 0 => h[k] = 0
    <3> SUFFICES ASSUME queue[k].type # "leave_game_room", h[k - 1] = 0, NEW j \in 1 .. k, queue[j].type = "leave_game_room"
                 PROVE  FALSE
      BY <2>1
    <3>1. j \in 1 .. (k - 1)
      BY <2>1
    <3> QED BY <2>1, <3>1
  <2> HIDE DEF h
  <2>6. queue[k] \in ClientMessage /\ ~IsSaid(queue[k], slot)
    BY DEF NoneOf, Changes, IsSaid
  <2>7. h[k - 1] \in Said /\ h[k] \in Said
    BY <2>2 DEF Said
  <2>8. Says(slot, << >>, h[k - 1], queue[k], h[k])
    BY <2>2, <2>3, <2>4, <2>5, <2>6 DEF Says
  <2> QED BY <2>6, <2>7, <2>8, SayingIs
<1>3. Linked(0, queue, h[Len(queue)], Saying(slot, << >>))
  <2> HIDE DEF h
  <2> QED BY <1>1, <1>2 DEF Linked
<1> QED BY <1>1, <1>3

\* What d is told when the game of room r begins.
StartTold(d, slots, r) ==
  \/ toClient'[d] = toClient[d] /\ ~(Running(d) /\ roomIdByClientId[d] = r)
  \/ \E x \in ServerMessage :
       /\ Running(d) /\ toClient'[d] = Append(toClient[d], x)
       /\ x.type = "create_game" <=> roomIdByClientId[d] = r
       /\ x.type = "create_game" => x.slots = slots

\* Who plays will see the slots as they are.
LEMMA LobbyBefore ==
  ASSUME NEW d \in Client, Running(d), SeesRight(d), toClient[d] \in Seq(ServerMessage),
         NoneOf(toClient[d], {"create_game"}), phase[d] # "game", NEW slots
  PROVE  \E last : /\ Linked(Seen(d), toClient[d], last, Views(d, slots))
                   /\ Good(d, last)
                   /\ AgreesWith(d, last, roomIdByClientId[d], gameRoomById)
                   /\ last.phase # "game"
<1>1. PICK h : /\ Leads(d, h, Seen(d), toClient[d])
               /\ AgreesWith(d, h[Len(toClient[d])], roomIdByClientId[d], gameRoomById)
  BY DEF SeesRight
<1> DEFINE last == h[Len(toClient[d])]
<1>0. Len(toClient[d]) \in Nat
  OBVIOUS
<1>2. ASSUME NEW k \in 1 .. Len(toClient[d]) PROVE <<h[k - 1], toClient[d][k], h[k]>> \in Views(d, slots)
  <2>1. k - 1 \in 0 .. Len(toClient[d]) /\ k \in 0 .. Len(toClient[d])
    BY <1>0
  <2>2. h[k - 1] \in Sight /\ h[k] \in Sight /\ h[k] = After(h[k - 1], toClient[d][k])
    BY <1>1, <2>1 DEF Leads
  <2>3. toClient[d][k] \in ServerMessage /\ toClient[d][k].type # "create_game"
    BY DEF NoneOf
  <2> HIDE DEF Sight
  <2> QED BY <2>2, <2>3 DEF Views
<1>3. h[0] = Seen(d) /\ Good(d, last)
  BY <1>0, <1>1 DEF Leads
<1>4. Linked(Seen(d), toClient[d], last, Views(d, slots))
  BY <1>2, <1>3 DEF Linked
<1>5. last.phase # "game"
  <2> DEFINE first == Seen(d)
             queue == toClient[d]
  <2>1. queue \in Seq(ServerMessage) /\ Linked(first, queue, last, Views(d, slots)) /\ NoneOf(queue, {"create_game"})
    BY <1>4
  <2>2. first.phase # "game"
    BY DEF Seen
  <2> HIDE DEF first, queue, last
  <2> QED BY <2>1, <2>2, NoGameWithout
<1> QED BY <1>1, <1>3, <1>4, <1>5

\* Everybody who is told of the game will be seated in it.
LEMMA StartSeats ==
  ASSUME NoGame, ClientTypes, ViewInv, NEW d \in Client, NEW slots, NEW n, NEW r \in RoomId, slots = gameRoomById[r].playerSlots,
         UNCHANGED clientVars, StartTold(d, slots, r)
  PROVE  /\ Seated(d, slots, n)'
         /\ Running(d) /\ roomIdByClientId[d] = r => Stays(d, slots)'
<1>0. /\ players[d] = << >> /\ ~listening[d] /\ phase[d] # "game" /\ NoneOf(toClient[d], {"create_game"})
      /\ toClient[d] \in Seq(ServerMessage)
      /\ players'[d] = << >> /\ ~listening'[d] /\ phase'[d] # "game"
      /\ Seen(d)' = Seen(d) /\ (Running(d)' <=> Running(d))
  <2>1. UNCHANGED <<players, listening, phase, gameRoomId, clientId, networkSlots, gameRoomClients>>
    BY DEF clientVars
  <2>2. toClient[d] \in Seq(ServerMessage)
    BY TypesOfClients
  <2>3. Seen(d)' = Seen(d) /\ (Running(d)' <=> Running(d))
    BY <2>1 DEF Seen, Running
  <2> QED BY <2>1, <2>2, <2>3 DEF NoGame
<1>1. /\ \A j, k \in 1 .. Len(toClient'[d]) :
           toClient'[d][j].type = "create_game" /\ toClient'[d][k].type = "create_game" => j = k
  <2>1. CASE toClient'[d] = toClient[d]
    BY <1>0, <2>1 DEF NoneOf
  <2>2. CASE \E x \in ServerMessage : toClient'[d] = Append(toClient[d], x)
    <3>1. PICK x \in ServerMessage : toClient'[d] = Append(toClient[d], x)
      BY <2>2
    <3>2. \A j \in 1 .. Len(toClient'[d]) :
            j = Len(toClient[d]) + 1 \/ (j \in 1 .. Len(toClient[d]) /\ toClient'[d][j] = toClient[d][j])
      BY <1>0, <3>1
    <3> QED BY <1>0, <3>2 DEF NoneOf
  <2> QED BY <2>1, <2>2 DEF StartTold
<1>2. ASSUME Running(d)
      PROVE  \E next : /\ Linked(Seen(d), toClient[d], next, Views(d, slots))'
                       /\ roomIdByClientId[d] = r => next.phase = "game"
  <2>1. PICK last : /\ Linked(Seen(d), toClient[d], last, Views(d, slots))
                    /\ Good(d, last)
                    /\ AgreesWith(d, last, roomIdByClientId[d], gameRoomById)
                    /\ last.phase # "game"
    <3>1. SeesRight(d)
      BY <1>2 DEF ViewInv
    <3> QED BY <1>0, <1>2, <3>1, LobbyBefore
  <2>2. CASE toClient'[d] = toClient[d] /\ roomIdByClientId[d] # r
    <3>1. Linked(Seen(d)', toClient'[d], last, Views(d, slots))
      BY <1>0, <2>1, <2>2
    <3>2. Linked(Seen(d), toClient[d], last, Views(d, slots))'
      BY <3>1 DEF Linked, Views
    <3> QED BY <2>2, <3>2
  <2>3. CASE \E x \in ServerMessage :
               /\ toClient'[d] = Append(toClient[d], x)
               /\ x.type = "create_game" <=> roomIdByClientId[d] = r
               /\ x.type = "create_game" => x.slots = slots
    <3>1. PICK x \in ServerMessage :
               /\ toClient'[d] = Append(toClient[d], x)
               /\ x.type = "create_game" <=> roomIdByClientId[d] = r
               /\ x.type = "create_game" => x.slots = slots
      BY <2>3
    <3> DEFINE next == After(last, x)
               steps == Views(d, slots)
               first == Seen(d)
    <3>2. last \in Sight /\ next \in Sight
      BY <2>1, AfterType DEF Good
    <3>3. roomIdByClientId[d] = r => last.phase = "lobby" /\ last.slots = View(d, slots)
      <4> SUFFICES ASSUME roomIdByClientId[d] = r PROVE last.phase = "lobby" /\ last.slots = View(d, slots)
        OBVIOUS
      <4>1. last.room = r /\ last.room # NoRoom
        BY <2>1, NoIdAssumption DEF AgreesWith
      <4>2. last.phase = "lobby"
        BY <2>1, <4>1 DEF Good
      <4> QED BY <2>1, <4>1, <4>2 DEF AgreesWith
    <3>4. roomIdByClientId[d] = r => next.phase = "game"
      BY <3>1, <3>3 DEF After
    <3> HIDE DEF next
    <3>5. <<last, x, next>> \in steps
      <4>1. next = After(last, x)
        BY DEF next
      <4> HIDE DEF Sight
      <4> QED BY <3>1, <3>2, <3>3, <4>1 DEF Views
    <3>6. Linked(first, toClient[d], last, steps)
      BY <2>1
    <3> HIDE DEF steps, first
    <3>7. Linked(first, Append(toClient[d], x), next, steps)
      BY <1>0, <3>5, <3>6, LinkedAppend
    <3>8. Linked(Seen(d)', toClient'[d], next, Views(d, slots))
      BY <1>0, <3>1, <3>7 DEF steps, first
    <3>9. Linked(Seen(d), toClient[d], next, Views(d, slots))'
      BY <3>8 DEF Linked, Views
    <3> QED BY <3>4, <3>9
  <2> QED BY <1>2, <2>2, <2>3 DEF StartTold
<1>3. Seated(d, slots, n)'
  <2>1. Running(d)' => \E next : Linked(Seen(d), toClient[d], next, Views(d, slots))'
    BY <1>0, <1>2
  <2> QED BY <1>0, <1>1, <2>1 DEF Seated
<1>4. ASSUME Running(d), roomIdByClientId[d] = r PROVE Stays(d, slots)'
  BY <1>2, <1>4 DEF Stays
<1> QED BY <1>3, <1>4

\* When the game is created, every copy follows: there is nothing to copy yet.
LEMMA StartFollows ==
  ASSUME NoGame, ClientTypes, UNCHANGED clientVars, UNCHANGED roomIdByClientId, NEW slots, NEW r, NEW k,
         NEW d \in Client, StartTold(d, slots, r),
         NEW e \in Client, e = slots[k - 1].client, StartTold(e, slots, r),
         Running(e) /\ roomIdByClientId[e] = r => Stays(e, slots)',
         toServer'[e] \in Seq(ClientMessage), NoneOf(toServer'[e], Changes)
  PROVE  Follows(d, k, slots, r)'
<1> DEFINE slot == slots[k - 1]
<1>0. /\ players[e] = << >> /\ players'[e] = << >> /\ ~listening'[e] /\ phase'[e] # "game" /\ phase'[d] # "game"
      /\ NoneOf(toClient[d], {"create_game"}) /\ NoneOf(toClient[e], {"create_game"})
      /\ toClient[d] \in Seq(ServerMessage) /\ roomIdByClientId'[d] = roomIdByClientId[d]
      /\ roomIdByClientId'[e] = roomIdByClientId[e]
  <2>1. UNCHANGED <<players, listening, phase>>
    BY DEF clientVars
  <2> QED BY <2>1, TypesOfClients DEF NoGame
<1>1. Own(e, k)' = << >> /\ Heard(d, k)' = -2
  BY <1>0 DEF Own, Heard
<1>2. Owns(e, slot, << >>, 0, slots, r)'
  <2>1. CASE roomIdByClientId[e] # r
    BY <1>0, <2>1 DEF Owns
  <2>2. CASE ~Running(e)
    <3>1. toClient'[e] = toClient[e]
      BY <2>2 DEF StartTold
    <3>2. NoneOf(toClient[e], {"create_game"})' /\ NoneOf(toServer[e], Changes)'
      BY <1>0, <3>1 DEF NoneOf
    <3> QED BY <1>0, <3>2 DEF Owns, Silent
  <2>3. CASE Running(e) /\ roomIdByClientId[e] = r
    <3>1. PICK w \in {0, -1} : Linked(0, toServer'[e], w, Saying(slot, << >>))
      <4> DEFINE queue == toServer'[e]
      <4> HIDE DEF queue, slot
      <4>1. queue \in Seq(ClientMessage) /\ NoneOf(queue, Changes)
        BY DEF queue
      <4>2. \E w \in {0, -1} : Linked(0, queue, w, Saying(slot, << >>))
        BY <4>1, SaysNothingYet
      <4> QED BY <4>2 DEF queue
    <3>2. Linked(0, toServer[e], w, Saying(slot, << >>))'
      BY <3>1 DEF Linked, Saying
    <3>3. w \in Said /\ (w = -1 \/ w = Len(<< >>))
      BY EmptySeq DEF Said
    <3> QED BY <2>3, <3>2, <3>3 DEF Owns
  <2> QED BY <2>1, <2>2, <2>3
<1>3. ASSUME NEW w \in Known, Linked(-2, toClient'[d], w, Hearing(d, slot, << >>))
      PROVE  KnowsOf(d, k, slot, Own(e, k), w)'
  <2>1. Linked(Heard(d, k)', toClient'[d], w, Hearing(d, slot, Own(e, k)'))
    BY <1>1, <1>3
  <2>2. Linked(Heard(d, k), toClient[d], w, Hearing(d, slot, Own(e, k)))'
    BY <2>1 DEF Linked, Hearing, Hears
  <2> QED BY <1>0, <2>2 DEF KnowsOf
<1>4. Linked(-2, toClient[d], -2, Hearing(d, slot, << >>))
  <2> DEFINE queue == toClient[d]
             board == << >>
  <2>1. queue \in Seq(ServerMessage) /\ NoneOf(queue, {"create_game"})
    BY <1>0
  <2> HIDE DEF queue, slot, board
  <2>2. Linked(-2, queue, -2, Hearing(d, slot, board))
    BY <2>1, HearsNothingYet
  <2> QED BY <2>2 DEF queue, board
<1> SUFFICES \E w \in Known : /\ KnowsOf(d, k, slot, Own(e, k), w)'
                              /\ w >= 0 => /\ roomIdByClientId'[d] = r
                                           /\ Owns(e, slot, Own(e, k), w, slots, r)'
  BY DEF Follows
<1>5. CASE toClient'[d] = toClient[d]
  <2>1. -2 \in Known
    BY DEF Known
  <2>2. KnowsOf(d, k, slot, Own(e, k), -2)'
    BY <1>3, <1>4, <1>5, <2>1
  <2> QED BY <2>1, <2>2
<1>6. CASE \E x \in ServerMessage :
             /\ Running(d) /\ toClient'[d] = Append(toClient[d], x)
             /\ x.type = "create_game" <=> roomIdByClientId[d] = r
  <2>1. PICK x \in ServerMessage :
             /\ Running(d) /\ toClient'[d] = Append(toClient[d], x)
             /\ x.type = "create_game" <=> roomIdByClientId[d] = r
    BY <1>6
  <2> DEFINE w == IF x.type = "create_game" THEN 0 ELSE -2
             steps == Hearing(d, slot, << >>)
  <2>2. w \in Known /\ -2 \in Known
    BY DEF Known
  <2>3. (x.type = "create_game" => w = 0) /\ (x.type # "create_game" => w = -2)
    OBVIOUS
  <2> HIDE DEF w
  <2>4. Hears(d, slot, << >>, -2, x, w)
    BY <2>3 DEF Hears
  <2>5. <<-2, x, w>> \in steps
    BY <2>2, <2>4, HearingIs
  <2>6. Linked(-2, toClient[d], -2, steps)
    BY <1>4
  <2> HIDE DEF steps
  <2>7. Linked(-2, Append(toClient[d], x), w, steps)
    BY <1>0, <2>5, <2>6, LinkedAppend
  <2>8. KnowsOf(d, k, slot, Own(e, k), w)'
    BY <1>3, <2>1, <2>2, <2>7 DEF steps
  <2>9. w >= 0 => w = 0 /\ roomIdByClientId'[d] = r
    BY <1>0, <2>1, <2>3
  <2>10. w >= 0 => Owns(e, slot, Own(e, k), w, slots, r)'
    BY <1>1, <1>2, <2>9
  <2> QED BY <2>2, <2>8, <2>9, <2>10
<1> QED BY <1>5, <1>6 DEF StartTold

\* Those in the room are told of the game, and nobody else.
LEMMA DeliverStart ==
  ASSUME ClientTypes, ConnInv, ConnInv', NEW c \in Client, NEW m, Delivers(c, m), m.type = "start_game", Inside(c),
         NEW d \in Client
  PROVE  StartTold(d, RoomOf(c).playerSlots, roomIdByClientId[c])
<1>1. /\ IsTold(c, d, m)
      /\ phase[d] = "lost" => toClient'[d] = toClient[d]
      /\ phase[d] # "lost" => toClient'[d] = toClient[d] \o sent'[d]
      /\ phase'[d] = phase[d]
  BY DEF Delivers, clientVars
<1>2. toClient[d] \in Seq(ServerMessage) /\ phase[d] \in {"off", "connect", "lobby", "game", "lost"}
  BY TypesOfClients
<1>3. Running(d) /\ roomIdByClientId[d] = roomIdByClientId[c] => MustHear(c, d, m)
  BY DEF MustHear, ConnInv
<1>4. CASE phase[d] = "lost"
  BY <1>1, <1>4 DEF StartTold, Running
<1>5. CASE phase[d] # "lost" /\ sent'[d] = << >> /\ ~MustHear(c, d, m)
  <2>1. toClient'[d] = toClient[d]
    BY <1>1, <1>2, <1>5
  <2> QED BY <1>3, <1>5, <2>1 DEF StartTold
<1>6. CASE phase[d] # "lost" /\ ~(sent'[d] = << >> /\ ~MustHear(c, d, m))
  <2>1. PICK x \in ServerMessage :
          /\ sent'[d] = << x >> /\ Passes(c, d, m, x)
          /\ MustHear(c, d, m) => x.type = m.type \/ (m.type = "start_game" /\ x.type = "create_game")
    BY <1>1, <1>6 DEF IsTold
  <2>2. toClient'[d] = Append(toClient[d], x)
    <3>1. toClient'[d] = toClient[d] \o << x >>
      BY <1>1, <1>6, <2>1
    <3> QED BY <1>2, <3>1
  <2>3. Running(d)
    <3>1. phase'[d] = "off" => toClient'[d] = << >>
      BY DEF ConnInv
    <3>2. toClient'[d] # << >>
      BY <1>2, <2>2
    <3> QED BY <1>1, <1>2, <1>6, <3>1, <3>2 DEF Running
  <2>4. x.type # "start_game"
    BY DEF ServerMessage, BoardKind
  <2>5. x.type = "create_game" => x.slots = RoomOf(c).playerSlots /\ roomIdByClientId[d] = roomIdByClientId[c]
    BY <2>1 DEF Passes
  <2>6. roomIdByClientId[d] = roomIdByClientId[c] => x.type = "create_game"
    BY <1>3, <2>1, <2>3, <2>4
  <2> QED BY <2>2, <2>3, <2>5, <2>6 DEF StartTold
<1> QED BY <1>4, <1>5, <1>6

\* No taken slot comes after an open one in a game on its way.
StartedInOrder ==
  \A c \in Client : \A k \in DOMAIN toClient[c] : toClient[c][k].type = "create_game" =>
    \A i, j \in SlotIndex : i < j /\ toClient[c][k].slots[j] # OpenSlot => toClient[c][k].slots[i] # OpenSlot

\* The server handles a message, and creates no game.
LEMMA NoGameDeliver ==
  ASSUME ClientTypes, NoGame, NEW c \in Client, NEW m, Delivers(c, m),
         \A d \in Client : NoneOf(toClient'[d], {"create_game"})
  PROVE  NoGame'
<1>0. /\ toServer[c] \in Seq(ClientMessage) /\ toServer[c] # << >> /\ toServer'[c] = Tail(toServer[c])
      /\ \A d \in Client : d # c => toServer'[d] = toServer[d]
      /\ UNCHANGED <<clientVars, left>>
  BY TypesOfClients DEF Delivers
<1>1. UNCHANGED <<phase, players, listening>>
  BY <1>0 DEF clientVars
<1>2. NoneOf(toServer'[c], Changes)
  <2>1. NoneOf(toServer[c], Changes)
    BY DEF NoGame
  <2>2. NoneOf(Tail(toServer[c]), Changes)
    BY <1>0, <2>1, NoneOfTail
  <2> QED BY <1>0, <2>2
<1>3. OneStart'
  <2>1. \A k \in 1 .. Len(toServer'[c]) : k + 1 \in 1 .. Len(toServer[c]) /\ toServer'[c][k] = toServer[c][k + 1]
    BY <1>0, TailOf
  <2>2. 1 \in Nat /\ OneStart /\ left'["start"] = left["start"]
    BY <1>0 DEF NoGame
  <2> QED BY <1>0, <2>1, <2>2, OneStartOn
<1>4. ASSUME NEW d \in Client
      PROVE  /\ players'[d] = << >> /\ ~listening'[d] /\ phase'[d] # "game"
             /\ NoneOf(toServer'[d], Changes)
  <2>1. players[d] = << >> /\ ~listening[d] /\ phase[d] # "game" /\ NoneOf(toServer[d], Changes)
    BY DEF NoGame
  <2>2. NoneOf(toServer'[d], Changes)
    BY <1>0, <1>2, <2>1
  <2> QED BY <1>1, <2>1, <2>2
<1> QED BY <1>3, <1>4 DEF NoGame, NoneOf

\* Who creates the game, and of what.
LEMMA GameFrom ==
  ASSUME ClientTypes, NoGame, NEW c \in Client, NEW m, Delivers(c, m), Handle(c, m),
         NEW d \in Client, ~NoneOf(toClient'[d], {"create_game"})
  PROVE  /\ m.type = "start_game" /\ Inside(c)
         /\ UNCHANGED <<gameRoomById, roomIdByClientId>>
         /\ \E k \in DOMAIN toClient'[d] : /\ toClient'[d][k].type = "create_game"
                                           /\ toClient'[d][k].slots = RoomOf(c).playerSlots
<1>0. /\ toClient[d] \in Seq(ServerMessage) /\ NoneOf(toClient[d], {"create_game"})
      /\ IsTold(c, d, m)
      /\ phase[d] = "lost" => toClient'[d] = toClient[d]
      /\ phase[d] # "lost" => toClient'[d] = toClient[d] \o sent'[d]
  BY TypesOfClients DEF Delivers, NoGame
<1>1. phase[d] # "lost"
  BY <1>0
<1>2. sent'[d] # << >>
  <2> SUFFICES ASSUME sent'[d] = << >> PROVE FALSE
    OBVIOUS
  <2>1. toClient'[d] = toClient[d]
    BY <1>0, <1>1
  <2> QED BY <1>0, <2>1 DEF NoneOf
<1>3. PICK x \in ServerMessage : sent'[d] = << x >> /\ Passes(c, d, m, x)
  BY <1>0, <1>2 DEF IsTold
<1>4. toClient'[d] = Append(toClient[d], x)
  <2>1. toClient'[d] = toClient[d] \o << x >>
    BY <1>0, <1>1, <1>3
  <2> QED BY <1>0, <2>1
<1>5. /\ NoneOf(Append(toClient[d], x), {"create_game"}) <=> NoneOf(toClient[d], {"create_game"}) /\ x.type \notin {"create_game"}
      /\ Len(Append(toClient[d], x)) = Len(toClient[d]) + 1 /\ Len(toClient[d]) \in Nat
      /\ Append(toClient[d], x)[Len(toClient[d]) + 1] = x
      /\ \A k \in 1 .. Len(toClient[d]) : Append(toClient[d], x)[k] = toClient[d][k]
  BY <1>0, NoneOfAppend
<1>6. x.type = "create_game"
  BY <1>0, <1>4, <1>5
<1>7. m.type = "start_game" /\ Inside(c) /\ x.slots = RoomOf(c).playerSlots
  BY <1>3, <1>6 DEF Passes
<1>8. UNCHANGED <<gameRoomById, roomIdByClientId>>
  BY <1>7 DEF Handle, HandleStartGame, Relay, BoardKind
<1>9. Len(toClient[d]) + 1 \in DOMAIN toClient'[d] /\ toClient'[d][Len(toClient[d]) + 1] = x
  <2>1. Append(toClient[d], x) \in Seq(ServerMessage)
    BY <1>0
  <2>2. DOMAIN Append(toClient[d], x) = 1 .. Len(toClient[d]) + 1
    BY <1>5, <2>1
  <2> QED BY <1>4, <1>5, <2>2
<1> QED BY <1>6, <1>7, <1>8, <1>9

\* What everybody sends once the start is handled: no change of a board, and no further start.
LEMMA StartTells ==
  ASSUME RepeatedRequests = FALSE, SessionInv, SessionInv', NoGame, NEW c \in Client, NEW m, Delivers(c, m),
         m.type = "start_game", Inside(c), UNCHANGED roomIdByClientId, NEW e \in Client,
         NEW slots, NEW n, StartTold(e, slots, roomIdByClientId[c])
  PROVE  /\ TellsOfItsOwn(e, slots, n)' /\ NoneOf(toServer'[e], Changes)
         /\ left'["start"] = 0
<1>0. /\ toServer[c] \in Seq(ClientMessage) /\ toServer[c] # << >> /\ toServer'[c] = Tail(toServer[c])
      /\ \A d \in Client : d # c => toServer'[d] = toServer[d]
      /\ UNCHANGED <<clientVars, left>> /\ m = Head(toServer[c])
      /\ ClientTypes
      /\ toClient[e] \in Seq(ServerMessage)
  BY TypesOfClients DEF Delivers, SessionInv, TypesInv, SessionTypeOK, ClientTypes
<1>1. UNCHANGED <<phase, players, listening>>
  BY <1>0 DEF clientVars
<1>2. m = toServer[c][1] /\ 1 \in 1 .. Len(toServer[c])
  BY <1>0
<1>3. NoneOf(toServer'[e], Changes)
  <2>1. \A d \in Client : NoneOf(toServer[d], Changes)
    BY DEF NoGame
  <2>2. NoneOf(Tail(toServer[c]), Changes)
    BY <1>0, <2>1, NoneOfTail
  <2> QED BY <1>0, <2>1, <2>2
<1>4. ~NoneOf(toServer[c], {"start_game"})
  BY <1>2 DEF NoneOf
<1>5. PICK d \in Client :
        /\ left["start"] = 0
        /\ \A a \in Client : a # d => NoneOf(toServer[a], {"start_game"})
        /\ \A j, k \in 1 .. Len(toServer[d]) :
             toServer[d][j].type = "start_game" /\ toServer[d][k].type = "start_game" => j = k
  BY <1>4 DEF NoGame, OneStart
<1>6. d = c
  BY <1>4, <1>5
<1>7. NoneOf(toServer'[e], {"start_game"})
  <2>1. \A j, k \in 1 .. Len(toServer[c]) : toServer[c][j].type \in {"start_game"} /\ toServer[c][k].type \in {"start_game"} => j = k
    BY <1>5, <1>6
  <2>2. Head(toServer[c]).type \in {"start_game"}
    BY <1>0
  <2> DEFINE types == {"start_game"}
  <2>3. Head(toServer[c]).type \in types => NoneOf(Tail(toServer[c]), types)
    <3>1. \A j, k \in 1 .. Len(toServer[c]) : toServer[c][j].type \in types /\ toServer[c][k].type \in types => j = k
      BY <2>1
    <3> HIDE DEF types
    <3> QED BY <1>0, <3>1, NoneOfTail
  <2>4. NoneOf(Tail(toServer[c]), {"start_game"})
    BY <2>2, <2>3
  <2> QED BY <1>0, <1>5, <1>6, <2>4
<1>8. ~NoneOf(toServer'[e], {"join_game_room"}) => Silent(e)'
  <2> SUFFICES ASSUME ~NoneOf(toServer'[e], {"join_game_room"}) PROVE Silent(e)'
    OBVIOUS
  <2>1. Requests(e)' # {}
    BY DEF NoneOf, Requests, Entry
  <2>2. roomIdByClientId'[e] = NoRoom
    BY <2>1 DEF SessionInv, PatientInv, Waits
  <2>3. roomIdByClientId[e] # roomIdByClientId[c]
    BY <2>2 DEF Inside
  <2>4. NoneOf(toClient[e], {"create_game"}) /\ ~listening[e] /\ phase[e] # "game"
    BY DEF NoGame
  <2>5. NoneOf(toClient'[e], {"create_game"})
    <3>1. CASE toClient'[e] = toClient[e]
      BY <2>4, <3>1
    <3>2. CASE \E x \in ServerMessage : /\ toClient'[e] = Append(toClient[e], x)
                                        /\ x.type = "create_game" <=> roomIdByClientId[e] = roomIdByClientId[c]
      <4>1. PICK x \in ServerMessage : /\ toClient'[e] = Append(toClient[e], x)
                                       /\ x.type = "create_game" <=> roomIdByClientId[e] = roomIdByClientId[c]
        BY <3>2
      <4>2. x.type \notin {"create_game"}
        BY <2>3, <4>1
      <4>3. NoneOf(Append(toClient[e], x), {"create_game"})
        BY <1>0, <2>4, <4>2, NoneOfAppend
      <4> QED BY <4>1, <4>3
    <3> QED BY <3>1, <3>2 DEF StartTold
  <2> QED BY <1>1, <2>4, <2>5 DEF Silent, NoneOf
<1>9. left'["start"] = 0
  BY <1>0, <1>5
<1>10. /\ \A j, k \in 1 .. Len(toServer'[e]) :
            j < k /\ toServer'[e][j].type = "join_game_room" => toServer'[e][k].type \notin Changes
       /\ \A j \in 1 .. Len(toServer'[e]) : toServer'[e][j].type \notin BoardKind
  BY <1>3 DEF NoneOf, Changes
<1>11. TellsOfItsOwn(e, slots, n)'
  BY <1>7, <1>8, <1>10 DEF TellsOfItsOwn, NoneOf
<1> QED BY <1>3, <1>9, <1>11

-----------------------------------------------------------------------------
(* The room of the game *)

\* How the view of a client changes; the game it creates is that of room r.
ViewsIn(r) ==
  {t \in Sight \X ServerMessage \X Sight :
     /\ t[3] = After(t[1], t[2])
     /\ t[2].type = "create_game" /\ t[1].phase = "lobby" => t[1].room = r}
\* The game c plays, or will, is that of room r.
PlaysIn(c, r) ==
  /\ phase[c] = "game" => gameRoomId[c] = r
  /\ Running(c) => \E last : Linked(Seen(c), toClient[c], last, ViewsIn(r))

\* Who sees what it saw, and is sent nothing or no game, plays where it played.
LEMMA PlaysStill ==
  ASSUME NEW c \in Client, NEW r, PlaysIn(c, r), toClient[c] \in Seq(ServerMessage),
         Seen(c)' = Seen(c), Seen(c) \in Sight,
         \/ toClient'[c] = toClient[c]
         \/ \E x \in ServerMessage : toClient'[c] = Append(toClient[c], x) /\ x.type # "create_game"
  PROVE  PlaysIn(c, r)'
<1>1. phase'[c] = phase[c] /\ gameRoomId'[c] = gameRoomId[c]
  BY DEF Seen
<1>2. ASSUME NEW x \in ServerMessage, toClient'[c] = Append(toClient[c], x), x.type # "create_game", Running(c)
      PROVE  \E last : Linked(Seen(c), toClient'[c], last, ViewsIn(r))
  <2> DEFINE steps == ViewsIn(r)
             first == Seen(c)
             queue == toClient[c]
  <2>1. PICK last : Linked(first, queue, last, steps)
    BY <1>2 DEF PlaysIn
  <2>2. last \in Sight
    <3>1. first \in Sight
      OBVIOUS
    <3>2. \A k \in 1 .. Len(queue) : \A v, w : v \in Sight /\ <<v, queue[k], w>> \in steps => w \in Sight
      BY DEF ViewsIn
    <3> HIDE DEF first, queue, steps
    <3>3. queue \in Seq(ServerMessage)
      BY DEF queue
    <3> QED BY <2>1, <3>1, <3>2, <3>3, LinkedWithin
  <2>3. After(last, x) \in Sight
    BY <1>2, <2>2, AfterType
  <2>4. <<last, x, After(last, x)>> \in steps
    BY <1>2, <2>2, <2>3 DEF ViewsIn
  <2>5. queue \in Seq(ServerMessage)
    OBVIOUS
  <2> HIDE DEF first, queue, steps
  <2>6. Linked(first, Append(queue, x), After(last, x), steps)
    BY <2>1, <2>4, <2>5, LinkedAppend
  <2> QED BY <1>2, <2>6 DEF first, queue, steps
<1>3. Running(c) => \E last : Linked(Seen(c), toClient'[c], last, ViewsIn(r))
  BY <1>2 DEF PlaysIn
<1>4. (Running(c)' <=> Running(c)) /\ ViewsIn(r)' = ViewsIn(r)
  BY <1>1 DEF Running, ViewsIn
<1> QED BY <1>1, <1>3, <1>4 DEF PlaysIn

\* c takes the next message on its way to it.
LEMMA PlaysTakes ==
  ASSUME ClientTypes, NEW c \in Client, NEW r, PlaysIn(c, r), Takes(c)
  PROVE  PlaysIn(c, r)'
<1> DEFINE steps == ViewsIn(r)
           first == Seen(c)
           queue == toClient[c]
           m == Head(queue)
<1>0. queue \in Seq(ServerMessage) /\ queue # << >> /\ Running(c)
  BY TypesOfClients DEF Takes
<1>1. PICK last : Linked(first, queue, last, steps)
  BY <1>0 DEF PlaysIn
<1>2. PICK next : <<first, m, next>> \in steps /\ Linked(next, Tail(queue), last, steps)
  <2> HIDE DEF first, queue, steps
  <2> QED BY <1>0, <1>1, LinkedTail
<1>3. next = After(first, m) /\ (m.type = "create_game" /\ first.phase = "lobby" => first.room = r)
  BY <1>2 DEF ViewsIn
<1>4. Seen(c)' = next /\ toClient'[c] = Tail(queue)
  BY <1>3 DEF Takes
<1>5. next.phase = "game" => next.room = r
  <2>1. first.phase = "game" => first.room = r
    BY DEF PlaysIn, Seen
  <2>2. next.phase = "game" => /\ next.room = first.room
                               /\ first.phase = "game" \/ (first.phase = "lobby" /\ m.type = "create_game")
    <3> HIDE DEF m, first
    <3> QED BY <1>3 DEF After, JoinedBy, LeftBy
  <2> HIDE DEF m, first
  <2> QED BY <1>3, <2>1, <2>2
<1>6. phase'[c] = next.phase /\ gameRoomId'[c] = next.room
  BY <1>4 DEF Seen
<1>7. Linked(Seen(c)', toClient'[c], last, ViewsIn(r)')
  BY <1>2, <1>4 DEF ViewsIn
<1> QED BY <1>5, <1>6, <1>7 DEF PlaysIn

\* The game that is created is that of the room its clients will be in when they are told.
LEMMA PlaysStart ==
  ASSUME NoGame, ClientTypes, ViewInv, NEW d \in Client, NEW slots, NEW r, UNCHANGED clientVars, StartTold(d, slots, r)
  PROVE  PlaysIn(d, r)'
<1>0. toClient[d] \in Seq(ServerMessage) /\ NoneOf(toClient[d], {"create_game"}) /\ phase[d] # "game"
  BY TypesOfClients DEF NoGame
<1>1. Seen(d)' = Seen(d) /\ (Running(d)' <=> Running(d)) /\ phase'[d] = phase[d]
  BY DEF clientVars, Seen, Running
<1>2. ASSUME Running(d) PROVE \E last : Linked(Seen(d), toClient'[d], last, ViewsIn(r))
  <2> DEFINE steps == ViewsIn(r)
             first == Seen(d)
             queue == toClient[d]
  <2>1. PICK h : /\ Leads(d, h, Seen(d), toClient[d])
                 /\ AgreesWith(d, h[Len(toClient[d])], roomIdByClientId[d], gameRoomById)
    BY <1>2 DEF SeesRight, ViewInv
  <2> DEFINE last == h[Len(queue)]
  <2>2. Len(queue) \in Nat
    BY <1>0
  <2>3. ASSUME NEW k \in 1 .. Len(queue) PROVE <<h[k - 1], queue[k], h[k]>> \in steps
    <3>1. k - 1 \in 0 .. Len(queue) /\ k \in 0 .. Len(queue)
      BY <2>2
    <3>2. h[k - 1] \in Sight /\ h[k] \in Sight /\ h[k] = After(h[k - 1], queue[k])
      BY <2>1, <3>1 DEF Leads
    <3>3. queue[k] \in ServerMessage /\ queue[k].type # "create_game"
      BY <1>0 DEF NoneOf
    <3> HIDE DEF Sight, queue
    <3> QED BY <3>2, <3>3 DEF ViewsIn
  <2>4. h[0] = first /\ last \in Sight /\ last.room = roomIdByClientId[d]
    BY <2>1, <2>2 DEF Leads, AgreesWith
  <2>5. Linked(first, queue, last, steps)
    BY <2>3, <2>4 DEF Linked
  <2>6. CASE toClient'[d] = toClient[d]
    BY <2>5, <2>6
  <2>7. CASE \E x \in ServerMessage : /\ toClient'[d] = Append(toClient[d], x)
                                      /\ x.type = "create_game" <=> roomIdByClientId[d] = r
    <3>1. PICK x \in ServerMessage : /\ toClient'[d] = Append(toClient[d], x)
                                     /\ x.type = "create_game" <=> roomIdByClientId[d] = r
      BY <2>7
    <3> HIDE DEF last
    <3>2. After(last, x) \in Sight
      BY <2>4, AfterType
    <3>3. <<last, x, After(last, x)>> \in steps
      BY <2>4, <3>1, <3>2 DEF ViewsIn
    <3>4. queue \in Seq(ServerMessage)
      BY <1>0
    <3> HIDE DEF first, queue, steps
    <3>5. Linked(first, Append(queue, x), After(last, x), steps)
      BY <2>5, <3>3, <3>4, LinkedAppend
    <3> QED BY <3>1, <3>5 DEF first, queue, steps
  <2> QED BY <2>6, <2>7 DEF StartTold
<1>3. ViewsIn(r)' = ViewsIn(r)
  BY DEF ViewsIn
<1> QED BY <1>0, <1>1, <1>2, <1>3 DEF PlaysIn

\* No step but of the server moves the game to another room.
LEMMA PlaysOn ==
  ASSUME SessionInv, NEW r, \A d \in Client : PlaysIn(d, r), NEW c \in Client,
         \/ Connect(c) \/ UserCommand(c) \/ ClientReceives(c) \/ Frame(c)
         \/ RethrowAsSystemError = FALSE /\ SessionOver(c)
  PROVE  \A d \in Client : PlaysIn(d, r)'
<1>0. /\ ClientTypes /\ ConnInv
      /\ phase \in [Client -> {"off", "connect", "lobby", "game", "lost"}]
      /\ toClient \in [Client -> Seq(ServerMessage)]
      /\ \A d \in Client : Seen(d) \in Sight
  <2>1. ClientTypes
    BY TypesOfSession DEF SessionInv
  <2>2. \A d \in Client : Seen(d) \in Sight
    BY <2>1, TypesOfClients DEF Seen, Sight
  <2> QED BY <2>1, <2>2, TypesOfClients DEF SessionInv
<1> SUFFICES ASSUME NEW d \in Client PROVE PlaysIn(d, r)'
  OBVIOUS
<1>1. CASE Seen(d)' = Seen(d) /\ toClient'[d] = toClient[d]
  BY <1>0, <1>1, PlaysStill
<1>2. CASE Frame(c)
  <2>1. Seen(d)' = Seen(d) /\ toClient'[d] = toClient[d]
    BY <1>2 DEF Frame, updateGame, Seen
  <2> QED BY <1>1, <2>1
<1>3. CASE UserCommand(c) /\ ~LoseConnection(c)
  <2>1. SameView
    BY <1>0, <1>3, UserSteps
  <2>2. Seen(d)' = Seen(d) /\ toClient'[d] = toClient[d]
    BY <2>1 DEF SameView, Seen
  <2> QED BY <1>1, <2>2
<1>4. CASE LoseConnection(c)
  <2>1. d # c => Seen(d)' = Seen(d) /\ toClient'[d] = toClient[d]
    BY <1>0, <1>4 DEF LoseConnection, Seen
  <2>2. phase'[c] = "lost"
    BY <1>0, <1>4 DEF LoseConnection
  <2>3. d = c => PlaysIn(d, r)'
    BY <2>2 DEF PlaysIn, Running
  <2> QED BY <1>1, <2>1, <2>3
<1>5. CASE Connect(c)
  <2>1. d # c => Seen(d)' = Seen(d) /\ toClient'[d] = toClient[d]
    BY <1>0, <1>5 DEF Connect, Seen
  <2>2. phase'[c] = "connect" /\ toClient'[c] = << >>
    BY <1>0, <1>5 DEF Connect, ConnInv
  <2>3. Linked(Seen(c)', << >>, Seen(c)', ViewsIn(r)')
    BY LinkedEmpty
  <2>4. d = c => PlaysIn(d, r)'
    BY <2>2, <2>3 DEF PlaysIn
  <2> QED BY <1>1, <2>1, <2>4
<1>6. CASE ClientReceives(c)
  <2>1. Takes(c) /\ OthersStay(c)
    BY <1>6, ReceiveTakes
  <2>2. d # c => Seen(d)' = Seen(d) /\ toClient'[d] = toClient[d]
    BY <2>1 DEF OthersStay
  <2>3. d = c => PlaysIn(d, r)'
    BY <1>0, <2>1, PlaysTakes
  <2> QED BY <1>1, <2>2, <2>3
<1>7. CASE RethrowAsSystemError = FALSE /\ SessionOver(c)
  <2>1. SessionFails(c) /\ toClient' = Queued(toClient) /\ UNCHANGED clientVars
    BY <1>7 DEF SessionOver, SessionEnds
  <2>2. sent' = NoMessages
    BY <2>1 DEF SessionFails
  <2>3. toClient'[d] = toClient[d]
    BY <1>0, <2>1, <2>2 DEF Queued, NoMessages
  <2> QED BY <1>1, <2>1, <2>3 DEF clientVars, Seen
<1> QED BY <1>2, <1>3, <1>4, <1>5, <1>6, <1>7

\* The server handles a message in the game.
LEMMA PlaysDeliver ==
  ASSUME SessionInv, SessionInv', NEW slots, NEW n, NEW r, GameOn(slots, n, r), \A d \in Client : PlaysIn(d, r),
         NEW c \in Client, NEW m, Delivers(c, m)
  PROVE  \A d \in Client : PlaysIn(d, r)'
<1>0. /\ ClientTypes /\ ConnInv' /\ UNCHANGED clientVars
      /\ toClient \in [Client -> Seq(ServerMessage)]
      /\ \A d \in Client : Seen(d) \in Sight /\ Seen(d)' = Seen(d)
  <2>1. ClientTypes /\ ConnInv' /\ UNCHANGED clientVars
    BY TypesOfSession DEF SessionInv, Delivers
  <2>2. \A d \in Client : Seen(d) \in Sight /\ Seen(d)' = Seen(d)
    BY <2>1, TypesOfClients DEF Seen, Sight, clientVars
  <2> QED BY <2>1, <2>2, TypesOfClients
<1>1. m.type # "start_game"
  <2>1. TellsOfItsOwn(c, slots, n)
    BY DEF GameOn
  <2>2. m = toServer[c][1] /\ 1 \in 1 .. Len(toServer[c])
    BY <1>0, TypesOfClients DEF Delivers
  <2> QED BY <2>1, <2>2 DEF TellsOfItsOwn, NoneOf
<1> SUFFICES ASSUME NEW d \in Client PROVE PlaysIn(d, r)'
  OBVIOUS
<1>2. Untold(c, d, m) \/ \E x : Told(c, d, m, x)
  BY <1>0, <1>1, DeliverTells
<1>3. \/ toClient'[d] = toClient[d]
      \/ \E x \in ServerMessage : toClient'[d] = Append(toClient[d], x) /\ x.type # "create_game"
  BY <1>2 DEF Untold, Told
<1> QED BY <1>0, <1>3, PlaysStill

\* The one game is on.
OneGame ==
  \E slots, n, r : GameOn(slots, n, r) /\ \A c \in Client : PlaysIn(c, r)

\* The server creates the game of a room.
LEMMA GameCreated ==
  ASSUME RepeatedRequests = FALSE, SessionInv, SessionInv', NoGame, RoomsInv, StartedInOrder',
         NEW c \in Client, NEW m, Delivers(c, m), Handle(c, m), ~RoomGone(c),
         NEW d0 \in Client, ~NoneOf(toClient'[d0], {"create_game"})
  PROVE  OneGame'
<1>0. /\ ClientTypes /\ ClientTypes' /\ ServerTypeOK /\ ConnInv /\ ConnInv' /\ ViewInv
      /\ UNCHANGED clientVars /\ usedIds \subseteq usedIds'
  BY DEF SessionInv, TypesInv, SessionTypeOK, ClientTypes, Delivers
<1>1. /\ m.type = "start_game" /\ Inside(c)
      /\ UNCHANGED <<gameRoomById, roomIdByClientId>>
      /\ \E k \in DOMAIN toClient'[d0] : /\ toClient'[d0][k].type = "create_game"
                                         /\ toClient'[d0][k].slots = RoomOf(c).playerSlots
  BY <1>0, GameFrom
<1>2. PICK slots : slots = RoomOf(c).playerSlots
  OBVIOUS
<1>3. PICK r : r = roomIdByClientId[c]
  OBVIOUS
<1>4. r \in RoomId /\ RoomExists(r) /\ slots = gameRoomById[r].playerSlots
  BY <1>0, <1>1, <1>2, <1>3 DEF ServerTypeOK, Inside, RoomGone, RoomOf
<1>5. slots \in Slots
  BY <1>0, <1>4 DEF ServerTypeOK, RoomExists, Room
<1>6. r \in usedIds' /\ DistinctPlayers(slots)
  BY <1>0, <1>4 DEF RoomsInv, RoomsDistinct
<1>7. \A i, j \in SlotIndex : i < j /\ slots[j] # OpenSlot => slots[i] # OpenSlot
  <2>1. PICK k \in DOMAIN toClient'[d0] : toClient'[d0][k].type = "create_game" /\ toClient'[d0][k].slots = slots
    BY <1>1, <1>2
  <2>2. \A i, j \in SlotIndex : i < j /\ toClient'[d0][k].slots[j] # OpenSlot => toClient'[d0][k].slots[i] # OpenSlot
    BY <2>1 DEF StartedInOrder
  <2> QED BY <2>1, <2>2
<1>8. PICK n : TakenInOrder(slots, n)
  BY <1>5, <1>7, InOrder
<1>9. \A d \in Client : StartTold(d, slots, r)
  BY <1>0, <1>1, <1>2, <1>3, DeliverStart
<1>10. \A d \in Client : /\ Seated(d, slots, n)'
                         /\ Running(d) /\ roomIdByClientId[d] = r => Stays(d, slots)'
  BY <1>0, <1>4, <1>9, StartSeats
<1>11. \A d \in Client : /\ TellsOfItsOwn(d, slots, n)' /\ NoneOf(toServer'[d], Changes)
                         /\ left'["start"] = 0
  <2>1. \A d \in Client : StartTold(d, slots, roomIdByClientId[c])
    BY <1>3, <1>9
  <2> QED BY <1>1, <2>1, StartTells
<1>12. ASSUME NEW d \in Client, NEW k \in 1 .. n PROVE Follows(d, k, slots, r)'
  <2>1. PICK e \in Client : e = slots[k - 1].client
    BY <1>8, TakenSlots
  <2>2. toServer'[e] \in Seq(ClientMessage)
    BY <1>0 DEF ClientTypes, NetworkTypeOK
  <2>3. StartTold(d, slots, r) /\ StartTold(e, slots, r) /\ NoneOf(toServer'[e], Changes)
    BY <1>9, <1>11
  <2>4. Running(e) /\ roomIdByClientId[e] = r => Stays(e, slots)'
    BY <1>10
  <2>5. UNCHANGED roomIdByClientId
    BY <1>1
  <2> QED BY <1>0, <2>1, <2>2, <2>3, <2>4, <2>5, StartFollows
<1>13. GameOn(slots, n, r)'
  BY <1>4, <1>6, <1>8, <1>10, <1>11, <1>12 DEF GameOn
<1>14. \A d \in Client : PlaysIn(d, r)'
  BY <1>0, <1>9, PlaysStart
<1> QED BY <1>13, <1>14 DEF OneGame

-----------------------------------------------------------------------------
(* The invariant of copies *)

\* Before the game, and in it.
CopyInv ==
  /\ SessionInv /\ RoomsInv
  /\ NoGame \/ OneGame

\* The server handles a message.
LEMMA CopyInvDeliver ==
  ASSUME RepeatedRequests = FALSE, SessionInv', CopyInv, StartedInOrder', NEW c \in Client, Deliver(c)
  PROVE  CopyInv'
<1> DEFINE m == Head(toServer[c])
<1>1. SessionInv /\ RoomsInv
  BY DEF CopyInv
<1>2. Delivers(c, m) /\ Handle(c, m) /\ ~RoomGone(c)
  BY <1>1, DeliverShape
<1>3. NewIdsAreUnused /\ ClientTypes
  BY <1>1 DEF Deliver, SessionInv, TypesInv, SessionTypeOK, ClientTypes
<1>4. m.type # "remove_client" /\ m \in ClientMessage
  <2>1. m = toServer[c][1] /\ 1 \in 1 .. Len(toServer[c]) /\ m \in ClientMessage
    BY <1>2, <1>3, TypesOfClients DEF Delivers
  <2> QED BY <1>1, <2>1 DEF SessionInv, ConnInv
<1> HIDE DEF m
<1>5. RoomsInv'
  BY <1>1, <1>2, <1>3, <1>4, RoomsDeliverStep
<1>6. (NoGame \/ OneGame)'
  <2>1. CASE OneGame
    <3>1. PICK slots, n, r : GameOn(slots, n, r) /\ \A d \in Client : PlaysIn(d, r)
      BY <2>1 DEF OneGame
    <3>2. GameOn(slots, n, r)'
      BY <1>1, <1>2, <3>1, CopyDeliverStep DEF RoomsInv
    <3>3. \A d \in Client : PlaysIn(d, r)'
      BY <1>1, <1>2, <3>1, PlaysDeliver
    <3> QED BY <3>2, <3>3 DEF OneGame
  <2>2. CASE NoGame /\ \E d \in Client : ~NoneOf(toClient'[d], {"create_game"})
    BY <1>1, <1>2, <2>2, GameCreated
  <2>3. CASE NoGame /\ \A d \in Client : NoneOf(toClient'[d], {"create_game"})
    BY <1>2, <1>3, <2>3, NoGameDeliver
  <2> QED BY <2>1, <2>2, <2>3 DEF CopyInv
<1> QED BY <1>5, <1>6 DEF CopyInv

\* The other steps.
LEMMA CopyInvOther ==
  ASSUME RepeatedRequests = FALSE, RethrowAsSystemError = FALSE, SessionInv', CopyInv, NEW c \in Client,
         Connect(c) \/ UserCommand(c) \/ ClientReceives(c) \/ Frame(c) \/ SessionOver(c)
  PROVE  CopyInv'
<1>1. SessionInv /\ RoomsInv
  BY DEF CopyInv
<1>2. RoomsInv'
  BY <1>1, RoomsQuietStep, RoomsReceiveStep
<1>3. CASE NoGame
  <2>1. NoGame'
    BY <1>1, <1>3, NoGameUserStep, NoGameQuietStep, NoGameReceiveStep
  <2> QED BY <1>2, <2>1 DEF CopyInv
<1>4. CASE OneGame
  <2>1. PICK slots, n, r : GameOn(slots, n, r) /\ \A d \in Client : PlaysIn(d, r)
    BY <1>4 DEF OneGame
  <2>2. NoneOf(toClient[c], {"remove_client"})
    BY <1>1 DEF RoomsInv
  <2>3. GameOn(slots, n, r)'
    BY <1>1, <2>1, <2>2, CopyUserStep, CopyFrameStep, CopyConnectStep, CopyReceiveStep, CopyOverStep
  <2>4. \A d \in Client : PlaysIn(d, r)'
    BY <1>1, <2>1, PlaysOn
  <2> QED BY <1>2, <2>3, <2>4 DEF CopyInv, OneGame
<1> QED BY <1>3, <1>4 DEF CopyInv

\* Nothing changes.
LEMMA CopyInvStands ==
  ASSUME SessionInv', CopyInv, UNCHANGED sessionVars
  PROVE  CopyInv'
<1>1. /\ UNCHANGED <<vars, usedIds, left, toServer, toClient>>
      /\ UNCHANGED <<phase, gameRoomId, clientId, networkSlots, players, listening, gameRoomClients, tetrisGame>>
      /\ UNCHANGED <<roomIdByClientId, gameRoomById, remoteByClientId, sessions>>
  BY DEF sessionVars, networkVars, clientVars, vars
<1>2. RoomsInv'
  BY <1>1 DEF CopyInv, RoomsInv, RoomsDistinct, RoomExists, NoneOf
<1>3. CASE NoGame
  <2>1. NoGame'
    BY <1>1, <1>3 DEF NoGame, OneStart, NoneOf
  <2> QED BY <1>2, <2>1 DEF CopyInv
<1>4. CASE OneGame
  <2>1. PICK slots, n, r : GameOn(slots, n, r) /\ \A d \in Client : PlaysIn(d, r)
    BY <1>4 DEF OneGame
  <2>2. ASSUME Client = {} PROVE GameOn(slots, n, r)'
    BY <1>1, <2>1, <2>2 DEF GameOn, TakenInOrder, DistinctPlayers
  <2>3. ASSUME NEW c \in Client PROVE GameOn(slots, n, r)'
    <3>1. SendsPlainly(c) /\ OthersStay(c)
      BY <1>1, SaysNothing
    <3>2. left'["start"] = 0 /\ ClientTypes /\ UNCHANGED <<roomIdByClientId, usedIds>>
      BY <1>1, <2>1 DEF GameOn, CopyInv, SessionInv, TypesInv, SessionTypeOK, ClientTypes
    <3> QED BY <2>1, <3>1, <3>2, PlainStep
  <2>4. GameOn(slots, n, r)'
    <3>1. Client = {} \/ \E c : c \in Client
      OBVIOUS
    <3> QED BY <2>2, <2>3, <3>1
  <2>5. ASSUME NEW d \in Client PROVE PlaysIn(d, r)'
    <3>1. /\ toClient[d] \in Seq(ServerMessage) /\ Seen(d) \in Sight
          /\ Seen(d)' = Seen(d) /\ toClient'[d] = toClient[d]
      <4>1. ClientTypes
        BY DEF CopyInv, SessionInv, TypesInv, SessionTypeOK, ClientTypes
      <4> QED BY <1>1, <4>1, TypesOfClients DEF Seen, Sight
    <3> QED BY <2>1, <3>1, PlaysStill
  <2> QED BY <1>2, <2>4, <2>5 DEF CopyInv, OneGame
<1> QED BY <1>3, <1>4 DEF CopyInv

\* At first there is no game.
LEMMA CopyInit ==
  ASSUME \A b \in Budgets : b["start"] <= 1, SessionInit
  PROVE  CopyInv
<1>1. SessionInv /\ RoomsInv
  BY SessionStarts, RoomsInit
<1>2. /\ phase = [c \in Client |-> "off"] /\ players = [c \in Client |-> << >>] /\ listening = [c \in Client |-> FALSE]
      /\ toServer = [c \in Client |-> << >>] /\ toClient = [c \in Client |-> << >>]
  BY DEF SessionInit, NetworkInit
<1>3. left["start"] <= 1
  BY DEF SessionInit
<1>4. ASSUME NEW c \in Client
      PROVE  /\ players[c] = << >> /\ ~listening[c] /\ phase[c] # "game"
             /\ Len(toServer[c]) = 0 /\ Len(toClient[c]) = 0
  BY <1>2
<1>5. \A c \in Client : /\ NoneOf(toServer[c], Changes) /\ NoneOf(toServer[c], {"start_game"})
                        /\ NoneOf(toClient[c], {"create_game"})
  BY <1>4 DEF NoneOf
<1>6. NoGame
  BY <1>3, <1>4, <1>5 DEF NoGame, OneStart
<1> QED BY <1>1, <1>6 DEF CopyInv

\* In the game, the boards are those of the slots, and the owner of each is the client of its slot.
LEMMA OwnerOfSlot ==
  ASSUME ClientTypes, NEW slots, NEW n, NEW r, GameOn(slots, n, r), NEW c \in Client, NEW i \in DOMAIN players[c]
  PROVE  /\ i \in 1 .. n /\ i - 1 \in SlotIndex /\ slots[i - 1] # OpenSlot /\ Own(c, i) = players[c][i].board
         /\ players[c][i].player = slots[i - 1].player
         /\ players[c][i].local <=> slots[i - 1].client = c
<1>1. players[c] \in Seq(Player) /\ players[c] # << >>
  <2>1. players[c] \in Seq(Player)
    BY TypesOfClients
  <2>2. DOMAIN players[c] # {}
    OBVIOUS
  <2>3. players[c] # << >>
    <3> SUFFICES ASSUME players[c] = << >> PROVE FALSE
      OBVIOUS
    <3> QED BY <2>2
  <2> QED BY <2>1, <2>3
<1>2. SeatsOf(c, slots, n) /\ TakenInOrder(slots, n)
  BY <1>1 DEF GameOn, Seated
<1>3. i \in 1 .. n
  BY <1>1, <1>2 DEF SeatsOf
<1>4. i - 1 \in SlotIndex /\ slots[i - 1] # OpenSlot
  BY <1>2, <1>3, TakenSlots
<1>5. /\ players[c][i].player = slots[i - 1].player
      /\ players[c][i].local <=> slots[i - 1].client = c
  BY <1>2, <1>3 DEF SeatsOf
<1>6. Own(c, i) = players[c][i].board
  BY <1>1 DEF Own
<1> QED BY <1>3, <1>4, <1>5, <1>6

\* What is known of the one game says what its copies have.
LEMMA CopiesFollowOwners ==
  ASSUME CopyInv
  PROVE  CopyFollowsOwner
<1>0. ClientTypes
  BY DEF CopyInv, SessionInv, TypesInv, SessionTypeOK, ClientTypes
<1>1. CASE NoGame
  <2>1. \A c \in Client : DOMAIN players[c] = {}
    BY <1>1 DEF NoGame
  <2> QED BY <2>1 DEF CopyFollowsOwner, OneOwner
<1>2. CASE OneGame
  <2>1. PICK slots, n, r : GameOn(slots, n, r)
    BY <1>2 DEF OneGame
  <2>2. \A c \in Client : \A i \in DOMAIN players[c] :
          /\ i \in 1 .. n /\ i - 1 \in SlotIndex /\ slots[i - 1] # OpenSlot /\ Own(c, i) = players[c][i].board
          /\ players[c][i].player = slots[i - 1].player
          /\ players[c][i].local <=> slots[i - 1].client = c
    BY <1>0, <2>1, OwnerOfSlot
  <2>3. \A c, d \in Client : \A i \in DOMAIN players[c], j \in DOMAIN players[d] :
          players[c][i].player = players[d][j].player => i = j
    <3> SUFFICES ASSUME NEW c \in Client, NEW d \in Client, NEW i \in DOMAIN players[c], NEW j \in DOMAIN players[d],
                        players[c][i].player = players[d][j].player
                 PROVE  i = j
      OBVIOUS
    <3>1. /\ i \in 1 .. n /\ i - 1 \in SlotIndex /\ slots[i - 1] # OpenSlot
          /\ j \in 1 .. n /\ j - 1 \in SlotIndex /\ slots[i - 1].player = slots[j - 1].player
      BY <2>2
    <3>2. i - 1 = j - 1
      BY <2>1, <3>1 DEF GameOn, DistinctPlayers
    <3>3. n \in Nat
      BY <2>1, SizeAssumption DEF GameOn, TakenInOrder
    <3> QED BY <3>1, <3>2, <3>3
  <2>4. OneOwner
    <3> SUFFICES ASSUME NEW c \in Client, NEW d \in Client, NEW i \in DOMAIN players[c], NEW j \in DOMAIN players[d],
                        players[c][i].local, players[d][j].local, players[c][i].player = players[d][j].player
                 PROVE  c = d /\ i = j
      BY DEF OneOwner
    <3>1. i = j
      BY <2>3
    <3> QED BY <2>2, <3>1
  <2>5. ASSUME NEW c \in Client, NEW d \in Client, NEW i \in DOMAIN players[d], NEW j \in DOMAIN players[c],
               phase[d] = "game", Copies(d, i, c, j)
        PROVE  StartsWith(players[c][j].board, players[d][i].board)
    <3>1. i = j /\ ~players[d][i].local /\ players[c][j].local
      BY <2>3, <2>5 DEF Copies
    <3>2. i \in 1 .. n /\ slots[i - 1].client = c /\ c # d /\ Own(c, i) = players[c][i].board
      BY <2>2, <3>1
    <3>3. PICK v \in Known : KnowsOf(d, i, slots[i - 1], Own(c, i), v)
      BY <2>1, <3>2 DEF GameOn, Follows
    <3> QED BY <2>5, <3>1, <3>2, <3>3 DEF KnowsOf
  <2> QED BY <2>4, <2>5 DEF CopyFollowsOwner
<1> QED BY <1>1, <1>2 DEF CopyInv

\* Who has heard all there was to hear of a board has the board.
LEMMA CopiesHaveCaughtUp ==
  ASSUME CopyInv
  PROVE  CopyCatchesUp
<1>0. ClientTypes /\ SessionInv
  BY DEF CopyInv, SessionInv, TypesInv, SessionTypeOK, ClientTypes
<1> SUFFICES ASSUME NEW c \in Client, NEW d \in Client, NEW i \in DOMAIN players[d], NEW j \in DOMAIN players[c],
                    Copies(d, i, c, j), Quiet(c), Quiet(d), phase[c] = "game", phase[d] = "game"
             PROVE  players[d][i].board = players[c][j].board
  BY DEF CopyCatchesUp
<1>1. OneGame
  BY DEF CopyInv, NoGame
<1>2. PICK slots, n, r : GameOn(slots, n, r) /\ \A e \in Client : PlaysIn(e, r)
  BY <1>1 DEF OneGame
<1>3. /\ i \in 1 .. n /\ i - 1 \in SlotIndex /\ slots[i - 1] # OpenSlot
      /\ players[d][i].player = slots[i - 1].player
      /\ players[d][i].local <=> slots[i - 1].client = d
  BY <1>0, <1>2, OwnerOfSlot
<1>4. /\ j \in 1 .. n /\ j - 1 \in SlotIndex /\ slots[j - 1] # OpenSlot
      /\ Own(c, j) = players[c][j].board
      /\ players[c][j].player = slots[j - 1].player
      /\ players[c][j].local <=> slots[j - 1].client = c
  BY <1>0, <1>2, OwnerOfSlot
<1>5. i = j
  <2>1. i - 1 = j - 1
    BY <1>2, <1>3, <1>4 DEF Copies, GameOn, DistinctPlayers
  <2>2. n \in Nat
    BY <1>2, SizeAssumption DEF GameOn, TakenInOrder
  <2> QED BY <1>3, <1>4, <2>1, <2>2
<1>6. slots[i - 1].client = c /\ c # d
  BY <1>3, <1>4, <1>5 DEF Copies
<1> DEFINE slot == slots[i - 1]
           own == Own(c, i)
<1>7. PICK v \in Known : /\ KnowsOf(d, i, slot, own, v)
                         /\ v >= 0 => Owns(c, slot, own, v, slots, r)
  BY <1>2, <1>3, <1>6 DEF GameOn, Follows
<1>8. toClient[d] = << >> /\ toServer[c] = << >>
  BY DEF Quiet
<1>9. v = Len(players[d][i].board) /\ StartsWith(own, players[d][i].board)
  <2>1. Linked(Heard(d, i), << >>, v, Hearing(d, slot, own))
    BY <1>7, <1>8 DEF KnowsOf
  <2>2. Heard(d, i) = v
    BY <2>1, LinkedEmpty
  <2> QED BY <1>7, <2>2 DEF KnowsOf, Heard
<1>10. players[d][i].board \in Seq(Change) /\ own \in Seq(Change)
  <2>1. own = players[c][i].board
    BY <1>4, <1>5
  <2>2. \A e \in Client : \A k \in DOMAIN players[e] : players[e][k].board \in Seq(Change)
    <3>1. \A e \in Client : players[e] \in Seq(Player)
      BY <1>0, TypesOfClients
    <3>2. \A e \in Client : \A k \in DOMAIN players[e] : players[e][k] \in Player
      BY <3>1
    <3> QED BY <3>2 DEF Player
  <2> QED BY <1>5, <2>1, <2>2
<1>11. roomIdByClientId[c] = r
  <2>1. AgreesWith(c, Seen(c), roomIdByClientId[c], gameRoomById)
    BY <1>0, QuietSees
  <2> QED BY <1>2, <2>1 DEF AgreesWith, Seen, PlaysIn
<1>12. v = Len(own)
  <2>1. Len(players[d][i].board) \in Nat
    BY <1>10
  <2>2. PICK w \in Said : /\ Linked(v, toServer[c], w, Saying(slot, own))
                          /\ w = -1 \/ phase[c] = "lost" \/ w = Len(own)
    BY <1>7, <1>9, <1>11, <2>1 DEF Owns, Silent
  <2>3. Linked(v, << >>, w, Saying(slot, own))
    BY <1>8, <2>2
  <2>4. v = w
    BY <2>3, LinkedEmpty
  <2> QED BY <1>9, <2>1, <2>2, <2>4
<1>13. own = players[d][i].board
  <2> DEFINE copy == players[d][i].board
  <2>1. copy \in Seq(Change) /\ own \in Seq(Change) /\ Len(copy) = Len(own) /\ StartsWith(own, copy)
    BY <1>9, <1>10, <1>12
  <2> HIDE DEF copy, own
  <2>2. own = copy
    BY <2>1 DEF StartsWith
  <2> QED BY <2>2 DEF copy
<1> QED BY <1>4, <1>5, <1>13

-----------------------------------------------------------------------------
(* The theorems of copies *)

\* The invariant of copies holds, as long as games are started in order.
LEMMA CopyInvHolds ==
  ASSUME RepeatedRequests = FALSE, RethrowAsSystemError = FALSE, \A b \in Budgets : b["start"] <= 1
  PROVE  SessionSpec /\ []StartedInOrder => []CopyInv
<1>1. SessionInit => CopyInv
  BY CopyInit
<1>2. Careful
  BY DEF Careful
<1>3. CopyInv /\ SessionInv' /\ StartedInOrder' /\ [SessionNext]_sessionVars => CopyInv'
  <2> SUFFICES ASSUME CopyInv, SessionInv', StartedInOrder', [SessionNext]_sessionVars PROVE CopyInv'
    OBVIOUS
  <2>1. ASSUME NEW c \in Client, Deliver(c) PROVE CopyInv'
    BY <2>1, CopyInvDeliver
  <2>2. ASSUME NEW c \in Client, Connect(c) \/ UserCommand(c) \/ ClientReceives(c) \/ Frame(c) \/ SessionOver(c)
        PROVE  CopyInv'
    BY <2>2, CopyInvOther
  <2>3. CASE UNCHANGED sessionVars
    BY <2>3, CopyInvStands
  <2> QED BY <2>1, <2>2, <2>3 DEF SessionNext
<1> QED BY <1>1, <1>2, <1>3, SessionInvHolds, PTL DEF SessionSpec

\* A copy of a board never gets a change its owner did not make, nor one twice, late or out of order,
\* and no two clients steer the same player, while clients come, leave, come back, restart and vanish: of
\* one game, in which nobody asks again before an answer, and no slot is open before a taken one
\* when it starts (createPlayers pairs names and slots by their order).  For any number of clients,
\* slots, rooms, changes and messages under way.
THEOREM CopiesFollow ==
  ASSUME RepeatedRequests = FALSE, RethrowAsSystemError = FALSE, \A b \in Budgets : b["start"] <= 1
  PROVE  SessionSpec /\ []StartedInOrder => []CopyFollowsOwner
<1>1. CopyInv => CopyFollowsOwner
  BY CopiesFollowOwners
<1> QED BY <1>1, CopyInvHolds, PTL

\* And they get all of them: when nothing is under way between two clients in the game, the copy of
\* the one is the board of the other.
THEOREM CopiesCatchUp ==
  ASSUME RepeatedRequests = FALSE, RethrowAsSystemError = FALSE, \A b \in Budgets : b["start"] <= 1
  PROVE  SessionSpec /\ []StartedInOrder => []CopyCatchesUp
<1>1. CopyInv => CopyCatchesUp
  BY CopiesHaveCaughtUp
<1> QED BY <1>1, CopyInvHolds, PTL
=============================================================================
