------------------------------ MODULE Network -------------------------------
(***************************************************************************)
(* The network half of the game client (App_Lib, class Network), with the   *)
(* parts of TetrisController that its events change: the roster of the room *)
(* and the game it plays (TetrisGame).  Every client has its own copy of this   *)
(* state and is known by the ClientId the server gave its connection, which *)
(* it learns from the first GameRoomJoined it receives.                     *)
(*                                                                         *)
(* The coroutine Network::run waits for one message at a time, so handling  *)
(* a message is one step, and so is each call from the user interface: they *)
(* share one asio thread.  The connection is a pair of FIFO queues.         *)
(*                                                                         *)
(* A board is the sequence of changes made to it.  What a change does to    *)
(* the squares is decided by the board alone, so two boards with the same   *)
(* history are the same board.                                              *)
(***************************************************************************)
EXTENDS Protocol, Sequences, Selection, TetrisGame

CONSTANT GameOver  \* the move that ends a board (tetris::Move::GameOver)

ASSUME GameOverAssumption == GameOver \in BoardValue

VARIABLES
  phase,            \* the loop Network::run is in; "off" before it is connected
  gameRoomId,       \* the room the client takes itself to be in
  clientId,         \* its own id, once it knows it
  networkSlots,     \* how it sees the slots of the room; empty before the first room
  players,          \* the players of the game it plays, in the order they were created
  listening,        \* connections_: changes of its local boards are sent
  gameRoomClients,  \* the roster it shows
  tetrisGame,       \* whether its game runs
  toServer, toClient  \* the two directions of its connection

clientVars == <<phase, gameRoomId, clientId, networkSlots, players, listening, gameRoomClients, tetrisGame>>
networkVars == <<clientVars, toServer, toClient>>

SlotView == {"Open", "Local", "Remote"}

Change == [type : BoardKind, value : BoardValue] \cup [type : {"game_restart"}, value : Blocks]

Player == [player : PlayerId, client : Client, local : BOOLEAN, board : Seq(Change), index : 1 .. NumSlots]

NetworkTypeOK ==
  /\ phase \in [Client -> {"off", "connect", "lobby", "game", "lost"}]
  /\ gameRoomId \in [Client -> RoomId \cup {NoRoom}]
  /\ clientId \in [Client -> Client \cup {NoClient}]
  /\ \A c \in Client : networkSlots[c] = << >> \/ networkSlots[c] \in [SlotIndex -> SlotView]
  /\ players \in [Client -> Seq(Player)]
  /\ listening \in [Client -> BOOLEAN]
  /\ gameRoomClients \in [Client -> SUBSET Member]
  /\ tetrisGame \in [Client -> Game]
  /\ toServer \in [Client -> Seq(ClientMessage)]
  /\ toClient \in [Client -> Seq(ServerMessage)]

NetworkInit ==
  /\ phase = [c \in Client |-> "off"]
  /\ gameRoomId = [c \in Client |-> NoRoom]
  /\ clientId = [c \in Client |-> NoClient]
  /\ networkSlots = [c \in Client |-> << >>]
  /\ players = [c \in Client |-> << >>]
  /\ listening = [c \in Client |-> FALSE]
  /\ gameRoomClients = [c \in Client |-> {}]
  /\ tetrisGame = [c \in Client |-> FirstGame]
  /\ toServer = [c \in Client |-> << >>]
  /\ toClient = [c \in Client |-> << >>]

-----------------------------------------------------------------------------
(* Calls from the user interface *)

Running(c) == phase[c] \in {"connect", "lobby", "game"}

isInsideRoom(c) == gameRoomId[c] # NoRoom

Send(c, m) == toServer' = [toServer EXCEPT ![c] = Append(@, m)]

Local(c) == {i \in DOMAIN players[c] : players[c][i].local}

\* The histories of the players at these indices are continued with change.
Continue(c, which, change) ==
  [i \in DOMAIN players[c] |->
     IF i \in which THEN [players[c][i] EXCEPT !.board = Append(@, change)] ELSE players[c][i]]

Restart(blocks) == [type |-> "game_restart", value |-> blocks]

createGameRoom(c, isPublic) ==
  /\ Running(c) /\ ~isInsideRoom(c)
  /\ Send(c, CreateGameRoom(isPublic))
  /\ UNCHANGED <<clientVars, toClient>>

\* Mutants of joinGameRoom: asks for the room the client is in instead of the room given; a client
\* inside a room asks, too.
joinGameRoomAnyhow(c, r) ==
  /\ Running(c)
  /\ Send(c, JoinGameRoom(r))
  /\ listening' = [listening EXCEPT ![c] = FALSE]
  /\ UNCHANGED <<phase, gameRoomId, clientId, networkSlots, players, gameRoomClients, tetrisGame, toClient>>
\* The boards of an earlier game are no longer listened to.
joinGameRoom(c, r) ==
  /\ Running(c) /\ ~isInsideRoom(c)
  /\ Send(c, JoinGameRoom(r))
  /\ listening' = [listening EXCEPT ![c] = FALSE]
  /\ UNCHANGED <<phase, gameRoomId, clientId, networkSlots, players, gameRoomClients, tetrisGame, toClient>>

InsideSend(c, m) ==
  /\ Running(c) /\ isInsideRoom(c)
  /\ Send(c, m)
  /\ UNCHANGED <<clientVars, toClient>>

leaveGameRoom(c) == InsideSend(c, LeaveGameRoom)

\* The lobby has the buttons of these two; any client of the room may press them.  It shows a slot
\* as the user wants it before the server answers, so a start may come before any player does.
setPlayerSlot(c, i, request) ==
  phase[c] = "lobby" /\ i \in DOMAIN networkSlots[c] /\ InsideSend(c, PlayerSlot(i, request))

startGame(c) == phase[c] = "lobby" /\ InsideSend(c, StartGame)

\* TetrisController::pause: in a room the server is asked.
pause(c) ==
  \/ InsideSend(c, GameCommand(~tetrisGame[c].paused))
  \/ /\ ~isInsideRoom(c)
     /\ tetrisGame' = [tetrisGame EXCEPT ![c] = setPause(@, ~@.paused)]
     /\ UNCHANGED <<phase, gameRoomId, clientId, networkSlots, players, listening, gameRoomClients,
                    toServer, toClient>>

\* TetrisController::restartGame: outside a room the boards of the last game start anew, unheard.
restartGame(c) ==
  \/ InsideSend(c, RequestGameRestart)
  \/ /\ ~isInsideRoom(c)
     /\ tetrisGame' = [tetrisGame EXCEPT ![c] = restartedGame(@)]
     /\ \E blocks \in Blocks :
          players' = [players EXCEPT ![c] = Continue(c, DOMAIN players[c], Restart(blocks))]
     /\ UNCHANGED <<phase, gameRoomId, clientId, networkSlots, listening, gameRoomClients,
                    toServer, toClient>>

\* TetrisGame::update, each frame: the countdown ends when it is time.
updateGame(c) ==
  /\ tetrisGame[c].scheduled
  /\ tetrisGame' = [tetrisGame EXCEPT ![c] = CountDownOver(@)]
  /\ UNCHANGED <<phase, gameRoomId, clientId, networkSlots, players, listening, gameRoomClients,
                 toServer, toClient>>

requestGameRoomList(c) ==
  /\ Running(c)
  /\ Send(c, RequestGameRoomList)
  /\ UNCHANGED <<clientVars, toClient>>

\* A local player moves, gets a block or gets rows (handlePlayerBoardUpdate).  The listener knows
\* the player by its index in players_.  A game goes on after its room was left.  While a game is
\* paused only the game rules change a local board: they answer to what a copy goes through.
LocalChange(c, i, change) ==
  /\ Running(c)
  /\ tetrisGame[c].paused => \/ change.type = "board_external_squares"
                             \/ change = [type |-> "board_move", value |-> GameOver]
  /\ players[c][i].local
  /\ players' = [players EXCEPT ![c][i].board = Append(@, change)]
  /\ LET k == players[c][i].index
     IN  IF listening[c] /\ k \in DOMAIN players[c]
           THEN Send(c, Board(change.type, players[c][k].player, change.value))
           ELSE UNCHANGED toServer
  /\ UNCHANGED <<phase, gameRoomId, clientId, networkSlots, listening, gameRoomClients, tetrisGame, toClient>>

-----------------------------------------------------------------------------
(* Messages from the server *)

View(me, slots) ==
  [i \in DOMAIN slots |-> IF slots[i].type = "Open" THEN "Open"
                          ELSE IF slots[i].client = me THEN "Local" ELSE "Remote"]

Skip == UNCHANGED <<clientVars, toServer>>

handleGameLooby(c, m) ==
  /\ networkSlots' = [networkSlots EXCEPT ![c] = View(clientId[c], m.slots)]
  /\ UNCHANGED <<phase, gameRoomId, clientId, players, listening, gameRoomClients, tetrisGame, toServer>>

handleGameRoomJoined(c, m) ==
  LET me == IF clientId[c] = NoClient THEN m.client ELSE clientId[c] IN
    /\ phase' = [phase EXCEPT ![c] = "lobby"]
    /\ gameRoomId' = [gameRoomId EXCEPT ![c] = m.room]
    /\ clientId' = [clientId EXCEPT ![c] = me]
    /\ networkSlots' = [networkSlots EXCEPT ![c] = View(me, m.slots)]
    /\ gameRoomClients' = [gameRoomClients EXCEPT ![c] = m.clients]
    /\ UNCHANGED <<players, listening, tetrisGame, toServer>>

\* Mutant of handleLeaveGameRoom: whoever left, the client takes itself to be out.
handleLeaveOfAnybody(c, m) ==
  /\ phase' = [phase EXCEPT ![c] = "connect"]
  /\ gameRoomId' = [gameRoomId EXCEPT ![c] = NoRoom]
  /\ gameRoomClients' = [gameRoomClients EXCEPT ![c] = m.clients]
  /\ UNCHANGED <<clientId, networkSlots, players, listening, tetrisGame, toServer>>

\* The client itself has left: both loops of the room end.  Or somebody else has.
handleLeaveGameRoom(c, m) ==
  /\ IF m.client = clientId[c]
       THEN /\ phase' = [phase EXCEPT ![c] = "connect"]
            /\ gameRoomId' = [gameRoomId EXCEPT ![c] = NoRoom]
       ELSE UNCHANGED <<phase, gameRoomId>>
  /\ gameRoomClients' = [gameRoomClients EXCEPT ![c] = m.clients]
  /\ UNCHANGED <<clientId, networkSlots, players, listening, tetrisGame, toServer>>

\* The taken slots, in order: the players of CreateGame.
Taken(slots) ==
  SelectIn([k \in 1 .. NumSlots |-> slots[k - 1]], Slot \ {OpenSlot})

\* The k-th player of the message is made what the k-th SLOT of the room is, open slots counted.
PlayersOf(c, slots) ==
  LET tpPlayers == Taken(slots)
      paired    == [k \in DOMAIN tpPlayers |-> [tp |-> tpPlayers[k], view |-> networkSlots[c][k - 1]]]
      made      == SelectIn(paired, [tp : Slot, view : {"Local", "Remote"}])
  IN  [k \in DOMAIN made |->
         [player |-> made[k].tp.player,
          client |-> IF made[k].view = "Local" THEN clientId[c] ELSE made[k].tp.client,
          local  |-> made[k].view = "Local",
          board  |-> << >>,
          index  |-> k]]

handleCreateGame(c, m) ==
  /\ phase' = [phase EXCEPT ![c] = "game"]
  /\ players' = [players EXCEPT ![c] = PlayersOf(c, m.slots)]
  /\ listening' = [listening EXCEPT ![c] = TRUE]
  /\ tetrisGame' = [tetrisGame EXCEPT ![c] = createdGame(Len(players'[c]))]
  /\ gameRoomClients' = [gameRoomClients EXCEPT ![c] = {}]
  /\ UNCHANGED <<gameRoomId, clientId, networkSlots, toServer>>

handleGameCommand(c, m) ==
  /\ tetrisGame' = [tetrisGame EXCEPT ![c] = setPause(@, m.pause)]
  /\ UNCHANGED <<phase, gameRoomId, clientId, networkSlots, players, listening, gameRoomClients, toServer>>

\* Mutant of handleRequestGameRestart: the others are not told.
handleRequestGameRestartAlone(c, m) ==
  /\ Local(c) # {}
  /\ players' = [players EXCEPT ![c] = Continue(c, Local(c), Restart(m.blocks))]
  /\ tetrisGame' = [tetrisGame EXCEPT ![c] = restartedGame(@)]
  /\ UNCHANGED <<phase, gameRoomId, clientId, networkSlots, listening, gameRoomClients, toServer>>

\* A client with local players restarts them at once, and has the others restart their copies.
handleRequestGameRestart(c, m) ==
  /\ Local(c) # {}
  /\ Send(c, GameRestart(m.blocks))
  /\ players' = [players EXCEPT ![c] = Continue(c, Local(c), Restart(m.blocks))]
  /\ tetrisGame' = [tetrisGame EXCEPT ![c] = restartedGame(@)]
  /\ UNCHANGED <<phase, gameRoomId, clientId, networkSlots, listening, gameRoomClients>>

\* The client's own restart never comes back to it: the server sends it to the others.
handleGameRestart(c, m) ==
  IF m.client = clientId[c]
    THEN Skip
    ELSE /\ players' = [players EXCEPT ![c] =
                Continue(c, {i \in DOMAIN players[c] : players[c][i].client = m.client}, Restart(m.blocks))]
         /\ tetrisGame' = [tetrisGame EXCEPT ![c] = restartedGame(@)]
         /\ UNCHANGED <<phase, gameRoomId, clientId, networkSlots, listening, gameRoomClients, toServer>>

\* Mutant of handleBoard: a change is applied twice.
handleBoardTwice(c, m) ==
  /\ players' = [players EXCEPT ![c] =
       [i \in DOMAIN players[c] |->
          IF players[c][i].player = m.player /\ ~players[c][i].local
            THEN [players[c][i] EXCEPT !.board = @ \o [k \in 1 .. 2 |-> [type |-> m.type, value |-> m.value]]]
            ELSE players[c][i]]]
  /\ UNCHANGED <<phase, gameRoomId, clientId, networkSlots, listening, gameRoomClients, tetrisGame, toServer>>

\* handleBoardMove, handleBoardNextBlock and handleBoardExternalSquares.
handleBoard(c, m) ==
  /\ players' = [players EXCEPT ![c] =
       Continue(c, {i \in DOMAIN players[c] \ Local(c) : players[c][i].player = m.player},
                [type |-> m.type, value |-> m.value])]
  /\ UNCHANGED <<phase, gameRoomId, clientId, networkSlots, listening, gameRoomClients, tetrisGame, toServer>>

\* The predicate of remove_if ends the board of EVERY player, whoever left, and those of the local
\* players are sent.  (The listeners look the player up in the vector as it was before.)
handleRemoveClient(c, m) ==
  LET over   == Continue(c, DOMAIN players[c], [type |-> "board_move", value |-> GameOver])
      heard  == {i \in Local(c) : listening[c] /\ players[c][i].index \in DOMAIN players[c]}
      sends  == SelectIn(players[c], {players[c][i] : i \in heard})
      stay   == {i \in DOMAIN players[c] : players[c][i].client # m.client}
  IN  /\ players' = [players EXCEPT ![c] = SelectIn(over, {over[i] : i \in stay})]
      /\ toServer' = [toServer EXCEPT ![c] = @ \o
           [k \in DOMAIN sends |-> Board("board_move", players[c][sends[k].index].player, GameOver)]]
      /\ UNCHANGED <<phase, gameRoomId, clientId, networkSlots, listening, gameRoomClients, tetrisGame>>

\* Mutant of HandleInConnect: the answer to a create or join is not waited for.
HandleInConnectSkipping(c, m) == Skip

\* What each loop of Network::run does with a message: it skips those it does not wait for.
HandleInConnect(c, m) ==
  \/ m.type = "game_room_joined" /\ handleGameRoomJoined(c, m)
  \/ m.type # "game_room_joined" /\ Skip

\* Mutant of HandleInLobby: slot changes are skipped.
HandleInLobbyWithoutSlots(c, m) ==
  \/ m.type = "game_room_joined" /\ handleGameRoomJoined(c, m)
  \/ m.type = "leave_game_room" /\ handleLeaveGameRoom(c, m)
  \/ m.type = "create_game" /\ handleCreateGame(c, m)
  \/ m.type \notin {"game_room_joined", "leave_game_room", "create_game"} /\ Skip

HandleInLobby(c, m) ==
  \/ m.type = "game_looby" /\ handleGameLooby(c, m)
  \/ m.type = "game_room_joined" /\ handleGameRoomJoined(c, m)
  \/ m.type = "leave_game_room" /\ handleLeaveGameRoom(c, m)
  \/ m.type = "create_game" /\ handleCreateGame(c, m)
  \/ m.type \notin {"game_looby", "game_room_joined", "leave_game_room", "create_game"} /\ Skip

HandleInGame(c, m) ==
  \/ m.type = "game_command" /\ handleGameCommand(c, m)
  \/ m.type = "request_game_restart" /\ handleRequestGameRestart(c, m)
  \/ /\ m.type = "request_game_restart"
     /\ Local(c) = {}
     /\ Skip
  \/ m.type = "game_restart" /\ handleGameRestart(c, m)
  \/ m.type \in BoardKind /\ handleBoard(c, m)
  \/ m.type = "remove_client" /\ handleRemoveClient(c, m)
  \/ m.type = "leave_game_room" /\ handleLeaveGameRoom(c, m)
  \/ m.type \in {"game_looby", "game_room_joined", "create_game", "game_room_list"} /\ Skip

nextMessage(c) ==
  /\ toClient[c] # << >>
  /\ LET m == Head(toClient[c]) IN
       \/ phase[c] = "connect" /\ HandleInConnect(c, m)
       \/ phase[c] = "lobby" /\ HandleInLobby(c, m)
       \/ phase[c] = "game" /\ HandleInGame(c, m)
  /\ toClient' = [toClient EXCEPT ![c] = Tail(@)]

\* Reading fails.  The exception is a sliced copy that the handler of run does not catch, so the
\* coroutine ends and the state stays as it is; no later message is read.
LoseConnection(c) ==
  /\ Running(c)
  /\ phase' = [phase EXCEPT ![c] = "lost"]
  /\ toClient' = [toClient EXCEPT ![c] = << >>]
  /\ \E k \in 0 .. Len(toServer[c]) : toServer' = [toServer EXCEPT ![c] = SubSeq(@, 1, k)]
  /\ UNCHANGED <<gameRoomId, clientId, networkSlots, players, listening, gameRoomClients, tetrisGame>>
=============================================================================
