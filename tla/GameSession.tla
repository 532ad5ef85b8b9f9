---------------------------- MODULE GameSession -----------------------------
(***************************************************************************)
(* Clients (Network) playing over a server (ServerCore, whose steps are     *)
(* taken here for the messages the clients have sent).  A message sent is   *)
(* appended to a FIFO queue of its connection, and handling it, at either   *)
(* end, is a step of its own: the interleavings are those of the messages   *)
(* on their way.  Users press buttons at any time; a budget bounds how often *)
(* each button is pressed in all, which bounds the queues and the boards.   *)
(*                                                                         *)
(* RepeatedRequests here says whether a user with a budget for it presses   *)
(* "create" or "join" once more before the first request is answered.       *)
(* Users never send RemoveClient: no scene offers it.                       *)
(***************************************************************************)
EXTENDS Network, ServerCore

CONSTANT Budgets  \* how often each command is given: users have one of these budgets

Command == {"connect", "create", "join", "leave", "slot", "start", "pause", "restart", "change",
            "list", "lose", "again"}

\* "again" is no command: it says that the user is impatient.
ASSUME BudgetAssumption ==
  /\ Budgets \subseteq [Command -> Nat]
  /\ RepeatedRequests \/ \A budget \in Budgets : budget["again"] = 0

\* A UUID is generated once: no room and no player have the same.
ASSUME DistinctIdAssumption == RoomId \cap PlayerId = {}

VARIABLES
  left,     \* what is left of the budget
  usedIds   \* the RoomIds and PlayerIds generated so far

\* vars are those of the server.
sessionVars == <<networkVars, vars, left, usedIds>>

SessionTypeOK ==
  /\ NetworkTypeOK
  /\ ServerTypeOK
  /\ left \in [Command -> Nat]
  /\ usedIds \in SUBSET (RoomId \cup PlayerId)

SessionInit ==
  /\ NetworkInit
  /\ Init
  /\ left \in Budgets
  /\ usedIds = {}

-----------------------------------------------------------------------------
(* Users *)

Spend(command) ==
  /\ left[command] > 0
  /\ left' = [left EXCEPT ![command] = @ - 1]
  /\ UNCHANGED <<vars, usedIds>>

\* The client waits for the answer to a request to get into a room.
Asking(c) ==
  \/ \E k \in DOMAIN toServer[c] : toServer[c][k].type \in {"create_game_room", "join_game_room"}
  \/ \E k \in DOMAIN toClient[c] : toClient[c][k].type = "game_room_joined"

MayAsk(c) == left["again"] > 0 \/ ~Asking(c)

\* A room a user can name: it was created, and may be gone.
KnownRoom(r) == r \in usedIds

UserCommand(c) ==
  \/ Spend("create") /\ MayAsk(c) /\ \E isPublic \in BOOLEAN : createGameRoom(c, isPublic)
  \/ Spend("join") /\ MayAsk(c) /\ \E r \in RoomId : KnownRoom(r) /\ joinGameRoom(c, r)
  \/ Spend("leave") /\ leaveGameRoom(c)
  \/ Spend("slot") /\ \E i \in SlotIndex, request \in {"PLAYER", "OPEN_SLOT"} : setPlayerSlot(c, i, request)
  \/ Spend("start") /\ startGame(c)
  \/ Spend("pause") /\ pause(c)
  \/ Spend("restart") /\ restartGame(c)
  \/ Spend("list") /\ requestGameRoomList(c)
  \/ Spend("change") /\ \E i \in DOMAIN players[c], kind \in BoardKind, v \in BoardValue :
                          LocalChange(c, i, [type |-> kind, value |-> v])
  \/ Spend("lose") /\ LoseConnection(c)

-----------------------------------------------------------------------------
(* Connections and the server *)

\* What the server sent in this step goes to the queues of the clients that still read.
Queued(queues) ==
  [d \in Client |-> IF phase[d] = "lost" THEN queues[d] ELSE queues[d] \o sent'[d]]

Connect(c) ==
  /\ phase[c] = "off"
  /\ left["connect"] > 0
  /\ left' = [left EXCEPT !["connect"] = @ - 1]
  /\ SpawnCoroutine(c)
  /\ phase' = [phase EXCEPT ![c] = "connect"]
  /\ UNCHANGED <<gameRoomId, clientId, networkSlots, players, listening, gameRoomClients, tetrisGame,
                 toServer, toClient, usedIds>>

\* The RoomIds and PlayerIds in the rooms of the server.
IdsOf(rooms) ==
  LET open == {r \in RoomId : rooms[r] # NoRoom}
  IN  open \cup ({rooms[r].playerSlots[i].player : r \in open, i \in SlotIndex} \ {NoPlayer})

\* Ids are unique for good, also with respect to messages under way.
NewIdsAreUnused ==
  /\ (IdsOf(gameRoomById') \ IdsOf(gameRoomById)) \cap usedIds = {}
  /\ usedIds' = usedIds \cup IdsOf(gameRoomById')

Deliver(c) ==
  /\ toServer[c] # << >>
  /\ ReceivedFromRemote(c, Head(toServer[c]))
  /\ NewIdsAreUnused
  /\ toServer' = [toServer EXCEPT ![c] = Tail(@)]
  /\ toClient' = Queued(toClient)
  /\ UNCHANGED <<clientVars, left>>

\* The server notices a lost connection, when it has read what came through.
SessionOver(c) ==
  /\ phase[c] = "lost"
  /\ toServer[c] = << >>
  /\ SessionFails(c) \/ SessionEnds(c)
  /\ toClient' = Queued(toClient)
  /\ UNCHANGED <<clientVars, toServer, left, usedIds>>

ClientReceives(c) == nextMessage(c) /\ UNCHANGED <<vars, left, usedIds>>

Frame(c) == updateGame(c) /\ UNCHANGED <<vars, left, usedIds>>

SessionNext ==
  \E c \in Client :
    \/ Connect(c)
    \/ UserCommand(c)
    \/ Deliver(c)
    \/ ClientReceives(c)
    \/ Frame(c)
    \/ SessionOver(c)

SessionSpec == SessionInit /\ [][SessionNext]_sessionVars

\* The asio threads run every handler that is ready: a message that has arrived is handled.
Delivery == \A c \in Client : WF_sessionVars(Deliver(c)) /\ WF_sessionVars(ClientReceives(c))

FairSessionSpec == SessionSpec /\ Delivery

-----------------------------------------------------------------------------
(* Refinement *)

\* Whatever users do, what happens at the server is a behaviour of ServerCore with the same
\* switches: so patient users never ask to enter a room while the server has them in one.
ServerSpec == Spec

-----------------------------------------------------------------------------
(* Safety *)

Quiet(c) == Running(c) /\ toServer[c] = << >> /\ toClient[c] = << >>

\* The records of the server agree while clients leave and vanish at any moment: nobody is inside a
\* room that is gone, the map and the lists say the same, no room stays behind empty; and with users
\* who wait for the answer to a create or join, a client is sent each message once.
ServerRecordsAgree ==
  /\ RoomOfClientExists /\ MembershipAgrees /\ NoEmptyRoom
  /\ SentOnce

\* Requests, refusals and answers may cross in any way: a client takes no other id for its own than
\* its own, and once nothing is under way, client and server agree on the room the client is in.
RoomAgreesWhenQuiet ==
  /\ SessionTypeOK
  /\ \A c \in Client :
       /\ clientId[c] \in {NoClient, c}
       /\ Quiet(c) => gameRoomId[c] = roomIdByClientId[c]

\* In the lobby, the roster and the slots a client shows are those of the room once nothing is
\* under way to it: no join, leave or slot change is missed or applied out of order.
LobbyAgreesWhenQuiet ==
  \A c \in Client : Quiet(c) /\ phase[c] = "lobby" =>
    LET room == gameRoomById[gameRoomId[c]] IN
      /\ gameRoomClients[c] = room.connectedClients
      /\ networkSlots[c] = View(c, room.playerSlots)

\* A client's copy of a board and the board of its owner.
Copies(d, i, c, j) ==
  /\ ~players[d][i].local /\ players[c][j].local
  /\ players[d][i].player = players[c][j].player

StartsWith(long, short) ==
  Len(short) <= Len(long) /\ \A k \in DOMAIN short : short[k] = long[k]

\* A board has one owner: no two clients steer the same player.
OneOwner ==
  \A c, d \in Client : \A i \in DOMAIN players[c], j \in DOMAIN players[d] :
    /\ players[c][i].local /\ players[d][j].local
    /\ players[c][i].player = players[d][j].player
    => c = d /\ i = j

\* A copy of a board never gets a change its one owner did not make, nor one twice, late or out of
\* order: its history is the beginning of the owner's, also when clients come, leave and restart.
\* (Who has left a game may restart what it has of it alone.)
CopyFollowsOwner ==
  /\ OneOwner
  /\ \A c, d \in Client : \A i \in DOMAIN players[d], j \in DOMAIN players[c] :
       phase[d] = "game" /\ Copies(d, i, c, j) => StartsWith(players[c][j].board, players[d][i].board)

\* Copies catch up: when nothing is under way between the two clients, and neither has left the
\* game, the copy is the board.
CopyCatchesUp ==
  \A c, d \in Client : \A i \in DOMAIN players[d], j \in DOMAIN players[c] :
    /\ Copies(d, i, c, j)
    /\ Quiet(c) /\ Quiet(d)
    /\ phase[c] = "game" /\ phase[d] = "game"
    => players[d][i].board = players[c][j].board

\* The players a client steers are those of its own slots, and no slot is left out.
PlayersMatchSlots ==
  \A c \in Client : phase[c] = "game" =>
    /\ Len(players[c]) = Cardinality({i \in SlotIndex : networkSlots[c][i] # "Open"})
    /\ \A i \in DOMAIN players[c] : players[c][i].local <=> players[c][i].client = c

-----------------------------------------------------------------------------
(* Liveness *)

\* A request to create a room is answered: the client gets inside, or loses its connection.
CreateIsAnswered ==
  \A c \in Client :
    (\E k \in DOMAIN toServer[c] : toServer[c][k].type = "create_game_room")
      ~> (isInsideRoom(c) \/ phase[c] = "lost")

\* A client that asks to leave gets out, from the lobby and from a game, whatever it asked before.
LeaveIsAnswered ==
  \A c \in Client :
    (\E k \in DOMAIN toServer[c] : toServer[c][k].type = "leave_game_room")
      ~> (phase[c] \in {"connect", "lost"})

\* A client that the server has taken into a room, because it created or joined it, learns that it is
\* inside.  (A join that is refused gets no answer at all.)
EntryIsAnswered ==
  \A c \in Client : roomIdByClientId[c] # NoRoom ~> (isInsideRoom(c) \/ phase[c] = "lost")

\* What the server grants is answered: requests to create, to join and to leave a room.
RequestsAreAnswered == CreateIsAnswered /\ EntryIsAnswered /\ LeaveIsAnswered
=============================================================================
