------------------------------ MODULE Protocol ------------------------------
(***************************************************************************)
(* The messages exchanged by the game client (App_Lib, class Network) and   *)
(* the game server (Network_Lib, classes ServerCore and GameRoom), as they  *)
(* are declared in Protocol/*.proto, and the data they carry.               *)
(*                                                                         *)
(* Identifiers (ClientId, GameRoomId, PlayerId) are UUIDs in the code: they *)
(* are only ever compared, so here they are members of small sets.  Names,  *)
(* game rules, board sizes and the human/AI distinction are left out: they  *)
(* are copied and never decide a branch of this part of the program.        *)
(***************************************************************************)
EXTENDS Integers, FiniteSets

CONSTANTS
  Client,         \* the ClientIds the server hands out, one per connection
  RoomId,         \* the GameRoomIds
  PlayerId,       \* the PlayerIds, one per registration of a player slot
  ConnectionId,   \* the connection ids of a room (0..6 in the code)
  MaxClients,     \* GameRoom::isFull (4 in the code)
  NumSlots,       \* size of GameRoom::playerSlots_ (4 in the code)
  BoardValue,     \* the payload of a board message: a move, a block, some rows
  Blocks,         \* a <<current, next>> pair of block types
  NoClient, NoRoom, NoPlayer  \* the empty ids

ASSUME NoIdAssumption ==
  /\ NoClient \notin Client
  /\ NoRoom \notin RoomId
  /\ NoPlayer \notin PlayerId

ASSUME SizeAssumption ==
  /\ IsFiniteSet(Client)
  /\ IsFiniteSet(ConnectionId)
  /\ MaxClients \in Nat \ {0}
  /\ Cardinality(ConnectionId) >= MaxClients
  /\ NumSlots \in Nat

SlotIndex == 0 .. NumSlots - 1

(***************************************************************************)
(* Data carried by messages                                                 *)
(***************************************************************************)

\* An entry of GameRoom::connectedClients_ (struct GameRoomClient).
Member == [client : Client, conn : ConnectionId]

\* A player slot of a room: open, or taken by a player of some client.
OpenSlot == [type |-> "Open", client |-> NoClient, player |-> NoPlayer]

\* Mutant of RemoteSlot: the id of the new player is not stored.
RemoteSlotWithoutId(c, p) == [type |-> "Remote", client |-> c, player |-> NoPlayer]

RemoteSlot(c, p) == [type |-> "Remote", client |-> c, player |-> p]
Slot == {OpenSlot} \cup [type : {"Remote"}, client : Client, player : PlayerId]

Slots == [SlotIndex -> Slot]

\* What a client asks for a slot; game::Human and game::Ai are both "PLAYER".
SlotRequest == {"PLAYER", "OPEN_SLOT", "CLOSED_SLOT"}

\* The three messages that keep the copies of a board in step.
BoardKind == {"board_move", "next_block", "board_external_squares"}

(***************************************************************************)
(* From client to server (tp_c2s::Wrapper)                                  *)
(***************************************************************************)
CreateGameRoom(isPublic) == [type |-> "create_game_room", isPublic |-> isPublic]
JoinGameRoom(r)          == [type |-> "join_game_room", room |-> r]
LeaveGameRoom            == [type |-> "leave_game_room"]
RequestGameRoomList      == [type |-> "request_game_room_list"]
PlayerSlot(i, request)   == [type |-> "player_slot", index |-> i, request |-> request]
StartGame                == [type |-> "start_game"]
GameCommand(pause)       == [type |-> "game_command", pause |-> pause]
Board(kind, p, v)        == [type |-> kind, player |-> p, value |-> v]
RequestGameRestart       == [type |-> "request_game_restart"]
GameRestart(b)           == [type |-> "game_restart", blocks |-> b]
RemoveClient(c)          == [type |-> "remove_client", client |-> c]

ClientMessage ==
       [type : {"create_game_room"}, isPublic : BOOLEAN]
  \cup [type : {"join_game_room"}, room : RoomId]
  \cup [type : {"leave_game_room", "request_game_room_list", "start_game", "request_game_restart"}]
  \cup [type : {"player_slot"}, index : SlotIndex \cup {NumSlots}, request : SlotRequest]
  \cup [type : {"game_command"}, pause : BOOLEAN]
  \cup [type : BoardKind, player : PlayerId, value : BoardValue]
  \cup [type : {"game_restart"}, blocks : Blocks]
  \cup [type : {"remove_client"}, client : Client]

(***************************************************************************)
(* From server to client (tp_s2c::Wrapper).  Connections,                   *)
(* ClientDisconnected and FailedToConnect are declared but never sent.      *)
(***************************************************************************)
GameRoomJoined(r, c, members, slots) ==
  [type |-> "game_room_joined", room |-> r, client |-> c, clients |-> members, slots |-> slots]
GameLooby(slots) == [type |-> "game_looby", slots |-> slots]
GameRoomLeft(r, c, members) ==
  [type |-> "leave_game_room", room |-> r, client |-> c, clients |-> members]
\* The players of the game are the Remote slots, in the order of the slots.
CreateGame(slots) == [type |-> "create_game", slots |-> slots]
Paused(pause) == [type |-> "game_command", pause |-> pause]
AskRestart(b) == [type |-> "request_game_restart", blocks |-> b]
Restarted(c, b) == [type |-> "game_restart", client |-> c, blocks |-> b]
ClientRemoved(c) == [type |-> "remove_client", client |-> c]
GameRoomList(rooms) == [type |-> "game_room_list", rooms |-> rooms]

ServerMessage ==
       [type : {"game_room_joined"}, room : RoomId, client : Client,
        clients : SUBSET Member, slots : Slots]
  \cup [type : {"game_looby", "create_game"}, slots : Slots]
  \cup [type : {"leave_game_room"}, room : RoomId, client : Client, clients : SUBSET Member]
  \cup [type : {"game_command"}, pause : BOOLEAN]
  \cup [type : BoardKind, player : PlayerId, value : BoardValue]
  \cup [type : {"request_game_restart"}, blocks : Blocks]
  \cup [type : {"game_restart"}, client : Client, blocks : Blocks]
  \cup [type : {"remove_client"}, client : Client]
  \cup [type : {"game_room_list"}, rooms : SUBSET [room : RoomId, players : Nat]]
=============================================================================
