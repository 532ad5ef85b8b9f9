----------------------------- MODULE ServerCore -----------------------------
(***************************************************************************)
(* The game server (Network_Lib: ServerCore, TcpServer, and the GameRooms   *)
(* they own).  The server runs on one asio thread, and between two messages *)
(* nothing is awaited: a message is handled in one step, which hands it     *)
(* first to ServerCore and then to the room the client is in by then.       *)
(*                                                                         *)
(* The steps are also used by GameSession, where the messages come from     *)
(* real clients.  Here they come from any client, in any order, except that *)
(*   - RepeatedRequests says whether a client asks to create or join a room *)
(*     while it is inside one (it does when the answer to its first request *)
(*     is still under way: nothing in the user interface prevents it);      *)
(*   - KickRequests says whether clients send RemoveClient (the server      *)
(*     handles it and class Network offers it, the user interface does not);*)
(*   - RethrowAsSystemError says how a lost connection ends a session.      *)
(*     TcpClient::asyncRead catches the error as std::exception and throws  *)
(*     a sliced copy, so TcpServer::handleClientSession, which catches      *)
(*     std::system_error, never sees it: FALSE is the code.  TRUE is what   *)
(*     the handler does once the exception reaches it.                      *)
(***************************************************************************)
EXTENDS GameRoom, Sequences

CONSTANTS RepeatedRequests, KickRequests, RethrowAsSystemError

ASSUME SwitchAssumption ==
  {RepeatedRequests, KickRequests, RethrowAsSystemError} \subseteq BOOLEAN

VARIABLES
  roomIdByClientId,  \* the room each client is in, or NoRoom
  gameRoomById,      \* the rooms, NoRoom where there is none
  remoteByClientId,  \* the clients registered as connected
  sessions,          \* the clients whose session coroutine is running
  undefined,         \* the program has run into undefined behaviour
  sent               \* the messages the last step sent to each client

vars == <<roomIdByClientId, gameRoomById, remoteByClientId, sessions, undefined, sent>>

ServerTypeOK ==
  /\ roomIdByClientId \in [Client -> RoomId \cup {NoRoom}]
  /\ gameRoomById \in [RoomId -> Room \cup {NoRoom}]
  /\ remoteByClientId \in SUBSET Client
  /\ sessions \in SUBSET Client
  /\ undefined \in BOOLEAN
  /\ sent \in [Client -> Seq(ServerMessage)]

NoMessages == [c \in Client |-> << >>]

Init ==
  /\ roomIdByClientId = [c \in Client |-> NoRoom]
  /\ gameRoomById = [r \in RoomId |-> NoRoom]
  /\ remoteByClientId = {}
  /\ sessions = {}
  /\ undefined = FALSE
  /\ sent = NoMessages

-----------------------------------------------------------------------------
(* Sending *)

\* One copy of m for every entry of the room, so a client with two entries is sent m twice.
SendToAllClients(room, m) ==
  [c \in Client |-> IF c \in remoteByClientId
                      THEN [i \in 1 .. Cardinality(EntriesOf(room, c)) |-> m]
                      ELSE << >>]

SendToOtherClients(room, m, except) == [SendToAllClients(room, m) EXCEPT ![except] = << >>]

SendToClient(c, m) == [NoMessages EXCEPT ![c] = << m >>]

-----------------------------------------------------------------------------
(* Ids are generated at random and never repeat: an id is new when nothing holds it. *)

RoomExists(r) == gameRoomById[r] # NoRoom

FreshRoom(r) ==
  /\ ~RoomExists(r)
  /\ \A c \in Client : roomIdByClientId[c] # r

FreshPlayer(p) ==
  \A r \in RoomId : RoomExists(r) => \A i \in SlotIndex : gameRoomById[r].playerSlots[i].player # p

FreshClient(c) ==
  /\ c \notin remoteByClientId
  /\ roomIdByClientId[c] = NoRoom
  /\ \A r \in RoomId : RoomExists(r) =>
       /\ ~HasMember(gameRoomById[r], c)
       /\ \A i \in SlotIndex : gameRoomById[r].playerSlots[i].client # c

-----------------------------------------------------------------------------
(* Membership *)

Inside(c) == roomIdByClientId[c] # NoRoom

RoomOf(c) == gameRoomById[roomIdByClientId[c]]

\* c enters room r, which is in the state room, and everybody inside is told.
EnterRoom(c, r, room) ==
  /\ \E k \in room.connectionIds :
       LET joined == AddClient(room, c, k) IN
         /\ gameRoomById' = [gameRoomById EXCEPT ![r] = joined]
         /\ sent' = SendToAllClients(joined,
                      GameRoomJoined(r, c, joined.connectedClients, joined.playerSlots))
  /\ roomIdByClientId' = [roomIdByClientId EXCEPT ![c] = r]
  /\ UNCHANGED <<remoteByClientId, sessions, undefined>>

\* connectionIds_.front() of an empty list: whatever follows, nothing is claimed of it.
FrontOfEmptyList(room) ==
  /\ room.connectionIds = {}
  /\ undefined' = TRUE
  /\ sent' = NoMessages
  /\ UNCHANGED <<roomIdByClientId, gameRoomById, remoteByClientId, sessions>>

Ignore ==
  /\ sent' = NoMessages
  /\ UNCHANGED <<roomIdByClientId, gameRoomById, remoteByClientId, sessions, undefined>>

\* ServerCore refuses a create or join of a client inside a room with a warning, and still hands
\* the message to that room, whose handler lets the client in once more.
EnterAgain(c) ==
  /\ Inside(c)
  /\ \/ EnterRoom(c, roomIdByClientId[c], RoomOf(c))
     \/ FrontOfEmptyList(RoomOf(c))

HandleCreateGameRoom(c, isPublic) ==
  \/ /\ ~Inside(c)
     /\ \E r \in RoomId : FreshRoom(r) /\ EnterRoom(c, r, NewRoom(isPublic))
  \/ EnterAgain(c)

\* Mutant of HandleJoinGameRoom: nothing looks whether the client is in another room.
HandleJoinFromAnywhere(c, r) ==
  \/ /\ RoomExists(r)
     /\ ~IsFull(gameRoomById[r])
     /\ EnterRoom(c, r, gameRoomById[r])
  \/ /\ RoomExists(r) => IsFull(gameRoomById[r])
     /\ Ignore

HandleJoinGameRoom(c, r) ==
  \/ /\ ~Inside(c)
     /\ RoomExists(r)
     /\ ~IsFull(gameRoomById[r])
     /\ \/ EnterRoom(c, r, gameRoomById[r])
        \/ FrontOfEmptyList(gameRoomById[r])
  \/ /\ ~Inside(c)
     /\ RoomExists(r) => IsFull(gameRoomById[r])
     /\ Ignore
  \/ EnterAgain(c)

\* The room is left and closed when nobody is left.  Those who were inside are told, c too.
HandleLeaveGameRoom(c) ==
  \/ /\ Inside(c)
     /\ LET r    == roomIdByClientId[c]
            left == Disconnect(RoomOf(c), c)
        IN /\ gameRoomById' = [gameRoomById EXCEPT ![r] = IF IsEmpty(left) THEN NoRoom ELSE left]
           /\ sent' = SendToAllClients(RoomOf(c), GameRoomLeft(r, c, left.connectedClients))
     /\ roomIdByClientId' = [roomIdByClientId EXCEPT ![c] = NoRoom]
     /\ UNCHANGED <<remoteByClientId, sessions, undefined>>
  \/ ~Inside(c) /\ Ignore

PublicRooms == {r \in RoomId : RoomExists(r) /\ gameRoomById[r].isPublic}

RoomList ==
  GameRoomList({[room |-> r, players |-> Cardinality(gameRoomById[r].connectedClients)] : r \in PublicRooms})

HandleRequestGameRoomList(c) ==
  /\ sent' = SendToClient(c, RoomList)
  /\ UNCHANGED <<roomIdByClientId, gameRoomById, remoteByClientId, sessions, undefined>>

-----------------------------------------------------------------------------
(* Messages for the room a client is in *)

\* The room becomes room, and the messages out are sent.
UpdateRoom(c, room, out) ==
  /\ gameRoomById' = [gameRoomById EXCEPT ![roomIdByClientId[c]] = room]
  /\ sent' = out
  /\ UNCHANGED <<roomIdByClientId, remoteByClientId, sessions, undefined>>

\* The room stays as it is, and the messages out are sent.
Relay(out) ==
  /\ sent' = out
  /\ UNCHANGED <<roomIdByClientId, gameRoomById, remoteByClientId, sessions, undefined>>

\* The slot becomes slot, and everybody is told all slots.
UpdateSlot(c, i, slot) ==
  LET room == SetSlot(RoomOf(c), i, slot)
  IN  UpdateRoom(c, room, SendToAllClients(room, GameLooby(room.playerSlots)))

\* Anything but OPEN_SLOT, a closed slot too, makes the slot a player's.  A slot of somebody
\* else stays as it is, and the slots are sent nevertheless.
HandlePlayerSlot(c, i, request) ==
  \/ /\ i \in SlotIndex
     /\ SlotBelongsToClient(RoomOf(c), c, i)
     /\ request # "OPEN_SLOT"
     /\ \E p \in PlayerId : FreshPlayer(p) /\ UpdateSlot(c, i, RemoteSlot(c, p))
  \/ /\ i \in SlotIndex
     /\ SlotBelongsToClient(RoomOf(c), c, i)
     /\ request = "OPEN_SLOT"
     /\ UpdateSlot(c, i, OpenSlot)
  \/ /\ i \in SlotIndex
     /\ ~SlotBelongsToClient(RoomOf(c), c, i)
     /\ Relay(SendToAllClients(RoomOf(c), GameLooby(RoomOf(c).playerSlots)))
  \/ i \notin SlotIndex /\ Ignore

\* Mutant of HandleGameCommand: the client that pauses is not told.
HandleGameCommandForOthers(c, pause) ==
  UpdateRoom(c, SetPause(RoomOf(c), pause), SendToOtherClients(RoomOf(c), Paused(pause), c))

HandleGameCommand(c, pause) ==
  UpdateRoom(c, SetPause(RoomOf(c), pause), SendToAllClients(RoomOf(c), Paused(pause)))

HandleStartGame(c) ==
  Relay(SendToAllClients(RoomOf(c), CreateGame(RoomOf(c).playerSlots)))

\* handleBoardMove, handleBoardNextBlock and handleBoardExternalSquares.
HandleBoard(c, m) == Relay(SendToOtherClients(RoomOf(c), m, c))

HandleRequestGameRestart(c) ==
  \E b \in Blocks : Relay(SendToAllClients(RoomOf(c), AskRestart(b)))

HandleGameRestart(c, b) == Relay(SendToOtherClients(RoomOf(c), Restarted(c, b), c))

\* Takes the client out of the room but not out of roomIdByClientId.
HandleRemoveClient(c, d) ==
  \/ \E e \in EntriesOf(RoomOf(c), d) :
       LET room == RemoveEntry(RoomOf(c), e)
       IN  UpdateRoom(c, room, SendToAllClients(room, ClientRemoved(d)))
  \/ EntriesOf(RoomOf(c), d) = {} /\ Ignore

-----------------------------------------------------------------------------
(* Receiving *)

\* What ServerCore, and then the room c is in, do with m.
Handle(c, m) ==
  \/ m.type = "create_game_room" /\ HandleCreateGameRoom(c, m.isPublic)
  \/ m.type = "join_game_room" /\ HandleJoinGameRoom(c, m.room)
  \/ m.type = "leave_game_room" /\ HandleLeaveGameRoom(c)
  \/ m.type = "request_game_room_list" /\ HandleRequestGameRoomList(c)
  \/ /\ Inside(c)
     /\ \/ m.type = "player_slot" /\ HandlePlayerSlot(c, m.index, m.request)
        \/ m.type = "game_command" /\ HandleGameCommand(c, m.pause)
        \/ m.type = "start_game" /\ HandleStartGame(c)
        \/ m.type \in BoardKind /\ HandleBoard(c, m)
        \/ m.type = "request_game_restart" /\ HandleRequestGameRestart(c)
        \/ m.type = "game_restart" /\ HandleGameRestart(c, m.blocks)
        \/ m.type = "remove_client" /\ HandleRemoveClient(c, m.client)
  \/ /\ ~Inside(c)
     /\ m.type \notin {"create_game_room", "join_game_room", "leave_game_room", "request_game_room_list"}
     /\ Ignore

RoomGone(c) == Inside(c) /\ ~RoomExists(roomIdByClientId[c])

\* gameRoomById_.at() throws when the room of c is gone: the session of c ends.
OutOfRange(c, m) ==
  /\ sessions' = sessions \ {c}
  /\ sent' = IF m.type = "request_game_room_list" THEN SendToClient(c, RoomList) ELSE NoMessages
  /\ UNCHANGED <<roomIdByClientId, gameRoomById, remoteByClientId, undefined>>

ReceivedFromRemote(c, m) ==
  /\ ~undefined
  /\ c \in sessions
  /\ \/ ~RoomGone(c) /\ Handle(c, m)
     \/ RoomGone(c) /\ OutOfRange(c, m)

-----------------------------------------------------------------------------
(* Sessions *)

\* A connection is accepted.
SpawnCoroutine(c) ==
  /\ ~undefined
  /\ FreshClient(c)
  /\ remoteByClientId' = remoteByClientId \cup {c}
  /\ sessions' = sessions \cup {c}
  /\ sent' = NoMessages
  /\ UNCHANGED <<roomIdByClientId, gameRoomById, undefined>>

\* A lost connection ends the session with an exception that handleClientSession does not
\* catch, or does not take for an end of file: the client stays registered and in its room.
SessionFails(c) ==
  /\ ~undefined
  /\ c \in sessions
  /\ sessions' = sessions \ {c}
  /\ sent' = NoMessages
  /\ UNCHANGED <<roomIdByClientId, gameRoomById, remoteByClientId, undefined>>

\* The last client of a room takes the room along.
CloseRoom(c) ==
  /\ Cardinality(RoomOf(c).connectedClients) < 2
  /\ gameRoomById' = [gameRoomById EXCEPT ![roomIdByClientId[c]] = NoRoom]
  /\ sent' = NoMessages

\* Mutant of HandleClientDisconnected: the last client is taken out of the room, and the room stays.
HandleLastDisconnected(c) ==
  \E e \in EntriesOf(RoomOf(c), c) :
    LET room == RemoveEntry(RoomOf(c), e) IN
      /\ gameRoomById' = [gameRoomById EXCEPT ![roomIdByClientId[c]] = room]
      /\ sent' = SendToAllClients(room, ClientRemoved(c))

\* One entry of the client is removed, and those still inside are told.
HandleClientDisconnected(c) ==
  /\ Cardinality(RoomOf(c).connectedClients) >= 2
  /\ \/ \E e \in EntriesOf(RoomOf(c), c) :
          LET room == RemoveEntry(RoomOf(c), e) IN
            /\ gameRoomById' = [gameRoomById EXCEPT ![roomIdByClientId[c]] = room]
            /\ sent' = SendToAllClients(room, ClientRemoved(c))
     \/ /\ EntriesOf(RoomOf(c), c) = {}
        /\ sent' = NoMessages
        /\ UNCHANGED gameRoomById

\* The same with the exception caught as an end of file.
SessionEnds(c) ==
  /\ RethrowAsSystemError
  /\ ~undefined
  /\ c \in sessions
  /\ \/ /\ Inside(c) /\ ~RoomGone(c)
        /\ CloseRoom(c) \/ HandleClientDisconnected(c)
        /\ roomIdByClientId' = [roomIdByClientId EXCEPT ![c] = NoRoom]
     \/ /\ ~Inside(c) \/ RoomGone(c)
        /\ sent' = NoMessages
        /\ UNCHANGED <<roomIdByClientId, gameRoomById>>
  /\ remoteByClientId' = remoteByClientId \ {c}
  /\ sessions' = sessions \ {c}
  /\ UNCHANGED undefined

-----------------------------------------------------------------------------
(* The server with clients that send any message at any time *)

MaySend(c, m) ==
  /\ m.type \in {"create_game_room", "join_game_room"} => RepeatedRequests \/ ~Inside(c)
  /\ m.type = "remove_client" => KickRequests

Receive(c) == \E m \in ClientMessage : MaySend(c, m) /\ ReceivedFromRemote(c, m)

Next ==
  \E c \in Client :
    \/ SpawnCoroutine(c)
    \/ SessionFails(c)
    \/ SessionEnds(c)
    \/ Receive(c)

Spec == Init /\ [][Next]_vars

-----------------------------------------------------------------------------
(* Refinement *)

\* The code, with its untyped exception and without kicks, keeps the promises of RoomMembership.
Membership == INSTANCE RoomMembership WITH room <- roomIdByClientId

MembershipSpec == Membership!Spec

-----------------------------------------------------------------------------
(* Safety *)

\* A client is recorded as inside a room only while that room exists: gameRoomById_.at() in
\* receivedFromRemote and handleLeaveGameRoom never throws.
RoomOfClientExists ==
  \A c \in Client : Inside(c) => RoomExists(roomIdByClientId[c])

\* The two records of who is inside, roomIdByClientId_ of the server and connectedClients_ of the
\* rooms, agree: so a client is in one room at most.
MembershipAgrees ==
  \A c \in Client, r \in RoomId :
    roomIdByClientId[c] = r <=> RoomExists(r) /\ HasMember(gameRoomById[r], c)

\* A room is closed when the last client has left it: none stays behind empty.
NoEmptyRoom == \A r \in RoomId : RoomExists(r) => gameRoomById[r].connectedClients # {}

\* No connection id of a room is held by two entries, or held and free at once.
ConnectionIdsUnique ==
  \A r \in RoomId : RoomExists(r) =>
    /\ \A e \in gameRoomById[r].connectedClients : e.conn \notin gameRoomById[r].connectionIds
    /\ \A e, f \in gameRoomById[r].connectedClients : e.conn = f.conn => e = f

\* Every connection id of a room is held or free: ids are not lost however often clients come and go.
ConnectionIdsConserved ==
  \A r \in RoomId : RoomExists(r) =>
    ConnectionId = gameRoomById[r].connectionIds \cup {e.conn : e \in gameRoomById[r].connectedClients}

\* Without repeated requests a client has one entry in its room, and is sent each message once.
SentOnce == \A c \in Client : Len(sent[c]) <= 1

\* A slot taken by a player changes only by a message of the client that took it: whatever others
\* ask, nobody else's player is replaced or thrown out while the room is open.
OwnedSlotsAreSafe ==
  [][\A r \in RoomId, i \in SlotIndex :
       /\ RoomExists(r) /\ gameRoomById'[r] # NoRoom
       /\ gameRoomById[r].playerSlots[i] # OpenSlot
       /\ gameRoomById'[r].playerSlots[i] # gameRoomById[r].playerSlots[i]
       => Receive(gameRoomById[r].playerSlots[i].client)]_vars

-----------------------------------------------------------------------------
(* What the code says of itself and does not keep *)

\* "Client with id {} already in a GameRoom": the request of a client that is inside is refused,
\* so no client is listed twice.
OneEntryPerClient ==
  \A r \in RoomId : RoomExists(r) =>
    \A e, f \in gameRoomById[r].connectedClients : e.client = f.client => e = f
=============================================================================
