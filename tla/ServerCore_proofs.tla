-------------------------- MODULE ServerCore_proofs --------------------------
(***************************************************************************)
(* Proofs about ServerCore, for every number of clients, rooms, slots and   *)
(* connection ids.                                                          *)
(***************************************************************************)
EXTENDS ServerCore, NumbersAndQueues, FiniteSetTheorems, FunctionTheorems, SequenceTheorems, TLAPS

-----------------------------------------------------------------------------
(* Finiteness *)

\* A room has finitely many possible members.
LEMMA MemberFinite == IsFiniteSet(Member)
<1> DEFINE f == [p \in Client \X ConnectionId |-> [client |-> p[1], conn |-> p[2]]]
<1>1. IsFiniteSet(Client \X ConnectionId)
  BY FS_Product, SizeAssumption
<1>2. f \in Surjection(Client \X ConnectionId, Member)
  <2>1. f \in [Client \X ConnectionId -> Member]
    BY DEF Member
  <2>2. ASSUME NEW e \in Member PROVE \E p \in Client \X ConnectionId : f[p] = e
    <3>1. <<e.client, e.conn>> \in Client \X ConnectionId
      BY DEF Member
    <3>2. f[<<e.client, e.conn>>] = e
      BY <3>1 DEF Member
    <3> QED BY <3>1, <3>2
  <2> QED BY <2>1, <2>2 DEF Surjection
<1> QED BY <1>1, <1>2, FS_Surjection

\* So every set of entries of a room is finite, and can be counted.
LEMMA EntriesFinite ==
  ASSUME NEW S \in SUBSET Member
  PROVE  IsFiniteSet(S) /\ Cardinality(S) \in Nat
BY MemberFinite, FS_Subset, FS_CardinalityType

-----------------------------------------------------------------------------
(* Types of what is sent *)

LEMMA SendToAllClientsType ==
  ASSUME NEW room \in Room, NEW m \in ServerMessage
  PROVE  SendToAllClients(room, m) \in [Client -> Seq(ServerMessage)]
<1>1. \A c \in Client : Cardinality(EntriesOf(room, c)) \in Nat
  BY EntriesFinite DEF EntriesOf, Room
<1>2. \A n \in Nat : [i \in 1 .. n |-> m] \in Seq(ServerMessage)
  BY SeqDef
<1>3. << >> \in Seq(ServerMessage)
  OBVIOUS
<1> QED BY <1>1, <1>2, <1>3 DEF SendToAllClients

LEMMA SendToOtherClientsType ==
  ASSUME NEW room \in Room, NEW m \in ServerMessage, NEW c
  PROVE  SendToOtherClients(room, m, c) \in [Client -> Seq(ServerMessage)]
<1>1. SendToAllClients(room, m) \in [Client -> Seq(ServerMessage)]
  BY SendToAllClientsType
<1>2. << >> \in Seq(ServerMessage)
  OBVIOUS
<1>3. \A f \in [Client -> Seq(ServerMessage)] : [f EXCEPT ![c] = << >>] \in [Client -> Seq(ServerMessage)]
  BY <1>2
<1> QED BY <1>1, <1>3 DEF SendToOtherClients

LEMMA NoMessagesType == NoMessages \in [Client -> Seq(ServerMessage)]
BY DEF NoMessages

LEMMA SendToClientType ==
  ASSUME NEW m \in ServerMessage, NEW c
  PROVE  SendToClient(c, m) \in [Client -> Seq(ServerMessage)]
<1>1. << m >> \in Seq(ServerMessage)
  OBVIOUS
<1> QED BY <1>1, NoMessagesType DEF SendToClient

\* The list of rooms counts the clients of each room.
LEMMA RoomListType ==
  ASSUME ServerTypeOK
  PROVE  RoomList \in ServerMessage
<1>1. \A r \in PublicRooms : gameRoomById[r] \in Room
  BY DEF PublicRooms, RoomExists, ServerTypeOK
<1>2. \A r \in PublicRooms : Cardinality(gameRoomById[r].connectedClients) \in Nat
  BY <1>1, EntriesFinite DEF Room
<1>3. {[room |-> r, players |-> Cardinality(gameRoomById[r].connectedClients)] : r \in PublicRooms}
        \in SUBSET [room : RoomId, players : Nat]
  BY <1>2 DEF PublicRooms
<1> QED BY <1>3 DEF RoomList, GameRoomList, ServerMessage

-----------------------------------------------------------------------------
(* What the operations make of a room *)

LEMMA RoomOperationsType ==
  ASSUME NEW room \in Room, NEW c \in Client
  PROVE  /\ \A k \in room.connectionIds : AddClient(room, c, k) \in Room
         /\ Disconnect(room, c) \in Room
         /\ \A e : RemoveEntry(room, e) \in Room
         /\ \A i \in SlotIndex, slot \in Slot : SetSlot(room, i, slot) \in Room
         /\ \A pause \in BOOLEAN : SetPause(room, pause) \in Room
<1>1. ASSUME NEW k \in room.connectionIds PROVE AddClient(room, c, k) \in Room
  <2>1. [client |-> c, conn |-> k] \in Member
    BY DEF Room, Member
  <2>2. room.connectedClients \cup {[client |-> c, conn |-> k]} \in SUBSET Member
    BY <2>1 DEF Room
  <2>3. room.connectionIds \ {k} \in SUBSET ConnectionId
    BY DEF Room
  <2> QED BY <2>2, <2>3 DEF Room, AddClient
<1>2. Disconnect(room, c) \in Room
  BY DEF Room, Member, Disconnect, EntriesOf
<1>3. \A e : RemoveEntry(room, e) \in Room
  BY DEF Room, RemoveEntry
<1>4. \A i \in SlotIndex, slot \in Slot : SetSlot(room, i, slot) \in Room
  BY DEF Room, SetSlot, Slots
<1>5. \A pause \in BOOLEAN : SetPause(room, pause) \in Room
  BY DEF Room, SetPause
<1> QED BY <1>1, <1>2, <1>3, <1>4, <1>5

LEMMA NewRoomType ==
  ASSUME NEW isPublic \in BOOLEAN
  PROVE  NewRoom(isPublic) \in Room
BY DEF NewRoom, Room, Slots, Slot

LEMMA RoomOfType ==
  ASSUME ServerTypeOK, NEW c \in Client, Inside(c), ~RoomGone(c)
  PROVE  roomIdByClientId[c] \in RoomId /\ RoomOf(c) \in Room
BY DEF ServerTypeOK, Inside, RoomGone, RoomExists, RoomOf

-----------------------------------------------------------------------------
(* Type correctness *)

LEMMA EnterRoomType ==
  ASSUME ServerTypeOK, NEW c \in Client, NEW r \in RoomId, NEW room \in Room, EnterRoom(c, r, room)
  PROVE  ServerTypeOK'
<1>1. PICK k \in room.connectionIds :
        /\ gameRoomById' = [gameRoomById EXCEPT ![r] = AddClient(room, c, k)]
        /\ sent' = SendToAllClients(AddClient(room, c, k),
              GameRoomJoined(r, c, AddClient(room, c, k).connectedClients, AddClient(room, c, k).playerSlots))
  BY DEF EnterRoom
<1> DEFINE joined == AddClient(room, c, k)
<1>2. joined \in Room
  BY RoomOperationsType
<1>3. GameRoomJoined(r, c, joined.connectedClients, joined.playerSlots) \in ServerMessage
  <2> HIDE DEF joined
  <2> QED BY <1>2 DEF GameRoomJoined, ServerMessage, Room
<1>4. sent' \in [Client -> Seq(ServerMessage)]
  BY <1>1, <1>2, <1>3, SendToAllClientsType
<1>5. gameRoomById' \in [RoomId -> Room \cup {NoRoom}]
  BY <1>1, <1>2 DEF ServerTypeOK
<1>6. roomIdByClientId' \in [Client -> RoomId \cup {NoRoom}]
  BY DEF EnterRoom, ServerTypeOK
<1> QED BY <1>4, <1>5, <1>6 DEF EnterRoom, ServerTypeOK

LEMMA UpdateRoomType ==
  ASSUME ServerTypeOK, NEW c \in Client, NEW room \in Room,
         NEW out \in [Client -> Seq(ServerMessage)], UpdateRoom(c, room, out)
  PROVE  ServerTypeOK'
BY DEF ServerTypeOK, UpdateRoom

LEMMA RelayType ==
  ASSUME ServerTypeOK, NEW out \in [Client -> Seq(ServerMessage)], Relay(out)
  PROVE  ServerTypeOK'
BY DEF ServerTypeOK, Relay

LEMMA IgnoreType == ServerTypeOK /\ Ignore => ServerTypeOK'
BY NoMessagesType DEF ServerTypeOK, Ignore

LEMMA FrontOfEmptyListType ==
  ASSUME ServerTypeOK, NEW room, FrontOfEmptyList(room)
  PROVE  ServerTypeOK'
BY NoMessagesType DEF ServerTypeOK, FrontOfEmptyList

LEMMA HandleTypes ==
  ASSUME ServerTypeOK, NEW c \in Client, NEW m \in ClientMessage, ~RoomGone(c), Handle(c, m)
  PROVE  ServerTypeOK'
<1>enter. ASSUME Inside(c), EnterAgain(c) PROVE ServerTypeOK'
  BY <1>enter, RoomOfType, EnterRoomType, FrontOfEmptyListType DEF EnterAgain
<1>1. CASE m.type = "create_game_room" /\ HandleCreateGameRoom(c, m.isPublic)
  <2>1. CASE \E r \in RoomId : FreshRoom(r) /\ EnterRoom(c, r, NewRoom(m.isPublic))
    <3>1. m.isPublic \in BOOLEAN
      BY <1>1 DEF ClientMessage, BoardKind
    <3> QED BY <2>1, <3>1, NewRoomType, EnterRoomType
  <2>2. CASE EnterAgain(c)
    BY <2>2, <1>enter DEF EnterAgain
  <2> QED BY <1>1, <2>1, <2>2 DEF HandleCreateGameRoom
<1>2. CASE m.type = "join_game_room" /\ HandleJoinGameRoom(c, m.room)
  <2>1. m.room \in RoomId
    BY <1>2 DEF ClientMessage, BoardKind
  <2>2. CASE RoomExists(m.room) /\ EnterRoom(c, m.room, gameRoomById[m.room])
    BY <2>1, <2>2, EnterRoomType DEF RoomExists, ServerTypeOK
  <2>3. CASE EnterAgain(c)
    BY <2>3, <1>enter DEF EnterAgain
  <2> QED BY <1>2, <2>2, <2>3, IgnoreType, FrontOfEmptyListType DEF HandleJoinGameRoom
<1>3. CASE m.type = "leave_game_room" /\ HandleLeaveGameRoom(c)
  <2>1. CASE ~Inside(c) /\ Ignore
    BY <2>1, IgnoreType
  <2>2. CASE Inside(c)
    <3> DEFINE r == roomIdByClientId[c]
               room == RoomOf(c)
               gone == Disconnect(room, c)
    <3>1. r \in RoomId /\ room \in Room /\ gone \in Room
      BY <2>2, RoomOfType, RoomOperationsType
    <3>2. GameRoomLeft(r, c, gone.connectedClients) \in ServerMessage
      <4> HIDE DEF gone, r
      <4> QED BY <3>1 DEF GameRoomLeft, ServerMessage, Room
    <3>3. sent' \in [Client -> Seq(ServerMessage)]
      BY <1>3, <2>2, <3>1, <3>2, SendToAllClientsType DEF HandleLeaveGameRoom
    <3>4. gameRoomById' \in [RoomId -> Room \cup {NoRoom}]
      BY <1>3, <2>2, <3>1 DEF HandleLeaveGameRoom, ServerTypeOK
    <3>5. /\ roomIdByClientId' \in [Client -> RoomId \cup {NoRoom}]
          /\ UNCHANGED <<remoteByClientId, sessions, undefined>>
      BY <1>3, <2>2 DEF HandleLeaveGameRoom, ServerTypeOK
    <3> HIDE DEF r, room, gone
    <3> QED BY <3>3, <3>4, <3>5 DEF ServerTypeOK
  <2> QED BY <1>3, <2>1, <2>2 DEF HandleLeaveGameRoom
<1>4. CASE m.type = "request_game_room_list" /\ HandleRequestGameRoomList(c)
  BY <1>4, RoomListType, SendToClientType DEF HandleRequestGameRoomList, ServerTypeOK
<1>5. CASE ~Inside(c) /\ Ignore
  BY <1>5, IgnoreType
<1>6. ASSUME Inside(c),
             \/ m.type = "player_slot" /\ HandlePlayerSlot(c, m.index, m.request)
             \/ m.type = "game_command" /\ HandleGameCommand(c, m.pause)
             \/ m.type = "start_game" /\ HandleStartGame(c)
             \/ m.type \in BoardKind /\ HandleBoard(c, m)
             \/ m.type = "request_game_restart" /\ HandleRequestGameRestart(c)
             \/ m.type = "game_restart" /\ HandleGameRestart(c, m.blocks)
             \/ m.type = "remove_client" /\ HandleRemoveClient(c, m.client)
      PROVE  ServerTypeOK'
  <2> DEFINE room == RoomOf(c)
  <2>0. room \in Room
    BY <1>6, RoomOfType
  <2>slots. \A some \in Room : /\ GameLooby(some.playerSlots) \in ServerMessage
                            /\ CreateGame(some.playerSlots) \in ServerMessage
    BY DEF GameLooby, CreateGame, ServerMessage, Room
  <2> HIDE DEF room
  <2>1. CASE m.type = "player_slot" /\ HandlePlayerSlot(c, m.index, m.request)
    <3>1. ASSUME NEW slot \in Slot, m.index \in SlotIndex, UpdateSlot(c, m.index, slot) PROVE ServerTypeOK'
      <4>1. SetSlot(room, m.index, slot) \in Room
        BY <2>0, <3>1, RoomOperationsType
      <4>2. SendToAllClients(SetSlot(room, m.index, slot), GameLooby(SetSlot(room, m.index, slot).playerSlots))
              \in [Client -> Seq(ServerMessage)]
        BY <4>1, <2>slots, SendToAllClientsType
      <4> QED BY <3>1, <4>1, <4>2, UpdateRoomType DEF UpdateSlot, room
    <3>2. /\ OpenSlot \in Slot
          /\ \A p \in PlayerId : RemoteSlot(c, p) \in Slot
      BY DEF Slot, RemoteSlot
    <3>3. CASE Relay(SendToAllClients(room, GameLooby(room.playerSlots)))
      BY <2>0, <2>slots, <3>3, SendToAllClientsType, RelayType
    <3> QED BY <2>1, <3>1, <3>2, <3>3, IgnoreType DEF HandlePlayerSlot, room
  <2>2. CASE m.type = "game_command" /\ HandleGameCommand(c, m.pause)
    <3>1. m.pause \in BOOLEAN
      BY <2>2 DEF ClientMessage, BoardKind
    <3>2. SetPause(room, m.pause) \in Room
      BY <2>0, <3>1, RoomOperationsType
    <3>3. Paused(m.pause) \in ServerMessage
      BY <3>1 DEF Paused, ServerMessage
    <3> QED BY <2>0, <2>2, <3>2, <3>3, SendToAllClientsType, UpdateRoomType DEF HandleGameCommand, room
  <2>3. CASE m.type = "start_game" /\ HandleStartGame(c)
    BY <2>0, <2>slots, <2>3, SendToAllClientsType, RelayType DEF HandleStartGame, room
  <2>4. CASE m.type \in BoardKind /\ HandleBoard(c, m)
    <3>1. m \in ServerMessage
      BY <2>4 DEF ClientMessage, ServerMessage, BoardKind
    <3> QED BY <2>0, <2>4, <3>1, SendToOtherClientsType, RelayType DEF HandleBoard, room
  <2>5. CASE m.type = "request_game_restart" /\ HandleRequestGameRestart(c)
    <3>1. \A b \in Blocks : AskRestart(b) \in ServerMessage
      BY DEF AskRestart, ServerMessage
    <3> QED BY <2>0, <2>5, <3>1, SendToAllClientsType, RelayType DEF HandleRequestGameRestart, room
  <2>6. CASE m.type = "game_restart" /\ HandleGameRestart(c, m.blocks)
    <3>1. m.blocks \in Blocks
      BY <2>6 DEF ClientMessage, BoardKind
    <3>2. Restarted(c, m.blocks) \in ServerMessage
      BY <3>1 DEF Restarted, ServerMessage
    <3> QED BY <2>0, <2>6, <3>2, SendToOtherClientsType, RelayType DEF HandleGameRestart, room
  <2>7. CASE m.type = "remove_client" /\ HandleRemoveClient(c, m.client)
    <3>1. m.client \in Client
      BY <2>7 DEF ClientMessage, BoardKind
    <3>2. ClientRemoved(m.client) \in ServerMessage
      BY <3>1 DEF ClientRemoved, ServerMessage
    <3>3. \A e : RemoveEntry(room, e) \in Room
      BY <2>0, RoomOperationsType
    <3> QED BY <2>7, <3>2, <3>3, SendToAllClientsType, UpdateRoomType, IgnoreType DEF HandleRemoveClient, room
  <2> QED BY <1>6, <2>1, <2>2, <2>3, <2>4, <2>5, <2>6, <2>7
<1> QED BY <1>1, <1>2, <1>3, <1>4, <1>5, <1>6 DEF Handle

\* What is needed of a session's end.
LEMMA SessionEndsType ==
  ASSUME ServerTypeOK, NEW c \in Client, SessionEnds(c)
  PROVE  ServerTypeOK'
<1>1. CASE Inside(c) /\ ~RoomGone(c) /\ CloseRoom(c)
  BY <1>1, RoomOfType, NoMessagesType DEF SessionEnds, CloseRoom, ServerTypeOK
<1>2. CASE Inside(c) /\ ~RoomGone(c) /\ HandleClientDisconnected(c)
  <2>1. RoomOf(c) \in Room /\ roomIdByClientId[c] \in RoomId
    BY <1>2, RoomOfType
  <2>2. \A e : RemoveEntry(RoomOf(c), e) \in Room
    BY <2>1, RoomOperationsType
  <2>3. ClientRemoved(c) \in ServerMessage
    BY DEF ClientRemoved, ServerMessage
  <2>4. ASSUME NEW e \in EntriesOf(RoomOf(c), c),
               gameRoomById' = [gameRoomById EXCEPT ![roomIdByClientId[c]] = RemoveEntry(RoomOf(c), e)],
               sent' = SendToAllClients(RemoveEntry(RoomOf(c), e), ClientRemoved(c))
        PROVE  /\ sent' \in [Client -> Seq(ServerMessage)]
               /\ gameRoomById' \in [RoomId -> Room \cup {NoRoom}]
    BY <2>1, <2>2, <2>3, <2>4, SendToAllClientsType DEF ServerTypeOK
  <2>5. /\ sent' \in [Client -> Seq(ServerMessage)]
        /\ gameRoomById' \in [RoomId -> Room \cup {NoRoom}]
    BY <1>2, <2>4, NoMessagesType DEF HandleClientDisconnected, ServerTypeOK
  <2> QED BY <1>2, <2>5 DEF SessionEnds, ServerTypeOK
<1>3. CASE ~Inside(c) \/ RoomGone(c)
  BY <1>3, NoMessagesType DEF SessionEnds, ServerTypeOK
<1> QED BY <1>1, <1>2, <1>3 DEF SessionEnds

\* ServerTypeOK is inductive.
THEOREM TypeCorrect == Spec => []ServerTypeOK
<1>1. Init => ServerTypeOK
  BY NoMessagesType DEF Init, ServerTypeOK
<1>2. ServerTypeOK /\ [Next]_vars => ServerTypeOK'
  <2> SUFFICES ASSUME ServerTypeOK, [Next]_vars PROVE ServerTypeOK'
    OBVIOUS
  <2>1. ASSUME NEW c \in Client, SpawnCoroutine(c) PROVE ServerTypeOK'
    BY <2>1, NoMessagesType DEF SpawnCoroutine, ServerTypeOK
  <2>2. ASSUME NEW c \in Client, SessionFails(c) PROVE ServerTypeOK'
    BY <2>2, NoMessagesType DEF SessionFails, ServerTypeOK
  <2>3. ASSUME NEW c \in Client, SessionEnds(c) PROVE ServerTypeOK'
    BY <2>3, SessionEndsType
  <2>4. ASSUME NEW c \in Client, Receive(c) PROVE ServerTypeOK'
    <3>1. PICK m \in ClientMessage : ReceivedFromRemote(c, m)
      BY <2>4 DEF Receive
    <3>2. CASE ~RoomGone(c) /\ Handle(c, m)
      BY <3>2, HandleTypes
    <3>3. CASE RoomGone(c) /\ OutOfRange(c, m)
      BY <3>3, RoomListType, SendToClientType, NoMessagesType DEF OutOfRange, ServerTypeOK
    <3> QED BY <3>1, <3>2, <3>3 DEF ReceivedFromRemote
  <2>5. CASE UNCHANGED vars
    BY <2>5 DEF vars, ServerTypeOK
  <2> QED BY <2>1, <2>2, <2>3, <2>4, <2>5 DEF Next
<1> QED BY <1>1, <1>2, PTL DEF Spec

-----------------------------------------------------------------------------
(* What a message makes of rooms and members *)

\* The room r of c afterwards holds an entry of c more than room.
Enters(c, r, room) ==
  /\ room \in Room
  /\ EnterRoom(c, r, room)
  /\ \/ /\ ~Inside(c) /\ FreshRoom(r)
        /\ room.connectedClients = {} /\ room.connectionIds = ConnectionId
     \/ /\ roomIdByClientId[c] \in {NoRoom, r} /\ RoomExists(r)
        /\ room = gameRoomById[r]

\* The room of c changes, but not who is inside.
Updates(c) ==
  /\ \E room \in Room :
       /\ gameRoomById' = [gameRoomById EXCEPT ![roomIdByClientId[c]] = room]
       /\ room.connectedClients = RoomOf(c).connectedClients
       /\ room.connectionIds = RoomOf(c).connectionIds
  /\ Inside(c) /\ UNCHANGED roomIdByClientId

LEMMA HandleShape ==
  ASSUME ServerTypeOK, NEW c \in Client, NEW m \in ClientMessage, ~RoomGone(c), Handle(c, m),
         m.type # "remove_client"
  PROVE  \/ UNCHANGED <<roomIdByClientId, gameRoomById>>
         \/ /\ m.type \in {"create_game_room", "join_game_room"}
            /\ \E r \in RoomId, room \in Room : Enters(c, r, room)
         \/ Inside(c) /\ HandleLeaveGameRoom(c)
         \/ Updates(c)
<1> DEFINE Same == UNCHANGED <<roomIdByClientId, gameRoomById>>
           Entering == \E r \in RoomId, room \in Room : Enters(c, r, room)
<1>same. /\ Ignore => Same
         /\ \A room : FrontOfEmptyList(room) => Same
         /\ \A out : Relay(out) => Same
  BY DEF Ignore, FrontOfEmptyList, Relay
<1>again. EnterAgain(c) => Same \/ Entering
  BY <1>same, RoomOfType DEF EnterAgain, Enters, RoomOf, RoomGone
<1>updates. ASSUME NEW room \in Room, NEW out, Inside(c), UpdateRoom(c, room, out),
                   room.connectedClients = RoomOf(c).connectedClients,
                   room.connectionIds = RoomOf(c).connectionIds
            PROVE  Updates(c)
  BY <1>updates DEF UpdateRoom, Updates
<1>1. CASE m.type = "create_game_room" /\ HandleCreateGameRoom(c, m.isPublic)
  <2>1. m.isPublic \in BOOLEAN
    BY <1>1 DEF ClientMessage, BoardKind
  <2>2. NewRoom(m.isPublic) \in Room
    BY <2>1, NewRoomType
  <2>3. /\ NewRoom(m.isPublic).connectedClients = {}
        /\ NewRoom(m.isPublic).connectionIds = ConnectionId
    BY DEF NewRoom
  <2> QED BY <1>1, <1>again, <2>2, <2>3 DEF HandleCreateGameRoom, Enters
<1>2. CASE m.type = "join_game_room" /\ HandleJoinGameRoom(c, m.room)
  <2>1. m.room \in RoomId
    BY <1>2 DEF ClientMessage, BoardKind
  <2>2. RoomExists(m.room) => gameRoomById[m.room] \in Room
    BY <2>1 DEF RoomExists, ServerTypeOK
  <2> QED BY <1>2, <1>same, <1>again, <2>1, <2>2 DEF HandleJoinGameRoom, Enters, Inside
<1>3. CASE m.type = "leave_game_room" /\ HandleLeaveGameRoom(c)
  BY <1>3, <1>same DEF HandleLeaveGameRoom
<1>4. CASE m.type = "request_game_room_list" /\ HandleRequestGameRoomList(c)
  BY <1>4 DEF HandleRequestGameRoomList
<1>5. CASE ~Inside(c) /\ Ignore
  BY <1>5, <1>same
<1>6. CASE /\ Inside(c)
           /\ m.type = "player_slot" /\ HandlePlayerSlot(c, m.index, m.request)
  <2>1. RoomOf(c) \in Room
    BY <1>6, RoomOfType
  <2>2. ASSUME NEW slot \in Slot, m.index \in SlotIndex, UpdateSlot(c, m.index, slot) PROVE Updates(c)
    <3>1. SetSlot(RoomOf(c), m.index, slot) \in Room
      BY <2>1, <2>2, RoomOperationsType
    <3>2. /\ SetSlot(RoomOf(c), m.index, slot).connectedClients = RoomOf(c).connectedClients
          /\ SetSlot(RoomOf(c), m.index, slot).connectionIds = RoomOf(c).connectionIds
      BY <2>1 DEF SetSlot, Room
    <3> QED BY <1>6, <2>2, <3>1, <3>2, <1>updates DEF UpdateSlot
  <2>3. /\ OpenSlot \in Slot
        /\ \A p \in PlayerId : RemoteSlot(c, p) \in Slot
    BY DEF Slot, RemoteSlot
  <2> QED BY <1>6, <1>same, <2>2, <2>3 DEF HandlePlayerSlot
<1>7. CASE Inside(c) /\ m.type = "game_command" /\ HandleGameCommand(c, m.pause)
  <2>1. RoomOf(c) \in Room
    BY <1>7, RoomOfType
  <2>2. m.pause \in BOOLEAN
    BY <1>7 DEF ClientMessage, BoardKind
  <2>3. /\ SetPause(RoomOf(c), m.pause) \in Room
        /\ SetPause(RoomOf(c), m.pause).connectedClients = RoomOf(c).connectedClients
        /\ SetPause(RoomOf(c), m.pause).connectionIds = RoomOf(c).connectionIds
    BY <2>1, <2>2, RoomOperationsType DEF SetPause, Room
  <2> QED BY <1>7, <2>3, <1>updates DEF HandleGameCommand
<1>8. CASE \/ HandleStartGame(c)
           \/ HandleBoard(c, m)
           \/ HandleRequestGameRestart(c)
           \/ HandleGameRestart(c, m.blocks)
  BY <1>8, <1>same DEF HandleStartGame, HandleBoard, HandleRequestGameRestart, HandleGameRestart
<1> QED BY <1>1, <1>2, <1>3, <1>4, <1>5, <1>6, <1>7, <1>8 DEF Handle

-----------------------------------------------------------------------------
(* Rooms and the clients inside *)

MembershipInv == ServerTypeOK /\ MembershipAgrees /\ NoEmptyRoom

LEMMA EntersMembership ==
  ASSUME MembershipInv, NEW c \in Client, NEW r \in RoomId, NEW room \in Room, Enters(c, r, room)
  PROVE  MembershipAgrees' /\ NoEmptyRoom'
<1>1. PICK k \in room.connectionIds : gameRoomById' = [gameRoomById EXCEPT ![r] = AddClient(room, c, k)]
  BY DEF Enters, EnterRoom
<1> DEFINE joined == AddClient(room, c, k)
<1>2. joined \in Room /\ joined # NoRoom
  BY RoomOperationsType, NoRoomAssumption
<1>3. joined.connectedClients = room.connectedClients \cup {[client |-> c, conn |-> k]}
  BY DEF AddClient, Room
<1>4. \A d \in Client : HasMember(joined, d) <=> d = c \/ HasMember(room, d)
  <2> HIDE DEF joined
  <2> DEFINE entry == [client |-> c, conn |-> k]
  <2>1. \A e : e \in joined.connectedClients <=> e \in room.connectedClients \/ e = entry
    BY <1>3
  <2>2. entry.client = c
    OBVIOUS
  <2> HIDE DEF entry
  <2> QED BY <2>1, <2>2, Zenon DEF HasMember
<1> HIDE DEF joined
<1>5. gameRoomById'[r] = joined /\ \A q \in RoomId : q # r => gameRoomById'[q] = gameRoomById[q]
  BY <1>1 DEF MembershipInv, ServerTypeOK, joined
<1>6. roomIdByClientId' = [roomIdByClientId EXCEPT ![c] = r]
  BY DEF Enters, EnterRoom
<1>7. \A d \in Client : d # c => (HasMember(room, d) <=> roomIdByClientId[d] = r)
  <2>1. CASE FreshRoom(r) /\ room.connectedClients = {}
    BY <2>1 DEF FreshRoom, HasMember
  <2>2. CASE RoomExists(r) /\ room = gameRoomById[r]
    BY <2>2 DEF MembershipInv, MembershipAgrees
  <2> QED BY <2>1, <2>2 DEF Enters
<1>8. roomIdByClientId[c] \in {NoRoom, r}
  BY DEF Enters, Inside
<1>9. MembershipAgrees'
  <2> SUFFICES ASSUME NEW d \in Client, NEW q \in RoomId
               PROVE  roomIdByClientId'[d] = q <=> gameRoomById'[q] # NoRoom /\ HasMember(gameRoomById'[q], d)
    BY DEF MembershipAgrees, RoomExists
  <2>1. roomIdByClientId'[d] = IF d = c THEN r ELSE roomIdByClientId[d]
    BY <1>6 DEF MembershipInv, ServerTypeOK
  <2>2. CASE q = r
    BY <2>1, <2>2, <1>2, <1>4, <1>5, <1>7
  <2>3. CASE q # r
    <3>1. roomIdByClientId[d] = q <=> gameRoomById[q] # NoRoom /\ HasMember(gameRoomById[q], d)
      BY DEF MembershipInv, MembershipAgrees, RoomExists
    <3>2. roomIdByClientId[c] # q
      BY <2>3, <1>8, NoIdAssumption
    <3> QED BY <2>1, <2>3, <3>1, <3>2, <1>5
  <2> QED BY <2>2, <2>3
<1>10. NoEmptyRoom'
  <2>1. joined.connectedClients # {}
    BY <1>3 DEF joined
  <2> QED BY <2>1, <1>5 DEF MembershipInv, NoEmptyRoom, RoomExists, IsEmpty
<1> QED BY <1>9, <1>10

LEMMA LeavesMembership ==
  ASSUME MembershipInv, NEW c \in Client, Inside(c), ~RoomGone(c), HandleLeaveGameRoom(c)
  PROVE  MembershipAgrees' /\ NoEmptyRoom'
<1> DEFINE r == roomIdByClientId[c]
           gone == Disconnect(RoomOf(c), c)
<1>1. r \in RoomId /\ RoomOf(c) \in Room /\ gone \in Room /\ gone # NoRoom
  BY RoomOfType, RoomOperationsType, NoRoomAssumption DEF MembershipInv
<1>2. gameRoomById' = [gameRoomById EXCEPT ![r] = IF IsEmpty(gone) THEN NoRoom ELSE gone]
  BY DEF HandleLeaveGameRoom
<1>3. gone.connectedClients = {e \in RoomOf(c).connectedClients : e.client # c}
  BY <1>1 DEF Disconnect, EntriesOf, Room
<1>4. \A d \in Client : HasMember(gone, d) <=> d # c /\ HasMember(RoomOf(c), d)
  BY <1>3 DEF HasMember
<1>5. roomIdByClientId' = [roomIdByClientId EXCEPT ![c] = NoRoom]
  BY DEF HandleLeaveGameRoom
<1>6. RoomOf(c) = gameRoomById[r] /\ RoomExists(r)
  BY DEF RoomOf, RoomGone
<1> HIDE DEF r, gone
<1>7. MembershipAgrees'
  <2> SUFFICES ASSUME NEW d \in Client, NEW q \in RoomId
               PROVE  roomIdByClientId'[d] = q <=> gameRoomById'[q] # NoRoom /\ HasMember(gameRoomById'[q], d)
    BY DEF MembershipAgrees, RoomExists
  <2>1. roomIdByClientId'[d] = IF d = c THEN NoRoom ELSE roomIdByClientId[d]
    BY <1>5 DEF MembershipInv, ServerTypeOK
  <2>2. roomIdByClientId[d] = q <=> gameRoomById[q] # NoRoom /\ HasMember(gameRoomById[q], d)
    BY DEF MembershipInv, MembershipAgrees, RoomExists
  <2>3. CASE q = r
    <3>1. gameRoomById'[q] = IF IsEmpty(gone) THEN NoRoom ELSE gone
      BY <1>1, <1>2, <2>3 DEF MembershipInv, ServerTypeOK
    <3>2. IsEmpty(gone) => ~HasMember(gone, d)
      BY DEF IsEmpty, HasMember
    <3>3. q # NoRoom
      BY NoIdAssumption
    <3> QED BY <2>1, <2>2, <2>3, <3>1, <3>2, <3>3, <1>1, <1>4, <1>6 DEF RoomExists
  <2>4. CASE q # r
    <3>1. gameRoomById'[q] = gameRoomById[q]
      BY <1>2, <2>4 DEF MembershipInv, ServerTypeOK
    <3>2. roomIdByClientId[c] # q /\ q # NoRoom
      BY <2>4, NoIdAssumption DEF r
    <3> QED BY <2>1, <2>2, <3>1, <3>2
  <2> QED BY <2>3, <2>4
<1>8. NoEmptyRoom'
  BY <1>1, <1>2 DEF MembershipInv, ServerTypeOK, NoEmptyRoom, RoomExists, IsEmpty
<1> QED BY <1>7, <1>8

LEMMA UpdatesMembership ==
  ASSUME MembershipInv, NEW c \in Client, ~RoomGone(c), Updates(c)
  PROVE  MembershipAgrees' /\ NoEmptyRoom'
<1>1. PICK room \in Room :
        /\ gameRoomById' = [gameRoomById EXCEPT ![roomIdByClientId[c]] = room]
        /\ room.connectedClients = RoomOf(c).connectedClients
  BY DEF Updates
<1>2. /\ roomIdByClientId[c] \in RoomId /\ RoomExists(roomIdByClientId[c])
      /\ roomIdByClientId' = roomIdByClientId
  BY RoomOfType DEF Updates, MembershipInv, RoomGone
<1>3. \A q \in RoomId :
        /\ gameRoomById'[q] # NoRoom <=> gameRoomById[q] # NoRoom
        /\ gameRoomById'[q].connectedClients = gameRoomById[q].connectedClients
  BY <1>1, <1>2, NoRoomAssumption DEF MembershipInv, ServerTypeOK, RoomOf, RoomExists
<1> QED BY <1>2, <1>3 DEF MembershipInv, MembershipAgrees, NoEmptyRoom, RoomExists, IsEmpty, HasMember

\* A client inside a room never meets a room that is gone.
LEMMA MembersRoomExists == MembershipInv => RoomOfClientExists
<1> SUFFICES ASSUME MembershipInv, NEW c \in Client, Inside(c)
             PROVE  RoomExists(roomIdByClientId[c])
  BY DEF RoomOfClientExists
<1>1. roomIdByClientId[c] \in RoomId
  BY DEF MembershipInv, ServerTypeOK, Inside
<1> QED BY <1>1 DEF MembershipInv, MembershipAgrees

\* With the sessions and the clients of the program as it is, the records of the server and of
\* its rooms agree about who is inside, whichever requests cross; no room outlives its clients
\* and no client its room.
THEOREM MembershipCorrect ==
  ASSUME KickRequests = FALSE, RethrowAsSystemError = FALSE
  PROVE  Spec => [](RoomOfClientExists /\ MembershipAgrees /\ NoEmptyRoom)
<1>1. Init => MembershipInv
  BY NoMessagesType, NoIdAssumption DEF Init, MembershipInv, ServerTypeOK, MembershipAgrees, NoEmptyRoom, RoomExists
<1>2. MembershipInv /\ ServerTypeOK' /\ [Next]_vars => MembershipInv'
  <2> SUFFICES ASSUME MembershipInv, [Next]_vars
               PROVE  MembershipAgrees' /\ NoEmptyRoom'
    BY DEF MembershipInv
  <2>same. UNCHANGED <<roomIdByClientId, gameRoomById>> => MembershipAgrees' /\ NoEmptyRoom'
    BY DEF MembershipInv, MembershipAgrees, NoEmptyRoom, RoomExists
  <2>1. ASSUME NEW c \in Client, Receive(c) PROVE MembershipAgrees' /\ NoEmptyRoom'
    <3>1. PICK m \in ClientMessage : MaySend(c, m) /\ ReceivedFromRemote(c, m)
      BY <2>1 DEF Receive
    <3>2. m.type # "remove_client"
      BY <3>1 DEF MaySend
    <3>3. ~RoomGone(c)
      BY MembersRoomExists DEF RoomGone, RoomOfClientExists
    <3>4. Handle(c, m)
      BY <3>1, <3>3 DEF ReceivedFromRemote
    <3> QED BY <2>same, <3>2, <3>3, <3>4, HandleShape, EntersMembership, LeavesMembership,
               UpdatesMembership DEF MembershipInv
  <2>2. ASSUME NEW c \in Client, SpawnCoroutine(c) \/ SessionFails(c)
        PROVE  MembershipAgrees' /\ NoEmptyRoom'
    BY <2>2, <2>same DEF SpawnCoroutine, SessionFails
  <2>3. \A c \in Client : ~SessionEnds(c)
    BY DEF SessionEnds
  <2>4. CASE UNCHANGED vars
    BY <2>4, <2>same DEF vars
  <2> QED BY <2>1, <2>2, <2>3, <2>4 DEF Next
<1>3. MembershipInv => RoomOfClientExists /\ MembershipAgrees /\ NoEmptyRoom
  BY MembersRoomExists DEF MembershipInv
<1> QED BY <1>1, <1>2, <1>3, TypeCorrect, PTL DEF Spec

-----------------------------------------------------------------------------
(* The connection ids of a room *)

\* ConnectionIdsUnique and ConnectionIdsConserved say this of every room.
IdsUnique(room) ==
  /\ \A e \in room.connectedClients : e.conn \notin room.connectionIds
  /\ \A e, f \in room.connectedClients : e.conn = f.conn => e = f

IdsConserved(room) ==
  ConnectionId = room.connectionIds \cup {e.conn : e \in room.connectedClients}

\* A client that enters takes an id nobody holds.
LEMMA AddClientIds ==
  ASSUME NEW room \in Room, NEW c \in Client, NEW k \in room.connectionIds
  PROVE  /\ IdsUnique(room) => IdsUnique(AddClient(room, c, k))
         /\ IdsConserved(room) => IdsConserved(AddClient(room, c, k))
<1> DEFINE joined == AddClient(room, c, k)
           entry == [client |-> c, conn |-> k]
<1>1. /\ joined.connectedClients = room.connectedClients \cup {entry}
      /\ joined.connectionIds = room.connectionIds \ {k}
  BY DEF AddClient, Room
<1>2. entry.conn = k
  OBVIOUS
<1> HIDE DEF joined, entry
<1>3. ASSUME IdsUnique(room) PROVE IdsUnique(joined)
  <2>1. \A e \in room.connectedClients : e.conn # k
    BY <1>3 DEF IdsUnique
  <2> QED BY <1>1, <1>2, <1>3, <2>1 DEF IdsUnique
<1>4. ASSUME IdsConserved(room) PROVE IdsConserved(joined)
  <2>1. {e.conn : e \in joined.connectedClients} = {e.conn : e \in room.connectedClients} \cup {k}
    BY <1>1, <1>2
  <2> QED BY <1>1, <1>4, <2>1 DEF IdsConserved
<1> QED BY <1>3, <1>4 DEF joined

\* A client that leaves gives the ids of all its entries back.
LEMMA DisconnectIds ==
  ASSUME NEW room \in Room, NEW c \in Client
  PROVE  /\ IdsUnique(room) => IdsUnique(Disconnect(room, c))
         /\ IdsConserved(room) => IdsConserved(Disconnect(room, c))
<1> DEFINE gone == Disconnect(room, c)
<1>1. /\ gone.connectedClients = room.connectedClients \ EntriesOf(room, c)
      /\ gone.connectionIds = room.connectionIds \cup {e.conn : e \in EntriesOf(room, c)}
  BY DEF Disconnect, Room
<1>2. EntriesOf(room, c) \subseteq room.connectedClients
  BY DEF EntriesOf
<1> HIDE DEF gone
<1>3. IdsUnique(room) => IdsUnique(gone)
  BY <1>1, <1>2 DEF IdsUnique
<1>4. IdsConserved(room) => IdsConserved(gone)
  BY <1>1, <1>2 DEF IdsConserved
<1> QED BY <1>3, <1>4 DEF gone

\* A client that is removed takes its id along: the others still have ids of their own.
LEMMA RemoveEntryIds ==
  ASSUME NEW room \in Room, NEW e \in room.connectedClients, IdsUnique(room)
  PROVE  IdsUnique(RemoveEntry(room, e))
BY DEF RemoveEntry, Room, IdsUnique

LEMMA IdsOfRooms ==
  /\ ConnectionIdsUnique <=> \A r \in RoomId : RoomExists(r) => IdsUnique(gameRoomById[r])
  /\ ConnectionIdsConserved <=> \A r \in RoomId : RoomExists(r) => IdsConserved(gameRoomById[r])
  /\ ConnectionIdsUnique' <=> \A r \in RoomId : gameRoomById'[r] # NoRoom => IdsUnique(gameRoomById'[r])
  /\ ConnectionIdsConserved' <=> \A r \in RoomId : gameRoomById'[r] # NoRoom => IdsConserved(gameRoomById'[r])
BY DEF ConnectionIdsUnique, ConnectionIdsConserved, IdsUnique, IdsConserved, RoomExists

\* A step that changes one room keeps the ids of all rooms in order if it does so for that room.
LEMMA OneRoomIds ==
  ASSUME ServerTypeOK, NEW r \in RoomId, NEW room \in Room \cup {NoRoom},
         gameRoomById' = [gameRoomById EXCEPT ![r] = room]
  PROVE  /\ ConnectionIdsUnique /\ (room # NoRoom => IdsUnique(room)) => ConnectionIdsUnique'
         /\ ConnectionIdsConserved /\ (room # NoRoom => IdsConserved(room)) => ConnectionIdsConserved'
<1>1. \A q \in RoomId : gameRoomById'[q] = IF q = r THEN room ELSE gameRoomById[q]
  BY DEF ServerTypeOK
<1> QED BY <1>1, IdsOfRooms DEF RoomExists

\* What a message other than RemoveClient does to the ids of the rooms.
LEMMA HandleIds ==
  ASSUME ServerTypeOK, NEW c \in Client, NEW m \in ClientMessage, ~RoomGone(c), Handle(c, m),
         m.type # "remove_client"
  PROVE  /\ ConnectionIdsUnique => ConnectionIdsUnique'
         /\ ConnectionIdsConserved => ConnectionIdsConserved'
<1>1. CASE UNCHANGED <<roomIdByClientId, gameRoomById>>
  BY <1>1, IdsOfRooms DEF RoomExists
<1>2. ASSUME NEW r \in RoomId, NEW room \in Room, Enters(c, r, room)
      PROVE  /\ ConnectionIdsUnique => ConnectionIdsUnique'
             /\ ConnectionIdsConserved => ConnectionIdsConserved'
  <2>1. PICK k \in room.connectionIds : gameRoomById' = [gameRoomById EXCEPT ![r] = AddClient(room, c, k)]
    BY <1>2 DEF Enters, EnterRoom
  <2>2. AddClient(room, c, k) \in Room
    BY RoomOperationsType
  <2>3. /\ ConnectionIdsUnique => IdsUnique(room)
        /\ ConnectionIdsConserved => IdsConserved(room)
    <3>1. CASE room.connectedClients = {} /\ room.connectionIds = ConnectionId
      BY <3>1 DEF IdsUnique, IdsConserved
    <3>2. CASE RoomExists(r) /\ room = gameRoomById[r]
      BY <3>2, IdsOfRooms
    <3> QED BY <1>2, <3>1, <3>2 DEF Enters
  <2>4. /\ IdsUnique(room) => IdsUnique(AddClient(room, c, k))
        /\ IdsConserved(room) => IdsConserved(AddClient(room, c, k))
    BY AddClientIds
  <2> QED BY <2>1, <2>2, <2>3, <2>4, OneRoomIds
<1>3. CASE Inside(c) /\ HandleLeaveGameRoom(c)
  <2> DEFINE gone == Disconnect(RoomOf(c), c)
  <2>1. /\ roomIdByClientId[c] \in RoomId /\ RoomOf(c) \in Room /\ gone \in Room
        /\ RoomExists(roomIdByClientId[c]) /\ RoomOf(c) = gameRoomById[roomIdByClientId[c]]
    BY <1>3, RoomOfType, RoomOperationsType DEF RoomGone, RoomOf
  <2>2. gameRoomById' = [gameRoomById EXCEPT ![roomIdByClientId[c]] = IF IsEmpty(gone) THEN NoRoom ELSE gone]
    BY <1>3 DEF HandleLeaveGameRoom
  <2>3. /\ ConnectionIdsUnique => IdsUnique(gone)
        /\ ConnectionIdsConserved => IdsConserved(gone)
    BY <2>1, IdsOfRooms, DisconnectIds
  <2> HIDE DEF gone
  <2> QED BY <2>1, <2>2, <2>3, OneRoomIds
<1>4. CASE Updates(c)
  <2>1. PICK room \in Room :
          /\ gameRoomById' = [gameRoomById EXCEPT ![roomIdByClientId[c]] = room]
          /\ room.connectedClients = RoomOf(c).connectedClients
          /\ room.connectionIds = RoomOf(c).connectionIds
    BY <1>4 DEF Updates
  <2>2. /\ roomIdByClientId[c] \in RoomId /\ RoomExists(roomIdByClientId[c])
        /\ RoomOf(c) = gameRoomById[roomIdByClientId[c]]
    BY <1>4, RoomOfType DEF Updates, RoomGone, RoomOf
  <2>3. /\ ConnectionIdsUnique => IdsUnique(room)
        /\ ConnectionIdsConserved => IdsConserved(room)
    BY <2>1, <2>2, IdsOfRooms DEF IdsUnique, IdsConserved
  <2> QED BY <2>1, <2>2, <2>3, OneRoomIds
<1> QED BY <1>1, <1>2, <1>3, <1>4, HandleShape

\* Removing an entry, by a RemoveClient or as a session ends, takes no id from the others.
LEMMA RemovesIds ==
  ASSUME ServerTypeOK, ConnectionIdsUnique, NEW c \in Client, Inside(c), ~RoomGone(c),
         NEW e \in RoomOf(c).connectedClients,
         gameRoomById' = [gameRoomById EXCEPT ![roomIdByClientId[c]] = RemoveEntry(RoomOf(c), e)]
  PROVE  ConnectionIdsUnique'
<1>1. /\ roomIdByClientId[c] \in RoomId /\ RoomOf(c) \in Room
      /\ RoomExists(roomIdByClientId[c]) /\ RoomOf(c) = gameRoomById[roomIdByClientId[c]]
  BY RoomOfType DEF RoomGone, RoomOf
<1>2. RemoveEntry(RoomOf(c), e) \in Room
  BY <1>1, RoomOperationsType
<1>3. IdsUnique(RemoveEntry(RoomOf(c), e))
  BY <1>1, IdsOfRooms, RemoveEntryIds
<1> QED BY <1>1, <1>2, <1>3, OneRoomIds

\* Whatever clients send and however sessions end, two clients of a room never hold the same
\* connection id, and none that is held is handed out.
THEOREM ConnectionIdsAreUnique == Spec => []ConnectionIdsUnique
<1>1. Init => ConnectionIdsUnique
  BY DEF Init, ConnectionIdsUnique, RoomExists
<1>2. ServerTypeOK /\ ConnectionIdsUnique /\ [Next]_vars => ConnectionIdsUnique'
  <2> SUFFICES ASSUME ServerTypeOK, ConnectionIdsUnique, [Next]_vars
               PROVE  ConnectionIdsUnique'
    OBVIOUS
  <2>same. UNCHANGED gameRoomById => ConnectionIdsUnique'
    BY IdsOfRooms DEF RoomExists
  <2>1. ASSUME NEW c \in Client, Receive(c) PROVE ConnectionIdsUnique'
    <3>1. PICK m \in ClientMessage : ReceivedFromRemote(c, m)
      BY <2>1 DEF Receive
    <3>2. CASE RoomGone(c)
      BY <3>1, <3>2, <2>same DEF ReceivedFromRemote, OutOfRange
    <3>3. CASE ~RoomGone(c) /\ m.type # "remove_client"
      BY <3>1, <3>3, HandleIds DEF ReceivedFromRemote
    <3>4. CASE ~RoomGone(c) /\ m.type = "remove_client"
      <4>1. \/ Inside(c) /\ HandleRemoveClient(c, m.client)
            \/ Ignore
        BY <3>1, <3>4 DEF ReceivedFromRemote, Handle, BoardKind
      <4>2. CASE Ignore
        BY <4>2, <2>same DEF Ignore
      <4>3. ASSUME Inside(c), NEW e \in EntriesOf(RoomOf(c), m.client),
                   gameRoomById' = [gameRoomById EXCEPT ![roomIdByClientId[c]] = RemoveEntry(RoomOf(c), e)]
            PROVE  ConnectionIdsUnique'
        BY <3>4, <4>3, RemovesIds DEF EntriesOf
      <4> QED BY <4>1, <4>2, <4>3 DEF HandleRemoveClient, UpdateRoom
    <3> QED BY <3>2, <3>3, <3>4
  <2>2. ASSUME NEW c \in Client, SpawnCoroutine(c) \/ SessionFails(c) PROVE ConnectionIdsUnique'
    BY <2>2, <2>same DEF SpawnCoroutine, SessionFails
  <2>3. ASSUME NEW c \in Client, SessionEnds(c) PROVE ConnectionIdsUnique'
    <3>1. CASE UNCHANGED gameRoomById
      BY <3>1, <2>same
    <3>2. CASE Inside(c) /\ ~RoomGone(c) /\ CloseRoom(c)
      <4>1. roomIdByClientId[c] \in RoomId
        BY <3>2, RoomOfType
      <4>2. gameRoomById' = [gameRoomById EXCEPT ![roomIdByClientId[c]] = NoRoom]
        BY <3>2 DEF CloseRoom
      <4> QED BY <4>1, <4>2, OneRoomIds
    <3>3. ASSUME Inside(c), ~RoomGone(c), NEW e \in EntriesOf(RoomOf(c), c),
                 gameRoomById' = [gameRoomById EXCEPT ![roomIdByClientId[c]] = RemoveEntry(RoomOf(c), e)]
          PROVE  ConnectionIdsUnique'
      BY <3>3, RemovesIds DEF EntriesOf
    <3> QED BY <2>3, <3>1, <3>2, <3>3 DEF SessionEnds, HandleClientDisconnected
  <2>4. CASE UNCHANGED vars
    BY <2>4, <2>same DEF vars
  <2> QED BY <2>1, <2>2, <2>3, <2>4 DEF Next
<1> QED BY <1>1, <1>2, TypeCorrect, PTL DEF Spec

\* Without RemoveClient, and with sessions that end as they do, a room loses no connection id
\* however often clients come and go: every id is held by a client inside or free.
THEOREM ConnectionIdsAreConserved ==
  ASSUME KickRequests = FALSE, RethrowAsSystemError = FALSE
  PROVE  Spec => []ConnectionIdsConserved
<1>1. Init => ConnectionIdsConserved
  BY DEF Init, ConnectionIdsConserved, RoomExists
<1>2. ServerTypeOK /\ RoomOfClientExists /\ ConnectionIdsConserved /\ [Next]_vars => ConnectionIdsConserved'
  <2> SUFFICES ASSUME ServerTypeOK, RoomOfClientExists, ConnectionIdsConserved, [Next]_vars
               PROVE  ConnectionIdsConserved'
    OBVIOUS
  <2>same. UNCHANGED gameRoomById => ConnectionIdsConserved'
    BY IdsOfRooms DEF RoomExists
  <2>1. ASSUME NEW c \in Client, Receive(c) PROVE ConnectionIdsConserved'
    <3>1. PICK m \in ClientMessage : MaySend(c, m) /\ ReceivedFromRemote(c, m)
      BY <2>1 DEF Receive
    <3>2. m.type # "remove_client" /\ ~RoomGone(c)
      BY <3>1 DEF MaySend, RoomGone, RoomOfClientExists
    <3> QED BY <3>1, <3>2, HandleIds DEF ReceivedFromRemote
  <2>2. ASSUME NEW c \in Client, SpawnCoroutine(c) \/ SessionFails(c) PROVE ConnectionIdsConserved'
    BY <2>2, <2>same DEF SpawnCoroutine, SessionFails
  <2>3. \A c \in Client : ~SessionEnds(c)
    BY DEF SessionEnds
  <2>4. CASE UNCHANGED vars
    BY <2>4, <2>same DEF vars
  <2> QED BY <2>1, <2>2, <2>3, <2>4 DEF Next
<1>3. Spec => [](RoomOfClientExists /\ MembershipAgrees /\ NoEmptyRoom)
  BY MembershipCorrect
<1> QED BY <1>1, <1>2, <1>3, TypeCorrect, PTL DEF Spec

-----------------------------------------------------------------------------
(* The promises of RoomMembership *)

\* A room has no more occupants than entries.
LEMMA OccupantsCounted ==
  ASSUME MembershipInv, NEW r \in RoomId, RoomExists(r)
  PROVE  Cardinality(Membership!Occupants(r)) <= Cardinality(gameRoomById[r].connectedClients)
<1> DEFINE entries == gameRoomById[r].connectedClients
           inside == Membership!Occupants(r)
           f == [e \in entries |-> e.client]
<1>1. entries \in SUBSET Member
  BY DEF MembershipInv, ServerTypeOK, RoomExists, Room
<1>2. \A c \in Client : c \in inside <=> \E e \in entries : e.client = c
  BY DEF MembershipInv, MembershipAgrees, HasMember, Membership!Occupants
<1>3. f \in Surjection(entries, inside)
  <2>1. \A e \in entries : e.client \in inside
    BY <1>1, <1>2 DEF Member
  <2>2. f \in [entries -> inside] /\ \A c \in inside : \E e \in entries : f[e] = c
    BY <1>2, <2>1 DEF Membership!Occupants
  <2> QED BY <2>2 DEF Surjection
<1>4. IsFiniteSet(entries)
  BY <1>1, EntriesFinite
<1> HIDE DEF f, entries, inside
<1>5. Cardinality(inside) <= Cardinality(entries)
  BY <1>3, <1>4, FS_Surjection
<1> QED BY <1>5 DEF entries, inside

\* A client that enters opens a room, takes a place of one that is open, or is in it already.
LEMMA HandleEnters ==
  ASSUME MembershipInv, NEW c \in Client, NEW m \in ClientMessage, ~RoomGone(c), Handle(c, m),
         NEW r \in RoomId, NEW room \in Room, Enters(c, r, room),
         m.type \in {"create_game_room", "join_game_room"}
  PROVE  Membership!Open(c, r) \/ Membership!Join(c, r) \/ UNCHANGED roomIdByClientId
<1>1. roomIdByClientId' = [roomIdByClientId EXCEPT ![c] = r]
  BY DEF Enters, EnterRoom
<1>2. CASE ~Inside(c) /\ FreshRoom(r)
  <2>1. Membership!Occupants(r) = {}
    BY <1>2 DEF FreshRoom, Membership!Occupants
  <2> QED BY <1>1, <1>2, <2>1 DEF Inside, Membership!Open
<1>3. CASE roomIdByClientId[c] = r
  BY <1>1, <1>3 DEF MembershipInv, ServerTypeOK
<1>4. CASE ~Inside(c) /\ RoomExists(r) /\ ~FreshRoom(r)
  <2>1. m.type = "join_game_room" /\ m.room = r /\ ~IsFull(gameRoomById[r])
    <3>1. \A q \in RoomId : roomIdByClientId'[c] = q => q = r
      BY <1>1 DEF MembershipInv, ServerTypeOK
    <3>2. roomIdByClientId'[c] = r /\ roomIdByClientId[c] # r
      BY <1>1, <1>4, NoIdAssumption DEF MembershipInv, ServerTypeOK, Inside
    <3>3. ~EnterAgain(c) /\ ~Ignore /\ \A q : ~FrontOfEmptyList(q)
      BY <1>4, <3>2 DEF EnterAgain, Ignore, FrontOfEmptyList
    <3>4. CASE m.type = "create_game_room"
      <4>1. PICK q \in RoomId : FreshRoom(q) /\ EnterRoom(c, q, NewRoom(m.isPublic))
        BY <3>3, <3>4 DEF Handle, HandleCreateGameRoom, BoardKind
      <4>2. roomIdByClientId'[c] = q
        BY <4>1 DEF EnterRoom, MembershipInv, ServerTypeOK
      <4> QED BY <1>4, <3>1, <4>1, <4>2
    <3>5. CASE m.type = "join_game_room"
      <4>1. /\ ~IsFull(gameRoomById[m.room])
            /\ EnterRoom(c, m.room, gameRoomById[m.room])
        BY <3>3, <3>5 DEF Handle, HandleJoinGameRoom, BoardKind
      <4>2. roomIdByClientId'[c] = m.room
        BY <4>1 DEF EnterRoom, MembershipInv, ServerTypeOK
      <4>3. m.room = r
        BY <3>2, <4>2
      <4> QED BY <3>5, <4>1, <4>3
    <3> QED BY <3>4, <3>5
  <2>2. Cardinality(Membership!Occupants(r)) < MaxClients
    <3>1. Cardinality(Membership!Occupants(r)) <= Cardinality(gameRoomById[r].connectedClients)
      BY <1>4, OccupantsCounted
    <3>2. /\ gameRoomById[r].connectedClients \in SUBSET Member
          /\ Membership!Occupants(r) \in SUBSET Client
      BY <1>4 DEF MembershipInv, ServerTypeOK, RoomExists, Room, Membership!Occupants
    <3>3. Cardinality(gameRoomById[r].connectedClients) \in Nat /\ Cardinality(Membership!Occupants(r)) \in Nat
      BY <3>2, EntriesFinite, FS_Subset, FS_CardinalityType, SizeAssumption
    <3> QED BY <2>1, <3>1, <3>3, SizeAssumption DEF IsFull
  <2>3. Membership!Occupants(r) # {}
    <3>1. PICK e \in gameRoomById[r].connectedClients : TRUE
      BY <1>4 DEF MembershipInv, NoEmptyRoom
    <3>2. e.client \in Client /\ HasMember(gameRoomById[r], e.client)
      BY <1>4 DEF MembershipInv, ServerTypeOK, RoomExists, Room, Member, HasMember
    <3>3. roomIdByClientId[e.client] = r
      BY <1>4, <3>2 DEF MembershipInv, MembershipAgrees
    <3> QED BY <3>2, <3>3 DEF Membership!Occupants
  <2>4. Membership!Cardinality(Membership!Occupants(r)) < MaxClients
    BY <2>2 DEF Membership!Cardinality, Cardinality
  <2> QED BY <1>1, <1>4, <2>3, <2>4 DEF Inside, Membership!Join
<1>5. \/ ~Inside(c) /\ FreshRoom(r)
      \/ roomIdByClientId[c] \in {NoRoom, r} /\ RoomExists(r)
  BY DEF Enters
<1>6. RoomExists(r) => ~FreshRoom(r)
  BY DEF FreshRoom
<1> QED BY <1>2, <1>3, <1>4, <1>5, <1>6 DEF Inside

\* Every step of the server is one of the membership, or leaves it as it is.
LEMMA MembershipStep ==
  ASSUME KickRequests = FALSE, RethrowAsSystemError = FALSE, MembershipInv, [Next]_vars
  PROVE  [Membership!Next]_roomIdByClientId
<1>1. ASSUME NEW c \in Client, Receive(c) PROVE [Membership!Next]_roomIdByClientId
  <2>1. PICK m \in ClientMessage : MaySend(c, m) /\ ReceivedFromRemote(c, m)
    BY <1>1 DEF Receive
  <2>2. m.type # "remove_client" /\ ~RoomGone(c) /\ Handle(c, m)
    BY <2>1, MembersRoomExists DEF MaySend, RoomGone, RoomOfClientExists, ReceivedFromRemote
  <2>3. CASE Inside(c) /\ HandleLeaveGameRoom(c)
    <3>1. Membership!Leave(c)
      BY <2>3 DEF HandleLeaveGameRoom, Inside, Membership!Leave
    <3> QED BY <3>1 DEF Membership!Next
  <2>4. ASSUME NEW r \in RoomId, NEW room \in Room, Enters(c, r, room),
               m.type \in {"create_game_room", "join_game_room"}
        PROVE  [Membership!Next]_roomIdByClientId
    BY <2>2, <2>4, HandleEnters DEF Membership!Next
  <2>5. CASE UNCHANGED roomIdByClientId
    BY <2>5
  <2> QED BY <2>2, <2>3, <2>4, <2>5, HandleShape DEF MembershipInv, Updates
<1>2. ASSUME NEW c \in Client, SpawnCoroutine(c) \/ SessionFails(c) PROVE UNCHANGED roomIdByClientId
  BY <1>2 DEF SpawnCoroutine, SessionFails
<1>3. \A c \in Client : ~SessionEnds(c)
  BY DEF SessionEnds
<1>4. CASE UNCHANGED vars
  BY <1>4 DEF vars
<1> QED BY <1>1, <1>2, <1>3, <1>4 DEF Next

\* The server, as the user interface uses it, keeps the promises of RoomMembership: a client is in
\* one room at most, only a client itself enters or leaves, nobody enters a closed room or a full one.
THEOREM MembershipIsKept ==
  ASSUME KickRequests = FALSE, RethrowAsSystemError = FALSE
  PROVE  Spec => MembershipSpec
<1>1. Init => Membership!Init
  BY DEF Init, Membership!Init
<1>2. MembershipInv /\ [Next]_vars => [Membership!Next]_roomIdByClientId
  BY MembershipStep
<1>3. ServerTypeOK /\ RoomOfClientExists /\ MembershipAgrees /\ NoEmptyRoom => MembershipInv
  BY DEF MembershipInv
<1>4. Spec => [](RoomOfClientExists /\ MembershipAgrees /\ NoEmptyRoom)
  BY MembershipCorrect
<1> QED BY <1>1, <1>2, <1>3, <1>4, TypeCorrect, PTL DEF Spec, MembershipSpec, Membership!Spec

-----------------------------------------------------------------------------
(* Slots and their owners *)

\* A step that changes a taken slot of a room that stays open.
ChangesSlot(r, i) ==
  /\ RoomExists(r) /\ gameRoomById'[r] # NoRoom
  /\ gameRoomById[r].playerSlots[i] # OpenSlot
  /\ gameRoomById'[r].playerSlots[i] # gameRoomById[r].playerSlots[i]

\* When one room is replaced by another with the same slots, no slot changes.
LEMMA SameSlots ==
  ASSUME ServerTypeOK, NEW q \in RoomId, NEW room,
         gameRoomById' = [gameRoomById EXCEPT ![q] = room],
         RoomExists(q) /\ room # NoRoom => room.playerSlots = gameRoomById[q].playerSlots,
         NEW r \in RoomId, NEW i \in SlotIndex
  PROVE  ~ChangesSlot(r, i)
<1>1. gameRoomById'[r] = IF r = q THEN room ELSE gameRoomById[r]
  BY DEF ServerTypeOK
<1> QED BY <1>1 DEF ChangesSlot

\* A message changes a slot of its client at most.
LEMMA HandleSlots ==
  ASSUME ServerTypeOK, NEW c \in Client, NEW m \in ClientMessage, ~RoomGone(c), Handle(c, m),
         NEW r \in RoomId, NEW i \in SlotIndex, ChangesSlot(r, i)
  PROVE  gameRoomById[r].playerSlots[i].client = c
<1>same. ~UNCHANGED gameRoomById
  BY DEF ChangesSlot
<1>0. Inside(c) => /\ roomIdByClientId[c] \in RoomId /\ RoomOf(c) \in Room
                   /\ RoomOf(c) = gameRoomById[roomIdByClientId[c]]
  BY RoomOfType DEF RoomOf
<1>1. ~EnterAgain(c)
  <2>1. ASSUME Inside(c), EnterRoom(c, roomIdByClientId[c], RoomOf(c)) PROVE FALSE
    <3>1. PICK k : gameRoomById' = [gameRoomById EXCEPT ![roomIdByClientId[c]] = AddClient(RoomOf(c), c, k)]
      BY <2>1 DEF EnterRoom
    <3>2. AddClient(RoomOf(c), c, k).playerSlots = RoomOf(c).playerSlots
      BY <1>0, <2>1 DEF AddClient, Room
    <3> QED BY <1>0, <2>1, <3>1, <3>2, SameSlots
  <2> QED BY <2>1, <1>same DEF EnterAgain, FrontOfEmptyList
<1>2. ~(m.type = "create_game_room" /\ HandleCreateGameRoom(c, m.isPublic))
  <2>1. ASSUME NEW q \in RoomId, FreshRoom(q), EnterRoom(c, q, NewRoom(m.isPublic)) PROVE FALSE
    <3>1. PICK k : gameRoomById' = [gameRoomById EXCEPT ![q] = AddClient(NewRoom(m.isPublic), c, k)]
      BY <2>1 DEF EnterRoom
    <3> QED BY <2>1, <3>1, SameSlots DEF FreshRoom
  <2> QED BY <1>1, <2>1 DEF HandleCreateGameRoom
<1>3. ~(m.type = "join_game_room" /\ HandleJoinGameRoom(c, m.room))
  <2>1. ASSUME m.type = "join_game_room", RoomExists(m.room), EnterRoom(c, m.room, gameRoomById[m.room]) PROVE FALSE
    <3>1. PICK k : gameRoomById' = [gameRoomById EXCEPT ![m.room] = AddClient(gameRoomById[m.room], c, k)]
      BY <2>1 DEF EnterRoom
    <3>2. m.room \in RoomId
      BY <2>1 DEF ClientMessage, BoardKind
    <3>3. gameRoomById[m.room] \in Room
      BY <2>1, <3>2 DEF ServerTypeOK, RoomExists
    <3>4. AddClient(gameRoomById[m.room], c, k).playerSlots = gameRoomById[m.room].playerSlots
      BY <3>3 DEF AddClient, Room
    <3> QED BY <3>1, <3>2, <3>4, SameSlots
  <2> QED BY <1>1, <1>same, <2>1 DEF HandleJoinGameRoom, Ignore, FrontOfEmptyList
<1>4. ~(m.type = "leave_game_room" /\ HandleLeaveGameRoom(c))
  <2>1. ASSUME Inside(c), HandleLeaveGameRoom(c) PROVE FALSE
    <3> DEFINE gone == Disconnect(RoomOf(c), c)
    <3>1. gameRoomById' = [gameRoomById EXCEPT ![roomIdByClientId[c]] = IF IsEmpty(gone) THEN NoRoom ELSE gone]
      BY <2>1 DEF HandleLeaveGameRoom
    <3>2. gone.playerSlots = RoomOf(c).playerSlots
      BY <1>0, <2>1 DEF Disconnect, Room
    <3> HIDE DEF gone
    <3> QED BY <1>0, <2>1, <3>1, <3>2, SameSlots
  <2> QED BY <2>1, <1>same DEF HandleLeaveGameRoom, Ignore
<1>5. ASSUME Inside(c), m.type = "player_slot", HandlePlayerSlot(c, m.index, m.request)
      PROVE  gameRoomById[r].playerSlots[i].client = c
  <2>1. PICK slot : /\ m.index \in SlotIndex /\ SlotBelongsToClient(RoomOf(c), c, m.index)
                    /\ UpdateSlot(c, m.index, slot)
    BY <1>5, <1>same DEF HandlePlayerSlot, Ignore, Relay
  <2>2. gameRoomById' = [gameRoomById EXCEPT ![roomIdByClientId[c]] = SetSlot(RoomOf(c), m.index, slot)]
    BY <2>1 DEF UpdateSlot, UpdateRoom
  <2>3. gameRoomById'[r] = IF r = roomIdByClientId[c] THEN SetSlot(RoomOf(c), m.index, slot) ELSE gameRoomById[r]
    BY <2>2 DEF ServerTypeOK
  <2>4. r = roomIdByClientId[c] /\ SetSlot(RoomOf(c), m.index, slot).playerSlots[i] # RoomOf(c).playerSlots[i]
    BY <1>0, <1>5, <2>3 DEF ChangesSlot
  <2>5. i = m.index
    BY <1>0, <1>5, <2>1, <2>4 DEF SetSlot, Room, Slots
  <2> QED BY <1>0, <1>5, <2>1, <2>4, <2>5 DEF SlotBelongsToClient, ChangesSlot
<1>6. ASSUME Inside(c), m.type = "game_command", HandleGameCommand(c, m.pause) PROVE FALSE
  <2>1. gameRoomById' = [gameRoomById EXCEPT ![roomIdByClientId[c]] = SetPause(RoomOf(c), m.pause)]
    BY <1>6 DEF HandleGameCommand, UpdateRoom
  <2>2. SetPause(RoomOf(c), m.pause).playerSlots = RoomOf(c).playerSlots
    BY <1>0, <1>6 DEF SetPause, Room
  <2> QED BY <1>0, <1>6, <2>1, <2>2, SameSlots
<1>7. ASSUME Inside(c), HandleRemoveClient(c, m.client) PROVE FALSE
  <2>1. PICK e : gameRoomById' = [gameRoomById EXCEPT ![roomIdByClientId[c]] = RemoveEntry(RoomOf(c), e)]
    BY <1>7, <1>same DEF HandleRemoveClient, UpdateRoom, Ignore
  <2>2. RemoveEntry(RoomOf(c), e).playerSlots = RoomOf(c).playerSlots
    BY <1>0, <1>7 DEF RemoveEntry, Room
  <2> QED BY <1>0, <1>7, <2>1, <2>2, SameSlots
<1>8. ~HandleRequestGameRoomList(c) /\ ~Ignore /\ ~HandleStartGame(c) /\ ~HandleBoard(c, m)
      /\ ~HandleRequestGameRestart(c) /\ ~HandleGameRestart(c, m.blocks)
  BY <1>same DEF HandleRequestGameRoomList, Ignore, HandleStartGame, HandleBoard, HandleRequestGameRestart,
       HandleGameRestart, Relay
<1> QED BY <1>2, <1>3, <1>4, <1>5, <1>6, <1>7, <1>8 DEF Handle

\* Nor does the end of a session change any.
LEMMA SessionEndsSlots ==
  ASSUME ServerTypeOK, NEW c \in Client, SessionEnds(c), NEW r \in RoomId, NEW i \in SlotIndex
  PROVE  ~ChangesSlot(r, i)
<1>1. CASE UNCHANGED gameRoomById
  BY <1>1 DEF ChangesSlot
<1>2. ASSUME Inside(c), ~RoomGone(c), NEW room,
             gameRoomById' = [gameRoomById EXCEPT ![roomIdByClientId[c]] = room],
             room # NoRoom => room.playerSlots = RoomOf(c).playerSlots
      PROVE  ~ChangesSlot(r, i)
  BY <1>2, RoomOfType, SameSlots DEF RoomOf
<1>3. CASE Inside(c) /\ ~RoomGone(c) /\ CloseRoom(c)
  BY <1>2, <1>3 DEF CloseRoom
<1>4. CASE Inside(c) /\ ~RoomGone(c) /\ HandleClientDisconnected(c) /\ ~UNCHANGED gameRoomById
  <2>1. PICK e : gameRoomById' = [gameRoomById EXCEPT ![roomIdByClientId[c]] = RemoveEntry(RoomOf(c), e)]
    BY <1>4 DEF HandleClientDisconnected
  <2>2. RemoveEntry(RoomOf(c), e).playerSlots = RoomOf(c).playerSlots
    BY <1>4, RoomOfType DEF RemoveEntry, Room
  <2> QED BY <1>2, <1>4, <2>1, <2>2
<1> QED BY <1>1, <1>3, <1>4 DEF SessionEnds

\* A slot taken by a player changes only by a message of the client that took it, whatever others
\* send, also of the messages the user interface never sends, and however sessions end.
THEOREM OwnedSlotsAreAlwaysSafe == Spec => OwnedSlotsAreSafe
<1>1. ASSUME ServerTypeOK, [Next]_vars
      PROVE  [\A r \in RoomId, i \in SlotIndex :
               /\ RoomExists(r) /\ gameRoomById'[r] # NoRoom
               /\ gameRoomById[r].playerSlots[i] # OpenSlot
               /\ gameRoomById'[r].playerSlots[i] # gameRoomById[r].playerSlots[i]
               => Receive(gameRoomById[r].playerSlots[i].client)]_vars
  <2> SUFFICES ASSUME NEW r \in RoomId, NEW i \in SlotIndex, ChangesSlot(r, i)
               PROVE  Receive(gameRoomById[r].playerSlots[i].client)
    BY DEF ChangesSlot
  <2>same. ~UNCHANGED gameRoomById
    BY DEF ChangesSlot
  <2>1. PICK c \in Client : Receive(c)
    BY <1>1, <2>same, SessionEndsSlots DEF Next, SpawnCoroutine, SessionFails, vars
  <2>2. PICK m \in ClientMessage : ReceivedFromRemote(c, m)
    BY <2>1 DEF Receive
  <2>3. ~RoomGone(c) /\ Handle(c, m)
    BY <2>2, <2>same DEF ReceivedFromRemote, OutOfRange
  <2>4. gameRoomById[r].playerSlots[i].client = c
    BY <1>1, <2>3, HandleSlots
  <2> QED BY <2>1, <2>4
<1> QED BY <1>1, TypeCorrect, PTL DEF Spec, OwnedSlotsAreSafe

-----------------------------------------------------------------------------
(* What the clients are told *)

\* What users send.
LEMMA RequestTypes ==
  /\ \A isPublic \in BOOLEAN : CreateGameRoom(isPublic) \in ClientMessage
  /\ \A r \in RoomId : JoinGameRoom(r) \in ClientMessage
  /\ LeaveGameRoom \in ClientMessage /\ StartGame \in ClientMessage
  /\ RequestGameRestart \in ClientMessage /\ RequestGameRoomList \in ClientMessage
  /\ \A i \in SlotIndex, request \in SlotRequest : PlayerSlot(i, request) \in ClientMessage
  /\ \A pause_ \in BOOLEAN : GameCommand(pause_) \in ClientMessage
  /\ \A kind \in BoardKind, p \in PlayerId, v \in BoardValue : Board(kind, p, v) \in ClientMessage
  /\ \A b \in Blocks : GameRestart(b) \in ClientMessage
BY DEF ClientMessage, CreateGameRoom, JoinGameRoom, LeaveGameRoom, StartGame, RequestGameRestart,
       RequestGameRoomList, PlayerSlot, GameCommand, Board, GameRestart

\* d has so many entries in a room.
AtMostEntries(d, n) ==
  \E r \in RoomId :
    \/ RoomExists(r) /\ n <= Cardinality(EntriesOf(gameRoomById[r], d))
    \/ gameRoomById'[r] # NoRoom /\ n <= Cardinality(EntriesOf(gameRoomById'[r], d))

\* Everybody registered who is inside the room is sent the message, once or more.
LEMMA CopiesSent ==
  ASSUME NEW room \in Room, NEW m, NEW d \in Client
  PROVE  \E n \in Nat : /\ SendToAllClients(room, m)[d] = [i \in 1 .. n |-> m]
                        /\ n # 0 <=> d \in remoteByClientId /\ HasMember(room, d)
                        /\ n <= Cardinality(EntriesOf(room, d))
<1> DEFINE entries == EntriesOf(room, d)
<1>1. entries \in SUBSET Member
  BY DEF EntriesOf, Room
<1>2. IsFiniteSet(entries) /\ Cardinality(entries) \in Nat
  BY <1>1, EntriesFinite
<1>3. Cardinality(entries) = 0 <=> entries = {}
  BY <1>2, FS_EmptySet
<1>4. entries # {} <=> HasMember(room, d)
  BY DEF EntriesOf, HasMember
<1>5. CASE d \in remoteByClientId
  BY <1>2, <1>3, <1>4, <1>5 DEF SendToAllClients
<1>6. CASE d \notin remoteByClientId
  <2>1. SendToAllClients(room, m)[d] = [i \in 1 .. 0 |-> m]
    BY <1>6 DEF SendToAllClients
  <2> QED BY <1>2, <1>6, <2>1
<1> QED BY <1>5, <1>6

\* Those of a room are told once, the others not.
LEMMA ToldOnce ==
  ASSUME NEW room \in Room, NEW x, NEW d \in Client, sent'[d] = SendToAllClients(room, x)[d], Len(sent'[d]) <= 1
  PROVE  /\ d \in remoteByClientId /\ HasMember(room, d) => sent'[d] = << x >>
         /\ ~(d \in remoteByClientId /\ HasMember(room, d)) => sent'[d] = << >>
<1>1. PICK n \in Nat : /\ SendToAllClients(room, x)[d] = [i \in 1 .. n |-> x]
                       /\ n # 0 <=> d \in remoteByClientId /\ HasMember(room, d)
  BY CopiesSent
<1>2. sent'[d] = [i \in 1 .. n |-> x]
  BY <1>1
<1>3. Len(sent'[d]) = n
  BY <1>2
<1>4. n = 0 \/ n = 1
  BY <1>3
<1>5. n = 0 => sent'[d] = << >>
  BY <1>2
<1>6. n = 1 => sent'[d] = << x >>
  BY <1>2
<1> QED BY <1>1, <1>4, <1>5, <1>6

\* Messages that a view does not depend on.
Plain == {"game_command", "request_game_restart", "game_restart", "remove_client", "game_room_list"} \cup BoardKind

\* The room of c becomes room, in which the same clients are, and those inside are told, or told
\* something else.  Or the room stays as it is: then it need not be told.
RoomTold(c, d, room, n, m) ==
  /\ room.connectedClients = RoomOf(c).connectedClients
  /\ gameRoomById' = [gameRoomById EXCEPT ![roomIdByClientId[c]] = room]
  /\ UNCHANGED roomIdByClientId
  /\ n # 0 => HasMember(room, d)
  /\ n <= Cardinality(EntriesOf(room, d))
  /\ \/ /\ m = GameLooby(room.playerSlots)
        /\ n = 0 => ~HasMember(room, d)
     \/ /\ m = CreateGame(room.playerSlots) \/ m.type \in Plain
        /\ room.playerSlots = RoomOf(c).playerSlots

\* What rooms send.
LEMMA MessagesOfRooms ==
  /\ \A slots \in Slots : GameLooby(slots) \in ServerMessage /\ CreateGame(slots) \in ServerMessage
  /\ \A p \in BOOLEAN : Paused(p) \in ServerMessage /\ Paused(p).type \in Plain
  /\ \A b \in Blocks : AskRestart(b) \in ServerMessage /\ AskRestart(b).type \in Plain
  /\ \A c \in Client, b \in Blocks : Restarted(c, b) \in ServerMessage /\ Restarted(c, b).type \in Plain
  /\ \A c \in Client : ClientRemoved(c) \in ServerMessage /\ ClientRemoved(c).type \in Plain
<1>1. \A slots \in Slots : GameLooby(slots) \in ServerMessage /\ CreateGame(slots) \in ServerMessage
  BY DEF GameLooby, CreateGame, ServerMessage
<1>2. \A p \in BOOLEAN : Paused(p) \in ServerMessage /\ Paused(p).type \in Plain
  BY DEF Paused, ServerMessage, Plain
<1>3. \A b \in Blocks : AskRestart(b) \in ServerMessage /\ AskRestart(b).type \in Plain
  BY DEF AskRestart, ServerMessage, Plain
<1>4. \A c \in Client, b \in Blocks : Restarted(c, b) \in ServerMessage /\ Restarted(c, b).type \in Plain
  BY DEF Restarted, ServerMessage, Plain
<1>5. \A c \in Client : ClientRemoved(c) \in ServerMessage /\ ClientRemoved(c).type \in Plain
  BY DEF ClientRemoved, ServerMessage, Plain
<1> QED BY <1>1, <1>2, <1>3, <1>4, <1>5

-----------------------------------------------------------------------------
(* Clients that come and go *)

Entry == {"create_game_room", "join_game_room"}

\* A message moves nobody but its client, in or out, and in only when it asks for it.
LEMMA HandleMoves ==
  ASSUME ServerTypeOK, NEW c \in Client, NEW m \in ClientMessage, ~RoomGone(c), Handle(c, m),
         m.type # "remove_client"
  PROVE  /\ \A d \in Client : d # c => roomIdByClientId'[d] = roomIdByClientId[d]
         /\ ~Inside(c) /\ m.type \notin Entry => roomIdByClientId'[c] = NoRoom
<1>1. \/ UNCHANGED roomIdByClientId
      \/ m.type \in Entry /\ \E r \in RoomId, room \in Room : Enters(c, r, room)
      \/ Inside(c) /\ HandleLeaveGameRoom(c)
  BY HandleShape DEF Updates, Entry
<1>2. \A r, room : Enters(c, r, room) => roomIdByClientId' = [roomIdByClientId EXCEPT ![c] = r]
  BY DEF Enters, EnterRoom
<1>3. Inside(c) /\ HandleLeaveGameRoom(c) => roomIdByClientId' = [roomIdByClientId EXCEPT ![c] = NoRoom]
  BY DEF HandleLeaveGameRoom
<1> QED BY <1>1, <1>2, <1>3 DEF ServerTypeOK, Inside

\* Clients that do not ask twice are listed once.
LEMMA HandleEntries ==
  ASSUME MembershipInv, OneEntryPerClient, NEW c \in Client, NEW m \in ClientMessage, ~RoomGone(c), Handle(c, m),
         m.type # "remove_client", m.type \in Entry => ~Inside(c)
  PROVE  OneEntryPerClient'
<1>1. CASE UNCHANGED <<roomIdByClientId, gameRoomById>>
  BY <1>1 DEF OneEntryPerClient, RoomExists
<1>2. ASSUME NEW r \in RoomId, NEW room \in Room, Enters(c, r, room), ~Inside(c) PROVE OneEntryPerClient'
  <2>1. PICK k \in room.connectionIds : gameRoomById' = [gameRoomById EXCEPT ![r] = AddClient(room, c, k)]
    BY <1>2 DEF Enters, EnterRoom
  <2> DEFINE joined == AddClient(room, c, k)
             entry == [client |-> c, conn |-> k]
  <2>2. joined.connectedClients = room.connectedClients \cup {entry}
    BY DEF AddClient, Room
  <2>3. entry.client = c
    OBVIOUS
  <2> HIDE DEF joined, entry
  <2>4. /\ gameRoomById'[r] = joined /\ \A q \in RoomId : q # r => gameRoomById'[q] = gameRoomById[q]
    BY <2>1 DEF MembershipInv, ServerTypeOK, joined
  <2>5. /\ \A e \in room.connectedClients : e.client # c
        /\ \A e, f \in room.connectedClients : e.client = f.client => e = f
    <3>1. CASE room.connectedClients = {}
      BY <3>1
    <3>2. CASE RoomExists(r) /\ room = gameRoomById[r]
      <4>1. roomIdByClientId[c] # r
        BY <1>2, NoIdAssumption DEF Inside
      <4>2. ~HasMember(room, c)
        BY <3>2, <4>1 DEF MembershipInv, MembershipAgrees
      <4> QED BY <3>2, <4>2 DEF HasMember, OneEntryPerClient
    <3> QED BY <1>2, <3>1, <3>2 DEF Enters
  <2>6. \A e, f \in joined.connectedClients : e.client = f.client => e = f
    BY <2>2, <2>3, <2>5
  <2> QED BY <2>4, <2>6 DEF OneEntryPerClient, RoomExists
<1>3. CASE Inside(c) /\ HandleLeaveGameRoom(c)
  <2> DEFINE gone == Disconnect(RoomOf(c), c)
  <2>1. /\ roomIdByClientId[c] \in RoomId /\ RoomOf(c) \in Room
        /\ RoomExists(roomIdByClientId[c]) /\ RoomOf(c) = gameRoomById[roomIdByClientId[c]]
    BY <1>3, RoomOfType DEF RoomGone, RoomOf, MembershipInv
  <2>2. gameRoomById' = [gameRoomById EXCEPT ![roomIdByClientId[c]] = IF IsEmpty(gone) THEN NoRoom ELSE gone]
    BY <1>3 DEF HandleLeaveGameRoom
  <2>3. gone.connectedClients \subseteq RoomOf(c).connectedClients
    BY <2>1 DEF Disconnect, Room
  <2> HIDE DEF gone
  <2> QED BY <2>1, <2>2, <2>3 DEF OneEntryPerClient, RoomExists, MembershipInv, ServerTypeOK
<1>4. CASE Updates(c)
  <2>1. PICK room \in Room :
          /\ gameRoomById' = [gameRoomById EXCEPT ![roomIdByClientId[c]] = room]
          /\ room.connectedClients = RoomOf(c).connectedClients
    BY <1>4 DEF Updates
  <2>2. /\ roomIdByClientId[c] \in RoomId /\ RoomExists(roomIdByClientId[c])
        /\ RoomOf(c) = gameRoomById[roomIdByClientId[c]]
    BY <1>4, RoomOfType DEF Updates, RoomGone, RoomOf, MembershipInv
  <2> QED BY <2>1, <2>2 DEF OneEntryPerClient, RoomExists, MembershipInv, ServerTypeOK
<1> QED BY <1>1, <1>2, <1>3, <1>4, HandleShape DEF MembershipInv, Entry

\* With one entry per client, the end of a session takes the client out of its room, and the room
\* along when nobody else is inside.
EndsIn(c, r, gone) ==
  /\ roomIdByClientId[c] = r /\ RoomExists(r)
  /\ roomIdByClientId' = [roomIdByClientId EXCEPT ![c] = NoRoom]
  /\ gameRoomById' = [gameRoomById EXCEPT ![r] = gone]
  /\ \/ /\ gone = NoRoom /\ sent' = NoMessages
        /\ \A d \in Client : HasMember(gameRoomById[r], d) => d = c
     \/ /\ gone \in Room /\ sent' = SendToAllClients(gone, ClientRemoved(c))
        /\ gone.connectedClients = {e \in gameRoomById[r].connectedClients : e.client # c}
        /\ gone.connectedClients # {}
        /\ gone.playerSlots = gameRoomById[r].playerSlots

\* A session that ends, by cases.
LEMMA EndShape ==
  ASSUME MembershipInv, OneEntryPerClient, NEW c \in Client, SessionEnds(c)
  PROVE  \/ sent' = NoMessages /\ UNCHANGED <<roomIdByClientId, gameRoomById>>
         \/ \E r \in RoomId : \E gone : EndsIn(c, r, gone)
<1> DEFINE r == roomIdByClientId[c]
           room == RoomOf(c)
<1>1. CASE ~Inside(c) \/ RoomGone(c)
  <2>1. ~RoomGone(c)
    BY MembersRoomExists DEF RoomOfClientExists, RoomGone
  <2> QED BY <1>1, <2>1 DEF SessionEnds
<1>2. CASE Inside(c) /\ ~RoomGone(c)
  <2>1. r \in RoomId /\ room \in Room /\ RoomExists(r) /\ room = gameRoomById[r]
    BY <1>2, RoomOfType DEF MembershipInv, RoomGone, RoomOf
  <2>2. roomIdByClientId' = [roomIdByClientId EXCEPT ![c] = NoRoom]
    BY <1>2 DEF SessionEnds
  <2>3. HasMember(room, c)
    BY <2>1 DEF MembershipInv, MembershipAgrees
  <2>4. PICK e \in room.connectedClients : e.client = c
    BY <2>3 DEF HasMember
  <2>5. \A f \in room.connectedClients : f.client = c => f = e
    BY <2>1, <2>4 DEF OneEntryPerClient
  <2>6. room.connectedClients \in SUBSET Member
    BY <2>1 DEF Room
  <2>7. IsFiniteSet(room.connectedClients) /\ Cardinality(room.connectedClients) \in Nat
    BY <2>6, EntriesFinite
  <2>8. /\ r = roomIdByClientId[c]
        /\ CloseRoom(c) => /\ Cardinality(room.connectedClients) < 2
                           /\ gameRoomById' = [gameRoomById EXCEPT ![r] = NoRoom]
                           /\ sent' = NoMessages
        /\ HandleClientDisconnected(c) =>
             /\ Cardinality(room.connectedClients) >= 2
             /\ \/ \E f \in EntriesOf(room, c) :
                     /\ gameRoomById' = [gameRoomById EXCEPT ![r] = RemoveEntry(room, f)]
                     /\ sent' = SendToAllClients(RemoveEntry(room, f), ClientRemoved(c))
                \/ EntriesOf(room, c) = {}
    BY DEF CloseRoom, HandleClientDisconnected
  <2> HIDE DEF r, room
  <2>9. CASE CloseRoom(c)
    <3>1. Cardinality(room.connectedClients) = 1
      <4>1. Cardinality(room.connectedClients) # 0
        BY <2>4, <2>7, FS_EmptySet
      <4> QED BY <2>7, <2>8, <2>9, <4>1
    <3>2. PICK f : room.connectedClients = {f}
      BY <2>7, <3>1, FS_Singleton
    <3>3. \A d \in Client : HasMember(gameRoomById[r], d) => d = c
      BY <2>1, <2>4, <3>2 DEF HasMember
    <3>4. EndsIn(c, r, NoRoom)
      BY <2>1, <2>2, <2>8, <2>9, <3>3 DEF EndsIn
    <3> QED BY <2>1, <3>4
  <2>10. CASE HandleClientDisconnected(c)
    <3>1. e \in EntriesOf(room, c)
      BY <2>4 DEF EntriesOf
    <3>2. PICK f \in EntriesOf(room, c) :
            /\ gameRoomById' = [gameRoomById EXCEPT ![r] = RemoveEntry(room, f)]
            /\ sent' = SendToAllClients(RemoveEntry(room, f), ClientRemoved(c))
      BY <2>8, <2>10, <3>1
    <3>3. f = e
      BY <2>5, <3>2 DEF EntriesOf
    <3> DEFINE gone == RemoveEntry(room, f)
    <3>4. gone \in Room
      BY <2>1, RoomOperationsType
    <3>5. gone.connectedClients = room.connectedClients \ {e} /\ gone.playerSlots = room.playerSlots
      BY <2>1, <3>3 DEF RemoveEntry, Room
    <3>6. gone.connectedClients = {g \in room.connectedClients : g.client # c}
      BY <2>4, <2>5, <3>5
    <3>7. gone.connectedClients # {}
      <4>1. SUFFICES ASSUME gone.connectedClients = {} PROVE FALSE
        OBVIOUS
      <4>2. room.connectedClients = {e}
        BY <2>4, <3>5, <4>1
      <4>3. Cardinality(room.connectedClients) = 1
        BY <4>2, FS_Singleton
      <4> QED BY <2>8, <2>10, <4>3
    <3> HIDE DEF gone
    <3>8. EndsIn(c, r, gone)
      BY <2>1, <2>2, <2>8, <3>2, <3>4, <3>5, <3>6, <3>7 DEF EndsIn, gone
    <3> QED BY <2>1, <3>8
  <2> QED BY <1>2, <2>9, <2>10 DEF SessionEnds
<1> QED BY <1>1, <1>2

\* Members and rooms still agree, with one entry per client, when a session has ended.
LEMMA EndsMembership ==
  ASSUME MembershipInv, OneEntryPerClient, NEW c \in Client, SessionEnds(c)
  PROVE  MembershipAgrees' /\ NoEmptyRoom' /\ OneEntryPerClient'
<1>1. CASE UNCHANGED <<roomIdByClientId, gameRoomById>>
  BY <1>1 DEF MembershipInv, MembershipAgrees, NoEmptyRoom, OneEntryPerClient, RoomExists
<1>2. ASSUME NEW r \in RoomId, NEW gone, EndsIn(c, r, gone)
      PROVE  MembershipAgrees' /\ NoEmptyRoom' /\ OneEntryPerClient'
  <2>1. /\ gameRoomById'[r] = gone /\ \A q \in RoomId : q # r => gameRoomById'[q] = gameRoomById[q]
        /\ \A d \in Client : roomIdByClientId'[d] = IF d = c THEN NoRoom ELSE roomIdByClientId[d]
        /\ roomIdByClientId[c] = r /\ RoomExists(r)
    BY <1>2 DEF EndsIn, MembershipInv, ServerTypeOK
  <2>2. ASSUME NEW d \in Client
        PROVE  (gone # NoRoom /\ HasMember(gone, d)) <=> (d # c /\ HasMember(gameRoomById[r], d))
    <3>1. CASE gone = NoRoom
      BY <1>2, <3>1, NoRoomAssumption DEF EndsIn
    <3>2. CASE gone # NoRoom
      BY <1>2, <3>2 DEF EndsIn, HasMember
    <3> QED BY <3>1, <3>2
  <2>3. MembershipAgrees'
    <3> SUFFICES ASSUME NEW d \in Client, NEW q \in RoomId
                 PROVE  roomIdByClientId'[d] = q <=> gameRoomById'[q] # NoRoom /\ HasMember(gameRoomById'[q], d)
      BY DEF MembershipAgrees, RoomExists
    <3>1. roomIdByClientId[d] = q <=> gameRoomById[q] # NoRoom /\ HasMember(gameRoomById[q], d)
      BY DEF MembershipInv, MembershipAgrees, RoomExists
    <3>2. q # NoRoom
      BY NoIdAssumption
    <3>3. CASE q = r
      <4>1. HasMember(gameRoomById[r], d) <=> roomIdByClientId[d] = r
        BY <2>1, <3>1, <3>3 DEF RoomExists
      <4> QED BY <2>1, <2>2, <3>2, <3>3, <4>1
    <3>4. CASE q # r
      BY <2>1, <3>1, <3>2, <3>4
    <3> QED BY <3>3, <3>4
  <2>4. NoEmptyRoom'
    BY <1>2, <2>1 DEF EndsIn, MembershipInv, NoEmptyRoom, RoomExists
  <2>5. OneEntryPerClient'
    <3>1. gone # NoRoom => gone.connectedClients \subseteq gameRoomById[r].connectedClients
      BY <1>2 DEF EndsIn
    <3> QED BY <2>1, <3>1 DEF OneEntryPerClient, RoomExists
  <2> QED BY <2>3, <2>4, <2>5
<1> QED BY <1>1, <1>2, EndShape

-----------------------------------------------------------------------------
(* Who sits in which slot *)

\* The first n slots are taken, and no others.
TakenInOrder(slots, n) ==
  /\ slots \in Slots /\ n \in 0 .. NumSlots
  /\ \A i \in SlotIndex : slots[i] # OpenSlot <=> i < n

\* The slots of the players are taken.
LEMMA TakenSlots ==
  ASSUME NEW slots, NEW n, TakenInOrder(slots, n), NEW k \in 1 .. n
  PROVE  /\ k - 1 \in SlotIndex /\ slots[k - 1] # OpenSlot
         /\ slots[k - 1].client \in Client /\ slots[k - 1].player \in PlayerId
<1>1. k - 1 \in SlotIndex /\ k - 1 < n
  BY SizeAssumption DEF TakenInOrder, SlotIndex
<1>2. slots[k - 1] # OpenSlot /\ slots[k - 1] \in Slot
  BY <1>1 DEF TakenInOrder, Slots
<1> QED BY <1>1, <1>2 DEF Slot

\* Without an open slot before a taken one, the taken ones are the first.
LEMMA InOrder ==
  ASSUME NEW slots \in Slots,
         \A i, j \in SlotIndex : i < j /\ slots[j] # OpenSlot => slots[i] # OpenSlot
  PROVE  \E n : TakenInOrder(slots, n)
<1>0. NumSlots \in Nat /\ SlotIndex = 0 .. NumSlots - 1
  BY SizeAssumption DEF SlotIndex
<1> DEFINE end == {k \in 0 .. NumSlots : k = NumSlots \/ slots[k] = OpenSlot}
<1>1. end \in SUBSET Nat /\ end # {}
  <2>1. NumSlots \in end
    BY <1>0
  <2>2. \A k \in end : k \in Nat
    BY <1>0
  <2> HIDE DEF end
  <2> QED BY <2>1, <2>2
<1>2. PICK n \in end : \A k \in end : n <= k
  <2> HIDE DEF end
  <2> QED BY <1>1, LeastExists
<1>3. \A i \in SlotIndex : i < n => slots[i] # OpenSlot
  BY <1>0, <1>2
<1>4. \A i \in SlotIndex : i >= n => slots[i] = OpenSlot
  <2> SUFFICES ASSUME NEW i \in SlotIndex, i >= n, slots[i] # OpenSlot PROVE FALSE
    OBVIOUS
  <2>1. n \in SlotIndex /\ slots[n] = OpenSlot
    BY <1>0, <1>2
  <2> QED BY <1>0, <2>1
<1>5. \A i \in SlotIndex : slots[i] # OpenSlot <=> i < n
  BY <1>0, <1>2, <1>3, <1>4
<1> QED BY <1>0, <1>2, <1>5 DEF TakenInOrder

\* No player sits in two slots.
DistinctPlayers(slots) ==
  \A i, j \in SlotIndex : slots[i] # OpenSlot /\ slots[i].player = slots[j].player => i = j

\* The players of a room are different.
RoomsDistinct == \A r \in RoomId : RoomExists(r) => DistinctPlayers(gameRoomById[r].playerSlots)

\* One room changes.
LEMMA RoomDistinct ==
  ASSUME ServerTypeOK, RoomsDistinct, NEW r \in RoomId, NEW room,
         gameRoomById' = [gameRoomById EXCEPT ![r] = room],
         room # NoRoom => DistinctPlayers(room.playerSlots)
  PROVE  RoomsDistinct'
<1> SUFFICES ASSUME NEW q \in RoomId, gameRoomById'[q] # NoRoom
             PROVE  DistinctPlayers(gameRoomById'[q].playerSlots)
  BY DEF RoomsDistinct, RoomExists, DistinctPlayers
<1>1. gameRoomById'[q] = IF q = r THEN room ELSE gameRoomById[q]
  BY DEF ServerTypeOK
<1> QED BY <1>1 DEF RoomsDistinct, RoomExists

\* Who enters takes no slot.
LEMMA EnterDistinct ==
  ASSUME ServerTypeOK, RoomsDistinct, NEW c, NEW r \in RoomId, NEW room \in Room, DistinctPlayers(room.playerSlots),
         EnterRoom(c, r, room)
  PROVE  RoomsDistinct'
<1>1. PICK k \in room.connectionIds : gameRoomById' = [gameRoomById EXCEPT ![r] = AddClient(room, c, k)]
  BY DEF EnterRoom
<1> DEFINE new == AddClient(room, c, k)
<1>2. DistinctPlayers(new.playerSlots)
  <2>1. new.playerSlots = room.playerSlots
    BY DEF AddClient, Room
  <2> QED BY <2>1
<1> HIDE DEF new
<1> QED BY <1>1, <1>2, RoomDistinct DEF new

\* A player is taken that no slot has.
LEMMA SlotDistinct ==
  ASSUME NEW room \in Room, DistinctPlayers(room.playerSlots), NEW i \in SlotIndex, NEW slot \in Slot,
         slot = OpenSlot \/ \A j \in SlotIndex : room.playerSlots[j].player # slot.player
  PROVE  DistinctPlayers(SetSlot(room, i, slot).playerSlots)
<1> DEFINE new == SetSlot(room, i, slot).playerSlots
<1>1. \A j \in SlotIndex : new[j] = IF j = i THEN slot ELSE room.playerSlots[j]
  BY DEF SetSlot, Room, Slots
<1>2. \A s \in Slot : s # OpenSlot => s.player \in PlayerId
  BY DEF Slot
<1>3. slot \in Slot /\ \A j \in SlotIndex : room.playerSlots[j] \in Slot
  BY DEF Room, Slots
<1>4. OpenSlot.player \notin PlayerId
  BY NoIdAssumption DEF OpenSlot
<1> HIDE DEF new
<1> SUFFICES ASSUME NEW j \in SlotIndex, NEW k \in SlotIndex, new[j] # OpenSlot, new[j].player = new[k].player
             PROVE  j = k
  BY DEF DistinctPlayers, new
<1>5. new[j] \in Slot /\ new[k] \in Slot /\ new[k] # OpenSlot
  BY <1>1, <1>2, <1>3, <1>4
<1>6. CASE j # i /\ k # i
  BY <1>1, <1>6 DEF DistinctPlayers
<1>7. CASE j = i /\ k # i
  BY <1>1, <1>7
<1>8. CASE j # i /\ k = i
  BY <1>1, <1>5, <1>8
<1> QED BY <1>6, <1>7, <1>8
=============================================================================
