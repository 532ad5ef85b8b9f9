------------------------------ MODULE GameRoom ------------------------------
(***************************************************************************)
(* One game room of the server (Network_Lib, class GameRoom): its state as  *)
(* a record, and what each operation makes of it.                           *)
(*                                                                         *)
(* connectedClients_ is a vector whose entries carry distinct connection    *)
(* ids, so it is a set of entries here: its order is only seen in the       *)
(* roster a client draws.  connectionIds_, the list of ids nobody holds, is *)
(* a set: which free id a client gets (a colour in the lobby) is left open. *)
(***************************************************************************)
EXTENDS Protocol

\* The state of a room.
Room == [isPublic : BOOLEAN,
         connectedClients : SUBSET Member,
         connectionIds : SUBSET ConnectionId,
         playerSlots : Slots,
         paused : BOOLEAN]

ASSUME NoRoomAssumption == NoRoom \notin Room

NewRoom(isPublic) ==
  [isPublic |-> isPublic,
   connectedClients |-> {},
   connectionIds |-> ConnectionId,
   playerSlots |-> [i \in SlotIndex |-> OpenSlot],
   paused |-> FALSE]

EntriesOf(room, c) == {e \in room.connectedClients : e.client = c}

HasMember(room, c) == \E e \in room.connectedClients : e.client = c

IsFull(room) == Cardinality(room.connectedClients) >= MaxClients

IsEmpty(room) == room.connectedClients = {}

\* Mutant of AddClient: the id is read from the list and stays there.
AddClientKeepingId(room, c, k) ==
  [room EXCEPT !.connectedClients = @ \cup {[client |-> c, conn |-> k]}]

\* sendJoinGameRoom: c takes the free connection id k.  Nothing looks whether c is inside already.
AddClient(room, c, k) ==
  [room EXCEPT !.connectedClients = @ \cup {[client |-> c, conn |-> k]},
               !.connectionIds = @ \ {k}]

\* Mutants of Disconnect: only the first entry goes; remove_if without erase; the ids are not returned.
DisconnectFirst(room, c) ==
  LET e == CHOOSE e \in EntriesOf(room, c) : TRUE
  IN  [room EXCEPT !.connectedClients = @ \ {e}, !.connectionIds = @ \cup {e.conn}]
DisconnectKeepingIds(room, c) ==
  [room EXCEPT !.connectedClients = @ \ EntriesOf(room, c)]

\* disconnect: every entry of c goes and its connection id can be used again.  c keeps its slots.
Disconnect(room, c) ==
  [room EXCEPT !.connectedClients = @ \ EntriesOf(room, c),
               !.connectionIds = @ \cup {e.conn : e \in EntriesOf(room, c)}]

\* removeClientFromGameRoom: the first entry of a client goes, its connection id with it.
RemoveEntry(room, e) == [room EXCEPT !.connectedClients = @ \ {e}]

\* Mutant of SlotBelongsToClient: the owner of the slot is not looked at.
SlotBelongsToAnybody(room, c, i) == TRUE

SlotBelongsToClient(room, c, i) ==
  room.playerSlots[i] = OpenSlot \/ room.playerSlots[i].client = c

SetSlot(room, i, slot) == [room EXCEPT !.playerSlots[i] = slot]

SetPause(room, pause) == [room EXCEPT !.paused = pause]
=============================================================================
