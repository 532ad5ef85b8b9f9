--------------------------- MODULE RoomMembership ---------------------------
(***************************************************************************)
(* What the server promises about its rooms, whatever order requests come   *)
(* in: a client is in one room at most, a room is open exactly while        *)
(* somebody is inside, only the client itself enters or leaves, and a room  *)
(* never has more clients than places.  ServerCore implements it.           *)
(***************************************************************************)
EXTENDS Naturals, FiniteSets

CONSTANTS Client, RoomId, NoRoom, MaxClients

VARIABLE room  \* the room each client is in, or NoRoom

Occupants(r) == {c \in Client : room[c] = r}

Init == room = [c \in Client |-> NoRoom]

\* A client opens a room of its own.
Open(c, r) ==
  /\ room[c] = NoRoom
  /\ Occupants(r) = {}
  /\ room' = [room EXCEPT ![c] = r]

\* A client enters an open room that has a place left.
Join(c, r) ==
  /\ room[c] = NoRoom
  /\ Occupants(r) # {}
  /\ Cardinality(Occupants(r)) < MaxClients
  /\ room' = [room EXCEPT ![c] = r]

\* A client leaves its room; the last one closes it.
Leave(c) ==
  /\ room[c] # NoRoom
  /\ room' = [room EXCEPT ![c] = NoRoom]

Next == \E c \in Client : Leave(c) \/ \E r \in RoomId : Open(c, r) \/ Join(c, r)

Spec == Init /\ [][Next]_room
=============================================================================
