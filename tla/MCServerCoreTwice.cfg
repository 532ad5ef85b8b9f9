\* A refused request.
CONSTANTS
  Client = {c1}
  RoomId = {r1}
  PlayerId = {}
  ConnectionId = {k1, k2}
  MaxClients = 2
  NumSlots = 0
  BoardValue = {v1}
  Blocks = {b1}
  NoClient = NoClient
  NoRoom = NoRoom
  NoPlayer = NoPlayer
  RepeatedRequests = TRUE
  KickRequests = FALSE
  RethrowAsSystemError = FALSE
SPECIFICATION Spec
INVARIANT OneEntryPerClient
CHECK_DEADLOCK FALSE
