\* Every message, slots included, from clients that remove each other, and sessions that end.
CONSTANTS
  Client = {c1, c2, c3}
  RoomId = {r1}
  PlayerId = {p1, p2}
  ConnectionId = {k1, k2, k3}
  MaxClients = 2
  NumSlots = 1
  BoardValue = {v1}
  Blocks = {b1}
  NoClient = NoClient
  NoRoom = NoRoom
  NoPlayer = NoPlayer
  RepeatedRequests = FALSE
  KickRequests = TRUE
  RethrowAsSystemError = TRUE
SPECIFICATION Spec
SYMMETRY MCSymmetry
INVARIANTS
  ServerTypeOK
  ConnectionIdsUnique
PROPERTY OwnedSlotsAreSafe
CHECK_DEADLOCK FALSE
