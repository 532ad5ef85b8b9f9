\* A start with a slot left open.
CONSTANTS
  Client = {c1}
  RoomId = {r1}
  PlayerId = {p1}
  ConnectionId = {k1, k2}
  MaxClients = 2
  NumSlots = 2
  BoardValue = {v1}
  GameOver = v1
  Blocks = {b1}
  NoClient = NoClient
  NoRoom = NoRoom
  NoPlayer = NoPlayer
  RepeatedRequests = FALSE
  KickRequests = FALSE
  RethrowAsSystemError = FALSE
  Budgets <- MCOpenSlotBudgets
SPECIFICATION SessionSpec
INVARIANT PlayersMatchSlots
CHECK_DEADLOCK FALSE
