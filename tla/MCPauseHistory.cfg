\* Rooms and games.
CONSTANTS
  Client = {c1, c2}
  RoomId = {r1, r2}
  PlayerId = {p1, p2}
  ConnectionId = {k1, k2}
  MaxClients = 2
  NumSlots = 2
  BoardValue = {v1}
  GameOver = v1
  Blocks = {b1}
  NoClient = NoClient
  NoRoom = NoRoom
  NoPlayer = NoPlayer
  RepeatedRequests = TRUE
  KickRequests = FALSE
  RethrowAsSystemError = FALSE
  Budgets <- MCHistoryBudgets
SPECIFICATION MCSpec
SYMMETRY MCSymmetry
INVARIANTS
  RoomAgreesWhenQuiet
  LobbyAgreesWhenQuiet
  CopyFollowsOwner
  CopyCatchesUp
  PauseAgreesWhenQuiet
CHECK_DEADLOCK FALSE
