\* Requests that must be answered, with sessions ended as their handler means.
CONSTANTS
  Client = {c1, c2}
  RoomId = {r1}
  PlayerId = {p1, p2}
  ConnectionId = {k1, k2}
  MaxClients = 2
  NumSlots = 2
  BoardValue = {v1}
  GameOver = v1
  Blocks = {b1}
  NoClient = NoClient
  NoRoom = NoRoom
  NoPlayer = NoPlayer
  RepeatedRequests = FALSE
  KickRequests = FALSE
  RethrowAsSystemError = TRUE
  Budgets <- MCAnswerBudgets
SPECIFICATION FairSessionSpec
INVARIANT ServerRecordsAgree
PROPERTIES
  RequestsAreAnswered
  ServerSpec
CHECK_DEADLOCK FALSE
