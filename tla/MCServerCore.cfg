\* The code as it is, with clients that ask again before they are answered.
CONSTANTS
  Client = {c1, c2, c3}
  RoomId = {r1, r2}
  PlayerId = {}
  ConnectionId = {k1, k2, k3}
  MaxClients = 2
  NumSlots = 0
  BoardValue = {v1}
  Blocks = {b1}
  NoClient = NoClient
  NoRoom = NoRoom
  NoPlayer = NoPlayer
  RepeatedRequests = TRUE
  KickRequests = FALSE
  RethrowAsSystemError = FALSE
SPECIFICATION Spec
SYMMETRY MCSymmetry
INVARIANTS
  MembershipAgrees
  ConnectionIdsConserved
PROPERTY MembershipSpec
CHECK_DEADLOCK FALSE
