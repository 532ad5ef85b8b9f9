\* Three players on two clients.
CONSTANTS
  c1 = c1
  c2 = c2
  p1 = p1
  p2 = p2
  p3 = p3
  Client = {c1, c2}
  Player = {p1, p2, p3}
  Owner <- MCOwner
  Order <- MCOrder
  LevelUpNbr = 4
  Plans <- MCPlans
SPECIFICATION Spec
INVARIANTS
  NobodyPlaysAlone
  PlacesAgree
  ScoreFollowsRows
CHECK_DEADLOCK FALSE
