SPECIFICATION AppSpec
CONSTANTS
  Second = 2
  FrameTimes = {1, 3}
  MaxMoves = 3
  NbrHighScoreResults = 3
  MaxPoints = 3
  MaxResults = 4
  Days = 2
  Guid <- MCGuid
  Slots = 3
  RoomSlots <- MCRoomSlots
  RoomPlayers <- MCRoomPlayers
  Plans <- MCPlans
INVARIANTS
  MenuTellsPause
  ScenesAgree
  SavedGameIsCurrent
  ClosedGameResumes
  NobodySharesADevice
  PlacementAgrees
PROPERTIES
  PausingSpec
  CountdownEnds
CHECK_DEADLOCK FALSE
