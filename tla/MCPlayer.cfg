\* A player and a copy of it.
CONSTANTS
  Columns = 4
  Rows = 6
  Moves <- MCMoves
  ExternalRow <- MCExternalRow
  Plans <- MCPlans
  MaxUpdates = 2
SPECIFICATION Spec
INVARIANTS
  TypeOK
  LandsInside
  NoRowFloats
  SavedBoardIsLoaded
  CopyEqualsOwner
PROPERTIES
  NothingIsOverwritten
  FilledRowsGo
CHECK_DEADLOCK FALSE
