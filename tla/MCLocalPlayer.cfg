SPECIFICATION PlayerSpec
CONSTANTS
  Columns = 4
  Rows = 5
  DAS = 3
  ARR = 2
  DownWait = 2
  Gravity = 6
  AREDuration = 2
  MaxSteps = 2
  AiColumns = 5
  AiRows = 8
  AiGravity = 3
  Plans <- MCPlans
  AiPlans <- MCAiPlans
INVARIANTS
  KeysAreObeyed
  StateIsReached
  HolesAgree
PROPERTIES
  HumanGameEnds
CHECK_DEADLOCK FALSE
