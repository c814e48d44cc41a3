SPECIFICATION FairSpec
CONSTANTS
  QUAD_NB = 2
  LEADER = 1
  DOWN_CAP = 1
  UP_CAP = 1
  DIRECTIONS = {"north"}
  LOSSY = FALSE
  PILOT = FALSE
  BUTTONS = {"takeoff"}
  RESTARTS = FALSE
  START = {"engine"}
PROPERTIES TakeoffEnds
CHECK_DEADLOCK FALSE
