SPECIFICATION Spec
CONSTANTS
  QUAD_NB = 2
  LEADER = 1
  DOWN_CAP = 1
  UP_CAP = 1
  DIRECTIONS = {"north"}
  LOSSY = TRUE
  PILOT = TRUE
  BUTTONS = {"go", "execute"}
  RESTARTS = TRUE
  START = {"flying"}
INVARIANTS OwnWaypoint
PROPERTIES NoneLeftBehind
CHECK_DEADLOCK FALSE
