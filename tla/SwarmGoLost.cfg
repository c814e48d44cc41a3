SPECIFICATION Spec
CONSTANTS
  QUAD_NB = 3
  LEADER = 1
  DOWN_CAP = 1
  UP_CAP = 1
  DIRECTIONS = {"north", "south"}
  LOSSY = TRUE
  PILOT = FALSE
  BUTTONS = {"go", "execute"}
  RESTARTS = FALSE
  START = {"flying"}
PROPERTIES GoDelivers
CHECK_DEADLOCK FALSE
