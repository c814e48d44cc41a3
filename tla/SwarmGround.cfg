SPECIFICATION Spec
CONSTANTS
  QUAD_NB = 2
  LEADER = 1
  DOWN_CAP = 1
  UP_CAP = 1
  DIRECTIONS = {"north"}
  LOSSY = TRUE
  PILOT = FALSE
  BUTTONS = {"init", "end_negotiate", "start_engine", "takeoff", "go", "execute"}
  RESTARTS = FALSE
  START = {"ground"}
INVARIANTS TargetReferenced
CHECK_DEADLOCK FALSE
