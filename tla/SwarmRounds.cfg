SPECIFICATION FairClockSpec
CONSTANTS
  QUAD_NB = 2
  LEADER = 1
  DOWN_CAP = 1
  UP_CAP = 1
  DIRECTIONS = {"north"}
  LOSSY = TRUE
  PILOT = FALSE
  BUTTONS = {"end_negotiate", "start_engine", "go", "execute"}
  RESTARTS = FALSE
  START = {"negotiated", "flying"}
PROPERTIES NegotiationEnds RoundEnds
CHECK_DEADLOCK FALSE
