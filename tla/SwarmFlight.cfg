SPECIFICATION Spec
CONSTANTS
  QUAD_NB = 2
  LEADER = 1
  DOWN_CAP = 1
  UP_CAP = 1
  DIRECTIONS = {north, south}
  LOSSY = TRUE
  PILOT = FALSE
  BUTTONS = {"go", "execute", "land_here"}
  RESTARTS = FALSE
  START = {"flying"}
INVARIANTS TypeOK
PROPERTIES ImplementsRound FollowersOwnTarget LandingStands
CHECK_DEADLOCK FALSE
SYMMETRY MCDirections
