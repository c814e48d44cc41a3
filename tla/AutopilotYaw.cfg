CONSTANTS
  ARMING = "yaw"
  ARMING_DELAY = 2
  MODE_MANUAL = 3
  MODE_AUTO1 = 5
  MODE_AUTO2 = 12
  AUTO2_CHOICES = {0, 4}
  IN_FLIGHT_TIME = 2
  AHRS_KILL = TRUE
  FAILSAFE_GROUND_DETECT = TRUE
  KILL_ON_GROUND_DETECT = FALSE
  KILL_AS_FAILSAFE = TRUE
  NO_GPS_LOST_WITH_RC_VALID = TRUE
SPECIFICATION MCSpec
INVARIANTS TypeOK MotorsNeedAhrs InFlightCounter GuidanceFollowsMode CountdownArmed
PROPERTIES StartsInActiveMode 
