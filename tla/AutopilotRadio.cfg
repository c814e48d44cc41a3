CONSTANTS
  PPM_NB_CHANNEL = 2
  RC_LOST_TIME = 1
  RC_REALLY_LOST_TIME = 2
  RC_OK_CPT = 2
  ARMING = "switch"
  ARMING_DELAY = 2
  MODE_MANUAL = 3
  MODE_AUTO1 = 11
  MODE_AUTO2 = 12
  AUTO2_CHOICES = {}
  IN_FLIGHT_TIME = 2
  AHRS_KILL = TRUE
  FAILSAFE_GROUND_DETECT = FALSE
  KILL_ON_GROUND_DETECT = FALSE
  KILL_AS_FAILSAFE = FALSE
  NO_GPS_LOST_WITH_RC_VALID = FALSE
SPECIFICATION MCSpec
INVARIANTS TypeOK FreshRadio
PROPERTIES FramesAreWhole SteadyBeforeOk RcLossHandled SilenceEndsInFailsafe RcRecovers
