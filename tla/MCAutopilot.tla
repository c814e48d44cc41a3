---------------------------- MODULE MCAutopilot ----------------------------
(***************************************************************************)
(* Model of module Autopilot for TLC, with one history variable: whether   *)
(* the pilot made the arming gesture since the motors were last on.  It is *)
(* what the comments of the three arming headers ask for before the motors *)
(* may start on an RC frame.  In FAILSAFE autopilot_on_rc_frame stops after *)
(* the mode, so the yaw state machine does not see the frame.              *)
(***************************************************************************)
EXTENDS Autopilot

VARIABLE gesture   \* consecutive frames of the gesture, or 1 once it was seen

mcvars == <<ap, ahrs, rc_ok, gps_lost, gesture>>

(* The gesture each header asks of the pilot (for the yaw stick, held for  *)
(* ARMING_DELAY frames).                                                   *)
Gesture(s) ==
  CASE ARMING = "yaw"      -> YawGesture(s)
    [] ARMING = "throttle" -> ~s.throttle_down /\ s.centered
    [] OTHER               -> s.throttle_down /\ s.centered /\ ~s.kill_switch

GestureAfter(s) ==
  IF ARMING = "yaw"
  THEN IF ap'.mode = AP_MODE_FAILSAFE THEN gesture
       ELSE IF Gesture(s) THEN (IF gesture < ARMING_DELAY THEN gesture + 1 ELSE gesture)
       ELSE IF gesture >= ARMING_DELAY /\ ~ap.motors_on THEN gesture ELSE 0
  ELSE IF Gesture(s) \/ (gesture = 1 /\ ~ap.motors_on) THEN 1 ELSE 0

MCInit == Init /\ gesture = 0

MCRcFrame(s) == RcFrame(s) /\ gesture' = GestureAfter(s)

MCOther ==
  /\ \/ RcTimeout
     \/ AutopilotPeriodic
     \/ FailsafeCheck
     \/ DetectGroundEvent
     \/ AhrsAlign
     \/ GpsChange
     \/ \E m \in AUTO2_CHOICES : SettingAuto2(m)
     \/ \E kill \in BOOLEAN : SettingKillThrottle(kill)
     \/ \E m \in {AP_MODE_KILL, AP_MODE_NAV} : SwarmAckMode(m)
  /\ gesture' = IF ap.motors_on /\ ~ap'.motors_on THEN 0 ELSE gesture

MCNext == (\E s \in Sticks : MCRcFrame(s)) \/ MCOther

MCSpec == MCInit /\ [][MCNext]_mcvars

(* The motors start on an RC frame only after the gesture the arming       *)
(* header's comment describes, made since they were last on.               *)
StartNeedsGesture ==
  [][ (\E s \in Sticks : RcFrame(s)) /\ ~ap.motors_on /\ ap'.motors_on =>
        gesture' >= (IF ARMING = "yaw" THEN ARMING_DELAY ELSE 1) ]_mcvars
=============================================================================
