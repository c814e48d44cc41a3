------------------------------- MODULE Arming -------------------------------
(***************************************************************************)
(* The motor arming state machines of the rotorcraft firmware:             *)
(*   sw/airborne/firmwares/rotorcraft/autopilot_arming_yaw.h               *)
(*   sw/airborne/firmwares/rotorcraft/autopilot_arming_throttle.h          *)
(*   sw/airborne/firmwares/rotorcraft/autopilot_arming_switch.h            *)
(* autopilot.c includes exactly one of them, so ARMING is a constant.  Each *)
(* gives autopilot_arming_init, autopilot_arming_set and                   *)
(* autopilot_arming_check_motors_on; here they are operators on the        *)
(* autopilot's state record "a" (module Autopilot), of which they read     *)
(* a.mode and write a.motors_on and the fields arming, arming_counter and  *)
(* unarmed_in_auto.                                                        *)
(***************************************************************************)
EXTENDS Naturals

CONSTANTS
  ARMING,        \* which header autopilot.c includes: "yaw", "throttle", "switch"
  ARMING_DELAY,  \* MOTOR_ARMING_DELAY (40) or AUTOPILOT_ARMING_DELAY (10)
  MODE_MANUAL    \* autopilot mode of the lowest position of the mode switch

(* autopilot.h: the numeric modes; their order matters, the code tests     *)
(* "mode > AP_MODE_KILL" and "mode > AP_MODE_FAILSAFE".                    *)
AP_MODE_FAILSAFE          == 0
AP_MODE_KILL              == 1
AP_MODE_RATE_DIRECT       == 2
AP_MODE_ATTITUDE_DIRECT   == 3
AP_MODE_RATE_RC_CLIMB     == 4
AP_MODE_ATTITUDE_RC_CLIMB == 5
AP_MODE_ATTITUDE_CLIMB    == 6
AP_MODE_RATE_Z_HOLD       == 7
AP_MODE_ATTITUDE_Z_HOLD   == 8
AP_MODE_HOVER_DIRECT      == 9
AP_MODE_HOVER_CLIMB       == 10
AP_MODE_HOVER_Z_HOLD      == 11
AP_MODE_NAV               == 12
AP_MODE_RC_DIRECT         == 13
AP_MODE_CARE_FREE_DIRECT  == 14
AP_MODE_FORWARD           == 15
Modes == 0..15

(* What one RC frame tells the autopilot, by the thresholds of             *)
(* autopilot_rc_helpers.h: throttle below 5%; roll, pitch and yaw within   *)
(* 5% of their centres; yaw beyond 95% either way; kill switch; position   *)
(* of the mode switch.                                                     *)
Sticks ==
  {s \in [throttle_down : BOOLEAN, centered : BOOLEAN, yaw_pushed : BOOLEAN,
          kill_switch : BOOLEAN, mode_switch : {"MANUAL", "AUTO1", "AUTO2"}] :
     ~(s.centered /\ s.yaw_pushed)}

YawGesture(s) == s.throttle_down /\ s.yaw_pushed

ArmingStates ==
  IF ARMING = "yaw" THEN {"MOTORS_OFF", "M_OFF_STICK_PUSHED", "START_MOTORS",
                          "MOTORS_ON", "M_ON_STICK_PUSHED", "STOP_MOTORS"}
  ELSE IF ARMING = "throttle" THEN {"UNINIT", "WAITING", "MOTORS_OFF_READY",
                                    "ARMING", "MOTORS_ON", "UNARMING"}
  ELSE {"UNINIT", "WAITING", "STARTABLE", "MOTORS_ON"}

(* autopilot_arming_init *)
ArmingInit == IF ARMING = "yaw" THEN "MOTORS_OFF" ELSE "UNINIT"

-----------------------------------------------------------------------------
(* autopilot_arming_set(motors_on), called by autopilot_set_motors_on.     *)

ArmingSetYaw(a, on) ==
  [a EXCEPT !.arming = IF on THEN "MOTORS_ON" ELSE "MOTORS_OFF"]

(* Only MOTORS_ON is left when the motors are turned off from outside: a   *)
(* kill in ARMING or UNARMING leaves the state machine where it is.        *)
ArmingSetThrottle(a, on) ==
  [a EXCEPT !.arming = IF on THEN "MOTORS_ON"
                       ELSE IF @ = "MOTORS_ON" THEN "WAITING" ELSE @]

(* A slip: the state machine still believes the motors run.                *)
ArmingSetSwitchNoStop(a, on) ==
  IF on THEN [a EXCEPT !.arming = "MOTORS_ON"] ELSE a

(* autopilot_set_mode assigns the mode after this call, so a.mode is the   *)
(* mode the motors were turned off in.                                     *)
ArmingSetSwitch(a, on) ==
  IF on THEN [a EXCEPT !.arming = "MOTORS_ON"]
  ELSE IF a.arming = "MOTORS_ON"
       THEN [a EXCEPT !.arming = "STARTABLE",
                      !.unarmed_in_auto = (a.mode # MODE_MANUAL)]
       ELSE a

ArmingSet(a, on) ==
  IF ARMING = "yaw" THEN ArmingSetYaw(a, on)
  ELSE IF ARMING = "throttle" THEN ArmingSetThrottle(a, on)
  ELSE ArmingSetSwitch(a, on)

-----------------------------------------------------------------------------
(* autopilot_arming_check_motors_on(), run on every accepted RC frame.     *)


(* case STATUS_M_OFF_STICK_PUSHED *)
YawOffPushed(a, s) ==
  [a EXCEPT !.motors_on = FALSE, !.arming_counter = @ + 1,
            !.arming = IF a.arming_counter + 1 >= ARMING_DELAY THEN "START_MOTORS"
                       ELSE IF YawGesture(s) THEN @ ELSE "MOTORS_OFF"]

(* case STATUS_MOTORS_OFF *)
YawOff(a, s) ==
  [a EXCEPT !.motors_on = FALSE, !.arming_counter = 0,
            !.arming = IF YawGesture(s) THEN "M_OFF_STICK_PUSHED" ELSE @]

(* case STATUS_START_MOTORS *)
YawStart(a, s) ==
  [a EXCEPT !.motors_on = TRUE, !.arming_counter = ARMING_DELAY,
            !.arming = IF YawGesture(s) THEN @ ELSE "MOTORS_ON"]

(* A slip: the counter is not reloaded.                                    *)
YawOnNoReload(a, s) ==
  [a EXCEPT !.motors_on = TRUE,
            !.arming = IF YawGesture(s) THEN "M_ON_STICK_PUSHED" ELSE @]

(* case STATUS_MOTORS_ON *)
YawOn(a, s) ==
  [a EXCEPT !.motors_on = TRUE, !.arming_counter = ARMING_DELAY,
            !.arming = IF YawGesture(s) THEN "M_ON_STICK_PUSHED" ELSE @]

(* case STATUS_M_ON_STICK_PUSHED *)
YawOnPushed(a, s) ==
  [a EXCEPT !.motors_on = TRUE, !.arming_counter = @ - 1,
            !.arming = IF a.arming_counter - 1 = 0 THEN "STOP_MOTORS"
                       ELSE IF YawGesture(s) THEN @ ELSE "MOTORS_ON"]

(* case STATUS_STOP_MOTORS *)
YawStop(a, s) ==
  [a EXCEPT !.motors_on = FALSE, !.arming_counter = 0,
            !.arming = IF YawGesture(s) THEN @ ELSE "MOTORS_OFF"]

ArmingCheckYaw(a, s) ==
  CASE a.arming = "MOTORS_OFF"         -> YawOff(a, s)
    [] a.arming = "M_OFF_STICK_PUSHED" -> YawOffPushed(a, s)
    [] a.arming = "START_MOTORS"       -> YawStart(a, s)
    [] a.arming = "MOTORS_ON"          -> YawOn(a, s)
    [] a.arming = "M_ON_STICK_PUSHED"  -> YawOnPushed(a, s)
    [] OTHER                           -> YawStop(a, s)

(* Manual mode, or the motors were last turned off in an automatic mode.   *)
MayArm(a) == a.mode = MODE_MANUAL \/ a.unarmed_in_auto

(* cases STATE_UNINIT and STATE_WAITING *)
ThrottleWaiting(a, s) ==
  [a EXCEPT !.motors_on = FALSE, !.arming_counter = 0,
            !.arming = IF s.throttle_down THEN "MOTORS_OFF_READY" ELSE "WAITING"]

(* case STATE_MOTORS_OFF_READY *)
ThrottleReady(a, s) ==
  [a EXCEPT !.motors_on = FALSE, !.arming_counter = 0,
            !.arming = IF ~s.throttle_down /\ s.centered /\ MayArm(a)
                       THEN "ARMING" ELSE @]

(* case STATE_ARMING *)
ThrottleArming(a, s) ==
  [a EXCEPT !.motors_on = FALSE, !.arming_counter = @ + 1,
            !.arming = IF s.throttle_down \/ ~s.centered \/ ~MayArm(a)
                       THEN "MOTORS_OFF_READY"
                       ELSE IF a.arming_counter + 1 >= ARMING_DELAY
                            THEN "MOTORS_ON" ELSE @]

(* case STATE_MOTORS_ON *)
ThrottleOn(a, s) ==
  [a EXCEPT !.motors_on = TRUE, !.arming_counter = ARMING_DELAY,
            !.arming = IF s.throttle_down THEN "UNARMING" ELSE @]

(* case STATE_UNARMING *)
ThrottleUnarming(a, s) ==
  [a EXCEPT !.motors_on = TRUE, !.arming_counter = @ - 1,
            !.arming = IF ~s.throttle_down THEN "MOTORS_ON"
                       ELSE IF a.arming_counter - 1 = 0
                            THEN "MOTORS_OFF_READY" ELSE @,
            !.unarmed_in_auto = IF s.throttle_down /\ a.arming_counter - 1 = 0
                                THEN a.mode # MODE_MANUAL ELSE @]

ArmingCheckThrottle(a, s) ==
  CASE a.arming \in {"UNINIT", "WAITING"} -> ThrottleWaiting(a, s)
    [] a.arming = "MOTORS_OFF_READY"      -> ThrottleReady(a, s)
    [] a.arming = "ARMING"                -> ThrottleArming(a, s)
    [] a.arming = "MOTORS_ON"             -> ThrottleOn(a, s)
    [] OTHER                              -> ThrottleUnarming(a, s)

(* cases STATE_UNINIT and STATE_WAITING *)
SwitchWaiting(a, s) ==
  [a EXCEPT !.motors_on = FALSE,
            !.arming = IF s.kill_switch THEN "STARTABLE" ELSE "WAITING"]

(* case STATE_STARTABLE *)
SwitchStartable(a, s) ==
  [a EXCEPT !.motors_on = FALSE,
            !.arming = IF ~s.kill_switch /\ s.throttle_down /\ s.centered /\ MayArm(a)
                       THEN "MOTORS_ON" ELSE @]

(* case STATE_MOTORS_ON *)
SwitchOn(a, s) ==
  [a EXCEPT !.motors_on = TRUE,
            !.arming = IF s.kill_switch THEN "STARTABLE" ELSE @,
            !.unarmed_in_auto = IF s.kill_switch THEN a.mode # MODE_MANUAL ELSE @]

ArmingCheckSwitch(a, s) ==
  CASE a.arming \in {"UNINIT", "WAITING"} -> SwitchWaiting(a, s)
    [] a.arming = "STARTABLE"             -> SwitchStartable(a, s)
    [] OTHER                              -> SwitchOn(a, s)

(* A slip: the test reads "mode > AP_MODE_FAILSAFE".                       *)
ArmingCheckInKill(a, s) ==
  IF ARMING = "switch" THEN ArmingCheckSwitch(a, s)
  ELSE IF a.mode <= AP_MODE_FAILSAFE THEN a
  ELSE IF ARMING = "yaw" THEN ArmingCheckYaw(a, s)
  ELSE ArmingCheckThrottle(a, s)

(* The yaw and throttle variants leave everything alone in FAILSAFE and    *)
(* KILL; the switch variant has no such test.                              *)
ArmingCheck(a, s) ==
  IF ARMING = "switch" THEN ArmingCheckSwitch(a, s)
  ELSE IF a.mode <= AP_MODE_KILL THEN a
  ELSE IF ARMING = "yaw" THEN ArmingCheckYaw(a, s)
  ELSE ArmingCheckThrottle(a, s)
=============================================================================
