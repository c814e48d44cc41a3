----------------------------- MODULE Autopilot -----------------------------
(***************************************************************************)
(* The rotorcraft autopilot: sw/airborne/firmwares/rotorcraft/autopilot.c, *)
(* with the callers that drive it from the main loop (main.c), the         *)
(* flight plan's calls into it (navigation.h), the ground station's        *)
(* settings and the swarm acknowledgements (quad_swarm.h).                 *)
(*                                                                         *)
(* The firmware is one loop: every action is one handler run to its end.   *)
(* The autopilot's globals are the record "ap"; the functions of           *)
(* autopilot.c that call one another are operators from a record to a      *)
(* record, so an action applies them in the order the code does.           *)
(***************************************************************************)
EXTENDS Arming

CONSTANTS
  MODE_AUTO1, MODE_AUTO2,      \* airframe configuration
  AUTO2_CHOICES,               \* modes the operator's setting may give to auto2
  IN_FLIGHT_TIME,              \* AUTOPILOT_IN_FLIGHT_TIME (40)
  AHRS_KILL,                   \* FALSE: built with AUTOPILOT_DISABLE_AHRS_KILL
  FAILSAFE_GROUND_DETECT,      \* kill on touch-down while in FAILSAFE
  KILL_ON_GROUND_DETECT,       \* run DetectGroundEvent for the flight plan only
  KILL_AS_FAILSAFE,            \* FAILSAFE switches the motors off
  NO_GPS_LOST_WITH_RC_VALID    \* the loss of GPS in NAV matters only without RC

ASSUME AutopilotAssumption ==
  /\ ARMING \in {"yaw", "throttle", "switch"}
  /\ ARMING_DELAY \in Nat \ {0, 1}
  /\ IN_FLIGHT_TIME \in Nat \ {0, 1}
  /\ {MODE_MANUAL, MODE_AUTO1, MODE_AUTO2} \subseteq Modes
  /\ AUTO2_CHOICES \subseteq Modes
  /\ MODE_MANUAL > AP_MODE_KILL
  /\ {AHRS_KILL, FAILSAFE_GROUND_DETECT, KILL_ON_GROUND_DETECT,
      KILL_AS_FAILSAFE, NO_GPS_LOST_WITH_RC_VALID} \subseteq BOOLEAN

VARIABLES
  ap,        \* the globals of autopilot.c, guidance_h_mode and guidance_v_mode
  ahrs,      \* ahrs.status = AHRS_RUNNING
  rc_ok,     \* radio_control.status = RC_OK (not RC_LOST or RC_REALLY_LOST)
  gps_lost   \* GpsIsLost()

vars == <<ap, ahrs, rc_ok, gps_lost>>

(* ahrs_is_aligned() *)
aligned == ahrs \/ ~AHRS_KILL

HModes == {"KILL", "RC_DIRECT", "RATE", "ATTITUDE", "FORWARD", "CARE_FREE", "HOVER", "NAV"}
VModes == {"KILL", "RC_DIRECT", "RC_CLIMB", "CLIMB", "HOVER", "NAV"}

(* stab_thrust: stabilization_cmd[COMMAND_THRUST] > 0, kept between runs;  *)
(* thrust: commands[COMMAND_THRUST] as last set for the actuators, the     *)
(* failsafe value being an airframe constant.                              *)
ApType ==
  [mode : Modes, mode_auto2 : Modes, motors_on : BOOLEAN, kill_throttle : BOOLEAN,
   in_flight : BOOLEAN, in_flight_counter : 0..IN_FLIGHT_TIME,
   arming : ArmingStates, arming_counter : 0..ARMING_DELAY, unarmed_in_auto : BOOLEAN,
   h_mode : HModes, v_mode : VModes,
   detect_ground : BOOLEAN, detect_ground_once : BOOLEAN,
   stab_thrust : BOOLEAN, thrust : {"failsafe", "zero", "positive"}]

-----------------------------------------------------------------------------
(* A slip: motors start whatever the attitude estimate does.               *)
SetMotorsOnUnchecked(a, al, on) ==
  ArmingSet([a EXCEPT !.motors_on = on, !.kill_throttle = ~on], on)

(* autopilot_set_motors_on(motors_on) *)
SetMotorsOn(a, al, on) ==
  LET m == al /\ on
  IN  ArmingSet([a EXCEPT !.motors_on = m, !.kill_throttle = ~m], m)

KillsMotors(m) == m = AP_MODE_KILL \/ (KILL_AS_FAILSAFE /\ m = AP_MODE_FAILSAFE)

(* The guidance modes autopilot_set_mode selects.  AP_MODE_RATE_RC_CLIMB   *)
(* has no case in the horizontal switch, so the loop keeps its mode.       *)
HModeOf(m, h) ==
  IF KillsMotors(m) THEN "KILL" ELSE
  CASE m = AP_MODE_RC_DIRECT                                      -> "RC_DIRECT"
    [] m \in {AP_MODE_RATE_DIRECT, AP_MODE_RATE_Z_HOLD}           -> "RATE"
    [] m \in {AP_MODE_FAILSAFE, AP_MODE_ATTITUDE_RC_CLIMB, AP_MODE_ATTITUDE_DIRECT,
              AP_MODE_ATTITUDE_CLIMB, AP_MODE_ATTITUDE_Z_HOLD}    -> "ATTITUDE"
    [] m = AP_MODE_FORWARD                                        -> "FORWARD"
    [] m = AP_MODE_CARE_FREE_DIRECT                               -> "CARE_FREE"
    [] m \in {AP_MODE_HOVER_DIRECT, AP_MODE_HOVER_CLIMB, AP_MODE_HOVER_Z_HOLD} -> "HOVER"
    [] m = AP_MODE_NAV                                            -> "NAV"
    [] OTHER                                                      -> h

VModeOf(m) ==
  IF KillsMotors(m) THEN "KILL" ELSE
  CASE m \in {AP_MODE_RC_DIRECT, AP_MODE_RATE_DIRECT, AP_MODE_ATTITUDE_DIRECT,
              AP_MODE_HOVER_DIRECT, AP_MODE_CARE_FREE_DIRECT, AP_MODE_FORWARD} -> "RC_DIRECT"
    [] m \in {AP_MODE_RATE_RC_CLIMB, AP_MODE_ATTITUDE_RC_CLIMB}   -> "RC_CLIMB"
    [] m \in {AP_MODE_FAILSAFE, AP_MODE_ATTITUDE_CLIMB, AP_MODE_HOVER_CLIMB} -> "CLIMB"
    [] m \in {AP_MODE_RATE_Z_HOLD, AP_MODE_ATTITUDE_Z_HOLD, AP_MODE_HOVER_Z_HOLD} -> "HOVER"
    [] OTHER                                                      -> "NAV"

(* A slip: the flight flag is cleared without its counter.                 *)
StopForModeKeepCounter(a, al, m) ==
  IF KillsMotors(m) THEN [SetMotorsOn(a, al, FALSE) EXCEPT !.in_flight = FALSE] ELSE a

(* The part of autopilot_set_mode's switch that stops the motors.          *)
StopForMode(a, al, m) ==
  IF KillsMotors(m)
  THEN [SetMotorsOn(a, al, FALSE) EXCEPT !.in_flight = FALSE, !.in_flight_counter = 0]
  ELSE a

(* A slip: the vertical loop is not told.                                  *)
SetModeHorizontalOnly(a, al, new) ==
  LET m == IF al THEN new ELSE AP_MODE_KILL
  IN  IF m = a.mode THEN a
      ELSE [StopForMode(a, al, m) EXCEPT !.mode = m, !.h_mode = HModeOf(m, a.h_mode)]

(* A slip: the requested mode is not overridden.                           *)
SetModeUnaligned(a, al, new) ==
  IF new = a.mode THEN a
  ELSE [StopForMode(a, al, new) EXCEPT !.mode = new,
                                       !.h_mode = HModeOf(new, a.h_mode),
                                       !.v_mode = VModeOf(new)]

(* autopilot_set_mode(new): KILL is forced while the AHRS is not aligned,  *)
(* nothing happens when the mode does not change.                          *)
SetMode(a, al, new) ==
  LET m == IF al THEN new ELSE AP_MODE_KILL
  IN  IF m = a.mode THEN a
      ELSE [StopForMode(a, al, m) EXCEPT !.mode = m,
                                         !.h_mode = HModeOf(m, a.h_mode),
                                         !.v_mode = VModeOf(m)]

(* autopilot_check_in_flight and autopilot_check_in_flight_no_rc, which    *)
(* differ in what "up" is: the throttle stick, or the computed thrust.     *)
CheckInFlight(a, up) ==
  IF a.in_flight
  THEN IF a.in_flight_counter = 0 THEN a
       ELSE IF up THEN [a EXCEPT !.in_flight_counter = IN_FLIGHT_TIME]
       ELSE [a EXCEPT !.in_flight_counter = @ - 1,
                      !.in_flight = (a.in_flight_counter - 1 # 0)]
  ELSE IF a.in_flight_counter < IN_FLIGHT_TIME /\ a.motors_on
       THEN IF up THEN [a EXCEPT !.in_flight_counter = @ + 1,
                                 !.in_flight = (a.in_flight_counter + 1 = IN_FLIGHT_TIME)]
            ELSE [a EXCEPT !.in_flight_counter = 0]
       ELSE a

(* AP_MODE_OF_PPRZ *)
ModeOfSwitch(a, s) ==
  CASE s.mode_switch = "AUTO2" -> a.mode_auto2
    [] s.mode_switch = "AUTO1" -> MODE_AUTO1
    [] OTHER                   -> MODE_MANUAL

(* First half of autopilot_on_rc_frame: the kill switch, or the mode       *)
(* switch, except that NAV is not entered without GPS.                     *)
RcMode(a, al, lost, s) ==
  LET m == ModeOfSwitch(a, s)
  IN  IF s.kill_switch THEN SetMode(a, al, AP_MODE_KILL)
      ELSE IF m = AP_MODE_NAV /\ lost THEN a
      ELSE SetMode(a, al, m)

(* Second half: arming and flight detection, in every mode but FAILSAFE.   *)
RcMotors(a, s) ==
  IF a.mode > AP_MODE_FAILSAFE
  THEN LET c == ArmingCheck(a, s)
       IN  CheckInFlight([c EXCEPT !.kill_throttle = ~c.motors_on], ~s.throttle_down)
  ELSE a

OnRcFrame(a, al, lost, s) == RcMotors(RcMode(a, al, lost, s), s)

-----------------------------------------------------------------------------
(* What a flight plan may call while nav_periodic_task runs it.            *)
NavCalls == {"none", "NavKillThrottle", "NavResurrect",
             "NavStartDetectGround", "NavDetectGround"}

NavCall(a, al, call) ==
  CASE call = "NavKillThrottle" /\ a.mode = AP_MODE_NAV -> SetMotorsOn(a, al, FALSE)
    [] call = "NavResurrect" /\ a.mode = AP_MODE_NAV    -> SetMotorsOn(a, al, TRUE)
    [] call = "NavStartDetectGround" -> [a EXCEPT !.detect_ground_once = TRUE]
    [] call = "NavDetectGround"      -> [a EXCEPT !.detect_ground = FALSE]
    [] OTHER                         -> a

(* autopilot_periodic: touch-down in FAILSAFE *)
GroundKill(a, al) ==
  IF FAILSAFE_GROUND_DETECT /\ a.mode = AP_MODE_FAILSAFE /\ a.detect_ground
  THEN [SetMode(a, al, AP_MODE_KILL) EXCEPT !.detect_ground = FALSE]
  ELSE a

(* autopilot_periodic: the commands.  guidance_v_run computes a thrust     *)
(* "t" unless the vertical loop is in KILL; SetRotorcraftCommands zeroes   *)
(* stabilization_cmd itself when the motors are off.                       *)
UsesFailsafeCommands(a) ==
  \/ a.mode = AP_MODE_KILL
  \/ ~FAILSAFE_GROUND_DETECT /\ a.mode = AP_MODE_FAILSAFE

SetAllCommands(a, t) ==
  LET up == a.motors_on /\ (IF a.v_mode = "KILL" THEN a.stab_thrust ELSE t)
  IN  IF UsesFailsafeCommands(a) THEN [a EXCEPT !.thrust = "failsafe"]
      ELSE [a EXCEPT !.stab_thrust = up, !.thrust = IF up THEN "positive" ELSE "zero"]

(* autopilot_periodic *)
Periodic(a, al, ok, call, t) ==
  LET c == SetAllCommands(GroundKill(NavCall(a, al, call), al), t)
  IN  IF ok THEN c ELSE CheckInFlight(c, c.stab_thrust)

(* failsafe_check of main.c: two tests one after the other *)
RcFailsafe(a, al, ok) ==
  IF ~ok /\ a.mode \notin {AP_MODE_KILL, AP_MODE_NAV}
  THEN SetMode(a, al, AP_MODE_FAILSAFE) ELSE a

GpsFailsafe(a, al, ok, lost) ==
  IF /\ a.mode = AP_MODE_NAV /\ a.motors_on /\ lost
     /\ NO_GPS_LOST_WITH_RC_VALID => ~ok
  THEN SetMode(a, al, AP_MODE_FAILSAFE) ELSE a

-----------------------------------------------------------------------------
(* autopilot_init: the mode variable is NAV before autopilot_set_mode runs *)
(* with MODE_STARTUP = AP_MODE_NAV, and the guidance loops are in KILL.    *)
ApReset ==
  [mode |-> AP_MODE_NAV, mode_auto2 |-> MODE_AUTO2, motors_on |-> FALSE,
   kill_throttle |-> TRUE, in_flight |-> FALSE, in_flight_counter |-> 0,
   arming |-> ArmingInit, arming_counter |-> 0, unarmed_in_auto |-> FALSE,
   h_mode |-> "KILL", v_mode |-> "KILL", detect_ground |-> FALSE,
   detect_ground_once |-> FALSE, stab_thrust |-> FALSE, thrust |-> "zero"]

Init ==
  /\ ahrs = FALSE
  /\ rc_ok = FALSE
  /\ gps_lost = FALSE
  /\ ap = SetMode(ApReset, aligned, AP_MODE_NAV)

(* RadioControlEvent(autopilot_on_rc_frame), once radio_ok_cpt is 0 *)
RcFrame(s) ==
  /\ rc_ok' = TRUE
  /\ ap' = OnRcFrame(ap, aligned, gps_lost, s)
  /\ UNCHANGED <<ahrs, gps_lost>>

(* radio_control_periodic_task, RC_LOST_TIME after the last frame *)
RcTimeout ==
  /\ rc_ok
  /\ rc_ok' = FALSE
  /\ UNCHANGED <<ap, ahrs, gps_lost>>

AutopilotPeriodic ==
  \E call \in NavCalls, t \in BOOLEAN :
    /\ ap' = Periodic(ap, aligned, rc_ok, call, t)
    /\ UNCHANGED <<ahrs, rc_ok, gps_lost>>

(* A slip: the radio test is left out.                                     *)
FailsafeCheckGpsOnly ==
  /\ ap' = GpsFailsafe(ap, aligned, rc_ok, gps_lost)
  /\ UNCHANGED <<ahrs, rc_ok, gps_lost>>

(* failsafe_check *)
FailsafeCheck ==
  /\ ap' = GpsFailsafe(RcFailsafe(ap, aligned, rc_ok), aligned, rc_ok, gps_lost)
  /\ UNCHANGED <<ahrs, rc_ok, gps_lost>>

(* A slip: a bump counts as a touch-down, asked for or not.                *)
DetectGroundAlways ==
  /\ FAILSAFE_GROUND_DETECT \/ KILL_ON_GROUND_DETECT
  /\ ap' = [ap EXCEPT !.detect_ground = TRUE, !.detect_ground_once = FALSE]
  /\ UNCHANGED <<ahrs, rc_ok, gps_lost>>

(* DetectGroundEvent, compiled in with either ground detection option *)
DetectGroundEvent ==
  /\ FAILSAFE_GROUND_DETECT \/ KILL_ON_GROUND_DETECT
  /\ ap.mode = AP_MODE_FAILSAFE \/ ap.detect_ground_once
  /\ ap' = [ap EXCEPT !.detect_ground = TRUE, !.detect_ground_once = FALSE]
  /\ UNCHANGED <<ahrs, rc_ok, gps_lost>>

(* on_gyro_event when the aligner has locked: ahrs_align *)
AhrsAlign ==
  /\ ~ahrs
  /\ ahrs' = TRUE
  /\ UNCHANGED <<ap, rc_ok, gps_lost>>

(* GPS_TIMEOUT without a 3D fix, or a new fix *)
GpsChange ==
  /\ gps_lost' = ~gps_lost
  /\ UNCHANGED <<ap, ahrs, rc_ok>>

(* DL_SETTING of autopilot_mode_auto2 and of kill_throttle (its handler is *)
(* autopilot_KillThrottle), settings/rotorcraft_basic.xml                  *)
SettingAuto2(m) ==
  /\ ap' = [ap EXCEPT !.mode_auto2 = m]
  /\ UNCHANGED <<ahrs, rc_ok, gps_lost>>

SettingKillThrottle(kill) ==
  /\ ap' = SetMotorsOn(ap, aligned, ~kill)
  /\ UNCHANGED <<ahrs, rc_ok, gps_lost>>

(* quad_swarm_ack_datalink: acknowledgement 0xff kills, 0xfe starts NAV *)
SwarmAckMode(m) ==
  /\ ap' = SetMode(ap, aligned, m)
  /\ UNCHANGED <<ahrs, rc_ok, gps_lost>>

Next ==
  \/ \E s \in Sticks : RcFrame(s)
  \/ RcTimeout
  \/ AutopilotPeriodic
  \/ FailsafeCheck
  \/ DetectGroundEvent
  \/ AhrsAlign
  \/ GpsChange
  \/ \E m \in AUTO2_CHOICES : SettingAuto2(m)
  \/ \E kill \in BOOLEAN : SettingKillThrottle(kill)
  \/ \E m \in {AP_MODE_KILL, AP_MODE_NAV} : SwarmAckMode(m)

(* handle_periodic_tasks calls failsafe_check at 20 Hz whatever happens.   *)
Fairness == WF_vars(FailsafeCheck)

Spec     == Init /\ [][Next]_vars
FairSpec == Spec /\ Fairness
-----------------------------------------------------------------------------
(* Every global keeps to the values its C type and the code allow; in      *)
(* particular the unsigned arming and in-flight counters never wrap.       *)
TypeOK ==
  /\ ap \in ApType
  /\ ahrs \in BOOLEAN
  /\ rc_ok \in BOOLEAN
  /\ gps_lost \in BOOLEAN

(* Motors are never on before the attitude estimate runs, although the     *)
(* arming state machines set autopilot_motors_on without looking at it.    *)
MotorsNeedAhrs == ap.motors_on => aligned

(* autopilot_in_flight and its counter never reach a pair of values that   *)
(* the two check_in_flight functions cannot leave: in flight with an empty *)
(* counter, or on the ground with a full one.                              *)
InFlightCounter ==
  IF ap.in_flight THEN ap.in_flight_counter > 0
                  ELSE ap.in_flight_counter < IN_FLIGHT_TIME

(* The guidance loops are stopped exactly in the modes that stop the       *)
(* motors and navigate exactly in NAV (autopilot_set_mode propagates every *)
(* change of mode).  AP_MODE_RATE_RC_CLIMB has no horizontal case.         *)
GuidanceFollowsMode ==
  /\ (ap.v_mode = "KILL") = KillsMotors(ap.mode)
  /\ (ap.v_mode = "NAV") = (ap.mode = AP_MODE_NAV)
  /\ ap.mode # AP_MODE_RATE_RC_CLIMB =>
       /\ (ap.h_mode = "KILL") = KillsMotors(ap.mode)
       /\ (ap.h_mode = "NAV") = (ap.mode = AP_MODE_NAV)

(* The disarming countdowns are entered with a full counter, so that the   *)
(* decrement before the test for zero never wraps, whatever kill, restart  *)
(* or change of mode interrupts them.                                      *)
CountdownArmed ==
  ap.arming \in {"M_ON_STICK_PUSHED", "UNARMING"} => ap.arming_counter > 0

(* autopilot_arming_yaw.h:78 and autopilot_arming_throttle.h:76: "only     *)
(* allow switching motor if not in FAILSAFE or KILL mode".  Motors go from *)
(* off to on in these modes only on the operator's own setting.            *)
StartsInActiveMode ==
  [][ ~ap.motors_on /\ ap'.motors_on =>
        ap'.mode > AP_MODE_KILL \/ SettingKillThrottle(FALSE) ]_vars

(* Losing the radio outside KILL and NAV ends in FAILSAFE (or the radio    *)
(* comes back, or the mode becomes one that flies without it).             *)
RcLossHandled ==
  (~rc_ok /\ ap.mode \notin {AP_MODE_KILL, AP_MODE_NAV})
    ~> (rc_ok \/ ap.mode \in {AP_MODE_FAILSAFE, AP_MODE_KILL, AP_MODE_NAV})
=============================================================================
