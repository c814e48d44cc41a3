---------------------------- MODULE MCRotorcraft ----------------------------
(***************************************************************************)
(* Rotorcraft for TLC, with the history of the pilot's gesture of module   *)
(* MCAutopilot and two of its own.                                         *)
(***************************************************************************)
EXTENDS Rotorcraft, MCAutopilot

VARIABLES
  held,    \* "entered": a block that kills the throttle has not run yet;
           \* "killed": its first run was in NAV, nobody started the motors since
  loose    \* a ground detection may be under way that no flare asked for

mcRotorcraftVars == <<rotorcraftVars, gesture, held, loose>>

(* Frames that differ for this arming: the kill switch overrides the rest. *)
MCSticks ==
  {s \in Sticks : /\ ~s.yaw_pushed /\ s.mode_switch # "AUTO1"
                  /\ s.kill_switch => ~s.throttle_down /\ ~s.centered /\ s.mode_switch = "AUTO2"}

KillBlocks == {0, S!BLOCK_ID_HOLDING_POINT}

MCRotorcraftInit ==
  RotorcraftInit /\ gesture = 0 /\ held = "entered" /\ loose = FALSE

GestureKept == IF ap.motors_on /\ ~ap'.motors_on THEN 0 ELSE gesture

Started == ~ap.motors_on /\ ap'.motors_on

(* Ground detection runs in FAILSAFE, and on after a flare that was left.  *)
LooseAfter ==
  ap'.mode = AP_MODE_FAILSAFE \/ loose \/ (nav.block = FLARE /\ nav'.block # FLARE)

MCRc(s) ==
  /\ RcFrame(s) /\ UNCHANGED <<nav, swarm>>
  /\ gesture' = GestureAfter(s)
  /\ held' = IF Started THEN "no" ELSE held
  /\ loose' = LooseAfter

MCHandlers ==
  /\ AutopilotHandlers /\ UNCHANGED <<nav, swarm>>
  /\ gesture' = GestureKept
  /\ held' = IF Started /\ SettingKillThrottle(FALSE) THEN "no" ELSE held
  /\ loose' = LooseAfter

HeldAfterRun ==
  IF nav'.block # nav.block THEN (IF nav'.block \in KillBlocks THEN "entered" ELSE "no")
  ELSE IF held = "entered" THEN (IF ap.mode = AP_MODE_NAV THEN "killed" ELSE "no")
  ELSE held

MCNavPeriodic(met) ==
  /\ NavPeriodic(met)
  /\ gesture' = GestureKept
  /\ held' = HeldAfterRun
  /\ loose' = IF CallOf(nav, ap.detect_ground) = "NavDetectGround"
              THEN ap'.mode = AP_MODE_FAILSAFE ELSE LooseAfter

MCControlPeriodic ==
  ControlPeriodic /\ gesture' = GestureKept /\ held' = held /\ loose' = LooseAfter

MCSwarm ==
  /\ \/ SwarmPeriodic \/ SwarmTarget
     \/ \E a \in Acks : SwarmAck(a)
     \/ \E b \in GROUND_BLOCKS : DlBlock(b)
  /\ gesture' = GestureKept
  /\ held' = IF nav' = nav THEN held
             ELSE IF nav'.block \in KillBlocks THEN "entered" ELSE "no"
  /\ loose' = LooseAfter

MCRotorcraftNext ==
  \/ \E s \in MCSticks : MCRc(s)
  \/ MCHandlers
  \/ \E met \in BOOLEAN : MCNavPeriodic(met)
  \/ MCControlPeriodic \/ MCSwarm

MCRotorcraftSpec == MCRotorcraftInit /\ [][MCRotorcraftNext]_mcRotorcraftVars

(* Thrust and flight detection are computed from the rest and, with the    *)
(* kill switch arming, read by nothing else that a property looks at: two  *)
(* states that differ in them alone have the same futures.                 *)
Steering ==
  <<[ap EXCEPT !.in_flight = FALSE, !.in_flight_counter = 0,
               !.stab_thrust = FALSE, !.thrust = "zero"],
    ahrs, rc_ok, gps_lost, nav, swarm, gesture, held, loose>>

(* "Make sure the throttle is killed" (rotorcraft_basic_YI_new.xml): after *)
(* the first run in NAV of Wait GPS or Holding point, entered from         *)
(* wherever, nothing but the pilot or the operator starts the motors.      *)
HoldingKills == held = "killed" => ~ap.motors_on

(* autopilot_detect_ground, which ends a flare, and the flag that arms it  *)
(* are set only while a flare runs, unless an earlier one was left before  *)
(* its touch-down or the aircraft has been in FAILSAFE since.              *)
DetectionExplained ==
  ap.detect_ground \/ ap.detect_ground_once => nav.block = FLARE \/ loose
=============================================================================
