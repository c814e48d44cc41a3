-------------------------- MODULE AutopilotProofs --------------------------
(***************************************************************************)
(* The safety invariants of module Autopilot, proved for every arming      *)
(* header, mode configuration, delay and compile-time option.              *)
(*                                                                         *)
(* The inductive invariant is Good(ap, aligned): a record "a" of ApType is *)
(* one value of the autopilot's globals, "al" is whether the attitude      *)
(* estimate counts as aligned.  Each state of the arming state machines    *)
(* and each operator of Autopilot has a lemma saying that it keeps Good,   *)
(* and the actions compose them in the order of the code.                  *)
(***************************************************************************)
EXTENDS Autopilot, TLAPS

(* The flight flag and its counter agree (InFlightCounter, of a record).   *)
FlightCounter(a) ==
  IF a.in_flight THEN a.in_flight_counter > 0
                 ELSE a.in_flight_counter < IN_FLIGHT_TIME

(* The disarming countdown starts full and the arming count stops in time, *)
(* so that neither the "+ 1" nor the "- 1" leaves 0..ARMING_DELAY.         *)
CounterInv(a) ==
  /\ a.arming \in {"M_OFF_STICK_PUSHED", "ARMING"} => a.arming_counter < ARMING_DELAY
  /\ a.arming \in {"M_ON_STICK_PUSHED", "UNARMING"} => a.arming_counter > 0

(* Until the first alignment the autopilot sits in KILL.  The switch header *)
(* arms without looking for KILL, so there it also matters that nothing    *)
(* has set unarmed_in_auto, the only way to arm outside MODE_MANUAL.       *)
Unaligned(a) ==
  /\ a.mode = AP_MODE_KILL
  /\ ~a.motors_on
  /\ ARMING = "switch" => a.arming # "MOTORS_ON" /\ ~a.unarmed_in_auto

(* GuidanceFollowsMode, of a record.                                       *)
Guidance(a) ==
  /\ (a.v_mode = "KILL") = KillsMotors(a.mode)
  /\ (a.v_mode = "NAV") = (a.mode = AP_MODE_NAV)
  /\ a.mode # AP_MODE_RATE_RC_CLIMB =>
       /\ (a.h_mode = "KILL") = KillsMotors(a.mode)
       /\ (a.h_mode = "NAV") = (a.mode = AP_MODE_NAV)

(* The inductive invariant, of a record.                                   *)
Good(a, al) ==
  /\ a \in ApType
  /\ CounterInv(a)
  /\ FlightCounter(a)
  /\ al \/ Unaligned(a)
  /\ AHRS_KILL => Guidance(a)

SameModes(a, r) == r.mode = a.mode /\ r.h_mode = a.h_mode /\ r.v_mode = a.v_mode

SameFlight(a, r) ==
  r.in_flight = a.in_flight /\ r.in_flight_counter = a.in_flight_counter

(* The flags of the ground detection.                                      *)
SameDetection(a, r) ==
  r.detect_ground = a.detect_ground /\ r.detect_ground_once = a.detect_ground_once

-----------------------------------------------------------------------------
(* autopilot_arming_set keeps the counters within their bounds in every    *)
(* arming header.                                                          *)
LEMMA ArmingSetSound ==
  ASSUME NEW a \in ApType, NEW on \in BOOLEAN, CounterInv(a)
  PROVE  /\ ArmingSet(a, on) \in ApType
         /\ CounterInv(ArmingSet(a, on))
<1>1. CASE ARMING = "yaw"
  <2>1. ArmingSetYaw(a, on) \in ApType
    BY <1>1 DEF ArmingStates, ArmingSetYaw, ApType
  <2>2. CounterInv(ArmingSetYaw(a, on))
    BY DEF ArmingSetYaw, ApType, CounterInv
  <2> QED BY <2>1, <2>2, <1>1 DEF ArmingSet
<1>2. CASE ARMING = "throttle"
  <2>1. ArmingSetThrottle(a, on) \in ApType
    BY <1>2 DEF ArmingStates, ArmingSetThrottle, ApType
  <2>2. CounterInv(ArmingSetThrottle(a, on))
    BY DEF ArmingSetThrottle, ApType, CounterInv
  <2> QED BY <2>1, <2>2, <1>2 DEF ArmingSet
<1>3. CASE ARMING = "switch"
  <2>1. ArmingSetSwitch(a, on) \in ApType
    BY <1>3 DEF ArmingStates, ArmingSetSwitch, ApType
  <2>2. CounterInv(ArmingSetSwitch(a, on))
    BY DEF ArmingSetSwitch, ApType, CounterInv
  <2> QED BY <2>1, <2>2, <1>3 DEF ArmingSet
<1> QED BY <1>1, <1>2, <1>3, AutopilotAssumption

(* autopilot_arming_set writes nothing but the arming variables.           *)
LEMMA ArmingSetFrame ==
  ASSUME NEW a \in ApType, NEW on \in BOOLEAN
  PROVE  LET r == ArmingSet(a, on) IN
         /\ SameModes(a, r) /\ SameFlight(a, r) /\ SameDetection(a, r)
         /\ r.motors_on = a.motors_on
<1>1. CASE ARMING = "yaw"
  BY <1>1 DEF ArmingSet, ArmingSetYaw, ApType, SameModes, SameFlight,
              SameDetection
<1>2. CASE ARMING = "throttle"
  BY <1>2 DEF ArmingSet, ArmingSetThrottle, ApType, SameModes, SameFlight,
              SameDetection
<1>3. CASE ARMING = "switch"
  BY <1>3 DEF ArmingSet, ArmingSetSwitch, ApType, SameModes, SameFlight,
              SameDetection
<1> QED BY <1>1, <1>2, <1>3, AutopilotAssumption

(* A step that leaves modes and flight detection alone keeps their         *)
(* invariants.                                                             *)
LEMMA FrameKeeps ==
  ASSUME NEW a, NEW r, SameModes(a, r), SameFlight(a, r)
  PROVE  /\ FlightCounter(a) => FlightCounter(r)
         /\ Guidance(a) => Guidance(r)
BY DEF SameModes, SameFlight, FlightCounter, Guidance

(* autopilot_arming_set keeps the invariant, provided it starts nothing    *)
(* before alignment.                                                       *)
LEMMA ArmingSetKeeps ==
  ASSUME NEW a, NEW al \in BOOLEAN, NEW on \in BOOLEAN, Good(a, al), on => al
  PROVE  Good(ArmingSet(a, on), al)
<1>1. a \in ApType /\ CounterInv(a)
  BY DEF Good
<1>2. ArmingSet(a, on) \in ApType /\ CounterInv(ArmingSet(a, on))
  BY <1>1, ArmingSetSound
<1>3. /\ FlightCounter(ArmingSet(a, on))
      /\ AHRS_KILL => Guidance(ArmingSet(a, on))
  BY <1>1, ArmingSetFrame, FrameKeeps DEF Good
<1>4. al \/ Unaligned(ArmingSet(a, on))
  <2>1. SUFFICES ASSUME ~al
                 PROVE  Unaligned(ArmingSet(a, on))
    OBVIOUS
  <2>2. Unaligned(a) /\ ~on
    BY <2>1 DEF Good
  <2>3. ARMING = "switch" => ArmingSet(a, on) = a
    BY <2>2 DEF Unaligned, ArmingSet, ArmingSetSwitch
  <2> QED BY <1>1, <2>2, <2>3, ArmingSetFrame DEF Unaligned, SameModes
<1> QED BY <1>2, <1>3, <1>4 DEF Good

-----------------------------------------------------------------------------
(* The switch statement of autopilot_arming_yaw.h, one label at a time.    *)
LEMMA YawSteps ==
  ASSUME NEW a, NEW s
  PROVE  /\ a.arming = "MOTORS_OFF" => ArmingCheckYaw(a, s) = YawOff(a, s)
         /\ a.arming = "M_OFF_STICK_PUSHED" => ArmingCheckYaw(a, s) = YawOffPushed(a, s)
         /\ a.arming = "START_MOTORS" => ArmingCheckYaw(a, s) = YawStart(a, s)
         /\ a.arming = "MOTORS_ON" => ArmingCheckYaw(a, s) = YawOn(a, s)
         /\ a.arming = "M_ON_STICK_PUSHED" => ArmingCheckYaw(a, s) = YawOnPushed(a, s)
         /\ a.arming = "STOP_MOTORS" => ArmingCheckYaw(a, s) = YawStop(a, s)
BY Zenon DEF ArmingCheckYaw

(* The switch statement of autopilot_arming_throttle.h.                    *)
LEMMA ThrottleSteps ==
  ASSUME NEW a, NEW s
  PROVE  /\ a.arming \in {"UNINIT", "WAITING"} => ArmingCheckThrottle(a, s) = ThrottleWaiting(a, s)
         /\ a.arming = "MOTORS_OFF_READY" => ArmingCheckThrottle(a, s) = ThrottleReady(a, s)
         /\ a.arming = "ARMING" => ArmingCheckThrottle(a, s) = ThrottleArming(a, s)
         /\ a.arming = "MOTORS_ON" => ArmingCheckThrottle(a, s) = ThrottleOn(a, s)
         /\ a.arming = "UNARMING" => ArmingCheckThrottle(a, s) = ThrottleUnarming(a, s)
BY Zenon DEF ArmingCheckThrottle

(* The switch statement of autopilot_arming_switch.h.                      *)
LEMMA SwitchSteps ==
  ASSUME NEW a, NEW s
  PROVE  /\ a.arming \in {"UNINIT", "WAITING"} => ArmingCheckSwitch(a, s) = SwitchWaiting(a, s)
         /\ a.arming = "STARTABLE" => ArmingCheckSwitch(a, s) = SwitchStartable(a, s)
         /\ a.arming = "MOTORS_ON" => ArmingCheckSwitch(a, s) = SwitchOn(a, s)
BY Zenon DEF ArmingCheckSwitch

(* The yaw state machine's counter stays within 0..ARMING_DELAY: counting  *)
(* up stops in time, counting down starts full.                            *)
LEMMA ArmingCheckYawSound ==
  ASSUME NEW a \in ApType, NEW s \in Sticks, ARMING = "yaw", CounterInv(a)
  PROVE  /\ ArmingCheckYaw(a, s) \in ApType
         /\ CounterInv(ArmingCheckYaw(a, s))
<1>0. /\ a.arming_counter \in 0..ARMING_DELAY
      /\ ARMING_DELAY \in Nat \ {0, 1}
      /\ {0, ARMING_DELAY} \subseteq 0..ARMING_DELAY
      /\ ARMING = "yaw"
  BY AutopilotAssumption DEF ApType
<1>1. CASE a.arming = "MOTORS_OFF"
  <2>1. YawOff(a, s) \in ApType
    BY <1>0, <1>1 DEF YawOff, ApType, ArmingStates
  <2>2. CounterInv(YawOff(a, s))
    BY <1>0, <1>1 DEF YawOff, ApType, CounterInv
  <2> QED BY <2>1, <2>2, <1>1, YawSteps
<1>2. CASE a.arming = "M_OFF_STICK_PUSHED"
  <2>0. a.arming_counter + 1 \in 0..ARMING_DELAY
    BY <1>0, <1>2 DEF CounterInv
  <2>1. YawOffPushed(a, s) \in ApType
    BY <2>0, <1>0, <1>2 DEF YawOffPushed, ApType, ArmingStates
  <2>2. CounterInv(YawOffPushed(a, s))
    BY <2>0, <1>0, <1>2 DEF YawOffPushed, ApType, CounterInv
  <2> QED BY <2>1, <2>2, <1>2, YawSteps
<1>3. CASE a.arming = "START_MOTORS"
  <2>1. YawStart(a, s) \in ApType
    BY <1>0, <1>3 DEF YawStart, ApType, ArmingStates
  <2>2. CounterInv(YawStart(a, s))
    BY <1>0, <1>3 DEF YawStart, ApType, CounterInv
  <2> QED BY <2>1, <2>2, <1>3, YawSteps
<1>4. CASE a.arming = "MOTORS_ON"
  <2>1. YawOn(a, s) \in ApType
    BY <1>0, <1>4 DEF YawOn, ApType, ArmingStates
  <2>2. CounterInv(YawOn(a, s))
    BY <1>0, <1>4 DEF YawOn, ApType, CounterInv
  <2> QED BY <2>1, <2>2, <1>4, YawSteps
<1>5. CASE a.arming = "M_ON_STICK_PUSHED"
  <2>0. a.arming_counter - 1 \in 0..ARMING_DELAY
    BY <1>0, <1>5 DEF CounterInv
  <2>1. YawOnPushed(a, s) \in ApType
    BY <2>0, <1>0, <1>5 DEF YawOnPushed, ApType, ArmingStates
  <2>2. CounterInv(YawOnPushed(a, s))
    BY <2>0, <1>0, <1>5 DEF YawOnPushed, ApType, CounterInv
  <2> QED BY <2>1, <2>2, <1>5, YawSteps
<1>6. CASE a.arming = "STOP_MOTORS"
  <2>1. YawStop(a, s) \in ApType
    BY <1>0, <1>6 DEF YawStop, ApType, ArmingStates
  <2>2. CounterInv(YawStop(a, s))
    BY <1>0, <1>6 DEF YawStop, ApType, CounterInv
  <2> QED BY <2>1, <2>2, <1>6, YawSteps
<1> QED BY <1>0, <1>1, <1>2, <1>3, <1>4, <1>5, <1>6 DEF ApType, ArmingStates

(* The same of the throttle state machine.                                 *)
LEMMA ArmingCheckThrottleSound ==
  ASSUME NEW a \in ApType, NEW s \in Sticks, ARMING = "throttle", CounterInv(a)
  PROVE  /\ ArmingCheckThrottle(a, s) \in ApType
         /\ CounterInv(ArmingCheckThrottle(a, s))
<1>0. /\ a.arming_counter \in 0..ARMING_DELAY
      /\ ARMING_DELAY \in Nat \ {0, 1}
      /\ {0, ARMING_DELAY} \subseteq 0..ARMING_DELAY
      /\ ARMING = "throttle"
  BY AutopilotAssumption DEF ApType
<1>1. CASE a.arming \in {"UNINIT", "WAITING"}
  <2>1. ThrottleWaiting(a, s) \in ApType
    BY <1>0, <1>1 DEF ThrottleWaiting, ApType, ArmingStates
  <2>2. CounterInv(ThrottleWaiting(a, s))
    BY <1>0, <1>1 DEF ThrottleWaiting, ApType, CounterInv
  <2> QED BY <2>1, <2>2, <1>1, ThrottleSteps
<1>2. CASE a.arming = "MOTORS_OFF_READY"
  <2>1. ThrottleReady(a, s) \in ApType
    BY <1>0, <1>2 DEF ThrottleReady, ApType, ArmingStates
  <2>2. CounterInv(ThrottleReady(a, s))
    BY <1>0, <1>2 DEF ThrottleReady, ApType, CounterInv
  <2> QED BY <2>1, <2>2, <1>2, ThrottleSteps
<1>3. CASE a.arming = "ARMING"
  <2>0. a.arming_counter + 1 \in 0..ARMING_DELAY
    BY <1>0, <1>3 DEF CounterInv
  <2>1. ThrottleArming(a, s) \in ApType
    BY <2>0, <1>0, <1>3 DEF ThrottleArming, ApType, ArmingStates
  <2>2. CounterInv(ThrottleArming(a, s))
    BY <2>0, <1>0, <1>3 DEF ThrottleArming, ApType, CounterInv
  <2> QED BY <2>1, <2>2, <1>3, ThrottleSteps
<1>4. CASE a.arming = "MOTORS_ON"
  <2>1. ThrottleOn(a, s) \in ApType
    BY <1>0, <1>4 DEF ThrottleOn, ApType, ArmingStates
  <2>2. CounterInv(ThrottleOn(a, s))
    BY <1>0, <1>4 DEF ThrottleOn, ApType, CounterInv
  <2> QED BY <2>1, <2>2, <1>4, ThrottleSteps
<1>5. CASE a.arming = "UNARMING"
  <2>0. a.arming_counter - 1 \in 0..ARMING_DELAY
    BY <1>0, <1>5 DEF CounterInv
  <2>1. ThrottleUnarming(a, s) \in ApType
    BY <2>0, <1>0, <1>5 DEF ThrottleUnarming, ApType, ArmingStates
  <2>2. CounterInv(ThrottleUnarming(a, s))
    BY <2>0, <1>0, <1>5 DEF ThrottleUnarming, ApType, CounterInv
  <2> QED BY <2>1, <2>2, <1>5, ThrottleSteps
<1> QED BY <1>0, <1>1, <1>2, <1>3, <1>4, <1>5 DEF ApType, ArmingStates

(* The same of the switch state machine, which has no counter.             *)
LEMMA ArmingCheckSwitchSound ==
  ASSUME NEW a \in ApType, NEW s \in Sticks, ARMING = "switch", CounterInv(a)
  PROVE  /\ ArmingCheckSwitch(a, s) \in ApType
         /\ CounterInv(ArmingCheckSwitch(a, s))
<1>0. /\ a.arming_counter \in 0..ARMING_DELAY
      /\ ARMING_DELAY \in Nat \ {0, 1}
      /\ {0, ARMING_DELAY} \subseteq 0..ARMING_DELAY
      /\ ARMING = "switch"
  BY AutopilotAssumption DEF ApType
<1>1. CASE a.arming \in {"UNINIT", "WAITING"}
  <2>1. SwitchWaiting(a, s) \in ApType
    BY <1>0, <1>1 DEF SwitchWaiting, ApType, ArmingStates
  <2>2. CounterInv(SwitchWaiting(a, s))
    BY <1>0, <1>1 DEF SwitchWaiting, ApType, CounterInv
  <2> QED BY <2>1, <2>2, <1>1, SwitchSteps
<1>2. CASE a.arming = "STARTABLE"
  <2>1. SwitchStartable(a, s) \in ApType
    BY <1>0, <1>2 DEF SwitchStartable, ApType, ArmingStates
  <2>2. CounterInv(SwitchStartable(a, s))
    BY <1>0, <1>2 DEF SwitchStartable, ApType, CounterInv
  <2> QED BY <2>1, <2>2, <1>2, SwitchSteps
<1>3. CASE a.arming = "MOTORS_ON"
  <2>1. SwitchOn(a, s) \in ApType
    BY <1>0, <1>3 DEF SwitchOn, ApType, ArmingStates
  <2>2. CounterInv(SwitchOn(a, s))
    BY <1>0, <1>3 DEF SwitchOn, ApType, CounterInv
  <2> QED BY <2>1, <2>2, <1>3, SwitchSteps
<1> QED BY <1>0, <1>1, <1>2, <1>3 DEF ApType, ArmingStates

(* autopilot_arming_check_motors_on changes neither the modes nor what     *)
(* detects the flight and the ground.                                      *)
LEMMA ArmingCheckFrame ==
  ASSUME NEW a \in ApType, NEW s
  PROVE  /\ SameModes(a, ArmingCheck(a, s)) /\ SameFlight(a, ArmingCheck(a, s))
         /\ SameDetection(a, ArmingCheck(a, s))
<1> DEFINE Same(r) == SameModes(a, r) /\ SameFlight(a, r) /\ SameDetection(a, r)
<1>1. CASE ARMING = "yaw"
  <2>1. a.arming \in {"MOTORS_OFF", "M_OFF_STICK_PUSHED", "START_MOTORS",
                      "MOTORS_ON", "M_ON_STICK_PUSHED", "STOP_MOTORS"}
    BY <1>1 DEF ApType, ArmingStates
  <2>2. Same(YawOff(a, s))
    BY DEF YawOff, ApType, SameModes, SameFlight, SameDetection
  <2>3. Same(YawOffPushed(a, s))
    BY DEF YawOffPushed, ApType, SameModes, SameFlight, SameDetection
  <2>4. Same(YawStart(a, s))
    BY DEF YawStart, ApType, SameModes, SameFlight, SameDetection
  <2>5. Same(YawOn(a, s))
    BY DEF YawOn, ApType, SameModes, SameFlight, SameDetection
  <2>6. Same(YawOnPushed(a, s))
    BY DEF YawOnPushed, ApType, SameModes, SameFlight, SameDetection
  <2>7. Same(YawStop(a, s))
    BY DEF YawStop, ApType, SameModes, SameFlight, SameDetection
  <2>8. Same(ArmingCheckYaw(a, s))
    <3> HIDE DEF Same
    <3> QED BY <2>1, <2>2, <2>3, <2>4, <2>5, <2>6, <2>7, YawSteps
  <2> QED BY <1>1, <2>8 DEF ArmingCheck, SameModes, SameFlight, SameDetection
<1>2. CASE ARMING = "throttle"
  <2>1. a.arming \in {"UNINIT", "WAITING", "MOTORS_OFF_READY",
                      "ARMING", "MOTORS_ON", "UNARMING"}
    BY <1>2 DEF ApType, ArmingStates
  <2>2. Same(ThrottleWaiting(a, s))
    BY DEF ThrottleWaiting, ApType, SameModes, SameFlight, SameDetection
  <2>3. Same(ThrottleReady(a, s))
    BY DEF ThrottleReady, ApType, SameModes, SameFlight, SameDetection
  <2>4. Same(ThrottleArming(a, s))
    BY DEF ThrottleArming, ApType, SameModes, SameFlight, SameDetection
  <2>5. Same(ThrottleOn(a, s))
    BY DEF ThrottleOn, ApType, SameModes, SameFlight, SameDetection
  <2>6. Same(ThrottleUnarming(a, s))
    BY DEF ThrottleUnarming, ApType, SameModes, SameFlight, SameDetection
  <2>7. Same(ArmingCheckThrottle(a, s))
    <3> HIDE DEF Same
    <3> QED BY <2>1, <2>2, <2>3, <2>4, <2>5, <2>6, ThrottleSteps
  <2> QED BY <1>2, <2>7 DEF ArmingCheck, SameModes, SameFlight, SameDetection
<1>3. CASE ARMING = "switch"
  <2>1. a.arming \in {"UNINIT", "WAITING", "STARTABLE", "MOTORS_ON"}
    BY <1>3 DEF ApType, ArmingStates
  <2>2. Same(SwitchWaiting(a, s))
    BY DEF SwitchWaiting, ApType, SameModes, SameFlight, SameDetection
  <2>3. Same(SwitchStartable(a, s))
    BY DEF SwitchStartable, ApType, SameModes, SameFlight, SameDetection
  <2>4. Same(SwitchOn(a, s))
    BY DEF SwitchOn, ApType, SameModes, SameFlight, SameDetection
  <2>5. Same(ArmingCheckSwitch(a, s))
    <3> HIDE DEF Same
    <3> QED BY <2>1, <2>2, <2>3, <2>4, SwitchSteps
  <2> QED BY <1>3, <2>5 DEF ArmingCheck, SameModes, SameFlight, SameDetection
<1> QED BY <1>1, <1>2, <1>3, AutopilotAssumption

(* autopilot_arming_check_motors_on keeps the invariant. Before alignment  *)
(* the mode is KILL: the yaw and throttle headers do nothing there, and    *)
(* the switch header cannot arm, since KILL is not MODE_MANUAL.            *)
LEMMA ArmingCheckKeeps ==
  ASSUME NEW a, NEW al \in BOOLEAN, NEW s \in Sticks, Good(a, al)
  PROVE  Good(ArmingCheck(a, s), al)
<1>1. a \in ApType /\ CounterInv(a)
  BY DEF Good
<1>2. ArmingCheck(a, s) \in ApType /\ CounterInv(ArmingCheck(a, s))
  BY <1>1, ArmingCheckYawSound, ArmingCheckThrottleSound, ArmingCheckSwitchSound,
     AutopilotAssumption DEF ArmingCheck
<1>3. /\ FlightCounter(ArmingCheck(a, s))
      /\ AHRS_KILL => Guidance(ArmingCheck(a, s))
  BY <1>1, ArmingCheckFrame, FrameKeeps DEF Good
<1>4. al \/ Unaligned(ArmingCheck(a, s))
  <2>1. SUFFICES ASSUME ~al
                 PROVE  Unaligned(ArmingCheck(a, s))
    OBVIOUS
  <2>2. Unaligned(a)
    BY <2>1 DEF Good
  <2>3. CASE ARMING # "switch"
    BY <2>2, <2>3 DEF ArmingCheck, Unaligned, AP_MODE_KILL
  <2>4. CASE ARMING = "switch"
    <3>1. a.arming \in {"UNINIT", "WAITING", "STARTABLE"}
      BY <1>1, <2>2, <2>4 DEF ApType, ArmingStates, Unaligned
    <3>2. ~MayArm(a)
      BY <2>2, <2>4, AutopilotAssumption DEF Unaligned, MayArm, AP_MODE_KILL
    <3>3. ArmingCheckSwitch(a, s) \in {SwitchWaiting(a, s), SwitchStartable(a, s)}
      BY <3>1, SwitchSteps
    <3>4. Unaligned(SwitchWaiting(a, s))
      BY <1>1, <2>2, <2>4, <3>1 DEF SwitchWaiting, Unaligned, ApType
    <3>5. Unaligned(SwitchStartable(a, s))
      BY <1>1, <2>2, <2>4, <3>1, <3>2 DEF SwitchStartable, Unaligned, ApType
    <3> QED BY <2>4, <3>3, <3>4, <3>5 DEF ArmingCheck
  <2> QED BY <2>3, <2>4
<1> QED BY <1>2, <1>3, <1>4 DEF Good

-----------------------------------------------------------------------------
(* The modes for which autopilot_set_mode has a case that is neither that  *)
(* of KILL nor that of NAV, vertically and horizontally.                   *)
VOther ==
  {AP_MODE_RC_DIRECT, AP_MODE_RATE_DIRECT, AP_MODE_ATTITUDE_DIRECT,
   AP_MODE_HOVER_DIRECT, AP_MODE_CARE_FREE_DIRECT, AP_MODE_FORWARD,
   AP_MODE_RATE_RC_CLIMB, AP_MODE_ATTITUDE_RC_CLIMB,
   AP_MODE_FAILSAFE, AP_MODE_ATTITUDE_CLIMB, AP_MODE_HOVER_CLIMB,
   AP_MODE_RATE_Z_HOLD, AP_MODE_ATTITUDE_Z_HOLD, AP_MODE_HOVER_Z_HOLD}

HOther ==
  {AP_MODE_RC_DIRECT, AP_MODE_RATE_DIRECT, AP_MODE_RATE_Z_HOLD,
   AP_MODE_FAILSAFE, AP_MODE_ATTITUDE_RC_CLIMB, AP_MODE_ATTITUDE_DIRECT,
   AP_MODE_ATTITUDE_CLIMB, AP_MODE_ATTITUDE_Z_HOLD,
   AP_MODE_FORWARD, AP_MODE_CARE_FREE_DIRECT,
   AP_MODE_HOVER_DIRECT, AP_MODE_HOVER_CLIMB, AP_MODE_HOVER_Z_HOLD}

(* Every mode has a vertical case, and only RATE_RC_CLIMB lacks a          *)
(* horizontal one; no mode that navigates stops the motors.                *)
LEMMA ModeSets ==
  /\ VOther = Modes \ {AP_MODE_KILL, AP_MODE_NAV}
  /\ HOther = Modes \ {AP_MODE_KILL, AP_MODE_NAV, AP_MODE_RATE_RC_CLIMB}
  /\ ~KillsMotors(AP_MODE_NAV)
  /\ KillsMotors(AP_MODE_KILL)
BY DEF Modes, VOther, HOther, KillsMotors, AP_MODE_FAILSAFE, AP_MODE_KILL,
       AP_MODE_RATE_DIRECT, AP_MODE_ATTITUDE_DIRECT, AP_MODE_RATE_RC_CLIMB,
       AP_MODE_ATTITUDE_RC_CLIMB, AP_MODE_ATTITUDE_CLIMB, AP_MODE_RATE_Z_HOLD,
       AP_MODE_ATTITUDE_Z_HOLD, AP_MODE_HOVER_DIRECT, AP_MODE_HOVER_CLIMB,
       AP_MODE_HOVER_Z_HOLD, AP_MODE_NAV, AP_MODE_RC_DIRECT,
       AP_MODE_CARE_FREE_DIRECT, AP_MODE_FORWARD

(* The vertical switch of autopilot_set_mode, by kind of mode.             *)
LEMMA VModeCases ==
  ASSUME NEW m, ~KillsMotors(m)
  PROVE  /\ VModeOf(m) \in VModes \ {"KILL"}
         /\ m \in VOther => VModeOf(m) # "NAV"
         /\ m \notin VOther => VModeOf(m) = "NAV"
BY Zenon DEF VModeOf, VModes, VOther

(* The horizontal switch of autopilot_set_mode, by kind of mode.           *)
LEMMA HModeCases ==
  ASSUME NEW m, NEW h, ~KillsMotors(m)
  PROVE  /\ HModeOf(m, h) \in HModes \cup {h}
         /\ m \in HOther /\ m # AP_MODE_NAV => HModeOf(m, h) \in HModes \ {"KILL", "NAV"}
         /\ m \notin HOther /\ m = AP_MODE_NAV => HModeOf(m, h) = "NAV"
BY Zenon DEF HModeOf, HModes, HOther

(* The guidance modes autopilot_set_mode selects follow the autopilot mode. *)
LEMMA GuidanceOfMode ==
  ASSUME NEW m \in Modes, NEW h \in HModes
  PROVE  /\ VModeOf(m) \in VModes
         /\ HModeOf(m, h) \in HModes
         /\ (VModeOf(m) = "KILL") = KillsMotors(m)
         /\ (VModeOf(m) = "NAV") = (m = AP_MODE_NAV)
         /\ m # AP_MODE_RATE_RC_CLIMB =>
              /\ (HModeOf(m, h) = "KILL") = KillsMotors(m)
              /\ (HModeOf(m, h) = "NAV") = (m = AP_MODE_NAV)
<1>1. CASE KillsMotors(m)
  <2>1. m # AP_MODE_NAV
    BY <1>1, ModeSets
  <2>2. VModeOf(m) = "KILL" /\ HModeOf(m, h) = "KILL"
    BY <1>1 DEF VModeOf, HModeOf
  <2> QED BY <1>1, <2>1, <2>2 DEF VModes, HModes, KillsMotors
<1>2. CASE ~KillsMotors(m)
  <2>1. m # AP_MODE_KILL
    BY <1>2, ModeSets
  <2>2. /\ VModeOf(m) \in VModes \ {"KILL"}
        /\ (VModeOf(m) = "NAV") = (m = AP_MODE_NAV)
    BY <1>2, <2>1, VModeCases, ModeSets
  <2>3. HModeOf(m, h) \in HModes
    BY <1>2, HModeCases
  <2>4. ASSUME m # AP_MODE_RATE_RC_CLIMB
        PROVE  HModeOf(m, h) # "KILL" /\ (HModeOf(m, h) = "NAV") = (m = AP_MODE_NAV)
    BY <1>2, <2>1, <2>4, HModeCases, ModeSets
  <2> QED BY <1>2, <2>2, <2>3, <2>4 DEF KillsMotors
<1> QED BY <1>1, <1>2

-----------------------------------------------------------------------------
(* autopilot_set_motors_on keeps the invariant, whatever is asked of it:   *)
(* it refuses to start the motors before alignment.                        *)
LEMMA SetMotorsOnKeeps ==
  ASSUME NEW a, NEW al \in BOOLEAN, NEW on \in BOOLEAN, Good(a, al)
  PROVE  /\ Good(SetMotorsOn(a, al, on), al)
         /\ SameModes(a, SetMotorsOn(a, al, on))
         /\ SetMotorsOn(a, al, on).motors_on => al /\ on
<1> DEFINE m == al /\ on
           b == [a EXCEPT !.motors_on = m, !.kill_throttle = ~m]
<1>1. m \in BOOLEAN /\ (m => al)
  OBVIOUS
<1>2. SetMotorsOn(a, al, on) = ArmingSet(b, m)
  BY DEF SetMotorsOn
<1> HIDE DEF m
<1>3. b \in ApType /\ CounterInv(b) /\ SameModes(a, b) /\ SameFlight(a, b) /\ b.motors_on = m
  BY <1>1 DEF Good, ApType, CounterInv, SameModes, SameFlight
<1>4. Good(b, al)
  <2>1. al \/ Unaligned(b)
    BY <1>1, <1>3 DEF Good, Unaligned, ApType
  <2> QED BY <2>1, <1>3, FrameKeeps DEF Good
<1>5. Good(ArmingSet(b, m), al)
  BY <1>1, <1>4, ArmingSetKeeps
<1> QED BY <1>1, <1>2, <1>3, <1>5, ArmingSetFrame DEF SameModes, m

(* The motor-stopping part of autopilot_set_mode keeps the invariant.      *)
LEMMA StopForModeKeeps ==
  ASSUME NEW a, NEW al \in BOOLEAN, NEW m \in Modes, Good(a, al)
  PROVE  /\ Good(StopForMode(a, al, m), al)
         /\ SameModes(a, StopForMode(a, al, m))
         /\ KillsMotors(m) => ~StopForMode(a, al, m).motors_on
<1>1. CASE KillsMotors(m)
  <2> DEFINE b == SetMotorsOn(a, al, FALSE)
             r == [b EXCEPT !.in_flight = FALSE, !.in_flight_counter = 0]
  <2>1. Good(b, al) /\ SameModes(a, b) /\ ~b.motors_on
    BY SetMotorsOnKeeps
  <2>2. StopForMode(a, al, m) = r
    BY <1>1 DEF StopForMode
  <2> HIDE DEF b
  <2> 0 \in 0..IN_FLIGHT_TIME
    BY AutopilotAssumption
  <2>3. r \in ApType /\ CounterInv(r) /\ SameModes(b, r) /\ ~r.motors_on
    BY <2>1 DEF Good, ApType, CounterInv, SameModes
  <2>4. FlightCounter(r)
    BY <2>1, AutopilotAssumption DEF Good, ApType, FlightCounter
  <2>5. al \/ Unaligned(r)
    BY <2>1 DEF Good, ApType, Unaligned
  <2>6. AHRS_KILL => Guidance(r)
    BY <2>1, <2>3 DEF Good, Guidance, SameModes
  <2> QED BY <2>1, <2>2, <2>3, <2>4, <2>5, <2>6 DEF Good, SameModes
<1>2. CASE ~KillsMotors(m)
  BY <1>2 DEF StopForMode, SameModes
<1> QED BY <1>1, <1>2

(* autopilot_set_mode keeps the invariant and never starts the motors;     *)
(* before alignment it ends in KILL.                                       *)
LEMMA SetModeKeeps ==
  ASSUME NEW a, NEW al \in BOOLEAN, NEW new \in Modes, Good(a, al)
  PROVE  /\ Good(SetMode(a, al, new), al)
         /\ SetMode(a, al, new).motors_on => a.motors_on
<1> DEFINE m == IF al THEN new ELSE AP_MODE_KILL
           b == StopForMode(a, al, m)
           r == [b EXCEPT !.mode = m, !.h_mode = HModeOf(m, a.h_mode), !.v_mode = VModeOf(m)]
<1>1. m \in Modes
  BY DEF Modes, AP_MODE_KILL
<1>2. SetMode(a, al, new) = IF m = a.mode THEN a ELSE r
  BY DEF SetMode
<1>3. Good(b, al) /\ (b.motors_on => a.motors_on)
  BY <1>1, StopForModeKeeps DEF StopForMode
<1>4. /\ a.h_mode \in HModes
      /\ a.motors_on \in BOOLEAN
  BY DEF Good, ApType
<1>5. ~al => ~a.motors_on /\ m = a.mode
  BY DEF Good, Unaligned
<1> HIDE DEF b, m
<1>6. /\ r \in ApType
      /\ CounterInv(r)
      /\ SameFlight(b, r)
      /\ r.motors_on = b.motors_on
      /\ r.mode = m /\ r.h_mode = HModeOf(m, a.h_mode) /\ r.v_mode = VModeOf(m)
  BY <1>1, <1>3, <1>4, GuidanceOfMode DEF Good, ApType, CounterInv, SameFlight
<1>7. FlightCounter(r) /\ Guidance(r)
  BY <1>1, <1>3, <1>4, <1>6, GuidanceOfMode DEF Good, FlightCounter, SameFlight, Guidance
<1> QED BY <1>2, <1>3, <1>5, <1>6, <1>7 DEF Good

(* The two check_in_flight functions keep the flag and the counter in step *)
(* and touch nothing else.                                                 *)
LEMMA CheckInFlightKeeps ==
  ASSUME NEW a, NEW al \in BOOLEAN, NEW up \in BOOLEAN, Good(a, al)
  PROVE  /\ Good(CheckInFlight(a, up), al)
         /\ CheckInFlight(a, up).motors_on = a.motors_on
         /\ CheckInFlight(a, up).mode = a.mode
<1> DEFINE r == CheckInFlight(a, up)
           Kept(x) == Good(x, al) /\ x.motors_on = a.motors_on /\ x.mode = a.mode
           Counted(c, f) == [a EXCEPT !.in_flight_counter = c, !.in_flight = f]
<1>1. /\ a \in ApType
      /\ FlightCounter(a)
      /\ a.in_flight_counter \in 0..IN_FLIGHT_TIME
      /\ IN_FLIGHT_TIME \in Nat \ {0, 1}
      /\ {0, IN_FLIGHT_TIME} \subseteq 0..IN_FLIGHT_TIME
  BY AutopilotAssumption DEF Good, ApType
<1>2. ASSUME NEW c \in 0..IN_FLIGHT_TIME, NEW f \in BOOLEAN,
             IF f THEN c > 0 ELSE c < IN_FLIGHT_TIME
      PROVE  Kept(Counted(c, f))
  <2> DEFINE x == Counted(c, f)
  <2>1. x \in ApType /\ CounterInv(x) /\ SameModes(a, x) /\ FlightCounter(x)
    BY <1>1, <1>2 DEF Good, ApType, CounterInv, SameModes, FlightCounter
  <2>2. x.motors_on = a.motors_on /\ (al \/ Unaligned(x))
    BY <1>1 DEF Good, ApType, Unaligned
  <2> HIDE DEF x
  <2>3. AHRS_KILL => Guidance(x)
    BY <2>1 DEF Good, Guidance, SameModes
  <2> QED BY <2>1, <2>2, <2>3 DEF Good, SameModes, x
<1>3. Kept(a)
  OBVIOUS
<1> SUFFICES Kept(r)
  OBVIOUS
<1> HIDE DEF Kept, Counted, r
<1>4. CASE a.in_flight /\ a.in_flight_counter # 0 /\ up
  <2>1. r = Counted(IN_FLIGHT_TIME, TRUE)
    BY <1>1, <1>4 DEF r, CheckInFlight, ApType, Counted
  <2>2. IN_FLIGHT_TIME \in 0..IN_FLIGHT_TIME /\ IN_FLIGHT_TIME > 0
    BY <1>1
  <2>3. Kept(Counted(IN_FLIGHT_TIME, TRUE))
    BY <1>2, <2>2, Zenon
  <2> QED BY <2>1, <2>3
<1>5. CASE a.in_flight /\ a.in_flight_counter # 0 /\ ~up
  <2> DEFINE c == a.in_flight_counter - 1
  <2>1. c \in 0..IN_FLIGHT_TIME /\ (IF c # 0 THEN c > 0 ELSE c < IN_FLIGHT_TIME)
    BY <1>1, <1>5
  <2>2. r = Counted(c, c # 0)
    BY <1>5 DEF r, CheckInFlight, Counted
  <2> HIDE DEF c
  <2> QED BY <1>2, <2>1, <2>2
<1>6. CASE ~a.in_flight /\ a.in_flight_counter < IN_FLIGHT_TIME /\ a.motors_on /\ up
  <2> DEFINE c == a.in_flight_counter + 1
  <2>1. /\ c \in 0..IN_FLIGHT_TIME
        /\ IF c = IN_FLIGHT_TIME THEN c > 0 ELSE c < IN_FLIGHT_TIME
    BY <1>1, <1>6
  <2>2. r = Counted(c, c = IN_FLIGHT_TIME)
    BY <1>6 DEF r, CheckInFlight, Counted
  <2> HIDE DEF c
  <2> QED BY <1>2, <2>1, <2>2
<1>7. CASE ~a.in_flight /\ a.in_flight_counter < IN_FLIGHT_TIME /\ a.motors_on /\ ~up
  <2>1. r = Counted(0, FALSE)
    BY <1>1, <1>7 DEF r, CheckInFlight, ApType, Counted
  <2>2. 0 \in 0..IN_FLIGHT_TIME /\ 0 < IN_FLIGHT_TIME
    BY <1>1
  <2>3. Kept(Counted(0, FALSE))
    BY <1>2, <2>2, Zenon
  <2> QED BY <2>1, <2>3
<1>8. CASE \/ a.in_flight /\ a.in_flight_counter = 0
           \/ ~a.in_flight /\ ~(a.in_flight_counter < IN_FLIGHT_TIME /\ a.motors_on)
  BY <1>3, <1>8 DEF r, CheckInFlight
<1> QED BY <1>4, <1>5, <1>6, <1>7, <1>8

(* Assigning the variables that only the commands and the ground detection *)
(* read disturbs nothing.                                                  *)
LEMMA KillThrottleKeeps ==
  ASSUME NEW a, NEW al \in BOOLEAN, NEW k \in BOOLEAN, Good(a, al)
  PROVE  LET r == [a EXCEPT !.kill_throttle = k]
         IN  Good(r, al) /\ r.motors_on = a.motors_on /\ r.mode = a.mode
<1> DEFINE r == [a EXCEPT !.kill_throttle = k]
<1>1. /\ r \in ApType /\ CounterInv(r) /\ SameModes(a, r) /\ SameFlight(a, r)
      /\ r.motors_on = a.motors_on
      /\ Unaligned(a) => Unaligned(r)
  BY DEF Good, ApType, CounterInv, SameModes, SameFlight, Unaligned
<1> HIDE DEF r
<1> QED BY <1>1, FrameKeeps DEF Good, SameModes, r

(* autopilot_on_rc_frame keeps the invariant; it starts motors only in a   *)
(* mode above KILL, unless the switch header is compiled in.               *)
LEMMA OnRcFrameKeeps ==
  ASSUME NEW a, NEW al \in BOOLEAN, NEW lost \in BOOLEAN, NEW s \in Sticks, Good(a, al)
  PROVE  /\ Good(OnRcFrame(a, al, lost, s), al)
         /\ ARMING # "switch" /\ OnRcFrame(a, al, lost, s).motors_on =>
              a.motors_on \/ OnRcFrame(a, al, lost, s).mode > AP_MODE_KILL
<1> DEFINE b == RcMode(a, al, lost, s)
           c == ArmingCheck(b, s)
           d == [c EXCEPT !.kill_throttle = ~c.motors_on]
           up == ~s.throttle_down
<1>1. Good(b, al) /\ (b.motors_on => a.motors_on)
  <2>1. ModeOfSwitch(a, s) \in Modes
    <3>1. ModeOfSwitch(a, s) \in {a.mode_auto2, MODE_AUTO1, MODE_MANUAL}
      BY Zenon DEF ModeOfSwitch
    <3> QED BY <3>1, AutopilotAssumption DEF Good, ApType
  <2>2. AP_MODE_KILL \in Modes
    BY DEF Modes, AP_MODE_KILL
  <2> QED BY <2>1, <2>2, SetModeKeeps DEF RcMode
<1>2. up \in BOOLEAN
  OBVIOUS
<1>3. OnRcFrame(a, al, lost, s) =
        IF b.mode > AP_MODE_FAILSAFE THEN CheckInFlight(d, up) ELSE b
  BY DEF OnRcFrame, RcMotors
<1> HIDE DEF b, up
<1>4. Good(c, al) /\ SameModes(b, c)
  BY <1>1, ArmingCheckKeeps, ArmingCheckFrame DEF Good
<1>5. ARMING # "switch" /\ ~(b.mode > AP_MODE_KILL) => c = b
  BY <1>1 DEF ArmingCheck, Good, ApType, Modes, AP_MODE_KILL
<1> HIDE DEF c
<1>6. Good(d, al) /\ d.motors_on = c.motors_on /\ d.mode = c.mode
  BY <1>4, KillThrottleKeeps
<1> HIDE DEF d
<1>7. /\ Good(CheckInFlight(d, up), al)
      /\ CheckInFlight(d, up).motors_on = d.motors_on
      /\ CheckInFlight(d, up).mode = d.mode
  BY <1>2, <1>6, CheckInFlightKeeps
<1> QED BY <1>1, <1>3, <1>4, <1>5, <1>6, <1>7 DEF SameModes

(* Nothing but the invariant's irrelevant variables: what the commands and *)
(* the ground detection write.                                             *)
LEMMA OutputsKeep ==
  ASSUME NEW a, NEW al \in BOOLEAN, Good(a, al),
         NEW t \in {"failsafe", "zero", "positive"}, NEW u \in BOOLEAN
  PROVE  /\ Good([a EXCEPT !.thrust = t], al)
         /\ Good([a EXCEPT !.stab_thrust = u, !.thrust = t], al)
         /\ Good([a EXCEPT !.detect_ground = u], al)
         /\ Good([a EXCEPT !.detect_ground_once = u], al)
         /\ Good([a EXCEPT !.detect_ground = TRUE, !.detect_ground_once = FALSE], al)
         /\ \A m \in Modes : Good([a EXCEPT !.mode_auto2 = m], al)
<1> DEFINE Alike(r) == /\ r \in ApType /\ CounterInv(r)
                       /\ SameModes(a, r) /\ SameFlight(a, r)
                       /\ Unaligned(a) => Unaligned(r)
<1>1. \A r : Alike(r) => Good(r, al)
  BY FrameKeeps DEF Good
<1>2. Alike([a EXCEPT !.thrust = t])
  BY DEF Good, ApType, CounterInv, SameModes, SameFlight, Unaligned
<1>3. Alike([a EXCEPT !.stab_thrust = u, !.thrust = t])
  BY DEF Good, ApType, CounterInv, SameModes, SameFlight, Unaligned
<1>4. Alike([a EXCEPT !.detect_ground = u])
  BY DEF Good, ApType, CounterInv, SameModes, SameFlight, Unaligned
<1>5. Alike([a EXCEPT !.detect_ground_once = u])
  BY DEF Good, ApType, CounterInv, SameModes, SameFlight, Unaligned
<1>6. Alike([a EXCEPT !.detect_ground = TRUE, !.detect_ground_once = FALSE])
  BY DEF Good, ApType, CounterInv, SameModes, SameFlight, Unaligned
<1>7. ASSUME NEW m \in Modes
      PROVE  Alike([a EXCEPT !.mode_auto2 = m])
  BY DEF Good, ApType, CounterInv, SameModes, SameFlight, Unaligned
<1> HIDE DEF Alike
<1> QED BY <1>1, <1>2, <1>3, <1>4, <1>5, <1>6, <1>7

(* What a flight plan may call keeps the invariant; only NavResurrect, in  *)
(* NAV, starts the motors.                                                 *)
LEMMA NavCallKeeps ==
  ASSUME NEW a, NEW al \in BOOLEAN, NEW call \in NavCalls, Good(a, al)
  PROVE  /\ Good(NavCall(a, al, call), al)
         /\ NavCall(a, al, call).mode = a.mode
         /\ NavCall(a, al, call).motors_on => a.motors_on \/ a.mode = AP_MODE_NAV
<1>1. NavCall(a, al, call) \in
        {SetMotorsOn(a, al, FALSE), [a EXCEPT !.detect_ground_once = TRUE],
         [a EXCEPT !.detect_ground = FALSE], a}
      \/ (NavCall(a, al, call) = SetMotorsOn(a, al, TRUE) /\ a.mode = AP_MODE_NAV)
  BY Zenon DEF NavCall
<1>2. Good(SetMotorsOn(a, al, FALSE), al) /\ SetMotorsOn(a, al, FALSE).mode = a.mode
      /\ ~SetMotorsOn(a, al, FALSE).motors_on
  BY SetMotorsOnKeeps DEF SameModes
<1>3. Good(SetMotorsOn(a, al, TRUE), al) /\ SetMotorsOn(a, al, TRUE).mode = a.mode
  BY SetMotorsOnKeeps DEF SameModes
<1>4. /\ Good([a EXCEPT !.detect_ground_once = TRUE], al)
      /\ Good([a EXCEPT !.detect_ground = FALSE], al)
  BY OutputsKeep
<1>5. a \in ApType
  BY DEF Good
<1>6. /\ [a EXCEPT !.detect_ground_once = TRUE].mode = a.mode
      /\ [a EXCEPT !.detect_ground_once = TRUE].motors_on = a.motors_on
      /\ [a EXCEPT !.detect_ground = FALSE].mode = a.mode
      /\ [a EXCEPT !.detect_ground = FALSE].motors_on = a.motors_on
  BY <1>5 DEF ApType
<1> QED BY <1>1, <1>2, <1>3, <1>4, <1>6

(* The touch-down test of autopilot_periodic keeps the invariant, starts   *)
(* nothing and leaves every mode but FAILSAFE alone.                       *)
LEMMA GroundKillKeeps ==
  ASSUME NEW a, NEW al \in BOOLEAN, Good(a, al)
  PROVE  /\ Good(GroundKill(a, al), al)
         /\ GroundKill(a, al).motors_on => a.motors_on
         /\ a.mode # AP_MODE_FAILSAFE => GroundKill(a, al) = a
<1> DEFINE b == SetMode(a, al, AP_MODE_KILL)
           r == [b EXCEPT !.detect_ground = FALSE]
<1>1. Good(b, al) /\ (b.motors_on => a.motors_on)
  BY SetModeKeeps DEF Modes, AP_MODE_KILL
<1>2. GroundKill(a, al) \in {a, r}
  BY DEF GroundKill
<1> HIDE DEF b
<1>3. r.motors_on = b.motors_on
  BY <1>1 DEF Good, ApType
<1>4. Good(r, al)
  BY <1>1, OutputsKeep
<1> HIDE DEF r
<1> QED BY <1>1, <1>2, <1>3, <1>4 DEF GroundKill

(* SetRotorcraftCommands keeps the invariant and writes only the commands. *)
LEMMA SetAllCommandsKeeps ==
  ASSUME NEW a, NEW al \in BOOLEAN, NEW t \in BOOLEAN, Good(a, al)
  PROVE  /\ Good(SetAllCommands(a, t), al)
         /\ SetAllCommands(a, t).motors_on = a.motors_on
         /\ SetAllCommands(a, t).mode = a.mode
<1> DEFINE up == a.motors_on /\ (IF a.v_mode = "KILL" THEN a.stab_thrust ELSE t)
           w == IF up THEN "positive" ELSE "zero"
           f == [a EXCEPT !.thrust = "failsafe"]
           r == [a EXCEPT !.stab_thrust = up, !.thrust = w]
<1>1. up \in BOOLEAN /\ w \in {"failsafe", "zero", "positive"} /\ a \in ApType
  BY DEF Good, ApType
<1>2. SetAllCommands(a, t) \in {f, r}
  BY DEF SetAllCommands
<1> HIDE DEF up, w
<1>3. Good(f, al) /\ Good(r, al)
  BY <1>1, OutputsKeep
<1>4. /\ f.motors_on = a.motors_on /\ f.mode = a.mode
      /\ r.motors_on = a.motors_on /\ r.mode = a.mode
  BY <1>1 DEF ApType
<1> QED BY <1>2, <1>3, <1>4

(* autopilot_periodic keeps the invariant and starts motors only in NAV.   *)
LEMMA PeriodicKeeps ==
  ASSUME NEW a, NEW al \in BOOLEAN, NEW ok \in BOOLEAN, NEW call \in NavCalls,
         NEW t \in BOOLEAN, Good(a, al)
  PROVE  /\ Good(Periodic(a, al, ok, call, t), al)
         /\ Periodic(a, al, ok, call, t).motors_on =>
              a.motors_on \/ Periodic(a, al, ok, call, t).mode = AP_MODE_NAV
<1> DEFINE n == NavCall(a, al, call)
           g == GroundKill(n, al)
           c == SetAllCommands(g, t)
<1>1. Good(n, al) /\ n.mode = a.mode /\ (n.motors_on => a.motors_on \/ a.mode = AP_MODE_NAV)
  BY NavCallKeeps
<1>2. Periodic(a, al, ok, call, t) = IF ok THEN c ELSE CheckInFlight(c, c.stab_thrust)
  BY DEF Periodic
<1> HIDE DEF n
<1>3. /\ Good(g, al)
      /\ g.motors_on => n.motors_on
      /\ n.mode # AP_MODE_FAILSAFE => g = n
  BY <1>1, GroundKillKeeps
<1> HIDE DEF g
<1>4. Good(c, al) /\ c.motors_on = g.motors_on /\ c.mode = g.mode
  BY <1>3, SetAllCommandsKeeps
<1> HIDE DEF c
<1>5. c.stab_thrust \in BOOLEAN
  BY <1>4 DEF Good, ApType
<1>6. /\ Good(CheckInFlight(c, c.stab_thrust), al)
      /\ CheckInFlight(c, c.stab_thrust).motors_on = c.motors_on
      /\ CheckInFlight(c, c.stab_thrust).mode = c.mode
  BY <1>4, <1>5, CheckInFlightKeeps
<1>7. AP_MODE_NAV # AP_MODE_FAILSAFE
  BY DEF AP_MODE_NAV, AP_MODE_FAILSAFE
<1> QED BY <1>1, <1>2, <1>3, <1>4, <1>6, <1>7

(* failsafe_check keeps the invariant and starts nothing.                  *)
LEMMA FailsafeKeeps ==
  ASSUME NEW a, NEW al \in BOOLEAN, NEW ok \in BOOLEAN, NEW lost \in BOOLEAN, Good(a, al)
  PROVE  LET r == GpsFailsafe(RcFailsafe(a, al, ok), al, ok, lost)
         IN  Good(r, al) /\ (r.motors_on => a.motors_on)
<1> DEFINE b == RcFailsafe(a, al, ok)
<1>1. AP_MODE_FAILSAFE \in Modes
  BY DEF AP_MODE_FAILSAFE, Modes
<1>2. Good(b, al) /\ (b.motors_on => a.motors_on)
  BY <1>1, SetModeKeeps DEF RcFailsafe
<1> HIDE DEF b
<1>3. /\ Good(GpsFailsafe(b, al, ok, lost), al)
      /\ GpsFailsafe(b, al, ok, lost).motors_on => b.motors_on
  BY <1>1, <1>2, SetModeKeeps DEF GpsFailsafe
<1> QED BY <1>2, <1>3 DEF b

-----------------------------------------------------------------------------
(* The inductive invariant: the flags are Booleans and the autopilot's     *)
(* record is Good for the present alignment.                               *)
IInv ==
  /\ ahrs \in BOOLEAN /\ rc_ok \in BOOLEAN /\ gps_lost \in BOOLEAN
  /\ Good(ap, aligned)

(* autopilot_init: with alignment required, the first autopilot_set_mode   *)
(* turns the NAV the globals start in into KILL; without, nothing happens. *)
LEMMA InitGood == Init => IInv
<1> SUFFICES ASSUME Init
             PROVE  Good(ap, aligned)
  BY DEF Init, IInv
<1>1. AHRS_KILL \in BOOLEAN /\ aligned = ~AHRS_KILL
  BY AutopilotAssumption DEF Init, aligned
<1>2. /\ {0, 1} \subseteq 0..IN_FLIGHT_TIME /\ 0 \in 0..ARMING_DELAY
      /\ 0 < IN_FLIGHT_TIME
  BY AutopilotAssumption
<1>3. ArmingInit \in ArmingStates /\ ArmingInit \in {"MOTORS_OFF", "UNINIT"}
  BY AutopilotAssumption DEF ArmingInit, ArmingStates
<1>4. /\ ApReset \in ApType /\ CounterInv(ApReset) /\ FlightCounter(ApReset)
      /\ ApReset.mode = AP_MODE_NAV /\ ApReset.h_mode = "KILL" /\ ~ApReset.motors_on
      /\ ApReset.arming # "MOTORS_ON" /\ ~ApReset.unarmed_in_auto
  BY <1>2, <1>3, AutopilotAssumption
     DEF ApReset, ApType, CounterInv, FlightCounter, HModes, VModes, Modes, AP_MODE_NAV
<1>5. CASE ~AHRS_KILL
  <2>1. ap = ApReset
    BY <1>1, <1>4, <1>5 DEF Init, SetMode
  <2> QED BY <1>1, <1>4, <1>5, <2>1 DEF Good
<1>6. CASE AHRS_KILL
  <2> DEFINE m == FALSE /\ FALSE
             b == [ApReset EXCEPT !.motors_on = m, !.kill_throttle = ~m]
             c == ArmingSet(b, m)
             d == [c EXCEPT !.in_flight = FALSE, !.in_flight_counter = 0]
             h == HModeOf(AP_MODE_KILL, ApReset.h_mode)
             v == VModeOf(AP_MODE_KILL)
             r == [d EXCEPT !.mode = AP_MODE_KILL, !.h_mode = h, !.v_mode = v]
  <2>1. AP_MODE_KILL # AP_MODE_NAV /\ AP_MODE_KILL \in Modes /\ KillsMotors(AP_MODE_KILL)
    BY DEF AP_MODE_KILL, AP_MODE_NAV, Modes, KillsMotors
  <2>2. ap = SetMode(ApReset, FALSE, AP_MODE_NAV)
    BY <1>1, <1>6 DEF Init
  <2>3. StopForMode(ApReset, FALSE, AP_MODE_KILL) = d
    BY <2>1 DEF StopForMode, SetMotorsOn
  <2>4. ap = r
    BY <1>4, <2>1, <2>2, <2>3 DEF SetMode
  <2>5. /\ b \in ApType /\ CounterInv(b)
        /\ b.arming # "MOTORS_ON" /\ ~b.unarmed_in_auto /\ ~b.motors_on
    BY <1>4 DEF ApType, CounterInv
  <2>6. m \in BOOLEAN /\ ~m
    OBVIOUS
  <2> HIDE DEF m, b
  <2>7. /\ c \in ApType /\ CounterInv(c) /\ ~c.motors_on
        /\ ARMING = "switch" => c.arming # "MOTORS_ON" /\ ~c.unarmed_in_auto
    BY <2>5, <2>6, ArmingSetSound, ArmingSetFrame DEF ArmingSet, ArmingSetSwitch
  <2> HIDE DEF c
  <2>8. h = "KILL" /\ v = "KILL"
    BY <2>1 DEF HModeOf, VModeOf
  <2> HIDE DEF h, v
  <2>9. d \in ApType /\ CounterInv(d) /\ FlightCounter(d) /\ ~d.motors_on
        /\ d.arming = c.arming /\ d.unarmed_in_auto = c.unarmed_in_auto
    BY <1>2, <2>7 DEF ApType, CounterInv, FlightCounter
  <2> HIDE DEF d
  <2>10. r \in ApType /\ CounterInv(r) /\ FlightCounter(r)
    BY <2>1, <2>8, <2>9 DEF ApType, CounterInv, FlightCounter, HModes, VModes
  <2>11. Unaligned(r)
    BY <2>7, <2>9 DEF ApType, Unaligned
  <2>12. Guidance(r)
    BY <2>1, <2>8, <2>9 DEF ApType, Guidance, KillsMotors
  <2> QED BY <2>4, <2>10, <2>11, <2>12 DEF Good
<1> QED BY <1>1, <1>5, <1>6

(* Gaining the alignment can only weaken what Good asks.                   *)
LEMMA AlignKeeps ==
  ASSUME NEW a, NEW al, Good(a, al)
  PROVE  Good(a, TRUE)
BY DEF Good

(* Every action keeps the inductive invariant, and starts motors only in a *)
(* mode above KILL or on the operator's setting unless the switch header   *)
(* is compiled in.                                                         *)
LEMMA StepGood ==
  ASSUME IInv, Next
  PROVE  /\ IInv'
         /\ ARMING # "switch" /\ ~ap.motors_on /\ ap'.motors_on =>
              ap'.mode > AP_MODE_KILL \/ SettingKillThrottle(FALSE)
<1> DEFINE Starts == ~ap.motors_on /\ ap'.motors_on
           Goal == /\ IInv'
                   /\ ARMING # "switch" /\ Starts =>
                        ap'.mode > AP_MODE_KILL \/ SettingKillThrottle(FALSE)
<1>1. /\ ahrs \in BOOLEAN /\ rc_ok \in BOOLEAN /\ gps_lost \in BOOLEAN
      /\ aligned \in BOOLEAN
      /\ Good(ap, aligned)
  BY AutopilotAssumption DEF IInv, aligned
<1>2. ASSUME rc_ok' \in BOOLEAN, gps_lost' \in BOOLEAN, ahrs' = ahrs, Good(ap', aligned)
      PROVE  IInv'
  BY <1>1, <1>2 DEF IInv, aligned
<1>3. AP_MODE_NAV > AP_MODE_KILL /\ {AP_MODE_KILL, AP_MODE_NAV} \subseteq Modes
  BY DEF AP_MODE_NAV, AP_MODE_KILL, Modes
<1> SUFFICES Goal
  OBVIOUS
<1>4. ASSUME NEW s \in Sticks, RcFrame(s)
      PROVE  Goal
  BY <1>1, <1>2, <1>4, OnRcFrameKeeps DEF RcFrame
<1>5. CASE RcTimeout
  BY <1>1, <1>2, <1>5 DEF RcTimeout
<1>6. CASE AutopilotPeriodic
  <2>1. PICK call \in NavCalls, t \in BOOLEAN :
          ap' = Periodic(ap, aligned, rc_ok, call, t)
    BY <1>6 DEF AutopilotPeriodic
  <2>2. Good(ap', aligned) /\ (ap'.motors_on => ap.motors_on \/ ap'.mode = AP_MODE_NAV)
    BY <1>1, <2>1, PeriodicKeeps
  <2>3. UNCHANGED <<ahrs, rc_ok, gps_lost>>
    BY <1>6 DEF AutopilotPeriodic
  <2> QED BY <1>1, <1>2, <1>3, <2>2, <2>3
<1>7. CASE FailsafeCheck
  BY <1>1, <1>2, <1>7, FailsafeKeeps DEF FailsafeCheck
<1>8. CASE DetectGroundEvent
  <2>1. ap' = [ap EXCEPT !.detect_ground = TRUE, !.detect_ground_once = FALSE]
    BY <1>8 DEF DetectGroundEvent
  <2>2. Good(ap', aligned)
    BY <1>1, <2>1, OutputsKeep
  <2>3. ap'.motors_on = ap.motors_on
    BY <1>1, <2>1 DEF Good, ApType
  <2> QED BY <1>1, <1>2, <1>8, <2>2, <2>3 DEF DetectGroundEvent
<1>9. CASE AhrsAlign
  BY <1>1, <1>9, AlignKeeps DEF AhrsAlign, IInv, aligned
<1>10. CASE GpsChange
  BY <1>1, <1>2, <1>10 DEF GpsChange
<1>11. ASSUME NEW m \in AUTO2_CHOICES, SettingAuto2(m)
       PROVE  Goal
  <2>1. ap' = [ap EXCEPT !.mode_auto2 = m] /\ m \in Modes
    BY <1>11, AutopilotAssumption DEF SettingAuto2
  <2>2. Good(ap', aligned)
    BY <1>1, <2>1, OutputsKeep
  <2>3. ap'.motors_on = ap.motors_on
    BY <1>1, <2>1 DEF Good, ApType
  <2> QED BY <1>1, <1>2, <1>11, <2>2, <2>3 DEF SettingAuto2
<1>12. ASSUME NEW kill \in BOOLEAN, SettingKillThrottle(kill)
       PROVE  Goal
  <2>1. UNCHANGED <<ahrs, rc_ok, gps_lost>>
    BY <1>12 DEF SettingKillThrottle
  <2>2. CASE kill
    <3>1. ap' = SetMotorsOn(ap, aligned, FALSE)
      BY <1>12, <2>2 DEF SettingKillThrottle
    <3>2. Good(ap', aligned) /\ ~ap'.motors_on
      BY <1>1, <3>1, SetMotorsOnKeeps
    <3> QED BY <1>1, <1>2, <2>1, <3>2
  <2>3. CASE ~kill
    <3>1. ap' = SetMotorsOn(ap, aligned, TRUE) /\ SettingKillThrottle(FALSE)
      BY <1>12, <2>3 DEF SettingKillThrottle
    <3>2. Good(ap', aligned)
      BY <1>1, <3>1, SetMotorsOnKeeps
    <3> QED BY <1>1, <1>2, <2>1, <3>1, <3>2
  <2> QED BY <2>2, <2>3
<1>13. ASSUME NEW m \in {AP_MODE_KILL, AP_MODE_NAV}, SwarmAckMode(m)
       PROVE  Goal
  BY <1>1, <1>2, <1>3, <1>13, SetModeKeeps DEF SwarmAckMode
<1> QED BY <1>4, <1>5, <1>6, <1>7, <1>8, <1>9, <1>10, <1>11, <1>12, <1>13 DEF Next

(* What the inductive invariant says of the present state.                 *)
LEMMA IInvImplies ==
  ASSUME IInv
  PROVE  /\ TypeOK
         /\ MotorsNeedAhrs
         /\ InFlightCounter
         /\ CountdownArmed
         /\ AHRS_KILL => GuidanceFollowsMode
<1>1. aligned \in BOOLEAN
  BY AutopilotAssumption DEF IInv, aligned
<1>2. TypeOK
  BY DEF IInv, Good, TypeOK
<1>3. MotorsNeedAhrs
  BY <1>1 DEF IInv, Good, Unaligned, MotorsNeedAhrs
<1>4. InFlightCounter /\ CountdownArmed
  BY DEF IInv, Good, FlightCounter, InFlightCounter, CounterInv, CountdownArmed
<1>5. AHRS_KILL => GuidanceFollowsMode
  BY DEF IInv, Good, Guidance, GuidanceFollowsMode
<1> QED BY <1>2, <1>3, <1>4, <1>5

(* The inductive invariant holds in every reachable state.                 *)
THEOREM Inductive == Spec => []IInv
<1>1. IInv /\ [Next]_vars => IInv'
  <2>1. CASE UNCHANGED vars
    BY <2>1 DEF vars, IInv, aligned
  <2> QED BY <2>1, StepGood
<1> QED BY InitGood, <1>1, PTL DEF Spec

(* Every global of the autopilot keeps its type; in particular the unsigned *)
(* counters of arming and flight detection never wrap, whatever the delay  *)
(* and whichever arming header is compiled in.                             *)
THEOREM TypeCorrect == Spec => []TypeOK
BY Inductive, IInvImplies, PTL

(* The motors are never on before the attitude estimate is aligned, in     *)
(* every arming header, although autopilot_arming_check_motors_on sets     *)
(* autopilot_motors_on without asking.                                     *)
THEOREM MotorsWaitForAhrs == Spec => []MotorsNeedAhrs
BY Inductive, IInvImplies, PTL

(* The flight flag and its counter never reach a pair of values that the   *)
(* two check_in_flight functions cannot leave.                             *)
THEOREM FlightCounterInStep == Spec => []InFlightCounter
BY Inductive, IInvImplies, PTL

(* The decrement of the disarming countdowns never wraps, whatever mode    *)
(* change, kill or restart interrupts them.                                *)
THEOREM CountdownNeverWraps == Spec => []CountdownArmed
BY Inductive, IInvImplies, PTL

(* Built with the AHRS kill, the guidance loops follow the autopilot mode. *)
THEOREM GuidanceInStep ==
  ASSUME AHRS_KILL
  PROVE  Spec => []GuidanceFollowsMode
BY Inductive, IInvImplies, PTL

(* The arming headers' "only allow switching motor if not in FAILSAFE or   *)
(* KILL mode": with the yaw and throttle headers no action but the         *)
(* operator's kill_throttle setting starts the motors in these modes.      *)
THEOREM StartsOnlyInActiveMode ==
  ASSUME ARMING # "switch"
  PROVE  Spec => StartsInActiveMode
<1> DEFINE Starting == ~ap.motors_on /\ ap'.motors_on =>
                         ap'.mode > AP_MODE_KILL \/ SettingKillThrottle(FALSE)
<1>1. IInv /\ [Next]_vars => [Starting]_vars
  BY StepGood
<1> QED BY Inductive, <1>1, PTL DEF Spec, StartsInActiveMode
=============================================================================
