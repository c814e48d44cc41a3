------------------------ MODULE AutopilotRadioProofs ------------------------
(***************************************************************************)
(* The radio of module AutopilotRadio for every number of channels and all *)
(* its time constants, and that with it the autopilot still implements     *)
(* module Autopilot, so that what is proved there holds of the two; with   *)
(* the histories of MCAutopilotRadio, what makes a frame and a good radio. *)
(***************************************************************************)
EXTENDS MCAutopilotRadio, TLAPS

RadioType == ppm \in PpmType /\ radio_control \in RcType /\ handling \in BOOLEAN

(* A radio that is trusted has nothing left to count, which is why the     *)
(* frame that makes it RC_OK is the only one after which this is not       *)
(* decided by the periodic task.                                           *)
RadioInv == RadioType /\ FreshRadio

LEMMA InitRadio == Init => RadioInv
<1> SUFFICES ASSUME Init PROVE RadioInv
  OBVIOUS
<1>1. PPM_NB_CHANNEL \in 0 .. PPM_NB_CHANNEL /\ RC_REALLY_LOST_TIME \in 0 .. RC_REALLY_LOST_TIME
      /\ 0 \in 0 .. RC_OK_CPT
  BY RadioAssumption
<1>2. ppm \in PpmType
  BY <1>1 DEF Init, RadioInit, PpmType
<1>3. radio_control \in RcType
  BY <1>1 DEF Init, RadioInit, RcType
<1> QED
  BY <1>2, <1>3 DEF Init, RadioInit, RadioInv, RadioType, FreshRadio, rc_ok

(* The decoder keeps its type: it counts only below PPM_NB_CHANNEL.        *)
LEMMA PulseRadio ==
  ASSUME RadioInv, NEW length \in Lengths, Pulse(length)
  PROVE  RadioInv'
<1> ppm \in PpmType
  BY DEF RadioInv, RadioType
<1>a. 0 \in 0 .. PPM_NB_CHANNEL /\ PPM_NB_CHANNEL \in 0 .. PPM_NB_CHANNEL
  BY RadioAssumption
<1>1. DecodePpmFrame(ppm, length) \in PpmType
  <2>1. CASE ppm.cur_pulse = PPM_NB_CHANNEL
    <3>1. (ppm.frame_available \/ ppm.data_valid) \in BOOLEAN
      BY DEF PpmType
    <3> QED
      BY <1>a, <2>1, <3>1 DEF PpmType, DecodePpmFrame, AwaitSynchro
  <2>2. CASE ppm.cur_pulse # PPM_NB_CHANNEL
    <3>1. ppm.cur_pulse + 1 \in 0 .. PPM_NB_CHANNEL
      BY <2>2, RadioAssumption DEF PpmType
    <3>2. (ppm.data_valid \/ ppm.cur_pulse + 1 = PPM_NB_CHANNEL) \in BOOLEAN
      BY DEF PpmType
    <3> QED
      BY <1>a, <2>2, <3>1, <3>2 DEF PpmType, AwaitData, DecodePpmFrame
  <2> QED BY <2>1, <2>2
<1> QED
  BY <1>1 DEF Pulse, RadioInv, RadioType, FreshRadio, rc_ok, Trusted

(* A frame is young, and makes the radio RC_OK only when none is counted.  *)
LEMMA EventRadio ==
  ASSUME RadioInv, NEW s, RadioControlEvent(s)
  PROVE  RadioInv'
<1> radio_control \in RcType
  BY DEF RadioInv, RadioType
<1>a. 0 \in 0 .. RC_REALLY_LOST_TIME
  BY RadioAssumption
<1>b. ~Trusted(radio_control) => radio_control.ok_cpt - 1 \in 0 .. RC_OK_CPT
  BY RadioAssumption DEF RcType, Trusted
<1>1. Receive(radio_control) \in RcType
  BY <1>a, <1>b DEF RcType, Receive
<1>2. FreshRadio'
  BY RadioAssumption
  DEF RadioInv, RadioType, RcType, FreshRadio, rc_ok, RadioControlEvent, Receive, Trusted
<1> QED
  BY <1>1, <1>2 DEF RadioControlEvent, RadioInv, RadioType

(* The periodic task takes RC_OK away at the first look at a frame that is *)
(* RC_LOST_TIME old.                                                       *)
LEMMA PeriodicRadio ==
  ASSUME RadioInv, RadioControlPeriodic
  PROVE  RadioInv'
<1> radio_control \in RcType
  BY DEF RadioInv, RadioType
<1>a. RC_OK_CPT \in 0 .. RC_OK_CPT
  BY RadioAssumption
<1>b. ~(radio_control.time >= RC_REALLY_LOST_TIME) =>
        radio_control.time + 1 \in 0 .. RC_REALLY_LOST_TIME
  BY RadioAssumption DEF RcType
<1>1. Age(radio_control) \in RcType
  BY <1>a, <1>b DEF RcType, Age
<1>2. FreshRadio'
  BY RadioAssumption
  DEF RadioInv, RadioType, RcType, FreshRadio, rc_ok, RadioControlPeriodic, Age, Trusted
<1> QED
  BY <1>1, <1>2 DEF RadioControlPeriodic, RadioInv, RadioType

LEMMA NextRadio == RadioInv /\ [Next]_allVars => RadioInv'
<1> SUFFICES ASSUME RadioInv, [Next]_allVars
             PROVE  RadioInv'
  OBVIOUS
<1>1. CASE \E length \in Lengths : Pulse(length)
  BY <1>1, PulseRadio
<1>2. CASE \E s \in A!Sticks : RadioControlEvent(s)
  BY <1>2, EventRadio
<1>3. CASE FrameTaken
  BY <1>3 DEF FrameTaken, RadioInv, RadioType, PpmType, FreshRadio, rc_ok, Trusted
<1>4. CASE RadioControlPeriodic
  BY <1>4, PeriodicRadio
<1>5. CASE FailsafeCheck \/ OtherHandlers
  BY <1>5
  DEF FailsafeCheck, OtherHandlers, radioVars, RadioInv, RadioType, FreshRadio, rc_ok, Trusted
<1>6. CASE UNCHANGED allVars
  BY <1>6 DEF allVars, RadioInv, RadioType, FreshRadio, rc_ok, Trusted
<1> QED
  BY <1>1, <1>2, <1>3, <1>4, <1>5, <1>6 DEF Next

(* The decoder and the counters of radio_control keep their types, and a   *)
(* radio reported RC_OK is fresh and trusted.                              *)
THEOREM RadioInductive == Spec => []RadioInv
BY InitRadio, NextRadio, PTL DEF Spec

(* Nothing flies on a frame older than RC_LOST_TIME, whatever pulses come, *)
(* for every number of channels and all the times of radio_control.h.      *)
THEOREM RadioIsFresh == Spec => []FreshRadio
<1>1. RadioInv => FreshRadio
  BY DEF RadioInv
<1> QED BY <1>1, RadioInductive, PTL

-----------------------------------------------------------------------------
(* Each step of the two is a step of Autopilot, or leaves it as it is.     *)

LEMMA InitRefines == Init => A!Init
BY DEF Init

(* A frame that is counted down changes nothing that Autopilot sees, since *)
(* the radio is then not RC_OK; any other is an RcFrame.                   *)
LEMMA EventRefines ==
  ASSUME RadioInv, NEW s \in A!Sticks, RadioControlEvent(s)
  PROVE  [A!Next]_A!vars
<1>1. CASE Trusted(radio_control)
  BY <1>1 DEF RadioControlEvent, A!Next
<1>2. CASE ~Trusted(radio_control)
  <2>1. rc_ok' = rc_ok
    BY <1>2 DEF RadioControlEvent, Receive, rc_ok, RadioInv, RadioType, RcType
  <2> QED
    BY <1>2, <2>1 DEF RadioControlEvent, autopilotVars, A!vars
<1> QED BY <1>1, <1>2

(* The periodic task is RcTimeout when it takes RC_OK away; it never gives *)
(* it.                                                                     *)
LEMMA PeriodicRefines ==
  ASSUME RadioInv, RadioControlPeriodic
  PROVE  [A!Next]_A!vars
<1>1. rc_ok' => rc_ok
  BY DEF RadioControlPeriodic, Age, rc_ok, RadioInv, RadioType, RcType
<1>2. CASE rc_ok' = rc_ok
  BY <1>2 DEF RadioControlPeriodic, autopilotVars, A!vars
<1>3. CASE rc_ok /\ ~rc_ok'
  BY <1>3 DEF RadioControlPeriodic, autopilotVars, A!RcTimeout, A!Next
<1> QED BY <1>1, <1>2, <1>3 DEF rc_ok

LEMMA StepRefines == RadioInv /\ [Next]_allVars => [A!Next]_A!vars
<1> SUFFICES ASSUME RadioInv, [Next]_allVars
             PROVE  [A!Next]_A!vars
  OBVIOUS
<1>1. CASE \E length \in Lengths : Pulse(length)
  BY <1>1 DEF Pulse, autopilotVars, rc_ok, A!vars
<1>2. CASE \E s \in A!Sticks : RadioControlEvent(s)
  BY <1>2, EventRefines
<1>3. CASE FrameTaken
  BY <1>3 DEF FrameTaken, autopilotVars, rc_ok, A!vars
<1>4. CASE RadioControlPeriodic
  BY <1>4, PeriodicRefines
<1>5. CASE FailsafeCheck
  BY <1>5 DEF FailsafeCheck, A!Next
<1>6. CASE OtherHandlers
  BY <1>6 DEF OtherHandlers, A!Next
<1>7. CASE UNCHANGED allVars
  BY <1>7 DEF allVars, rc_ok, A!vars
<1> QED
  BY <1>1, <1>2, <1>3, <1>4, <1>5, <1>6, <1>7 DEF Next

(* The autopilot with its radio implements module Autopilot, for every     *)
(* configuration of both: whatever pulses come, the autopilot sees RC_OK   *)
(* begin only with a frame that its handler gets.                          *)
THEOREM RadioRefinesAutopilot == Spec => A!Spec
<1>1. RadioInv /\ [Next]_allVars => [A!Next]_A!vars
  BY StepRefines
<1> QED
  BY InitRefines, <1>1, RadioInductive, PTL DEF Spec, A!Spec
-----------------------------------------------------------------------------
(* What is proved in AutopilotProofs of every rc_ok holds of the one that  *)
(* the radio makes: the instance A of module Autopilot and the one that    *)
(* the proofs are about are the same definitions, which the provers are    *)
(* shown from the operators up.                                            *)
P == INSTANCE AutopilotProofs

LEMMA SameConfiguration == P!AutopilotAssumption
BY AutopilotRadioAssumption
   DEF P!AutopilotAssumption, A!Modes, P!Modes, A!AP_MODE_KILL, P!AP_MODE_KILL

LEMMA SameModes ==
  /\ A!AP_MODE_FAILSAFE = P!AP_MODE_FAILSAFE
  /\ A!AP_MODE_KILL = P!AP_MODE_KILL
  /\ A!AP_MODE_NAV = P!AP_MODE_NAV
  /\ \A m : A!KillsMotors(m) <=> P!KillsMotors(m)
  /\ \A m, h : A!HModeOf(m, h) = P!HModeOf(m, h)
  /\ \A m : A!VModeOf(m) = P!VModeOf(m)
BY DEF A!KillsMotors, P!KillsMotors, A!HModeOf, P!HModeOf, A!VModeOf, P!VModeOf,
   A!AP_MODE_FAILSAFE, P!AP_MODE_FAILSAFE, A!AP_MODE_KILL, P!AP_MODE_KILL,
   A!AP_MODE_NAV, P!AP_MODE_NAV,
   A!AP_MODE_RATE_DIRECT, P!AP_MODE_RATE_DIRECT,
   A!AP_MODE_ATTITUDE_DIRECT, P!AP_MODE_ATTITUDE_DIRECT,
   A!AP_MODE_RATE_RC_CLIMB, P!AP_MODE_RATE_RC_CLIMB,
   A!AP_MODE_ATTITUDE_RC_CLIMB, P!AP_MODE_ATTITUDE_RC_CLIMB,
   A!AP_MODE_ATTITUDE_CLIMB, P!AP_MODE_ATTITUDE_CLIMB,
   A!AP_MODE_RATE_Z_HOLD, P!AP_MODE_RATE_Z_HOLD,
   A!AP_MODE_ATTITUDE_Z_HOLD, P!AP_MODE_ATTITUDE_Z_HOLD,
   A!AP_MODE_HOVER_DIRECT, P!AP_MODE_HOVER_DIRECT,
   A!AP_MODE_HOVER_CLIMB, P!AP_MODE_HOVER_CLIMB,
   A!AP_MODE_HOVER_Z_HOLD, P!AP_MODE_HOVER_Z_HOLD,
   A!AP_MODE_RC_DIRECT, P!AP_MODE_RC_DIRECT,
   A!AP_MODE_CARE_FREE_DIRECT, P!AP_MODE_CARE_FREE_DIRECT,
   A!AP_MODE_FORWARD, P!AP_MODE_FORWARD

LEMMA SameArming ==
  /\ \A a, on : A!ArmingSet(a, on) = P!ArmingSet(a, on)
  /\ \A a, s : A!ArmingCheck(a, s) = P!ArmingCheck(a, s)
<1>1. \A a, on : A!ArmingSet(a, on) = P!ArmingSet(a, on)
  BY DEF A!ArmingSet, P!ArmingSet, A!ArmingSetYaw, P!ArmingSetYaw,
     A!ArmingSetThrottle, P!ArmingSetThrottle, A!ArmingSetSwitch, P!ArmingSetSwitch
<1>2. \A a, s : A!ArmingCheckYaw(a, s) = P!ArmingCheckYaw(a, s)
  BY DEF A!ArmingCheckYaw, P!ArmingCheckYaw, A!YawGesture, P!YawGesture, A!YawOff, P!YawOff,
     A!YawOffPushed, P!YawOffPushed, A!YawStart, P!YawStart, A!YawOn, P!YawOn,
     A!YawOnPushed, P!YawOnPushed, A!YawStop, P!YawStop
<1>3. \A a, s : A!ArmingCheckThrottle(a, s) = P!ArmingCheckThrottle(a, s)
  BY DEF A!ArmingCheckThrottle, P!ArmingCheckThrottle, A!MayArm, P!MayArm,
     A!ThrottleWaiting, P!ThrottleWaiting, A!ThrottleReady, P!ThrottleReady,
     A!ThrottleArming, P!ThrottleArming, A!ThrottleOn, P!ThrottleOn,
     A!ThrottleUnarming, P!ThrottleUnarming
<1>4. \A a, s : A!ArmingCheckSwitch(a, s) = P!ArmingCheckSwitch(a, s)
  BY DEF A!ArmingCheckSwitch, P!ArmingCheckSwitch, A!MayArm, P!MayArm,
     A!SwitchWaiting, P!SwitchWaiting, A!SwitchStartable, P!SwitchStartable, A!SwitchOn, P!SwitchOn
<1>5. \A a, s : A!ArmingCheck(a, s) = P!ArmingCheck(a, s)
  BY <1>2, <1>3, <1>4, SameModes DEF A!ArmingCheck, P!ArmingCheck
<1> QED BY <1>1, <1>5

LEMMA SameSetMode ==
  /\ \A a, al, on : A!SetMotorsOn(a, al, on) = P!SetMotorsOn(a, al, on)
  /\ \A a, al, m : A!SetMode(a, al, m) = P!SetMode(a, al, m)
<1>1. \A a, al, on : A!SetMotorsOn(a, al, on) = P!SetMotorsOn(a, al, on)
  BY SameArming DEF A!SetMotorsOn, P!SetMotorsOn
<1>2. \A a, al, m : A!StopForMode(a, al, m) = P!StopForMode(a, al, m)
  BY <1>1, SameModes DEF A!StopForMode, P!StopForMode
<1>3. \A a, al, m : A!SetMode(a, al, m) = P!SetMode(a, al, m)
  BY <1>2, SameModes DEF A!SetMode, P!SetMode
<1> QED BY <1>1, <1>3

LEMMA SameHandlers ==
  /\ \A a, al, lost, s : A!OnRcFrame(a, al, lost, s) = P!OnRcFrame(a, al, lost, s)
  /\ \A a, al, ok, call, t : A!Periodic(a, al, ok, call, t) = P!Periodic(a, al, ok, call, t)
<1>1. \A a, up : A!CheckInFlight(a, up) = P!CheckInFlight(a, up)
  BY DEF A!CheckInFlight, P!CheckInFlight
<1>2. \A a, al, call : A!NavCall(a, al, call) = P!NavCall(a, al, call)
  BY SameModes, SameSetMode DEF A!NavCall, P!NavCall
<1>3. \A a, al : A!GroundKill(a, al) = P!GroundKill(a, al)
  BY SameModes, SameSetMode DEF A!GroundKill, P!GroundKill
<1>4. \A a, t : A!SetAllCommands(a, t) = P!SetAllCommands(a, t)
  BY SameModes DEF A!SetAllCommands, P!SetAllCommands, A!UsesFailsafeCommands, P!UsesFailsafeCommands
<1>5. \A a, al, lost, s : A!OnRcFrame(a, al, lost, s) = P!OnRcFrame(a, al, lost, s)
  BY <1>1, SameModes, SameArming, SameSetMode
     DEF A!OnRcFrame, P!OnRcFrame, A!RcMode, P!RcMode, A!RcMotors, P!RcMotors,
     A!ModeOfSwitch, P!ModeOfSwitch
<1>6. \A a, al, ok, call, t : A!Periodic(a, al, ok, call, t) = P!Periodic(a, al, ok, call, t)
  BY <1>1, <1>2, <1>3, <1>4 DEF A!Periodic, P!Periodic
<1> QED BY <1>5, <1>6

LEMMA SameInit == A!Init => P!Init
BY SameModes, SameSetMode
   DEF A!Init, P!Init, A!aligned, P!aligned, A!ApReset, P!ApReset, A!ArmingInit, P!ArmingInit

LEMMA SameNext == [A!Next]_A!vars => [P!Next]_P!vars
<1> SUFFICES ASSUME [A!Next]_A!vars
             PROVE  [P!Next]_P!vars
  OBVIOUS
<1> USE SameModes, SameSetMode DEF P!Next, A!aligned, P!aligned
<1>1. CASE \E s \in A!Sticks : A!RcFrame(s)
  BY <1>1, SameHandlers DEF A!RcFrame, P!RcFrame, A!Sticks, P!Sticks
<1>2. CASE A!RcTimeout
  BY <1>2 DEF A!RcTimeout, P!RcTimeout
<1>3. CASE A!AutopilotPeriodic
  BY <1>3, SameHandlers DEF A!AutopilotPeriodic, P!AutopilotPeriodic, A!NavCalls, P!NavCalls
<1>4. CASE A!FailsafeCheck
  BY <1>4 DEF A!FailsafeCheck, P!FailsafeCheck, A!RcFailsafe, P!RcFailsafe,
     A!GpsFailsafe, P!GpsFailsafe
<1>5. CASE A!DetectGroundEvent
  BY <1>5 DEF A!DetectGroundEvent, P!DetectGroundEvent
<1>6. CASE A!AhrsAlign
  BY <1>6 DEF A!AhrsAlign, P!AhrsAlign
<1>7. CASE A!GpsChange
  BY <1>7 DEF A!GpsChange, P!GpsChange
<1>8. CASE \E m \in AUTO2_CHOICES : A!SettingAuto2(m)
  BY <1>8 DEF A!SettingAuto2, P!SettingAuto2
<1>9. CASE \E kill \in BOOLEAN : A!SettingKillThrottle(kill)
  BY <1>9 DEF A!SettingKillThrottle, P!SettingKillThrottle
<1>10. CASE \E m \in {A!AP_MODE_KILL, A!AP_MODE_NAV} : A!SwarmAckMode(m)
  BY <1>10 DEF A!SwarmAckMode, P!SwarmAckMode
<1>11. CASE UNCHANGED A!vars
  BY <1>11 DEF A!vars, P!vars
<1> QED
  BY <1>1, <1>2, <1>3, <1>4, <1>5, <1>6, <1>7, <1>8, <1>9, <1>10, <1>11 DEF A!Next

(* Decoder, counters and the autopilot they drive keep their types for     *)
(* every configuration of both: no counter of the radio, of the arming or  *)
(* of the flight detection wraps.                                          *)
THEOREM RadioTypeCorrect == Spec => []TypeOK
<1>1. A!Spec => P!Spec
  BY SameInit, SameNext, PTL DEF A!Spec, P!Spec
<1>2. P!Spec => []P!TypeOK
  BY SameConfiguration, P!TypeCorrect
<1>3. RadioInv /\ P!TypeOK => TypeOK
  BY DEF RadioInv, RadioType, TypeOK, A!TypeOK, P!TypeOK, A!ApType, P!ApType, A!Modes, P!Modes,
     A!ArmingStates, P!ArmingStates, A!HModes, P!HModes, A!VModes, P!VModes
<1> QED
  BY <1>1, <1>2, <1>3, RadioInductive, RadioRefinesAutopilot, PTL

-----------------------------------------------------------------------------
(* Within a frame the decoder has counted the pulses since the synchro     *)
(* blank; it holds a frame to be valid when these are as many as channels. *)
(* Of the frames that RC_OK_CPT asks for, those not yet seen are counted.  *)
HistoryInv ==
  /\ pulses \in 0 .. PPM_NB_CHANNEL + 1
  /\ ppm.cur_pulse # PPM_NB_CHANNEL => pulses = ppm.cur_pulse /\ ~ppm.data_valid
  /\ ppm.data_valid => pulses = PPM_NB_CHANNEL
  /\ steady \in 0 .. RC_OK_CPT
  /\ steady + radio_control.ok_cpt >= RC_OK_CPT

LEMMA HistoryInit == MCInit => HistoryInv
BY RadioAssumption DEF MCInit, Init, RadioInit, HistoryInv

LEMMA HistoryPulse ==
  ASSUME RadioInv, HistoryInv, NEW length \in Lengths, MCPulse(length)
  PROVE  /\ HistoryInv'
         /\ ~ppm.frame_available /\ ppm'.frame_available =>
              pulses = PPM_NB_CHANNEL /\ pulses' = 0
<1>0. ppm \in PpmType /\ PPM_NB_CHANNEL \in Nat \ {0} /\ ppm' = DecodePpmFrame(ppm, length)
      /\ pulses' = PulsesAfter(length) /\ steady' = steady /\ radio_control' = radio_control
  BY RadioAssumption DEF RadioInv, RadioType, MCPulse, Pulse
<1>a. steady' \in 0 .. RC_OK_CPT /\ steady' + radio_control'.ok_cpt >= RC_OK_CPT
  BY <1>0 DEF HistoryInv
<1>1. CASE ppm.cur_pulse = PPM_NB_CHANNEL /\ length = "synchro"
  <2>1. /\ ppm'.cur_pulse = 0 /\ ~ppm'.data_valid
        /\ ppm'.frame_available = (ppm.frame_available \/ ppm.data_valid)
    BY <1>0, <1>1 DEF DecodePpmFrame, AwaitSynchro
  <2>2. pulses' = 0
    BY <1>0, <1>1 DEF PulsesAfter
  <2>3. HistoryInv'
    BY <1>0, <1>a, <2>1, <2>2 DEF HistoryInv
  <2>4. ASSUME ~ppm.frame_available, ppm'.frame_available
        PROVE  pulses = PPM_NB_CHANNEL
    BY <2>1, <2>4 DEF HistoryInv
  <2> QED BY <2>2, <2>3, <2>4
<1>2. CASE ppm.cur_pulse = PPM_NB_CHANNEL /\ length # "synchro"
  <2>1. ppm' = [ppm EXCEPT !.data_valid = FALSE]
    BY <1>0, <1>2 DEF DecodePpmFrame, AwaitSynchro
  <2>2. ppm'.cur_pulse = ppm.cur_pulse /\ ~ppm'.data_valid /\ ppm'.frame_available = ppm.frame_available
    BY <1>0, <2>1 DEF PpmType
  <2>3. pulses' \in 0 .. PPM_NB_CHANNEL + 1
    BY <1>0, <1>2 DEF PulsesAfter, Lengths, HistoryInv
  <2> QED BY <1>0, <1>2, <2>2, <2>3 DEF HistoryInv
<1>3. CASE ppm.cur_pulse # PPM_NB_CHANNEL /\ length = "data"
  <2>1. ppm' = [ppm EXCEPT !.cur_pulse = @ + 1,
                           !.data_valid = @ \/ ppm.cur_pulse + 1 = PPM_NB_CHANNEL]
    BY <1>0, <1>3 DEF DecodePpmFrame, AwaitData
  <2>2. /\ ppm'.cur_pulse = ppm.cur_pulse + 1 /\ ppm'.frame_available = ppm.frame_available
        /\ ppm'.data_valid = (ppm.data_valid \/ ppm.cur_pulse + 1 = PPM_NB_CHANNEL)
    BY <1>0, <2>1 DEF PpmType
  <2>3. pulses' = ppm.cur_pulse + 1 /\ pulses' \in 0 .. PPM_NB_CHANNEL
    BY <1>0, <1>3 DEF PulsesAfter, HistoryInv, PpmType
  <2>4. ~ppm.data_valid /\ (ppm'.data_valid <=> ppm'.cur_pulse = PPM_NB_CHANNEL)
    BY <1>3, <2>2 DEF HistoryInv
  <2>5. pulses' = ppm'.cur_pulse /\ pulses' \in 0 .. PPM_NB_CHANNEL + 1
    BY <1>0, <2>2, <2>3
  <2>6. HistoryInv'
    BY <1>a, <2>4, <2>5 DEF HistoryInv
  <2> QED BY <2>2, <2>6
<1>4. CASE ppm.cur_pulse # PPM_NB_CHANNEL /\ length # "data"
  <2>1. ppm' = [ppm EXCEPT !.cur_pulse = PPM_NB_CHANNEL, !.data_valid = FALSE]
    BY <1>0, <1>4 DEF DecodePpmFrame, AwaitData
  <2>2. ppm'.cur_pulse = PPM_NB_CHANNEL /\ ~ppm'.data_valid /\ ppm'.frame_available = ppm.frame_available
    BY <1>0, <2>1 DEF PpmType
  <2>3. pulses' \in 0 .. PPM_NB_CHANNEL + 1
    BY <1>0, <1>4 DEF PulsesAfter, Lengths
  <2> QED BY <1>0, <2>2, <2>3 DEF HistoryInv
<1> QED BY <1>1, <1>2, <1>3, <1>4

LEMMA HistoryStep ==
  ASSUME RadioInv, HistoryInv, [MCNext]_mcVars
  PROVE  /\ HistoryInv'
         /\ ~ppm.frame_available /\ ppm'.frame_available =>
              pulses = PPM_NB_CHANNEL /\ pulses' = 0
         /\ ~rc_ok /\ rc_ok' => steady = RC_OK_CPT
<1>0. /\ ppm \in PpmType /\ radio_control \in RcType /\ RC_OK_CPT \in Nat
      /\ RC_LOST_TIME \in Nat /\ RC_REALLY_LOST_TIME \in Nat /\ RC_LOST_TIME < RC_REALLY_LOST_TIME
  BY RadioAssumption DEF RadioInv, RadioType
<1>1. ASSUME NEW length \in Lengths, MCPulse(length)
      PROVE  /\ HistoryInv'
             /\ ~ppm.frame_available /\ ppm'.frame_available =>
                  pulses = PPM_NB_CHANNEL /\ pulses' = 0
             /\ rc_ok' = rc_ok
  <2>1. rc_ok' = rc_ok
    BY <1>1 DEF MCPulse, Pulse, rc_ok
  <2> QED BY <1>1, <2>1, HistoryPulse
<1>2. ASSUME NEW s \in MCSticks, MCRadioControlEvent(s)
      PROVE  HistoryInv' /\ ppm' = ppm /\ (~rc_ok /\ rc_ok' => steady = RC_OK_CPT)
  <2>1. /\ ppm' = ppm /\ pulses' = pulses /\ radio_control' = Receive(radio_control)
        /\ steady' = IF steady < RC_OK_CPT THEN steady + 1 ELSE steady
    BY <1>2 DEF MCRadioControlEvent, RadioControlEvent
  <2>2. CASE radio_control.ok_cpt = 0
    <3>1. radio_control'.ok_cpt = 0
      BY <1>0, <2>1, <2>2 DEF Receive, Trusted, RcType
    <3>2. steady = RC_OK_CPT
      BY <1>0, <2>2 DEF HistoryInv
    <3>3. steady' = steady
      BY <1>0, <2>1, <3>2
    <3>4. steady' \in 0 .. RC_OK_CPT /\ steady' + radio_control'.ok_cpt >= RC_OK_CPT
      BY <1>0, <3>1, <3>2, <3>3
    <3>5. HistoryInv'
      BY <2>1, <3>4 DEF HistoryInv
    <3> QED BY <2>1, <3>2, <3>5
  <2>3. CASE radio_control.ok_cpt # 0
    <3>1. radio_control'.ok_cpt = radio_control.ok_cpt - 1 /\ radio_control'.status = radio_control.status
      BY <1>0, <2>1, <2>3 DEF Receive, Trusted, RcType
    <3>2. rc_ok' = rc_ok
      BY <3>1 DEF rc_ok
    <3>3. radio_control.ok_cpt \in Nat
      BY <1>0 DEF RcType
    <3>4. steady \in 0 .. RC_OK_CPT /\ steady + radio_control.ok_cpt >= RC_OK_CPT
      BY DEF HistoryInv
    <3>5. steady' \in 0 .. RC_OK_CPT /\ steady' + radio_control'.ok_cpt >= RC_OK_CPT
      BY <1>0, <2>1, <2>3, <3>1, <3>3, <3>4
    <3>6. HistoryInv'
      BY <2>1, <3>5 DEF HistoryInv
    <3> QED BY <2>1, <3>2, <3>6
  <2> QED BY <2>1, <2>2, <2>3
<1>3. CASE MCRadioControlPeriodic
  <2>1. /\ ppm' = ppm /\ pulses' = pulses /\ radio_control' = Age(radio_control)
        /\ steady' = IF radio_control.time = RC_LOST_TIME THEN 0 ELSE steady
    BY <1>3 DEF MCRadioControlPeriodic, RadioControlPeriodic
  <2>2. rc_ok' => rc_ok
    BY <1>0, <2>1 DEF Age, rc_ok, RcType
  <2>3. radio_control'.ok_cpt \in {radio_control.ok_cpt, RC_OK_CPT}
        /\ (radio_control.time = RC_LOST_TIME => radio_control'.ok_cpt = RC_OK_CPT)
    BY <1>0, <2>1 DEF Age, RcType
  <2>4. radio_control.ok_cpt \in Nat
    BY <1>0 DEF RcType
  <2> QED BY <1>0, <2>1, <2>2, <2>3, <2>4 DEF HistoryInv
<1>4. CASE MCOther
  <2>1. /\ UNCHANGED <<pulses, steady, radio_control>>
        /\ ppm' \in {ppm, [ppm EXCEPT !.frame_available = FALSE]}
    BY <1>4 DEF MCOther, FrameTaken, FailsafeCheck, OtherHandlers, radioVars
  <2>2. /\ ppm'.cur_pulse = ppm.cur_pulse /\ ppm'.data_valid = ppm.data_valid
        /\ ppm'.frame_available => ppm.frame_available
    BY <1>0, <2>1 DEF PpmType
  <2>3. rc_ok' = rc_ok
    BY <2>1 DEF rc_ok
  <2> QED BY <2>1, <2>2, <2>3 DEF HistoryInv
<1>5. CASE UNCHANGED mcVars
  BY <1>5 DEF mcVars, allVars, HistoryInv, rc_ok
<1> QED BY <1>1, <1>2, <1>3, <1>4, <1>5 DEF MCNext

(* With its histories the radio is the radio.                              *)
LEMMA HistoryRadio == MCSpec => Spec
<1>1. MCInit => Init
  BY DEF MCInit
<1>2. [MCNext]_mcVars => [Next]_allVars
  <2> SUFFICES ASSUME [MCNext]_mcVars PROVE [Next]_allVars
    OBVIOUS
  <2>1. ASSUME NEW s \in MCSticks, MCRadioControlEvent(s)
        PROVE  Next
    BY <2>1 DEF MCSticks, MCRadioControlEvent, Next
  <2>2. CASE (\E length \in Lengths : MCPulse(length)) \/ MCRadioControlPeriodic \/ MCOther
    BY <2>2 DEF MCPulse, MCRadioControlPeriodic, MCOther, Next
  <2>3. CASE UNCHANGED mcVars
    BY <2>3 DEF mcVars, allVars
  <2> QED BY <2>1, <2>2, <2>3 DEF MCNext
<1> QED BY <1>1, <1>2, PTL DEF MCSpec, Spec

LEMMA HistoryInductive == MCSpec => []HistoryInv
<1>1. RadioInv /\ HistoryInv /\ [MCNext]_mcVars => HistoryInv'
  BY HistoryStep
<1> QED BY HistoryInit, HistoryRadio, RadioInductive, <1>1, PTL DEF MCSpec

(* No pulses but a synchro blank, one pulse per channel and a synchro      *)
(* blank ever make a frame available, for any number of channels: no       *)
(* remainder of one frame is completed by the next (ppm.h).                *)
THEOREM OnlyWholeFrames == MCSpec => FramesAreWhole
<1>1. RadioInv /\ HistoryInv /\ [MCNext]_mcVars =>
        [~ppm.frame_available /\ ppm'.frame_available =>
           pulses = PPM_NB_CHANNEL /\ pulses' = 0]_mcVars
  BY HistoryStep
<1> QED BY HistoryInductive, HistoryRadio, RadioInductive, <1>1, PTL DEF MCSpec, FramesAreWhole

(* However losses and frames alternate, RC_OK comes only after RC_OK_CPT   *)
(* frames without a loss among them, for every RC_OK_CPT and all times.    *)
THEOREM OkIsSteady == MCSpec => SteadyBeforeOk
<1>1. RadioInv /\ HistoryInv /\ [MCNext]_mcVars =>
        [~rc_ok /\ rc_ok' => steady = RC_OK_CPT]_mcVars
  BY HistoryStep
<1> QED BY HistoryInductive, HistoryRadio, RadioInductive, <1>1, PTL DEF MCSpec, SteadyBeforeOk
=============================================================================
