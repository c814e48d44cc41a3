-------------------------- MODULE MCAutopilotRadio --------------------------
(***************************************************************************)
(* AutopilotRadio with two histories: the pulses since the last synchro    *)
(* blank, and the frames since the radio was last lost.  The pilot starts  *)
(* the motors, flies in manual mode or lets the aircraft navigate.         *)
(***************************************************************************)
EXTENDS AutopilotRadio

VARIABLES
  pulses,    \* data pulses since a synchro blank, more than a frame's if another came
  steady     \* frames since the last was RC_LOST_TIME old, at most RC_OK_CPT

mcVars == <<allVars, pulses, steady>>

MCSticks ==
  {s \in A!Sticks : /\ s.centered /\ ~s.kill_switch
                    /\ s.throttle_down => s.mode_switch = "MANUAL"
                    /\ s.mode_switch # "AUTO1"}

PulsesAfter(length) ==
  CASE length = "synchro"                             -> 0
    [] length = "data" /\ pulses <= PPM_NB_CHANNEL -> pulses + 1
    [] OTHER                                          -> PPM_NB_CHANNEL + 1

MCInit == Init /\ pulses = PPM_NB_CHANNEL + 1 /\ steady = RC_OK_CPT

MCPulse(length) == Pulse(length) /\ pulses' = PulsesAfter(length) /\ steady' = steady

MCRadioControlEvent(s) ==
  /\ RadioControlEvent(s)
  /\ steady' = IF steady < RC_OK_CPT THEN steady + 1 ELSE steady
  /\ pulses' = pulses

MCRadioControlPeriodic ==
  /\ RadioControlPeriodic
  /\ steady' = IF radio_control.time = RC_LOST_TIME THEN 0 ELSE steady
  /\ pulses' = pulses

MCOther == (FrameTaken \/ FailsafeCheck \/ OtherHandlers) /\ UNCHANGED <<pulses, steady>>

MCNext ==
  \/ \E length \in Lengths : MCPulse(length)
  \/ \E s \in MCSticks : MCRadioControlEvent(s)
  \/ MCRadioControlPeriodic \/ MCOther

MCSpec == MCInit /\ [][MCNext]_mcVars /\ Fairness

(* "A valid ppm frame: synchro blank, correct number of channels, synchro  *)
(* blank" (ppm.h): no other sequence of pulses makes a frame available.    *)
FramesAreWhole ==
  [][~ppm.frame_available /\ ppm'.frame_available =>
       pulses = PPM_NB_CHANNEL /\ pulses' = 0]_mcVars

(* RC_OK_CPT, "number of valid frames before going back to RC OK": the     *)
(* radio is trusted again only when so many came without another loss.     *)
SteadyBeforeOk == [][~rc_ok /\ rc_ok' => steady = RC_OK_CPT]_mcVars
=============================================================================
