--------------------------- MODULE AutopilotRadio ---------------------------
(***************************************************************************)
(* The autopilot with its radio: module Autopilot, whose rc_ok is here     *)
(* what RadioControl makes of the pulses it receives.                      *)
(*                                                                         *)
(* The main loop (main.c) runs its handlers one after another; the decoder *)
(* is an interrupt and comes at any time, also between the handler of a    *)
(* frame and the statement that clears ppm_frame_available.                *)
(***************************************************************************)
EXTENDS RadioControl

CONSTANTS
  ARMING, ARMING_DELAY, MODE_MANUAL, MODE_AUTO1, MODE_AUTO2, AUTO2_CHOICES, IN_FLIGHT_TIME,
  AHRS_KILL, FAILSAFE_GROUND_DETECT, KILL_ON_GROUND_DETECT, KILL_AS_FAILSAFE,
  NO_GPS_LOST_WITH_RC_VALID

VARIABLES
  ap, ahrs, gps_lost,
  handling           \* main_event is within RadioControlEvent

autopilotVars == <<ap, ahrs, gps_lost>>
radioVars == <<ppm, radio_control, handling>>
allVars == <<ap, ahrs, gps_lost, ppm, radio_control, handling>>

rc_ok == radio_control.status = "RC_OK"

A == INSTANCE Autopilot

ASSUME AutopilotRadioAssumption ==
  /\ ARMING \in {"yaw", "throttle", "switch"}
  /\ ARMING_DELAY \in Nat \ {0, 1}
  /\ IN_FLIGHT_TIME \in Nat \ {0, 1}
  /\ {MODE_MANUAL, MODE_AUTO1, MODE_AUTO2} \subseteq A!Modes
  /\ AUTO2_CHOICES \subseteq A!Modes
  /\ MODE_MANUAL > A!AP_MODE_KILL
  /\ {AHRS_KILL, FAILSAFE_GROUND_DETECT, KILL_ON_GROUND_DETECT,
      KILL_AS_FAILSAFE, NO_GPS_LOST_WITH_RC_VALID} \subseteq BOOLEAN

Init == RadioInit /\ handling = FALSE /\ A!Init

(* The interrupt of the input capture.                                     *)
Pulse(length) ==
  /\ ppm' = DecodePpmFrame(ppm, length)
  /\ UNCHANGED <<autopilotVars, radio_control, handling>>

(* RadioControlEvent up to the handler, which is autopilot_on_rc_frame.    *)
RadioControlEvent(s) ==
  /\ ~handling /\ ppm.frame_available
  /\ handling' = TRUE
  /\ radio_control' = Receive(radio_control)
  /\ ppm' = ppm
  /\ IF Trusted(radio_control) THEN A!RcFrame(s) ELSE UNCHANGED autopilotVars

(* Its last statement: a frame completed during the handler goes with it.  *)
FrameTaken ==
  /\ handling
  /\ handling' = FALSE
  /\ ppm' = [ppm EXCEPT !.frame_available = FALSE]
  /\ UNCHANGED <<autopilotVars, radio_control>>

RadioControlPeriodic ==
  /\ ~handling
  /\ radio_control' = Age(radio_control)
  /\ UNCHANGED <<autopilotVars, ppm, handling>>

(* Everything else that the main loop does.                                *)
FailsafeCheck == ~handling /\ UNCHANGED radioVars /\ A!FailsafeCheck

OtherHandlers ==
  /\ ~handling
  /\ UNCHANGED radioVars
  /\ \/ A!AutopilotPeriodic
     \/ A!DetectGroundEvent
     \/ A!AhrsAlign
     \/ A!GpsChange
     \/ \E m \in AUTO2_CHOICES : A!SettingAuto2(m)
     \/ \E kill \in BOOLEAN : A!SettingKillThrottle(kill)
     \/ \E m \in {A!AP_MODE_KILL, A!AP_MODE_NAV} : A!SwarmAckMode(m)

Next ==
  \/ \E length \in Lengths : Pulse(length)
  \/ \E s \in A!Sticks : RadioControlEvent(s)
  \/ FrameTaken \/ RadioControlPeriodic \/ FailsafeCheck \/ OtherHandlers

(* The main loop goes round, and its timers are due again and again.  A    *)
(* frame being handled does not keep failsafe_check from its turn: strong. *)
Fairness ==
  /\ WF_allVars(\E s \in A!Sticks : RadioControlEvent(s)) /\ WF_allVars(FrameTaken)
  /\ WF_allVars(RadioControlPeriodic) /\ SF_allVars(FailsafeCheck)

Spec == Init /\ [][Next]_allVars
FairSpec == Spec /\ Fairness
-----------------------------------------------------------------------------
(* Decoder, counters and autopilot keep their types: radio_ok_cpt and      *)
(* cur_pulse, counted by the main loop and an interrupt, never wrap.       *)
TypeOK ==
  /\ ppm \in PpmType /\ radio_control \in RcType /\ handling \in BOOLEAN
  /\ A!TypeOK

(* A radio that is reported RC_OK has sent a frame within RC_LOST_TIME,    *)
(* and its next frame is not one to be counted down (radio_control.h).     *)
FreshRadio ==
  rc_ok => radio_control.time <= RC_LOST_TIME /\ Trusted(radio_control)

(* What is proved and checked of Autopilot holds with the radio.           *)
ImplementsAutopilot == A!Spec

(* Autopilot's property, with a radio that is lost and found by its own    *)
(* timers: a loss is not outrun by frames that are only counted.           *)
RcLossHandled == A!RcLossHandled

(* When no frame comes any more the aircraft is at last, and remains, in   *)
(* FAILSAFE, or in one of the modes that failsafe_check leaves alone.      *)
SilenceEndsInFailsafe ==
  (<>[] ~ppm.frame_available) =>
    <>[] (ap.mode \in {A!AP_MODE_FAILSAFE, A!AP_MODE_KILL, A!AP_MODE_NAV})

(* When frames come, each before the last is found RC_LOST_TIME old, the   *)
(* radio is at last, and remains, RC_OK: none has to be counted for ever.  *)
RcRecovers ==
  ([]<> ppm.frame_available /\ <>[] (radio_control.time <= RC_LOST_TIME)) => <>[] rc_ok
=============================================================================
