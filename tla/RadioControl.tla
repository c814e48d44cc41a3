---------------------------- MODULE RadioControl ----------------------------
(***************************************************************************)
(* Radio control of the rotorcraft (subsystems/radio_control.h with        *)
(* radio_control/ppm.h): the interrupt that decodes the pulses of a PPM    *)
(* frame, the event that takes a frame, and the periodic task that notices *)
(* when none has come.                                                     *)
(*                                                                         *)
(* A pulse is its class of length.  The values of the channels are chosen  *)
(* by the module that handles the frame.                                   *)
(***************************************************************************)
EXTENDS Naturals

CONSTANTS
  PPM_NB_CHANNEL,
  RC_LOST_TIME, RC_REALLY_LOST_TIME,   \* in periods of 1/60 s
  RC_OK_CPT                            \* frames before the radio is trusted again

ASSUME RadioAssumption ==
  /\ PPM_NB_CHANNEL \in Nat \ {0}
  /\ RC_LOST_TIME \in Nat \ {0} /\ RC_REALLY_LOST_TIME \in Nat
  /\ RC_LOST_TIME < RC_REALLY_LOST_TIME
  /\ RC_OK_CPT \in Nat

VARIABLES
  ppm,            \* the decoder, shared by the interrupt and the main loop
  radio_control

(* Between PPM_DATA_MIN_LEN and PPM_DATA_MAX_LEN, between PPM_SYNC_MIN_LEN *)
(* and PPM_SYNC_MAX_LEN, or neither.                                       *)
Lengths == {"data", "synchro", "other"}

PpmType ==
  [cur_pulse : 0 .. PPM_NB_CHANNEL, data_valid : BOOLEAN, frame_available : BOOLEAN]

RcType ==
  [status : {"RC_OK", "RC_LOST", "RC_REALLY_LOST"},
   time : 0 .. RC_REALLY_LOST_TIME,   \* time_since_last_frame
   ok_cpt : 0 .. RC_OK_CPT]           \* radio_ok_cpt

(* radio_control_init: the first frame of all is trusted at once.          *)
RadioInit ==
  /\ ppm = [cur_pulse |-> PPM_NB_CHANNEL, data_valid |-> FALSE, frame_available |-> FALSE]
  /\ radio_control = [status |-> "RC_REALLY_LOST", time |-> RC_REALLY_LOST_TIME, ok_cpt |-> 0]

-----------------------------------------------------------------------------
(* A slip: a pulse too many is not noticed.                                *)
AwaitSynchroTolerant(p, length) ==
  IF length = "synchro"
    THEN [cur_pulse |-> 0, data_valid |-> FALSE,
          frame_available |-> p.frame_available \/ p.data_valid]
    ELSE p

(* DecodePpmFrame, all channels received or a pulse was bad.               *)
AwaitSynchro(p, length) ==
  IF length = "synchro"
    THEN [cur_pulse |-> 0, data_valid |-> FALSE,
          frame_available |-> p.frame_available \/ p.data_valid]
    ELSE [p EXCEPT !.data_valid = FALSE]

(* DecodePpmFrame, within a frame.                                         *)
AwaitData(p, length) ==
  IF length = "data"
    THEN [p EXCEPT !.cur_pulse = @ + 1, !.data_valid = @ \/ p.cur_pulse + 1 = PPM_NB_CHANNEL]
    ELSE [p EXCEPT !.cur_pulse = PPM_NB_CHANNEL, !.data_valid = FALSE]

DecodePpmFrame(p, length) ==
  IF p.cur_pulse = PPM_NB_CHANNEL THEN AwaitSynchro(p, length) ELSE AwaitData(p, length)

(* RadioControlEvent.  A frame is handed to its handler when Trusted.      *)
Trusted(r) == r.ok_cpt = 0

(* A slip: the count is taken down before it is looked at.                 *)
ReceiveUnchecked(r) ==
  [r EXCEPT !.time = 0, !.ok_cpt = @ - 1, !.status = IF r.ok_cpt = 0 THEN "RC_OK" ELSE @]

Receive(r) ==
  IF Trusted(r) THEN [r EXCEPT !.time = 0, !.status = "RC_OK"]
                ELSE [r EXCEPT !.time = 0, !.ok_cpt = @ - 1]

(* A slip: the count of good frames is not started again.                  *)
AgeNoCount(r) ==
  IF r.time >= RC_REALLY_LOST_TIME THEN [r EXCEPT !.status = "RC_REALLY_LOST"]
  ELSE IF r.time >= RC_LOST_TIME THEN [r EXCEPT !.status = "RC_LOST", !.time = @ + 1]
  ELSE [r EXCEPT !.time = @ + 1]

(* A slip: only a radio lost for long is reported.                         *)
AgeLate(r) ==
  IF r.time >= RC_REALLY_LOST_TIME
    THEN [r EXCEPT !.status = "RC_REALLY_LOST", !.ok_cpt = RC_OK_CPT]
    ELSE [r EXCEPT !.time = @ + 1]

(* A slip: every late frame is taken for a loss of the radio.              *)
AgeAlways(r) ==
  IF r.time >= RC_REALLY_LOST_TIME THEN [r EXCEPT !.status = "RC_REALLY_LOST"]
  ELSE [r EXCEPT !.status = "RC_LOST", !.ok_cpt = RC_OK_CPT, !.time = @ + 1]

(* radio_control_periodic_task *)
Age(r) ==
  IF r.time >= RC_REALLY_LOST_TIME THEN [r EXCEPT !.status = "RC_REALLY_LOST"]
  ELSE IF r.time >= RC_LOST_TIME
    THEN [r EXCEPT !.status = "RC_LOST", !.ok_cpt = RC_OK_CPT, !.time = @ + 1]
  ELSE [r EXCEPT !.time = @ + 1]
=============================================================================
