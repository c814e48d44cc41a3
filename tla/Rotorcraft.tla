----------------------------- MODULE Rotorcraft -----------------------------
(***************************************************************************)
(* The whole of the control of one quadcopter of the swarm: the autopilot  *)
(* (module Autopilot), the flight plan that navigation.c runs              *)
(* (conf/flight_plans/rotorcraft_basic.xml, compiled to auto_nav), and the *)
(* swarm module with the messages of the datalink.                         *)
(*                                                                         *)
(* A block of the flight plan makes its call once, at its first run, in    *)
(* whatever mode the autopilot is; of its stages only this is kept.        *)
(* Altitudes, distances and times are conditions that may hold or not.     *)
(***************************************************************************)
EXTENDS Autopilot

CONSTANT GROUND_BLOCKS   \* the blocks that the ground station sends

VARIABLES
  nav,     \* nav_block, and whether the call of its first stage was made
  swarm    \* quad_swarm_state

rotorcraftVars == <<ap, ahrs, rc_ok, gps_lost, nav, swarm>>

(* Module QuadSwarm for this quad alone; only what it says of one quad is  *)
(* used, so its variables stand for nothing.                               *)
S == INSTANCE QuadSwarm WITH
       QUAD_NB <- 1, LEADER <- 1, DOWN_CAP <- 1, UP_CAP <- 1, DIRECTIONS <- {},
       LOSSY <- TRUE, PILOT <- TRUE, quad <- <<>>, up <- <<>>, down <- <<>>

FLARE == 13

ASSUME RotorcraftAssumption == GROUND_BLOCKS \subseteq S!Blocks

Acks == {S!ACK_NAV, S!ACK_EXEC, S!ACK_KILL, S!ACK_REF}

NavType == [block : S!Blocks, called : BOOLEAN]

(* A slip: a block that is gone to again goes on at its stage.             *)
GotoBlockKeepStage(n, b) == [n EXCEPT !.block = b]

(* nav_goto_block, GotoBlock and nav_init: from the first stage, also when *)
(* the block is the current one.                                           *)
GotoBlock(n, b) == [block |-> b, called |-> FALSE]

(* auto_nav: what a block calls, its exception first.                      *)
CallOf(n, detected) ==
  IF n.block = FLARE /\ detected THEN "NavDetectGround"
  ELSE IF n.called THEN "none"
  ELSE CASE n.block \in {0, S!BLOCK_ID_HOLDING_POINT} -> "NavKillThrottle"
         [] n.block = S!BLOCK_ID_START_ENGINE         -> "NavResurrect"
         [] n.block = FLARE                           -> "NavStartDetectGround"
         [] OTHER                                     -> "none"

(* The blocks that begin with a call; "land here" copies a waypoint.       *)
Calling == {0, S!BLOCK_ID_HOLDING_POINT, S!BLOCK_ID_START_ENGINE, S!BLOCK_ID_LAND_HERE, FLARE}

(* Where it goes on.  "met": GPS fix, 3 s of Geo init, take-off altitude,  *)
(* TD reached.                                                             *)
NavNext(n, detected, met) ==
  IF n.block = FLARE /\ detected THEN GotoBlock(n, S!BLOCK_ID_HOLDING_POINT)
  ELSE IF n.block \in Calling /\ ~n.called THEN [n EXCEPT !.called = TRUE]
  ELSE IF n.block \in {0, 1, S!BLOCK_ID_TAKE_OFF, 12} /\ met THEN GotoBlock(n, n.block + 1)
  ELSE IF n.block = S!BLOCK_ID_LAND_HERE THEN GotoBlock(n, 12)
  ELSE n

RotorcraftInit ==
  /\ Init
  /\ nav = [block |-> 0, called |-> FALSE]
  /\ swarm = S!SWARM_KILLED

(* What QuadSwarm knows of the quad.                                       *)
Quad ==
  [swarm |-> swarm, block |-> nav.block, nav |-> ap.mode = AP_MODE_NAV,
   target |-> S!NoTarget, waypoint |-> S!NoTarget]

-----------------------------------------------------------------------------
(* autopilot_periodic when nav_periodic_task is due, in every mode.        *)
NavPeriodic(met) ==
  /\ \E t \in BOOLEAN :
       ap' = Periodic(ap, aligned, rc_ok, CallOf(nav, ap.detect_ground), t)
  /\ nav' = NavNext(nav, ap.detect_ground, met)
  /\ UNCHANGED <<ahrs, rc_ok, gps_lost, swarm>>

(* autopilot_periodic when it is not.                                      *)
ControlPeriodic ==
  /\ \E t \in BOOLEAN : ap' = Periodic(ap, aligned, rc_ok, "none", t)
  /\ UNCHANGED <<ahrs, rc_ok, gps_lost, nav, swarm>>

(* quad_swarm_periodic *)
SwarmPeriodic ==
  /\ swarm' = S!SwarmNext(S!Sampled(Quad))
  /\ UNCHANGED <<vars, nav>>

(* quad_swarm_datalink *)
SwarmTarget ==
  /\ swarm' = S!OnTarget(Quad, S!NoTarget).swarm
  /\ UNCHANGED <<vars, nav>>

(* A slip: a reset that does not ask the autopilot for NAV.                *)
SwarmAckNoMode(a) ==
  /\ swarm' = S!OnAck(Quad, a).swarm
  /\ ap' = IF a = S!ACK_KILL THEN SetMode(ap, aligned, AP_MODE_KILL) ELSE ap
  /\ nav' = IF a = S!ACK_NAV THEN GotoBlock(nav, 0) ELSE nav
  /\ UNCHANGED <<ahrs, rc_ok, gps_lost>>

(* quad_swarm_ack_datalink; nav_init returns to block 0.                   *)
SwarmAck(a) ==
  /\ swarm' = S!OnAck(Quad, a).swarm
  /\ ap' = CASE a = S!ACK_KILL -> SetMode(ap, aligned, AP_MODE_KILL)
             [] a = S!ACK_NAV  -> SetMode(ap, aligned, AP_MODE_NAV)
             [] OTHER          -> ap
  /\ nav' = IF a = S!ACK_NAV THEN GotoBlock(nav, 0) ELSE nav
  /\ UNCHANGED <<ahrs, rc_ok, gps_lost>>

(* DL_BLOCK *)
DlBlock(b) ==
  /\ nav' = GotoBlock(nav, b)
  /\ UNCHANGED <<vars, swarm>>

(* What the autopilot does without its navigation.                         *)
AutopilotHandlers ==
  \/ RcTimeout \/ FailsafeCheck \/ DetectGroundEvent \/ AhrsAlign \/ GpsChange
  \/ \E m \in AUTO2_CHOICES : SettingAuto2(m)
  \/ \E kill \in BOOLEAN : SettingKillThrottle(kill)

RotorcraftNext ==
  \/ /\ AutopilotHandlers \/ \E s \in Sticks : RcFrame(s)
     /\ UNCHANGED <<nav, swarm>>
  \/ \E met \in BOOLEAN : NavPeriodic(met)
  \/ ControlPeriodic
  \/ SwarmPeriodic \/ SwarmTarget
  \/ \E a \in Acks : SwarmAck(a)
  \/ \E b \in GROUND_BLOCKS : DlBlock(b)

RotorcraftSpec == RotorcraftInit /\ [][RotorcraftNext]_rotorcraftVars
-----------------------------------------------------------------------------
(* Block, stage and swarm state have their types, and a stage is left      *)
(* behind only in a block that has one.                                    *)
RotorcraftTypeOK ==
  /\ TypeOK
  /\ nav \in NavType /\ (nav.called => nav.block \in Calling)
  /\ swarm \in S!SwarmStates

(* A step of a quad in module QuadSwarm.                                   *)
QuadStep(x, y) ==
  \/ LET z == S!Sampled(x) IN y = [z EXCEPT !.swarm = S!SwarmNext(z)]
  \/ y = S!OnTarget(x, S!NoTarget)
  \/ \E a \in Acks : y = S!OnAck(x, a)
  \/ \E b \in GROUND_BLOCKS : y = S!OnBlock(x, b)
  \/ /\ x.block \in DOMAIN S!FlightPlanNext
     /\ y = [x EXCEPT !.block = S!FlightPlanNext[@]]
  \/ y = [x EXCEPT !.nav = ~@]
  \/ /\ x.block = FLARE /\ ap.detect_ground
     /\ y = [x EXCEPT !.block = S!BLOCK_ID_HOLDING_POINT]

(* Once the attitude is aligned, all that autopilot, flight plan, pilot    *)
(* and failsafes do to a quad is what module QuadSwarm says of it: the     *)
(* swarm is checked and proved about with the quads this firmware makes.   *)
(* Where ground detection is built in, as it is not in the airframes of    *)
(* the swarm, a flare also ends at a touch-down.                           *)
ImplementsQuad == [][aligned => QuadStep(Quad, Quad')]_Quad
=============================================================================
