----------------------------- MODULE QuadSwarm -----------------------------
(***************************************************************************)
(* The airborne side of the swarm:                                         *)
(*   sw/airborne/modules/quad_swarm/quad_swarm.c and quad_swarm.h          *)
(*   sw/airborne/firmwares/rotorcraft/datalink.c (DL_BLOCK)                *)
(* quad[q] holds the module's globals and the two pieces of the autopilot  *)
(* it looks at, nav_block and autopilot_mode = AP_MODE_NAV.  The firmware  *)
(* is one loop, so each handler is one step.                               *)
(***************************************************************************)
EXTENDS SwarmLink

CONSTANT PILOT   \* whether the pilots move their mode switches

VARIABLE quad

QuadType ==
  [swarm : SwarmStates,   \* quad_swarm_state
   block : Blocks,        \* nav_block
   nav : BOOLEAN,         \* autopilot_mode = AP_MODE_NAV
   target : Targets,      \* quad_swarm_target
   waypoint : Targets]    \* waypoints[SWARM_WP_FOR_USE], NoTarget if not a target

(* quad_swarm_init *)
SwarmInit(x) == [x EXCEPT !.swarm = SWARM_KILLED, !.target = NoTarget]

(* The tests at the head of quad_swarm_periodic.                           *)
Sampled(x) ==
  LET y == IF x.nav THEN x ELSE SwarmInit(x)
  IN  CASE x.block = BLOCK_ID_LAND_HERE -> [y EXCEPT !.swarm = SWARM_LANDHERE]
        [] x.block = 12                 -> [y EXCEPT !.swarm = SWARM_LANDED]
        [] OTHER                        -> y

(* Its switch; quad_swarm_reach_tar is always true.                        *)
SwarmNext(x) ==
  CASE x.swarm = SWARM_INIT /\ x.block = BLOCK_ID_HOLDING_POINT /\ x.nav
         -> SWARM_NEGOTIATE_REF
    [] x.swarm = SWARM_WAIT_CMD /\ x.block = BLOCK_ID_START_ENGINE
         -> SWARM_WAIT_CMD_START_ENGINE
    [] x.swarm = SWARM_WAIT_CMD_START_ENGINE /\ x.block = BLOCK_ID_TAKE_OFF
         -> SWARM_WAIT_CMD_TAKEOFF
    [] x.swarm = SWARM_EXEC_CMD
         -> SWARM_REPORT_STATE
    [] OTHER -> x.swarm

(* quad_swarm_periodic, every 10 s: the report carries the state before    *)
(* the switch moves it.                                                    *)
SwarmPeriodic(q) ==
  LET x == Sampled(quad[q])
  IN  /\ quad' = [quad EXCEPT ![q] = [x EXCEPT !.swarm = SwarmNext(x)]]
      /\ up' = [up EXCEPT ![q] = Reported(@, x.swarm)]
      /\ UNCHANGED down

(* quad_swarm_datalink *)
OnTarget(x, t) ==
  IF x.swarm \in {SWARM_WAIT_CMD_TAKEOFF, SWARM_REPORT_STATE}
  THEN [x EXCEPT !.target = t, !.swarm = SWARM_WAIT_EXEC_ACK]
  ELSE x

(* quad_swarm_ack_datalink.  autopilot_set_mode takes NAV once the AHRS is *)
(* aligned, as it is here; nav_init returns to block 0 and resets the      *)
(* waypoints to the flight plan's.                                         *)
OnAck(x, a) ==
  CASE a = ACK_KILL -> [x EXCEPT !.nav = FALSE, !.swarm = SWARM_KILLED]
    [] a = ACK_NAV ->
         [x EXCEPT !.nav = TRUE, !.swarm = SWARM_INIT, !.block = 0, !.waypoint = NoTarget]
    [] a = ACK_REF /\ x.swarm = SWARM_NEGOTIATE_REF -> [x EXCEPT !.swarm = SWARM_WAIT_CMD]
    [] a = ACK_EXEC /\ x.swarm = SWARM_WAIT_EXEC_ACK ->
         [x EXCEPT !.swarm = SWARM_EXEC_CMD, !.waypoint = x.target]
    [] OTHER -> x

(* DL_BLOCK: nav_goto_block *)
OnBlock(x, b) == [x EXCEPT !.block = b]

Deliver(q) ==
  /\ down[q] # <<>>
  /\ LET m == Head(down[q])
     IN  quad' = [quad EXCEPT ![q] =
                    CASE m.type = "quad_swarm_msg" -> OnTarget(@, m.target)
                      [] m.type = "block"          -> OnBlock(@, m.block)
                      [] OTHER                     -> OnAck(@, m.ack)]
  /\ down' = [down EXCEPT ![q] = Tail(@)]
  /\ UNCHANGED up

(* The blocks the flight plan leaves by itself: GPS fix, 3 s of Geo init,  *)
(* the take-off altitude, the one call of "land here", reaching TD.        *)
FlightPlanNext == [b \in {0, 1, BLOCK_ID_TAKE_OFF, BLOCK_ID_LAND_HERE, 12} |-> b + 1]

FlightPlan(q) ==
  /\ quad[q].block \in DOMAIN FlightPlanNext
  /\ quad' = [quad EXCEPT ![q].block = FlightPlanNext[@]]
  /\ UNCHANGED <<up, down>>

(* The pilot's mode switch, or a failsafe: NAV is left or taken again.     *)
PilotMode(q) ==
  /\ PILOT
  /\ quad' = [quad EXCEPT ![q].nav = ~@]
  /\ UNCHANGED <<up, down>>

(* Powered up, on the ground: modules_init has run quad_swarm_init.        *)
GroundQuad == [swarm |-> SWARM_KILLED, block |-> 0, nav |-> FALSE,
               target |-> NoTarget, waypoint |-> NoTarget]

(* It, or where a ground station has led it before: block 5 is Standby,    *)
(* entered by itself once the take-off altitude is reached.                *)
QuadAt ==
  LET at(s, b) == [GroundQuad EXCEPT !.swarm = s, !.block = b, !.nav = TRUE]
  IN  [ground     |-> GroundQuad,
       negotiated |-> at(SWARM_NEGOTIATE_REF, BLOCK_ID_HOLDING_POINT),
       engine     |-> at(SWARM_WAIT_CMD_START_ENGINE, BLOCK_ID_START_ENGINE),
       flying     |-> at(SWARM_WAIT_CMD_TAKEOFF, 5)]
=============================================================================
