-------------------------- MODULE RotorcraftProofs --------------------------
(***************************************************************************)
(* The aircraft as a whole, for every arming header, option and set of     *)
(* blocks the ground station sends: it implements module Autopilot, so     *)
(* that what AutopilotProofs says holds of it; its steps are those of a    *)
(* quad of module QuadSwarm; in the blocks that kill the throttle only the *)
(* pilot or the operator starts the motors; and the pilot starts them with *)
(* the arming gesture only.                                                *)
(***************************************************************************)
EXTENDS MCRotorcraft, AutopilotProofs

(* A block makes one of the calls that Autopilot knows.                    *)
LEMMA CallKnown == ASSUME NEW n, NEW d PROVE CallOf(n, d) \in NavCalls
BY Zenon DEF CallOf, NavCalls

(* A run of autopilot_periodic, navigating or not.                         *)
LEMMA RunIsPeriodic ==
  ASSUME ControlPeriodic \/ \E met \in BOOLEAN : NavPeriodic(met)
  PROVE  AutopilotPeriodic
<1>1. ASSUME NEW met \in BOOLEAN, NavPeriodic(met)
      PROVE  AutopilotPeriodic
  <2> CallOf(nav, ap.detect_ground) \in NavCalls
    BY CallKnown
  <2> QED BY <1>1 DEF NavPeriodic, AutopilotPeriodic
<1>2. CASE ControlPeriodic
  <2> "none" \in NavCalls
    BY DEF NavCalls
  <2> QED BY <1>2 DEF ControlPeriodic, AutopilotPeriodic
<1> QED BY <1>1, <1>2

(* What the swarm module does to the autopilot: an acknowledgement may     *)
(* change the mode.                                                        *)
LEMMA SwarmIsAck ==
  ASSUME \/ SwarmPeriodic \/ SwarmTarget
         \/ \E a \in Acks : SwarmAck(a)
         \/ \E b \in GROUND_BLOCKS : DlBlock(b)
  PROVE  (\E m \in {AP_MODE_KILL, AP_MODE_NAV} : SwarmAckMode(m)) \/ UNCHANGED vars
<1>1. CASE SwarmPeriodic \/ SwarmTarget
  BY <1>1 DEF SwarmPeriodic, SwarmTarget
<1>2. ASSUME NEW a \in Acks, SwarmAck(a)
      PROVE  (\E m \in {AP_MODE_KILL, AP_MODE_NAV} : SwarmAckMode(m)) \/ UNCHANGED vars
  <2>1. CASE a = S!ACK_KILL
    <3> a # S!ACK_NAV
      BY <2>1 DEF S!ACK_KILL, S!ACK_NAV
    <3> SwarmAckMode(AP_MODE_KILL)
      BY <1>2, <2>1 DEF SwarmAck, SwarmAckMode
    <3> QED OBVIOUS
  <2>2. CASE a = S!ACK_NAV
    <3> a # S!ACK_KILL
      BY <2>2 DEF S!ACK_KILL, S!ACK_NAV
    <3> SwarmAckMode(AP_MODE_NAV)
      BY <1>2, <2>2 DEF SwarmAck, SwarmAckMode
    <3> QED OBVIOUS
  <2>3. CASE a # S!ACK_KILL /\ a # S!ACK_NAV
    BY <1>2, <2>3 DEF SwarmAck, vars
  <2> QED BY <2>1, <2>2, <2>3
<1>3. ASSUME NEW b \in GROUND_BLOCKS, DlBlock(b)
      PROVE  UNCHANGED vars
  BY <1>3 DEF DlBlock
<1> QED BY <1>1, <1>2, <1>3

(* Every step of the aircraft is one of Autopilot, or leaves it as it is.  *)
LEMMA RotorcraftStep == [RotorcraftNext]_rotorcraftVars => [Next]_vars
<1> SUFFICES ASSUME [RotorcraftNext]_rotorcraftVars
             PROVE  [Next]_vars
  OBVIOUS
<1>1. CASE AutopilotHandlers \/ \E s \in Sticks : RcFrame(s)
  BY <1>1 DEF AutopilotHandlers, Next
<1>2. CASE ControlPeriodic \/ \E met \in BOOLEAN : NavPeriodic(met)
  BY <1>2, RunIsPeriodic DEF Next
<1>3. CASE \/ SwarmPeriodic \/ SwarmTarget
           \/ \E a \in Acks : SwarmAck(a)
           \/ \E b \in GROUND_BLOCKS : DlBlock(b)
  BY <1>3, SwarmIsAck DEF Next
<1>4. CASE UNCHANGED rotorcraftVars
  BY <1>4 DEF rotorcraftVars, vars
<1> QED BY <1>1, <1>2, <1>3, <1>4 DEF RotorcraftNext

(* The aircraft implements its autopilot, which module Autopilot lets be   *)
(* called by any flight plan at any time.                                  *)
THEOREM RotorcraftRefinesAutopilot == RotorcraftSpec => Spec
<1>1. RotorcraftInit => Init
  BY DEF RotorcraftInit
<1> QED BY <1>1, RotorcraftStep, PTL DEF RotorcraftSpec, Spec

(* So motors wait for the attitude estimate whatever the flight plan does. *)
THEOREM RotorcraftWaitsForAhrs == RotorcraftSpec => []MotorsNeedAhrs
BY RotorcraftRefinesAutopilot, MotorsWaitForAhrs, PTL

(* The invariant of the autopilot holds in the aircraft.                   *)
LEMMA RotorcraftGood == RotorcraftSpec => []IInv
BY RotorcraftRefinesAutopilot, Inductive, PTL
-----------------------------------------------------------------------------
(* The mode autopilot_set_mode ends in.                                    *)
LEMMA SetModeMode ==
  ASSUME NEW a, NEW al \in BOOLEAN, NEW new \in Modes, Good(a, al)
  PROVE  SetMode(a, al, new).mode = IF al THEN new ELSE AP_MODE_KILL
<1> DEFINE m == IF al THEN new ELSE AP_MODE_KILL
           b == StopForMode(a, al, m)
           r == [b EXCEPT !.mode = m, !.h_mode = HModeOf(m, a.h_mode), !.v_mode = VModeOf(m)]
<1>1. m \in Modes
  BY DEF Modes, AP_MODE_KILL
<1>2. SetMode(a, al, new) = IF m = a.mode THEN a ELSE r
  BY DEF SetMode
<1>3. b \in ApType
  BY <1>1, StopForModeKeeps DEF Good
<1> HIDE DEF b, m
<1>4. r.mode = m
  BY <1>3 DEF ApType
<1> QED BY <1>2, <1>4 DEF m

(* A run of autopilot_periodic neither enters nor leaves NAV, and starts   *)
(* no motors that the flight plan's call did not.                          *)
LEMMA PeriodicRun ==
  ASSUME NEW a, NEW al \in BOOLEAN, NEW ok \in BOOLEAN, NEW call \in NavCalls,
         NEW t \in BOOLEAN, Good(a, al)
  PROVE  LET r == Periodic(a, al, ok, call, t)
         IN  /\ r.mode = AP_MODE_NAV <=> a.mode = AP_MODE_NAV
             /\ r.motors_on => NavCall(a, al, call).motors_on
<1> DEFINE n == NavCall(a, al, call)
           g == GroundKill(n, al)
           c == SetAllCommands(g, t)
<1>1. Good(n, al) /\ n.mode = a.mode
  BY NavCallKeeps
<1>2. Periodic(a, al, ok, call, t) = IF ok THEN c ELSE CheckInFlight(c, c.stab_thrust)
  BY DEF Periodic
<1> HIDE DEF n
<1>3. Good(g, al) /\ (g.motors_on => n.motors_on)
  BY <1>1, GroundKillKeeps
<1>4. (g.mode = AP_MODE_NAV) = (n.mode = AP_MODE_NAV)
  <2> DEFINE b == SetMode(n, al, AP_MODE_KILL)
  <2>1. g = n \/ (n.mode = AP_MODE_FAILSAFE /\ g = [b EXCEPT !.detect_ground = FALSE])
    BY DEF GroundKill
  <2>2. b.mode = AP_MODE_KILL /\ b \in ApType
    BY <1>1, SetModeMode, SetModeKeeps DEF Modes, AP_MODE_KILL, Good
  <2> HIDE DEF b
  <2>3. [b EXCEPT !.detect_ground = FALSE].mode = AP_MODE_KILL
    BY <2>2 DEF ApType
  <2>4. AP_MODE_NAV # AP_MODE_FAILSAFE /\ AP_MODE_NAV # AP_MODE_KILL
    BY DEF AP_MODE_FAILSAFE, AP_MODE_KILL, AP_MODE_NAV
  <2>5. CASE g = n
    BY <2>5
  <2>6. CASE n.mode = AP_MODE_FAILSAFE /\ g = [b EXCEPT !.detect_ground = FALSE]
    <3> g.mode = AP_MODE_KILL
      BY <2>3, <2>6
    <3> HIDE DEF g
    <3> QED BY <2>4, <2>6
  <2> HIDE DEF g
  <2> QED BY <2>1, <2>5, <2>6
<1> HIDE DEF g
<1>5. Good(c, al) /\ c.motors_on = g.motors_on /\ c.mode = g.mode
  BY <1>3, SetAllCommandsKeeps
<1> HIDE DEF c
<1>6. /\ CheckInFlight(c, c.stab_thrust).motors_on = c.motors_on
      /\ CheckInFlight(c, c.stab_thrust).mode = c.mode
  BY <1>5, CheckInFlightKeeps DEF Good, ApType
<1> QED BY <1>1, <1>2, <1>3, <1>4, <1>5, <1>6 DEF n

(* What QuadSwarm knows of the quad after a change of block or mode.       *)
LEMMA QuadFields ==
  /\ Quad.swarm = swarm /\ Quad.block = nav.block
  /\ Quad.nav = (ap.mode = AP_MODE_NAV)
  /\ Quad.target = S!NoTarget /\ Quad.waypoint = S!NoTarget
BY DEF Quad

(* auto_nav by what becomes of the block.                                  *)
LEMMA NavNextCases ==
  ASSUME NEW n, NEW d, NEW met
  PROVE  LET r == NavNext(n, d, met)
         IN  \/ r \in {n, [n EXCEPT !.called = TRUE]}
             \/ n.block = FLARE /\ d /\ r = GotoBlock(n, S!BLOCK_ID_HOLDING_POINT)
             \/ n.block \in {0, 1, S!BLOCK_ID_TAKE_OFF, 12} /\ r = GotoBlock(n, n.block + 1)
             \/ n.block = S!BLOCK_ID_LAND_HERE /\ r = GotoBlock(n, 12)
BY DEF NavNext

(* Where a run of the flight plan takes the quad: nowhere, where QuadSwarm *)
(* lets it go, or out of a flare that ends.                                *)
LEMMA NavNextBlock ==
  ASSUME NEW met \in BOOLEAN, nav \in NavType
  PROVE  LET b == NavNext(nav, ap.detect_ground, met).block
         IN  \/ b = nav.block
             \/ nav.block \in DOMAIN S!FlightPlanNext /\ b = S!FlightPlanNext[nav.block]
             \/ nav.block = FLARE /\ ap.detect_ground /\ b = S!BLOCK_ID_HOLDING_POINT
<1> DEFINE n == NavNext(nav, ap.detect_ground, met)
           D == {0, 1, S!BLOCK_ID_TAKE_OFF, S!BLOCK_ID_LAND_HERE, 12}
<1>1. \/ n \in {nav, [nav EXCEPT !.called = TRUE]}
      \/ nav.block = FLARE /\ ap.detect_ground /\ n = GotoBlock(nav, S!BLOCK_ID_HOLDING_POINT)
      \/ nav.block \in {0, 1, S!BLOCK_ID_TAKE_OFF, 12} /\ n = GotoBlock(nav, nav.block + 1)
      \/ nav.block = S!BLOCK_ID_LAND_HERE /\ n = GotoBlock(nav, 12)
  BY NavNextCases
<1>2. \A x, b : GotoBlock(x, b).block = b
  BY DEF GotoBlock
<1>3. [nav EXCEPT !.called = TRUE].block = nav.block
  BY DEF NavType
<1>4. DOMAIN S!FlightPlanNext = D /\ \A b \in D : S!FlightPlanNext[b] = b + 1
  BY DEF S!FlightPlanNext
<1>5. S!BLOCK_ID_LAND_HERE + 1 = 12
  BY DEF S!BLOCK_ID_LAND_HERE
<1> HIDE DEF n
<1>6. CASE n \in {nav, [nav EXCEPT !.called = TRUE]}
  BY <1>3, <1>6 DEF n
<1>7. CASE nav.block = FLARE /\ ap.detect_ground /\ n = GotoBlock(nav, S!BLOCK_ID_HOLDING_POINT)
  BY <1>2, <1>7 DEF n
<1>8. CASE nav.block \in {0, 1, S!BLOCK_ID_TAKE_OFF, 12} /\ n = GotoBlock(nav, nav.block + 1)
  BY <1>2, <1>4, <1>8 DEF n
<1>9. CASE nav.block = S!BLOCK_ID_LAND_HERE /\ n = GotoBlock(nav, 12)
  BY <1>2, <1>4, <1>5, <1>9 DEF n
<1> QED BY <1>1, <1>6, <1>7, <1>8, <1>9

(* Types of the flight plan and of the swarm module's state; a stage is    *)
(* left behind only in a block that begins with a call.                    *)
PlanType ==
  /\ nav \in NavType /\ (nav.called => nav.block \in Calling)
  /\ swarm \in S!SwarmStates

(* Every step of the aircraft keeps these types.                           *)
LEMMA PlanTypeStep ==
  ASSUME PlanType, [RotorcraftNext]_rotorcraftVars
  PROVE  PlanType'
<1>1. S!Blocks = {0, 1, 2, 3, 4, 5, 11, 12, 13} /\ S!SwarmStates = 0..10
  BY DEF S!Blocks, S!SwarmStates, S!BLOCK_ID_HOLDING_POINT, S!BLOCK_ID_START_ENGINE,
         S!BLOCK_ID_TAKE_OFF, S!BLOCK_ID_LAND_HERE
<1>2. \A b \in S!Blocks : GotoBlock(nav, b) \in NavType /\ ~GotoBlock(nav, b).called
  BY DEF GotoBlock, NavType
<1>3. ASSUME NEW met \in BOOLEAN, NavPeriodic(met)
      PROVE  PlanType'
  <2> DEFINE n == NavNext(nav, ap.detect_ground, met)
  <2>1. \/ n = nav \/ (nav.block \in Calling /\ n = [nav EXCEPT !.called = TRUE])
        \/ n = GotoBlock(nav, S!BLOCK_ID_HOLDING_POINT)
        \/ nav.block \in {0, 1, S!BLOCK_ID_TAKE_OFF, 12} /\ n = GotoBlock(nav, nav.block + 1)
        \/ n = GotoBlock(nav, 12)
    BY DEF NavNext
  <2>2. /\ {S!BLOCK_ID_HOLDING_POINT, 12} \subseteq S!Blocks
        /\ \A b \in {0, 1, S!BLOCK_ID_TAKE_OFF, 12} : b + 1 \in S!Blocks
    BY <1>1 DEF S!BLOCK_ID_HOLDING_POINT, S!BLOCK_ID_TAKE_OFF
  <2>3. [nav EXCEPT !.called = TRUE] \in NavType /\ [nav EXCEPT !.called = TRUE].block = nav.block
    BY DEF PlanType, NavType
  <2> HIDE DEF n
  <2>4. n \in NavType /\ (n.called => n.block \in Calling)
    BY <1>2, <2>1, <2>2, <2>3 DEF PlanType
  <2> QED BY <1>3, <2>4 DEF NavPeriodic, PlanType, n
<1>4. CASE SwarmPeriodic
  <2>1. \A x : x.swarm \in S!SwarmStates => S!SwarmNext(x) \in S!SwarmStates
    <3> SUFFICES ASSUME NEW x, x.swarm \in S!SwarmStates
                 PROVE  S!SwarmNext(x) \in S!SwarmStates
      OBVIOUS
    <3>1. S!SwarmNext(x) \in {S!SWARM_NEGOTIATE_REF, S!SWARM_WAIT_CMD_START_ENGINE,
                              S!SWARM_WAIT_CMD_TAKEOFF, S!SWARM_REPORT_STATE, x.swarm}
      BY Zenon DEF S!SwarmNext
    <3> QED BY <1>1, <3>1 DEF S!SWARM_NEGOTIATE_REF, S!SWARM_WAIT_CMD_START_ENGINE,
                              S!SWARM_WAIT_CMD_TAKEOFF, S!SWARM_REPORT_STATE
  <2>2. S!Sampled(Quad).swarm \in S!SwarmStates
    BY <1>1 DEF PlanType, S!Sampled, S!SwarmInit, Quad, S!SWARM_KILLED, S!SWARM_LANDHERE,
                S!SWARM_LANDED, S!BLOCK_ID_LAND_HERE
  <2> QED BY <1>4, <2>1, <2>2 DEF SwarmPeriodic, PlanType
<1>5. CASE SwarmTarget
  BY <1>1, <1>5 DEF SwarmTarget, PlanType, S!OnTarget, Quad, S!SWARM_WAIT_EXEC_ACK
<1>6. ASSUME NEW a \in Acks, SwarmAck(a)
      PROVE  PlanType'
  <2>1. S!OnAck(Quad, a).swarm \in S!SwarmStates
    BY <1>1 DEF S!OnAck, Quad, PlanType, S!SWARM_KILLED, S!SWARM_INIT, S!SWARM_WAIT_CMD,
                S!SWARM_EXEC_CMD, S!ACK_KILL, S!ACK_NAV, S!ACK_REF, S!ACK_EXEC
  <2>2. nav' \in NavType /\ (nav'.called => nav'.block \in Calling)
    BY <1>1, <1>2, <1>6 DEF SwarmAck, PlanType
  <2> QED BY <1>6, <2>1, <2>2 DEF SwarmAck, PlanType
<1>7. ASSUME NEW b \in GROUND_BLOCKS, DlBlock(b)
      PROVE  PlanType'
  BY <1>2, <1>7, RotorcraftAssumption DEF DlBlock, PlanType
<1>8. CASE UNCHANGED <<nav, swarm>>
  BY <1>8 DEF PlanType
<1> QED
  BY <1>3, <1>4, <1>5, <1>6, <1>7, <1>8 DEF RotorcraftNext, rotorcraftVars, ControlPeriodic

(* Flight plan and swarm module keep their types, whatever blocks and      *)
(* acknowledgements the ground sends, and so does the autopilot under      *)
(* them.                                                                   *)
THEOREM RotorcraftTypeCorrect == RotorcraftSpec => []RotorcraftTypeOK
<1>1. RotorcraftInit => PlanType
  BY DEF RotorcraftInit, PlanType, NavType, S!Blocks, S!SwarmStates, S!SWARM_KILLED
<1>2. PlanType /\ [RotorcraftNext]_rotorcraftVars => PlanType'
  BY PlanTypeStep
<1>3. RotorcraftSpec => []PlanType
  BY <1>1, <1>2, PTL DEF RotorcraftSpec
<1>4. IInv /\ PlanType => RotorcraftTypeOK
  BY IInvImplies DEF PlanType, RotorcraftTypeOK
<1> QED BY <1>3, <1>4, RotorcraftGood, PTL

-----------------------------------------------------------------------------
(* What QuadSwarm knows of a quad in swarm state s and block b, in NAV if  *)
(* m; so that the mode is a value of its own to the provers.               *)
Known(s, b, m) ==
  [swarm |-> s, block |-> b, nav |-> m, target |-> S!NoTarget, waypoint |-> S!NoTarget]

(* Entering or leaving NAV.                                                *)
LEMMA KnownFlip ==
  ASSUME NEW s, NEW b, NEW m \in BOOLEAN, NEW n \in BOOLEAN, n # m
  PROVE  Known(s, b, n) = [Known(s, b, m) EXCEPT !.nav = ~@]
BY DEF Known

(* One field of it changed, one read.                                      *)
LEMMA KnownSwarm ==
  ASSUME NEW s, NEW b, NEW m, NEW v
  PROVE  [Known(s, b, m) EXCEPT !.swarm = v] = Known(v, b, m)
BY DEF Known

(* A block sent by the ground.                                             *)
LEMMA KnownBlock ==
  ASSUME NEW s, NEW b, NEW m, NEW v
  PROVE  [Known(s, b, m) EXCEPT !.block = v] = Known(s, v, m)
BY DEF Known

(* A mode other than before, as far as NAV goes.                           *)
LEMMA KnownNav ==
  ASSUME NEW s, NEW b, NEW m, NEW v
  PROVE  [Known(s, b, m) EXCEPT !.nav = v] = Known(s, b, v)
BY DEF Known

(* Neither target nor waypoint.                                            *)
LEMMA KnownNowhere ==
  ASSUME NEW s, NEW b, NEW m
  PROVE  /\ [Known(s, b, m) EXCEPT !.target = S!NoTarget] = Known(s, b, m)
         /\ [Known(s, b, m) EXCEPT !.waypoint = S!NoTarget] = Known(s, b, m)
<1>1. [Known(s, b, m) EXCEPT !.target = S!NoTarget] = Known(s, b, m)
  BY DEF Known
<1>2. [Known(s, b, m) EXCEPT !.waypoint = S!NoTarget] = Known(s, b, m)
  BY DEF Known
<1> QED BY <1>1, <1>2

(* The swarm state is read back.                                           *)
LEMMA KnownRead == ASSUME NEW s, NEW b, NEW m PROVE Known(s, b, m).swarm = s
BY DEF Known

(* The four acknowledgements; f and t stand for the two truth values.      *)
LEMMA AckValues ==
  S!ACK_KILL = 255 /\ S!ACK_NAV = 254 /\ S!ACK_EXEC = 253 /\ S!ACK_REF = 2
BY DEF S!ACK_KILL, S!ACK_NAV, S!ACK_EXEC, S!ACK_REF

(* Acknowledgement 0xff.                                                   *)
LEMMA KnownAckKill ==
  ASSUME NEW s, NEW b, NEW m, NEW f \in {FALSE}
  PROVE  S!OnAck(Known(s, b, m), S!ACK_KILL) = Known(S!SWARM_KILLED, b, f)
<1>1. S!OnAck(Known(s, b, m), S!ACK_KILL)
        = [[Known(s, b, m) EXCEPT !.nav = FALSE] EXCEPT !.swarm = S!SWARM_KILLED]
  BY AckValues DEF S!OnAck
<1>2. FALSE = f
  OBVIOUS
<1>3. \A x : [[Known(s, b, m) EXCEPT !.nav = x] EXCEPT !.swarm = S!SWARM_KILLED]
             = Known(S!SWARM_KILLED, b, x)
  <2> TAKE x
  <2>1. [Known(s, b, m) EXCEPT !.nav = x] = Known(s, b, x)
    BY KnownNav
  <2>2. [Known(s, b, x) EXCEPT !.swarm = S!SWARM_KILLED] = Known(S!SWARM_KILLED, b, x)
    BY KnownSwarm
  <2> QED BY <2>1, <2>2, Zenon
<1> QED BY <1>1, <1>2, <1>3, Zenon

(* Acknowledgement 0xfe.                                                   *)
LEMMA KnownAckNav ==
  ASSUME NEW s, NEW b, NEW m, NEW t \in {TRUE}, NEW z \in {0}
  PROVE  S!OnAck(Known(s, b, m), S!ACK_NAV) = Known(S!SWARM_INIT, z, t)
<1>0. Known(s, b, m).target = S!NoTarget
  BY DEF Known
<1>1. S!OnAck(Known(s, b, m), S!ACK_NAV)
        = [[[[Known(s, b, m) EXCEPT !.nav = TRUE] EXCEPT !.swarm = S!SWARM_INIT]
              EXCEPT !.block = 0] EXCEPT !.waypoint = S!NoTarget]
  BY <1>0, AckValues DEF S!OnAck
<1>2. TRUE = t /\ 0 = z
  OBVIOUS
<1>3. \A x, y : [[[[Known(s, b, m) EXCEPT !.nav = x] EXCEPT !.swarm = S!SWARM_INIT]
                     EXCEPT !.block = y] EXCEPT !.waypoint = S!NoTarget]
                = Known(S!SWARM_INIT, y, x)
  <2> TAKE x, y
  <2>1. [Known(s, b, m) EXCEPT !.nav = x] = Known(s, b, x)
    BY KnownNav
  <2>2. [Known(s, b, x) EXCEPT !.swarm = S!SWARM_INIT] = Known(S!SWARM_INIT, b, x)
    BY KnownSwarm
  <2>3. [Known(S!SWARM_INIT, b, x) EXCEPT !.block = y] = Known(S!SWARM_INIT, y, x)
    BY KnownBlock
  <2>4. [Known(S!SWARM_INIT, y, x) EXCEPT !.waypoint = S!NoTarget] = Known(S!SWARM_INIT, y, x)
    BY KnownNowhere
  <2> QED BY <2>1, <2>2, <2>3, <2>4, Zenon
<1> QED BY <1>1, <1>2, <1>3, Zenon

(* Any other acknowledgement.                                              *)
LEMMA KnownAckOther ==
  ASSUME NEW s, NEW b, NEW m, NEW a \in {S!ACK_REF, S!ACK_EXEC}
  PROVE  \E w : S!OnAck(Known(s, b, m), a) = Known(w, b, m)
<1> DEFINE k == Known(s, b, m)
<1>0. k.target = S!NoTarget
  BY DEF Known
<1> HIDE DEF k
<1>1. S!OnAck(k, a) \in
        {k, [k EXCEPT !.swarm = S!SWARM_WAIT_CMD],
         [[k EXCEPT !.swarm = S!SWARM_EXEC_CMD] EXCEPT !.waypoint = S!NoTarget]}
  BY <1>0, AckValues DEF S!OnAck
<1>2. [k EXCEPT !.swarm = S!SWARM_WAIT_CMD] = Known(S!SWARM_WAIT_CMD, b, m)
  BY KnownSwarm DEF k
<1>3. [k EXCEPT !.swarm = S!SWARM_EXEC_CMD] = Known(S!SWARM_EXEC_CMD, b, m)
  BY KnownSwarm DEF k
<1>4. [Known(S!SWARM_EXEC_CMD, b, m) EXCEPT !.waypoint = S!NoTarget] = Known(S!SWARM_EXEC_CMD, b, m)
  BY KnownNowhere
<1>5. S!OnAck(k, a) \in {k, Known(S!SWARM_WAIT_CMD, b, m), Known(S!SWARM_EXEC_CMD, b, m)}
  BY <1>1, <1>2, <1>3, <1>4, Zenon
<1> QED BY <1>5 DEF k

(* quad_swarm_periodic's tests and a target move the swarm state alone.    *)
LEMMA KnownSampled ==
  ASSUME NEW s, NEW b, NEW m
  PROVE  /\ \E w : S!Sampled(Known(s, b, m)) = Known(w, b, m)
         /\ \E w : S!OnTarget(Known(s, b, m), S!NoTarget) = Known(w, b, m)
<1> DEFINE k == Known(s, b, m)
           y == IF k.nav THEN k ELSE S!SwarmInit(k)
<1>1. PICK w : y = Known(w, b, m)
  <2> HIDE DEF k
  <2>1. S!SwarmInit(k) = [[k EXCEPT !.swarm = S!SWARM_KILLED] EXCEPT !.target = S!NoTarget]
    BY DEF S!SwarmInit
  <2>2. [k EXCEPT !.swarm = S!SWARM_KILLED] = Known(S!SWARM_KILLED, b, m)
    BY KnownSwarm DEF k
  <2>3. [Known(S!SWARM_KILLED, b, m) EXCEPT !.target = S!NoTarget] = Known(S!SWARM_KILLED, b, m)
    BY KnownNowhere
  <2>4. S!SwarmInit(k) = Known(S!SWARM_KILLED, b, m)
    BY <2>1, <2>2, <2>3
  <2> QED BY <2>4 DEF k
<1> HIDE DEF k
<1>2. S!Sampled(k) \in {y, [y EXCEPT !.swarm = S!SWARM_LANDHERE],
                        [y EXCEPT !.swarm = S!SWARM_LANDED]}
  <2> S!BLOCK_ID_LAND_HERE # 12
    BY DEF S!BLOCK_ID_LAND_HERE
  <2> QED BY Zenon DEF S!Sampled
<1> HIDE DEF y
<1>3. /\ [y EXCEPT !.swarm = S!SWARM_LANDHERE] = Known(S!SWARM_LANDHERE, b, m)
      /\ [y EXCEPT !.swarm = S!SWARM_LANDED] = Known(S!SWARM_LANDED, b, m)
  BY <1>1, KnownSwarm
<1>4. \E v : S!Sampled(k) = Known(v, b, m)
  BY <1>1, <1>2, <1>3
<1>5. S!OnTarget(k, S!NoTarget) \in
        {k, [[k EXCEPT !.target = S!NoTarget] EXCEPT !.swarm = S!SWARM_WAIT_EXEC_ACK]}
  BY DEF S!OnTarget
<1>6. [k EXCEPT !.target = S!NoTarget] = k
  BY KnownNowhere DEF k
<1>7. [k EXCEPT !.swarm = S!SWARM_WAIT_EXEC_ACK] = Known(S!SWARM_WAIT_EXEC_ACK, b, m)
  BY KnownSwarm DEF k
<1>8. \E v : S!OnTarget(k, S!NoTarget) = Known(v, b, m)
  BY <1>5, <1>6, <1>7 DEF k
<1> QED BY <1>4, <1>8 DEF k

(* A run of the flight plan neither enters nor leaves NAV.                 *)
LEMMA NavPeriodicMode ==
  ASSUME IInv, RotorcraftTypeOK, NEW met \in BOOLEAN, NavPeriodic(met)
  PROVE  ap'.mode = AP_MODE_NAV <=> ap.mode = AP_MODE_NAV
<1>1. PICK t \in BOOLEAN :
        ap' = Periodic(ap, aligned, rc_ok, CallOf(nav, ap.detect_ground), t)
  BY DEF NavPeriodic
<1>2. CallOf(nav, ap.detect_ground) \in NavCalls
  BY CallKnown
<1>3. aligned \in BOOLEAN /\ Good(ap, aligned) /\ rc_ok \in BOOLEAN
  BY DEF RotorcraftTypeOK, IInv, aligned
<1> QED BY <1>1, <1>2, <1>3, PeriodicRun

(* Each step of the aircraft, once aligned, as a step of the quad.         *)
LEMMA QuadStepOf ==
  ASSUME IInv, RotorcraftTypeOK, aligned, [RotorcraftNext]_rotorcraftVars, Quad' # Quad
  PROVE  QuadStep(Quad, Quad')
<1> DEFINE m == ap.mode = AP_MODE_NAV
           n == ap'.mode = AP_MODE_NAV
<1>0. /\ nav \in NavType /\ aligned \in BOOLEAN /\ Good(ap, aligned) /\ rc_ok \in BOOLEAN
      /\ AP_MODE_KILL \in Modes /\ AP_MODE_NAV \in Modes /\ AP_MODE_KILL # AP_MODE_NAV
  BY AutopilotAssumption
  DEF RotorcraftTypeOK, IInv, aligned, AP_MODE_KILL, AP_MODE_NAV, Modes
<1>a. Quad = Known(swarm, nav.block, m) /\ Quad' = Known(swarm', nav'.block, n)
  BY DEF Quad, Known
<1>m. m \in BOOLEAN /\ n \in BOOLEAN
  OBVIOUS
<1>b. ASSUME UNCHANGED <<nav, swarm>>
      PROVE  QuadStep(Quad, Quad')
  <2> HIDE DEF m, n
  <2> Quad' = [Quad EXCEPT !.nav = ~@]
    BY <1>a, <1>b, <1>m, KnownFlip
  <2> QED BY DEF QuadStep
<1>1. CASE AutopilotHandlers /\ UNCHANGED <<nav, swarm>>
  BY <1>1, <1>b
<1>2. CASE (\E s \in Sticks : RcFrame(s)) /\ UNCHANGED <<nav, swarm>>
  BY <1>2, <1>b
<1>3. ASSUME NEW met \in BOOLEAN, NavPeriodic(met)
      PROVE  QuadStep(Quad, Quad')
  <2>3. n = m
    <3>1. n <=> m
      BY <1>3, NavPeriodicMode
    <3> HIDE DEF m, n
    <3> QED BY <1>m, <3>1
  <2>4. nav' = NavNext(nav, ap.detect_ground, met) /\ swarm' = swarm
    BY <1>3 DEF NavPeriodic
  <2> HIDE DEF m, n
  <2>5. Quad' = [Quad EXCEPT !.block = nav'.block]
    BY <1>a, <2>3, <2>4, KnownBlock
  <2>b. Quad.block = nav.block
    BY QuadFields
  <2>6. nav'.block # nav.block
    BY <1>a, <2>3, <2>4
  <2> QED BY <1>0, <2>4, <2>5, <2>6, <2>b, NavNextBlock DEF QuadStep
<1>4. CASE ControlPeriodic
  BY <1>4, <1>b DEF ControlPeriodic
<1>5. CASE SwarmPeriodic
  <2> DEFINE z == S!Sampled(Quad)
  <2>1. n = m /\ nav' = nav /\ swarm' = S!SwarmNext(z)
    BY <1>5 DEF SwarmPeriodic, vars
  <2> HIDE DEF m, n
  <2>2. PICK w : z = Known(w, nav.block, m)
    BY <1>a, KnownSampled
  <2> HIDE DEF z
  <2>3. Quad' = [z EXCEPT !.swarm = S!SwarmNext(z)]
    BY <1>a, <2>1, <2>2, KnownSwarm
  <2> QED BY <2>3 DEF QuadStep, z
<1>6. CASE SwarmTarget
  <2> DEFINE z == S!OnTarget(Quad, S!NoTarget)
  <2>1. n = m /\ nav' = nav /\ swarm' = z.swarm
    BY <1>6 DEF SwarmTarget, vars
  <2> HIDE DEF m, n
  <2>2. PICK w : z = Known(w, nav.block, m)
    BY <1>a, KnownSampled
  <2> HIDE DEF z
  <2>w. z.swarm = w
    BY <2>2, KnownRead
  <2>3. Quad' = z
    BY <1>a, <2>1, <2>2, <2>w, Zenon
  <2> QED BY <2>3 DEF QuadStep, z
<1>7. ASSUME NEW a \in Acks, SwarmAck(a)
      PROVE  QuadStep(Quad, Quad')
  <2> DEFINE z == S!OnAck(Quad, a)
  <2>0. S!ACK_KILL = 255 /\ S!ACK_NAV = 254 /\ S!ACK_EXEC = 253 /\ S!ACK_REF = 2
    BY DEF S!ACK_KILL, S!ACK_NAV, S!ACK_EXEC, S!ACK_REF
  <2>1. CASE a = S!ACK_KILL
    <3>1. ap' = SetMode(ap, aligned, AP_MODE_KILL) /\ nav' = nav /\ swarm' = z.swarm
      BY <1>7, <2>0, <2>1 DEF SwarmAck
    <3>2. n = FALSE
      BY <1>0, <3>1, SetModeMode
    <3> HIDE DEF m, n
    <3>3. z = Known(S!SWARM_KILLED, nav.block, n)
      <4>1. n \in {FALSE}
        BY <3>2
      <4>2. z = S!OnAck(Known(swarm, nav.block, m), S!ACK_KILL)
        BY <1>a, <2>1
      <4>3. z = Known(S!SWARM_KILLED, nav.block, n)
        BY <4>1, <4>2, KnownAckKill
      <4> QED BY <4>3
    <3> HIDE DEF z
    <3>w. z.swarm = S!SWARM_KILLED
      BY <3>3, KnownRead
    <3>4. Quad' = z
      BY <1>a, <3>1, <3>2, <3>3, <3>w, Zenon
    <3> QED BY <3>4 DEF QuadStep, z
  <2>2. CASE a = S!ACK_NAV
    <3>1. /\ ap' = SetMode(ap, aligned, AP_MODE_NAV)
          /\ nav'.block = 0 /\ swarm' = z.swarm
      BY <1>7, <2>0, <2>2 DEF SwarmAck, GotoBlock
    <3>2. n = TRUE
      BY <1>0, <3>1, SetModeMode
    <3> HIDE DEF m, n
    <3>3. z = Known(S!SWARM_INIT, nav'.block, n)
      <4>1. n \in {TRUE} /\ nav'.block \in {0}
        BY <3>1, <3>2
      <4>2. z = S!OnAck(Known(swarm, nav.block, m), S!ACK_NAV)
        BY <1>a, <2>2
      <4>3. z = Known(S!SWARM_INIT, nav'.block, n)
        BY <4>1, <4>2, KnownAckNav
      <4> QED BY <4>3
    <3> HIDE DEF z
    <3>w. z.swarm = S!SWARM_INIT
      BY <3>3, KnownRead
    <3>4. Quad' = z
      BY <1>a, <3>1, <3>2, <3>3, <3>w, Zenon
    <3> QED BY <3>4 DEF QuadStep, z
  <2>3. CASE a \in {S!ACK_REF, S!ACK_EXEC}
    <3>0. a # S!ACK_KILL /\ a # S!ACK_NAV
      BY <2>0, <2>3
    <3>1. ap' = ap /\ nav' = nav /\ swarm' = z.swarm
      BY <1>7, <3>0, Zenon DEF SwarmAck
    <3>n. n = m
      BY <3>1
    <3> HIDE DEF m, n
    <3>2. PICK w : z = Known(w, nav.block, m)
      BY <1>a, <2>3, KnownAckOther
    <3> HIDE DEF z
    <3>w. z.swarm = w
      BY <3>2, KnownRead
    <3>3. Quad' = z
      BY <1>a, <3>1, <3>2, <3>n, <3>w, Zenon
    <3> QED BY <3>3 DEF QuadStep, z
  <2> QED BY <2>1, <2>2, <2>3 DEF Acks
<1>8. ASSUME NEW b \in GROUND_BLOCKS, DlBlock(b)
      PROVE  QuadStep(Quad, Quad')
  <2>1. n = m /\ nav'.block = b /\ swarm' = swarm
    BY <1>8 DEF DlBlock, GotoBlock, vars
  <2> HIDE DEF m, n
  <2>2. Quad' = [Quad EXCEPT !.block = b]
    BY <1>a, <2>1, KnownBlock
  <2>3. Quad' = S!OnBlock(Quad, b)
    BY <2>2 DEF S!OnBlock
  <2> QED BY <2>3 DEF QuadStep
<1>9. CASE UNCHANGED rotorcraftVars
  BY <1>9 DEF rotorcraftVars, Quad
<1> QED
  BY <1>1, <1>2, <1>3, <1>4, <1>5, <1>6, <1>7, <1>8, <1>9 DEF RotorcraftNext

(* Whatever the pilot, the failsafes, the flight plan and the ground do to *)
(* an aligned aircraft, in every build and for all the blocks the ground   *)
(* sends, is a step of a quad of QuadSwarm.                                *)
THEOREM AircraftIsAQuad == RotorcraftSpec => ImplementsQuad
<1>1. IInv /\ RotorcraftTypeOK /\ [RotorcraftNext]_rotorcraftVars =>
        [aligned => QuadStep(Quad, Quad')]_Quad
  BY QuadStepOf
<1> QED BY <1>1, RotorcraftGood, RotorcraftTypeCorrect, PTL DEF RotorcraftSpec, ImplementsQuad
-----------------------------------------------------------------------------
(* With its history variables the aircraft is the aircraft.                *)
LEMMA HistoryStep == [MCRotorcraftNext]_mcRotorcraftVars => [RotorcraftNext]_rotorcraftVars
<1> SUFFICES ASSUME [MCRotorcraftNext]_mcRotorcraftVars
             PROVE  [RotorcraftNext]_rotorcraftVars
  OBVIOUS
<1>1. ASSUME NEW s \in MCSticks, MCRc(s)
      PROVE  RotorcraftNext
  <2> s \in Sticks /\ RcFrame(s) /\ UNCHANGED <<nav, swarm>>
    BY <1>1 DEF MCSticks, MCRc
  <2> QED BY DEF RotorcraftNext
<1>2. CASE MCHandlers
  BY <1>2 DEF MCHandlers, RotorcraftNext
<1>3. ASSUME NEW met \in BOOLEAN, MCNavPeriodic(met)
      PROVE  RotorcraftNext
  BY <1>3 DEF MCNavPeriodic, RotorcraftNext
<1>4. CASE MCControlPeriodic
  BY <1>4 DEF MCControlPeriodic, RotorcraftNext
<1>5. CASE MCSwarm
  BY <1>5 DEF MCSwarm, RotorcraftNext
<1>6. CASE UNCHANGED mcRotorcraftVars
  BY <1>6 DEF mcRotorcraftVars
<1> QED BY <1>1, <1>2, <1>3, <1>4, <1>5, <1>6 DEF MCRotorcraftNext

(* What the history says of the block: it has not run yet, or its call     *)
(* stopped the motors and nothing has started them.                        *)
HoldInv ==
  /\ held \in {"entered", "killed", "no"}
  /\ held = "entered" => nav.block \in KillBlocks /\ ~nav.called
  /\ held = "killed" => nav.block \in KillBlocks /\ nav.called /\ ~ap.motors_on

(* Of the handlers of AutopilotHandlers only the operator's setting starts *)
(* the motors.                                                             *)
LEMMA HandlersDoNotStart ==
  ASSUME IInv, AutopilotHandlers, Started
  PROVE  SettingKillThrottle(FALSE)
<1>1. /\ aligned \in BOOLEAN /\ Good(ap, aligned) /\ rc_ok \in BOOLEAN /\ gps_lost \in BOOLEAN
      /\ ~ap.motors_on /\ ap'.motors_on
  BY AutopilotAssumption DEF IInv, aligned, Started
<1>2. ap' # ap
  BY <1>1
<1>3. ~FailsafeCheck
  <2>1. LET r == GpsFailsafe(RcFailsafe(ap, aligned, rc_ok), aligned, rc_ok, gps_lost)
        IN  r.motors_on => ap.motors_on
    BY <1>1, FailsafeKeeps
  <2> QED BY <1>1, <2>1 DEF FailsafeCheck
<1>4. ~DetectGroundEvent /\ \A m \in AUTO2_CHOICES : ~SettingAuto2(m)
  BY <1>1 DEF DetectGroundEvent, SettingAuto2, Good, ApType
<1>5. ~RcTimeout /\ ~AhrsAlign /\ ~GpsChange
  BY <1>2 DEF RcTimeout, AhrsAlign, GpsChange
<1>6. PICK kill \in BOOLEAN : SettingKillThrottle(kill)
  BY <1>3, <1>4, <1>5 DEF AutopilotHandlers
<1>7. CASE kill
  <2>1. ap' = SetMotorsOn(ap, aligned, FALSE)
    BY <1>6, <1>7 DEF SettingKillThrottle
  <2> QED BY <1>1, <2>1, SetMotorsOnKeeps
<1>8. CASE ~kill
  BY <1>6, <1>8 DEF SettingKillThrottle
<1> QED BY <1>7, <1>8

(* A block is entered at its first stage, and a stage that was left behind *)
(* stays behind.                                                           *)
LEMMA RunStages ==
  ASSUME nav \in NavType, NEW met \in BOOLEAN, NavPeriodic(met)
  PROVE  /\ nav'.block # nav.block => ~nav'.called
         /\ nav'.block = nav.block /\ nav.called => nav'.called
<1> DEFINE n == NavNext(nav, ap.detect_ground, met)
<1>1. \/ n \in {nav, [nav EXCEPT !.called = TRUE]}
      \/ nav.block = FLARE /\ n = GotoBlock(nav, S!BLOCK_ID_HOLDING_POINT)
      \/ nav.block \in {0, 1, S!BLOCK_ID_TAKE_OFF, 12} /\ n = GotoBlock(nav, nav.block + 1)
      \/ nav.block = S!BLOCK_ID_LAND_HERE /\ n = GotoBlock(nav, 12)
  BY NavNextCases
<1>2. nav' = n
  BY DEF NavPeriodic
<1>3. \A b : GotoBlock(nav, b).block = b /\ ~GotoBlock(nav, b).called
  BY DEF GotoBlock
<1>4. [nav EXCEPT !.called = TRUE].block = nav.block /\ [nav EXCEPT !.called = TRUE].called
  BY DEF NavType
<1>5. /\ FLARE # S!BLOCK_ID_HOLDING_POINT /\ S!BLOCK_ID_LAND_HERE # 12
      /\ \A b \in {0, 1, S!BLOCK_ID_TAKE_OFF, 12} : b + 1 # b
  BY DEF FLARE, S!BLOCK_ID_HOLDING_POINT, S!BLOCK_ID_LAND_HERE, S!BLOCK_ID_TAKE_OFF
<1> HIDE DEF n
<1>6. CASE n \in {nav, [nav EXCEPT !.called = TRUE]}
  BY <1>2, <1>4, <1>6
<1>7. ASSUME NEW b, b # nav.block, n = GotoBlock(nav, b)
      PROVE  nav'.block # nav.block /\ ~nav'.called
  BY <1>2, <1>3, <1>7
<1> QED BY <1>1, <1>5, <1>6, <1>7

(* The first run in NAV of a block that kills the throttle stops the       *)
(* motors; the runs after it start none.                                   *)
LEMMA KillBlockRun ==
  ASSUME IInv, HoldInv, NEW met \in BOOLEAN, NavPeriodic(met), held # "no",
         nav \in NavType
  PROVE  /\ held = "entered" /\ ap.mode = AP_MODE_NAV => ~ap'.motors_on
         /\ held = "killed" => ~ap'.motors_on
         /\ nav'.block = nav.block => nav'.called
         /\ nav'.block # nav.block => ~nav'.called
<1> USE DEF HoldInv
<1>1. /\ aligned \in BOOLEAN /\ Good(ap, aligned) /\ rc_ok \in BOOLEAN
  BY AutopilotAssumption DEF IInv, aligned
<1>2. PICK t \in BOOLEAN :
        ap' = Periodic(ap, aligned, rc_ok, CallOf(nav, ap.detect_ground), t)
  BY DEF NavPeriodic
<1>3. CallOf(nav, ap.detect_ground) \in NavCalls
  BY CallKnown
<1>4. ap'.motors_on => NavCall(ap, aligned, CallOf(nav, ap.detect_ground)).motors_on
  BY <1>1, <1>2, <1>3, PeriodicRun
<1>5. 0 # FLARE /\ S!BLOCK_ID_HOLDING_POINT # FLARE
  BY DEF FLARE, S!BLOCK_ID_HOLDING_POINT
<1>6. CASE held = "entered" /\ nav.block \in KillBlocks /\ ~nav.called
  <2>1. CallOf(nav, ap.detect_ground) = "NavKillThrottle"
    <3>1. S!BLOCK_ID_START_ENGINE \notin KillBlocks /\ FLARE \notin KillBlocks
      BY DEF KillBlocks, S!BLOCK_ID_START_ENGINE, S!BLOCK_ID_HOLDING_POINT, FLARE
    <3> QED BY <1>6, <3>1 DEF CallOf, KillBlocks
  <2>2. ap.mode = AP_MODE_NAV => NavCall(ap, aligned, "NavKillThrottle") = SetMotorsOn(ap, aligned, FALSE)
    BY DEF NavCall
  <2>3. ~SetMotorsOn(ap, aligned, FALSE).motors_on
    BY <1>1, SetMotorsOnKeeps
  <2>4. nav' = [nav EXCEPT !.called = TRUE]
    BY <1>5, <1>6 DEF NavPeriodic, NavNext, KillBlocks, Calling
  <2>5. nav'.called /\ nav'.block = nav.block
    BY <2>4 DEF NavType
  <2> QED BY <1>4, <1>6, <2>1, <2>2, <2>3, <2>5
<1>7. CASE held = "killed" /\ nav.block \in KillBlocks /\ nav.called /\ ~ap.motors_on
  <2>1. CallOf(nav, ap.detect_ground) = "none"
    BY <1>5, <1>7 DEF CallOf, KillBlocks
  <2>2. NavCall(ap, aligned, "none") = ap
    BY DEF NavCall
  <2> QED BY <1>4, <1>7, <2>1, <2>2, RunStages
<1> QED BY <1>6, <1>7

(* Every step keeps what the history says of the block.                    *)
LEMMA HoldStep ==
  ASSUME IInv, RotorcraftTypeOK, HoldInv, [MCRotorcraftNext]_mcRotorcraftVars
  PROVE  HoldInv'
<1> USE DEF HoldInv
<1>0. /\ aligned \in BOOLEAN /\ Good(ap, aligned) /\ rc_ok \in BOOLEAN
      /\ nav \in NavType
      /\ AP_MODE_KILL \in Modes
  BY AutopilotAssumption DEF IInv, aligned, RotorcraftTypeOK, Modes, AP_MODE_KILL
<1>1. ASSUME NEW s \in MCSticks, MCRc(s)
      PROVE  HoldInv'
  BY <1>1 DEF MCRc, Started
<1>2. CASE MCHandlers
  <2>1. Started => SettingKillThrottle(FALSE)
    BY <1>2, HandlersDoNotStart DEF MCHandlers
  <2> QED BY <1>2, <2>1 DEF MCHandlers, Started
<1>3. ASSUME NEW met \in BOOLEAN, MCNavPeriodic(met)
      PROVE  HoldInv'
  <2>1. NavPeriodic(met) /\ held' = HeldAfterRun
    BY <1>3 DEF MCNavPeriodic
  <2>2. CASE nav'.block # nav.block
    <3>1. ~nav'.called
      BY <1>0, <2>1, <2>2, RunStages
    <3> QED BY <2>1, <2>2, <3>1 DEF HeldAfterRun
  <2>3. CASE nav'.block = nav.block /\ held # "no"
    BY <1>0, <2>1, <2>3, KillBlockRun DEF HeldAfterRun
  <2>4. CASE nav'.block = nav.block /\ held = "no"
    BY <2>1, <2>4 DEF HeldAfterRun
  <2> QED BY <2>2, <2>3, <2>4
<1>4. CASE MCControlPeriodic
  <2>1. PICK t \in BOOLEAN : ap' = Periodic(ap, aligned, rc_ok, "none", t)
    BY <1>4 DEF MCControlPeriodic, ControlPeriodic
  <2>2. "none" \in NavCalls /\ NavCall(ap, aligned, "none") = ap
    BY DEF NavCalls, NavCall
  <2>3. ap'.motors_on => ap.motors_on
    BY <1>0, <2>1, <2>2, PeriodicRun
  <2> QED BY <1>4, <2>3 DEF MCControlPeriodic, ControlPeriodic
<1>5. CASE MCSwarm
  <2>1. \A b : ~GotoBlock(nav, b).called /\ GotoBlock(nav, b).block = b
    BY DEF GotoBlock
  <2>2. (nav' = nav /\ (ap'.motors_on => ap.motors_on)) \/ \E b : nav' = GotoBlock(nav, b)
    <3>1. CASE SwarmPeriodic \/ SwarmTarget
      BY <3>1 DEF SwarmPeriodic, SwarmTarget, vars
    <3>2. ASSUME NEW a \in Acks, SwarmAck(a)
          PROVE  (nav' = nav /\ (ap'.motors_on => ap.motors_on)) \/ \E b : nav' = GotoBlock(nav, b)
      <4>1. CASE a = S!ACK_NAV
        BY <3>2, <4>1 DEF SwarmAck
      <4>2. CASE a # S!ACK_NAV
        <5>1. nav' = nav /\ ap' \in {SetMode(ap, aligned, AP_MODE_KILL), ap}
          BY <3>2, <4>2, Zenon DEF SwarmAck
        <5> QED BY <1>0, <5>1, SetModeKeeps
      <4> QED BY <4>1, <4>2
    <3>3. ASSUME NEW b \in GROUND_BLOCKS, DlBlock(b)
          PROVE  \E c : nav' = GotoBlock(nav, c)
      BY <3>3 DEF DlBlock
    <3> QED BY <1>5, <3>1, <3>2, <3>3 DEF MCSwarm
  <2>3. held' = IF nav' = nav THEN held
                ELSE IF nav'.block \in KillBlocks THEN "entered" ELSE "no"
    BY <1>5 DEF MCSwarm
  <2> QED BY <2>1, <2>2, <2>3
<1>6. CASE UNCHANGED mcRotorcraftVars
  BY <1>6 DEF mcRotorcraftVars, rotorcraftVars
<1> QED BY <1>1, <1>2, <1>3, <1>4, <1>5, <1>6 DEF MCRotorcraftNext

(* Wait GPS and Holding point kill the throttle at their first run in NAV, *)
(* however they were entered, and from then on neither the flight plan nor *)
(* a failsafe, an acknowledgement or a block the ground sends again starts *)
(* the motors: for every arming header, option and set of blocks.          *)
THEOREM HoldingStaysKilled == MCRotorcraftSpec => []HoldingKills
<1>1. MCRotorcraftInit => HoldInv
  BY DEF MCRotorcraftInit, RotorcraftInit, HoldInv, KillBlocks
<1>2. MCRotorcraftSpec => RotorcraftSpec
  <2>1. MCRotorcraftInit => RotorcraftInit
    BY DEF MCRotorcraftInit
  <2> QED BY <2>1, HistoryStep, PTL DEF MCRotorcraftSpec, RotorcraftSpec
<1>3. IInv /\ RotorcraftTypeOK /\ HoldInv /\ [MCRotorcraftNext]_mcRotorcraftVars => HoldInv'
  BY HoldStep
<1>4. HoldInv => HoldingKills
  BY DEF HoldInv, HoldingKills
<1> QED
  BY <1>1, <1>2, <1>3, <1>4, RotorcraftGood, RotorcraftTypeCorrect, PTL DEF MCRotorcraftSpec
-----------------------------------------------------------------------------
(* autopilot_set_motors_on and autopilot_set_mode leave the ground         *)
(* detection alone.                                                        *)
LEMMA SetMotorsOnDetection ==
  ASSUME NEW a \in ApType, NEW al \in BOOLEAN, NEW on \in BOOLEAN, CounterInv(a)
  PROVE  SetMotorsOn(a, al, on) \in ApType /\ SameDetection(a, SetMotorsOn(a, al, on))
<1> DEFINE m == al /\ on
           b == [a EXCEPT !.motors_on = m, !.kill_throttle = ~m]
<1>1. m \in BOOLEAN /\ SetMotorsOn(a, al, on) = ArmingSet(b, m)
  BY DEF SetMotorsOn
<1> HIDE DEF m
<1>2. b \in ApType /\ CounterInv(b) /\ SameDetection(a, b)
  BY <1>1 DEF ApType, CounterInv, SameDetection
<1> HIDE DEF b
<1>3. ArmingSet(b, m) \in ApType /\ SameDetection(b, ArmingSet(b, m))
  BY <1>1, <1>2, ArmingSetSound, ArmingSetFrame
<1> QED BY <1>1, <1>2, <1>3 DEF SameDetection

(* Nor does autopilot_set_mode touch the ground detection.                 *)
LEMMA SetModeDetection ==
  ASSUME NEW a, NEW al \in BOOLEAN, NEW new \in Modes, a \in ApType, CounterInv(a)
  PROVE  SameDetection(a, SetMode(a, al, new))
<1> DEFINE m == IF al THEN new ELSE AP_MODE_KILL
           o == SetMotorsOn(a, al, FALSE)
           b == StopForMode(a, al, m)
           r == [b EXCEPT !.mode = m, !.h_mode = HModeOf(m, a.h_mode), !.v_mode = VModeOf(m)]
<1>1. m \in Modes
  BY DEF Modes, AP_MODE_KILL
<1>2. SetMode(a, al, new) = IF m = a.mode THEN a ELSE r
  BY DEF SetMode
<1>3. SameDetection(a, o) /\ o \in ApType
  BY SetMotorsOnDetection
<1>4. b \in {a, [o EXCEPT !.in_flight = FALSE, !.in_flight_counter = 0]}
  BY DEF StopForMode
<1> HIDE DEF m, o, b
<1> DEFINE q == [o EXCEPT !.in_flight = FALSE, !.in_flight_counter = 0]
<1>5. q \in ApType /\ SameDetection(o, q)
  <2> 0 \in 0..IN_FLIGHT_TIME
    BY AutopilotAssumption
  <2> QED BY <1>3 DEF ApType, SameDetection
<1> HIDE DEF q
<1>6. b \in {a, q}
  BY <1>4 DEF q
<1>7. b \in ApType /\ SameDetection(a, b)
  BY <1>3, <1>5, <1>6 DEF SameDetection
<1>8. SameDetection(b, r)
  BY <1>7 DEF ApType, SameDetection
<1> QED BY <1>2, <1>7, <1>8 DEF SameDetection

(* Nor does the flight detection.                                          *)
LEMMA CheckInFlightDetection ==
  ASSUME NEW a \in ApType, NEW up
  PROVE  SameDetection(a, CheckInFlight(a, up))
BY DEF CheckInFlight, ApType, SameDetection

(* Nor does a frame.                                                       *)
LEMMA OnRcFrameDetection ==
  ASSUME NEW a, NEW al \in BOOLEAN, NEW lost \in BOOLEAN, NEW s \in Sticks, Good(a, al)
  PROVE  SameDetection(a, OnRcFrame(a, al, lost, s))
<1> DEFINE b == RcMode(a, al, lost, s)
           c == ArmingCheck(b, s)
           d == [c EXCEPT !.kill_throttle = ~c.motors_on]
           up == ~s.throttle_down
<1>1. Good(b, al) /\ SameDetection(a, b)
  <2>1. ModeOfSwitch(a, s) \in Modes
    <3>1. ModeOfSwitch(a, s) \in {a.mode_auto2, MODE_AUTO1, MODE_MANUAL}
      BY Zenon DEF ModeOfSwitch
    <3> QED BY <3>1, AutopilotAssumption DEF Good, ApType
  <2>2. AP_MODE_KILL \in Modes
    BY DEF Modes, AP_MODE_KILL
  <2>3. SameDetection(a, a)
    BY DEF SameDetection
  <2> QED BY <2>1, <2>2, <2>3, SetModeKeeps, SetModeDetection DEF RcMode, Good
<1>2. OnRcFrame(a, al, lost, s) =
        IF b.mode > AP_MODE_FAILSAFE THEN CheckInFlight(d, up) ELSE b
  BY DEF OnRcFrame, RcMotors
<1> HIDE DEF b, up
<1>3. c \in ApType /\ SameDetection(b, c)
  BY <1>1, ArmingCheckKeeps, ArmingCheckFrame DEF Good
<1> HIDE DEF c
<1>4. d \in ApType /\ SameDetection(c, d)
  BY <1>3 DEF ApType, SameDetection
<1> HIDE DEF d
<1>5. SameDetection(d, CheckInFlight(d, up))
  BY <1>4, CheckInFlightDetection
<1> QED BY <1>1, <1>2, <1>3, <1>4, <1>5 DEF SameDetection

(* Nor does failsafe_check.                                                *)
LEMMA FailsafeDetection ==
  ASSUME NEW a, NEW al \in BOOLEAN, NEW ok \in BOOLEAN, NEW lost \in BOOLEAN, Good(a, al)
  PROVE  SameDetection(a, GpsFailsafe(RcFailsafe(a, al, ok), al, ok, lost))
<1> DEFINE b == RcFailsafe(a, al, ok)
<1>1. AP_MODE_FAILSAFE \in Modes /\ \A x : SameDetection(x, x)
  BY DEF Modes, AP_MODE_FAILSAFE, SameDetection
<1>2. Good(b, al) /\ SameDetection(a, b)
  BY <1>1, SetModeKeeps, SetModeDetection DEF RcFailsafe, Good
<1> HIDE DEF b
<1>3. SameDetection(b, GpsFailsafe(b, al, ok, lost))
  BY <1>1, <1>2, SetModeDetection DEF GpsFailsafe, Good
<1> QED BY <1>2, <1>3 DEF b, SameDetection

(* What follows the flight plan's call in autopilot_periodic at most takes *)
(* a touch-down back.                                                      *)
LEMMA PeriodicDetection ==
  ASSUME NEW a, NEW al \in BOOLEAN, NEW ok \in BOOLEAN, NEW call \in NavCalls,
         NEW t \in BOOLEAN, Good(a, al)
  PROVE  LET n == NavCall(a, al, call)
             r == Periodic(a, al, ok, call, t)
         IN  /\ r.detect_ground => n.detect_ground
             /\ r.detect_ground_once = n.detect_ground_once
<1> DEFINE n == NavCall(a, al, call)
           b == SetMode(n, al, AP_MODE_KILL)
           g == GroundKill(n, al)
           c == SetAllCommands(g, t)
<1>1. Good(n, al) /\ AP_MODE_KILL \in Modes
  BY NavCallKeeps DEF Modes, AP_MODE_KILL
<1>2. Periodic(a, al, ok, call, t) = IF ok THEN c ELSE CheckInFlight(c, c.stab_thrust)
  BY DEF Periodic
<1> HIDE DEF n
<1>3. Good(b, al) /\ SameDetection(n, b) /\ Good(g, al)
  BY <1>1, SetModeKeeps, SetModeDetection, GroundKillKeeps DEF Good
<1>4. g \in {n, [b EXCEPT !.detect_ground = FALSE]}
  BY DEF GroundKill
<1> HIDE DEF b, g
<1>5. (g.detect_ground => n.detect_ground) /\ g.detect_ground_once = n.detect_ground_once
  BY <1>3, <1>4 DEF Good, ApType, SameDetection
<1>6. Good(c, al) /\ SameDetection(g, c)
  <2> DEFINE up == g.motors_on /\ (IF g.v_mode = "KILL" THEN g.stab_thrust ELSE t)
             w == IF up THEN "positive" ELSE "zero"
  <2>1. c \in {[g EXCEPT !.thrust = "failsafe"], [g EXCEPT !.stab_thrust = up, !.thrust = w]}
    BY DEF SetAllCommands
  <2> HIDE DEF up, w
  <2>2. /\ SameDetection(g, [g EXCEPT !.thrust = "failsafe"])
        /\ SameDetection(g, [g EXCEPT !.stab_thrust = up, !.thrust = w])
    BY <1>3 DEF Good, ApType, SameDetection
  <2>3. Good(c, al)
    BY <1>3, SetAllCommandsKeeps
  <2> HIDE DEF c
  <2> QED BY <2>1, <2>2, <2>3
<1> HIDE DEF c
<1>7. SameDetection(c, CheckInFlight(c, c.stab_thrust))
  BY <1>6, CheckInFlightDetection DEF Good
<1> QED BY <1>2, <1>5, <1>6, <1>7 DEF n, SameDetection

(* A touch-down is not latched while another is waited for: the event that *)
(* latches one ends the wait, and the flare first looks for the exception. *)
DetectionInv ==
  DetectionExplained /\ ~(ap.detect_ground /\ ap.detect_ground_once)

(* A step that leaves the detection alone keeps the invariant, if leaving  *)
(* a flare is recorded.                                                    *)
LEMMA DetectionKept ==
  ASSUME DetectionInv, SameDetection(ap, ap'),
         nav'.block = FLARE \/ nav.block # FLARE \/ loose', loose => loose'
  PROVE  DetectionInv'
BY DEF DetectionInv, DetectionExplained, SameDetection

(* Of the handlers only DetectGroundEvent latches a touch-down, in         *)
(* FAILSAFE or where it is asked for.                                      *)
LEMMA HandlersDetection ==
  ASSUME IInv, DetectionInv, MCHandlers
  PROVE  DetectionInv'
<1>1. aligned \in BOOLEAN /\ Good(ap, aligned) /\ rc_ok \in BOOLEAN /\ gps_lost \in BOOLEAN
  BY AutopilotAssumption DEF IInv, aligned
<1>2. /\ nav' = nav /\ (loose => loose')
      /\ ap'.mode = AP_MODE_FAILSAFE => loose'
  BY DEF MCHandlers, LooseAfter
<1>3. ap \in ApType
  BY <1>1 DEF Good
<1>4. CASE DetectGroundEvent
  <2>1. ap' = [ap EXCEPT !.detect_ground = TRUE, !.detect_ground_once = FALSE]
    BY <1>4 DEF DetectGroundEvent
  <2>2. ap'.detect_ground_once = FALSE /\ ap'.mode = ap.mode
    BY <1>3, <2>1 DEF ApType
  <2>3. ap.mode = AP_MODE_FAILSAFE \/ ap.detect_ground_once
    BY <1>4 DEF DetectGroundEvent
  <2> QED BY <1>2, <2>2, <2>3 DEF DetectionInv, DetectionExplained
<1>5. CASE ~DetectGroundEvent
  <2>1. ASSUME RcTimeout \/ AhrsAlign \/ GpsChange
        PROVE  SameDetection(ap, ap')
    BY <2>1 DEF RcTimeout, AhrsAlign, GpsChange, SameDetection
  <2>2. ASSUME FailsafeCheck
        PROVE  SameDetection(ap, ap')
    BY <1>1, <2>2, FailsafeDetection DEF FailsafeCheck
  <2>3. ASSUME NEW m \in AUTO2_CHOICES, SettingAuto2(m)
        PROVE  SameDetection(ap, ap')
    BY <1>3, <2>3 DEF SettingAuto2, ApType, SameDetection
  <2>4. ASSUME NEW kill \in BOOLEAN, SettingKillThrottle(kill)
        PROVE  SameDetection(ap, ap')
    BY <1>1, <1>3, <2>4, SetMotorsOnDetection DEF SettingKillThrottle, Good
  <2>5. SameDetection(ap, ap')
    BY <1>5, <2>1, <2>2, <2>3, <2>4 DEF MCHandlers, AutopilotHandlers
  <2> QED BY <1>2, <2>5, DetectionKept
<1> QED BY <1>4, <1>5

(* A run of the flight plan: a flare asks for the detection at its first   *)
(* stage, and the exception that ends it takes it back.                    *)
LEMMA RunDetection ==
  ASSUME IInv, nav \in NavType, DetectionInv, NEW met \in BOOLEAN, MCNavPeriodic(met)
  PROVE  DetectionInv'
<1> DEFINE call == CallOf(nav, ap.detect_ground)
           n == NavCall(ap, aligned, call)
<1>1. aligned \in BOOLEAN /\ Good(ap, aligned) /\ rc_ok \in BOOLEAN /\ ap \in ApType
  BY AutopilotAssumption DEF IInv, aligned, Good
<1>2. PICK t \in BOOLEAN : ap' = Periodic(ap, aligned, rc_ok, call, t)
  BY DEF MCNavPeriodic, NavPeriodic
<1>3. call \in NavCalls
  BY CallKnown
<1>4. /\ ap'.detect_ground => n.detect_ground
      /\ ap'.detect_ground_once = n.detect_ground_once
  BY <1>1, <1>2, <1>3, PeriodicDetection
<1>5. nav' = NavNext(nav, ap.detect_ground, met)
  BY DEF MCNavPeriodic, NavPeriodic
<1>6. loose' = IF call = "NavDetectGround" THEN ap'.mode = AP_MODE_FAILSAFE ELSE LooseAfter
  BY DEF MCNavPeriodic
<1>7. CASE call = "NavDetectGround"
  <2>1. ap.detect_ground
    BY <1>7, Zenon DEF CallOf
  <2>2. n = [ap EXCEPT !.detect_ground = FALSE]
    BY <1>7 DEF NavCall
  <2>3. ~n.detect_ground /\ ~n.detect_ground_once
    BY <1>1, <2>1, <2>2 DEF ApType, DetectionInv
  <2> QED BY <1>4, <2>3 DEF DetectionInv, DetectionExplained
<1>8. CASE call = "NavStartDetectGround"
  <2>1. nav.block = FLARE /\ ~nav.called /\ ~ap.detect_ground
    <3>1. 0 # FLARE /\ S!BLOCK_ID_HOLDING_POINT # FLARE
      BY DEF FLARE, S!BLOCK_ID_HOLDING_POINT
    <3> QED BY <1>8, Zenon DEF CallOf
  <2>2. n = [ap EXCEPT !.detect_ground_once = TRUE]
    BY <1>8 DEF NavCall
  <2>3. ~n.detect_ground
    BY <1>1, <2>1, <2>2 DEF ApType
  <2>4. nav' = [nav EXCEPT !.called = TRUE]
    BY <1>5, <2>1 DEF NavNext, Calling
  <2>5. nav'.block = FLARE
    BY <2>1, <2>4 DEF NavType
  <2> QED BY <1>4, <2>3, <2>5 DEF DetectionInv, DetectionExplained
<1>9. CASE call \notin {"NavDetectGround", "NavStartDetectGround"}
  <2>1. n \in {SetMotorsOn(ap, aligned, FALSE), SetMotorsOn(ap, aligned, TRUE), ap}
    BY <1>9, Zenon DEF NavCall
  <2>2. SameDetection(ap, n)
    <3>1. \A on \in BOOLEAN : SameDetection(ap, SetMotorsOn(ap, aligned, on))
      BY <1>1, SetMotorsOnDetection DEF Good
    <3>2. SameDetection(ap, ap)
      BY DEF SameDetection
    <3> HIDE DEF n
    <3> QED BY <2>1, <3>1, <3>2
  <2>3. /\ loose => loose'
        /\ nav'.block = FLARE \/ nav.block # FLARE \/ loose'
    BY <1>6, <1>9 DEF LooseAfter
  <2> HIDE DEF n
  <2> QED BY <1>4, <2>2, <2>3 DEF DetectionInv, DetectionExplained, SameDetection
<1> QED BY <1>7, <1>8, <1>9

(* Every step of the aircraft keeps the invariant of the detection.        *)
LEMMA DetectionStep ==
  ASSUME IInv, RotorcraftTypeOK, DetectionInv, [MCRotorcraftNext]_mcRotorcraftVars
  PROVE  DetectionInv'
<1>0. /\ aligned \in BOOLEAN /\ Good(ap, aligned) /\ rc_ok \in BOOLEAN
      /\ gps_lost \in BOOLEAN /\ nav \in NavType
      /\ AP_MODE_KILL \in Modes /\ AP_MODE_NAV \in Modes
  BY AutopilotAssumption
     DEF IInv, aligned, RotorcraftTypeOK, Modes, AP_MODE_KILL, AP_MODE_NAV
<1>1. ASSUME NEW s \in MCSticks, MCRc(s)
      PROVE  DetectionInv'
  <2>1. s \in Sticks /\ ap' = OnRcFrame(ap, aligned, gps_lost, s)
    BY <1>1 DEF MCSticks, MCRc, RcFrame
  <2>2. SameDetection(ap, ap')
    BY <1>0, <2>1, OnRcFrameDetection
  <2> QED BY <1>1, <2>2, DetectionKept DEF MCRc, LooseAfter
<1>2. CASE MCHandlers
  BY <1>2, HandlersDetection
<1>3. ASSUME NEW met \in BOOLEAN, MCNavPeriodic(met)
      PROVE  DetectionInv'
  BY <1>0, <1>3, RunDetection
<1>4. CASE MCControlPeriodic
  <2>1. PICK t \in BOOLEAN : ap' = Periodic(ap, aligned, rc_ok, "none", t)
    BY <1>4 DEF MCControlPeriodic, ControlPeriodic
  <2>2. "none" \in NavCalls /\ NavCall(ap, aligned, "none") = ap
    BY DEF NavCalls, NavCall
  <2>3. /\ ap'.detect_ground => ap.detect_ground
        /\ ap'.detect_ground_once = ap.detect_ground_once
    BY <1>0, <2>1, <2>2, PeriodicDetection
  <2>4. nav' = nav /\ (loose => loose')
    BY <1>4 DEF MCControlPeriodic, ControlPeriodic, LooseAfter
  <2> QED BY <2>3, <2>4 DEF DetectionInv, DetectionExplained
<1>5. CASE MCSwarm
  <2>1. ASSUME NEW a \in Acks, SwarmAck(a)
        PROVE  SameDetection(ap, ap')
    <3>1. ap' \in {SetMode(ap, aligned, AP_MODE_KILL), SetMode(ap, aligned, AP_MODE_NAV), ap}
      BY <2>1, Zenon DEF SwarmAck
    <3> QED BY <1>0, <3>1, SetModeDetection DEF SameDetection, Good
  <2>2. ASSUME SwarmPeriodic \/ SwarmTarget \/ \E b \in GROUND_BLOCKS : DlBlock(b)
        PROVE  SameDetection(ap, ap')
    BY <2>2 DEF SwarmPeriodic, SwarmTarget, DlBlock, vars, SameDetection
  <2>3. SameDetection(ap, ap')
    BY <1>5, <2>1, <2>2 DEF MCSwarm
  <2> QED BY <1>5, <2>3, DetectionKept DEF MCSwarm, LooseAfter
<1>6. CASE UNCHANGED mcRotorcraftVars
  BY <1>6 DEF mcRotorcraftVars, rotorcraftVars, DetectionInv, DetectionExplained
<1> QED BY <1>1, <1>2, <1>3, <1>4, <1>5, <1>6 DEF MCRotorcraftNext

(* What autopilot_init starts from.                                        *)
LEMMA ResetTyped == ApReset \in ApType /\ CounterInv(ApReset)
<1> {0} \subseteq 0..IN_FLIGHT_TIME \cap 0..ARMING_DELAY /\ ArmingInit \in ArmingStates
  BY AutopilotAssumption DEF ArmingInit, ArmingStates
<1> AP_MODE_NAV \in Modes
  BY DEF Modes, AP_MODE_NAV
<1> QED BY AutopilotAssumption
           DEF ApReset, ApType, CounterInv, ArmingInit, HModes, VModes

(* A touch-down is latched, or waited for, only while a flare runs, unless *)
(* a flare was left early or the aircraft has been in FAILSAFE: for every  *)
(* option of the ground detection, arming header and set of blocks.        *)
THEOREM DetectionIsAsked == MCRotorcraftSpec => []DetectionExplained
<1>1. MCRotorcraftInit => DetectionInv
  <2> SUFFICES ASSUME MCRotorcraftInit
               PROVE  DetectionInv
    OBVIOUS
  <2>1. aligned \in BOOLEAN /\ AP_MODE_NAV \in Modes
    BY AutopilotAssumption DEF MCRotorcraftInit, RotorcraftInit, Init, aligned, Modes, AP_MODE_NAV
  <2>3. ApReset \in ApType /\ CounterInv(ApReset)
    BY ResetTyped
  <2>4. SameDetection(ApReset, ap)
    BY <2>1, <2>3, SetModeDetection DEF MCRotorcraftInit, RotorcraftInit, Init
  <2>5. ~ApReset.detect_ground /\ ~ApReset.detect_ground_once
    BY DEF ApReset
  <2> QED BY <2>4, <2>5 DEF DetectionInv, DetectionExplained, SameDetection
<1>2. MCRotorcraftSpec => RotorcraftSpec
  <2>1. MCRotorcraftInit => RotorcraftInit
    BY DEF MCRotorcraftInit
  <2> QED BY <2>1, HistoryStep, PTL DEF MCRotorcraftSpec, RotorcraftSpec
<1>3. IInv /\ RotorcraftTypeOK /\ DetectionInv /\ [MCRotorcraftNext]_mcRotorcraftVars => DetectionInv'
  BY DetectionStep
<1>4. DetectionInv => DetectionExplained
  BY DEF DetectionInv
<1> QED
  BY <1>1, <1>2, <1>3, <1>4, RotorcraftGood, RotorcraftTypeCorrect, PTL DEF MCRotorcraftSpec
-----------------------------------------------------------------------------
(* What the pilot's gesture is proved with (StartNeedsGesture).  The       *)
(* throttle header is left out: there the property is false.               *)

SameArming(a, r) ==
  r.arming = a.arming /\ r.arming_counter = a.arming_counter /\ r.motors_on = a.motors_on

(* After autopilot_arming_set: the state machine and the motors agree.     *)
Settled(a) ==
  /\ ARMING = "yaw" => a.arming = (IF a.motors_on THEN "MOTORS_ON" ELSE "MOTORS_OFF")
  /\ ARMING = "switch" => (a.arming = "MOTORS_ON" => a.motors_on)

(* All that anything but a frame does to the arming.  The mode becomes     *)
(* KILL only with the motors set.                                          *)
Outside(a, r) ==
  \/ SameArming(a, r) /\ (r.mode = AP_MODE_KILL => a.mode = AP_MODE_KILL)
  \/ Settled(r)

(* Two such steps make one.                                                *)
LEMMA OutsideTwice ==
  ASSUME NEW a, NEW b, NEW c, Outside(a, b), Outside(b, c)
  PROVE  Outside(a, c)
BY Zenon DEF Outside, SameArming, Settled

(* autopilot_set_motors_on brings the state machine in line, whatever it   *)
(* was doing.                                                              *)
LEMMA SetMotorsOnSettles ==
  ASSUME NEW a \in ApType, NEW al \in BOOLEAN, NEW on \in BOOLEAN, CounterInv(a)
  PROVE  Settled(SetMotorsOn(a, al, on))
<1> DEFINE m == al /\ on
           b == [a EXCEPT !.motors_on = m, !.kill_throttle = ~m]
<1>1. m \in BOOLEAN /\ SetMotorsOn(a, al, on) = ArmingSet(b, m)
  BY DEF SetMotorsOn
<1> HIDE DEF m
<1>2. b \in ApType /\ b.motors_on = m
  BY <1>1 DEF ApType
<1> HIDE DEF b
<1>3. ArmingSet(b, m).motors_on = m
  BY <1>1, <1>2, ArmingSetFrame
<1>4. CASE ARMING = "yaw"
  <2>1. ArmingSet(b, m).arming = IF m THEN "MOTORS_ON" ELSE "MOTORS_OFF"
    BY <1>2, <1>4 DEF ArmingSet, ArmingSetYaw, ApType
  <2> QED BY <1>1, <1>3, <1>4, <2>1 DEF Settled
<1>5. CASE ARMING = "switch"
  <2>1. ~m => ArmingSet(b, m).arming # "MOTORS_ON"
    BY <1>2, <1>5 DEF ArmingSet, ArmingSetSwitch, ApType
  <2> QED BY <1>1, <1>3, <1>5, <2>1 DEF Settled
<1> QED BY <1>4, <1>5 DEF Settled

(* autopilot_set_mode leaves the arming alone or turns the motors off.     *)
LEMMA SetModeOutside ==
  ASSUME NEW a \in ApType, NEW al \in BOOLEAN, NEW new \in Modes, CounterInv(a)
  PROVE  Outside(a, SetMode(a, al, new))
<1> DEFINE m == IF al THEN new ELSE AP_MODE_KILL
           o == SetMotorsOn(a, al, FALSE)
           q == [o EXCEPT !.in_flight = FALSE, !.in_flight_counter = 0]
           b == StopForMode(a, al, m)
           r == [b EXCEPT !.mode = m, !.h_mode = HModeOf(m, a.h_mode), !.v_mode = VModeOf(m)]
<1>1. SetMode(a, al, new) = IF m = a.mode THEN a ELSE r
  BY DEF SetMode
<1>2. o \in ApType /\ Settled(o)
  BY SetMotorsOnDetection, SetMotorsOnSettles
<1>3. b = IF KillsMotors(m) THEN q ELSE a
  BY DEF StopForMode
<1>4. m = AP_MODE_KILL => KillsMotors(m)
  BY DEF KillsMotors
<1> HIDE DEF m, o, b
<1>5. q \in ApType /\ Settled(q)
  <2> 0 \in 0..IN_FLIGHT_TIME
    BY AutopilotAssumption
  <2> QED BY <1>2 DEF ApType, Settled
<1> HIDE DEF q
<1>6. b \in ApType
  BY <1>3, <1>5
<1>7. r.arming = b.arming /\ r.arming_counter = b.arming_counter
      /\ r.motors_on = b.motors_on /\ r.mode = m
  BY <1>6 DEF ApType
<1> HIDE DEF r
<1>8. Outside(a, r)
  <2>1. CASE KillsMotors(m)
    BY <1>3, <1>5, <1>7, <2>1 DEF Outside, Settled
  <2>2. CASE ~KillsMotors(m)
    BY <1>3, <1>4, <1>7, <2>2 DEF Outside, SameArming
  <2> QED BY <2>1, <2>2
<1> QED BY <1>1, <1>8 DEF Outside, SameArming

(* The flight detection does not touch the arming.                         *)
LEMMA CheckInFlightOutside ==
  ASSUME NEW a \in ApType, NEW up
  PROVE  LET r == CheckInFlight(a, up)
         IN  SameArming(a, r) /\ r.mode = a.mode
BY DEF CheckInFlight, ApType, SameArming

(* failsafe_check leaves the arming alone or turns the motors off.         *)
LEMMA FailsafeOutside ==
  ASSUME NEW a, NEW al \in BOOLEAN, NEW ok \in BOOLEAN, NEW lost \in BOOLEAN, Good(a, al)
  PROVE  Outside(a, GpsFailsafe(RcFailsafe(a, al, ok), al, ok, lost))
<1> DEFINE b == RcFailsafe(a, al, ok)
<1>1. AP_MODE_FAILSAFE \in Modes /\ \A x : Outside(x, x)
  BY DEF Modes, AP_MODE_FAILSAFE, Outside, SameArming
<1>2. Good(b, al) /\ Outside(a, b)
  BY <1>1, SetModeKeeps, SetModeOutside DEF RcFailsafe, Good
<1> HIDE DEF b
<1>3. Outside(b, GpsFailsafe(b, al, ok, lost))
  BY <1>1, <1>2, SetModeOutside DEF GpsFailsafe, Good
<1> QED BY <1>2, <1>3, OutsideTwice DEF b

(* autopilot_periodic, whatever the flight plan calls.                     *)
LEMMA PeriodicOutside ==
  ASSUME NEW a, NEW al \in BOOLEAN, NEW ok \in BOOLEAN, NEW call \in NavCalls,
         NEW t \in BOOLEAN, Good(a, al)
  PROVE  Outside(a, Periodic(a, al, ok, call, t))
<1> DEFINE n == NavCall(a, al, call)
           b == SetMode(n, al, AP_MODE_KILL)
           g == GroundKill(n, al)
           c == SetAllCommands(g, t)
<1>1. Good(n, al) /\ a \in ApType /\ CounterInv(a) /\ AP_MODE_KILL \in Modes
  BY NavCallKeeps DEF Good, Modes, AP_MODE_KILL
<1>2. Periodic(a, al, ok, call, t) = IF ok THEN c ELSE CheckInFlight(c, c.stab_thrust)
  BY DEF Periodic
<1>3. Outside(a, n)
  <2>1. n \in {SetMotorsOn(a, al, FALSE), SetMotorsOn(a, al, TRUE), a,
               [a EXCEPT !.detect_ground_once = TRUE], [a EXCEPT !.detect_ground = FALSE]}
    BY Zenon DEF NavCall
  <2>2. Settled(SetMotorsOn(a, al, FALSE)) /\ Settled(SetMotorsOn(a, al, TRUE))
    BY <1>1, SetMotorsOnSettles
  <2>3. \A u \in BOOLEAN : /\ Outside(a, [a EXCEPT !.detect_ground_once = u])
                           /\ Outside(a, [a EXCEPT !.detect_ground = u])
    BY <1>1 DEF ApType, Outside, SameArming
  <2>4. Outside(a, a)
    BY DEF Outside, SameArming
  <2> HIDE DEF n
  <2> QED BY <2>1, <2>2, <2>3, <2>4 DEF Outside
<1> HIDE DEF n
<1>4. Good(b, al) /\ Outside(n, b) /\ Good(g, al)
  BY <1>1, SetModeKeeps, SetModeOutside, GroundKillKeeps DEF Good
<1>5. g \in {n, [b EXCEPT !.detect_ground = FALSE]}
  BY DEF GroundKill
<1> HIDE DEF b, g
<1>6. Outside(n, g)
  <2> DEFINE k == [b EXCEPT !.detect_ground = FALSE]
  <2>1. Outside(b, k)
    BY <1>4 DEF Good, ApType, Outside, SameArming
  <2>2. Outside(n, n)
    BY DEF Outside, SameArming
  <2>3. g = n \/ g = k
    BY <1>5
  <2> HIDE DEF k
  <2>4. Outside(n, k)
    BY <1>4, <2>1, OutsideTwice
  <2> QED BY <2>2, <2>3, <2>4
<1>7. Good(c, al) /\ Outside(g, c)
  <2> DEFINE up == g.motors_on /\ (IF g.v_mode = "KILL" THEN g.stab_thrust ELSE t)
             w == IF up THEN "positive" ELSE "zero"
  <2>1. c \in {[g EXCEPT !.thrust = "failsafe"], [g EXCEPT !.stab_thrust = up, !.thrust = w]}
    BY DEF SetAllCommands
  <2> HIDE DEF up, w
  <2>2. /\ Outside(g, [g EXCEPT !.thrust = "failsafe"])
        /\ Outside(g, [g EXCEPT !.stab_thrust = up, !.thrust = w])
    BY <1>4 DEF Good, ApType, Outside, SameArming
  <2>3. Good(c, al)
    BY <1>4, SetAllCommandsKeeps
  <2> HIDE DEF c
  <2> QED BY <2>1, <2>2, <2>3
<1> HIDE DEF c
<1>8. Outside(c, CheckInFlight(c, c.stab_thrust))
  BY <1>7, CheckInFlightOutside DEF Good, Outside
<1> QED BY <1>2, <1>3, <1>6, <1>7, <1>8, OutsideTwice

(* The actions of Autopilot but the frame.                                 *)
Others ==
  \/ RcTimeout \/ AutopilotPeriodic \/ FailsafeCheck \/ DetectGroundEvent
  \/ AhrsAlign \/ GpsChange
  \/ \E m \in AUTO2_CHOICES : SettingAuto2(m)
  \/ \E kill \in BOOLEAN : SettingKillThrottle(kill)
  \/ \E m \in {AP_MODE_KILL, AP_MODE_NAV} : SwarmAckMode(m)

(* None of them goes on with the state machine.                            *)
LEMMA OthersOutside ==
  ASSUME IInv, Others
  PROVE  Outside(ap, ap')
<1>1. /\ aligned \in BOOLEAN /\ Good(ap, aligned) /\ rc_ok \in BOOLEAN /\ gps_lost \in BOOLEAN
      /\ ap \in ApType /\ CounterInv(ap)
  BY AutopilotAssumption DEF IInv, aligned, Good
<1>2. CASE RcTimeout \/ AhrsAlign \/ GpsChange
  BY <1>2 DEF RcTimeout, AhrsAlign, GpsChange, Outside, SameArming
<1>3. CASE AutopilotPeriodic
  BY <1>1, <1>3, PeriodicOutside DEF AutopilotPeriodic
<1>4. CASE FailsafeCheck
  BY <1>1, <1>4, FailsafeOutside DEF FailsafeCheck
<1>5. CASE DetectGroundEvent
  BY <1>1, <1>5 DEF DetectGroundEvent, ApType, Outside, SameArming
<1>6. ASSUME NEW m \in AUTO2_CHOICES, SettingAuto2(m)
      PROVE  Outside(ap, ap')
  BY <1>1, <1>6 DEF SettingAuto2, ApType, Outside, SameArming
<1>7. ASSUME NEW kill \in BOOLEAN, SettingKillThrottle(kill)
      PROVE  Outside(ap, ap')
  BY <1>1, <1>7, SetMotorsOnSettles DEF SettingKillThrottle, Outside
<1>8. ASSUME NEW m \in {AP_MODE_KILL, AP_MODE_NAV}, SwarmAckMode(m)
      PROVE  Outside(ap, ap')
  <2> m \in Modes
    BY DEF Modes, AP_MODE_KILL, AP_MODE_NAV
  <2> QED BY <1>1, <1>8, SetModeOutside DEF SwarmAckMode
<1> QED BY <1>2, <1>3, <1>4, <1>5, <1>6, <1>7, <1>8 DEF Others

(* What the pilot has done by the time the state machine goes on: it       *)
(* counts no more frames of the yaw gesture than there were, and is about  *)
(* to start motors that are off only after the whole gesture.              *)
Promised(a, g) ==
  /\ g \in Nat
  /\ ARMING = "yaw" =>
       /\ ~a.motors_on => a.arming \notin {"MOTORS_ON", "M_ON_STICK_PUSHED"}
       /\ a.arming = "M_OFF_STICK_PUSHED" => ~a.motors_on /\ g > a.arming_counter
       /\ a.arming = "START_MOTORS" /\ ~a.motors_on => g >= ARMING_DELAY
       /\ a.mode = AP_MODE_KILL => a.arming \in {"MOTORS_OFF", "MOTORS_ON"}
  /\ ARMING = "switch" =>
       /\ g \in {0, 1}
       /\ a.arming = "MOTORS_ON" /\ ~a.motors_on => g >= 1

(* It stays so when others act, a gesture being over with the motors off.  *)
LEMMA OutsidePromise ==
  ASSUME NEW a, NEW r, NEW g, Promised(a, g), Outside(a, r)
  PROVE  /\ Promised(r, IF a.motors_on /\ ~r.motors_on THEN 0 ELSE g)
         /\ ~(a.motors_on /\ ~r.motors_on) => Promised(r, g)
<1>1. CASE Settled(r)
  BY <1>1 DEF Settled, Promised
<1>2. CASE SameArming(a, r) /\ (r.mode = AP_MODE_KILL => a.mode = AP_MODE_KILL)
  BY <1>2 DEF SameArming, Promised
<1> QED BY <1>1, <1>2 DEF Outside

(* What a frame adds to the history, as far as the promise goes.           *)
Seen(b, g, h, s) ==
  /\ h \in Nat
  /\ ARMING = "yaw" =>
       /\ YawGesture(s) => h > g \/ h >= ARMING_DELAY
       /\ g >= ARMING_DELAY /\ ~b.motors_on => h >= ARMING_DELAY
  /\ ARMING = "switch" =>
       /\ h \in {0, 1}
       /\ s.throttle_down /\ s.centered /\ ~s.kill_switch => h >= 1
       /\ g >= 1 /\ ~b.motors_on => h >= 1

(* How much of the gesture a start takes.                                  *)
Needed == IF ARMING = "yaw" THEN ARMING_DELAY ELSE 1

(* The switch statement of the yaw header keeps the promise; it starts the *)
(* motors in STATUS_START_MOTORS only.                                     *)
LEMMA YawPromise ==
  ASSUME NEW b \in ApType, NEW g, NEW h, NEW s, ARMING = "yaw", CounterInv(b),
         Promised(b, g), Seen(b, g, h, s), b.mode # AP_MODE_KILL
  PROVE  LET c == ArmingCheckYaw(b, s)
         IN  /\ Promised(c, h)
             /\ c.motors_on /\ ~b.motors_on => g >= ARMING_DELAY
<1>0. /\ b.arming_counter \in 0..ARMING_DELAY /\ ARMING_DELAY \in Nat \ {0, 1}
      /\ g \in Nat /\ h \in Nat /\ b.motors_on \in BOOLEAN
      /\ YawGesture(s) => h > g \/ h >= ARMING_DELAY
      /\ g >= ARMING_DELAY /\ ~b.motors_on => h >= ARMING_DELAY
  BY AutopilotAssumption DEF ApType, Promised, Seen
<1> DEFINE Fine(c) == /\ Promised(c, h)
                      /\ c.motors_on /\ ~b.motors_on => g >= ARMING_DELAY
<1>1. CASE b.arming = "MOTORS_OFF"
  <2> DEFINE c == YawOff(b, s)
  <2>1. /\ ~c.motors_on /\ c.arming_counter = 0 /\ c.mode = b.mode
        /\ c.arming = IF YawGesture(s) THEN "M_OFF_STICK_PUSHED" ELSE "MOTORS_OFF"
    BY <1>1 DEF YawOff, ApType
  <2> HIDE DEF c
  <2>2. YawGesture(s) => h > 0
    BY <1>0
  <2>3. Fine(c)
    BY <1>0, <2>1, <2>2 DEF Promised
  <2> QED BY <1>1, <2>3, YawSteps DEF c
<1>2. CASE b.arming = "M_OFF_STICK_PUSHED"
  <2> DEFINE c == YawOffPushed(b, s)
             n == b.arming_counter + 1
  <2>1. ~b.motors_on /\ g >= n
    BY <1>0, <1>2 DEF Promised
  <2>2. /\ ~c.motors_on /\ c.arming_counter = n /\ c.mode = b.mode
        /\ c.arming = IF n >= ARMING_DELAY THEN "START_MOTORS"
                      ELSE IF YawGesture(s) THEN "M_OFF_STICK_PUSHED" ELSE "MOTORS_OFF"
    BY <1>2 DEF YawOffPushed, ApType
  <2>3. n >= ARMING_DELAY => h >= ARMING_DELAY
    BY <1>0, <2>1
  <2>4. ~(n >= ARMING_DELAY) /\ YawGesture(s) => h > n
    BY <1>0, <2>1
  <2> HIDE DEF c, n
  <2>5. Fine(c)
    BY <1>0, <2>2, <2>3, <2>4 DEF Promised
  <2> QED BY <1>2, <2>5, YawSteps DEF c
<1>3. CASE b.arming = "START_MOTORS"
  <2> DEFINE c == YawStart(b, s)
  <2>1. /\ c.motors_on /\ c.mode = b.mode
        /\ c.arming = IF YawGesture(s) THEN "START_MOTORS" ELSE "MOTORS_ON"
    BY <1>3 DEF YawStart, ApType
  <2>2. ~b.motors_on => g >= ARMING_DELAY
    BY <1>3 DEF Promised
  <2> HIDE DEF c
  <2>3. Fine(c)
    BY <1>0, <2>1, <2>2 DEF Promised
  <2> QED BY <1>3, <2>3, YawSteps DEF c
<1>4. CASE b.arming \in {"MOTORS_ON", "M_ON_STICK_PUSHED"}
  <2> DEFINE c == ArmingCheckYaw(b, s)
  <2>1. b.motors_on
    BY <1>4 DEF Promised
  <2>2. c = YawOn(b, s) \/ c = YawOnPushed(b, s)
    BY <1>4, YawSteps
  <2>3. /\ YawOn(b, s).motors_on /\ YawOn(b, s).mode = b.mode
        /\ YawOn(b, s).arming \in {"M_ON_STICK_PUSHED", b.arming}
    BY DEF YawOn, ApType
  <2>4. /\ YawOnPushed(b, s).motors_on /\ YawOnPushed(b, s).mode = b.mode
        /\ YawOnPushed(b, s).arming \in {"STOP_MOTORS", "MOTORS_ON", b.arming}
    BY DEF YawOnPushed, ApType
  <2>5. /\ c.motors_on /\ c.mode = b.mode
        /\ c.arming \notin {"M_OFF_STICK_PUSHED", "START_MOTORS"}
    BY <1>4, <2>2, <2>3, <2>4
  <2> HIDE DEF c
  <2>6. Fine(c)
    BY <1>0, <2>1, <2>5 DEF Promised
  <2> QED BY <2>6 DEF c
<1>5. CASE b.arming = "STOP_MOTORS"
  <2> DEFINE c == YawStop(b, s)
  <2>1. /\ ~c.motors_on /\ c.mode = b.mode
        /\ c.arming \in {"STOP_MOTORS", "MOTORS_OFF"}
    BY <1>5 DEF YawStop, ApType
  <2> HIDE DEF c
  <2>2. Fine(c)
    BY <1>0, <2>1 DEF Promised
  <2> QED BY <1>5, <2>2, YawSteps DEF c
<1> QED BY <1>1, <1>2, <1>3, <1>4, <1>5 DEF ApType, ArmingStates

(* So does that of the switch header, which starts motors in MOTORS_ON.    *)
LEMMA SwitchPromise ==
  ASSUME NEW b \in ApType, NEW g, NEW h, NEW s, ARMING = "switch",
         Promised(b, g), Seen(b, g, h, s)
  PROVE  LET c == ArmingCheckSwitch(b, s)
         IN  /\ Promised(c, h)
             /\ c.motors_on /\ ~b.motors_on => g >= 1
<1> DEFINE c == ArmingCheckSwitch(b, s)
<1>1. CASE b.arming \in {"UNINIT", "WAITING"}
  <2>1. c = SwitchWaiting(b, s)
    BY <1>1, SwitchSteps
  <2>2. ~c.motors_on /\ c.arming \in {"STARTABLE", "WAITING"}
    BY <2>1 DEF SwitchWaiting, ApType
  <2> HIDE DEF c
  <2> QED BY <2>2 DEF Promised, Seen, c
<1>2. CASE b.arming = "STARTABLE"
  <2>1. c = SwitchStartable(b, s)
    BY <1>2, SwitchSteps
  <2>2. ~c.motors_on
        /\ (c.arming = "MOTORS_ON" => s.throttle_down /\ s.centered /\ ~s.kill_switch)
    BY <1>2, <2>1 DEF SwitchStartable, ApType
  <2> HIDE DEF c
  <2> QED BY <2>2 DEF Promised, Seen, c
<1>3. CASE b.arming = "MOTORS_ON"
  <2>1. c = SwitchOn(b, s)
    BY <1>3, SwitchSteps
  <2>2. c.motors_on
    BY <2>1 DEF SwitchOn, ApType
  <2> HIDE DEF c
  <2> QED BY <1>3, <2>2 DEF Promised, Seen, c
<1> QED BY <1>1, <1>2, <1>3 DEF ApType, ArmingStates

(* What RcFrame makes of the history is what the promise needs to see.     *)
LEMMA FrameSeen ==
  ASSUME NEW b, NEW s \in Sticks, NEW g \in Nat, NEW up, ARMING \in {"yaw", "switch"},
         Promised(ap, gesture), b.motors_on => ap.motors_on,
         g = IF ap.motors_on /\ ~b.motors_on THEN 0 ELSE gesture,
         ARMING = "yaw" => ap'.mode # AP_MODE_FAILSAFE
  PROVE  Seen(b, g, GestureAfter(s), s)
<1> DEFINE h == GestureAfter(s)
<1>0. gesture \in Nat /\ ARMING_DELAY \in Nat \ {0, 1} /\ g <= gesture
  BY AutopilotAssumption DEF Promised
<1>1. CASE ARMING = "yaw"
  <2>1. h = IF YawGesture(s)
            THEN (IF gesture < ARMING_DELAY THEN gesture + 1 ELSE gesture)
            ELSE IF gesture >= ARMING_DELAY /\ ~ap.motors_on THEN gesture ELSE 0
    BY <1>1 DEF GestureAfter, Gesture
  <2>2. ASSUME g >= ARMING_DELAY, ~b.motors_on
        PROVE  gesture >= ARMING_DELAY /\ ~ap.motors_on
    BY <1>0, <2>2
  <2> HIDE DEF h
  <2>3. h \in Nat
    BY <1>0, <2>1
  <2>4. YawGesture(s) => h > g \/ h >= ARMING_DELAY
    BY <1>0, <2>1
  <2>5. g >= ARMING_DELAY /\ ~b.motors_on => h >= ARMING_DELAY
    BY <1>0, <2>1, <2>2
  <2> QED BY <1>1, <2>3, <2>4, <2>5 DEF Seen, h
<1>2. CASE ARMING = "switch"
  <2>1. h = IF (s.throttle_down /\ s.centered /\ ~s.kill_switch) \/ (gesture = 1 /\ ~ap.motors_on)
            THEN 1 ELSE 0
    BY <1>2 DEF GestureAfter, Gesture
  <2>2. gesture \in {0, 1}
    BY <1>2 DEF Promised
  <2>3. ASSUME g >= 1, ~b.motors_on
        PROVE  gesture = 1 /\ ~ap.motors_on
    BY <1>0, <2>2, <2>3
  <2> HIDE DEF h
  <2> QED BY <1>2, <2>1, <2>3 DEF Seen, h
<1> QED BY <1>1, <1>2

(* autopilot_on_rc_frame keeps the promise, and starts the motors only     *)
(* when it was kept.                                                       *)
LEMMA FramePromise ==
  ASSUME IInv, Promised(ap, gesture), ARMING # "throttle",
         NEW s \in Sticks, RcFrame(s)
  PROVE  /\ Promised(ap', GestureAfter(s))
         /\ ~ap.motors_on /\ ap'.motors_on => gesture >= Needed
<1> DEFINE b == RcMode(ap, aligned, gps_lost, s)
           c == ArmingCheck(b, s)
           d == [c EXCEPT !.kill_throttle = ~c.motors_on]
           up == ~s.throttle_down
           r == CheckInFlight(d, up)
           g == IF ap.motors_on /\ ~b.motors_on THEN 0 ELSE gesture
           h == GestureAfter(s)
<1>0. /\ aligned \in BOOLEAN /\ Good(ap, aligned) /\ gps_lost \in BOOLEAN
      /\ ap \in ApType /\ CounterInv(ap) /\ ARMING \in {"yaw", "switch"}
      /\ gesture \in Nat /\ ARMING_DELAY \in Nat \ {0, 1}
  BY AutopilotAssumption DEF IInv, aligned, Good, Promised
<1>1. Good(b, aligned) /\ (b.motors_on => ap.motors_on) /\ Outside(ap, b)
  <2>1. ModeOfSwitch(ap, s) \in Modes
    <3>1. ModeOfSwitch(ap, s) \in {ap.mode_auto2, MODE_AUTO1, MODE_MANUAL}
      BY Zenon DEF ModeOfSwitch
    <3> QED BY <1>0, <3>1, AutopilotAssumption DEF ApType
  <2>2. AP_MODE_KILL \in Modes
    BY DEF Modes, AP_MODE_KILL
  <2>3. Outside(ap, ap)
    BY DEF Outside, SameArming
  <2> QED BY <1>0, <2>1, <2>2, <2>3, SetModeKeeps, SetModeOutside DEF RcMode
<1>2. ap' = IF b.mode > AP_MODE_FAILSAFE THEN r ELSE b
  BY DEF RcFrame, OnRcFrame, RcMotors
<1> HIDE DEF b, up
<1>3. b \in ApType /\ CounterInv(b) /\ b.mode \in Modes /\ b.motors_on \in BOOLEAN
  BY <1>1 DEF Good, ApType
<1>4. Promised(b, g) /\ g \in Nat /\ g <= gesture
  BY <1>0, <1>1, OutsidePromise
<1>5. c \in ApType /\ c.mode = b.mode
  BY <1>1, <1>3, ArmingCheckKeeps, ArmingCheckFrame DEF Good, SameModes
<1> HIDE DEF c
<1>6. d \in ApType /\ SameArming(c, d) /\ d.mode = c.mode
  BY <1>5 DEF ApType, SameArming
<1> HIDE DEF d
<1>7. SameArming(c, r) /\ r.mode = b.mode
  BY <1>5, <1>6, CheckInFlightOutside DEF SameArming
<1> HIDE DEF r
<1>8. ap'.mode = b.mode
  BY <1>2, <1>7
<1> HIDE DEF g
<1>9. ARMING = "yaw" /\ b.mode # AP_MODE_FAILSAFE => Seen(b, g, h, s)
  BY <1>0, <1>1, <1>4, <1>8, FrameSeen DEF g
<1>10. ARMING = "switch" => Seen(b, g, h, s)
  BY <1>0, <1>1, <1>4, FrameSeen DEF g
<1>11. CASE b.mode > AP_MODE_FAILSAFE
  <2>1. b.mode # AP_MODE_FAILSAFE
    BY <1>3, <1>11 DEF Modes, AP_MODE_FAILSAFE
  <2>2. Seen(b, g, h, s)
    BY <1>0, <1>9, <1>10, <2>1
  <2> HIDE DEF h
  <2>3. Promised(c, h) /\ (c.motors_on /\ ~b.motors_on => g >= Needed)
    <3>1. CASE ARMING = "yaw" /\ b.mode = AP_MODE_KILL
      <4>1. c = b
        BY <3>1 DEF c, ArmingCheck, AP_MODE_KILL
      <4> QED BY <1>4, <2>2, <3>1, <4>1 DEF Promised, Seen
    <3>2. CASE ARMING = "yaw" /\ b.mode # AP_MODE_KILL
      <4>1. c = ArmingCheckYaw(b, s)
        BY <1>3, <1>11, <3>2 DEF c, ArmingCheck, AP_MODE_KILL, AP_MODE_FAILSAFE, Modes
      <4> QED BY <1>3, <1>4, <2>2, <3>2, <4>1, YawPromise DEF Needed
    <3>3. CASE ARMING = "switch"
      <4>1. c = ArmingCheckSwitch(b, s)
        BY <3>3 DEF c, ArmingCheck
      <4> QED BY <1>3, <1>4, <2>2, <3>3, <4>1, SwitchPromise DEF Needed
    <3> QED BY <1>0, <3>1, <3>2, <3>3
  <2>4. Promised(r, h)
    BY <1>5, <1>7, <2>3 DEF Promised, SameArming
  <2>5. ~ap.motors_on /\ r.motors_on => gesture >= Needed
    <3>1. g >= Needed => gesture >= Needed
      BY <1>0, <1>4 DEF Needed
    <3> QED BY <1>1, <1>7, <2>3, <3>1 DEF SameArming
  <2> QED BY <1>2, <1>11, <2>4, <2>5 DEF h
<1>12. CASE ~(b.mode > AP_MODE_FAILSAFE)
  <2>1. ap' = b /\ b.mode = AP_MODE_FAILSAFE
    BY <1>2, <1>3, <1>12 DEF Modes, AP_MODE_FAILSAFE
  <2>2. Promised(b, h)
    <3>1. CASE ARMING = "yaw"
      <4>1. h = gesture
        BY <2>1, <3>1 DEF GestureAfter
      <4> HIDE DEF h
      <4>2. b.arming_counter \in Nat
        BY <1>0, <1>3 DEF ApType
      <4> QED BY <1>0, <1>4, <3>1, <4>1, <4>2 DEF Promised
    <3>2. CASE ARMING = "switch"
      <4>1. Seen(b, g, h, s)
        BY <1>10, <3>2
      <4> HIDE DEF h
      <4> QED BY <1>4, <3>2, <4>1 DEF Promised, Seen
    <3> QED BY <1>0, <3>1, <3>2
  <2> QED BY <1>1, <2>1, <2>2 DEF h
<1> QED BY <1>11, <1>12

(* The promise is inductive, and a frame that starts the motors finds it   *)
(* kept.                                                                   *)
LEMMA GestureStep ==
  ASSUME IInv, Promised(ap, gesture), ARMING # "throttle", [MCNext]_mcvars
  PROVE  /\ Promised(ap, gesture)'
         /\ (\E s \in Sticks : RcFrame(s)) /\ ~ap.motors_on /\ ap'.motors_on =>
              gesture' >= Needed
<1> DEFINE Start == (\E s \in Sticks : RcFrame(s)) /\ ~ap.motors_on /\ ap'.motors_on
<1>0. gesture \in Nat /\ ARMING_DELAY \in Nat \ {0, 1} /\ ARMING \in {"yaw", "switch"}
  BY AutopilotAssumption DEF Promised
<1>1. Start => gesture >= Needed
  BY FramePromise
<1>2. ASSUME NEW s \in Sticks, MCRcFrame(s)
      PROVE  Promised(ap', gesture') /\ (Start => gesture' >= Needed)
  <2>1. RcFrame(s) /\ gesture' = GestureAfter(s)
    BY <1>2 DEF MCRcFrame
  <2>2. ~ap.motors_on /\ gesture >= Needed => GestureAfter(s) >= Needed
    <3>1. CASE ARMING = "yaw"
      BY <1>0, <3>1 DEF GestureAfter, Needed
    <3>2. CASE ARMING = "switch"
      <4> gesture \in {0, 1}
        BY <3>2 DEF Promised
      <4> QED BY <3>2 DEF GestureAfter, Needed
    <3> QED BY <1>0, <3>1, <3>2
  <2> QED BY <1>1, <2>1, <2>2, FramePromise
<1>3. CASE MCOther
  <2>1. Others /\ gesture' = IF ap.motors_on /\ ~ap'.motors_on THEN 0 ELSE gesture
    BY <1>3 DEF MCOther, Others
  <2>2. Outside(ap, ap')
    BY <2>1, OthersOutside
  <2>3. Promised(ap', gesture')
    BY <2>1, <2>2, OutsidePromise
  <2> QED BY <1>1, <2>1, <2>3
<1>4. CASE UNCHANGED mcvars
  BY <1>1, <1>4 DEF mcvars
<1> QED BY <1>2, <1>3, <1>4 DEF MCNext

(* autopilot_init promises nothing.                                        *)
LEMMA GestureInit == MCInit => Promised(ap, gesture)
<1> SUFFICES ASSUME MCInit
             PROVE  Promised(ap, gesture)
  OBVIOUS
<1>1. /\ aligned \in BOOLEAN /\ AP_MODE_NAV \in Modes /\ gesture = 0
      /\ ap = SetMode(ApReset, aligned, AP_MODE_NAV)
  BY AutopilotAssumption DEF MCInit, Init, aligned, Modes, AP_MODE_NAV
<1>2. ApReset \in ApType /\ CounterInv(ApReset)
  BY ResetTyped
<1>3. Promised(ApReset, 0) /\ ~ApReset.motors_on
  BY DEF ApReset, Promised, ArmingInit, AP_MODE_KILL, AP_MODE_NAV
<1>4. Outside(ApReset, ap)
  BY <1>1, <1>2, SetModeOutside
<1> QED BY <1>1, <1>3, <1>4, OutsidePromise

(* With its history the autopilot is the autopilot.                        *)
LEMMA HistoryIsAutopilot == MCSpec => Spec
<1>1. MCInit => Init
  BY DEF MCInit
<1>2. [MCNext]_mcvars => [Next]_vars
  BY DEF MCNext, MCRcFrame, MCOther, Next, mcvars, vars
<1> QED BY <1>1, <1>2, PTL DEF MCSpec, Spec

(* With the yaw and the kill-switch header no frame starts the motors      *)
(* before the pilot has made the whole gesture since they last ran,        *)
(* whatever kills, modes, failsafes and settings come in between.  The     *)
(* throttle header does not keep to it.                                    *)
THEOREM StartsAfterGesture ==
  ASSUME ARMING # "throttle"
  PROVE  MCSpec => StartNeedsGesture
<1> DEFINE Start == (\E s \in Sticks : RcFrame(s)) /\ ~ap.motors_on /\ ap'.motors_on
           Promise == Promised(ap, gesture)
<1>1. IInv /\ Promise /\ [MCNext]_mcvars =>
        Promise' /\ [Start => gesture' >= (IF ARMING = "yaw" THEN ARMING_DELAY ELSE 1)]_mcvars
  BY GestureStep DEF Needed
<1>2. MCInit => Promise
  BY GestureInit
<1>3. MCSpec => []IInv
  BY HistoryIsAutopilot, Inductive, PTL
<1> HIDE DEF Promise
<1> QED BY <1>1, <1>2, <1>3, PTL DEF MCSpec, StartNeedsGesture

(* The whole aircraft is that autopilot with its history: its flight plan  *)
(* and swarm module do what the autopilot is ready for.                    *)
LEMMA AircraftHistory == MCRotorcraftSpec => MCSpec
<1>1. MCRotorcraftInit => MCInit
  BY DEF MCRotorcraftInit, RotorcraftInit, MCInit
<1>2. ASSUME [MCRotorcraftNext]_mcRotorcraftVars
      PROVE  [MCNext]_mcvars
  <2>1. ASSUME NEW s \in MCSticks, MCRc(s)
        PROVE  MCNext
    <3> s \in Sticks /\ MCRcFrame(s)
      BY <2>1 DEF MCSticks, MCRc, MCRcFrame
    <3> QED BY DEF MCNext
  <2>2. CASE MCHandlers
    BY <2>2 DEF MCHandlers, AutopilotHandlers, GestureKept, MCOther, MCNext
  <2>3. ASSUME MCControlPeriodic \/ \E met \in BOOLEAN : MCNavPeriodic(met)
        PROVE  MCNext
    <3>1. AutopilotPeriodic
      BY <2>3, RunIsPeriodic DEF MCControlPeriodic, MCNavPeriodic
    <3>2. gesture' = GestureKept
      BY <2>3 DEF MCControlPeriodic, MCNavPeriodic
    <3> QED BY <3>1, <3>2 DEF GestureKept, MCOther, MCNext
  <2>4. CASE MCSwarm
    <3>1. (\E m \in {AP_MODE_KILL, AP_MODE_NAV} : SwarmAckMode(m)) \/ UNCHANGED vars
      BY <2>4, SwarmIsAck DEF MCSwarm
    <3>2. gesture' = GestureKept
      BY <2>4 DEF MCSwarm
    <3>3. CASE UNCHANGED vars
      <4> gesture' = gesture
        BY <3>2, <3>3 DEF GestureKept, vars
      <4> QED BY <3>3 DEF vars, mcvars
    <3>4. CASE \E m \in {AP_MODE_KILL, AP_MODE_NAV} : SwarmAckMode(m)
      BY <3>2, <3>4 DEF GestureKept, MCOther, MCNext
    <3> QED BY <3>1, <3>3, <3>4
  <2>5. CASE UNCHANGED mcRotorcraftVars
    BY <2>5 DEF mcRotorcraftVars, rotorcraftVars, mcvars
  <2> QED BY <1>2, <2>1, <2>2, <2>3, <2>4, <2>5 DEF MCRotorcraftNext
<1> QED BY <1>1, <1>2, PTL DEF MCRotorcraftSpec, MCSpec

(* So its motors, too, start on a frame only after the gesture.            *)
THEOREM AircraftStartsAfterGesture ==
  ASSUME ARMING # "throttle"
  PROVE  MCRotorcraftSpec => StartNeedsGesture
BY AircraftHistory, StartsAfterGesture, PTL
=============================================================================
