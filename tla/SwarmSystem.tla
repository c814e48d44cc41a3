---------------------------- MODULE SwarmSystem ----------------------------
(***************************************************************************)
(* The swarm: the ground station (module GroundStation), the quadcopters   *)
(* (module QuadSwarm) and the radio link between them (module SwarmLink).  *)
(***************************************************************************)
EXTENDS QuadSwarm, GroundStation

CONSTANT START   \* where the quads may be when the ground station is started

ASSUME SwarmSystemAssumption == START \subseteq {"ground", "negotiated", "engine", "flying"}

vars == <<quad, gcs, up, down>>

Init ==
  /\ LinkInit
  /\ \E s \in START : quad = [q \in Quads |-> QuadAt[s]]
  /\ gcs \in GcsStarts

Airborne(q) == SwarmPeriodic(q) \/ Deliver(q) \/ FlightPlan(q) \/ PilotMode(q)

Job == ScanQuad \/ GoTarget \/ SendQuad

Press == (\E j \in BUTTONS : PressWait(j)) \/ (\E d \in DIRECTIONS : PressGo(d)) \/ PressExecute

Next ==
  \/ /\ \E q \in Quads : Airborne(q)
     /\ UNCHANGED gcs
  \/ /\ \E q \in Quads : LoseDown(q) \/ LoseUp(q)
     /\ UNCHANGED <<quad, gcs>>
  \/ /\ Press \/ Job \/ TwoSeconds \/ GcsRestart \/ (\E q \in Quads : HandleReport(q))
     /\ UNCHANGED quad

Spec == Init /\ [][Next]_vars

(* The quads' loops and the ground station's threads run on; a message     *)
(* that is sent again and again is received.                               *)
Fairness ==
  /\ WF_vars(Job /\ UNCHANGED quad)
  /\ WF_vars(TwoSeconds /\ UNCHANGED quad)
  /\ \A q \in Quads :
       /\ WF_vars(SwarmPeriodic(q) /\ UNCHANGED gcs)
       /\ WF_vars(FlightPlan(q) /\ UNCHANGED gcs)
       /\ SF_vars(Deliver(q) /\ UNCHANGED gcs)
       /\ SF_vars(HandleReport(q) /\ UNCHANGED quad)

FairSpec == Spec /\ Fairness

(* wait_all_quads(SWARM_EXEC_CMD) restarts its two seconds after a message *)
(* to any quad, so a quad gets one only when they run out at its turn.     *)
(* The loop spins and the clock does not know at which quad it is: they    *)
(* run out at each quad's turn now and again.                              *)
ClockFairness ==
  \A q \in Quads :
    SF_vars(TwoSeconds /\ gcs.pc = "send" /\ gcs.at = q /\ UNCHANGED quad)

FairClockSpec == FairSpec /\ ClockFairness
-----------------------------------------------------------------------------
TypeOK ==
  /\ quad \in [Quads -> QuadType]
  /\ gcs \in GcsType
  /\ \A q \in Quads : Len(down[q]) <= DOWN_CAP /\ Len(up[q]) <= UP_CAP

(* The round as module SwarmRound sees it.                                 *)
Moved == {SWARM_EXEC_CMD, SWARM_REPORT_STATE}

RoundPhase ==
  IF gcs.wait = SWARM_EXEC_CMD /\ \E q \in Quads : quad[q].swarm \in Moved
  THEN "execute" ELSE "collect"

RoundState ==
  [q \in Quads |->
     CASE quad[q].swarm = SWARM_WAIT_EXEC_ACK                      -> "holding"
       [] quad[q].swarm \in Moved /\ RoundPhase = "execute"        -> "moved"
       [] quad[q].swarm \in {SWARM_LANDHERE, SWARM_LANDED}          -> "gone"
       [] OTHER                                                    -> "free"]

Round == INSTANCE SwarmRound WITH phase <- RoundPhase, st <- RoundState

(* go_..._thread and send_exec_cmd_ack_thread together run the rounds of   *)
(* module SwarmRound: no quad moves before every one has taken its target, *)
(* and no new round begins before all have moved.  The threads decide by   *)
(* reports that are old and repeat messages that may have arrived.         *)
ImplementsRound == Round!Spec

Executes(q) == quad[q].swarm # SWARM_EXEC_CMD /\ quad'[q].swarm = SWARM_EXEC_CMD

(* Each quad but the leader flies to the position computed for it in the   *)
(* round under way, whatever was lost, repeated or late.                   *)
FollowersOwnTarget ==
  [][ \A q \in Quads \ {LEADER} : Executes(q) => quad'[q].waypoint = gcs.target[q] ]_vars

(* Restarts of the ground station and pilots who take their quad out of    *)
(* NAV break rounds off; even then no quad starts to move while another is *)
(* still without any target, and none but the leader has another's target  *)
(* as its waypoint.                                                        *)
NoneLeftBehind ==
  [][ \A q, r \in Quads : Executes(q) => quad[r].swarm # SWARM_WAIT_CMD_TAKEOFF ]_vars

OwnWaypoint ==
  \A q \in Quads \ {LEADER} : quad[q].waypoint.owner \in {0, q}

(* Once "land here" has begun in a quad, no late target or execute         *)
(* acknowledgement takes it back into a round.                             *)
LandingStands ==
  [][ \A q \in Quads :
        /\ quad[q].block \in {BLOCK_ID_LAND_HERE, 12, 13}
        /\ quad'[q].swarm \in {SWARM_WAIT_EXEC_ACK, SWARM_EXEC_CMD}
        => quad'[q].swarm = quad[q].swarm ]_vars

(* A quad flies only to a target computed from the reference the leader    *)
(* gave when the negotiation was ended: no path of states and buttons      *)
(* leads a quad to its first target around that of end_negotiate_thread.   *)
TargetReferenced ==
  \A q \in Quads : quad[q].waypoint # NoTarget => quad[q].waypoint.referenced

(* While no pilot interferes, no go or execute thread waits for ever with  *)
(* GCS_busy and XBEE_WRITE locked, whatever the link loses.                *)
RoundEnds == gcs.job \in {"go", "execute"} ~> gcs.job = "none"

(* The same of the two steps on the ground, once the quads are in the      *)
(* states that lead to the one the thread waits for.                       *)
AllIn(states) == \A q \in Quads : quad[q].nav /\ quad[q].swarm \in states

NegotiationEnds ==
  /\ (gcs.job = "end_negotiate" /\ AllIn({SWARM_NEGOTIATE_REF, SWARM_WAIT_CMD}))
       ~> gcs.job = "none"
  /\ (gcs.job = "start_engine" /\ AllIn({SWARM_WAIT_CMD, SWARM_WAIT_CMD_START_ENGINE}))
       ~> gcs.job = "none"

-----------------------------------------------------------------------------
(* Statements of the ground station's comments that it does not keep.      *)

(* Ground_Station.cpp:326 "Ensure every quadcopters have received the      *)
(* command": when the go thread ends its wait each quad, the leader        *)
(* included, holds the target computed for it.                             *)
GoDelivers ==
  [][ gcs.job = "go" /\ gcs.wait = SWARM_WAIT_EXEC_ACK /\ gcs'.job = "none" =>
        \A q \in Quads : quad[q].target = gcs.target[q] ]_vars

(* Ground_Station.cpp:734 "all quadcopters should be in state              *)
(* SWARM_WAIT_CMD_TAKEOFF 4, from SWARM_WAIT_START_ENGINE 3": the take-off *)
(* thread, started when all have their engines on, brings them there.      *)
TakeoffEnds ==
  (gcs.job = "takeoff" /\ AllIn({SWARM_WAIT_CMD_START_ENGINE}))
    ~> AllIn({SWARM_WAIT_CMD_TAKEOFF})
=============================================================================
