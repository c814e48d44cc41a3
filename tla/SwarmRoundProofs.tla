-------------------------- MODULE SwarmRoundProofs --------------------------
(***************************************************************************)
(* The rounds of a swarm in flight, for every number of quads, leader,     *)
(* link and set of directions: the quads wait for their first target and   *)
(* the operator uses the go, execute and land-here buttons only.           *)
(*                                                                         *)
(* A ground station that decides by reports, which are old, keeps the      *)
(* quads together because of what each wait of its threads has made of     *)
(* the reports and of the messages on their way when it ends.  The         *)
(* invariant says in which states the quads, their reports under way and   *)
(* the ground station's table can be during each wait and between them,    *)
(* in which order they follow one another, and which messages can still    *)
(* be found before or behind which.                                        *)
(***************************************************************************)
EXTENDS SwarmProofs

RoundsOnly  == START = {"flying"} /\ BUTTONS \subseteq {"go", "execute", "land_here"}
Undisturbed == PILOT = FALSE /\ RESTARTS = FALSE

(* The sets of states that the rounds distinguish; Moved is SwarmSystem's. *)
Free     == {SWARM_KILLED, SWARM_WAIT_CMD_TAKEOFF}
Holding  == {SWARM_WAIT_EXEC_ACK}
Landed   == {SWARM_LANDHERE, SWARM_LANDED}
InFlight == Free \cup Holding \cup Moved \cup Landed

FlightBlocks == {5, BLOCK_ID_LAND_HERE, 12, 13}

IsTarget(m) == m.type = "quad_swarm_msg"
IsAck(m)    == m.type = "quad_swarm_ack_forwarded"
IsBlock(m)  == m.type = "block"

FlightMessages ==
  {Ack(ACK_EXEC), Block(BLOCK_ID_LAND_HERE)} \cup {Target(t) : t \in Targets}

(* Which thread waits for which state, and looks for which while it scans. *)
Control(g) ==
  /\ g.job \in {"none", "go", "execute", "land_here"}
  /\ g.pc = "idle" <=> g.job = "none"
  /\ g.pc = "idle" => g.wait = NONE
  /\ g.pc = "targets" => g.job = "go" /\ g.wait = NONE
  /\ g.pc = "send" => g.wait # NONE
  /\ g.wait \in {NONE, SWARM_WAIT_EXEC_ACK, SWARM_EXEC_CMD, SWARM_LANDED}
  /\ g.wait = SWARM_WAIT_EXEC_ACK => g.job = "go"
  /\ g.wait = SWARM_EXEC_CMD => g.job = "execute"
  /\ g.wait = SWARM_LANDED <=> g.job = "land_here"
  /\ g.pc = "scan" =>
       /\ g.wait = NONE /\ g.job = "go" => g.goal \in {SWARM_WAIT_CMD_TAKEOFF, SWARM_REPORT_STATE}
       /\ g.wait = NONE /\ g.job = "execute" => g.goal = SWARM_WAIT_EXEC_ACK
       /\ g.wait = SWARM_EXEC_CMD => g.goal \in Moved
       /\ g.wait \in {SWARM_WAIT_EXEC_ACK, SWARM_LANDED} => g.goal = g.wait

QuadFlies(q) ==
  /\ quad[q].swarm \in InFlight /\ quad[q].block \in FlightBlocks
  /\ gcs.cached[q] \in InFlight
  /\ \A i \in 1..Len(down[q]) : down[q][i] \in FlightMessages
  /\ \A i \in 1..Len(up[q]) : up[q][i] \in InFlight

FlightInv == Control(gcs) /\ \A q \in Quads : QuadFlies(q)
-----------------------------------------------------------------------------
(* The numbers behind the names.                                           *)
LEMMA Numbers ==
  /\ SWARM_INIT = 0 /\ SWARM_NEGOTIATE_REF = 1 /\ SWARM_WAIT_CMD = 2
  /\ SWARM_WAIT_CMD_START_ENGINE = 3 /\ SWARM_WAIT_CMD_TAKEOFF = 4 /\ SWARM_WAIT_EXEC_ACK = 5
  /\ SWARM_EXEC_CMD = 6 /\ SWARM_REPORT_STATE = 7 /\ SWARM_LANDHERE = 8 /\ SWARM_LANDED = 9
  /\ SWARM_KILLED = 10 /\ NONE = 99 /\ BLOCK_ID_LAND_HERE = 11
BY DEF SWARM_INIT, SWARM_NEGOTIATE_REF, SWARM_WAIT_CMD, SWARM_WAIT_CMD_START_ENGINE,
   SWARM_WAIT_CMD_TAKEOFF, SWARM_WAIT_EXEC_ACK, SWARM_EXEC_CMD, SWARM_REPORT_STATE,
   SWARM_LANDHERE, SWARM_LANDED, SWARM_KILLED, NONE, BLOCK_ID_LAND_HERE

(* The states of a flight are swarm states.                                *)
LEMMA InFlightStates ==
  InFlight = {4, 5, 6, 7, 8, 9, 10} /\ InFlight \subseteq SwarmStates
BY Numbers DEF InFlight, Free, Holding, Moved, Landed, SwarmStates

(* The three kinds of message.                                             *)
LEMMA Kinds ==
  /\ \A t \in Targets : IsTarget(Target(t)) /\ Target(t).target = t
                        /\ ~IsAck(Target(t)) /\ ~IsBlock(Target(t))
  /\ IsAck(Ack(ACK_EXEC)) /\ ~IsTarget(Ack(ACK_EXEC)) /\ ~IsBlock(Ack(ACK_EXEC))
  /\ LET b == Block(BLOCK_ID_LAND_HERE) IN IsBlock(b) /\ ~IsTarget(b) /\ ~IsAck(b)
  /\ \A m \in FlightMessages : IsTarget(m) => \E t \in Targets : m = Target(t)
BY DEF IsTarget, IsAck, IsBlock, Target, Ack, Block, FlightMessages

(* A channel after its first message was taken.                            *)
LEMMA TailAt ==
  ASSUME NEW S, NEW c \in Seq(S), c # <<>>
  PROVE  /\ Len(c) \in Nat \ {0} /\ Len(Tail(c)) = Len(c) - 1 /\ Head(c) = c[1]
         /\ \A i \in 1..Len(Tail(c)) : i + 1 \in 1..Len(c) /\ Tail(c)[i] = c[i + 1]
BY HeadTailProperties

(* A channel after a message was put on it, unless it was full.            *)
LEMMA PutAt ==
  ASSUME NEW S, NEW c \in Seq(S), NEW m \in S, NEW cap
  PROVE  \/ Put(c, m, cap) = c
         \/ /\ Len(Put(c, m, cap)) = Len(c) + 1
            /\ Put(c, m, cap)[Len(c) + 1] = m
            /\ \A i \in 1..Len(c) : Put(c, m, cap)[i] = c[i]
BY AppendProperties DEF Put

(* Channels are sequences, quads are records.                              *)
LEMMA Shapes ==
  ASSUME IInv
  PROVE  /\ quad \in [Quads -> QuadType] /\ gcs \in GcsType /\ GcsOK(gcs)
         /\ \A q \in Quads : /\ down[q] \in Seq(MessagesTo(q)) /\ up[q] \in Seq(SwarmStates)
                             /\ Len(down[q]) \in Nat /\ Len(up[q]) \in Nat
         /\ down = [q \in Quads |-> down[q]] /\ up = [q \in Quads |-> up[q]]
<1>1. \A q \in Quads : down[q] \in Seq(MessagesTo(q)) /\ up[q] \in Seq(SwarmStates)
  BY DEF IInv, DownsOK, DownOK, UpsOK, UpOK
<1>2. \A q \in Quads : Len(down[q]) \in Nat /\ Len(up[q]) \in Nat
  BY <1>1, LenProperties
<1> QED BY <1>1, <1>2 DEF IInv, QuadsOK, DownsOK, UpsOK, GcsOK
-----------------------------------------------------------------------------
(* What the airborne handlers do to a quad in flight.                      *)

(* The state quad_swarm_periodic reports, and the one it leaves.           *)
ReportOf(x) ==
  IF x.block = BLOCK_ID_LAND_HERE THEN SWARM_LANDHERE
  ELSE IF x.block = 12 THEN SWARM_LANDED ELSE IF x.nav THEN x.swarm ELSE SWARM_KILLED

AfterReport(s) == IF s = SWARM_EXEC_CMD THEN SWARM_REPORT_STATE ELSE s

OthersKept(q) ==
  \A r \in Quads \ {q} : quad'[r] = quad[r] /\ down'[r] = down[r] /\ up'[r] = up[r]

SameBut(q, fields) ==
  /\ "swarm" \in fields \/ quad'[q].swarm = quad[q].swarm
  /\ "block" \in fields \/ quad'[q].block = quad[q].block
  /\ "nav" \in fields \/ quad'[q].nav = quad[q].nav
  /\ "target" \in fields \/ quad'[q].target = quad[q].target
  /\ "waypoint" \in fields \/ quad'[q].waypoint = quad[q].waypoint

(* quad_swarm_periodic reports a state and, if it was EXEC_CMD, goes on.   *)
LEMMA PeriodicFacts ==
  ASSUME IInv, NEW q \in Quads, QuadFlies(q), SwarmPeriodic(q)
  PROVE  /\ quad'[q].swarm = AfterReport(ReportOf(quad[q]))
         /\ SameBut(q, {"swarm", "target"}) /\ (quad[q].nav => SameBut(q, {"swarm"}))
         /\ up'[q] = Reported(up[q], ReportOf(quad[q])) /\ ReportOf(quad[q]) \in InFlight
         /\ OthersKept(q) /\ down' = down
<1> DEFINE x == Sampled(quad[q])
           y == IF quad[q].nav THEN quad[q] ELSE SwarmInit(quad[q])
<1>1. /\ quad' = [quad EXCEPT ![q] = [x EXCEPT !.swarm = SwarmNext(x)]]
      /\ up' = [up EXCEPT ![q] = Reported(up[q], x.swarm)] /\ down' = down
  BY DEF SwarmPeriodic
<1>2. quad[q] \in QuadType /\ quad \in [Quads -> QuadType] /\ up = [r \in Quads |-> up[r]]
  BY Shapes
<1>3. NoTarget \in Targets
  BY DEF Targets
<1>4. /\ y \in QuadType /\ y.block = quad[q].block /\ y.nav = quad[q].nav
      /\ y.waypoint = quad[q].waypoint /\ (quad[q].nav => y.target = quad[q].target)
      /\ y.swarm = IF quad[q].nav THEN quad[q].swarm ELSE SWARM_KILLED
  <2>1. /\ SwarmInit(quad[q]) \in QuadType /\ SwarmInit(quad[q]).swarm = SWARM_KILLED
        /\ SwarmInit(quad[q]).block = quad[q].block /\ SwarmInit(quad[q]).nav = quad[q].nav
        /\ SwarmInit(quad[q]).waypoint = quad[q].waypoint
    <3> HIDE DEF NoTarget
    <3> QED BY <1>2, <1>3, StatesKnown DEF SwarmInit, QuadType
  <2> QED BY <1>2, <2>1
<1>5. x = CASE quad[q].block = BLOCK_ID_LAND_HERE -> [y EXCEPT !.swarm = SWARM_LANDHERE]
            [] quad[q].block = 12                 -> [y EXCEPT !.swarm = SWARM_LANDED]
            [] OTHER                              -> y
  BY DEF Sampled
<1> HIDE DEF x, y
<1>6. /\ x \in QuadType /\ x.block = quad[q].block /\ x.nav = quad[q].nav
      /\ x.waypoint = quad[q].waypoint /\ (quad[q].nav => x.target = quad[q].target)
      /\ x.swarm = ReportOf(quad[q])
  <2>1. \A s \in SwarmStates :
          LET z == [y EXCEPT !.swarm = s]
          IN  z \in QuadType /\ z.block = y.block /\ z.nav = y.nav /\ z.swarm = s
              /\ z.waypoint = y.waypoint /\ z.target = y.target
    BY <1>4 DEF QuadType
  <2> QED BY <1>4, <1>5, <2>1, StatesKnown, Numbers DEF ReportOf
<1>7. ReportOf(quad[q]) \in InFlight
  BY InFlightStates, Numbers DEF QuadFlies, ReportOf
<1>8. SwarmNext(x) = AfterReport(x.swarm)
  BY <1>6, <1>7, InFlightStates, Numbers DEF SwarmNext, AfterReport
<1>9. AfterReport(x.swarm) \in SwarmStates
  BY <1>6, <1>7, InFlightStates, StatesKnown DEF AfterReport
<1>10. /\ quad'[q] = [x EXCEPT !.swarm = AfterReport(x.swarm)]
       /\ \A r \in Quads \ {q} : quad'[r] = quad[r] /\ up'[r] = up[r]
       /\ up'[q] = Reported(up[q], x.swarm)
  BY <1>1, <1>2, <1>8
<1>11. /\ quad'[q].swarm = AfterReport(x.swarm) /\ quad'[q].block = x.block /\ quad'[q].nav = x.nav
       /\ quad'[q].target = x.target /\ quad'[q].waypoint = x.waypoint
  BY <1>6, <1>9, <1>10 DEF QuadType
<1> QED BY <1>1, <1>6, <1>7, <1>10, <1>11 DEF OthersKept, SameBut

(* What the delivery of a message can do.                                  *)
Takes(q, t) ==
  /\ down[q][1] = Target(t) /\ quad[q].swarm \in {SWARM_WAIT_CMD_TAKEOFF, SWARM_REPORT_STATE}
  /\ quad'[q].swarm = SWARM_WAIT_EXEC_ACK /\ quad'[q].target = t
  /\ SameBut(q, {"swarm", "target"})

Starts(q) ==
  /\ down[q][1] = Ack(ACK_EXEC) /\ quad[q].swarm = SWARM_WAIT_EXEC_ACK
  /\ quad'[q].swarm = SWARM_EXEC_CMD /\ quad'[q].waypoint = quad[q].target
  /\ SameBut(q, {"swarm", "waypoint"})

Lands(q) ==
  /\ down[q][1] = Block(BLOCK_ID_LAND_HERE) /\ quad'[q].block = BLOCK_ID_LAND_HERE
  /\ SameBut(q, {"block"})

(* quad_swarm_datalink, quad_swarm_ack_datalink and DL_BLOCK, in flight.   *)
LEMMA DeliverFacts ==
  ASSUME IInv, NEW q \in Quads, QuadFlies(q), Deliver(q)
  PROVE  /\ down[q] # <<>> /\ down'[q] = Tail(down[q]) /\ up' = up /\ OthersKept(q)
         /\ (\E t \in Targets : Takes(q, t)) \/ Starts(q) \/ Lands(q) \/ quad'[q] = quad[q]
<1> DEFINE m == Head(down[q])
           x == CASE m.type = "quad_swarm_msg" -> OnTarget(quad[q], m.target)
                  [] m.type = "block"          -> OnBlock(quad[q], m.block)
                  [] OTHER                     -> OnAck(quad[q], m.ack)
<1>1. /\ quad' = [quad EXCEPT ![q] = x] /\ down[q] # <<>> /\ up' = up
      /\ down' = [down EXCEPT ![q] = Tail(down[q])]
  BY DEF Deliver
<1>2. /\ quad[q] \in QuadType /\ quad \in [Quads -> QuadType] /\ down = [r \in Quads |-> down[r]]
      /\ down[q] \in Seq(MessagesTo(q))
  BY Shapes
<1>3. m = down[q][1] /\ m \in FlightMessages
  BY <1>1, <1>2, TailAt DEF QuadFlies
<1> HIDE DEF m
<1>4. quad'[q] = x /\ OthersKept(q) /\ down'[q] = Tail(down[q])
  BY <1>1, <1>2 DEF OthersKept
<1>5. ASSUME NEW t \in Targets, m = Target(t) PROVE Takes(q, t) \/ quad'[q] = quad[q]
  <2>1. quad'[q] = OnTarget(quad[q], t)
    BY <1>4, <1>5 DEF Target
  <2>2. CASE quad[q].swarm \in {SWARM_WAIT_CMD_TAKEOFF, SWARM_REPORT_STATE}
    <3>1. quad'[q] = [quad[q] EXCEPT !.target = t, !.swarm = SWARM_WAIT_EXEC_ACK]
      BY <2>1, <2>2 DEF OnTarget
    <3>2. /\ quad'[q].swarm = SWARM_WAIT_EXEC_ACK /\ quad'[q].target = t
          /\ quad'[q].block = quad[q].block /\ quad'[q].nav = quad[q].nav
          /\ quad'[q].waypoint = quad[q].waypoint
      BY <1>2, <3>1, StatesKnown DEF QuadType
    <3> QED BY <1>3, <1>5, <2>2, <3>2 DEF Takes, SameBut
  <2>3. CASE quad[q].swarm \notin {SWARM_WAIT_CMD_TAKEOFF, SWARM_REPORT_STATE}
    BY <2>1, <2>3 DEF OnTarget
  <2> QED BY <2>2, <2>3
<1>6. ASSUME m = Ack(ACK_EXEC) PROVE Starts(q) \/ quad'[q] = quad[q]
  <2>1. quad'[q] = OnAck(quad[q], ACK_EXEC)
    BY <1>4, <1>6 DEF Ack
  <2>2. CASE quad[q].swarm = SWARM_WAIT_EXEC_ACK
    <3>1. quad'[q] = [quad[q] EXCEPT !.swarm = SWARM_EXEC_CMD, !.waypoint = quad[q].target]
      BY <2>1, <2>2 DEF OnAck, ACK_EXEC, ACK_REF, ACK_NAV, ACK_KILL
    <3>2. /\ quad'[q].swarm = SWARM_EXEC_CMD /\ quad'[q].target = quad[q].target
          /\ quad'[q].block = quad[q].block /\ quad'[q].nav = quad[q].nav
          /\ quad'[q].waypoint = quad[q].target
      BY <1>2, <3>1, StatesKnown DEF QuadType
    <3> QED BY <1>3, <1>6, <2>2, <3>2 DEF Starts, SameBut
  <2>3. CASE quad[q].swarm # SWARM_WAIT_EXEC_ACK
    BY <2>1, <2>3 DEF OnAck, ACK_EXEC, ACK_REF, ACK_NAV, ACK_KILL
  <2> QED BY <2>2, <2>3
<1>7. ASSUME m = Block(BLOCK_ID_LAND_HERE) PROVE Lands(q)
  <2>1. quad'[q] = [quad[q] EXCEPT !.block = BLOCK_ID_LAND_HERE]
    BY <1>4, <1>7 DEF Block, OnBlock
  <2>2. /\ quad'[q].swarm = quad[q].swarm /\ quad'[q].target = quad[q].target
        /\ quad'[q].block = BLOCK_ID_LAND_HERE /\ quad'[q].nav = quad[q].nav
        /\ quad'[q].waypoint = quad[q].waypoint
    BY <1>2, <2>1 DEF QuadType
  <2> QED BY <1>3, <1>7, <2>2 DEF Lands, SameBut
<1> QED BY <1>1, <1>3, <1>4, <1>5, <1>6, <1>7 DEF FlightMessages

(* The flight plan and the pilot change one field each.                    *)
LEMMA FlightPlanFacts ==
  ASSUME IInv, NEW q \in Quads, QuadFlies(q), FlightPlan(q)
  PROVE  /\ SameBut(q, {"block"}) /\ UNCHANGED <<up, down>> /\ OthersKept(q)
         /\ quad[q].block \in {BLOCK_ID_LAND_HERE, 12} /\ quad'[q].block \in {12, 13}
<1>1. quad[q] \in QuadType /\ quad \in [Quads -> QuadType]
  BY Shapes
<1>2. quad[q].block \in {11, 12} /\ FlightPlanNext[quad[q].block] \in {12, 13}
  BY Numbers DEF FlightPlan, FlightPlanNext, QuadFlies, FlightBlocks, BLOCK_ID_TAKE_OFF
<1> DEFINE b == FlightPlanNext[quad[q].block]
<1>3. quad' = [quad EXCEPT ![q] = [quad[q] EXCEPT !.block = b]] /\ UNCHANGED <<up, down>>
  BY <1>1 DEF FlightPlan
<1> HIDE DEF b
<1>4. quad'[q] = [quad[q] EXCEPT !.block = b] /\ \A r \in Quads \ {q} : quad'[r] = quad[r]
  BY <1>1, <1>3
<1>5. /\ quad'[q].swarm = quad[q].swarm /\ quad'[q].target = quad[q].target
      /\ quad'[q].block = b /\ quad'[q].nav = quad[q].nav
      /\ quad'[q].waypoint = quad[q].waypoint
  BY <1>1, <1>4 DEF QuadType
<1> QED BY <1>2, <1>3, <1>4, <1>5, Numbers DEF b, SameBut, OthersKept

(* The pilot, a failsafe: NAV only.                                        *)
LEMMA PilotModeFacts ==
  ASSUME IInv, NEW q \in Quads, PilotMode(q)
  PROVE  SameBut(q, {"nav"}) /\ UNCHANGED <<up, down>> /\ OthersKept(q)
<1>1. quad[q] \in QuadType /\ quad \in [Quads -> QuadType]
  BY Shapes
<1> DEFINE n == ~quad[q].nav
<1>2. quad' = [quad EXCEPT ![q] = [quad[q] EXCEPT !.nav = n]] /\ UNCHANGED <<up, down>>
  BY <1>1 DEF PilotMode
<1> HIDE DEF n
<1>3. quad'[q] = [quad[q] EXCEPT !.nav = n] /\ \A r \in Quads \ {q} : quad'[r] = quad[r]
  BY <1>1, <1>2
<1>4. /\ quad'[q].swarm = quad[q].swarm /\ quad'[q].target = quad[q].target
      /\ quad'[q].block = quad[q].block /\ quad'[q].waypoint = quad[q].waypoint
  BY <1>1, <1>3 DEF QuadType
<1> QED BY <1>2, <1>3, <1>4 DEF SameBut, OthersKept
-----------------------------------------------------------------------------
(* What the ground station's threads do.                                   *)

SameTables == gcs'.cached = gcs.cached /\ gcs'.target = gcs.target

SameJob == gcs'.job = gcs.job /\ gcs'.wait = gcs.wait

(* all_in_state starts at the first quad.                                  *)
LEMMA ScanFields ==
  ASSUME NEW g \in GcsType, NEW s \in SwarmStates
  PROVE  LET h == Scan(g, s)
         IN  /\ h.pc = "scan" /\ h.goal = s /\ h.at = 1 /\ h.job = g.job /\ h.wait = g.wait
             /\ h.cached = g.cached /\ h.target = g.target
BY DEF Scan, GcsType

(* So does wait_all_quads.                                                 *)
LEMMA WaitAllFields ==
  ASSUME NEW g \in GcsType, NEW s \in SwarmStates
  PROVE  LET h == WaitAll(g, s)
         IN  /\ h.pc = "scan" /\ h.goal = s /\ h.at = 1 /\ h.job = g.job /\ h.wait = s
             /\ h.cached = g.cached /\ h.target = g.target
BY DEF WaitAll, Scan, GcsType

(* The mutex is given back.                                                *)
LEMMA DoneFields ==
  ASSUME NEW g \in GcsType
  PROVE  LET h == Done(g)
         IN  /\ h.pc = "idle" /\ h.job = "none" /\ h.wait = NONE
             /\ h.cached = g.cached /\ h.target = g.target
BY DEF Done, GcsType

(* The loop that sends turns to a quad.                                    *)
LEMMA SendFromFields ==
  ASSUME NEW g \in GcsType, NEW q \in Quads
  PROVE  LET h == SendFrom(g, q)
         IN  /\ h.pc = "send" /\ h.at = q /\ h.job = g.job /\ h.wait = g.wait
             /\ h.cached = g.cached /\ h.target = g.target
BY DEF SendFrom, GcsType

(* The outcomes of one turn of all_in_state.                               *)
Agrees == gcs.cached[gcs.at] = gcs.goal
Passed == Agrees /\ gcs.at = QUAD_NB

ScansOn ==
  /\ Agrees /\ gcs.at < QUAD_NB /\ SameJob
  /\ gcs'.pc = "scan" /\ gcs'.goal = gcs.goal /\ gcs'.at = gcs.at + 1

LooksAgain ==
  /\ (gcs.job = "go" /\ gcs.wait = NONE) \/ gcs.wait = SWARM_EXEC_CMD
  /\ SameJob /\ gcs'.pc = "scan" /\ gcs'.goal = SWARM_REPORT_STATE /\ gcs'.at = 1

Computes ==
  /\ Passed /\ gcs.job = "go" /\ gcs.wait = NONE /\ SameJob /\ gcs'.pc = "targets"

Orders ==
  /\ Passed /\ gcs.job = "execute" /\ gcs.wait = NONE /\ gcs'.job = "execute"
  /\ gcs'.wait = SWARM_EXEC_CMD /\ gcs'.pc = "scan" /\ gcs'.goal = SWARM_EXEC_CMD /\ gcs'.at = 1

Ends ==
  /\ gcs.wait # NONE => Passed
  /\ gcs'.pc = "idle" /\ gcs'.job = "none" /\ gcs'.wait = NONE

Sends == gcs.wait # NONE /\ SameJob /\ gcs'.pc = "send"

(* There are no others.                                                    *)
LEMMA ScanQuadFacts ==
  ASSUME IInv, Control(gcs), ScanQuad
  PROVE  /\ gcs.pc = "scan" /\ SameTables /\ UNCHANGED <<up, down>>
         /\ ScansOn \/ LooksAgain \/ Computes \/ Orders \/ Ends \/ Sends
<1>1. gcs \in GcsType /\ gcs.at \in Quads
  BY Shapes DEF GcsType
<1>2. /\ gcs.pc = "scan" /\ UNCHANGED <<up, down>>
      /\ gcs' = IF Agrees /\ gcs.at < QUAD_NB THEN [gcs EXCEPT !.at = gcs.at + 1]
                                              ELSE AfterScan(gcs, Agrees)
  BY DEF ScanQuad, Agrees
<1>3. Agrees /\ ~(gcs.at < QUAD_NB) => Passed
  BY <1>1, SwarmLinkAssumption DEF Passed, Quads
<1>4. CASE Agrees /\ gcs.at < QUAD_NB
  <2>1. gcs' = [gcs EXCEPT !.at = gcs.at + 1]
    BY <1>2, <1>4
  <2>2. SameTables /\ ScansOn
    BY <1>1, <1>2, <1>4, <2>1 DEF GcsType, SameTables, ScansOn, SameJob
  <2> QED BY <1>2, <2>2
<1>5. CASE ~(Agrees /\ gcs.at < QUAD_NB) /\ gcs.wait = NONE
  <2>1. gcs' = AfterGuard(gcs, Agrees)
    BY <1>2, <1>5 DEF AfterScan
  <2>2. gcs.job \in {"go", "execute", "land_here"}
    BY <1>2 DEF Control
  <2>3. CASE gcs.job = "go" /\ Agrees
    <3>1. gcs' = [gcs EXCEPT !.pc = "targets", !.at = 1]
      BY <2>1, <2>3 DEF AfterGuard
    <3>2. SameTables /\ Computes
      BY <1>1, <1>3, <1>5, <2>3, <3>1 DEF GcsType, SameTables, Computes, SameJob
    <3> QED BY <1>2, <3>2
  <2>4. CASE gcs.job = "go" /\ ~Agrees /\ gcs.goal = SWARM_WAIT_CMD_TAKEOFF
    <3>1. gcs' = Scan(gcs, SWARM_REPORT_STATE)
      BY <2>1, <2>4 DEF AfterGuard
    <3>2. SameTables /\ LooksAgain
      BY <1>1, <1>5, <2>4, <3>1, ScanFields, StatesKnown DEF SameTables, LooksAgain, SameJob
    <3> QED BY <1>2, <3>2
  <2>5. CASE gcs.job = "execute" /\ Agrees
    <3>1. gcs' = WaitAll(gcs, SWARM_EXEC_CMD)
      BY <2>1, <2>5 DEF AfterGuard
    <3>2. SameTables /\ Orders
      BY <1>1, <1>3, <1>5, <2>5, <3>1, WaitAllFields, StatesKnown DEF SameTables, Orders
    <3> QED BY <1>2, <3>2
  <2>6. CASE /\ ~(gcs.job = "go" /\ Agrees)
             /\ ~(gcs.job = "go" /\ ~Agrees /\ gcs.goal = SWARM_WAIT_CMD_TAKEOFF)
             /\ ~(gcs.job = "execute" /\ Agrees)
    <3>1. gcs' = Done(gcs)
      BY <2>1, <2>6 DEF AfterGuard
    <3>2. SameTables /\ Ends
      BY <1>1, <1>5, <3>1, DoneFields DEF SameTables, Ends
    <3> QED BY <1>2, <3>2
  <2> QED BY <2>3, <2>4, <2>5, <2>6
<1>6. CASE ~(Agrees /\ gcs.at < QUAD_NB) /\ gcs.wait # NONE
  <2>1. gcs' = AfterWait(gcs, Agrees)
    BY <1>2, <1>6 DEF AfterScan
  <2>2. /\ gcs.wait \in {SWARM_WAIT_EXEC_ACK, SWARM_EXEC_CMD, SWARM_LANDED}
        /\ gcs.goal = SWARM_EXEC_CMD => gcs.wait = SWARM_EXEC_CMD
    BY <1>2, <1>6, Numbers DEF Control
  <2>3. CASE Agrees
    <3>1. gcs' = Done(gcs)
      BY <2>1, <2>2, <2>3, Numbers DEF AfterWait
    <3>2. SameTables /\ Ends
      BY <1>1, <1>3, <1>6, <2>3, <3>1, DoneFields DEF SameTables, Ends
    <3> QED BY <1>2, <3>2
  <2>4. CASE ~Agrees /\ gcs.goal = SWARM_EXEC_CMD
    <3>1. gcs' = Scan(gcs, SWARM_REPORT_STATE)
      BY <2>1, <2>2, <2>4, Numbers DEF AfterWait
    <3>2. SameTables /\ LooksAgain
      BY <1>1, <2>2, <2>4, <3>1, ScanFields, StatesKnown DEF SameTables, LooksAgain, SameJob
    <3> QED BY <1>2, <3>2
  <2>5. CASE ~Agrees /\ gcs.goal # SWARM_EXEC_CMD
    <3>1. gcs' = SendFrom(gcs, 1)
      BY <2>1, <2>2, <2>5, Numbers DEF AfterWait
    <3>2. SameTables /\ Sends
      BY <1>1, <1>6, <3>1, SendFromFields, FirstQuad DEF SameTables, Sends, SameJob
    <3> QED BY <1>2, <3>2
  <2> QED BY <2>3, <2>4, <2>5
<1> QED BY <1>4, <1>5, <1>6

(* The go thread computes one target and sends it to the leader.           *)
LEMMA GoTargetFacts ==
  ASSUME IInv, GoTarget
  PROVE  /\ gcs.pc = "targets" /\ gcs'.cached = gcs.cached /\ gcs'.job = gcs.job /\ up' = up
         /\ \E t \in Targets : down'[LEADER] = Sent(down[LEADER], Target(t))
         /\ \A r \in Quads \ {LEADER} : down'[r] = down[r]
         /\ \/ gcs'.pc = "targets" /\ gcs'.wait = gcs.wait
            \/ /\ gcs'.pc = "scan" /\ gcs'.wait = SWARM_WAIT_EXEC_ACK
               /\ gcs'.goal = SWARM_WAIT_EXEC_ACK /\ gcs'.at = 1
<1> DEFINE t == [owner |-> gcs.at, dir |-> gcs.dir, referenced |-> gcs.referenced]
           g == [gcs EXCEPT !.target[gcs.at] = t]
           f == [gcs.target EXCEPT ![gcs.at] = t]
<1>1. gcs \in GcsType /\ gcs.at \in Quads /\ gcs.dir \in DIRECTIONS /\ gcs.referenced \in BOOLEAN
  BY Shapes DEF GoTarget, GcsOK, GcsType
<1>2. t \in Targets
  BY <1>1 DEF Targets
<1>3. /\ gcs' = IF g.at < QUAD_NB THEN [g EXCEPT !.at = g.at + 1] ELSE WaitAll(g, SWARM_WAIT_EXEC_ACK)
      /\ down' = [down EXCEPT ![LEADER] = Sent(down[LEADER], Target(t))] /\ up' = up
      /\ gcs.pc = "targets"
  BY DEF GoTarget
<1>4. f \in [Quads -> Targets]
  BY <1>1, <1>2 DEF GcsType
<1>5. g = [gcs EXCEPT !.target = f]
  BY <1>1 DEF GcsType
<1> HIDE DEF t, g, f
<1>6. g \in GcsType /\ g.pc = gcs.pc /\ g.job = gcs.job /\ g.wait = gcs.wait /\ g.cached = gcs.cached
  BY <1>1, <1>4, <1>5 DEF GcsType
<1>7. /\ gcs'.cached = gcs.cached /\ gcs'.job = gcs.job
      /\ \/ gcs'.pc = "targets" /\ gcs'.wait = gcs.wait
         \/ /\ gcs'.pc = "scan" /\ gcs'.wait = SWARM_WAIT_EXEC_ACK
            /\ gcs'.goal = SWARM_WAIT_EXEC_ACK /\ gcs'.at = 1
  <2>1. CASE g.at < QUAD_NB
    <3>1. gcs' = [g EXCEPT !.at = g.at + 1]
      BY <1>3, <2>1
    <3> QED BY <1>3, <1>6, <3>1 DEF GcsType
  <2>2. CASE ~(g.at < QUAD_NB)
    BY <1>3, <1>6, <2>2, WaitAllFields, StatesKnown
  <2> QED BY <2>1, <2>2
<1>8. LEADER \in Quads /\ down = [r \in Quads |-> down[r]]
  BY Shapes, SwarmLinkAssumption DEF Quads
<1> QED BY <1>2, <1>3, <1>7, <1>8

(* What wait_all_quads sends.                                              *)
LEMMA MessageFacts ==
  ASSUME Control(gcs), gcs.wait # NONE, NEW q \in Quads
  PROVE  /\ gcs.wait = SWARM_WAIT_EXEC_ACK => Message(q) = Target(gcs.target[q])
         /\ gcs.wait = SWARM_EXEC_CMD => Message(q) = Ack(ACK_EXEC)
         /\ gcs.wait = SWARM_LANDED => Message(q) = Block(BLOCK_ID_LAND_HERE)
         /\ gcs.wait \in {SWARM_WAIT_EXEC_ACK, SWARM_EXEC_CMD, SWARM_LANDED}
BY Numbers DEF Message, Control

(* One turn of its loop sends to one quad at most.                         *)
LEMMA SendQuadFacts ==
  ASSUME IInv, SendQuad
  PROVE  /\ gcs.pc = "send" /\ SameTables /\ SameJob /\ up' = up
         /\ \/ down' = down
            \/ /\ down'[gcs.at] = Sent(down[gcs.at], Message(gcs.at))
               /\ \A r \in Quads \ {gcs.at} : down'[r] = down[r]
         /\ gcs'.pc = "send" \/ (gcs'.pc = "scan" /\ gcs'.at = 1 /\ gcs'.goal = gcs.wait)
<1> DEFINE q == gcs.at
           g == IF ~Due THEN gcs
                ELSE IF gcs.wait = SWARM_EXEC_CMD THEN [gcs EXCEPT !.timer = FALSE]
                ELSE [gcs EXCEPT !.fresh[q] = FALSE]
<1>1. /\ gcs' = IF q < QUAD_NB THEN SendFrom(g, q + 1)
                ELSE Scan([g EXCEPT !.seen = SWARM_KILLED], gcs.wait)
      /\ down' = IF Due THEN [down EXCEPT ![q] = Sent(down[q], Message(q))] ELSE down
      /\ up' = up /\ gcs.pc = "send"
  BY DEF SendQuad
<1>2. q \in Quads /\ gcs \in GcsType /\ gcs.wait \in SwarmStates \cup {NONE}
      /\ down = [r \in Quads |-> down[r]]
  BY Shapes DEF GcsType
<1>3. g \in GcsType /\ g.job = gcs.job /\ g.wait = gcs.wait /\ g.cached = gcs.cached /\ g.target = gcs.target
  <2>1. LET h == [gcs EXCEPT !.timer = FALSE]
        IN  h \in GcsType /\ h.job = gcs.job /\ h.wait = gcs.wait
            /\ h.cached = gcs.cached /\ h.target = gcs.target
    BY <1>2 DEF GcsType
  <2>2. LET h == [gcs EXCEPT !.fresh[q] = FALSE]
        IN  h \in GcsType /\ h.job = gcs.job /\ h.wait = gcs.wait
            /\ h.cached = gcs.cached /\ h.target = gcs.target
    <3> DEFINE f == [gcs.fresh EXCEPT ![q] = FALSE]
    <3>1. f \in [Quads -> BOOLEAN]
      BY <1>2 DEF GcsType
    <3> HIDE DEF f
    <3>2. LET h == [gcs EXCEPT !.fresh = f]
          IN  h \in GcsType /\ h.job = gcs.job /\ h.wait = gcs.wait
              /\ h.cached = gcs.cached /\ h.target = gcs.target
      BY <1>2, <3>1 DEF GcsType
    <3> QED BY <3>2 DEF f
  <2> QED BY <1>2, <2>1, <2>2
<1> HIDE DEF g
<1>4. /\ SameTables /\ SameJob
      /\ gcs'.pc = "send" \/ (gcs'.pc = "scan" /\ gcs'.at = 1 /\ gcs'.goal = gcs.wait)
  <2>1. CASE q < QUAD_NB
    <3>1. q + 1 \in Quads
      BY <1>2, <2>1, SwarmLinkAssumption DEF Quads
    <3> QED BY <1>1, <1>3, <2>1, <3>1, SendFromFields DEF SameTables, SameJob
  <2>2. CASE ~(q < QUAD_NB)
    <3> DEFINE h == [g EXCEPT !.seen = SWARM_KILLED]
    <3>1. /\ h \in GcsType /\ h.job = gcs.job /\ h.wait = gcs.wait
          /\ h.cached = gcs.cached /\ h.target = gcs.target
      BY <1>3, StatesKnown DEF GcsType
    <3>2. gcs' = Scan(h, gcs.wait)
      BY <1>1, <2>2
    <3> HIDE DEF h
    <3>3. /\ gcs'.pc = "scan" /\ gcs'.at = 1 /\ gcs'.goal = gcs.wait /\ gcs'.job = h.job
          /\ gcs'.wait = h.wait /\ gcs'.cached = h.cached /\ gcs'.target = h.target
      BY <3>1, <3>2 DEF Scan, GcsType
    <3> QED BY <3>1, <3>3 DEF SameTables, SameJob
  <2> QED BY <2>1, <2>2
<1> QED BY <1>1, <1>2, <1>4

(* The buttons of the rounds.                                              *)
LEMMA PressFacts ==
  ASSUME IInv, RoundsOnly, Press
  PROVE  /\ gcs.job = "none" /\ SameTables /\ UNCHANGED <<up, down>>
         /\ gcs'.pc = "scan" /\ gcs'.at = 1
         /\ \/ gcs'.job = "land_here" /\ gcs'.wait = SWARM_LANDED /\ gcs'.goal = SWARM_LANDED
            \/ gcs'.job = "go" /\ gcs'.wait = gcs.wait /\ gcs'.goal = SWARM_WAIT_CMD_TAKEOFF
            \/ gcs'.job = "execute" /\ gcs'.wait = gcs.wait /\ gcs'.goal = SWARM_WAIT_EXEC_ACK
<1>1. gcs \in GcsType
  BY Shapes
<1>2. CASE \E j \in BUTTONS : PressWait(j)
  <2>1. PICK j \in BUTTONS : PressWait(j)
    BY <1>2
  <2>2. j = "land_here" /\ gcs.job = "none" /\ UNCHANGED <<up, down>>
    BY <2>1 DEF PressWait, RoundsOnly, WaitOfJob
  <2> DEFINE g == [gcs EXCEPT !.job = j, !.referenced = gcs.referenced]
  <2>3. gcs' = WaitAll(g, SWARM_LANDED)
    BY <2>1, <2>2 DEF PressWait, WaitOfJob
  <2>4. g \in GcsType /\ g.job = "land_here" /\ g.cached = gcs.cached /\ g.target = gcs.target
    BY <1>1, <2>2 DEF GcsType, Jobs
  <2> HIDE DEF g
  <2> QED BY <2>2, <2>3, <2>4, WaitAllFields, StatesKnown DEF SameTables
<1>3. CASE \E d \in DIRECTIONS : PressGo(d)
  <2>1. PICK d \in DIRECTIONS : PressGo(d)
    BY <1>3
  <2> DEFINE g == [gcs EXCEPT !.job = "go", !.dir = d]
  <2>2. gcs' = Scan(g, SWARM_WAIT_CMD_TAKEOFF) /\ gcs.job = "none" /\ UNCHANGED <<up, down>>
    BY <2>1 DEF PressGo
  <2>3. /\ g \in GcsType /\ g.job = "go" /\ g.cached = gcs.cached /\ g.target = gcs.target
        /\ g.wait = gcs.wait
    BY <1>1 DEF GcsType, Jobs
  <2> HIDE DEF g
  <2> QED BY <2>2, <2>3, ScanFields, StatesKnown DEF SameTables
<1>4. CASE PressExecute
  <2> DEFINE g == [gcs EXCEPT !.job = "execute"]
  <2>1. gcs' = Scan(g, SWARM_WAIT_EXEC_ACK) /\ gcs.job = "none" /\ UNCHANGED <<up, down>>
    BY <1>4 DEF PressExecute
  <2>2. /\ g \in GcsType /\ g.job = "execute" /\ g.cached = gcs.cached /\ g.target = gcs.target
        /\ g.wait = gcs.wait
    BY <1>1 DEF GcsType, Jobs
  <2> HIDE DEF g
  <2> QED BY <2>1, <2>2, ScanFields, StatesKnown DEF SameTables
<1> QED BY <1>2, <1>3, <1>4 DEF Press

(* The data handler and the clock do not touch the job.                    *)
LEMMA HandleReportFacts ==
  ASSUME IInv, NEW q \in Quads, HandleReport(q)
  PROVE  /\ up[q] # <<>> /\ up'[q] = Tail(up[q]) /\ \A r \in Quads \ {q} : up'[r] = up[r]
         /\ down' = down /\ SameJob
         /\ gcs'.pc = gcs.pc /\ gcs'.goal = gcs.goal /\ gcs'.at = gcs.at /\ gcs'.target = gcs.target
         /\ gcs'.cached[q] = up[q][1] /\ \A r \in Quads \ {q} : gcs'.cached[r] = gcs.cached[r]
<1>1. gcs \in GcsType /\ up = [r \in Quads |-> up[r]] /\ up[q] \in Seq(SwarmStates)
  BY Shapes
<1> DEFINE s == Head(up[q])
           n == gcs.wait # NONE
           l == gcs.located \/ q = LEADER
           c == [gcs.cached EXCEPT ![q] = s]
           h == [gcs.heard EXCEPT ![q] = TRUE]
           f == [gcs.fresh EXCEPT ![q] = n]
<1>2. /\ gcs' = [gcs EXCEPT !.cached = c, !.heard = h, !.fresh = f, !.located = l]
      /\ up' = [up EXCEPT ![q] = Tail(up[q])] /\ down' = down /\ up[q] # <<>>
  BY <1>1 DEF HandleReport, GcsType
<1>3. s = up[q][1]
  BY <1>1, <1>2, TailAt
<1>4. c[q] = s /\ \A r \in Quads \ {q} : c[r] = gcs.cached[r]
  BY <1>1 DEF GcsType
<1> HIDE DEF s, n, l, c, h, f
<1>5. /\ SameJob /\ gcs'.pc = gcs.pc /\ gcs'.goal = gcs.goal /\ gcs'.at = gcs.at
      /\ gcs'.target = gcs.target /\ gcs'.cached = c
  BY <1>1, <1>2 DEF GcsType, SameJob
<1> QED BY <1>1, <1>2, <1>3, <1>4, <1>5

(* The clock touches nothing of what a job decides by.                     *)
LEMMA TwoSecondsFacts ==
  ASSUME IInv, TwoSeconds
  PROVE  /\ SameTables /\ SameJob /\ UNCHANGED <<up, down>>
         /\ gcs'.pc = gcs.pc /\ gcs'.goal = gcs.goal /\ gcs'.at = gcs.at
<1>1. gcs \in GcsType
  BY Shapes
<1> QED BY <1>1 DEF TwoSeconds, GcsType, SameTables, SameJob
-----------------------------------------------------------------------------
(* Restricted to the buttons of the rounds, the swarm stays in the states, *)
(* blocks and messages of a flight, whatever pilots and restarts do.       *)

(* What holds of all the messages of a channel holds after a step.         *)
LEMMA TailAll ==
  ASSUME NEW S, NEW c \in Seq(S), c # <<>>, NEW T, \A i \in 1..Len(c) : c[i] \in T
  PROVE  \A i \in 1..Len(Tail(c)) : Tail(c)[i] \in T
BY TailAt

(* The same of a channel that a message is put on.                         *)
LEMMA PutAll ==
  ASSUME NEW S, NEW c \in Seq(S), NEW m \in S, NEW cap, NEW T, m \in T,
         \A i \in 1..Len(c) : c[i] \in T
  PROVE  \A i \in 1..Len(Put(c, m, cap)) : Put(c, m, cap)[i] \in T
<1>1. Len(c) \in Nat
  BY LenProperties
<1> QED BY <1>1, PutAt

(* The quads wait for their first target.                                  *)
LEMMA FlyingStart ==
  ASSUME RoundsOnly, Init
  PROVE  /\ \A q \in Quads : /\ quad[q].swarm = SWARM_WAIT_CMD_TAKEOFF /\ quad[q].block = 5
                             /\ quad[q].nav /\ up[q] = <<>> /\ down[q] = <<>>
                             /\ gcs.cached[q] = SWARM_KILLED
         /\ gcs.job = "none" /\ gcs.pc = "idle" /\ gcs.wait = NONE
<1>1. quad = [q \in Quads |-> QuadAt["flying"]]
  BY DEF Init, RoundsOnly
<1>2. QuadAt["flying"] = [GroundQuad EXCEPT !.swarm = SWARM_WAIT_CMD_TAKEOFF, !.block = 5, !.nav = TRUE]
  BY DEF QuadAt
<1>3. LET x == QuadAt["flying"] IN x.swarm = SWARM_WAIT_CMD_TAKEOFF /\ x.block = 5 /\ x.nav
  BY <1>2 DEF GroundQuad
<1>4. /\ gcs.job = "none" /\ gcs.pc = "idle" /\ gcs.wait = NONE
      /\ gcs.cached = [q \in Quads |-> SWARM_KILLED]
  BY DEF Init, GcsStarts
<1> QED BY <1>1, <1>3, <1>4 DEF Init, LinkInit

(* Nothing is under way then.                                              *)
LEMMA FlightInit ==
  ASSUME RoundsOnly, Init
  PROVE  FlightInv
<1>1. Control(gcs)
  BY FlyingStart, Numbers DEF Control
<1>2. \A q \in Quads : QuadFlies(q)
  BY FlyingStart, InFlightStates, Numbers DEF QuadFlies, FlightBlocks
<1> QED BY <1>1, <1>2 DEF FlightInv

(* A step in which only quad q, its channels or its entry change.          *)
LEMMA FliesStep ==
  ASSUME FlightInv, NEW q \in Quads, OthersKept(q), QuadFlies(q)',
         \A r \in Quads \ {q} : gcs'.cached[r] = gcs.cached[r], Control(gcs')
  PROVE  FlightInv'
<1>1. ASSUME NEW r \in Quads PROVE QuadFlies(r)'
  BY DEF FlightInv, QuadFlies, OthersKept
<1> QED BY <1>1 DEF FlightInv

(* The airborne handlers.                                                  *)
LEMMA FlightAirborne ==
  ASSUME IInv, FlightInv, NEW q \in Quads, Airborne(q), gcs' = gcs
  PROVE  FlightInv'
<1>1. QuadFlies(q) /\ Control(gcs)
  BY DEF FlightInv
<1>2. down[q] \in Seq(MessagesTo(q)) /\ up[q] \in Seq(SwarmStates)
  BY Shapes
<1>3. CASE SwarmPeriodic(q)
  <2>1. /\ ReportOf(quad[q]) \in InFlight /\ quad'[q].swarm = AfterReport(ReportOf(quad[q]))
        /\ quad'[q].block = quad[q].block /\ up'[q] = Reported(up[q], ReportOf(quad[q]))
        /\ OthersKept(q) /\ down' = down
    BY <1>1, <1>3, PeriodicFacts DEF SameBut
  <2>2. quad'[q].swarm \in InFlight
    BY <2>1, InFlightStates, Numbers DEF AfterReport
  <2>3. \A i \in 1..Len(up'[q]) : up'[q][i] \in InFlight
    <3>1. ReportOf(quad[q]) \in SwarmStates /\ \A i \in 1..Len(up[q]) : up[q][i] \in InFlight
      BY <1>1, <2>1, InFlightStates DEF QuadFlies
    <3>2. up'[q] = Put(up[q], ReportOf(quad[q]), UP_CAP)
      BY <2>1 DEF Reported
    <3> HIDE DEF ReportOf, InFlight
    <3> QED BY <1>2, <2>1, <3>1, <3>2, PutAll
  <2> QED BY <1>1, <2>1, <2>2, <2>3, FliesStep DEF QuadFlies
<1>4. CASE Deliver(q)
  <2>1. /\ down[q] # <<>> /\ down'[q] = Tail(down[q]) /\ up' = up /\ OthersKept(q)
        /\ (\E t \in Targets : Takes(q, t)) \/ Starts(q) \/ Lands(q) \/ quad'[q] = quad[q]
    BY <1>1, <1>4, DeliverFacts
  <2>2. quad'[q].swarm \in InFlight /\ quad'[q].block \in FlightBlocks
    BY <1>1, <2>1, InFlightStates, Numbers
       DEF Takes, Starts, Lands, SameBut, QuadFlies, FlightBlocks
  <2>3. \A i \in 1..Len(down'[q]) : down'[q][i] \in FlightMessages
    BY <1>1, <1>2, <2>1, TailAll DEF QuadFlies
  <2> QED BY <1>1, <2>1, <2>2, <2>3, FliesStep DEF QuadFlies
<1>5. CASE FlightPlan(q)
  <2>1. /\ quad'[q].swarm = quad[q].swarm /\ quad'[q].block \in {12, 13}
        /\ UNCHANGED <<up, down>> /\ OthersKept(q)
    BY <1>1, <1>5, FlightPlanFacts DEF SameBut
  <2> QED BY <1>1, <2>1, FliesStep DEF QuadFlies, FlightBlocks
<1>6. CASE PilotMode(q)
  <2>1. /\ quad'[q].swarm = quad[q].swarm /\ quad'[q].block = quad[q].block
        /\ UNCHANGED <<up, down>> /\ OthersKept(q)
    BY <1>6, PilotModeFacts DEF SameBut
  <2> QED BY <1>1, <2>1, FliesStep DEF QuadFlies
<1> QED BY <1>3, <1>4, <1>5, <1>6 DEF Airborne

(* What a loss does to the channels.                                       *)
LEMMA LossFacts ==
  ASSUME IInv, NEW q \in Quads
  PROVE  /\ LoseDown(q) => /\ down[q] # <<>> /\ down'[q] = Tail(down[q]) /\ up' = up
                           /\ \A r \in Quads \ {q} : down'[r] = down[r]
         /\ LoseUp(q) => /\ up[q] # <<>> /\ up'[q] = Tail(up[q]) /\ down' = down
                         /\ \A r \in Quads \ {q} : up'[r] = up[r]
BY Shapes DEF LoseDown, LoseUp

(* A loss leaves a shorter channel.                                        *)
LEMMA FlightLoss ==
  ASSUME IInv, FlightInv, NEW q \in Quads, LoseDown(q) \/ LoseUp(q), UNCHANGED <<quad, gcs>>
  PROVE  FlightInv'
<1>1. QuadFlies(q) /\ Control(gcs)
  BY DEF FlightInv
<1>2. down[q] \in Seq(MessagesTo(q)) /\ up[q] \in Seq(SwarmStates)
  BY Shapes
<1>3. CASE LoseDown(q)
  <2>1. \A i \in 1..Len(down'[q]) : down'[q][i] \in FlightMessages
    BY <1>1, <1>2, <1>3, LossFacts, TailAll DEF QuadFlies
  <2> QED BY <1>1, <1>3, <2>1, LossFacts, FliesStep DEF QuadFlies, OthersKept
<1>4. CASE LoseUp(q)
  <2>1. \A i \in 1..Len(up'[q]) : up'[q][i] \in InFlight
    BY <1>1, <1>2, <1>4, LossFacts, TailAll DEF QuadFlies
  <2> QED BY <1>1, <1>4, <2>1, LossFacts, FliesStep DEF QuadFlies, OthersKept
<1> QED BY <1>3, <1>4

(* The threads go from one loop to the next as Control says.               *)
LEMMA ControlKept ==
  ASSUME IInv, FlightInv, RoundsOnly,
         Press \/ Job \/ TwoSeconds \/ GcsRestart \/ \E q \in Quads : HandleReport(q)
  PROVE  Control(gcs')
<1> USE Numbers
<1>1. Control(gcs)
  BY DEF FlightInv
<1>2. CASE Press
  BY <1>1, <1>2, PressFacts DEF Control
<1>3. CASE ScanQuad
  <2>1. gcs.pc = "scan" /\ (ScansOn \/ LooksAgain \/ Computes \/ Orders \/ Ends \/ Sends)
    BY <1>1, <1>3, ScanQuadFacts
  <2>2. CASE ScansOn
    BY <1>1, <2>1, <2>2 DEF ScansOn, SameJob, Control
  <2>3. CASE LooksAgain
    BY <1>1, <2>1, <2>3 DEF LooksAgain, SameJob, Control, Moved
  <2>4. CASE Computes
    BY <1>1, <2>1, <2>4 DEF Computes, SameJob, Control
  <2>5. CASE Orders
    BY <1>1, <2>1, <2>5 DEF Orders, Control, Moved
  <2>6. CASE Ends
    BY <1>1, <2>1, <2>6 DEF Ends, Control
  <2>7. CASE Sends
    BY <1>1, <2>1, <2>7 DEF Sends, SameJob, Control
  <2> QED BY <2>1, <2>2, <2>3, <2>4, <2>5, <2>6, <2>7
<1>4. CASE GoTarget
  BY <1>1, <1>4, GoTargetFacts DEF Control
<1>5. CASE SendQuad
  BY <1>1, <1>5, SendQuadFacts DEF Control, SameJob, Moved
<1>6. CASE TwoSeconds
  BY <1>1, <1>6, TwoSecondsFacts DEF Control, SameJob
<1>7. CASE GcsRestart
  <2>1. gcs'.job = "none" /\ gcs'.pc = "idle" /\ gcs'.wait = NONE
    BY <1>7 DEF GcsRestart, GcsStarts
  <2> QED BY <2>1 DEF Control
<1>8. CASE \E q \in Quads : HandleReport(q)
  BY <1>1, <1>8, HandleReportFacts DEF Control, SameJob
<1> QED BY <1>2, <1>3, <1>4, <1>5, <1>6, <1>7, <1>8 DEF Job

(* What the threads send is a message of the flight.                       *)
LEMMA FlightGround ==
  ASSUME IInv, FlightInv, RoundsOnly, quad' = quad,
         Press \/ Job \/ TwoSeconds \/ GcsRestart \/ \E q \in Quads : HandleReport(q)
  PROVE  FlightInv'
<1>1. Control(gcs) /\ Control(gcs') /\ \A q \in Quads : QuadFlies(q)
  BY ControlKept DEF FlightInv
<1>2. \A q \in Quads : down[q] \in Seq(MessagesTo(q)) /\ up[q] \in Seq(SwarmStates)
  BY Shapes
<1>3. ASSUME UNCHANGED <<up, down>>, \A q \in Quads : gcs'.cached[q] \in InFlight
      PROVE  FlightInv'
  BY <1>1, <1>3 DEF FlightInv, QuadFlies
<1>4. CASE Press
  BY <1>1, <1>3, <1>4, PressFacts DEF SameTables, QuadFlies
<1>5. CASE ScanQuad
  BY <1>1, <1>3, <1>5, ScanQuadFacts DEF SameTables, QuadFlies
<1>6. CASE TwoSeconds
  BY <1>1, <1>3, <1>6, TwoSecondsFacts DEF SameTables, QuadFlies
<1>7. CASE GcsRestart
  <2>1. UNCHANGED <<up, down>> /\ gcs'.cached = [q \in Quads |-> SWARM_KILLED]
    BY <1>7 DEF GcsRestart, GcsStarts
  <2>2. \A q \in Quads : gcs'.cached[q] \in InFlight
    BY <2>1, InFlightStates, Numbers
  <2> QED BY <1>3, <2>1, <2>2
<1>8. CASE GoTarget
  <2>1. PICK t \in Targets : down'[LEADER] = Sent(down[LEADER], Target(t))
    BY <1>8, GoTargetFacts
  <2>2. /\ gcs'.cached = gcs.cached /\ up' = up /\ \A r \in Quads \ {LEADER} : down'[r] = down[r]
        /\ LEADER \in Quads
    BY <1>8, GoTargetFacts, SwarmLinkAssumption DEF Quads
  <2>3. Target(t) \in MessagesTo(LEADER) /\ Target(t) \in FlightMessages
    BY DEF MessagesTo, TargetsOf, FlightMessages
  <2>4. \A i \in 1..Len(down'[LEADER]) : down'[LEADER][i] \in FlightMessages
    BY <1>1, <1>2, <2>1, <2>2, <2>3, PutAll DEF QuadFlies, Sent
  <2>5. ASSUME NEW r \in Quads PROVE QuadFlies(r)'
    BY <1>1, <2>2, <2>4 DEF QuadFlies
  <2> QED BY <1>1, <2>5 DEF FlightInv
<1>9. CASE SendQuad
  <2>1. gcs.wait # NONE /\ gcs.at \in Quads
    BY <1>1, <1>9, SendQuadFacts, Shapes DEF Control, GcsType
  <2>2. Message(gcs.at) \in MessagesTo(gcs.at)
    BY <2>1, MessageOK DEF IInv
  <2>3. Message(gcs.at) \in FlightMessages
    <3>1. gcs.target[gcs.at] \in Targets
      BY <2>1, Shapes DEF GcsType
    <3> QED BY <1>1, <2>1, <3>1, MessageFacts DEF FlightMessages
  <2>4. ASSUME NEW r \in Quads
        PROVE \A i \in 1..Len(down'[r]) : down'[r][i] \in FlightMessages
    <3>1. \/ down'[r] = down[r]
          \/ down'[r] = Put(down[r], Message(gcs.at), DOWN_CAP) /\ r = gcs.at
      BY <1>9, <2>1, SendQuadFacts DEF Sent
    <3>2. CASE down'[r] = down[r]
      BY <1>1, <3>2 DEF QuadFlies
    <3>3. CASE down'[r] = Put(down[r], Message(gcs.at), DOWN_CAP) /\ r = gcs.at
      BY <1>1, <1>2, <2>2, <2>3, <3>3, PutAll DEF QuadFlies
    <3> QED BY <3>1, <3>2, <3>3
  <2>5. ASSUME NEW r \in Quads PROVE QuadFlies(r)'
    BY <1>1, <1>9, <2>4, SendQuadFacts DEF QuadFlies, SameTables
  <2> QED BY <1>1, <2>5 DEF FlightInv
<1>10. CASE \E q \in Quads : HandleReport(q)
  <2>1. PICK q \in Quads : HandleReport(q)
    BY <1>10
  <2>2. up[q][1] \in InFlight
    BY <1>1, <1>2, <2>1, HandleReportFacts, TailAt DEF QuadFlies
  <2>3. \A i \in 1..Len(up'[q]) : up'[q][i] \in InFlight
    <3>1. up[q] # <<>> /\ up'[q] = Tail(up[q])
      BY <2>1, HandleReportFacts
    <3>2. up[q] \in Seq(SwarmStates) /\ \A i \in 1..Len(up[q]) : up[q][i] \in InFlight
      BY <1>1, <1>2 DEF QuadFlies
    <3>3. \A i \in 1..Len(Tail(up[q])) : Tail(up[q])[i] \in InFlight
      BY <3>1, <3>2, TailAll
    <3> QED BY <3>1, <3>3
  <2>4. ASSUME NEW r \in Quads PROVE QuadFlies(r)'
    BY <1>1, <2>1, <2>2, <2>3, HandleReportFacts DEF QuadFlies
  <2> QED BY <1>1, <2>4 DEF FlightInv
<1> QED BY <1>4, <1>5, <1>6, <1>7, <1>8, <1>9, <1>10 DEF Job

(* Any step.                                                               *)
LEMMA FlightNext ==
  ASSUME IInv, FlightInv, RoundsOnly, [Next]_vars
  PROVE  FlightInv'
<1>1. CASE UNCHANGED vars
  BY <1>1 DEF vars, FlightInv, QuadFlies, Control
<1>2. CASE Next
  BY <1>2, FlightAirborne, FlightLoss, FlightGround DEF Next
<1> QED BY <1>1, <1>2
-----------------------------------------------------------------------------
(* No quad is left behind, whatever pilots and restarts do: an execute     *)
(* acknowledgement is sent only when every quad was seen to hold a target, *)
(* and no quad comes to wait for its first target twice.                   *)

Past(r) == quad[r].swarm # SWARM_WAIT_CMD_TAKEOFF
AllPast == \A r \in Quads : Past(r)

(* A report of another state, old as it may be, is of a quad past it.      *)
ReportsPast(q) ==
  /\ gcs.cached[q] \notin Free => Past(q)
  /\ \A i \in 1..Len(up[q]) : up[q][i] # SWARM_WAIT_CMD_TAKEOFF => Past(q)

OrdersPast(q) == \A i \in 1..Len(down[q]) : IsAck(down[q][i]) => AllPast

ScanPast ==
  gcs.pc = "scan" /\ gcs.job = "execute" /\ gcs.wait = NONE =>
    \A r \in Quads : r < gcs.at => Past(r)

PastInv ==
  /\ gcs.wait = SWARM_EXEC_CMD => AllPast
  /\ ScanPast
  /\ \A q \in Quads : ReportsPast(q) /\ OrdersPast(q)

(* No handler brings a quad back to wait for its first target.             *)
LEMMA PastStays ==
  ASSUME IInv, FlightInv, NEW q \in Quads, Airborne(q)
  PROVE  /\ \A r \in Quads : Past(r) => Past(r)'
         /\ OthersKept(q)
<1>1. QuadFlies(q)
  BY DEF FlightInv
<1>2. OthersKept(q) /\ (Past(q) => Past(q)')
  <2>1. CASE SwarmPeriodic(q)
    BY <1>1, <2>1, PeriodicFacts, Numbers DEF Past, AfterReport, ReportOf
  <2>2. CASE Deliver(q)
    BY <1>1, <2>2, DeliverFacts, Numbers DEF Past, Takes, Starts, Lands, SameBut
  <2>3. CASE FlightPlan(q)
    BY <1>1, <2>3, FlightPlanFacts DEF Past, SameBut
  <2>4. CASE PilotMode(q)
    BY <2>4, PilotModeFacts DEF Past, SameBut
  <2> QED BY <2>1, <2>2, <2>3, <2>4 DEF Airborne
<1>3. ASSUME NEW r \in Quads \ {q} PROVE Past(r) => Past(r)'
  BY <1>2 DEF OthersKept, Past
<1> QED BY <1>2, <1>3

(* What an airborne handler reports is past when the quad is.              *)
LEMMA PastAirborne ==
  ASSUME IInv, FlightInv, PastInv, NEW q \in Quads, Airborne(q), gcs' = gcs
  PROVE  PastInv'
<1>1. OthersKept(q) /\ (\A r \in Quads : Past(r) => Past(r)') /\ QuadFlies(q)
  BY PastStays DEF FlightInv
<1>2. AllPast => AllPast'
  BY <1>1 DEF AllPast
<1>3. down[q] \in Seq(MessagesTo(q)) /\ up[q] \in Seq(SwarmStates)
  BY Shapes
<1>4. ASSUME NEW r \in Quads \ {q} PROVE ReportsPast(r)' /\ OrdersPast(r)'
  <2>1. up'[r] = up[r] /\ down'[r] = down[r] /\ gcs'.cached[r] = gcs.cached[r] /\ ReportsPast(r)
        /\ OrdersPast(r) /\ (Past(r) => Past(r)')
    BY <1>1 DEF PastInv, OthersKept
  <2> QED BY <1>2, <2>1 DEF ReportsPast, OrdersPast
<1>5. gcs.cached[q] \notin Free => Past(q)'
  BY <1>1 DEF PastInv, ReportsPast
<1>6. \A i \in 1..Len(up'[q]) : up'[q][i] # SWARM_WAIT_CMD_TAKEOFF => Past(q)'
  <2>1. CASE up'[q] = up[q]
    BY <1>1, <2>1 DEF PastInv, ReportsPast
  <2>2. CASE SwarmPeriodic(q)
    <3> DEFINE s == ReportOf(quad[q])
    <3>1. up'[q] = Put(up[q], s, UP_CAP) /\ s \in SwarmStates /\ quad'[q].swarm = AfterReport(s)
      BY <1>1, <2>2, PeriodicFacts, InFlightStates DEF Reported
    <3>2. s # SWARM_WAIT_CMD_TAKEOFF => Past(q)'
      BY <3>1, Numbers DEF Past, AfterReport
    <3> HIDE DEF s
    <3>3. Len(up[q]) \in Nat /\ \A i \in 1..Len(up[q]) : up[q][i] # SWARM_WAIT_CMD_TAKEOFF => Past(q)'
      BY <1>1, Shapes DEF PastInv, ReportsPast
    <3>4. CASE up'[q] = up[q]
      BY <3>3, <3>4
    <3>5. CASE /\ Len(up'[q]) = Len(up[q]) + 1 /\ up'[q][Len(up[q]) + 1] = s
               /\ \A i \in 1..Len(up[q]) : up'[q][i] = up[q][i]
      BY <3>2, <3>3, <3>5
    <3> QED BY <1>3, <3>1, <3>4, <3>5, PutAt
  <2> QED BY <2>1, <2>2, <1>1, DeliverFacts, FlightPlanFacts, PilotModeFacts DEF Airborne
<1>7. OrdersPast(q)'
  <2>1. CASE down'[q] = down[q]
    BY <1>2, <2>1 DEF PastInv, OrdersPast
  <2>2. CASE Deliver(q)
    <3>1. down[q] # <<>> /\ down'[q] = Tail(down[q])
      BY <1>1, <2>2, DeliverFacts
    <3> QED BY <1>2, <1>3, <3>1, TailAt DEF PastInv, OrdersPast
  <2> QED BY <2>1, <2>2, <1>1, PeriodicFacts, FlightPlanFacts, PilotModeFacts DEF Airborne
<1>8. ScanPast'
  BY <1>1 DEF PastInv, ScanPast
<1>9. \A r \in Quads : ReportsPast(r)' /\ OrdersPast(r)'
  BY <1>4, <1>5, <1>6, <1>7 DEF ReportsPast
<1> QED BY <1>2, <1>8, <1>9 DEF PastInv

(* A loss takes nothing back.                                              *)
LEMMA PastLoss ==
  ASSUME IInv, PastInv, NEW q \in Quads, LoseDown(q) \/ LoseUp(q), UNCHANGED <<quad, gcs>>
  PROVE  PastInv'
<1>1. /\ \A r \in Quads : Past(r)' = Past(r)
      /\ AllPast' = AllPast /\ ScanPast' = ScanPast
  BY DEF Past, AllPast, ScanPast
<1>2. down[q] \in Seq(MessagesTo(q)) /\ up[q] \in Seq(SwarmStates)
  BY Shapes
<1>3. ASSUME NEW r \in Quads PROVE ReportsPast(r)' /\ OrdersPast(r)'
  <2>1. ReportsPast(r) /\ OrdersPast(r)
    BY DEF PastInv
  <2>2. ReportsPast(r)'
    <3>1. CASE up'[r] = up[r]
      BY <1>1, <2>1, <3>1 DEF ReportsPast
    <3>2. CASE r = q /\ up[q] # <<>> /\ up'[q] = Tail(up[q])
      BY <1>1, <1>2, <2>1, <3>2, TailAt DEF ReportsPast
    <3> QED BY <3>1, <3>2, LossFacts
  <2>3. OrdersPast(r)'
    <3>1. CASE down'[r] = down[r]
      BY <1>1, <2>1, <3>1 DEF OrdersPast
    <3>2. CASE r = q /\ down[q] # <<>> /\ down'[q] = Tail(down[q])
      BY <1>1, <1>2, <2>1, <3>2, TailAt DEF OrdersPast
    <3> QED BY <3>1, <3>2, LossFacts
  <2> QED BY <2>2, <2>3
<1> QED BY <1>1, <1>3 DEF PastInv

(* When the execute thread has seen every quad hold a target, every quad   *)
(* is past waiting for its first; only then does it send anything.         *)
LEMMA PastGround ==
  ASSUME IInv, FlightInv, PastInv, RoundsOnly, quad' = quad,
         Press \/ Job \/ TwoSeconds \/ GcsRestart \/ \E q \in Quads : HandleReport(q)
  PROVE  PastInv'
<1> USE Numbers
<1>1. Control(gcs) /\ gcs \in GcsType /\ \A q \in Quads : QuadFlies(q)
  BY Shapes DEF FlightInv
<1>2. (\A r \in Quads : Past(r)' = Past(r)) /\ AllPast' = AllPast
  BY DEF Past, AllPast
<1>3. \A q \in Quads : down[q] \in Seq(MessagesTo(q)) /\ up[q] \in Seq(SwarmStates)
  BY Shapes
<1>4. ASSUME UNCHANGED <<up, down>>, gcs'.cached = gcs.cached
      PROVE  \A q \in Quads : ReportsPast(q)' /\ OrdersPast(q)'
  BY <1>2, <1>4 DEF PastInv, ReportsPast, OrdersPast
<1>5. CASE Press
  <2>1. /\ SameTables /\ UNCHANGED <<up, down>> /\ gcs'.at = 1 /\ gcs'.wait # SWARM_EXEC_CMD
    BY <1>1, <1>5, PressFacts DEF Control
  <2>2. ScanPast'
    BY <2>1 DEF ScanPast, Quads
  <2> QED BY <1>4, <2>1, <2>2 DEF PastInv, SameTables
<1>6. CASE ScanQuad
  <2>1. /\ gcs.pc = "scan" /\ SameTables /\ UNCHANGED <<up, down>>
        /\ ScansOn \/ LooksAgain \/ Computes \/ Orders \/ Ends \/ Sends
    BY <1>1, <1>6, ScanQuadFacts
  <2>2. ASSUME gcs.job = "execute", gcs.wait = NONE, Agrees
        PROVE  Past(gcs.at) /\ \A r \in Quads : r < gcs.at + 1 => Past(r)
    <3>1. gcs.at \in Quads /\ gcs.cached[gcs.at] = SWARM_WAIT_EXEC_ACK
      BY <1>1, <2>1, <2>2 DEF GcsType, Control, Agrees
    <3>2. Past(gcs.at)
      BY <3>1 DEF PastInv, ReportsPast, Free
    <3>3. ASSUME NEW r \in Quads, r < gcs.at + 1 PROVE r < gcs.at \/ r = gcs.at
      BY <3>1, <3>3 DEF Quads
    <3> QED BY <2>1, <2>2, <3>2, <3>3 DEF PastInv, ScanPast
  <2>3. CASE ScansOn
    <3>1. ScanPast'
      BY <1>2, <2>2, <2>3 DEF ScansOn, SameJob, ScanPast
    <3>2. gcs'.wait = SWARM_EXEC_CMD => AllPast'
      BY <1>2, <2>3 DEF ScansOn, SameJob, PastInv
    <3> QED BY <1>4, <2>1, <3>1, <3>2 DEF PastInv, SameTables
  <2>4. CASE LooksAgain
    <3>1. ScanPast'
      BY <2>4 DEF LooksAgain, SameJob, ScanPast, Quads
    <3>2. gcs'.wait = SWARM_EXEC_CMD => AllPast'
      BY <1>2, <2>4 DEF LooksAgain, SameJob, PastInv
    <3> QED BY <1>4, <2>1, <3>1, <3>2 DEF PastInv, SameTables
  <2>5. CASE Orders
    <3>1. AllPast
      <4>1. gcs.at = QUAD_NB /\ \A r \in Quads : r < gcs.at + 1 => Past(r)
        BY <2>2, <2>5 DEF Orders, Passed
      <4>2. \A r \in Quads : r < QUAD_NB + 1
        BY SwarmLinkAssumption DEF Quads
      <4> QED BY <4>1, <4>2 DEF AllPast
    <3> QED BY <1>2, <1>4, <2>1, <2>5, <3>1 DEF PastInv, ScanPast, Orders, SameTables
  <2>6. CASE Computes \/ Ends \/ Sends
    <3>1. ScanPast'
      BY <2>6 DEF Computes, Ends, Sends, ScanPast
    <3>2. gcs'.wait = SWARM_EXEC_CMD => AllPast'
      BY <1>2, <2>6 DEF Computes, Ends, Sends, SameJob, PastInv
    <3> QED BY <1>4, <2>1, <3>1, <3>2 DEF PastInv, SameTables
  <2> QED BY <2>1, <2>3, <2>4, <2>5, <2>6
<1>7. CASE GoTarget
  <2>1. PICK t \in Targets : down'[LEADER] = Sent(down[LEADER], Target(t))
    BY <1>7, GoTargetFacts
  <2>2. /\ gcs'.cached = gcs.cached /\ up' = up /\ \A r \in Quads \ {LEADER} : down'[r] = down[r]
        /\ LEADER \in Quads /\ gcs'.job = "go" /\ gcs'.wait # SWARM_EXEC_CMD
    BY <1>1, <1>7, GoTargetFacts, SwarmLinkAssumption DEF Quads, Control
  <2>3. Target(t) \in MessagesTo(LEADER) /\ ~IsAck(Target(t))
    BY Kinds DEF MessagesTo, TargetsOf
  <2>4. OrdersPast(LEADER)'
    <3>1. CASE down'[LEADER] = down[LEADER]
      BY <1>2, <2>2, <3>1 DEF PastInv, OrdersPast
    <3>2. CASE /\ Len(down'[LEADER]) = Len(down[LEADER]) + 1
               /\ down'[LEADER][Len(down[LEADER]) + 1] = Target(t)
               /\ \A i \in 1..Len(down[LEADER]) : down'[LEADER][i] = down[LEADER][i]
      <4>1. Len(down[LEADER]) \in Nat /\ OrdersPast(LEADER)
        BY <2>2, Shapes DEF PastInv
      <4> QED BY <1>2, <2>3, <3>2, <4>1 DEF OrdersPast
    <3> QED BY <1>3, <2>1, <2>2, <2>3, <3>1, <3>2, PutAt DEF Sent
  <2>5. ASSUME NEW r \in Quads PROVE ReportsPast(r)' /\ OrdersPast(r)'
    <3>1. ReportsPast(r)'
      BY <1>2, <2>2 DEF PastInv, ReportsPast
    <3>2. OrdersPast(r)'
      BY <1>2, <2>2, <2>4 DEF PastInv, OrdersPast
    <3> QED BY <3>1, <3>2
  <2> QED BY <2>2, <2>5 DEF PastInv, ScanPast
<1>8. CASE SendQuad
  <2>1. /\ gcs.wait # NONE /\ gcs.at \in Quads /\ SameTables /\ SameJob /\ up' = up
        /\ \/ down' = down
           \/ /\ down'[gcs.at] = Sent(down[gcs.at], Message(gcs.at))
              /\ \A r \in Quads \ {gcs.at} : down'[r] = down[r]
    BY <1>1, <1>8, SendQuadFacts DEF Control, GcsType
  <2>2. Message(gcs.at) \in MessagesTo(gcs.at)
    BY <2>1, MessageOK DEF IInv
  <2>3. IsAck(Message(gcs.at)) => AllPast
    <3>1. gcs.target[gcs.at] \in Targets
      BY <1>1, <2>1 DEF GcsType
    <3>2. ~IsAck(Target(gcs.target[gcs.at])) /\ ~IsAck(Block(BLOCK_ID_LAND_HERE))
      BY <3>1, Kinds
    <3> QED BY <1>1, <2>1, <3>2, MessageFacts DEF PastInv
  <2>4. ASSUME NEW r \in Quads PROVE OrdersPast(r)'
    <3>1. Len(down[r]) \in Nat /\ OrdersPast(r)
      BY Shapes DEF PastInv
    <3>2. CASE down'[r] = down[r]
      BY <1>2, <3>1, <3>2 DEF OrdersPast
    <3>3. CASE /\ r = gcs.at /\ Len(down'[r]) = Len(down[r]) + 1
               /\ down'[r][Len(down[r]) + 1] = Message(r)
               /\ \A i \in 1..Len(down[r]) : down'[r][i] = down[r][i]
      BY <1>2, <2>3, <3>1, <3>3 DEF OrdersPast
    <3> QED BY <1>3, <2>1, <2>2, <3>2, <3>3, PutAt DEF Sent
  <2>5. \A r \in Quads : ReportsPast(r)'
    BY <1>2, <2>1 DEF PastInv, ReportsPast, SameTables
  <2> QED BY <1>2, <2>1, <2>4, <2>5 DEF PastInv, ScanPast, SameJob
<1>9. CASE TwoSeconds
  <2>1. /\ SameTables /\ UNCHANGED <<up, down>> /\ SameJob /\ gcs'.at = gcs.at /\ gcs'.pc = gcs.pc
    BY <1>9, TwoSecondsFacts
  <2>2. ScanPast'
    BY <1>2, <2>1 DEF PastInv, ScanPast, SameJob
  <2> QED BY <1>2, <1>4, <2>1, <2>2 DEF PastInv, SameTables, SameJob
<1>10. CASE GcsRestart
  <2>1. /\ UNCHANGED <<up, down>> /\ gcs'.cached = [q \in Quads |-> SWARM_KILLED]
        /\ gcs'.pc = "idle" /\ gcs'.wait = NONE
    BY <1>10 DEF GcsRestart, GcsStarts
  <2>2. \A q \in Quads : ReportsPast(q)' /\ OrdersPast(q)'
    BY <1>2, <2>1 DEF PastInv, ReportsPast, OrdersPast, Free
  <2> QED BY <2>1, <2>2 DEF PastInv, ScanPast
<1>11. CASE \E q \in Quads : HandleReport(q)
  <2>1. PICK q \in Quads : HandleReport(q)
    BY <1>11
  <2>2. /\ up[q] # <<>> /\ up'[q] = Tail(up[q]) /\ \A r \in Quads \ {q} : up'[r] = up[r]
        /\ down' = down /\ SameJob /\ gcs'.pc = gcs.pc /\ gcs'.at = gcs.at
        /\ gcs'.cached[q] = up[q][1] /\ \A r \in Quads \ {q} : gcs'.cached[r] = gcs.cached[r]
    BY <2>1, HandleReportFacts
  <2>3. ReportsPast(q)'
    <3>1. ReportsPast(q) /\ Len(up[q]) \in Nat \ {0} /\ up[q] \in Seq(SwarmStates)
      BY <1>3, <2>2, TailAt DEF PastInv
    <3>2. gcs'.cached[q] \notin Free => Past(q)
      BY <2>2, <3>1 DEF ReportsPast, Free
    <3>3. \A i \in 1..Len(up'[q]) : up'[q][i] # SWARM_WAIT_CMD_TAKEOFF => Past(q)
      BY <2>2, <3>1, TailAt DEF ReportsPast
    <3> QED BY <1>2, <3>2, <3>3 DEF ReportsPast
  <2>4. ASSUME NEW r \in Quads PROVE ReportsPast(r)' /\ OrdersPast(r)'
    <3>1. OrdersPast(r)'
      BY <1>2, <2>2 DEF PastInv, OrdersPast
    <3>2. r # q => ReportsPast(r)'
      BY <1>2, <2>2 DEF PastInv, ReportsPast
    <3> QED BY <2>3, <3>1, <3>2
  <2>5. ScanPast'
    BY <1>2, <2>2 DEF PastInv, ScanPast, SameJob
  <2> QED BY <1>2, <2>2, <2>4, <2>5 DEF PastInv, SameJob
<1> QED BY <1>5, <1>6, <1>7, <1>8, <1>9, <1>10, <1>11 DEF Job

(* At the start nothing has been reported or sent.                         *)
LEMMA PastInit ==
  ASSUME RoundsOnly, Init
  PROVE  PastInv
<1>1. \A q \in Quads : ReportsPast(q) /\ OrdersPast(q)
  BY FlyingStart DEF ReportsPast, OrdersPast, Free
<1>2. ScanPast /\ gcs.wait # SWARM_EXEC_CMD
  BY FlyingStart, Numbers DEF ScanPast
<1> QED BY <1>1, <1>2 DEF PastInv

(* Any step.                                                               *)
LEMMA PastNext ==
  ASSUME IInv, FlightInv, PastInv, RoundsOnly, [Next]_vars
  PROVE  PastInv'
<1>1. CASE UNCHANGED vars
  BY <1>1 DEF vars, PastInv, ScanPast, ReportsPast, OrdersPast, AllPast, Past
<1>2. CASE Next
  BY <1>2, PastAirborne, PastLoss, PastGround DEF Next
<1> QED BY <1>1, <1>2

(* A quad starts to move on an execute acknowledgement only.               *)
LEMMA ExecutesFacts ==
  ASSUME IInv, FlightInv, Next, NEW q \in Quads, Executes(q)
  PROVE  gcs' = gcs /\ Deliver(q) /\ Starts(q)
<1> USE Numbers
<1>1. quad'[q] # quad[q]
  BY DEF Executes
<1>2. PICK r \in Quads : Airborne(r) /\ gcs' = gcs
  BY <1>1 DEF Next
<1>3. QuadFlies(r) /\ QuadFlies(q)
  BY DEF FlightInv
<1>4. CASE SwarmPeriodic(r)
  BY <1>1, <1>3, <1>4, PeriodicFacts DEF Executes, OthersKept, AfterReport
<1>5. CASE Deliver(r)
  <2>1. /\ OthersKept(r)
        /\ (\E t \in Targets : Takes(r, t)) \/ Starts(r) \/ Lands(r) \/ quad'[r] = quad[r]
    BY <1>3, <1>5, DeliverFacts
  <2>2. r = q
    BY <1>1, <2>1 DEF OthersKept
  <2>3. Starts(q)
    BY <1>1, <2>1, <2>2 DEF Takes, Lands, SameBut, Executes
  <2> QED BY <1>2, <1>5, <2>2, <2>3
<1>6. CASE FlightPlan(r)
  BY <1>1, <1>3, <1>6, FlightPlanFacts DEF Executes, OthersKept, SameBut
<1>7. CASE PilotMode(r)
  BY <1>1, <1>3, <1>7, PilotModeFacts DEF Executes, OthersKept, SameBut
<1> QED BY <1>2, <1>4, <1>5, <1>6, <1>7 DEF Airborne

(* For every flight, whoever restarts the ground station and whatever the  *)
(* pilots do: no quad starts to move while another still waits for its     *)
(* first target.                                                           *)
THEOREM NobodyLeftBehind ==
  ASSUME RoundsOnly
  PROVE  Spec => NoneLeftBehind
<1>1. Init => FlightInv /\ PastInv
  BY FlightInit, PastInit
<1>2. IInv /\ FlightInv /\ PastInv /\ [Next]_vars => FlightInv' /\ PastInv'
  BY FlightNext, PastNext
<1>3. IInv /\ FlightInv /\ PastInv /\ [Next]_vars =>
        [ \A q, r \in Quads : Executes(q) => quad[r].swarm # SWARM_WAIT_CMD_TAKEOFF ]_vars
  <2> SUFFICES ASSUME IInv, FlightInv, PastInv, Next, NEW q \in Quads, NEW r \in Quads, Executes(q)
               PROVE  quad[r].swarm # SWARM_WAIT_CMD_TAKEOFF
    OBVIOUS
  <2>1. Deliver(q) /\ Starts(q)
    BY ExecutesFacts
  <2>2. 1 \in 1..Len(down[q]) /\ IsAck(down[q][1])
    <3>1. down[q] # <<>> /\ down[q] \in Seq(MessagesTo(q))
      BY <2>1, Shapes DEF Deliver
    <3> QED BY <2>1, <3>1, TailAt, Kinds DEF Starts
  <2> QED BY <2>2 DEF PastInv, OrdersPast, AllPast, Past
<1> QED BY <1>1, <1>2, <1>3, SwarmInductive, PTL DEF Spec, NoneLeftBehind
-----------------------------------------------------------------------------
(* The rounds, undisturbed.  The ground station is in one of four stages,  *)
(* which allow the quads and their reports different states.               *)
Moving     == gcs.wait = SWARM_EXEC_CMD
Collecting == gcs.pc = "targets" \/ gcs.wait = SWARM_WAIT_EXEC_ACK
Landing    == gcs.wait = SWARM_LANDED

Spread ==
  IF Moving THEN {Holding \cup Moved}
  ELSE IF Collecting THEN {{SWARM_WAIT_CMD_TAKEOFF} \cup Holding, {SWARM_REPORT_STATE} \cup Holding}
  ELSE IF Landing THEN {Free \cup Landed, Holding \cup Landed, Moved \cup Landed}
  ELSE {Free, Holding, Moved, Landed}

Within(q, S) ==
  /\ gcs.cached[q] \in S /\ quad[q].swarm \in S
  /\ \A i \in 1..Len(up[q]) : up[q][i] \in S

AllWithin(S) == \A q \in Quads : Within(q, S)

Together == \E S \in Spread : AllWithin(S)

(* In which order a quad goes through them: while all move, and else.      *)
Rank(mv, s) ==
  IF mv THEN CASE s = SWARM_WAIT_EXEC_ACK -> 0 [] s = SWARM_EXEC_CMD -> 1 [] OTHER -> 2
  ELSE CASE s = SWARM_KILLED           -> 0
         [] s = SWARM_WAIT_CMD_TAKEOFF -> 1
         [] s = SWARM_EXEC_CMD         -> 2
         [] s = SWARM_REPORT_STATE     -> 3
         [] s = SWARM_WAIT_EXEC_ACK    -> 4
         [] OTHER                      -> 5

(* What is known of a quad, the reports under way and its state follow one *)
(* another in that order.                                                  *)
Ordered(mv, c, u, s) ==
  /\ Rank(mv, c) <= Rank(mv, s)
  /\ \A i \in 1..Len(u) : Rank(mv, c) <= Rank(mv, u[i]) /\ Rank(mv, u[i]) <= Rank(mv, s)
  /\ \A i, j \in 1..Len(u) : i < j => Rank(mv, u[i]) <= Rank(mv, u[j])

(* Late messages find a quad that ignores them: targets one that holds one *)
(* or lands, and execute acknowledgements one that has moved.  They keep   *)
(* their order on the link, so nothing late comes behind what replaced it. *)
Channel(mv, co, c, s) ==
  /\ mv => \A i \in 1..Len(c) : IsTarget(c[i]) =>
             s \in Holding /\ \A j \in 1..Len(c) : j < i => ~IsAck(c[j])
  /\ ~mv => \A i \in 1..Len(c) : IsAck(c[i]) =>
             s \in Moved \cup Landed /\ \A j \in 1..Len(c) : j < i => ~IsTarget(c[j])
  /\ ~mv /\ ~co => \A i \in 1..Len(c) : IsTarget(c[i]) => s \in Holding \cup Landed

(* Nobody lands but all.                                                   *)
Aground == Landing \/ AllWithin(Landed)

LandsTogether(q) ==
  quad[q].block # 5 \/ (\E i \in 1..Len(down[q]) : IsBlock(down[q][i])) => Aground

(* The followers' targets, on their way and arrived, are those of the      *)
(* round under way, of which none is sent before all are computed.         *)
OwnTarget(q) ==
  q # LEADER =>
    /\ \A i \in 1..Len(down[q]) : IsTarget(down[q][i]) =>
         gcs.pc # "targets" /\ down[q][i].target = gcs.target[q]
    /\ quad[q].swarm = SWARM_WAIT_EXEC_ACK =>
         gcs.pc # "targets" /\ quad[q].target = gcs.target[q]

InRound(q) ==
  /\ quad[q].nav
  /\ Ordered(Moving, gcs.cached[q], up[q], quad[q].swarm)
  /\ Channel(Moving, Collecting, down[q], quad[q].swarm)
  /\ LandsTogether(q)
  /\ OwnTarget(q)

(* The quads that all_in_state has gone past are where it saw them, or     *)
(* further.                                                                *)
ScanRank ==
  gcs.pc = "scan" =>
    \A r \in Quads : r < gcs.at => Rank(Moving, gcs.goal) <= Rank(Moving, gcs.cached[r])

RoundInv == Together /\ ScanRank /\ \A q \in Quads : InRound(q)
-----------------------------------------------------------------------------
(* The order of the states.                                                *)
LEMMA Ranks ==
  /\ \A mv, s : Rank(mv, s) \in Nat
  /\ \A s \in InFlight : /\ s = 5 => Rank(TRUE, s) = 0 /\ Rank(FALSE, s) = 4
                         /\ s = 6 => Rank(TRUE, s) = 1 /\ Rank(FALSE, s) = 2
                         /\ s = 7 => Rank(TRUE, s) = 2 /\ Rank(FALSE, s) = 3
                         /\ s = 4 => Rank(FALSE, s) = 1
                         /\ s = 10 => Rank(FALSE, s) = 0
                         /\ s \in {8, 9} => Rank(FALSE, s) = 5
BY Numbers DEF Rank

(* Reports that are taken, lost or added, and a quad that goes on, keep    *)
(* the order.                                                              *)
LEMMA OrderedTail ==
  ASSUME NEW mv, NEW c, NEW s, NEW S, NEW u \in Seq(S), u # <<>>, Ordered(mv, c, u, s)
  PROVE  Ordered(mv, c, Tail(u), s) /\ Ordered(mv, u[1], Tail(u), s) /\ Rank(mv, c) <= Rank(mv, u[1])
<1>1. /\ Len(u) \in Nat \ {0} /\ Len(Tail(u)) = Len(u) - 1
      /\ \A i \in 1..Len(Tail(u)) : i + 1 \in 1..Len(u) /\ Tail(u)[i] = u[i + 1]
  BY TailAt
<1>2. \A i \in 1..Len(Tail(u)) : Rank(mv, u[1]) <= Rank(mv, Tail(u)[i])
  <2>1. SUFFICES ASSUME NEW i \in 1..Len(Tail(u)) PROVE Rank(mv, u[1]) <= Rank(mv, Tail(u)[i])
    OBVIOUS
  <2>2. 1 \in 1..Len(u) /\ i + 1 \in 1..Len(u) /\ 1 < i + 1 /\ Tail(u)[i] = u[i + 1]
    BY <1>1, <2>1
  <2> QED BY <2>2 DEF Ordered
<1>3. \A i, j \in 1..Len(Tail(u)) : i < j => Rank(mv, Tail(u)[i]) <= Rank(mv, Tail(u)[j])
  <2>1. SUFFICES ASSUME NEW i \in 1..Len(Tail(u)), NEW j \in 1..Len(Tail(u)), i < j
                 PROVE  Rank(mv, Tail(u)[i]) <= Rank(mv, Tail(u)[j])
    OBVIOUS
  <2>2. /\ i + 1 \in 1..Len(u) /\ j + 1 \in 1..Len(u) /\ i + 1 < j + 1
        /\ Tail(u)[i] = u[i + 1] /\ Tail(u)[j] = u[j + 1]
    BY <1>1, <2>1
  <2> QED BY <2>2 DEF Ordered
<1>4. 1 \in 1..Len(u)
  BY <1>1
<1> QED BY <1>1, <1>2, <1>3, <1>4 DEF Ordered

(* The quad goes on from s to n, and may report a state t between them.    *)
LEMMA OrderedOn ==
  ASSUME NEW mv, NEW c, NEW s, NEW S, NEW u \in Seq(S), Ordered(mv, c, u, s),
         NEW t \in S, NEW cap, NEW n, Rank(mv, s) <= Rank(mv, t), Rank(mv, t) <= Rank(mv, n)
  PROVE  Ordered(mv, c, u, n) /\ Ordered(mv, c, Put(u, t, cap), n)
<1>1. \A x : Rank(mv, x) \in Nat
  BY Ranks
<1>2. Ordered(mv, c, u, n)
  <2>1. \A i \in 1..Len(u) : Rank(mv, u[i]) <= Rank(mv, n)
    BY <1>1 DEF Ordered
  <2>2. Rank(mv, c) <= Rank(mv, n)
    BY <1>1 DEF Ordered
  <2> QED BY <2>1, <2>2 DEF Ordered
<1>3. CASE Put(u, t, cap) = u
  BY <1>2, <1>3
<1>4. CASE /\ Len(Put(u, t, cap)) = Len(u) + 1 /\ Put(u, t, cap)[Len(u) + 1] = t
           /\ \A i \in 1..Len(u) : Put(u, t, cap)[i] = u[i]
  <2> DEFINE p == Put(u, t, cap)
  <2>1. Len(u) \in Nat /\ \A i \in 1..Len(p) : i \in 1..Len(u) \/ i = Len(u) + 1
    BY <1>4, LenProperties
  <2>2. \A i \in 1..Len(u) : p[i] = u[i] /\ Rank(mv, u[i]) <= Rank(mv, t) /\ i # Len(u) + 1
    BY <1>1, <1>4, <2>1 DEF Ordered
  <2>3. p[Len(u) + 1] = t /\ Rank(mv, c) <= Rank(mv, t)
    BY <1>1, <1>4 DEF Ordered
  <2> HIDE DEF p
  <2>4. \A i \in 1..Len(p) : Rank(mv, c) <= Rank(mv, p[i]) /\ Rank(mv, p[i]) <= Rank(mv, n)
    BY <1>2, <2>1, <2>2, <2>3 DEF Ordered
  <2>5. \A i, j \in 1..Len(p) : i < j => Rank(mv, p[i]) <= Rank(mv, p[j])
    <3>1. SUFFICES ASSUME NEW i \in 1..Len(p), NEW j \in 1..Len(p), i < j
                   PROVE  Rank(mv, p[i]) <= Rank(mv, p[j])
      OBVIOUS
    <3>2. i \in 1..Len(u)
      BY <1>4, <2>1, <3>1 DEF p
    <3>3. CASE j \in 1..Len(u)
      BY <2>2, <3>1, <3>2, <3>3 DEF Ordered
    <3>4. CASE j = Len(u) + 1
      BY <2>2, <2>3, <3>2, <3>4
    <3> QED BY <2>1, <3>3, <3>4
  <2> QED BY <1>2, <2>4, <2>5 DEF Ordered, p
<1> QED BY <1>2, <1>3, <1>4, PutAt

(* A message taken or lost leaves the others in their order.               *)
LEMMA ChannelTail ==
  ASSUME NEW mv \in BOOLEAN, NEW co \in BOOLEAN, NEW S, NEW c \in Seq(S), c # <<>>, NEW s,
         Channel(mv, co, c, s)
  PROVE  Channel(mv, co, Tail(c), s)
<1>1. /\ Len(c) \in Nat \ {0} /\ Len(Tail(c)) = Len(c) - 1
      /\ \A i \in 1..Len(Tail(c)) : i + 1 \in 1..Len(c) /\ Tail(c)[i] = c[i + 1]
  BY TailAt
<1> QED BY <1>1 DEF Channel

(* A message is sent behind the others.                                    *)
LEMMA ChannelPut ==
  ASSUME NEW mv \in BOOLEAN, NEW co \in BOOLEAN, NEW S, NEW c \in Seq(S), NEW m \in S, NEW cap, NEW s,
         Channel(mv, co, c, s), IsTarget(m) => ~mv /\ co, IsAck(m) => mv
  PROVE  Channel(mv, co, Put(c, m, cap), s)
<1>1. Len(c) \in Nat
  BY LenProperties
<1>2. CASE Put(c, m, cap) = c
  BY <1>2
<1>3. CASE /\ Len(Put(c, m, cap)) = Len(c) + 1 /\ Put(c, m, cap)[Len(c) + 1] = m
           /\ \A i \in 1..Len(c) : Put(c, m, cap)[i] = c[i]
  <2> DEFINE p == Put(c, m, cap)
  <2>1. \A i \in 1..Len(p) : i \in 1..Len(c) \/ i = Len(c) + 1
    BY <1>1, <1>3
  <2>2. \A i \in 1..Len(p) : i # Len(c) + 1 => i \in 1..Len(c) /\ p[i] = c[i]
    BY <1>3, <2>1
  <2>3. p[Len(c) + 1] = m
    BY <1>3
  <2> HIDE DEF p
  <2>4. \A i, j \in 1..Len(p) : j < i => j \in 1..Len(c) /\ p[j] = c[j]
    BY <1>1, <1>3, <2>1, <2>2 DEF p
  <2>5. ASSUME mv, NEW i \in 1..Len(p), IsTarget(p[i])
        PROVE  s \in Holding /\ \A j \in 1..Len(p) : j < i => ~IsAck(p[j])
    <3>1. i # Len(c) + 1
      BY <2>3, <2>5
    <3> QED BY <2>2, <2>4, <2>5, <3>1 DEF Channel
  <2>6. ASSUME ~mv, NEW i \in 1..Len(p), IsAck(p[i])
        PROVE  s \in Moved \cup Landed /\ \A j \in 1..Len(p) : j < i => ~IsTarget(p[j])
    <3>1. i # Len(c) + 1
      BY <2>3, <2>6
    <3> QED BY <2>2, <2>4, <2>6, <3>1 DEF Channel
  <2>7. ASSUME ~mv, ~co, NEW i \in 1..Len(p), IsTarget(p[i]) PROVE s \in Holding \cup Landed
    <3>1. i # Len(c) + 1
      BY <2>3, <2>7
    <3> QED BY <2>2, <2>7, <3>1 DEF Channel
  <2> QED BY <2>5, <2>6, <2>7 DEF Channel, p
<1> QED BY <1>2, <1>3, PutAt
-----------------------------------------------------------------------------
(* The steps of one quad, and of its channels and its entry in the table.  *)

ThreadKept ==
  /\ gcs'.pc = gcs.pc /\ gcs'.wait = gcs.wait /\ gcs'.goal = gcs.goal
  /\ gcs'.at = gcs.at /\ gcs'.target = gcs.target

CallsAground(q) == quad[q].block # 5 \/ \E i \in 1..Len(down[q]) : IsBlock(down[q][i])

(* Quad q's part of the invariant suffices.                                *)
LEMMA RoundOneQuad ==
  ASSUME RoundInv, NEW q \in Quads, OthersKept(q), ThreadKept,
         \A r \in Quads \ {q} : gcs'.cached[r] = gcs.cached[r],
         \A S \in Spread \cup {Landed} : Within(q, S) => Within(q, S)',
         Rank(Moving, gcs.cached[q]) <= Rank(Moving, gcs'.cached[q]),
         quad'[q].nav, Ordered(Moving, gcs'.cached[q], up'[q], quad'[q].swarm),
         Channel(Moving, Collecting, down'[q], quad'[q].swarm),
         CallsAground(q)' => Aground, OwnTarget(q)'
  PROVE  RoundInv'
<1>1. Moving' = Moving /\ Collecting' = Collecting /\ Landing' = Landing /\ Spread' = Spread
  BY DEF ThreadKept, Moving, Collecting, Landing, Spread
<1>2. ASSUME NEW r \in Quads \ {q} PROVE quad'[r] = quad[r] /\ down'[r] = down[r] /\ up'[r] = up[r]
  BY DEF OthersKept
<1>3. ASSUME NEW S \in Spread \cup {Landed}, AllWithin(S) PROVE AllWithin(S)'
  <2>1. ASSUME NEW r \in Quads \ {q} PROVE Within(r, S)'
    BY <1>2, <1>3 DEF AllWithin, Within
  <2> QED BY <1>3, <2>1 DEF AllWithin
<1>4. Together'
  <2>1. PICK S \in Spread : AllWithin(S)
    BY DEF RoundInv, Together
  <2> QED BY <1>1, <1>3, <2>1 DEF Together
<1>5. Aground => Aground'
  BY <1>1, <1>3 DEF Aground
<1>6. ScanRank'
  <2> SUFFICES ASSUME gcs'.pc = "scan", NEW r \in Quads, r < gcs'.at
               PROVE  Rank(Moving, gcs'.goal) <= Rank(Moving, gcs'.cached[r])
    BY <1>1 DEF ScanRank
  <2>1. Rank(Moving, gcs'.goal) <= Rank(Moving, gcs.cached[r])
    BY DEF ThreadKept, RoundInv, ScanRank
  <2>2. Rank(Moving, gcs.cached[r]) <= Rank(Moving, gcs'.cached[r])
    <3>1. Rank(Moving, gcs.cached[r]) \in Nat
      BY Ranks
    <3> QED BY <3>1
  <2> QED BY <2>1, <2>2, Ranks
<1>7. InRound(q)'
  BY <1>1, <1>5 DEF InRound, LandsTogether, CallsAground
<1>8. ASSUME NEW r \in Quads \ {q} PROVE InRound(r)'
  BY <1>1, <1>2, <1>5 DEF RoundInv, InRound, LandsTogether, OwnTarget, ThreadKept
<1> QED BY <1>4, <1>6, <1>7, <1>8 DEF RoundInv

(* What lands, lands while no round takes place.                           *)
LEMMA AgroundMeans ==
  ASSUME FlightInv, RoundInv, Aground
  PROVE  /\ ~Moving /\ ~Collecting
         /\ \A q \in Quads, S \in Spread \cup {Landed} : Within(q, S) => Landed \subseteq S
<1> USE Numbers
<1>1. CASE Landing
  <2>1. ~Moving /\ ~Collecting
    BY <1>1 DEF Landing, Moving, Collecting, FlightInv, Control
  <2> QED BY <1>1, <2>1 DEF Spread
<1>2. CASE AllWithin(Landed)
  <2>1. \A q \in Quads : quad[q].swarm \in {8, 9}
    BY <1>2 DEF AllWithin, Within, Landed
  <2>2. ~Moving /\ ~Collecting
    <3>1. PICK S \in Spread : Within(1, S)
      BY FirstQuad DEF RoundInv, Together, AllWithin
    <3> QED BY <2>1, <3>1, FirstQuad DEF Spread, Within, Holding, Moved
  <2>3. ASSUME NEW q \in Quads, NEW S \in Spread \cup {Landed}, Within(q, S) PROVE Landed \subseteq S
    <3>1. quad[q].swarm \in S /\ quad[q].swarm \in {8, 9}
      BY <2>1, <2>3 DEF Within
    <3> QED BY <2>2, <3>1 DEF Spread, Free, Holding, Moved, Landed
  <2> QED BY <2>2, <2>3
<1> QED BY <1>1, <1>2 DEF Aground

(* A quad that goes on to a state as good for the messages on their way.   *)
LEMMA ChannelOn ==
  ASSUME NEW mv \in BOOLEAN, NEW co \in BOOLEAN, NEW c, NEW s, NEW n, Channel(mv, co, c, s),
         mv /\ s \in Holding => n \in Holding,
         ~mv /\ s \in Moved \cup Landed => n \in Moved \cup Landed,
         ~mv /\ ~co /\ s \in Holding \cup Landed => n \in Holding \cup Landed
  PROVE  Channel(mv, co, c, n)
BY DEF Channel

(* The switch of quad_swarm_periodic goes up in the order.                 *)
LEMMA RankOn ==
  ASSUME NEW mv \in BOOLEAN, NEW o \in InFlight, NEW s \in InFlight, mv => o \in {5, 6, 7},
         s = o \/ (~mv /\ s \in {8, 9})
  PROVE  Rank(mv, o) <= Rank(mv, s) /\ Rank(mv, s) <= Rank(mv, AfterReport(s))
<1>1. o \in {4, 5, 6, 7, 8, 9, 10} /\ s \in {4, 5, 6, 7, 8, 9, 10}
  BY InFlightStates
<1>2. AfterReport(s) = IF s = 6 THEN 7 ELSE s
  BY Numbers DEF AfterReport
<1>3. AfterReport(s) \in InFlight
  BY <1>1, <1>2, InFlightStates
<1>4. CASE mv = TRUE
  BY <1>1, <1>2, <1>4, Numbers DEF Rank
<1>5. CASE mv = FALSE
  BY <1>1, <1>2, <1>5, Numbers DEF Rank
<1> QED BY <1>4, <1>5

(* quad_swarm_periodic: the report and the state follow those before.      *)
LEMMA RoundPeriodic ==
  ASSUME IInv, FlightInv, RoundInv, NEW q \in Quads, SwarmPeriodic(q), gcs' = gcs
  PROVE  RoundInv'
<1> USE Numbers
<1> DEFINE s == ReportOf(quad[q])
           n == AfterReport(s)
           o == quad[q].swarm
<1>1. QuadFlies(q) /\ InRound(q)
  BY DEF FlightInv, RoundInv
<1>2. /\ quad'[q].swarm = n /\ SameBut(q, {"swarm"}) /\ s \in InFlight
      /\ up'[q] = Put(up[q], s, UP_CAP) /\ OthersKept(q) /\ down' = down
  BY <1>1, PeriodicFacts DEF Reported, InRound
<1>3. up[q] \in Seq(SwarmStates) /\ s \in SwarmStates /\ Len(up[q]) \in Nat
  BY <1>2, Shapes, InFlightStates
<1>4. \/ s = o
      \/ s \in {8, 9} /\ ~Moving /\ ~Collecting /\ Aground
  <2>1. quad[q].block # 5 => Aground
    BY <1>1 DEF InRound, LandsTogether
  <2> QED BY <1>1, <2>1, AgroundMeans DEF ReportOf, InRound
<1>5. n = IF s = 6 THEN 7 ELSE s
  BY DEF AfterReport
<1>6. o \in InFlight
  BY <1>1 DEF QuadFlies
<1> HIDE DEF s, n, o
<1>7. ASSUME NEW S \in Spread \cup {Landed}, Within(q, S) PROVE Within(q, S)'
  <2>1. s \in S /\ n \in S
    <3>1. CASE s = o
      <4>1. s \in S
        BY <1>7, <3>1 DEF Within, o
      <4>2. 6 \in S => 7 \in S
        BY <1>7 DEF Spread, Free, Holding, Moved, Landed
      <4> QED BY <1>5, <4>1, <4>2
    <3>2. CASE s \in {8, 9} /\ Aground
      <4>1. Landed \subseteq S
        BY <1>7, <3>2, AgroundMeans
      <4> QED BY <1>5, <3>2, <4>1 DEF Landed
    <3> QED BY <1>4, <3>1, <3>2
  <2>2. \A i \in 1..Len(up'[q]) : up'[q][i] \in S
    <3>1. \A i \in 1..Len(up[q]) : up[q][i] \in S
      BY <1>7 DEF Within
    <3>2. CASE up'[q] = up[q]
      BY <3>1, <3>2
    <3>3. CASE /\ Len(up'[q]) = Len(up[q]) + 1 /\ up'[q][Len(up[q]) + 1] = s
               /\ \A i \in 1..Len(up[q]) : up'[q][i] = up[q][i]
      BY <1>3, <2>1, <3>1, <3>3
    <3> QED BY <1>2, <1>3, <3>2, <3>3, PutAt
  <2>3. gcs'.cached[q] \in S
    BY <1>7 DEF Within
  <2> QED BY <1>2, <2>1, <2>2, <2>3 DEF Within
<1>8. Ordered(Moving, gcs.cached[q], up'[q], n)
  <2>1. Rank(Moving, o) <= Rank(Moving, s) /\ Rank(Moving, s) <= Rank(Moving, n)
    <3>1. Moving => o \in {5, 6, 7}
      BY DEF RoundInv, Together, AllWithin, Within, Spread, Holding, Moved, o
    <3>2. Moving \in BOOLEAN
      BY DEF Moving
    <3> QED BY <1>2, <1>4, <1>6, <3>1, <3>2, RankOn DEF n
  <2>2. Ordered(Moving, gcs.cached[q], up[q], o)
    BY <1>1 DEF InRound, o
  <2> QED BY <1>2, <1>3, <2>1, <2>2, OrderedOn
<1>9. Channel(Moving, Collecting, down'[q], n)
  <2>1. Moving \in BOOLEAN /\ Collecting \in BOOLEAN /\ Channel(Moving, Collecting, down'[q], o)
    BY <1>1, <1>2 DEF InRound, Moving, Collecting, o
  <2> QED BY <1>4, <1>5, <2>1, ChannelOn DEF Holding, Moved, Landed
<1>10. CallsAground(q)' => Aground
  BY <1>1, <1>2 DEF CallsAground, InRound, LandsTogether, SameBut
<1>11. OwnTarget(q)'
  <2>1. n = 5 => o = 5
    BY <1>4, <1>5
  <2> QED BY <1>1, <1>2, <2>1 DEF InRound, OwnTarget, SameBut, o
<1>12. Rank(Moving, gcs.cached[q]) <= Rank(Moving, gcs'.cached[q])
  BY Ranks
<1> QED BY <1>1, <1>2, <1>7, <1>8, <1>9, <1>10, <1>11, <1>12, RoundOneQuad DEF ThreadKept, InRound, SameBut

(* A target is taken only while targets are collected, and an execute      *)
(* acknowledgement obeyed only while all are to move.                      *)
LEMMA TakesMeans ==
  ASSUME IInv, FlightInv, RoundInv, NEW q \in Quads, down[q] # <<>>
  PROVE  /\ \A t \in Targets : Takes(q, t) => Collecting
         /\ Starts(q) => Moving
<1> USE Numbers
<1>1. 1 \in 1..Len(down[q])
  <2>1. down[q] \in Seq(MessagesTo(q))
    BY Shapes
  <2> QED BY <2>1, TailAt
<1>2. Channel(Moving, Collecting, down[q], quad[q].swarm)
  BY DEF RoundInv, InRound
<1>3. ASSUME NEW t \in Targets, Takes(q, t) PROVE Collecting
  <2>1. IsTarget(down[q][1]) /\ quad[q].swarm \in {4, 7}
    BY <1>3, Kinds DEF Takes
  <2> QED BY <1>1, <1>2, <2>1 DEF Channel, Holding, Landed
<1>4. ASSUME Starts(q) PROVE Moving
  <2>1. IsAck(down[q][1]) /\ quad[q].swarm = 5
    BY <1>4, Kinds DEF Starts
  <2> QED BY <1>1, <1>2, <2>1 DEF Channel, Moved, Landed
<1> QED BY <1>3, <1>4

(* The handlers of quad_swarm_datalink, quad_swarm_ack_datalink, DL_BLOCK. *)
LEMMA RoundDeliver ==
  ASSUME IInv, FlightInv, RoundInv, NEW q \in Quads, Deliver(q), gcs' = gcs
  PROVE  RoundInv'
<1> USE Numbers
<1> DEFINE o == quad[q].swarm
           c == down[q]
<1>1. QuadFlies(q) /\ InRound(q)
  BY DEF FlightInv, RoundInv
<1>2. /\ c # <<>> /\ down'[q] = Tail(c) /\ up' = up /\ OthersKept(q)
      /\ (\E t \in Targets : Takes(q, t)) \/ Starts(q) \/ Lands(q) \/ quad'[q] = quad[q]
  BY <1>1, DeliverFacts
<1>3. c \in Seq(MessagesTo(q)) /\ up[q] \in Seq(SwarmStates)
  BY Shapes
<1>4. /\ Len(c) \in Nat \ {0} /\ Len(Tail(c)) = Len(c) - 1
      /\ \A i \in 1..Len(Tail(c)) : i + 1 \in 1..Len(c) /\ Tail(c)[i] = c[i + 1]
  BY <1>2, <1>3, TailAt
<1>5. /\ Channel(Moving, Collecting, c, o) /\ Moving \in BOOLEAN /\ Collecting \in BOOLEAN
      /\ Ordered(Moving, gcs.cached[q], up[q], o) /\ quad[q].nav
  BY <1>1 DEF InRound, Moving, Collecting
<1>6. Channel(Moving, Collecting, Tail(c), o)
  BY <1>2, <1>3, <1>5, ChannelTail
<1>7. CallsAground(q) => Aground
  BY <1>1 DEF InRound, LandsTogether, CallsAground
<1>8. Rank(Moving, gcs.cached[q]) <= Rank(Moving, gcs'.cached[q]) /\ ThreadKept
  BY Ranks DEF ThreadKept
<1>9. o \in {4, 5, 6, 7, 8, 9, 10}
  BY <1>1, InFlightStates DEF QuadFlies
<1>10. CASE Lands(q) \/ quad'[q] = quad[q]
  <2>1. /\ quad'[q].swarm = o /\ quad'[q].nav /\ quad'[q].target = quad[q].target
        /\ quad'[q].block = quad[q].block \/ (IsBlock(c[1]) /\ quad'[q].block = 11)
    BY <1>5, <1>10, Kinds DEF Lands, SameBut
  <2>2. CallsAground(q)' => Aground
    <3>1. CallsAground(q)' => CallsAground(q)
      BY <1>2, <1>4, <2>1 DEF CallsAground
    <3> QED BY <1>7, <3>1
  <2>3. OwnTarget(q)'
    BY <1>1, <1>2, <1>4, <2>1 DEF InRound, OwnTarget
  <2>4. \A S \in Spread \cup {Landed} : Within(q, S) => Within(q, S)'
    BY <1>2, <2>1 DEF Within
  <2> QED BY <1>2, <1>5, <1>6, <1>8, <2>1, <2>2, <2>3, <2>4, RoundOneQuad
<1>11. CASE \E t \in Targets : Takes(q, t)
  <2>1. PICK t \in Targets : Takes(q, t)
    BY <1>11
  <2>2. /\ c[1] = Target(t) /\ IsTarget(c[1]) /\ o \in {4, 7} /\ quad'[q].target = t
        /\ quad'[q].swarm = 5 /\ quad'[q].nav /\ quad'[q].block = quad[q].block
    BY <1>5, <2>1, Kinds DEF Takes, SameBut
  <2>3. Collecting /\ ~Moving /\ ~Aground
    BY <1>2, <2>1, TakesMeans, AgroundMeans DEF FlightInv, Control, Moving, Collecting
  <2>4. CallsAground(q)' => Aground
    <3>1. CallsAground(q)' => CallsAground(q)
      BY <1>2, <1>4, <2>2 DEF CallsAground
    <3> QED BY <1>7, <3>1
  <2>5. OwnTarget(q)'
    <3>1. 1 \in 1..Len(c) /\ Target(t).target = t
      BY <1>4, Kinds
    <3> QED BY <1>1, <1>2, <1>4, <2>2, <3>1 DEF InRound, OwnTarget
  <2>6. \A S \in Spread \cup {Landed} : Within(q, S) => Within(q, S)'
    <3> SUFFICES ASSUME NEW S \in Spread \cup {Landed}, Within(q, S) PROVE Within(q, S)'
      OBVIOUS
    <3>1. o \in S
      BY DEF Within
    <3>2. 5 \in S
      BY <2>2, <2>3, <3>1 DEF Spread, Landed, Holding
    <3> QED BY <1>2, <2>2, <3>2 DEF Within
  <2>7. Ordered(Moving, gcs.cached[q], up[q], 5)
    <3>1. Rank(Moving, o) <= Rank(Moving, 5)
      <4>1. Moving = FALSE
        BY <2>3 DEF Moving
      <4> QED BY <2>2, <4>1 DEF Rank
    <3>2. 5 \in SwarmStates /\ Rank(Moving, 5) <= Rank(Moving, 5)
      BY Ranks DEF SwarmStates
    <3> QED BY <1>3, <1>5, <3>1, <3>2, OrderedOn
  <2>8. Channel(Moving, Collecting, Tail(c), 5)
    <3>1. 1 \in 1..Len(c) /\ \A i \in 1..Len(Tail(c)) : 1 < i + 1
      BY <1>4
    <3>2. \A i \in 1..Len(Tail(c)) : ~IsAck(Tail(c)[i])
      BY <1>4, <1>5, <2>2, <2>3, <3>1 DEF Channel
    <3> QED BY <2>3, <3>2 DEF Channel
  <2> QED BY <1>2, <1>5, <1>8, <2>2, <2>4, <2>5, <2>6, <2>7, <2>8, RoundOneQuad
<1>12. CASE Starts(q)
  <2>1. /\ IsAck(c[1]) /\ ~IsTarget(c[1]) /\ o = 5
        /\ quad'[q].swarm = 6 /\ quad'[q].nav /\ quad'[q].block = quad[q].block
    BY <1>5, <1>12, Kinds DEF Starts, SameBut
  <2>2. Moving /\ ~Aground
    BY <1>2, <1>12, TakesMeans, AgroundMeans
  <2>3. CallsAground(q)' => Aground
    <3>1. CallsAground(q)' => CallsAground(q)
      BY <1>2, <1>4, <2>1 DEF CallsAground
    <3> QED BY <1>7, <3>1
  <2>4. OwnTarget(q)'
    BY <1>1, <1>2, <1>4, <2>1 DEF InRound, OwnTarget
  <2>5. \A S \in Spread \cup {Landed} : Within(q, S) => Within(q, S)'
    <3> SUFFICES ASSUME NEW S \in Spread \cup {Landed}, Within(q, S) PROVE Within(q, S)'
      OBVIOUS
    <3>1. o \in S
      BY DEF Within
    <3>2. 6 \in S
      BY <2>1, <2>2, <3>1 DEF Spread, Landed, Holding, Moved
    <3> QED BY <1>2, <2>1, <3>2 DEF Within
  <2>6. Ordered(Moving, gcs.cached[q], up[q], 6)
    <3>1. Rank(Moving, o) <= Rank(Moving, 6)
      <4>1. Moving = TRUE
        BY <2>2 DEF Moving
      <4> QED BY <2>1, <4>1 DEF Rank
    <3>2. 6 \in SwarmStates /\ Rank(Moving, 6) <= Rank(Moving, 6)
      BY Ranks DEF SwarmStates
    <3> QED BY <1>3, <1>5, <3>1, <3>2, OrderedOn
  <2>7. Channel(Moving, Collecting, Tail(c), 6)
    <3>1. 1 \in 1..Len(c) /\ \A i \in 1..Len(Tail(c)) : 1 < i + 1
      BY <1>4
    <3>2. \A i \in 1..Len(Tail(c)) : ~IsTarget(Tail(c)[i])
      BY <1>4, <1>5, <2>1, <2>2, <3>1 DEF Channel
    <3> QED BY <2>2, <3>2 DEF Channel
  <2> QED BY <1>2, <1>5, <1>8, <2>1, <2>3, <2>4, <2>5, <2>6, <2>7, RoundOneQuad
<1> QED BY <1>2, <1>10, <1>11, <1>12

(* The flight plan goes on from "land here" only.                          *)
LEMMA RoundFlightPlan ==
  ASSUME IInv, FlightInv, RoundInv, NEW q \in Quads, FlightPlan(q), gcs' = gcs
  PROVE  RoundInv'
<1>1. QuadFlies(q) /\ InRound(q)
  BY DEF FlightInv, RoundInv
<1>2. /\ quad'[q].swarm = quad[q].swarm /\ quad'[q].nav = quad[q].nav
      /\ quad'[q].target = quad[q].target /\ UNCHANGED <<up, down>> /\ OthersKept(q)
      /\ quad[q].block # 5
  BY <1>1, FlightPlanFacts, Numbers DEF SameBut
<1>3. Aground
  BY <1>1, <1>2 DEF InRound, LandsTogether
<1>4. OwnTarget(q)' /\ \A S \in Spread \cup {Landed} : Within(q, S) => Within(q, S)'
  BY <1>1, <1>2 DEF InRound, OwnTarget, Within
<1>5. Rank(Moving, gcs.cached[q]) <= Rank(Moving, gcs'.cached[q])
  BY Ranks
<1> QED BY <1>1, <1>2, <1>3, <1>4, <1>5, RoundOneQuad DEF InRound, ThreadKept

(* The airborne handlers; no pilot disturbs.                               *)
LEMMA RoundAirborne ==
  ASSUME IInv, FlightInv, RoundInv, Undisturbed, NEW q \in Quads, Airborne(q), gcs' = gcs
  PROVE  RoundInv'
BY RoundPeriodic, RoundDeliver, RoundFlightPlan DEF Airborne, PilotMode, Undisturbed

(* A message or a report is lost.                                          *)
LEMMA RoundLoss ==
  ASSUME IInv, FlightInv, RoundInv, NEW q \in Quads, LoseDown(q) \/ LoseUp(q), UNCHANGED <<quad, gcs>>
  PROVE  RoundInv'
<1> DEFINE o == quad[q].swarm
<1>1. InRound(q)
  BY DEF RoundInv
<1>2. down[q] \in Seq(MessagesTo(q)) /\ up[q] \in Seq(SwarmStates)
  BY Shapes
<1>3. Moving \in BOOLEAN /\ Collecting \in BOOLEAN
  BY DEF Moving, Collecting
<1>4. Rank(Moving, gcs.cached[q]) <= Rank(Moving, gcs'.cached[q])
  BY Ranks
<1>5. CASE LoseDown(q)
  <2>1. down[q] # <<>> /\ down'[q] = Tail(down[q]) /\ up' = up /\ OthersKept(q)
    BY <1>5, LossFacts DEF OthersKept
  <2>2. Channel(Moving, Collecting, down'[q], o)
    BY <1>1, <1>2, <1>3, <2>1, ChannelTail DEF InRound
  <2>3. \A i \in 1..Len(down'[q]) : i + 1 \in 1..Len(down[q]) /\ down'[q][i] = down[q][i + 1]
    BY <1>2, <2>1, TailAt
  <2>4. CallsAground(q)' => Aground
    <3>1. CallsAground(q)' => CallsAground(q)
      BY <2>3 DEF CallsAground
    <3> QED BY <1>1, <3>1 DEF InRound, LandsTogether, CallsAground
  <2>5. OwnTarget(q)' /\ \A S \in Spread \cup {Landed} : Within(q, S) => Within(q, S)'
    BY <1>1, <2>1, <2>3 DEF InRound, OwnTarget, Within
  <2> QED BY <1>1, <1>4, <2>1, <2>2, <2>4, <2>5, RoundOneQuad DEF InRound, ThreadKept
<1>6. CASE LoseUp(q)
  <2>1. up[q] # <<>> /\ up'[q] = Tail(up[q]) /\ down' = down /\ OthersKept(q)
    BY <1>6, LossFacts DEF OthersKept
  <2>2. Ordered(Moving, gcs.cached[q], up'[q], o)
    BY <1>1, <1>2, <2>1, OrderedTail DEF InRound
  <2>3. \A i \in 1..Len(up'[q]) : i + 1 \in 1..Len(up[q]) /\ up'[q][i] = up[q][i + 1]
    BY <1>2, <2>1, TailAt
  <2>4. CallsAground(q)' => Aground
    BY <1>1, <2>1 DEF InRound, LandsTogether, CallsAground
  <2>5. OwnTarget(q)' /\ \A S \in Spread \cup {Landed} : Within(q, S) => Within(q, S)'
    BY <1>1, <2>1, <2>3 DEF InRound, OwnTarget, Within
  <2> QED BY <1>1, <1>4, <2>1, <2>2, <2>4, <2>5, RoundOneQuad DEF InRound, ThreadKept
<1> QED BY <1>5, <1>6

(* A report that arrives is not older than the last one.                   *)
LEMMA RoundReport ==
  ASSUME IInv, FlightInv, RoundInv, NEW q \in Quads, HandleReport(q), quad' = quad
  PROVE  RoundInv'
<1> DEFINE o == quad[q].swarm
<1>1. InRound(q)
  BY DEF RoundInv
<1>2. up[q] \in Seq(SwarmStates)
  BY Shapes
<1>3. /\ up[q] # <<>> /\ up'[q] = Tail(up[q]) /\ down' = down /\ OthersKept(q) /\ ThreadKept
      /\ gcs'.cached[q] = up[q][1] /\ \A r \in Quads \ {q} : gcs'.cached[r] = gcs.cached[r]
  BY HandleReportFacts DEF OthersKept, SameJob, ThreadKept
<1>4. /\ Ordered(Moving, gcs'.cached[q], up'[q], o)
      /\ Rank(Moving, gcs.cached[q]) <= Rank(Moving, gcs'.cached[q])
  BY <1>1, <1>2, <1>3, OrderedTail DEF InRound
<1>5. /\ 1 \in 1..Len(up[q])
      /\ \A i \in 1..Len(up'[q]) : i + 1 \in 1..Len(up[q]) /\ up'[q][i] = up[q][i + 1]
  BY <1>2, <1>3, TailAt
<1>6. CallsAground(q)' => Aground
  BY <1>1, <1>3 DEF InRound, LandsTogether, CallsAground
<1>7. OwnTarget(q)'
  BY <1>1, <1>3 DEF InRound, OwnTarget, ThreadKept
<1>8. \A S \in Spread \cup {Landed} : Within(q, S) => Within(q, S)'
  BY <1>3, <1>5 DEF Within
<1> QED BY <1>1, <1>3, <1>4, <1>6, <1>7, <1>8, RoundOneQuad DEF InRound

-----------------------------------------------------------------------------
(* The steps of the ground station's threads.                              *)

(* A message that the stage allows to be sent.                             *)
Fitting(q, m) ==
  /\ m \in MessagesTo(q)
  /\ IsTarget(m) => /\ ~Moving /\ Collecting
                    /\ q # LEADER => gcs.pc # "targets" /\ m.target = gcs.target[q]
  /\ IsAck(m) => Moving
  /\ IsBlock(m) => Aground

SentFitting(q) ==
  down'[q] = down[q] \/ \E m : Fitting(q, m) /\ down'[q] = Put(down[q], m, DOWN_CAP)

(* A step within a stage.                                                  *)
LEMMA RoundSameStage ==
  ASSUME IInv, RoundInv, quad' = quad, up' = up, SameTables, gcs'.wait = gcs.wait,
         gcs.pc = "targets" <=> gcs'.pc = "targets", ScanRank',
         \A q \in Quads : SentFitting(q)
  PROVE  RoundInv'
<1>1. /\ Moving' = Moving /\ Collecting' = Collecting /\ Landing' = Landing /\ Spread' = Spread
      /\ Moving \in BOOLEAN /\ Collecting \in BOOLEAN
  BY DEF Moving, Collecting, Landing, Spread
<1>2. \A q \in Quads, S \in Spread \cup {Landed} : Within(q, S) => Within(q, S)'
  BY DEF Within, SameTables
<1>3. Together' /\ (Aground => Aground')
  BY <1>1, <1>2 DEF RoundInv, Together, AllWithin, Aground
<1>4. ASSUME NEW q \in Quads PROVE InRound(q)'
  <2>1. InRound(q) /\ down[q] \in Seq(MessagesTo(q)) /\ Len(down[q]) \in Nat
    BY Shapes DEF RoundInv
  <2>2. Channel(Moving, Collecting, down'[q], quad[q].swarm)
    <3>1. CASE down'[q] = down[q]
      BY <2>1, <3>1 DEF InRound
    <3>2. ASSUME NEW m, Fitting(q, m), down'[q] = Put(down[q], m, DOWN_CAP)
          PROVE  Channel(Moving, Collecting, down'[q], quad[q].swarm)
      BY <1>1, <2>1, <3>2, ChannelPut DEF InRound, Fitting
    <3> QED BY <3>1, <3>2 DEF SentFitting
  <2>3. \A i \in 1..Len(down'[q]) :
          (i \in 1..Len(down[q]) /\ down'[q][i] = down[q][i]) \/ Fitting(q, down'[q][i])
    <3>1. ASSUME NEW m, Fitting(q, m), down'[q] = Put(down[q], m, DOWN_CAP),
                 NEW i \in 1..Len(down'[q])
          PROVE  (i \in 1..Len(down[q]) /\ down'[q][i] = down[q][i]) \/ Fitting(q, down'[q][i])
      <4>1. \/ down'[q] = down[q]
            \/ /\ Len(down'[q]) = Len(down[q]) + 1 /\ down'[q][Len(down[q]) + 1] = m
               /\ \A j \in 1..Len(down[q]) : down'[q][j] = down[q][j]
        BY <2>1, <3>1, PutAt DEF Fitting
      <4>2. CASE i = Len(down[q]) + 1 /\ down'[q][i] = m
        BY <3>1, <4>2
      <4> QED BY <2>1, <3>1, <4>1, <4>2
    <3> QED BY <3>1 DEF SentFitting
  <2>4. LandsTogether(q)'
    BY <1>3, <2>1, <2>3 DEF InRound, LandsTogether, Fitting
  <2>5. OwnTarget(q)'
    BY <2>1, <2>3 DEF InRound, OwnTarget, Fitting, SameTables
  <2> QED BY <1>1, <2>1, <2>2, <2>4, <2>5 DEF InRound, SameTables
<1> QED BY <1>3, <1>4 DEF RoundInv

(* A step from one stage to the next.                                      *)
LEMMA RoundNewStage ==
  ASSUME RoundInv, UNCHANGED <<quad, up, down>>, SameTables, ScanRank', Together',
         \A q \in Quads : /\ Ordered(Moving', gcs.cached[q], up[q], quad[q].swarm)
                          /\ Channel(Moving', Collecting', down[q], quad[q].swarm),
         Aground => Aground',
         gcs'.pc = "targets" => \A q \in Quads \ {LEADER} :
           /\ quad[q].swarm # SWARM_WAIT_EXEC_ACK
           /\ \A i \in 1..Len(down[q]) : ~IsTarget(down[q][i]),
         gcs.pc # "targets"
  PROVE  RoundInv'
<1>1. ASSUME NEW q \in Quads PROVE InRound(q)'
  <2>1. InRound(q)
    BY DEF RoundInv
  <2>2. LandsTogether(q)'
    BY <2>1 DEF InRound, LandsTogether
  <2>3. OwnTarget(q)'
    BY <2>1 DEF InRound, OwnTarget, SameTables
  <2> QED BY <2>1, <2>2, <2>3 DEF InRound, SameTables
<1> QED BY <1>1 DEF RoundInv

(* What all_in_state has seen when it returns true: all are in the goal's  *)
(* state, or further.                                                      *)
Beyond == {s \in InFlight : Rank(Moving, gcs.goal) <= Rank(Moving, s)}

(* Reports under way and the quads themselves are not before the table.    *)
LEMMA PassedBeyond ==
  ASSUME IInv, FlightInv, RoundInv, gcs.pc = "scan", Passed
  PROVE  AllWithin(Beyond)
<1> SUFFICES ASSUME NEW q \in Quads PROVE Within(q, Beyond)
  BY DEF AllWithin
<1>1. QuadFlies(q) /\ InRound(q) /\ ScanRank
  BY DEF FlightInv, RoundInv
<1>2. q < gcs.at \/ q = gcs.at
  BY SwarmLinkAssumption DEF Passed, Quads
<1>3. Rank(Moving, gcs.goal) \in Nat /\ Rank(Moving, gcs.cached[q]) \in Nat
  BY Ranks
<1>4. Rank(Moving, gcs.goal) <= Rank(Moving, gcs.cached[q])
  <2>1. CASE q < gcs.at
    BY <1>1, <2>1 DEF ScanRank
  <2>2. CASE q = gcs.at
    BY <1>3, <2>2 DEF Passed, Agrees
  <2> QED BY <1>2, <2>1, <2>2
<1>5. \A s : Rank(Moving, gcs.cached[q]) <= Rank(Moving, s) => Rank(Moving, gcs.goal) <= Rank(Moving, s)
  BY <1>4, Ranks
<1> QED BY <1>1, <1>4, <1>5 DEF Within, QuadFlies, InRound, Ordered, Beyond

(* So they are all where the stage allows and not before the goal.         *)
LEMMA BothWithin ==
  ASSUME NEW S, NEW T, NEW U, AllWithin(S), AllWithin(T), S \cap T \subseteq U
  PROVE  AllWithin(U)
BY DEF AllWithin, Within

(* Which states those are for each goal.                                   *)
LEMMA BeyondStates ==
  ASSUME Control(gcs), gcs.pc = "scan", NEW s \in Beyond
  PROVE  /\ gcs.wait = NONE /\ gcs.goal = 4 => s \in {4, 5, 6, 7, 8, 9}
         /\ gcs.wait = NONE /\ gcs.goal = 7 => s \in {5, 7, 8, 9}
         /\ gcs.wait # SWARM_EXEC_CMD /\ gcs.goal = 5 => s \in {5, 8, 9}
         /\ gcs.wait = SWARM_EXEC_CMD => s # 5
         /\ gcs.wait = SWARM_LANDED => s \in {8, 9}
<1> USE Numbers
<1>1. s \in {4, 5, 6, 7, 8, 9, 10} /\ Rank(Moving, gcs.goal) <= Rank(Moving, s)
  BY InFlightStates DEF Beyond
<1>2. CASE Moving = TRUE
  <2>1. gcs.goal \in {6, 7} /\ gcs.wait = 6
    BY <1>2 DEF Moving, Control, Moved
  <2>2. s # 5
    BY <1>1, <1>2, <2>1 DEF Rank
  <2> QED BY <2>1, <2>2
<1>3. CASE Moving = FALSE
  <2>1. gcs.wait # 6
    BY <1>3 DEF Moving
  <2>2. gcs.wait = SWARM_LANDED => gcs.goal = 9
    BY DEF Control
  <2>3. gcs.goal = 4 => s # 10
    BY <1>1, <1>3 DEF Rank
  <2>4. gcs.goal = 7 => s \notin {4, 6, 10}
    BY <1>1, <1>3 DEF Rank
  <2>5. gcs.goal = 5 => s \notin {4, 6, 7, 10}
    BY <1>1, <1>3 DEF Rank
  <2>6. gcs.goal = 9 => s \notin {4, 5, 6, 7, 10}
    BY <1>1, <1>3 DEF Rank
  <2> QED BY <1>1, <2>1, <2>2, <2>3, <2>4, <2>5, <2>6
<1> QED BY <1>2, <1>3 DEF Moving

(* compute_go_direction and send_target: no follower holds a target yet.   *)
LEMMA RoundGoTarget ==
  ASSUME IInv, FlightInv, RoundInv, GoTarget, quad' = quad
  PROVE  RoundInv'
<1> USE Numbers
<1>1. /\ gcs.pc = "targets" /\ gcs'.cached = gcs.cached /\ up' = up
      /\ \A r \in Quads \ {LEADER} : down'[r] = down[r]
      /\ gcs'.wait \in {NONE, SWARM_WAIT_EXEC_ACK} /\ (gcs'.pc = "targets" \/ gcs'.wait = SWARM_WAIT_EXEC_ACK)
      /\ gcs'.pc = "scan" => gcs'.at = 1
      /\ gcs.wait = NONE
  BY GoTargetFacts DEF FlightInv, Control
<1>2. PICK t \in Targets : down'[LEADER] = Put(down[LEADER], Target(t), DOWN_CAP)
  BY GoTargetFacts DEF Sent
<1>3. LEADER \in Quads /\ Target(t) \in MessagesTo(LEADER)
  BY SwarmLinkAssumption DEF Quads, MessagesTo, TargetsOf
<1>4. /\ ~Moving /\ Collecting /\ ~Landing /\ ~Moving' /\ Collecting' /\ ~Landing'
      /\ Moving' = Moving /\ Collecting' = Collecting /\ Spread' = Spread
  BY <1>1 DEF Moving, Collecting, Landing, Spread
<1>5. Together'
  BY <1>1, <1>4 DEF RoundInv, Together, AllWithin, Within
<1>6. ScanRank'
  <2>1. \A r \in Quads : ~(r < 1)
    BY SwarmLinkAssumption DEF Quads
  <2> QED BY <1>1, <2>1 DEF ScanRank
<1>7. ASSUME NEW q \in Quads PROVE InRound(q)'
  <2>1. InRound(q) /\ down[q] \in Seq(MessagesTo(q)) /\ Len(down[q]) \in Nat
    BY Shapes DEF RoundInv
  <2>2. ~CallsAground(q)
    BY <1>4, <2>1, AgroundMeans DEF InRound, LandsTogether, CallsAground
  <2>3. CASE q # LEADER
    <3>1. down'[q] = down[q]
      BY <1>1, <2>3
    <3>2. OwnTarget(q)'
      BY <1>1, <2>1, <2>3, <3>1 DEF InRound, OwnTarget
    <3> QED BY <1>1, <1>4, <2>1, <2>2, <3>1, <3>2 DEF InRound, LandsTogether, CallsAground
  <2>4. CASE q = LEADER
    <3>1. Channel(Moving, Collecting, down'[q], quad[q].swarm)
      <4>1. ~IsAck(Target(t)) /\ Moving \in BOOLEAN /\ Collecting \in BOOLEAN
        BY Kinds DEF Moving, Collecting
      <4> QED BY <1>2, <1>3, <1>4, <2>1, <2>4, <4>1, ChannelPut DEF InRound
    <3>2. LandsTogether(q)'
      <4>1. ~IsBlock(Target(t))
        BY Kinds
      <4>2. \A i \in 1..Len(down'[q]) : ~IsBlock(down'[q][i])
        <5>1. \/ down'[q] = down[q]
              \/ /\ Len(down'[q]) = Len(down[q]) + 1 /\ down'[q][Len(down[q]) + 1] = Target(t)
                 /\ \A j \in 1..Len(down[q]) : down'[q][j] = down[q][j]
          BY <1>2, <1>3, <2>1, <2>4, PutAt
        <5>2. \A j \in 1..Len(down[q]) : ~IsBlock(down[q][j])
          BY <2>2 DEF CallsAground
        <5> QED BY <2>1, <4>1, <5>1, <5>2
      <4> QED BY <2>2, <4>2 DEF LandsTogether, CallsAground
    <3>3. OwnTarget(q)'
      BY <2>4 DEF OwnTarget
    <3> QED BY <1>1, <1>4, <2>1, <3>1, <3>2, <3>3 DEF InRound
  <2> QED BY <2>3, <2>4
<1> QED BY <1>5, <1>6, <1>7 DEF RoundInv

(* The loop of wait_all_quads sends what its stage allows.                 *)
LEMMA RoundSendQuad ==
  ASSUME IInv, FlightInv, RoundInv, SendQuad, quad' = quad
  PROVE  RoundInv'
<1> USE Numbers
<1>1. /\ gcs.pc = "send" /\ SameTables /\ SameJob /\ up' = up
      /\ \/ down' = down
         \/ /\ down'[gcs.at] = Put(down[gcs.at], Message(gcs.at), DOWN_CAP)
            /\ \A r \in Quads \ {gcs.at} : down'[r] = down[r]
      /\ gcs'.pc = "send" \/ (gcs'.pc = "scan" /\ gcs'.at = 1 /\ gcs'.goal = gcs.wait)
  BY SendQuadFacts DEF Sent
<1>2. gcs.at \in Quads /\ Message(gcs.at) \in MessagesTo(gcs.at)
  BY Shapes, MessageOK DEF GcsOK, GcsType
<1>3. /\ gcs.wait = SWARM_WAIT_EXEC_ACK => Message(gcs.at) = Target(gcs.target[gcs.at])
      /\ gcs.wait = SWARM_EXEC_CMD => Message(gcs.at) = Ack(ACK_EXEC)
      /\ gcs.wait = SWARM_LANDED => Message(gcs.at) = Block(BLOCK_ID_LAND_HERE)
      /\ gcs.wait \in {SWARM_WAIT_EXEC_ACK, SWARM_EXEC_CMD, SWARM_LANDED}
  BY <1>1, <1>2, MessageFacts DEF FlightInv, Control
<1>4. gcs.target[gcs.at] \in Targets
  BY <1>2, Shapes DEF GcsType
<1>5. Fitting(gcs.at, Message(gcs.at))
  <2>1. CASE gcs.wait = SWARM_WAIT_EXEC_ACK
    BY <1>1, <1>2, <1>3, <1>4, <2>1, Kinds DEF Fitting, Moving, Collecting
  <2>2. CASE gcs.wait = SWARM_EXEC_CMD
    BY <1>2, <1>3, <2>2, Kinds DEF Fitting, Moving
  <2>3. CASE gcs.wait = SWARM_LANDED
    BY <1>2, <1>3, <2>3, Kinds DEF Fitting, Aground, Landing
  <2> QED BY <1>3, <2>1, <2>2, <2>3
<1>6. \A q \in Quads : SentFitting(q)
  BY <1>1, <1>5 DEF SentFitting
<1>7. ScanRank'
  <2>1. \A r \in Quads : ~(r < 1)
    BY SwarmLinkAssumption DEF Quads
  <2> QED BY <1>1, <2>1 DEF ScanRank
<1> QED BY <1>1, <1>6, <1>7, RoundSameStage DEF SameJob

(* The clock runs out.                                                     *)
LEMMA RoundTwoSeconds ==
  ASSUME IInv, FlightInv, RoundInv, TwoSeconds, quad' = quad
  PROVE  RoundInv'
<1>1. /\ SameTables /\ SameJob /\ UNCHANGED <<up, down>>
      /\ gcs'.pc = gcs.pc /\ gcs'.goal = gcs.goal /\ gcs'.at = gcs.at
  BY TwoSecondsFacts
<1>2. ScanRank'
  BY <1>1 DEF RoundInv, ScanRank, Moving, SameTables, SameJob
<1> QED BY <1>1, <1>2, RoundSameStage DEF SentFitting, SameJob

(* The buttons.                                                            *)
LEMMA RoundPress ==
  ASSUME IInv, FlightInv, RoundInv, RoundsOnly, Press, quad' = quad
  PROVE  RoundInv'
<1> USE Numbers
<1>1. /\ gcs.job = "none" /\ SameTables /\ UNCHANGED <<up, down>>
      /\ gcs'.pc = "scan" /\ gcs'.at = 1
      /\ gcs'.wait = SWARM_LANDED \/ gcs'.wait = gcs.wait
  BY PressFacts
<1>2. gcs.pc = "idle" /\ gcs.wait = NONE
  BY <1>1 DEF FlightInv, Control
<1>3. ScanRank'
  <2>1. \A r \in Quads : ~(r < 1)
    BY SwarmLinkAssumption DEF Quads
  <2> QED BY <1>1, <2>1 DEF ScanRank
<1>4. CASE gcs'.wait = gcs.wait
  BY <1>1, <1>2, <1>3, <1>4, RoundSameStage DEF SentFitting
<1>5. CASE gcs'.wait = SWARM_LANDED
  <2>1. /\ ~Moving /\ ~Collecting /\ ~Landing /\ ~Moving' /\ ~Collecting' /\ Landing'
        /\ Moving' = Moving /\ Collecting' = Collecting
    BY <1>1, <1>2, <1>5 DEF Moving, Collecting, Landing
  <2>2. Together'
    <3>1. PICK S \in {Free, Holding, Moved, Landed} : AllWithin(S)
      BY <2>1 DEF RoundInv, Together, Spread
    <3>2. PICK T \in {Free \cup Landed, Holding \cup Landed, Moved \cup Landed} : S \subseteq T
      OBVIOUS
    <3>3. AllWithin(T)
      BY <3>1, <3>2 DEF AllWithin, Within
    <3>4. AllWithin(T)'
      BY <1>1, <3>3 DEF AllWithin, Within, SameTables
    <3> QED BY <2>1, <3>4 DEF Together, Spread
  <2>3. \A q \in Quads : /\ Ordered(Moving', gcs.cached[q], up[q], quad[q].swarm)
                         /\ Channel(Moving', Collecting', down[q], quad[q].swarm)
    BY <2>1 DEF RoundInv, InRound
  <2> QED BY <1>1, <1>2, <1>3, <2>1, <2>2, <2>3, RoundNewStage DEF Aground
<1> QED BY <1>1, <1>4, <1>5

(* What the ground station has seen of each quad is what it is in.         *)
LEMMA AllAre ==
  ASSUME NEW S, AllWithin(S), NEW q \in Quads
  PROVE  /\ quad[q].swarm \in S /\ gcs.cached[q] \in S
         /\ \A i \in 1..Len(up[q]) : up[q][i] \in S
BY DEF AllWithin, Within

(* The go thread has seen every quad wait for a target and turns to        *)
(* compute them: nobody holds one and none is on its way to a follower.    *)
LEMMA RoundComputes ==
  ASSUME IInv, FlightInv, RoundInv, Computes, gcs.pc = "scan", SameTables, UNCHANGED <<quad, up, down>>
  PROVE  RoundInv'
<1> USE Numbers
<1>1. /\ gcs.wait = NONE /\ gcs'.wait = NONE /\ gcs'.pc = "targets" /\ gcs.goal \in {4, 7}
      /\ Control(gcs)
  BY DEF FlightInv, Control, Computes, SameJob
<1>2. /\ ~Moving /\ ~Collecting /\ ~Landing /\ ~Moving' /\ Collecting' /\ ~Landing'
      /\ Moving' = Moving
  BY <1>1 DEF Moving, Collecting, Landing
<1>3. AllWithin(Beyond)
  BY PassedBeyond DEF Computes
<1>4. PICK S \in {Free, Holding, Moved, Landed} : AllWithin(S)
  BY <1>2 DEF RoundInv, Together, Spread
<1>5. gcs.goal \in S
  <2>1. gcs.cached[gcs.at] = gcs.goal /\ gcs.at \in Quads
    BY Shapes DEF Computes, Passed, Agrees, GcsType
  <2> QED BY <1>4, <2>1, AllAre
<1>6. AllWithin({gcs.goal})
  <2>1. S \cap Beyond \subseteq {gcs.goal}
    BY <1>1, <1>5, BeyondStates DEF Free, Holding, Moved, Landed
  <2> QED BY <1>3, <1>4, <2>1, BothWithin
<1>7. Together'
  <2>1. PICK T \in {{SWARM_WAIT_CMD_TAKEOFF} \cup Holding, {SWARM_REPORT_STATE} \cup Holding} :
          gcs.goal \in T
    BY <1>1
  <2>2. AllWithin(T)
    BY <1>6, <2>1 DEF AllWithin, Within
  <2>3. AllWithin(T)'
    BY <2>2 DEF AllWithin, Within, SameTables
  <2> QED BY <1>2, <2>3 DEF Together, Spread
<1>8. ASSUME NEW q \in Quads
      PROVE  /\ Ordered(Moving', gcs.cached[q], up[q], quad[q].swarm)
             /\ Channel(Moving', Collecting', down[q], quad[q].swarm)
             /\ quad[q].swarm # SWARM_WAIT_EXEC_ACK
             /\ \A i \in 1..Len(down[q]) : ~IsTarget(down[q][i])
  <2>1. /\ Ordered(Moving, gcs.cached[q], up[q], quad[q].swarm)
        /\ Channel(Moving, Collecting, down[q], quad[q].swarm)
    BY DEF RoundInv, InRound
  <2>2. quad[q].swarm \in {4, 7}
    BY <1>1, <1>6, AllAre
  <2>3. \A i \in 1..Len(down[q]) : ~IsTarget(down[q][i])
    BY <1>2, <2>1, <2>2 DEF Channel, Holding, Landed
  <2> QED BY <1>2, <2>1, <2>2, <2>3 DEF Channel
<1>9. ~Aground
  <2>1. quad[1].swarm \in {4, 7}
    BY <1>1, <1>6, AllAre, FirstQuad
  <2> QED BY <1>2, <2>1, AllAre, FirstQuad DEF Aground, Landed
<1>10. ScanRank'
  BY <1>1 DEF ScanRank
<1> QED BY <1>7, <1>8, <1>9, <1>10, RoundNewStage

(* The execute thread has seen every quad hold its target.                 *)
LEMMA AllHold ==
  ASSUME IInv, FlightInv, RoundInv, Orders, gcs.pc = "scan"
  PROVE  AllWithin({5})
<1> USE Numbers
<1>1. gcs.wait = NONE /\ gcs.goal = 5 /\ Control(gcs)
  BY DEF FlightInv, Control, Orders
<1>2. AllWithin(Beyond)
  BY PassedBeyond DEF Orders
<1>3. PICK S \in {Free, Holding, Moved, Landed} : AllWithin(S)
  BY <1>1 DEF RoundInv, Together, Spread, Moving, Collecting, Landing
<1>4. gcs.goal \in S
  <2>1. gcs.cached[gcs.at] = gcs.goal /\ gcs.at \in Quads
    BY Shapes DEF Orders, Passed, Agrees, GcsType
  <2> QED BY <1>3, <2>1, AllAre
<1>5. S \cap Beyond \subseteq {5}
  BY <1>1, <1>4, BeyondStates DEF Free, Holding, Moved, Landed
<1> QED BY <1>2, <1>3, <1>5, BothWithin

(* It turns to make them move.                                             *)
LEMMA RoundOrders ==
  ASSUME IInv, FlightInv, RoundInv, Orders, gcs.pc = "scan", SameTables, UNCHANGED <<quad, up, down>>
  PROVE  RoundInv'
<1> USE Numbers
<1>1. /\ gcs.wait = NONE /\ gcs'.wait = SWARM_EXEC_CMD /\ gcs'.pc = "scan" /\ gcs'.at = 1
      /\ gcs.goal = 5 /\ Control(gcs)
  BY DEF FlightInv, Control, Orders
<1>2. /\ ~Moving /\ ~Collecting /\ ~Landing /\ Moving' /\ Moving' = TRUE
  BY <1>1 DEF Moving, Collecting, Landing
<1>3. AllWithin({5})
  BY AllHold
<1>4. Together'
  <2>1. AllWithin(Holding \cup Moved)
    BY <1>3 DEF AllWithin, Within, Holding
  <2>2. AllWithin(Holding \cup Moved)'
    BY <2>1 DEF AllWithin, Within, SameTables
  <2> QED BY <1>2, <2>2 DEF Together, Spread
<1>5. ASSUME NEW q \in Quads
      PROVE  /\ Ordered(Moving', gcs.cached[q], up[q], quad[q].swarm)
             /\ Channel(Moving', Collecting', down[q], quad[q].swarm)
  <2>1. Channel(Moving, Collecting, down[q], quad[q].swarm)
    BY DEF RoundInv, InRound
  <2>2. /\ quad[q].swarm = 5 /\ gcs.cached[q] = 5 /\ \A i \in 1..Len(up[q]) : up[q][i] = 5
        /\ Rank(Moving', 5) <= Rank(Moving', 5)
    BY <1>3, AllAre, Ranks
  <2>3. Ordered(Moving', gcs.cached[q], up[q], quad[q].swarm)
    BY <2>2 DEF Ordered
  <2>4. \A i \in 1..Len(down[q]) : ~IsAck(down[q][i])
    BY <1>2, <2>1, <2>2 DEF Channel, Moved, Landed
  <2> QED BY <1>2, <2>2, <2>3, <2>4 DEF Channel, Holding
<1>6. ~Aground
  <2>1. quad[1].swarm = 5
    BY <1>3, AllAre, FirstQuad
  <2> QED BY <1>2, <2>1, AllAre, FirstQuad DEF Aground, Landed
<1>7. ScanRank'
  <2>1. \A r \in Quads : ~(r < 1)
    BY SwarmLinkAssumption DEF Quads
  <2> QED BY <1>1, <2>1 DEF ScanRank
<1> QED BY <1>1, <1>4, <1>5, <1>6, <1>7, RoundNewStage

(* A change of the order that keeps the states of one quad in theirs.      *)
LEMMA OrderedAgain ==
  ASSUME NEW mv, NEW nv, NEW S, NEW c \in S, NEW u, NEW s \in S, \A i \in 1..Len(u) : u[i] \in S,
         \A x, y \in S : Rank(mv, x) <= Rank(mv, y) => Rank(nv, x) <= Rank(nv, y),
         Ordered(mv, c, u, s)
  PROVE  Ordered(nv, c, u, s)
BY DEF Ordered

(* 6 comes before 7 in both orders.                                        *)
LEMMA MovedAgain ==
  ASSUME NEW mv, NEW nv, mv = TRUE, nv = FALSE, NEW x \in {6, 7}, NEW y \in {6, 7},
         Rank(mv, x) <= Rank(mv, y)
  PROVE  Rank(nv, x) <= Rank(nv, y)
BY Numbers DEF Rank

(* The execute thread has seen every quad move.                            *)
LEMMA AllMoved ==
  ASSUME IInv, FlightInv, RoundInv, Ends, gcs.pc = "scan", Moving
  PROVE  AllWithin({6, 7})
<1> USE Numbers
<1>1. AllWithin(Beyond) /\ Control(gcs)
  BY PassedBeyond DEF Ends, Moving, FlightInv
<1>2. PICK S \in Spread : AllWithin(S)
  BY DEF RoundInv, Together
<1>3. S \cap Beyond \subseteq {6, 7}
  BY <1>1, <1>2, BeyondStates DEF Spread, Holding, Moved, Moving
<1> QED BY <1>1, <1>2, <1>3, BothWithin

(* A thread ends.                                                          *)
LEMMA RoundDone ==
  ASSUME IInv, FlightInv, RoundInv, Ends, gcs.pc = "scan", SameTables, UNCHANGED <<quad, up, down>>
  PROVE  RoundInv'
<1> USE Numbers
<1>1. gcs'.pc = "idle" /\ gcs'.wait = NONE /\ Control(gcs) /\ gcs.wait \in {NONE, 5, 6, 9}
  BY DEF FlightInv, Control, Ends
<1>2. ~Moving' /\ ~Collecting' /\ ~Landing' /\ Moving' = FALSE /\ ScanRank'
  BY <1>1 DEF Moving, Collecting, Landing, ScanRank
<1>3. CASE gcs.wait = NONE
  BY <1>1, <1>2, <1>3, RoundSameStage DEF SentFitting
<1>4. \A q \in Quads : /\ Ordered(Moving, gcs.cached[q], up[q], quad[q].swarm)
                       /\ Channel(Moving, Collecting, down[q], quad[q].swarm)
  BY DEF RoundInv, InRound
<1>5. PICK S \in Spread : AllWithin(S)
  BY DEF RoundInv, Together
<1>6. CASE gcs.wait # NONE
  <2>1. AllWithin(Beyond)
    BY <1>6, PassedBeyond DEF Ends
  <2>2. CASE gcs.wait = 5
    <3>1. /\ gcs.goal = 5 /\ ~Moving /\ Collecting /\ Moving' = Moving
          /\ Spread = {{4, 5}, {7, 5}}
      BY <1>1, <1>2, <2>2 DEF Moving, Collecting, Control, Spread, Holding
    <3>2. AllWithin({5})
      <4>1. S \cap Beyond \subseteq {5}
        BY <1>1, <1>5, <2>2, <3>1, BeyondStates
      <4> QED BY <1>5, <2>1, <4>1, BothWithin
    <3>3. AllWithin(Holding)'
      BY <3>2 DEF AllWithin, Within, SameTables, Holding
    <3>4. Together'
      BY <1>2, <3>3 DEF Together, Spread
    <3>5. \A q \in Quads : Channel(Moving', Collecting', down[q], quad[q].swarm)
      <4>1. \A q \in Quads : quad[q].swarm = 5
        BY <3>2, AllAre
      <4> QED BY <1>2, <1>4, <3>1, <4>1 DEF Channel, Holding
    <3> QED BY <1>1, <1>2, <1>4, <3>1, <3>4, <3>5, AgroundMeans, RoundNewStage
  <2>3. CASE gcs.wait = 6
    <3>1. Moving /\ Moving = TRUE
      BY <2>3 DEF Moving
    <3>2. AllWithin({6, 7})
      BY <3>1, AllMoved
    <3>3. AllWithin(Moved)'
      BY <3>2 DEF AllWithin, Within, SameTables, Moved
    <3>4. Together'
      BY <1>2, <3>3 DEF Together, Spread
    <3>5. ASSUME NEW q \in Quads
          PROVE  /\ Ordered(Moving', gcs.cached[q], up[q], quad[q].swarm)
                 /\ Channel(Moving', Collecting', down[q], quad[q].swarm)
      <4>1. /\ quad[q].swarm \in {6, 7} /\ gcs.cached[q] \in {6, 7}
            /\ \A i \in 1..Len(up[q]) : up[q][i] \in {6, 7}
        BY <3>2, AllAre
      <4>2. \A x, y \in {6, 7} : Rank(Moving, x) <= Rank(Moving, y) => Rank(Moving', x) <= Rank(Moving', y)
        BY <1>2, <3>1, MovedAgain
      <4>3. Ordered(Moving', gcs.cached[q], up[q], quad[q].swarm)
        <5>1. Ordered(Moving, gcs.cached[q], up[q], quad[q].swarm)
          BY <1>4
        <5> DEFINE T == {6, 7}
        <5>2. /\ quad[q].swarm \in T /\ gcs.cached[q] \in T
              /\ \A i \in 1..Len(up[q]) : up[q][i] \in T
              /\ \A x, y \in T : Rank(Moving, x) <= Rank(Moving, y) => Rank(Moving', x) <= Rank(Moving', y)
          BY <4>1, <4>2
        <5> HIDE DEF T
        <5> QED BY <5>1, <5>2, OrderedAgain
      <4>4. \A i \in 1..Len(down[q]) : ~IsTarget(down[q][i])
        <5>1. /\ quad[q].swarm \notin Holding
              /\ Channel(Moving, Collecting, down[q], quad[q].swarm)
          BY <1>4, <4>1 DEF Holding
        <5> QED BY <3>1, <5>1 DEF Channel
      <4> QED BY <1>2, <4>1, <4>3, <4>4 DEF Channel, Moved
    <3> QED BY <1>1, <1>2, <3>1, <3>4, <3>5, AgroundMeans, RoundNewStage
  <2>4. CASE gcs.wait = 9
    <3>1. /\ gcs.goal = 9 /\ ~Moving /\ ~Collecting /\ Landing /\ Moving' = Moving
          /\ Collecting' = Collecting
      BY <1>1, <1>2, <2>4 DEF Moving, Collecting, Landing, Control
    <3>2. AllWithin({8, 9})
      <4>1. S \cap Beyond \subseteq {8, 9}
        BY <1>1, <2>4, BeyondStates
      <4> QED BY <1>5, <2>1, <4>1, BothWithin
    <3>3. AllWithin(Landed)'
      BY <3>2 DEF AllWithin, Within, SameTables, Landed
    <3>4. Together' /\ Aground'
      BY <1>2, <3>3 DEF Together, Spread, Aground
    <3> QED BY <1>1, <1>2, <1>4, <3>1, <3>4, RoundNewStage
  <2> QED BY <1>1, <1>6, <2>2, <2>3, <2>4
<1> QED BY <1>3, <1>6

(* One turn of all_in_state.                                               *)
LEMMA RoundScanQuad ==
  ASSUME IInv, FlightInv, RoundInv, ScanQuad, quad' = quad
  PROVE  RoundInv'
<1> USE Numbers
<1>1. /\ gcs.pc = "scan" /\ SameTables /\ UNCHANGED <<up, down>>
      /\ ScansOn \/ LooksAgain \/ Computes \/ Orders \/ Ends \/ Sends
  BY ScanQuadFacts DEF FlightInv
<1>2. CASE ScansOn
  <2>1. /\ gcs'.pc = "scan" /\ gcs'.wait = gcs.wait /\ gcs'.goal = gcs.goal /\ gcs'.at = gcs.at + 1
        /\ gcs.cached[gcs.at] = gcs.goal /\ gcs.at \in Quads /\ Moving' = Moving
    BY <1>2, Shapes DEF ScansOn, SameJob, Agrees, Moving, GcsType
  <2>2. ScanRank'
    <3> SUFFICES ASSUME NEW r \in Quads, r < gcs.at + 1
                 PROVE  Rank(Moving, gcs.goal) <= Rank(Moving, gcs.cached[r])
      BY <1>1, <2>1 DEF ScanRank, SameTables
    <3>1. r < gcs.at \/ r = gcs.at
      BY <2>1, SwarmLinkAssumption DEF Quads
    <3>2. Rank(Moving, gcs.goal) \in Nat
      BY Ranks
    <3>3. CASE r = gcs.at
      BY <2>1, <3>2, <3>3
    <3>4. CASE r < gcs.at
      BY <1>1, <3>4 DEF RoundInv, ScanRank
    <3> QED BY <3>1, <3>3, <3>4
  <2> QED BY <1>1, <2>1, <2>2, RoundSameStage DEF SentFitting
<1>3. CASE LooksAgain
  <2>1. \A r \in Quads : ~(r < 1)
    BY SwarmLinkAssumption DEF Quads
  <2>2. ScanRank'
    BY <1>3, <2>1 DEF LooksAgain, ScanRank
  <2> QED BY <1>1, <1>3, <2>2, RoundSameStage DEF LooksAgain, SentFitting, SameJob
<1>4. CASE Sends
  <2>1. ScanRank'
    BY <1>4 DEF Sends, ScanRank
  <2> QED BY <1>1, <1>4, <2>1, RoundSameStage DEF Sends, SentFitting, SameJob
<1> QED BY <1>1, <1>2, <1>3, <1>4, RoundComputes, RoundOrders, RoundDone

(* Nothing is under way when the operator has pressed nothing.             *)
LEMMA RoundInit ==
  ASSUME RoundsOnly, Init
  PROVE  RoundInv
<1> USE Numbers
<1>1. ~Moving /\ ~Collecting /\ ~Landing /\ Moving = FALSE
  BY FlyingStart DEF Moving, Collecting, Landing
<1>2. AllWithin(Free)
  BY FlyingStart DEF AllWithin, Within, Free
<1>3. Rank(Moving, SWARM_KILLED) <= Rank(Moving, SWARM_WAIT_CMD_TAKEOFF)
  BY <1>1 DEF Rank
<1>4. \A q \in Quads : InRound(q)
  BY <1>3, FlyingStart DEF InRound, Ordered, Channel, LandsTogether, OwnTarget
<1>5. Together /\ ScanRank
  BY <1>1, <1>2, FlyingStart DEF Together, Spread, ScanRank
<1> QED BY <1>4, <1>5 DEF RoundInv

(* Any step.                                                               *)
LEMMA RoundNext ==
  ASSUME IInv, FlightInv, RoundInv, RoundsOnly, Undisturbed, [Next]_vars
  PROVE  RoundInv'
<1>1. CASE UNCHANGED vars
  BY <1>1 DEF vars, RoundInv, InRound, ScanRank, Together, Spread, AllWithin, Within, Moving,
     Collecting, Landing, Aground, LandsTogether, OwnTarget
<1>2. CASE Next
  BY <1>2, RoundAirborne, RoundLoss, RoundReport, RoundGoTarget, RoundSendQuad, RoundTwoSeconds,
     RoundPress, RoundScanQuad DEF Next, Job, GcsRestart, Undisturbed
<1> QED BY <1>1, <1>2
-----------------------------------------------------------------------------
(* The theorems about the rounds.                                          *)

(* All three invariants hold in every flight that nobody disturbs.         *)
LEMMA RoundInductive ==
  ASSUME RoundsOnly, Undisturbed
  PROVE  Spec => [](IInv /\ FlightInv /\ RoundInv)
<1>1. Init => FlightInv /\ RoundInv
  BY FlightInit, RoundInit
<1>2. IInv /\ FlightInv /\ RoundInv /\ [Next]_vars => FlightInv' /\ RoundInv'
  BY FlightNext, RoundNext
<1> QED BY <1>1, <1>2, SwarmInductive, PTL DEF Spec

(* For every number of quads, whatever the link loses or delays: a quad    *)
(* that is not the leader starts to move to the target that the ground     *)
(* station computed for it in the round under way.                         *)
THEOREM FollowersReachOwn ==
  ASSUME RoundsOnly, Undisturbed
  PROVE  Spec => FollowersOwnTarget
<1>1. ASSUME IInv, FlightInv, RoundInv, [Next]_vars
      PROVE  [\A q \in Quads \ {LEADER} : Executes(q) => quad'[q].waypoint = gcs.target[q]]_vars
  <2> SUFFICES ASSUME Next, NEW q \in Quads \ {LEADER}, Executes(q)
               PROVE  quad'[q].waypoint = gcs.target[q]
    BY <1>1
  <2>1. Starts(q)
    BY <1>1, ExecutesFacts
  <2>2. OwnTarget(q)
    BY <1>1 DEF RoundInv, InRound
  <2> QED BY <2>1, <2>2 DEF Starts, OwnTarget
<1> QED BY <1>1, RoundInductive, PTL DEF Spec, FollowersOwnTarget

(* For every number of quads: once "land here" has begun in a quad, no     *)
(* target and no execute acknowledgement that is still on its way takes    *)
(* it back into a round.                                                   *)
THEOREM LandingIsFinal ==
  ASSUME RoundsOnly, Undisturbed
  PROVE  Spec => LandingStands
<1> USE Numbers
<1>1. ASSUME IInv, FlightInv, RoundInv, Next, NEW q \in Quads,
             quad[q].block \in {BLOCK_ID_LAND_HERE, 12, 13},
             quad'[q].swarm \in {SWARM_WAIT_EXEC_ACK, SWARM_EXEC_CMD}
      PROVE  quad'[q].swarm = quad[q].swarm
  <2>1. InRound(q) /\ QuadFlies(q) /\ quad[q].block # 5
    BY <1>1 DEF RoundInv, FlightInv
  <2>2. ~Moving /\ ~Collecting
    BY <1>1, <2>1, AgroundMeans DEF InRound, LandsTogether
  <2>3. CASE quad' = quad
    BY <2>3
  <2>4. ASSUME NEW r \in Quads, Airborne(r) PROVE quad'[q].swarm = quad[q].swarm
    <3>1. QuadFlies(r)
      BY <1>1 DEF FlightInv
    <3>2. CASE r # q
      BY <1>1, <2>4, <3>2, PastStays DEF OthersKept
    <3>3. CASE SwarmPeriodic(q)
      BY <1>1, <2>1, <3>3, PeriodicFacts DEF AfterReport, ReportOf, InRound
    <3>4. CASE Deliver(q)
      <4>1. down[q] # <<>> /\ ((\E t \in Targets : Takes(q, t)) \/ Starts(q) \/ Lands(q) \/ quad'[q] = quad[q])
        BY <1>1, <2>1, <3>4, DeliverFacts
      <4> QED BY <1>1, <2>2, <4>1, TakesMeans DEF Lands, SameBut
    <3>5. CASE FlightPlan(q)
      BY <1>1, <2>1, <3>5, FlightPlanFacts DEF SameBut
    <3>6. CASE PilotMode(q)
      BY <1>1, <3>6, PilotModeFacts DEF SameBut
    <3> QED BY <2>4, <3>2, <3>3, <3>4, <3>5, <3>6 DEF Airborne
  <2> QED BY <1>1, <2>3, <2>4 DEF Next
<1>2. IInv /\ FlightInv /\ RoundInv /\ [Next]_vars =>
        [ \A q \in Quads :
            /\ quad[q].block \in {BLOCK_ID_LAND_HERE, 12, 13}
            /\ quad'[q].swarm \in {SWARM_WAIT_EXEC_ACK, SWARM_EXEC_CMD}
            => quad'[q].swarm = quad[q].swarm ]_vars
  BY <1>1
<1> QED BY <1>2, RoundInductive, PTL DEF Spec, LandingStands

(* How module SwarmRound sees a quad, by whether the round is executed.    *)
SeenAs(executed, s) ==
  CASE s = SWARM_WAIT_EXEC_ACK        -> "holding"
    [] s \in Moved /\ executed        -> "moved"
    [] s \in Landed                   -> "gone"
    [] OTHER                          -> "free"

Executed == Moving /\ \E q \in Quads : quad[q].swarm \in Moved

View ==
  /\ RoundPhase = IF Executed THEN "execute" ELSE "collect"
  /\ RoundState = [q \in Quads |-> SeenAs(Executed, quad[q].swarm)]

(* The refinement mapping in these words, before and after a step.         *)
LEMMA RoundView == View /\ View'
<1>1. RoundPhase = IF Executed THEN "execute" ELSE "collect"
  BY DEF RoundPhase, Executed, Moving
<1>2. ASSUME NEW s
      PROVE  (CASE s = SWARM_WAIT_EXEC_ACK               -> "holding"
                [] s \in Moved /\ RoundPhase = "execute" -> "moved"
                [] s \in {SWARM_LANDHERE, SWARM_LANDED}  -> "gone"
                [] OTHER                                 -> "free") = SeenAs(Executed, s)
  <2>1. RoundPhase = "execute" <=> Executed
    BY <1>1
  <2> QED BY <2>1, Numbers DEF SeenAs, Landed, Moved
<1>3. View
  BY <1>1, <1>2 DEF RoundState, View
<1> QED BY <1>3, PTL

(* What each state is seen as.                                             *)
LEMMA SeenStates ==
  ASSUME NEW e \in BOOLEAN, NEW s \in InFlight
  PROVE  /\ s = 5 => SeenAs(e, s) = "holding"
         /\ s \in Moved => SeenAs(e, s) = IF e THEN "moved" ELSE "free"
         /\ s \in Landed => SeenAs(e, s) = "gone"
         /\ s \in Free => SeenAs(e, s) = "free"
BY InFlightStates, Numbers DEF SeenAs, Free, Moved, Landed

(* A step that no quad and no stage notices.                               *)
LEMMA RoundStutters ==
  ASSUME quad' = quad, Executed' = Executed
  PROVE  UNCHANGED <<RoundPhase, RoundState>>
<1>1. RoundPhase' = RoundPhase
  BY RoundView DEF View
<1>2. RoundState' = RoundState
  BY RoundView DEF View
<1> QED BY <1>1, <1>2

(* A quad changes its state and nothing else does.                         *)
LEMMA SeenChange ==
  ASSUME NEW q \in Quads, OthersKept(q), Executed \in BOOLEAN, Executed' \in BOOLEAN,
         \A r \in Quads \ {q} : SeenAs(Executed', quad[r].swarm) = SeenAs(Executed, quad[r].swarm)
  PROVE  RoundState' = [RoundState EXCEPT ![q] = SeenAs(Executed', quad'[q].swarm)]
<1>1. /\ RoundState = [r \in Quads |-> SeenAs(Executed, quad[r].swarm)]
      /\ RoundState' = [r \in Quads |-> SeenAs(Executed', quad'[r].swarm)]
  BY RoundView DEF View
<1>2. \A r \in Quads \ {q} : SeenAs(Executed', quad'[r].swarm) = SeenAs(Executed, quad[r].swarm)
  BY DEF OthersKept
<1> QED BY <1>1, <1>2

(* A quad's own steps take a target, move or leave.                        *)
LEMMA RoundByQuad ==
  ASSUME IInv, FlightInv, RoundInv, Undisturbed, NEW q \in Quads, Airborne(q), gcs' = gcs
  PROVE  \/ Round!Take(q) \/ Round!Move(q) \/ Round!Leave(q)
         \/ UNCHANGED <<RoundPhase, RoundState>>
<1> USE Numbers
<1> DEFINE o == quad[q].swarm
           n == quad'[q].swarm
<1>1. QuadFlies(q) /\ InRound(q) /\ Moving' = Moving
  BY DEF FlightInv, RoundInv, Moving
<1>2. OthersKept(q) /\ Executed \in BOOLEAN /\ Executed' \in BOOLEAN
  BY PastStays DEF Executed
<1>3. o \in InFlight /\ \A r \in Quads : quad[r].swarm \in InFlight
  BY DEF FlightInv, QuadFlies
<1>4. /\ RoundPhase = IF Executed THEN "execute" ELSE "collect"
      /\ RoundPhase' = IF Executed' THEN "execute" ELSE "collect"
      /\ \A r \in Quads : RoundState[r] = SeenAs(Executed, quad[r].swarm)
      /\ RoundState = [r \in Quads |-> RoundState[r]]
  BY RoundView DEF View
<1>5. (o \in Moved <=> n \in Moved) => Executed' = Executed
  BY <1>1, <1>2 DEF Executed, OthersKept
<1>6. ~Moving => Executed' = Executed /\ ~Executed
  BY <1>1 DEF Executed
<1>7. Executed' = Executed => RoundPhase' = RoundPhase
                              /\ RoundState' = [RoundState EXCEPT ![q] = SeenAs(Executed, n)]
  BY <1>2, <1>4, SeenChange
<1> HIDE DEF o, n
<1>8. CASE n = o
  <2>1. Executed' = Executed
    BY <1>5, <1>8
  <2> QED BY <1>4, <1>7, <1>8, <2>1 DEF o
<1>9. CASE o = 6 /\ n = 7
  <2>1. Executed' = Executed
    BY <1>5, <1>9 DEF Moved
  <2>2. SeenAs(Executed, n) = SeenAs(Executed, o)
    BY <1>9 DEF SeenAs, Moved
  <2> QED BY <1>4, <1>7, <2>1, <2>2 DEF o
<1>10. CASE n \in {8, 9} /\ ~Moving
  <2>1. SeenAs(Executed, n) = "gone"
    BY <1>2, <1>10, SeenStates, InFlightStates DEF Landed
  <2> QED BY <1>4, <1>6, <1>7, <1>10, <2>1 DEF Round!Leave
<1>11. CASE o \in {4, 7} /\ n = 5 /\ ~Moving
  <2>1. SeenAs(Executed, n) = "holding" /\ SeenAs(Executed, o) = "free"
    BY <1>2, <1>3, <1>6, <1>11, SeenStates, InFlightStates DEF Free, Moved
  <2> QED BY <1>4, <1>6, <1>7, <1>11, <2>1 DEF Round!Take, o
<1>12. CASE o = 5 /\ n = 6 /\ Moving
  <2>1. Executed'
    BY <1>1, <1>12 DEF Executed, Moved, n
  <2>2. SeenAs(Executed', n) = "moved" /\ SeenAs(Executed, o) = "holding"
    BY <1>2, <1>3, <1>12, <2>1, SeenStates, InFlightStates DEF Moved
  <2>3. ASSUME NEW r \in Quads
        PROVE  /\ SeenAs(Executed', quad[r].swarm) = SeenAs(Executed, quad[r].swarm)
               /\ ~Executed => SeenAs(Executed, quad[r].swarm) = "holding"
    <3>1. quad[r].swarm \in Holding \cup Moved
      BY <1>12 DEF RoundInv, Together, AllWithin, Within, Spread
    <3>2. CASE Executed
      <4>1. Executed' = Executed
        BY <1>2, <2>1, <3>2
      <4> QED BY <2>1, <3>2 DEF SeenAs
    <3>3. CASE ~Executed
      <4>1. quad[r].swarm = 5
        BY <1>12, <3>1, <3>3 DEF Executed, Holding
      <4>2. SeenAs(Executed, quad[r].swarm) = "holding" /\ SeenAs(Executed', quad[r].swarm) = "holding"
        BY <1>2, <1>3, <4>1, SeenStates
      <4> QED BY <4>2
    <3> QED BY <3>2, <3>3
  <2>4. RoundState' = [RoundState EXCEPT ![q] = "moved"]
    BY <1>2, <2>2, <2>3, SeenChange DEF n
  <2> QED BY <1>4, <2>1, <2>2, <2>3, <2>4 DEF Round!Move, o
<1>13. CASE SwarmPeriodic(q)
  <2>1. n = AfterReport(ReportOf(quad[q])) /\ (quad[q].block # 5 => ~Moving)
    BY <1>1, <1>13, PeriodicFacts, AgroundMeans DEF InRound, LandsTogether, n
  <2>2. ReportOf(quad[q]) = o \/ (ReportOf(quad[q]) \in {8, 9} /\ ~Moving)
    BY <1>1, <2>1 DEF ReportOf, InRound, o
  <2> QED BY <1>8, <1>9, <1>10, <2>1, <2>2 DEF AfterReport
<1>14. CASE Deliver(q)
  <2>1. down[q] # <<>> /\ ((\E t \in Targets : Takes(q, t)) \/ Starts(q) \/ Lands(q) \/ quad'[q] = quad[q])
    BY <1>1, <1>14, DeliverFacts
  <2>2. CASE \E t \in Targets : Takes(q, t)
    <3>1. Collecting /\ o \in {4, 7} /\ n = 5
      BY <2>1, <2>2, TakesMeans DEF Takes, o, n
    <3>2. ~Moving
      BY <3>1 DEF Moving, Collecting, FlightInv, Control
    <3> QED BY <1>11, <3>1, <3>2
  <2>3. CASE Starts(q)
    BY <1>12, <2>1, <2>3, TakesMeans DEF Starts, o, n
  <2> QED BY <1>8, <2>1, <2>2, <2>3 DEF Lands, SameBut, o, n
<1>15. CASE FlightPlan(q)
  BY <1>1, <1>8, <1>15, FlightPlanFacts DEF SameBut, o, n
<1>16. CASE PilotMode(q)
  BY <1>16 DEF PilotMode, Undisturbed
<1> QED BY <1>13, <1>14, <1>15, <1>16 DEF Airborne

(* The ground station ends a round when it ends its wait for all to move.  *)
LEMMA RoundByGround ==
  ASSUME IInv, FlightInv, RoundInv, RoundsOnly, Undisturbed, quad' = quad,
         Press \/ Job \/ TwoSeconds \/ GcsRestart \/ \E q \in Quads : HandleReport(q)
  PROVE  Round!EndRound \/ UNCHANGED <<RoundPhase, RoundState>>
<1> USE Numbers
<1>1. Control(gcs)
  BY DEF FlightInv
<1>2. CASE gcs'.wait = gcs.wait
  BY <1>2, RoundStutters DEF Executed, Moving
<1>3. CASE ~Moving /\ ~Moving'
  BY <1>3, RoundStutters DEF Executed
<1>4. CASE Press
  BY <1>1, <1>3, <1>4, PressFacts DEF Control, Moving
<1>5. CASE ScanQuad
  <2>1. /\ gcs.pc = "scan"
        /\ ScansOn \/ LooksAgain \/ Computes \/ Orders \/ Ends \/ Sends
    BY <1>1, <1>5, ScanQuadFacts
  <2>2. CASE ScansOn \/ LooksAgain \/ Computes \/ Sends
    BY <1>2, <2>2 DEF ScansOn, LooksAgain, Computes, Sends, SameJob
  <2>3. CASE Orders
    <3>1. ~Executed
      BY <2>3 DEF Executed, Moving, Orders
    <3>2. ~Executed'
      <4>1. \A q \in Quads : quad[q].swarm = 5
        BY <2>1, <2>3, AllHold, AllAre
      <4> QED BY <4>1 DEF Executed, Moved
    <3>3. Executed' = Executed
      BY <3>1, <3>2 DEF Executed
    <3> QED BY <3>3, RoundStutters
  <2>4. CASE Ends /\ Moving
    <3>1. \A q \in Quads : quad[q].swarm \in Moved
      BY <2>1, <2>4, AllMoved, AllAre DEF Moved
    <3>2. Executed /\ ~Executed'
      BY <2>4, <3>1, FirstQuad DEF Executed, Ends, Moving
    <3>3. /\ RoundPhase = "execute" /\ RoundPhase' = "collect"
          /\ RoundState = [q \in Quads |-> SeenAs(Executed, quad[q].swarm)]
          /\ RoundState' = [q \in Quads |-> SeenAs(Executed', quad[q].swarm)]
      BY <3>2, RoundView DEF View
    <3>4. \A q \in Quads : SeenAs(Executed, quad[q].swarm) = "moved"
                           /\ SeenAs(Executed', quad[q].swarm) = "free"
      <4>1. \A q \in Quads : quad[q].swarm \in {6, 7} /\ quad[q].swarm \notin Landed
        BY <3>1 DEF Moved, Landed
      <4> QED BY <3>1, <3>2, <4>1 DEF SeenAs
    <3> QED BY <3>3, <3>4 DEF Round!EndRound
  <2>5. CASE Ends /\ ~Moving
    BY <1>3, <2>5 DEF Ends, Moving
  <2> QED BY <2>1, <2>2, <2>3, <2>4, <2>5
<1>6. CASE GoTarget
  <2>1. gcs.wait = NONE /\ gcs'.wait \in {NONE, SWARM_WAIT_EXEC_ACK}
    BY <1>1, <1>6, GoTargetFacts DEF Control
  <2> QED BY <1>3, <2>1 DEF Moving
<1>7. CASE SendQuad
  BY <1>2, <1>7, SendQuadFacts DEF SameJob
<1>8. CASE TwoSeconds
  BY <1>2, <1>8, TwoSecondsFacts DEF SameJob
<1>9. CASE \E q \in Quads : HandleReport(q)
  BY <1>2, <1>9, HandleReportFacts DEF SameJob
<1> QED BY <1>4, <1>5, <1>6, <1>7, <1>8, <1>9 DEF Job, GcsRestart, Undisturbed

(* For every number of quads, whatever the link loses, repeats or delays:  *)
(* the go and execute threads run the rounds of module SwarmRound.  A step *)
(* of a quad takes a target, moves or leaves, the thread's last look ends  *)
(* a round, and every other step changes nothing of the round.             *)
THEOREM RoundsImplemented ==
  ASSUME RoundsOnly, Undisturbed
  PROVE  Spec => ImplementsRound
<1>1. Init => Round!Init
  <2> SUFFICES ASSUME Init PROVE Round!Init
    OBVIOUS
  <2>1. ~Executed
    BY FlyingStart, Numbers DEF Executed, Moving
  <2>2. \A q \in Quads : SeenAs(Executed, quad[q].swarm) = "free"
    BY FlyingStart, Numbers DEF SeenAs, Moved, Landed
  <2> QED BY <2>1, <2>2, RoundView DEF View, Round!Init
<1>2. IInv /\ FlightInv /\ RoundInv /\ [Next]_vars => [Round!Next]_(Round!vars)
  <2> SUFFICES ASSUME IInv, FlightInv, RoundInv, [Next]_vars
               PROVE  Round!Next \/ UNCHANGED <<RoundPhase, RoundState>>
    BY DEF Round!vars
  <2>1. CASE UNCHANGED vars
    <3>1. quad' = quad /\ Executed' = Executed
      BY <2>1 DEF vars, Executed, Moving
    <3> QED BY <3>1, RoundStutters
  <2>2. ASSUME NEW q \in Quads, Airborne(q), gcs' = gcs
        PROVE  Round!Next \/ UNCHANGED <<RoundPhase, RoundState>>
    BY <2>2, RoundByQuad DEF Round!Next
  <2>3. CASE /\ \E q \in Quads : LoseDown(q) \/ LoseUp(q)
             /\ UNCHANGED <<quad, gcs>>
    <3>1. quad' = quad /\ Executed' = Executed
      BY <2>3 DEF Executed, Moving
    <3> QED BY <3>1, RoundStutters
  <2>4. CASE /\ Press \/ Job \/ TwoSeconds \/ GcsRestart \/ \E q \in Quads : HandleReport(q)
             /\ UNCHANGED quad
    BY <2>4, RoundByGround DEF Round!Next
  <2> QED BY <2>1, <2>2, <2>3, <2>4 DEF Next
<1> QED BY <1>1, <1>2, RoundInductive, PTL DEF Spec, ImplementsRound, Round!Spec
=============================================================================
