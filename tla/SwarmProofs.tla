---------------------------- MODULE SwarmProofs ----------------------------
(***************************************************************************)
(* Theorems about module SwarmSystem, for every number of quadcopters and  *)
(* every leader, link, set of buttons and start.                           *)
(*                                                                         *)
(* The inductive invariant says of each place a target passes through on   *)
(* its way (the ground station's table, a message, a quad's target, its    *)
(* waypoint) that what is there for a quad other than the leader is that   *)
(* quad's own.                                                             *)
(***************************************************************************)
EXTENDS SwarmSystem, SequenceTheorems, TLAPS

(* What quad q may hold or be sent.                                        *)
TargetsOf(q) == {t \in Targets : q = LEADER \/ t.owner \in {0, q}}

MessagesTo(q) ==
  {Ack(a) : a \in {ACK_NAV, ACK_EXEC, ACK_KILL, ACK_REF}}
    \cup {Block(b) : b \in Blocks} \cup {Target(t) : t \in TargetsOf(q)}

QuadOK(q, x) == /\ x \in QuadType
                /\ x.target \in TargetsOf(q)
                /\ x.waypoint \in TargetsOf(q)

(* The go thread's direction is set while it computes targets.             *)
GcsOK(g) == /\ g \in GcsType
            /\ g.pc = "targets" => g.job = "go"
            /\ g.job = "go" => g.dir \in DIRECTIONS
            /\ \A q \in Quads : g.target[q].owner \in {0, q}

DownOK(q, c) == c \in Seq(MessagesTo(q)) /\ Len(c) <= DOWN_CAP
UpOK(c)      == c \in Seq(SwarmStates) /\ Len(c) <= UP_CAP

QuadsOK == quad \in [Quads -> QuadType] /\ \A q \in Quads : QuadOK(q, quad[q])
DownsOK == down = [q \in Quads |-> down[q]] /\ \A q \in Quads : DownOK(q, down[q])
UpsOK   == up = [q \in Quads |-> up[q]] /\ \A q \in Quads : UpOK(up[q])

IInv == QuadsOK /\ DownsOK /\ UpsOK /\ GcsOK(gcs)

-----------------------------------------------------------------------------
(* The link: a message put on a channel leaves it a channel, a full one    *)
(* drops it.                                                               *)
LEMMA SentOK ==
  ASSUME NEW q \in Quads, NEW c, DownOK(q, c), NEW m \in MessagesTo(q)
  PROVE  DownOK(q, Sent(c, m))
BY SwarmLinkAssumption DEF DownOK, Sent, Put

(* A report put on a channel leaves it a channel of states.                *)
LEMMA ReportedOK ==
  ASSUME NEW c, UpOK(c), NEW s \in SwarmStates
  PROVE  UpOK(Reported(c, s))
BY SwarmLinkAssumption DEF UpOK, Reported, Put

(* A message is taken from the front of a channel.                         *)
LEMMA TakenOK ==
  ASSUME NEW q \in Quads, NEW c, DownOK(q, c), c # <<>>
  PROVE  DownOK(q, Tail(c)) /\ Head(c) \in MessagesTo(q)
<1>1. c \in Seq(MessagesTo(q)) /\ Len(c) <= DOWN_CAP
  BY DEF DownOK
<1>2. Head(c) \in MessagesTo(q) /\ Tail(c) \in Seq(MessagesTo(q))
  BY <1>1, HeadTailProperties
<1>3. Len(Tail(c)) <= DOWN_CAP
  BY <1>1, HeadTailProperties, SwarmLinkAssumption
<1> QED
  BY <1>2, <1>3 DEF DownOK

(* A report is read from the front of a channel.                           *)
LEMMA ReadOK ==
  ASSUME NEW c, UpOK(c), c # <<>>
  PROVE  UpOK(Tail(c)) /\ Head(c) \in SwarmStates
<1>1. c \in Seq(SwarmStates) /\ Len(c) <= UP_CAP
  BY DEF UpOK
<1>2. Head(c) \in SwarmStates /\ Tail(c) \in Seq(SwarmStates)
  BY <1>1, HeadTailProperties
<1>3. Len(Tail(c)) <= UP_CAP
  BY <1>1, HeadTailProperties, SwarmLinkAssumption
<1> QED
  BY <1>2, <1>3 DEF UpOK

(* Updates of one entry.                                                   *)
LEMMA QuadStep ==
  ASSUME QuadsOK, NEW q \in Quads, NEW x, QuadOK(q, x), quad' = [quad EXCEPT ![q] = x]
  PROVE  QuadsOK'
BY DEF QuadsOK, QuadOK

(* A channel to a quad is replaced by one with messages for that quad.     *)
LEMMA DownStep ==
  ASSUME DownsOK, NEW q \in Quads, NEW c, DownOK(q, c), down' = [down EXCEPT ![q] = c]
  PROVE  DownsOK'
BY DEF DownsOK

(* A channel from a quad is replaced by another one of states.             *)
LEMMA UpStep ==
  ASSUME UpsOK, NEW q \in Quads, NEW c, UpOK(c), up' = [up EXCEPT ![q] = c]
  PROVE  UpsOK'
BY DEF UpsOK

(* Updates of one field.                                                   *)
LEMMA QuadTarget ==
  ASSUME NEW q \in Quads, NEW x, QuadOK(q, x), NEW t \in TargetsOf(q)
  PROVE  QuadOK(q, [x EXCEPT !.target = t])
<1>1. t \in Targets /\ x \in QuadType
  BY DEF TargetsOf, QuadOK
<1>2. [x EXCEPT !.target = t] \in QuadType
  BY <1>1 DEF QuadType
<1>3. [x EXCEPT !.target = t].target = t
  BY <1>1 DEF QuadType
<1>4. [x EXCEPT !.target = t].waypoint = x.waypoint
  BY <1>1 DEF QuadType
<1> QED
  BY <1>2, <1>3, <1>4 DEF QuadOK

(* The same of its waypoint.                                               *)
LEMMA QuadWaypoint ==
  ASSUME NEW q \in Quads, NEW x, QuadOK(q, x), NEW t \in TargetsOf(q)
  PROVE  QuadOK(q, [x EXCEPT !.waypoint = t])
<1>1. t \in Targets /\ x \in QuadType
  BY DEF TargetsOf, QuadOK
<1>2. [x EXCEPT !.waypoint = t] \in QuadType
  BY <1>1 DEF QuadType
<1>3. [x EXCEPT !.waypoint = t].waypoint = t
  BY <1>1 DEF QuadType
<1>4. [x EXCEPT !.waypoint = t].target = x.target
  BY <1>1 DEF QuadType
<1> QED
  BY <1>2, <1>3, <1>4 DEF QuadOK

(* The same of quad_swarm_state.                                           *)
LEMMA QuadSwarmState ==
  ASSUME NEW q \in Quads, NEW x, QuadOK(q, x), NEW s \in SwarmStates
  PROVE  QuadOK(q, [x EXCEPT !.swarm = s])
BY DEF QuadOK, QuadType

-----------------------------------------------------------------------------
(* The airborne handlers keep a quad's fields in their types and its       *)
(* targets its own.                                                        *)
LEMMA SampledOK ==
  ASSUME NEW q \in Quads, NEW x, QuadOK(q, x)
  PROVE  QuadOK(q, Sampled(x))
<1>1. NoTarget \in TargetsOf(q) /\ NoTarget \in Targets
  BY DEF TargetsOf, Targets, NoTarget
<1>2. QuadOK(q, SwarmInit(x))
  <2>1. SwarmInit(x) = [[x EXCEPT !.swarm = SWARM_KILLED] EXCEPT !.target = NoTarget]
    BY DEF SwarmInit, QuadOK, QuadType
  <2>2. SWARM_KILLED \in SwarmStates
    BY DEF SwarmStates, SWARM_KILLED
  <2>3. QuadOK(q, [x EXCEPT !.swarm = SWARM_KILLED])
    BY <2>2, QuadSwarmState
  <2>4. QuadOK(q, [[x EXCEPT !.swarm = SWARM_KILLED] EXCEPT !.target = NoTarget])
    BY <1>1, <2>3, QuadTarget
  <2> QED
    BY <2>1, <2>4
<1> DEFINE y == IF x.nav THEN x ELSE SwarmInit(x)
<1>3. QuadOK(q, y)
  BY <1>2
<1>4. \A s \in SwarmStates : QuadOK(q, [y EXCEPT !.swarm = s])
  BY <1>3 DEF QuadOK, QuadType
<1>5. SWARM_LANDHERE \in SwarmStates /\ SWARM_LANDED \in SwarmStates
  BY DEF SWARM_LANDHERE, SWARM_LANDED, SwarmStates
<1>6. BLOCK_ID_LAND_HERE # 12
  BY DEF BLOCK_ID_LAND_HERE
<1> HIDE DEF y
<1>7. Sampled(x) = CASE x.block = BLOCK_ID_LAND_HERE -> [y EXCEPT !.swarm = SWARM_LANDHERE]
                     [] x.block = 12                 -> [y EXCEPT !.swarm = SWARM_LANDED]
                     [] OTHER                        -> y
  BY DEF Sampled, y
<1> QED
  BY <1>3, <1>4, <1>5, <1>6, <1>7

(* quad_swarm_periodic moves no target.                                    *)
LEMMA PeriodicStep ==
  ASSUME QuadsOK, DownsOK, UpsOK, NEW q \in Quads, SwarmPeriodic(q)
  PROVE  QuadsOK' /\ DownsOK' /\ UpsOK'
<1> DEFINE x == Sampled(quad[q])
<1>1. QuadOK(q, x)
  BY SampledOK DEF QuadsOK
<1>2. quad' = [quad EXCEPT ![q] = [x EXCEPT !.swarm = SwarmNext(x)]]
      /\ up' = [up EXCEPT ![q] = Reported(@, x.swarm)] /\ down' = down
  BY DEF SwarmPeriodic
<1> HIDE DEF x
<1>3. x.swarm \in SwarmStates
  BY <1>1 DEF QuadOK, QuadType
<1>4. SwarmNext(x) \in SwarmStates
  BY <1>3 DEF SwarmNext, SwarmStates, SWARM_INIT, SWARM_NEGOTIATE_REF, SWARM_WAIT_CMD,
     SWARM_WAIT_CMD_START_ENGINE, SWARM_WAIT_CMD_TAKEOFF, SWARM_EXEC_CMD,
     SWARM_REPORT_STATE, BLOCK_ID_HOLDING_POINT, BLOCK_ID_START_ENGINE, BLOCK_ID_TAKE_OFF
<1>5. QuadOK(q, [x EXCEPT !.swarm = SwarmNext(x)])
  BY <1>1, <1>4 DEF QuadOK, QuadType
<1>6. QuadsOK'
  BY <1>2, <1>5, QuadStep
<1>7. UpOK(Reported(up[q], x.swarm))
  BY <1>3, ReportedOK DEF UpsOK
<1>8. UpsOK'
  BY <1>2, <1>7, UpStep DEF UpsOK
<1>9. DownsOK'
  BY <1>2 DEF DownsOK
<1> QED
  BY <1>6, <1>8, <1>9

(* quad_swarm_datalink stores the quad's own target, and the execute       *)
(* acknowledgement makes that its waypoint.                                *)
LEMMA DeliverStep ==
  ASSUME QuadsOK, DownsOK, UpsOK, NEW q \in Quads, Deliver(q)
  PROVE  QuadsOK' /\ DownsOK' /\ UpsOK'
<1> DEFINE m == Head(down[q])
           r == CASE m.type = "quad_swarm_msg" -> OnTarget(quad[q], m.target)
                  [] m.type = "block"          -> OnBlock(quad[q], m.block)
                  [] OTHER                     -> OnAck(quad[q], m.ack)
<1>1. DownOK(q, Tail(down[q])) /\ m \in MessagesTo(q)
  BY TakenOK DEF DownsOK, Deliver
<1>2. quad' = [quad EXCEPT ![q] = r] /\ down' = [down EXCEPT ![q] = Tail(down[q])] /\ up' = up
  BY DEF Deliver
<1>3. QuadOK(q, quad[q])
  BY DEF QuadsOK
<1>4. QuadOK(q, r)
  <2>1. CASE m \in {Target(t) : t \in TargetsOf(q)}
    <3>1. PICK t \in TargetsOf(q) : m = Target(t)
      BY <2>1
    <3>2. m.type = "quad_swarm_msg" /\ m.target = t
      BY <3>1 DEF Target
    <3>3. r = OnTarget(quad[q], t)
      BY <3>2
    <3>4. OnTarget(quad[q], t) =
            IF quad[q].swarm \in {SWARM_WAIT_CMD_TAKEOFF, SWARM_REPORT_STATE}
            THEN [[quad[q] EXCEPT !.target = t] EXCEPT !.swarm = SWARM_WAIT_EXEC_ACK]
            ELSE quad[q]
      BY <1>3 DEF OnTarget, QuadOK, QuadType
    <3>5. SWARM_WAIT_EXEC_ACK \in SwarmStates
      BY DEF SwarmStates, SWARM_WAIT_EXEC_ACK
    <3>6. QuadOK(q, [quad[q] EXCEPT !.target = t])
      BY <1>3, QuadTarget
    <3>7. QuadOK(q, [[quad[q] EXCEPT !.target = t] EXCEPT !.swarm = SWARM_WAIT_EXEC_ACK])
      BY <3>5, <3>6, QuadSwarmState
    <3>8. QuadOK(q, OnTarget(quad[q], t))
      BY <1>3, <3>4, <3>7
    <3> QED
      BY <3>3, <3>8
  <2>2. CASE m \in {Block(b) : b \in Blocks}
    <3>1. PICK b \in Blocks : m = Block(b)
      BY <2>2
    <3>2. m.type = "block" /\ m.block = b
      BY <3>1 DEF Block
    <3>3. r = OnBlock(quad[q], b)
      BY <3>2
    <3> QED
      BY <1>3, <3>3 DEF OnBlock, QuadOK, QuadType
  <2>3. CASE m \in {Ack(a) : a \in {ACK_NAV, ACK_EXEC, ACK_KILL, ACK_REF}}
    <3>1. PICK a \in {ACK_NAV, ACK_EXEC, ACK_KILL, ACK_REF} : m = Ack(a)
      BY <2>3
    <3>2. m.type = "quad_swarm_ack_forwarded" /\ m.ack = a
      BY <3>1 DEF Ack
    <3>3. r = OnAck(quad[q], a)
      BY <3>2
    <3>4. NoTarget \in TargetsOf(q) /\ NoTarget \in Targets
      BY DEF TargetsOf, Targets, NoTarget
    <3>5. \A s \in SwarmStates, n \in BOOLEAN :
            QuadOK(q, [quad[q] EXCEPT !.nav = n, !.swarm = s])
      BY <1>3 DEF QuadOK, QuadType
    <3>6. QuadOK(q, [quad[q] EXCEPT !.nav = TRUE, !.swarm = SWARM_INIT, !.block = 0,
                                    !.waypoint = NoTarget])
      <4>1. QuadOK(q, [quad[q] EXCEPT !.nav = TRUE, !.swarm = SWARM_INIT, !.block = 0])
        <5>1. SWARM_INIT \in SwarmStates /\ 0 \in Blocks
          BY DEF SwarmStates, SWARM_INIT, Blocks
        <5> QED
          BY <1>3, <5>1 DEF QuadOK, QuadType
      <4>2. [[quad[q] EXCEPT !.nav = TRUE, !.swarm = SWARM_INIT, !.block = 0]
                EXCEPT !.waypoint = NoTarget]
            = [quad[q] EXCEPT !.nav = TRUE, !.swarm = SWARM_INIT, !.block = 0,
                              !.waypoint = NoTarget]
        BY <1>3 DEF QuadOK, QuadType
      <4> QED
        BY <3>4, <4>1, <4>2, QuadWaypoint
    <3>7. QuadOK(q, [quad[q] EXCEPT !.swarm = SWARM_WAIT_CMD])
      BY <1>3 DEF QuadOK, QuadType, SwarmStates, SWARM_WAIT_CMD
    <3>8. QuadOK(q, [quad[q] EXCEPT !.swarm = SWARM_EXEC_CMD, !.waypoint = quad[q].target])
      <4>1. QuadOK(q, [quad[q] EXCEPT !.waypoint = quad[q].target])
        BY <1>3, QuadWaypoint DEF QuadOK
      <4>2. [[quad[q] EXCEPT !.waypoint = quad[q].target] EXCEPT !.swarm = SWARM_EXEC_CMD]
            = [quad[q] EXCEPT !.swarm = SWARM_EXEC_CMD, !.waypoint = quad[q].target]
        BY <1>3 DEF QuadOK, QuadType
      <4>3. SWARM_EXEC_CMD \in SwarmStates
        BY DEF SwarmStates, SWARM_EXEC_CMD
      <4> QED
        BY <4>1, <4>2, <4>3, QuadSwarmState
    <3>9. SWARM_KILLED \in SwarmStates
      BY DEF SwarmStates, SWARM_KILLED
    <3>10. QuadOK(q, [quad[q] EXCEPT !.nav = FALSE, !.swarm = SWARM_KILLED])
      BY <3>5, <3>9
    <3>11. QuadOK(q, OnAck(quad[q], a))
      BY <1>3, <3>6, <3>7, <3>8, <3>10 DEF OnAck, ACK_NAV, ACK_EXEC, ACK_KILL, ACK_REF
    <3> QED
      BY <3>3, <3>11
  <2> QED
    BY <1>1, <2>1, <2>2, <2>3 DEF MessagesTo
<1> HIDE DEF r
<1>5. QuadsOK'
  BY <1>2, <1>4, QuadStep
<1>6. DownsOK'
  BY <1>1, <1>2, DownStep
<1> QED
  BY <1>2, <1>5, <1>6 DEF UpsOK

(* The flight plan moves no target.                                        *)
LEMMA FlightPlanStep ==
  ASSUME QuadsOK, DownsOK, UpsOK, NEW q \in Quads, FlightPlan(q)
  PROVE  QuadsOK' /\ DownsOK' /\ UpsOK'
<1> DEFINE x == [quad[q] EXCEPT !.block = FlightPlanNext[@]]
<1>1. FlightPlanNext[quad[q].block] \in Blocks
  BY DEF FlightPlan, FlightPlanNext, Blocks, BLOCK_ID_TAKE_OFF, BLOCK_ID_LAND_HERE,
     BLOCK_ID_HOLDING_POINT, BLOCK_ID_START_ENGINE
<1>2. QuadOK(q, x)
  BY <1>1 DEF QuadsOK, QuadOK, QuadType
<1>3. quad' = [quad EXCEPT ![q] = x] /\ up' = up /\ down' = down
  BY DEF FlightPlan
<1> HIDE DEF x
<1> QED
  BY <1>2, <1>3, QuadStep DEF DownsOK, UpsOK

(* The pilot's mode switch moves no target.                                *)
LEMMA PilotModeStep ==
  ASSUME QuadsOK, DownsOK, UpsOK, NEW q \in Quads, PilotMode(q)
  PROVE  QuadsOK' /\ DownsOK' /\ UpsOK'
<1> DEFINE x == [quad[q] EXCEPT !.nav = ~@]
<1>1. QuadOK(q, x)
  BY DEF QuadsOK, QuadOK, QuadType
<1>2. quad' = [quad EXCEPT ![q] = x] /\ up' = up /\ down' = down
  BY DEF PilotMode
<1> HIDE DEF x
<1> QED
  BY <1>1, <1>2, QuadStep DEF DownsOK, UpsOK
-----------------------------------------------------------------------------
(* The ground station: the steps of the thread that holds GCS_busy.        *)
LEMMA StatesKnown ==
  /\ SWARM_INIT \in SwarmStates /\ SWARM_NEGOTIATE_REF \in SwarmStates
  /\ SWARM_WAIT_CMD \in SwarmStates /\ SWARM_WAIT_CMD_START_ENGINE \in SwarmStates
  /\ SWARM_WAIT_CMD_TAKEOFF \in SwarmStates /\ SWARM_WAIT_EXEC_ACK \in SwarmStates
  /\ SWARM_EXEC_CMD \in SwarmStates /\ SWARM_REPORT_STATE \in SwarmStates
  /\ SWARM_LANDHERE \in SwarmStates /\ SWARM_LANDED \in SwarmStates
  /\ SWARM_KILLED \in SwarmStates /\ NONE \notin SwarmStates
BY DEF SwarmStates, SWARM_INIT, SWARM_NEGOTIATE_REF, SWARM_WAIT_CMD,
   SWARM_WAIT_CMD_START_ENGINE, SWARM_WAIT_CMD_TAKEOFF, SWARM_WAIT_EXEC_ACK,
   SWARM_EXEC_CMD, SWARM_REPORT_STATE, SWARM_LANDHERE, SWARM_LANDED, SWARM_KILLED, NONE

(* There is a first quad, where every loop starts.                         *)
LEMMA FirstQuad == 1 \in Quads
BY SwarmLinkAssumption DEF Quads

(* all_in_state starts from the first quad, whatever it looks for.         *)
LEMMA ScanOK ==
  ASSUME NEW g, GcsOK(g), NEW s \in SwarmStates \cup {NONE}
  PROVE  GcsOK(Scan(g, s))
BY FirstQuad DEF GcsOK, GcsType, Scan

(* A state that wait_all_quads has read is a swarm state.                  *)
LEMMA SeenOK ==
  ASSUME NEW g, GcsOK(g), NEW s \in SwarmStates
  PROVE  GcsOK([g EXCEPT !.seen = s])
BY DEF GcsOK, GcsType

(* wait_all_quads starts with all counters taken anew.                     *)
LEMMA WaitAllOK ==
  ASSUME NEW g, GcsOK(g), NEW s \in SwarmStates
  PROVE  GcsOK(WaitAll(g, s))
<1> DEFINE h == [g EXCEPT !.wait = s, !.fresh = g.heard, !.timer = FALSE]
<1>1. GcsOK(h)
  BY DEF GcsOK, GcsType
<1> HIDE DEF h
<1>2. GcsOK(Scan(h, s))
  BY <1>1, ScanOK
<1> QED
  BY <1>2 DEF WaitAll, h

(* The mutex is given back.                                                *)
LEMMA DoneOK ==
  ASSUME NEW g, GcsOK(g)
  PROVE  GcsOK(Done(g))
BY FirstQuad, StatesKnown DEF GcsOK, GcsType, Done

(* wait_all_quads turns to the next quad.                                  *)
LEMMA SendFromOK ==
  ASSUME NEW g, GcsOK(g), NEW q \in Quads
  PROVE  GcsOK(SendFrom(g, q))
BY StatesKnown DEF GcsOK, GcsType, SendFrom

(* Wherever the job goes from all_in_state, only a go thread with its      *)
(* direction goes to compute targets.                                      *)
LEMMA AfterScanOK ==
  ASSUME NEW g, GcsOK(g), NEW ok \in BOOLEAN
  PROVE  GcsOK(AfterScan(g, ok))
<1>1. \A s \in SwarmStates : GcsOK(Scan(g, s)) /\ GcsOK(WaitAll(g, s))
  BY ScanOK, WaitAllOK
<1>2. GcsOK(Done(g)) /\ GcsOK(SendFrom(g, 1))
  BY DoneOK, SendFromOK, FirstQuad
<1>3. CASE g.wait = NONE
  <2>1. GcsOK([g EXCEPT !.pc = "targets", !.at = 1]) \/ g.job # "go"
    BY FirstQuad DEF GcsOK, GcsType
  <2>2. GcsOK(AfterGuard(g, ok))
    BY <1>1, <1>2, <2>1, StatesKnown DEF AfterGuard
  <2> QED
    BY <1>3, <2>2 DEF AfterScan
<1>4. CASE g.wait # NONE
  <2>1. g.wait \in SwarmStates
    BY <1>4 DEF GcsOK, GcsType
  <2>2. GcsOK(AfterWait(g, ok))
    BY <1>1, <1>2, <2>1, StatesKnown DEF AfterWait
  <2> QED
    BY <1>4, <2>2 DEF AfterScan
<1> QED
  BY <1>3, <1>4

(* One turn of the loop of all_in_state sends nothing.                     *)
LEMMA ScanQuadStep ==
  ASSUME GcsOK(gcs), ScanQuad
  PROVE  GcsOK(gcs') /\ UNCHANGED <<up, down>>
<1> DEFINE in == gcs.cached[gcs.at] = gcs.goal
<1>1. in \in BOOLEAN
  OBVIOUS
<1>2. gcs' = (IF in /\ gcs.at < QUAD_NB THEN [gcs EXCEPT !.at = @ + 1]
                                        ELSE AfterScan(gcs, in))
  BY DEF ScanQuad
<1>3. UNCHANGED <<up, down>>
  BY DEF ScanQuad
<1> HIDE DEF in
<1>4. GcsOK(AfterScan(gcs, in))
  BY <1>1, AfterScanOK
<1>5. CASE in /\ gcs.at < QUAD_NB
  <2>1. gcs.at + 1 \in Quads
    BY <1>5, SwarmLinkAssumption DEF GcsOK, GcsType, Quads
  <2>2. GcsOK([gcs EXCEPT !.at = gcs.at + 1])
    BY <2>1 DEF GcsOK, GcsType
  <2> QED
    BY <1>2, <1>3, <1>5, <2>2
<1> QED
  BY <1>2, <1>3, <1>4, <1>5

(* compute_go_direction computes for quad i a target of quad i, and        *)
(* send_target gives it to the leader, who may hold anybody's.             *)
LEMMA GoTargetStep ==
  ASSUME GcsOK(gcs), DownsOK, GoTarget
  PROVE  GcsOK(gcs') /\ DownsOK' /\ up' = up
<1> DEFINE t == [owner |-> gcs.at, dir |-> gcs.dir, referenced |-> gcs.referenced]
           g == [gcs EXCEPT !.target[gcs.at] = t]
<1>1. gcs.at \in Quads /\ gcs.dir \in DIRECTIONS /\ gcs.referenced \in BOOLEAN
  BY DEF GoTarget, GcsOK, GcsType
<1>2. t \in Targets /\ t.owner = gcs.at
  BY <1>1 DEF Targets
<1>3. /\ gcs' = IF g.at < QUAD_NB THEN [g EXCEPT !.at = @ + 1] ELSE WaitAll(g, SWARM_WAIT_EXEC_ACK)
      /\ down' = [down EXCEPT ![LEADER] = Sent(@, Target(t))] /\ up' = up
  BY DEF GoTarget
<1> HIDE DEF t
<1>4. GcsOK(g)
  <2> DEFINE f == [gcs.target EXCEPT ![gcs.at] = t]
  <2>1. f \in [Quads -> Targets] /\ \A q \in Quads : f[q].owner \in {0, q}
    BY <1>1, <1>2 DEF GcsOK, GcsType
  <2>2. g = [gcs EXCEPT !.target = f]
    BY DEF GcsOK, GcsType
  <2> HIDE DEF f
  <2> QED
    BY <2>1, <2>2 DEF GcsOK, GcsType
<1>5. g.at = gcs.at
  BY DEF GcsOK, GcsType
<1> HIDE DEF g
<1>6. GcsOK(gcs')
  <2>1. CASE g.at < QUAD_NB
    <3>1. g.at + 1 \in Quads
      BY <1>1, <1>5, <2>1, SwarmLinkAssumption DEF Quads
    <3>2. GcsOK([g EXCEPT !.at = g.at + 1])
      BY <1>4, <3>1 DEF GcsOK, GcsType
    <3> QED
      BY <1>3, <2>1, <3>2
  <2>2. CASE ~(g.at < QUAD_NB)
    BY <1>3, <1>4, <2>2, WaitAllOK, StatesKnown
  <2> QED
    BY <2>1, <2>2
<1>7. LEADER \in Quads
  BY SwarmLinkAssumption DEF Quads
<1>8. Target(t) \in MessagesTo(LEADER)
  BY <1>2 DEF MessagesTo, TargetsOf
<1>9. DownOK(LEADER, Sent(down[LEADER], Target(t)))
  BY <1>7, <1>8, SentOK DEF DownsOK
<1>10. DownsOK'
  BY <1>3, <1>7, <1>9, DownStep
<1> QED
  BY <1>3, <1>6, <1>10

(* Whatever wait_all_quads sends to a quad is a message for it.            *)
LEMMA MessageOK ==
  ASSUME GcsOK(gcs), NEW q \in Quads
  PROVE  Message(q) \in MessagesTo(q)
<1>1. gcs.target[q] \in TargetsOf(q)
  BY DEF GcsOK, GcsType, TargetsOf
<1>2. Target(gcs.target[q]) \in MessagesTo(q)
  BY <1>1 DEF MessagesTo
<1>3. \A a \in {ACK_NAV, ACK_EXEC, ACK_KILL, ACK_REF} : Ack(a) \in MessagesTo(q)
  BY DEF MessagesTo
<1>4. \A b \in Blocks : Block(b) \in MessagesTo(q)
  BY DEF MessagesTo
<1>5. {BLOCK_ID_START_ENGINE, BLOCK_ID_TAKE_OFF, BLOCK_ID_LAND_HERE} \subseteq Blocks
  BY DEF Blocks
<1> QED
  BY <1>2, <1>3, <1>4, <1>5 DEF Message

(* One turn of wait_all_quads' loop sends a quad a message meant for it.   *)
LEMMA SendQuadStep ==
  ASSUME GcsOK(gcs), DownsOK, SendQuad
  PROVE  GcsOK(gcs') /\ DownsOK' /\ up' = up
<1> DEFINE q == gcs.at
           g == IF ~Due THEN gcs
                ELSE IF gcs.wait = SWARM_EXEC_CMD THEN [gcs EXCEPT !.timer = FALSE]
                ELSE [gcs EXCEPT !.fresh[q] = FALSE]
<1>1. /\ gcs' = IF q < QUAD_NB THEN SendFrom(g, q + 1)
                ELSE Scan([g EXCEPT !.seen = SWARM_KILLED], gcs.wait)
      /\ down' = IF Due THEN [down EXCEPT ![q] = Sent(@, Message(q))] ELSE down
      /\ up' = up
  BY DEF SendQuad
<1>2. q \in Quads /\ gcs.wait \in SwarmStates \cup {NONE}
  BY DEF GcsOK, GcsType
<1>3. GcsOK(g)
  <2>1. GcsOK([gcs EXCEPT !.timer = FALSE])
    BY DEF GcsOK, GcsType
  <2>2. GcsOK([gcs EXCEPT !.fresh[q] = FALSE])
    <3> DEFINE f == [gcs.fresh EXCEPT ![q] = FALSE]
    <3>0. gcs \in GcsType
      BY DEF GcsOK
    <3>1. f \in [Quads -> BOOLEAN]
      BY <3>0 DEF GcsType
    <3> HIDE DEF f
    <3>2. GcsOK([gcs EXCEPT !.fresh = f])
      BY <3>1 DEF GcsOK, GcsType
    <3> QED
      BY <3>2 DEF f
  <2> QED
    BY <2>1, <2>2
<1> HIDE DEF g
<1>4. GcsOK(gcs')
  <2>1. CASE q < QUAD_NB
    <3>1. q + 1 \in Quads
      BY <1>2, <2>1, SwarmLinkAssumption DEF Quads
    <3> QED
      BY <1>1, <1>3, <2>1, <3>1, SendFromOK
  <2>2. CASE ~(q < QUAD_NB)
    <3>1. GcsOK([g EXCEPT !.seen = SWARM_KILLED])
      BY <1>3, SeenOK, StatesKnown
    <3> QED
      BY <1>1, <1>2, <2>2, <3>1, ScanOK
  <2> QED
    BY <2>1, <2>2
<1>5. DownsOK'
  <2>1. CASE Due
    <3>1. DownOK(q, Sent(down[q], Message(q)))
      BY <1>2, MessageOK, SentOK DEF DownsOK
    <3> QED
      BY <1>1, <1>2, <2>1, <3>1, DownStep
  <2>2. CASE ~Due
    BY <1>1, <2>2 DEF DownsOK
  <2> QED
    BY <2>1, <2>2
<1> QED
  BY <1>1, <1>4, <1>5

(* The data handler stores a state.                                        *)
LEMMA HandleReportStep ==
  ASSUME GcsOK(gcs), UpsOK, NEW q \in Quads, HandleReport(q)
  PROVE  GcsOK(gcs') /\ UpsOK' /\ down' = down
<1>1. UpOK(Tail(up[q])) /\ Head(up[q]) \in SwarmStates
  BY ReadOK DEF UpsOK, HandleReport
<1> DEFINE s == Head(up[q])
           n == gcs.wait # NONE
           l == gcs.located \/ q = LEADER
<1>2. /\ gcs' = [gcs EXCEPT !.cached[q] = s, !.heard[q] = TRUE, !.fresh[q] = n, !.located = l]
      /\ up' = [up EXCEPT ![q] = Tail(up[q])] /\ down' = down
  BY DEF HandleReport
<1>3. n \in BOOLEAN /\ l \in BOOLEAN /\ s \in SwarmStates
  BY <1>1
<1> HIDE DEF s, n, l
<1>4. GcsOK(gcs')
  <2> DEFINE c == [gcs.cached EXCEPT ![q] = s]
             h == [gcs.heard EXCEPT ![q] = TRUE]
             f == [gcs.fresh EXCEPT ![q] = n]
  <2>1. c \in [Quads -> SwarmStates] /\ h \in [Quads -> BOOLEAN] /\ f \in [Quads -> BOOLEAN]
    BY <1>3 DEF GcsOK, GcsType
  <2>2. gcs' = [gcs EXCEPT !.cached = c, !.heard = h, !.fresh = f, !.located = l]
    BY <1>2 DEF GcsOK, GcsType
  <2> HIDE DEF c, h, f
  <2> QED
    BY <1>3, <2>1, <2>2 DEF GcsOK, GcsType
<1>5. UpsOK'
  BY <1>1, <1>2, UpStep
<1> QED
  BY <1>2, <1>4, <1>5

(* A ground station that has just started knows no target.                 *)
LEMMA GcsStartsOK ==
  ASSUME NEW g \in GcsStarts
  PROVE  GcsOK(g)
<1>1. NoTarget \in Targets /\ NoTarget.owner = 0
  BY DEF Targets, NoTarget
<1>2. [q \in Quads |-> NoTarget] \in [Quads -> Targets]
  BY <1>1
<1>3. g.target = [q \in Quads |-> NoTarget] /\ g.pc = "idle" /\ g.job = "none"
  BY DEF GcsStarts
<1>4. /\ [q \in Quads |-> SWARM_KILLED] \in [Quads -> SwarmStates]
      /\ [q \in Quads |-> FALSE] \in [Quads -> BOOLEAN]
  BY StatesKnown
<1>5. g \in GcsType
  BY <1>2, <1>4, FirstQuad, StatesKnown DEF GcsStarts, GcsType
<1>6. \A q \in Quads : g.target[q].owner \in {0, q}
  BY <1>1, <1>3
<1> QED
  BY <1>3, <1>5, <1>6 DEF GcsOK

(* A button starts a job; a go thread takes its direction with it.         *)
LEMMA PressStep ==
  ASSUME GcsOK(gcs), Press
  PROVE  GcsOK(gcs') /\ UNCHANGED <<up, down>>
<1>1. CASE \E j \in BUTTONS : PressWait(j)
  <2>1. PICK j \in BUTTONS : PressWait(j)
    BY <1>1
  <2> DEFINE r == IF j = "end_negotiate" THEN gcs.located ELSE gcs.referenced
             g == [gcs EXCEPT !.job = j, !.referenced = r]
  <2>2. j \in DOMAIN WaitOfJob /\ j \in Jobs /\ j # "go" /\ gcs.job = "none"
    BY <2>1, GroundStationAssumption DEF PressWait, WaitOfJob
  <2>3. r \in BOOLEAN /\ gcs.pc # "targets"
    BY <2>2 DEF GcsOK, GcsType
  <2>4. gcs' = WaitAll(g, WaitOfJob[j]) /\ UNCHANGED <<up, down>>
    BY <2>1 DEF PressWait
  <2> HIDE DEF r
  <2>5. GcsOK(g)
    BY <2>2, <2>3 DEF GcsOK, GcsType
  <2>6. WaitOfJob[j] \in SwarmStates
    BY <2>2, StatesKnown DEF WaitOfJob
  <2> QED
    BY <2>4, <2>5, <2>6, WaitAllOK
<1>2. CASE \E d \in DIRECTIONS : PressGo(d)
  <2>1. PICK d \in DIRECTIONS : PressGo(d)
    BY <1>2
  <2> DEFINE g == [gcs EXCEPT !.job = "go", !.dir = d]
  <2>2. GcsOK(g)
    BY DEF GcsOK, GcsType, Jobs
  <2>3. gcs' = Scan(g, SWARM_WAIT_CMD_TAKEOFF) /\ UNCHANGED <<up, down>>
    BY <2>1 DEF PressGo
  <2> HIDE DEF g
  <2> QED
    BY <2>2, <2>3, ScanOK, StatesKnown
<1>3. CASE PressExecute
  <2> DEFINE g == [gcs EXCEPT !.job = "execute"]
  <2>1. gcs.job = "none"
    BY <1>3 DEF PressExecute
  <2>2. GcsOK(g)
    BY <2>1 DEF GcsOK, GcsType, Jobs
  <2>3. gcs' = Scan(g, SWARM_WAIT_EXEC_ACK) /\ UNCHANGED <<up, down>>
    BY <1>3 DEF PressExecute
  <2> HIDE DEF g
  <2> QED
    BY <2>2, <2>3, ScanOK, StatesKnown
<1> QED
  BY <1>1, <1>2, <1>3 DEF Press

-----------------------------------------------------------------------------
(* Everything starts with no target but the null one.                      *)
LEMMA InitOK ==
  ASSUME Init
  PROVE  IInv
<1>1. PICK s \in START : quad = [q \in Quads |-> QuadAt[s]]
  BY DEF Init
<1>2. s \in {"ground", "negotiated", "engine", "flying"}
  BY SwarmSystemAssumption
<1>3. NoTarget \in Targets /\ \A q \in Quads : NoTarget \in TargetsOf(q)
  BY DEF Targets, TargetsOf, NoTarget
<1>4. /\ QuadAt[s] \in QuadType
      /\ QuadAt[s].target = NoTarget /\ QuadAt[s].waypoint = NoTarget
  <2> DEFINE n == NoTarget
  <2>1. /\ GroundQuad \in QuadType /\ GroundQuad.target = n /\ GroundQuad.waypoint = n
    <3>1. n \in Targets /\ SWARM_KILLED \in SwarmStates /\ 0 \in Blocks
      BY <1>3, StatesKnown DEF Blocks
    <3>2. GroundQuad = [swarm |-> SWARM_KILLED, block |-> 0, nav |-> FALSE,
                        target |-> n, waypoint |-> n]
      BY DEF GroundQuad
    <3> HIDE DEF n
    <3> QED
      BY <3>1, <3>2 DEF QuadType
  <2> HIDE DEF n
  <2>2. \A t \in SwarmStates, b \in Blocks :
          LET x == [GroundQuad EXCEPT !.swarm = t, !.block = b, !.nav = TRUE]
          IN  x \in QuadType /\ x.target = n /\ x.waypoint = n
    BY <2>1 DEF QuadType
  <2>3. {BLOCK_ID_HOLDING_POINT, BLOCK_ID_START_ENGINE, 5} \subseteq Blocks
    BY DEF Blocks
  <2>4. \/ QuadAt[s] = GroundQuad
        \/ \E t \in SwarmStates, b \in Blocks :
              QuadAt[s] = [GroundQuad EXCEPT !.swarm = t, !.block = b, !.nav = TRUE]
    <3>1. CASE s = "ground"
      BY <3>1 DEF QuadAt
    <3>2. CASE s = "negotiated"
      BY <3>2, <2>3, StatesKnown DEF QuadAt
    <3>3. CASE s = "engine"
      BY <3>3, <2>3, StatesKnown DEF QuadAt
    <3>4. CASE s = "flying"
      BY <3>4, <2>3, StatesKnown DEF QuadAt
    <3> QED
      BY <1>2, <3>1, <3>2, <3>3, <3>4
  <2> QED
    BY <2>1, <2>2, <2>4 DEF n
<1>5. QuadsOK
  BY <1>1, <1>3, <1>4 DEF QuadsOK, QuadOK
<1>6. \A q \in Quads : DownOK(q, <<>>) /\ UpOK(<<>>)
  BY EmptySeq, SwarmLinkAssumption DEF DownOK, UpOK
<1>7. DownsOK /\ UpsOK
  BY <1>6 DEF Init, LinkInit, DownsOK, UpsOK
<1>8. GcsOK(gcs)
  BY GcsStartsOK DEF Init
<1> QED
  BY <1>5, <1>7, <1>8 DEF IInv

(* A message that is lost leaves the others in their order.                *)
LEMMA LossStep ==
  ASSUME DownsOK, UpsOK, NEW q \in Quads, LoseDown(q) \/ LoseUp(q)
  PROVE  DownsOK' /\ UpsOK'
<1>1. CASE LoseDown(q)
  <2>1. DownOK(q, Tail(down[q]))
    BY <1>1, TakenOK DEF LoseDown, DownsOK
  <2>2. DownsOK'
    BY <1>1, <2>1, DownStep DEF LoseDown
  <2> QED
    BY <1>1, <2>2 DEF LoseDown, UpsOK
<1>2. CASE LoseUp(q)
  <2>1. UpOK(Tail(up[q]))
    BY <1>2, ReadOK DEF LoseUp, UpsOK
  <2>2. UpsOK'
    BY <1>2, <2>1, UpStep DEF LoseUp
  <2> QED
    BY <1>2, <2>2 DEF LoseUp, DownsOK
<1> QED
  BY <1>1, <1>2

(* The job, in any of its steps.                                           *)
LEMMA JobStep ==
  ASSUME GcsOK(gcs), DownsOK, UpsOK, Job
  PROVE  GcsOK(gcs') /\ DownsOK' /\ UpsOK'
<1>1. CASE ScanQuad
  BY <1>1, ScanQuadStep DEF DownsOK, UpsOK
<1>2. CASE GoTarget
  BY <1>2, GoTargetStep DEF UpsOK
<1>3. CASE SendQuad
  BY <1>3, SendQuadStep DEF UpsOK
<1> QED
  BY <1>1, <1>2, <1>3 DEF Job

(* Any step of the system keeps the invariant.                             *)
LEMMA NextOK ==
  ASSUME IInv, Next
  PROVE  IInv'
<1> USE DEF IInv
<1>1. CASE (\E q \in Quads : Airborne(q)) /\ UNCHANGED gcs
  BY <1>1, PeriodicStep, DeliverStep, FlightPlanStep, PilotModeStep DEF Airborne, GcsOK
<1>2. CASE (\E q \in Quads : LoseDown(q) \/ LoseUp(q)) /\ UNCHANGED <<quad, gcs>>
  BY <1>2, LossStep DEF QuadsOK, GcsOK
<1>3. CASE /\ Press \/ Job \/ TwoSeconds \/ GcsRestart \/ (\E q \in Quads : HandleReport(q))
           /\ UNCHANGED quad
  <2>1. QuadsOK'
    BY <1>3 DEF QuadsOK
  <2>2. CASE Press
    BY <2>1, <2>2, PressStep DEF DownsOK, UpsOK
  <2>3. CASE Job
    BY <2>1, <2>3, JobStep
  <2>4. CASE TwoSeconds
    <3>1. GcsOK(gcs')
      BY <2>4 DEF TwoSeconds, GcsOK, GcsType
    <3> QED
      BY <2>1, <2>4, <3>1 DEF TwoSeconds, DownsOK, UpsOK
  <2>5. CASE GcsRestart
    BY <2>1, <2>5, GcsStartsOK DEF GcsRestart, DownsOK, UpsOK
  <2>6. CASE \E q \in Quads : HandleReport(q)
    BY <2>1, <2>6, HandleReportStep DEF DownsOK
  <2> QED
    BY <1>3, <2>2, <2>3, <2>4, <2>5, <2>6
<1> QED
  BY <1>1, <1>2, <1>3 DEF Next

-----------------------------------------------------------------------------
(* Along the way from the ground station's computation to the waypoint,    *)
(* nothing is ever taken for another quad than it was meant for, but by    *)
(* the leader, to which the go threads send everybody's.                   *)
THEOREM SwarmInductive == Spec => []IInv
<1>1. Init => IInv
  BY InitOK
<1>2. IInv /\ [Next]_vars => IInv'
  <2> SUFFICES ASSUME IInv, [Next]_vars PROVE IInv'
    OBVIOUS
  <2>1. CASE Next
    BY <2>1, NextOK
  <2>2. CASE UNCHANGED vars
    BY <2>2 DEF vars, IInv, QuadsOK, DownsOK, UpsOK, GcsOK
  <2> QED
    BY <2>1, <2>2
<1> QED
  BY <1>1, <1>2, PTL DEF Spec

(* The handlers on the ground and in the air keep all they share in its    *)
(* types: swarm states, flight plan blocks, loop indices, targets and the  *)
(* bounds of the channels.                                                 *)
THEOREM SwarmTypeCorrect == Spec => []TypeOK
<1>1. IInv => TypeOK
  BY DEF IInv, QuadsOK, DownsOK, UpsOK, DownOK, UpOK, GcsOK, TypeOK
<1> QED
  BY <1>1, SwarmInductive, PTL

(* Whatever is lost, repeated or late, whoever restarts the ground station *)
(* or takes a quad out of NAV: no quad but the leader ever has another's   *)
(* target as its waypoint.                                                 *)
THEOREM WaypointsOwn == Spec => []OwnWaypoint
<1>1. IInv => OwnWaypoint
  BY DEF IInv, QuadsOK, QuadOK, TargetsOf, OwnWaypoint
<1> QED
  BY <1>1, SwarmInductive, PTL
=============================================================================
