------------------------ MODULE SwarmReferenceProofs ------------------------
(***************************************************************************)
(* Quads started on the ground, by a ground station that is not restarted, *)
(* fly only to targets that were computed from the leader's reference, for *)
(* every number of quads, link, set of buttons and pilots.                 *)
(*                                                                         *)
(* Nothing tests that the leader's position was known when its reference   *)
(* was taken.  The argument is one about what cannot have happened before: *)
(* the states a quad can be in, and the acknowledgements on their way,     *)
(* grow with what the ground station has asked for, and it can ask for the *)
(* next only when a report of the leader, which carries its position, has  *)
(* told it that the leader has done the last.                              *)
(***************************************************************************)
EXTENDS SwarmProofs

Idle  == {SWARM_KILLED, SWARM_LANDHERE, SWARM_LANDED}
Early == Idle \cup {SWARM_INIT, SWARM_NEGOTIATE_REF}

(* ACK_NAV may have been sent: by "init", which ends only when the leader  *)
(* has reported.  An "end negotiate" that came too soon waits for ever.    *)
NavAsked(g) ==
  (g.located \/ g.job = "init") /\ (g.job = "end_negotiate" => g.referenced)

(* ACK_REF may have been sent.                                             *)
RefAsked(g) == g.referenced \/ g.job = "end_negotiate"

(* The states quads may be in, or have been in and reported.               *)
States(g) ==
  IF g.referenced THEN SwarmStates ELSE IF NavAsked(g) THEN Early ELSE Idle

Known == {t \in Targets : t = NoTarget \/ t.referenced}

Acks(g) ==
  {a \in {ACK_NAV, ACK_EXEC, ACK_KILL, ACK_REF} :
     (a = ACK_NAV => NavAsked(g)) /\ (a = ACK_REF => RefAsked(g))}

Sendable(g) ==
  {Ack(a) : a \in Acks(g)} \cup {Block(b) : b \in Blocks} \cup {Target(t) : t \in Known}

(* Which state each thread waits for, and looks for while it scans.        *)
JobOK(g) ==
  /\ g.job = "init" <=> g.wait \in {SWARM_INIT, SWARM_NEGOTIATE_REF}
  /\ g.job = "end_negotiate" <=> g.wait = SWARM_WAIT_CMD
  /\ g.job \in {"init", "end_negotiate"} /\ g.pc = "scan" => g.goal = g.wait
  /\ g.job = "go" /\ g.wait = NONE /\ g.pc = "scan" =>
       g.goal \in {SWARM_WAIT_CMD_TAKEOFF, SWARM_REPORT_STATE}
  /\ g.pc = "idle" <=> g.job = "none"
  /\ g.pc = "targets" => g.wait = NONE
  /\ g.pc = "send" => g.wait # NONE

(* What the reports of the leader, and those of all, have told the ground  *)
(* station.                                                                *)
HeardOK(g) ==
  /\ g.referenced => g.located
  /\ g.cached[LEADER] # SWARM_KILLED => g.located
  /\ g.job = "init" /\ g.pc = "scan" /\ g.at > LEADER => g.located
  /\ g.pc = "targets" => g.referenced
  /\ \A q \in Quads : g.cached[q] \in States(g) /\ g.target[q] \in Known

GcsRef(g) == GcsOK(g) /\ JobOK(g) /\ HeardOK(g)

QuadRef(g, x) ==
  /\ x \in QuadType
  /\ x.swarm \in States(g) /\ x.target \in Known /\ x.waypoint \in Known

QuadsRef == \A q \in Quads : QuadRef(gcs, quad[q])
DownsRef == \A q \in Quads : down[q] \in Seq(Sendable(gcs))
UpsRef   == \A q \in Quads : up[q] \in Seq(States(gcs))

RefInv == GcsRef(gcs) /\ QuadsRef /\ DownsRef /\ UpsRef

(* What the ground station has asked for it has asked for.                 *)
Grown(g, h) ==
  /\ g.referenced => h.referenced
  /\ NavAsked(g) => NavAsked(h)
  /\ RefAsked(g) => RefAsked(h)
-----------------------------------------------------------------------------
(* The sets of states are ordered.                                         *)
LEMMA StatesOrder ==
  ASSUME NEW g
  PROVE  /\ Idle \subseteq States(g) /\ States(g) \subseteq SwarmStates
         /\ Idle \subseteq Early /\ Early \subseteq SwarmStates
BY StatesKnown DEF States, Idle, Early

(* What is permitted grows with what was asked.                            *)
LEMMA StatesGrow ==
  ASSUME NEW g, NEW h, Grown(g, h)
  PROVE  States(g) \subseteq States(h) /\ Sendable(g) \subseteq Sendable(h)
<1>1. States(g) \subseteq States(h)
  BY StatesOrder DEF Grown, States
<1>2. Acks(g) \subseteq Acks(h)
  BY DEF Grown, Acks
<1> QED
  BY <1>1, <1>2 DEF Sendable

(* A channel of a smaller set is one of a larger.                          *)
LEMMA SeqGrow ==
  ASSUME NEW S, NEW T, S \subseteq T, NEW c \in Seq(S)
  PROVE  c \in Seq(T)
OBVIOUS

(* A step of the ground station that leaves the rest alone.                *)
LEMMA RestKept ==
  ASSUME RefInv, Grown(gcs, gcs')
  PROVE  /\ quad' = quad => QuadsRef'
         /\ down' = down => DownsRef'
         /\ up' = up => UpsRef'
<1>1. States(gcs) \subseteq States(gcs') /\ Sendable(gcs) \subseteq Sendable(gcs')
  BY StatesGrow
<1>2. ASSUME quad' = quad PROVE QuadsRef'
  BY <1>1, <1>2 DEF RefInv, QuadsRef, QuadRef
<1>3. ASSUME down' = down PROVE DownsRef'
  <2>1. \A q \in Quads : down[q] \in Seq(Sendable(gcs'))
    BY <1>1, SeqGrow DEF RefInv, DownsRef
  <2> QED
    BY <1>3, <2>1 DEF DownsRef
<1>4. ASSUME up' = up PROVE UpsRef'
  <2>1. \A q \in Quads : up[q] \in Seq(States(gcs'))
    BY <1>1, SeqGrow DEF RefInv, UpsRef
  <2> QED
    BY <1>4, <2>1 DEF UpsRef
<1> QED
  BY <1>2, <1>3, <1>4
-----------------------------------------------------------------------------
(* One channel, or one quad, of those that the invariant is about.         *)
LEMMA QuadRefStep ==
  ASSUME RefInv, QuadsOK, NEW q \in Quads, NEW x, QuadRef(gcs, x),
         quad' = [quad EXCEPT ![q] = x], gcs' = gcs
  PROVE  QuadsRef'
BY DEF RefInv, QuadsRef, QuadsOK

(* Put and Tail keep a channel to its set.                                 *)
LEMMA SentRef ==
  ASSUME NEW S, NEW c \in Seq(S), NEW m \in S, NEW cap
  PROVE  Put(c, m, cap) \in Seq(S)
BY DEF Put

LEMMA TailRef ==
  ASSUME NEW S, NEW c \in Seq(S), c # <<>>
  PROVE  Head(c) \in S /\ Tail(c) \in Seq(S)
BY HeadTailProperties

(* The same of the channels to and from a quad.                            *)
LEMMA DownRefStep ==
  ASSUME RefInv, DownsOK, NEW q \in Quads, NEW c \in Seq(Sendable(gcs)),
         down' = [down EXCEPT ![q] = c], gcs' = gcs
  PROVE  DownsRef'
BY DEF RefInv, DownsRef, DownsOK

LEMMA UpRefStep ==
  ASSUME RefInv, UpsOK, NEW q \in Quads, NEW c \in Seq(States(gcs)),
         up' = [up EXCEPT ![q] = c], gcs' = gcs
  PROVE  UpsRef'
BY DEF RefInv, UpsRef, UpsOK

(* The null target needs no reference.                                     *)
LEMMA NoTargetKnown == NoTarget \in Known
BY DEF Known, Targets

(* Updates of one field leave the others.                                  *)
LEMMA RefFields ==
  ASSUME NEW x \in QuadType
  PROVE  /\ \A s \in SwarmStates :
              LET y == [x EXCEPT !.swarm = s]
              IN  y \in QuadType /\ y.swarm = s /\ y.target = x.target
                  /\ y.waypoint = x.waypoint /\ y.block = x.block
         /\ \A b \in Blocks :
              LET y == [x EXCEPT !.block = b]
              IN  y \in QuadType /\ y.swarm = x.swarm /\ y.target = x.target
                  /\ y.waypoint = x.waypoint
         /\ \A n \in BOOLEAN :
              LET y == [x EXCEPT !.nav = n]
              IN  y \in QuadType /\ y.swarm = x.swarm /\ y.target = x.target
                  /\ y.waypoint = x.waypoint
BY DEF QuadType

(* quad_swarm_periodic takes a quad no further than what it has heard.     *)
LEMMA PeriodicRef ==
  ASSUME RefInv, IInv, NEW q \in Quads, SwarmPeriodic(q), gcs' = gcs
  PROVE  QuadsRef' /\ DownsRef' /\ UpsRef'
<1> DEFINE x == Sampled(quad[q])
           y == IF quad[q].nav THEN quad[q] ELSE SwarmInit(quad[q])
<1>1. QuadRef(gcs, quad[q])
  BY DEF RefInv, QuadsRef
<1>2. QuadRef(gcs, y)
  BY <1>1, NoTargetKnown, StatesOrder DEF SwarmInit, QuadRef, QuadType, Known, Idle
<1>3. Sampled(quad[q]) = CASE quad[q].block = BLOCK_ID_LAND_HERE -> [y EXCEPT !.swarm = SWARM_LANDHERE]
                           [] quad[q].block = 12                 -> [y EXCEPT !.swarm = SWARM_LANDED]
                           [] OTHER                              -> y
  BY DEF Sampled
<1> HIDE DEF y
<1>4. QuadRef(gcs, [y EXCEPT !.swarm = SWARM_LANDHERE]) /\ QuadRef(gcs, [y EXCEPT !.swarm = SWARM_LANDED])
  BY <1>2, StatesOrder, StatesKnown, RefFields DEF QuadRef, Idle
<1>5. QuadRef(gcs, x)
  BY <1>2, <1>3, <1>4 DEF BLOCK_ID_LAND_HERE
<1>6. /\ quad' = [quad EXCEPT ![q] = [x EXCEPT !.swarm = SwarmNext(x)]]
      /\ up' = [up EXCEPT ![q] = Reported(up[q], x.swarm)] /\ down' = down
  BY DEF SwarmPeriodic
<1> HIDE DEF x
<1>7. x.swarm \in States(gcs)
  BY <1>5 DEF QuadRef
<1>8. SwarmNext(x) \in States(gcs)
  <2>1. CASE gcs.referenced
    BY <1>7, <2>1, StatesKnown DEF States, SwarmNext
  <2>2. CASE ~gcs.referenced
    <3>1. x.swarm \in Early
      BY <1>7, <2>2, StatesOrder DEF States
    <3>2. SwarmNext(x) = x.swarm \/ (x.swarm = SWARM_INIT /\ SwarmNext(x) = SWARM_NEGOTIATE_REF)
      BY <3>1 DEF SwarmNext, Early, Idle, SWARM_KILLED, SWARM_LANDHERE, SWARM_LANDED, SWARM_INIT,
         SWARM_NEGOTIATE_REF, SWARM_WAIT_CMD, SWARM_WAIT_CMD_START_ENGINE, SWARM_EXEC_CMD
    <3>3. SWARM_INIT \in States(gcs) => SWARM_NEGOTIATE_REF \in States(gcs)
      BY <2>2 DEF States, Early, Idle, SWARM_KILLED, SWARM_LANDHERE, SWARM_LANDED, SWARM_INIT,
         SWARM_NEGOTIATE_REF
    <3> QED BY <1>7, <3>2, <3>3
  <2> QED BY <2>1, <2>2
<1>9. QuadRef(gcs, [x EXCEPT !.swarm = SwarmNext(x)])
  BY <1>5, <1>8, StatesOrder, RefFields DEF QuadRef
<1>10. QuadsRef'
  BY <1>6, <1>9, QuadRefStep DEF IInv
<1>11. up[q] \in Seq(States(gcs))
  BY DEF RefInv, UpsRef
<1>12. Reported(up[q], x.swarm) \in Seq(States(gcs))
  BY <1>7, <1>11, SentRef DEF Reported
<1>13. UpsRef'
  BY <1>6, <1>12, UpRefStep DEF IInv
<1> QED
  BY <1>6, <1>10, <1>13 DEF RefInv, DownsRef

(* An acknowledgement that may have been sent leads a quad only to states  *)
(* it may be in: ACK_REF finds none that waits for it without a reference. *)
LEMMA AckRef ==
  ASSUME RefInv, NEW x, QuadRef(gcs, x), NEW a \in Acks(gcs)
  PROVE  QuadRef(gcs, OnAck(x, a))
<1>1. x \in QuadType /\ x.swarm \in States(gcs) /\ x.target \in Known /\ x.waypoint \in Known
  BY DEF QuadRef
<1>2. a \in {ACK_NAV, ACK_EXEC, ACK_KILL, ACK_REF}
  BY DEF Acks
<1>3. CASE a = ACK_KILL
  <2>1. OnAck(x, a) = [x EXCEPT !.nav = FALSE, !.swarm = SWARM_KILLED]
    BY <1>3 DEF OnAck, ACK_KILL, ACK_NAV, ACK_REF, ACK_EXEC
  <2>2. SWARM_KILLED \in States(gcs)
    BY StatesOrder DEF Idle
  <2> QED BY <1>1, <2>1, <2>2, StatesKnown DEF QuadRef, QuadType
<1>4. CASE a = ACK_NAV
  <2>1. OnAck(x, a) = [x EXCEPT !.nav = TRUE, !.swarm = SWARM_INIT, !.block = 0, !.waypoint = NoTarget]
    BY <1>4 DEF OnAck, ACK_KILL, ACK_NAV, ACK_REF, ACK_EXEC
  <2>2. NavAsked(gcs)
    BY <1>4 DEF Acks
  <2>3. SWARM_INIT \in States(gcs)
    BY <2>2, StatesKnown DEF States, Early
  <2>4. 0 \in Blocks /\ NoTarget \in Known /\ NoTarget \in Targets
    BY NoTargetKnown DEF Blocks, Known
  <2> HIDE DEF NoTarget
  <2> QED BY <1>1, <2>1, <2>3, <2>4, StatesKnown DEF QuadRef, QuadType
<1>5. CASE a = ACK_REF
  <2>1. CASE x.swarm = SWARM_NEGOTIATE_REF
    <3>1. OnAck(x, a) = [x EXCEPT !.swarm = SWARM_WAIT_CMD]
      BY <1>5, <2>1 DEF OnAck, ACK_KILL, ACK_NAV, ACK_REF, ACK_EXEC
    <3>2. SWARM_NEGOTIATE_REF \notin Idle
      BY DEF Idle, SWARM_NEGOTIATE_REF, SWARM_KILLED, SWARM_LANDHERE, SWARM_LANDED
    <3>3. gcs.referenced \/ NavAsked(gcs)
      BY <1>1, <2>1, <3>2 DEF States
    <3>4. gcs.referenced \/ gcs.job = "end_negotiate"
      BY <1>5 DEF Acks, RefAsked
    <3>5. gcs.referenced
      BY <3>3, <3>4 DEF NavAsked
    <3>6. SWARM_WAIT_CMD \in States(gcs)
      BY <3>5, StatesKnown DEF States
    <3> QED BY <1>1, <3>1, <3>6, StatesKnown, RefFields DEF QuadRef
  <2>2. CASE x.swarm # SWARM_NEGOTIATE_REF
    <3>1. OnAck(x, a) = x
      BY <1>5, <2>2 DEF OnAck, ACK_REF, ACK_NAV, ACK_KILL, ACK_EXEC
    <3> QED BY <3>1
  <2> QED BY <2>1, <2>2
<1>6. CASE a = ACK_EXEC
  <2>1. CASE x.swarm = SWARM_WAIT_EXEC_ACK
    <3>1. OnAck(x, a) = [x EXCEPT !.swarm = SWARM_EXEC_CMD, !.waypoint = x.target]
      BY <1>6, <2>1 DEF OnAck, ACK_EXEC, ACK_REF, ACK_NAV, ACK_KILL
    <3>2. SWARM_WAIT_EXEC_ACK \notin Early
      BY DEF Early, Idle, SWARM_NEGOTIATE_REF, SWARM_KILLED, SWARM_LANDHERE, SWARM_LANDED,
         SWARM_INIT, SWARM_WAIT_EXEC_ACK
    <3>3. gcs.referenced
      BY <1>1, <2>1, <3>2, StatesOrder DEF States
    <3>4. SWARM_EXEC_CMD \in States(gcs)
      BY <3>3, StatesKnown DEF States
    <3> QED BY <1>1, <3>1, <3>4, StatesKnown DEF QuadRef, QuadType
  <2>2. CASE x.swarm # SWARM_WAIT_EXEC_ACK
    <3>1. OnAck(x, a) = x
      BY <1>6, <2>2 DEF OnAck, ACK_REF, ACK_NAV, ACK_KILL, ACK_EXEC
    <3> QED BY <3>1
  <2> QED BY <2>1, <2>2
<1> QED BY <1>2, <1>3, <1>4, <1>5, <1>6

(* A target is taken only in states that need a reference to be reached.   *)
LEMMA TargetRef ==
  ASSUME RefInv, NEW x, QuadRef(gcs, x), NEW t \in Known
  PROVE  QuadRef(gcs, OnTarget(x, t))
<1>1. x \in QuadType /\ x.swarm \in States(gcs) /\ x.target \in Known /\ x.waypoint \in Known
  BY DEF QuadRef
<1>2. CASE x.swarm \in {SWARM_WAIT_CMD_TAKEOFF, SWARM_REPORT_STATE}
  <2>1. OnTarget(x, t) = [x EXCEPT !.target = t, !.swarm = SWARM_WAIT_EXEC_ACK]
    BY <1>2 DEF OnTarget
  <2>2. x.swarm \notin Early
    BY <1>2 DEF Early, Idle, SWARM_NEGOTIATE_REF, SWARM_KILLED, SWARM_LANDHERE, SWARM_LANDED,
       SWARM_INIT, SWARM_WAIT_CMD_TAKEOFF, SWARM_REPORT_STATE
  <2>3. gcs.referenced
    BY <1>1, <2>2, StatesOrder DEF States
  <2>4. SWARM_WAIT_EXEC_ACK \in States(gcs) /\ t \in Targets
    BY <2>3, StatesKnown DEF States, Known
  <2> QED BY <1>1, <2>1, <2>4, StatesKnown DEF QuadRef, QuadType
<1>3. CASE x.swarm \notin {SWARM_WAIT_CMD_TAKEOFF, SWARM_REPORT_STATE}
  BY <1>3 DEF OnTarget
<1> QED BY <1>2, <1>3

(* quad_swarm_datalink and DL_BLOCK: what arrives was permitted when sent, *)
(* and is still.                                                           *)
LEMMA DeliverRef ==
  ASSUME RefInv, IInv, NEW q \in Quads, Deliver(q), gcs' = gcs
  PROVE  QuadsRef' /\ DownsRef' /\ UpsRef'
<1> DEFINE m == Head(down[q])
           r == CASE m.type = "quad_swarm_msg" -> OnTarget(quad[q], m.target)
                  [] m.type = "block"          -> OnBlock(quad[q], m.block)
                  [] OTHER                     -> OnAck(quad[q], m.ack)
<1>1. m \in Sendable(gcs) /\ Tail(down[q]) \in Seq(Sendable(gcs))
  BY TailRef DEF RefInv, DownsRef, Deliver
<1>2. quad' = [quad EXCEPT ![q] = r] /\ down' = [down EXCEPT ![q] = Tail(down[q])] /\ up' = up
  BY DEF Deliver
<1>3. QuadRef(gcs, quad[q])
  BY DEF RefInv, QuadsRef
<1>4. QuadRef(gcs, r)
  <2>1. CASE m \in {Target(t) : t \in Known}
    <3>1. PICK t \in Known : m = Target(t)
      BY <2>1
    <3>2. m.type = "quad_swarm_msg" /\ m.target = t
      BY <3>1 DEF Target
    <3> QED BY <1>3, <3>2, TargetRef
  <2>2. CASE m \in {Block(b) : b \in Blocks}
    <3>1. PICK b \in Blocks : m = Block(b)
      BY <2>2
    <3>2. m.type = "block" /\ m.block = b
      BY <3>1 DEF Block
    <3>3. r = [quad[q] EXCEPT !.block = b]
      BY <3>2 DEF OnBlock
    <3>4. QuadRef(gcs, [quad[q] EXCEPT !.block = b])
      BY <1>3, RefFields DEF QuadRef
    <3> QED BY <3>3, <3>4
  <2>3. CASE m \in {Ack(a) : a \in Acks(gcs)}
    <3>1. PICK a \in Acks(gcs) : m = Ack(a)
      BY <2>3
    <3>2. m.type = "quad_swarm_ack_forwarded" /\ m.ack = a
      BY <3>1 DEF Ack
    <3>3. r = OnAck(quad[q], a)
      BY <3>2
    <3>4. QuadRef(gcs, OnAck(quad[q], a))
      BY <1>3, AckRef
    <3> QED BY <3>3, <3>4
  <2> QED BY <1>1, <2>1, <2>2, <2>3 DEF Sendable
<1> HIDE DEF r
<1>5. QuadsRef'
  BY <1>2, <1>4, QuadRefStep DEF IInv
<1>6. DownsRef'
  BY <1>1, <1>2, DownRefStep DEF IInv
<1> QED
  BY <1>2, <1>5, <1>6 DEF RefInv, UpsRef

(* Flight plan and pilot change neither the swarm state nor a target.      *)
LEMMA BlockAndModeRef ==
  ASSUME RefInv, IInv, NEW q \in Quads, FlightPlan(q) \/ PilotMode(q), gcs' = gcs
  PROVE  QuadsRef' /\ DownsRef' /\ UpsRef'
<1>1. QuadRef(gcs, quad[q])
  BY DEF RefInv, QuadsRef
<1>2. CASE FlightPlan(q)
  <2> DEFINE x == [quad[q] EXCEPT !.block = FlightPlanNext[quad[q].block]]
  <2>1. FlightPlanNext[quad[q].block] \in Blocks
    BY <1>2 DEF FlightPlan, FlightPlanNext, Blocks, BLOCK_ID_TAKE_OFF, BLOCK_ID_LAND_HERE,
       BLOCK_ID_HOLDING_POINT, BLOCK_ID_START_ENGINE
  <2>2. QuadRef(gcs, x)
    BY <1>1, <2>1, RefFields DEF QuadRef
  <2>3. quad' = [quad EXCEPT ![q] = x] /\ up' = up /\ down' = down
    BY <1>2 DEF FlightPlan
  <2> HIDE DEF x
  <2> QED BY <2>2, <2>3, QuadRefStep DEF IInv, RefInv, DownsRef, UpsRef
<1>3. CASE PilotMode(q)
  <2> DEFINE x == [quad[q] EXCEPT !.nav = ~quad[q].nav]
  <2>1. QuadRef(gcs, x)
    BY <1>1, RefFields DEF QuadRef
  <2>2. quad' = [quad EXCEPT ![q] = x] /\ up' = up /\ down' = down
    BY <1>3 DEF PilotMode
  <2> HIDE DEF x
  <2> QED BY <2>1, <2>2, QuadRefStep DEF IInv, RefInv, DownsRef, UpsRef
<1> QED BY <1>2, <1>3

(* A loss leaves the rest of a channel.                                    *)
LEMMA LossRef ==
  ASSUME RefInv, IInv, NEW q \in Quads, LoseDown(q) \/ LoseUp(q), UNCHANGED <<quad, gcs>>
  PROVE  QuadsRef' /\ DownsRef' /\ UpsRef'
<1>1. QuadsRef'
  BY DEF RefInv, QuadsRef
<1>2. CASE LoseDown(q)
  <2>1. down' = [down EXCEPT ![q] = Tail(down[q])] /\ up' = up
    BY <1>2 DEF LoseDown
  <2>2. Tail(down[q]) \in Seq(Sendable(gcs))
    BY <1>2, TailRef DEF RefInv, DownsRef, LoseDown
  <2>3. DownsRef'
    BY <2>1, <2>2, DownRefStep DEF IInv
  <2> QED BY <1>1, <2>1, <2>3 DEF RefInv, UpsRef
<1>3. CASE LoseUp(q)
  <2>1. up' = [up EXCEPT ![q] = Tail(up[q])] /\ down' = down
    BY <1>3 DEF LoseUp
  <2>2. Tail(up[q]) \in Seq(States(gcs))
    BY <1>3, TailRef DEF RefInv, UpsRef, LoseUp
  <2>3. UpsRef'
    BY <2>1, <2>2, UpRefStep DEF IInv
  <2> QED BY <1>1, <2>1, <2>3 DEF RefInv, DownsRef
<1> QED BY <1>2, <1>3

-----------------------------------------------------------------------------
(* The ground station.  What the operators that move a thread on change.   *)
SameNews(g, h) ==
  h.referenced = g.referenced /\ h.located = g.located /\ h.cached = g.cached

LEMMA ScanFields ==
  ASSUME NEW g \in GcsType, NEW s
  PROVE  LET h == Scan(g, s)
         IN  /\ SameNews(g, h) /\ h.target = g.target /\ h.job = g.job /\ h.wait = g.wait
             /\ h.pc = "scan" /\ h.goal = s /\ h.at = 1
BY DEF Scan, SameNews, GcsType

LEMMA WaitAllFields ==
  ASSUME NEW g \in GcsType, NEW s
  PROVE  LET h == WaitAll(g, s)
         IN  /\ SameNews(g, h) /\ h.target = g.target /\ h.job = g.job /\ h.wait = s
             /\ h.pc = "scan" /\ h.goal = s /\ h.at = 1
BY DEF WaitAll, Scan, SameNews, GcsType

LEMMA DoneFields ==
  ASSUME NEW g \in GcsType
  PROVE  LET h == Done(g)
         IN  /\ SameNews(g, h) /\ h.target = g.target /\ h.job = "none" /\ h.wait = NONE
             /\ h.pc = "idle"
BY DEF Done, SameNews, GcsType

LEMMA SendFromFields ==
  ASSUME NEW g \in GcsType, NEW q
  PROVE  LET h == SendFrom(g, q)
         IN  /\ SameNews(g, h) /\ h.target = g.target /\ h.job = g.job /\ h.wait = g.wait
             /\ h.pc = "send" /\ h.goal = g.goal
BY DEF SendFrom, SameNews, GcsType

(* A step that brings no news keeps what was heard, if it ends no thread   *)
(* too early.                                                              *)
LEMMA NoNews ==
  ASSUME NEW g, NEW h, GcsRef(g), GcsOK(h), JobOK(h), SameNews(g, h),
         \A q \in Quads : h.target[q] \in Known,
         NavAsked(g) => NavAsked(h), RefAsked(g) => RefAsked(h),
         h.job = "init" /\ h.pc = "scan" /\ h.at > LEADER => h.located,
         h.pc = "targets" => h.referenced
  PROVE  GcsRef(h) /\ Grown(g, h)
<1>1. Grown(g, h)
  BY DEF Grown, SameNews
<1>2. \A q \in Quads : h.cached[q] \in States(h)
  BY <1>1, StatesGrow DEF GcsRef, HeardOK, SameNews
<1>3. HeardOK(h)
  BY <1>2 DEF GcsRef, HeardOK, SameNews
<1> QED BY <1>1, <1>3 DEF GcsRef

(* A state that the leader has reported tells that its position is known;  *)
(* one that needs a reference, that there is one.                          *)
LEMMA NewsTold ==
  ASSUME NEW g, GcsRef(g)
  PROVE  /\ g.cached[LEADER] \in {SWARM_INIT, SWARM_NEGOTIATE_REF} => g.located
         /\ \A q \in Quads :
              g.cached[q] \in {SWARM_WAIT_CMD, SWARM_WAIT_CMD_TAKEOFF, SWARM_REPORT_STATE}
                => g.referenced
<1>1. g.cached[LEADER] \in {SWARM_INIT, SWARM_NEGOTIATE_REF} => g.located
  BY DEF GcsRef, HeardOK, SWARM_INIT, SWARM_NEGOTIATE_REF, SWARM_KILLED
<1>2. ASSUME NEW q \in Quads,
             g.cached[q] \in {SWARM_WAIT_CMD, SWARM_WAIT_CMD_TAKEOFF, SWARM_REPORT_STATE}
      PROVE  g.referenced
  <2>1. g.cached[q] \notin Early
    BY <1>2 DEF Early, Idle, SWARM_NEGOTIATE_REF, SWARM_KILLED, SWARM_LANDHERE, SWARM_LANDED,
       SWARM_INIT, SWARM_WAIT_CMD, SWARM_WAIT_CMD_TAKEOFF, SWARM_REPORT_STATE
  <2>2. g.cached[q] \in States(g)
    BY DEF GcsRef, HeardOK
  <2> QED BY <2>1, <2>2, StatesOrder DEF States
<1> QED BY <1>1, <1>2

(* The states that the two threads wait for are no other thread's.         *)
LEMMA JobStates ==
  /\ {SWARM_INIT, SWARM_NEGOTIATE_REF, SWARM_WAIT_CMD}
       \cap {SWARM_WAIT_CMD_START_ENGINE, SWARM_WAIT_CMD_TAKEOFF, SWARM_WAIT_EXEC_ACK,
             SWARM_EXEC_CMD, SWARM_REPORT_STATE, SWARM_LANDED, NONE} = {}
  /\ SWARM_INIT # SWARM_NEGOTIATE_REF /\ SWARM_INIT # SWARM_WAIT_CMD
  /\ SWARM_WAIT_CMD # SWARM_NEGOTIATE_REF /\ NONE # SWARM_WAIT_EXEC_ACK
  /\ SWARM_EXEC_CMD # SWARM_INIT /\ SWARM_EXEC_CMD # SWARM_NEGOTIATE_REF
  /\ SWARM_EXEC_CMD # SWARM_WAIT_CMD /\ SWARM_EXEC_CMD # NONE
BY DEF SWARM_INIT, SWARM_NEGOTIATE_REF, SWARM_WAIT_CMD, SWARM_WAIT_CMD_START_ENGINE,
   SWARM_WAIT_CMD_TAKEOFF, SWARM_WAIT_EXEC_ACK, SWARM_EXEC_CMD, SWARM_REPORT_STATE,
   SWARM_LANDED, NONE

(* The scan of "init" ends only when the leader has reported, that of      *)
(* "end negotiate" only when there is a reference, that of a go thread     *)
(* comes to compute targets only then.                                     *)
LEMMA AfterScanRef ==
  ASSUME NEW g, GcsRef(g), g.pc = "scan", NEW ok \in BOOLEAN,
         ok => g.cached[g.at] = g.goal /\ g.at = QUAD_NB
  PROVE  GcsRef(AfterScan(g, ok)) /\ Grown(g, AfterScan(g, ok))
<1> DEFINE h == AfterScan(g, ok)
<1>1. /\ g \in GcsType /\ JobOK(g) /\ HeardOK(g) /\ GcsOK(h) /\ g.at \in Quads
      /\ \A q \in Quads : g.target[q] \in Known
  BY AfterScanOK DEF GcsRef, GcsOK, GcsType, HeardOK
<1>2. ok => (g.goal \in {SWARM_WAIT_CMD, SWARM_WAIT_CMD_TAKEOFF, SWARM_REPORT_STATE} => g.referenced)
  BY <1>1, NewsTold
<1>3. ok /\ g.job = "init" => g.located
  <2>1. CASE g.at > LEADER
    BY <1>1, <2>1 DEF HeardOK
  <2>2. CASE ~(g.at > LEADER)
    <3>1. ok => g.at = LEADER
      BY <1>1, <2>2, SwarmLinkAssumption DEF Quads
    <3>2. g.job = "init" => g.goal \in {SWARM_INIT, SWARM_NEGOTIATE_REF}
      BY <1>1 DEF JobOK
    <3> QED BY <3>1, <3>2, NewsTold
  <2> QED BY <2>1, <2>2
<1>4. ~(1 > LEADER)
  BY SwarmLinkAssumption
<1>5. CASE g.job = "init"
  <2>1. g.wait \in {SWARM_INIT, SWARM_NEGOTIATE_REF} /\ g.goal = g.wait /\ g.wait # NONE
    BY <1>1, <1>5, JobStates DEF JobOK
  <2>2. h = AfterWait(g, ok)
    BY <2>1 DEF AfterScan
  <2>3. CASE ok /\ g.wait = SWARM_INIT
    <3>1. h = WaitAll(g, SWARM_NEGOTIATE_REF)
      BY <2>2, <2>3, JobStates, <2>1 DEF AfterWait
    <3> HIDE DEF h
    <3>2. /\ SameNews(g, h) /\ h.target = g.target /\ h.job = "init" /\ h.wait = SWARM_NEGOTIATE_REF
          /\ h.pc = "scan" /\ h.goal = SWARM_NEGOTIATE_REF /\ h.at = 1
      BY <1>1, <1>5, <3>1, WaitAllFields
    <3>3. JobOK(h)
      BY <3>2, JobStates DEF JobOK
    <3>4. GcsRef(h) /\ Grown(g, h)
      BY <1>1, <1>4, <1>5, <3>2, <3>3, NoNews DEF SameNews, NavAsked, RefAsked
    <3> QED BY <3>4 DEF h
  <2>4. CASE ok /\ g.wait = SWARM_NEGOTIATE_REF
    <3>1. h = Done(g)
      BY <2>2, <2>4, JobStates, <2>1 DEF AfterWait
    <3> HIDE DEF h
    <3>2. /\ SameNews(g, h) /\ h.target = g.target /\ h.job = "none" /\ h.wait = NONE
          /\ h.pc = "idle"
      BY <1>1, <3>1, DoneFields
    <3>3. JobOK(h)
      BY <3>2, JobStates DEF JobOK
    <3>4. g.located
      BY <1>3, <1>5, <2>4
    <3>5. GcsRef(h) /\ Grown(g, h)
      BY <1>1, <1>5, <3>2, <3>3, <3>4, NoNews DEF SameNews, NavAsked, RefAsked
    <3> QED BY <3>5 DEF h
  <2>5. CASE ~ok /\ g.wait = SWARM_NEGOTIATE_REF
    <3>1. h = Scan(g, g.wait)
      BY <2>1, <2>2, <2>5, JobStates DEF AfterWait
    <3> HIDE DEF h
    <3>2. /\ SameNews(g, h) /\ h.target = g.target /\ h.job = "init" /\ h.wait = g.wait
          /\ h.pc = "scan" /\ h.goal = g.wait /\ h.at = 1
      BY <1>1, <1>5, <3>1, ScanFields
    <3>3. JobOK(h)
      BY <2>5, <3>2, JobStates DEF JobOK
    <3>4. GcsRef(h) /\ Grown(g, h)
      BY <1>1, <1>4, <1>5, <3>2, <3>3, NoNews DEF SameNews, NavAsked, RefAsked
    <3> QED BY <3>4 DEF h
  <2>6. CASE ~ok /\ g.wait = SWARM_INIT
    <3>1. h = SendFrom(g, 1)
      BY <2>1, <2>2, <2>6, JobStates DEF AfterWait
    <3> HIDE DEF h
    <3>2. /\ SameNews(g, h) /\ h.target = g.target /\ h.job = "init" /\ h.wait = SWARM_INIT
          /\ h.pc = "send"
      BY <1>1, <1>5, <2>6, <3>1, SendFromFields
    <3>3. JobOK(h)
      BY <3>2, JobStates DEF JobOK
    <3>4. GcsRef(h) /\ Grown(g, h)
      BY <1>1, <1>5, <3>2, <3>3, NoNews DEF SameNews, NavAsked, RefAsked
    <3> QED BY <3>4 DEF h
  <2> QED BY <2>1, <2>3, <2>4, <2>5, <2>6
<1>6. CASE g.job = "end_negotiate"
  <2>1. g.wait = SWARM_WAIT_CMD /\ g.goal = SWARM_WAIT_CMD /\ g.wait # NONE
    BY <1>1, <1>6, JobStates DEF JobOK
  <2>2. h = AfterWait(g, ok)
    BY <2>1 DEF AfterScan
  <2>3. CASE ok
    <3>1. h = Done(g)
      BY <2>1, <2>2, <2>3, JobStates DEF AfterWait
    <3> HIDE DEF h
    <3>2. /\ SameNews(g, h) /\ h.target = g.target /\ h.job = "none" /\ h.wait = NONE
          /\ h.pc = "idle"
      BY <1>1, <3>1, DoneFields
    <3>3. JobOK(h)
      BY <3>2, JobStates DEF JobOK
    <3>4. g.referenced
      BY <1>2, <2>1, <2>3
    <3>5. GcsRef(h) /\ Grown(g, h)
      BY <1>1, <1>6, <3>2, <3>3, <3>4, NoNews DEF SameNews, NavAsked, RefAsked
    <3> QED BY <3>5 DEF h
  <2>4. CASE ~ok
    <3>1. h = SendFrom(g, 1)
      BY <2>1, <2>2, <2>4, JobStates DEF AfterWait
    <3> HIDE DEF h
    <3>2. /\ SameNews(g, h) /\ h.target = g.target /\ h.job = "end_negotiate"
          /\ h.wait = SWARM_WAIT_CMD /\ h.pc = "send"
      BY <1>1, <1>6, <2>1, <3>1, SendFromFields
    <3>3. JobOK(h)
      BY <3>2, JobStates DEF JobOK
    <3>4. GcsRef(h) /\ Grown(g, h)
      BY <1>1, <1>6, <3>2, <3>3, NoNews DEF SameNews, NavAsked, RefAsked
    <3> QED BY <3>4 DEF h
  <2> QED BY <2>3, <2>4
<1>7. CASE g.job \notin {"init", "end_negotiate"}
  <2>0. /\ g.job # "none" /\ g.wait \notin {SWARM_INIT, SWARM_NEGOTIATE_REF, SWARM_WAIT_CMD}
    BY <1>1, <1>7 DEF JobOK
  <2>1. \/ h = Done(g)
        \/ h = SendFrom(g, 1) /\ g.wait # NONE
        \/ h = WaitAll(g, SWARM_EXEC_CMD) /\ g.job = "execute"
        \/ h = Scan(g, SWARM_REPORT_STATE)
        \/ /\ h = [g EXCEPT !.pc = "targets", !.at = 1]
           /\ ok /\ g.job = "go" /\ g.wait = NONE
    <3>1. CASE g.wait = NONE
      BY <3>1 DEF AfterScan, AfterGuard
    <3>2. CASE g.wait # NONE
      BY <2>0, <3>2 DEF AfterScan, AfterWait
    <3> QED BY <3>1, <3>2
  <2> HIDE DEF h
  <2>2. ASSUME SameNews(g, h), h.target = g.target, h.job \notin {"init", "end_negotiate"},
               JobOK(h), h.pc = "targets" => g.referenced
        PROVE  GcsRef(h) /\ Grown(g, h)
    BY <1>1, <1>7, <2>2, NoNews DEF SameNews, NavAsked, RefAsked
  <2>3. GcsRef(h) /\ Grown(g, h)
    <3>1. CASE h = Done(g)
      <4>1. /\ SameNews(g, h) /\ h.target = g.target /\ h.job = "none" /\ h.wait = NONE
            /\ h.pc = "idle"
        BY <1>1, <3>1, DoneFields
      <4>2. JobOK(h)
        BY <4>1, JobStates DEF JobOK
      <4> QED BY <2>2, <4>1, <4>2
    <3>2. CASE h = SendFrom(g, 1) /\ g.wait # NONE
      <4>1. /\ SameNews(g, h) /\ h.target = g.target /\ h.job = g.job /\ h.wait = g.wait
            /\ h.pc = "send"
        BY <1>1, <3>2, SendFromFields
      <4>2. JobOK(h)
        BY <1>7, <2>0, <3>2, <4>1 DEF JobOK
      <4> QED BY <1>7, <2>2, <4>1, <4>2
    <3>3. CASE h = WaitAll(g, SWARM_EXEC_CMD) /\ g.job = "execute"
      <4>1. /\ SameNews(g, h) /\ h.target = g.target /\ h.job = "execute" /\ h.wait = SWARM_EXEC_CMD
            /\ h.pc = "scan"
        BY <1>1, <3>3, WaitAllFields
      <4>2. JobOK(h)
        BY <4>1, JobStates DEF JobOK
      <4> QED BY <2>2, <4>1, <4>2
    <3>4. CASE h = Scan(g, SWARM_REPORT_STATE)
      <4>1. /\ SameNews(g, h) /\ h.target = g.target /\ h.job = g.job /\ h.wait = g.wait
            /\ h.pc = "scan" /\ h.goal = SWARM_REPORT_STATE
        BY <1>1, <3>4, ScanFields
      <4>2. JobOK(h)
        BY <1>7, <2>0, <4>1 DEF JobOK
      <4> QED BY <1>7, <2>2, <4>1, <4>2
    <3>5. CASE h = [g EXCEPT !.pc = "targets", !.at = 1] /\ ok /\ g.job = "go" /\ g.wait = NONE
      <4>1. /\ SameNews(g, h) /\ h.target = g.target /\ h.job = "go" /\ h.wait = NONE
            /\ h.pc = "targets"
        BY <1>1, <3>5 DEF SameNews, GcsType
      <4>2. JobOK(h)
        BY <4>1, JobStates DEF JobOK
      <4>3. g.goal \in {SWARM_WAIT_CMD_TAKEOFF, SWARM_REPORT_STATE}
        BY <1>1, <3>5 DEF JobOK
      <4>4. g.referenced
        BY <1>2, <3>5, <4>3
      <4> QED BY <2>2, <4>1, <4>2, <4>4
    <3> QED BY <2>1, <3>1, <3>2, <3>3, <3>4, <3>5
  <2> QED BY <2>3 DEF h
<1> QED BY <1>5, <1>6, <1>7

(* One turn of all_in_state: past the leader it has been heard of.         *)
LEMMA ScanQuadRef ==
  ASSUME GcsRef(gcs), ScanQuad
  PROVE  GcsRef(gcs') /\ Grown(gcs, gcs') /\ UNCHANGED <<up, down>>
<1> DEFINE in == gcs.cached[gcs.at] = gcs.goal
<1>1. /\ gcs \in GcsType /\ JobOK(gcs) /\ HeardOK(gcs) /\ GcsOK(gcs') /\ UNCHANGED <<up, down>>
      /\ gcs.pc = "scan" /\ gcs.at \in Quads /\ QUAD_NB \in Nat
      /\ \A q \in Quads : gcs.target[q] \in Known
  BY ScanQuadStep, SwarmLinkAssumption DEF GcsRef, GcsOK, GcsType, HeardOK, ScanQuad
<1>2. gcs' = (IF in /\ gcs.at < QUAD_NB THEN [gcs EXCEPT !.at = @ + 1]
                                        ELSE AfterScan(gcs, in))
  BY DEF ScanQuad
<1>3. CASE ~(in /\ gcs.at < QUAD_NB)
  <2>1. in => gcs.at = QUAD_NB
    BY <1>1, <1>3 DEF Quads
  <2>2. GcsRef(AfterScan(gcs, in)) /\ Grown(gcs, AfterScan(gcs, in))
    BY <1>1, <2>1, AfterScanRef
  <2> HIDE DEF in
  <2> QED BY <1>1, <1>2, <1>3, <2>2
<1>4. CASE in /\ gcs.at < QUAD_NB
  <2> DEFINE h == [gcs EXCEPT !.at = gcs.at + 1]
  <2>1. /\ SameNews(gcs, h) /\ h.target = gcs.target /\ h.job = gcs.job /\ h.wait = gcs.wait
        /\ h.pc = gcs.pc /\ h.goal = gcs.goal /\ h.at = gcs.at + 1
    BY <1>1 DEF SameNews, GcsType
  <2>2. gcs' = h
    BY <1>2, <1>4
  <2> HIDE DEF h
  <2>3. JobOK(h)
    BY <1>1, <2>1 DEF JobOK
  <2>4. ASSUME h.job = "init", h.at > LEADER
        PROVE  h.located
    <3>1. gcs.goal \in {SWARM_INIT, SWARM_NEGOTIATE_REF} /\ gcs.job = "init"
      BY <1>1, <2>1, <2>4 DEF JobOK
    <3>2. gcs.at = LEADER \/ gcs.at > LEADER
      BY <1>1, <2>1, <2>4, SwarmLinkAssumption DEF Quads
    <3>3. CASE gcs.at = LEADER
      BY <1>4, <2>1, <3>1, <3>3, NewsTold DEF SameNews
    <3>4. CASE gcs.at > LEADER
      BY <1>1, <2>1, <3>1, <3>4 DEF HeardOK, SameNews
    <3> QED BY <3>2, <3>3, <3>4
  <2>5. GcsRef(h) /\ Grown(gcs, h)
    BY <1>1, <2>1, <2>2, <2>3, <2>4, NoNews DEF SameNews, NavAsked, RefAsked
  <2> QED BY <1>1, <2>2, <2>5
<1> QED BY <1>3, <1>4

(* A message that may be sent is put on its channel.                       *)
LEMMA SendRef ==
  ASSUME RefInv, IInv, Grown(gcs, gcs'), NEW q \in Quads, NEW m \in Sendable(gcs),
         down' = [down EXCEPT ![q] = Sent(down[q], m)]
  PROVE  DownsRef'
<1>1. Sendable(gcs) \subseteq Sendable(gcs')
  BY StatesGrow
<1>2. \A r \in Quads : down[r] \in Seq(Sendable(gcs'))
  BY <1>1, SeqGrow DEF RefInv, DownsRef
<1>3. Sent(down[q], m) \in Seq(Sendable(gcs'))
  BY <1>1, <1>2, SentRef DEF Sent
<1>4. down = [r \in Quads |-> down[r]]
  BY DEF IInv, DownsOK
<1> QED BY <1>2, <1>3, <1>4 DEF DownsRef

(* A go thread computes targets only from a reference.                     *)
LEMMA GoTargetRef ==
  ASSUME RefInv, IInv, GoTarget
  PROVE  GcsRef(gcs') /\ Grown(gcs, gcs') /\ DownsRef' /\ up' = up
<1> DEFINE t == [owner |-> gcs.at, dir |-> gcs.dir, referenced |-> gcs.referenced]
           g == [gcs EXCEPT !.target[gcs.at] = t]
<1>1. /\ gcs \in GcsType /\ GcsRef(gcs) /\ JobOK(gcs) /\ HeardOK(gcs) /\ GcsOK(gcs)
      /\ gcs.pc = "targets" /\ gcs.job = "go" /\ gcs.wait = NONE /\ gcs.referenced
      /\ gcs.at \in Quads /\ gcs.dir \in DIRECTIONS /\ gcs.target \in [Quads -> Targets]
      /\ \A q \in Quads : gcs.target[q] \in Known
  BY DEF RefInv, GcsRef, GoTarget, GcsOK, GcsType, JobOK, HeardOK
<1>2. t \in Known
  BY <1>1 DEF Known, Targets
<1>3. /\ gcs' = IF g.at < QUAD_NB THEN [g EXCEPT !.at = g.at + 1] ELSE WaitAll(g, SWARM_WAIT_EXEC_ACK)
      /\ down' = [down EXCEPT ![LEADER] = Sent(down[LEADER], Target(t))] /\ up' = up
  BY DEF GoTarget
<1>4. GcsOK(gcs')
  BY <1>1, GoTargetStep DEF IInv
<1> HIDE DEF t
<1> DEFINE f == [gcs.target EXCEPT ![gcs.at] = t]
<1>5. f \in [Quads -> Targets] /\ \A q \in Quads : f[q] \in Known
  BY <1>1, <1>2 DEF Known
<1>6. g = [gcs EXCEPT !.target = f]
  BY <1>1 DEF GcsType
<1> HIDE DEF f
<1>7. /\ g \in GcsType /\ SameNews(gcs, g) /\ g.target = f /\ g.job = "go" /\ g.wait = NONE
      /\ g.pc = "targets"
  BY <1>1, <1>5, <1>6 DEF GcsType, SameNews
<1> HIDE DEF g
<1>8. /\ SameNews(gcs, gcs') /\ gcs'.target = f /\ gcs'.job = "go" /\ JobOK(gcs')
  <2>1. CASE g.at < QUAD_NB
    <3> DEFINE h == [g EXCEPT !.at = g.at + 1]
    <3>1. /\ SameNews(g, h) /\ h.target = g.target /\ h.job = g.job /\ h.wait = g.wait
          /\ h.pc = g.pc
      BY <1>7 DEF GcsType, SameNews
    <3>2. gcs' = h
      BY <1>3, <2>1
    <3> HIDE DEF h
    <3>3. JobOK(h)
      BY <1>7, <3>1, JobStates DEF JobOK
    <3> QED BY <1>7, <3>1, <3>2, <3>3 DEF SameNews
  <2>2. CASE ~(g.at < QUAD_NB)
    <3> DEFINE h == WaitAll(g, SWARM_WAIT_EXEC_ACK)
    <3>1. gcs' = h
      BY <1>3, <2>2
    <3>2. /\ SameNews(g, h) /\ h.target = g.target /\ h.job = g.job
          /\ h.wait = SWARM_WAIT_EXEC_ACK /\ h.pc = "scan"
      BY <1>7, WaitAllFields
    <3> HIDE DEF h
    <3>3. JobOK(h)
      BY <1>7, <3>2, JobStates DEF JobOK
    <3> QED BY <1>7, <3>1, <3>2, <3>3 DEF SameNews
  <2> QED BY <2>1, <2>2
<1>9. GcsRef(gcs') /\ Grown(gcs, gcs')
  BY <1>1, <1>4, <1>5, <1>8, NoNews DEF SameNews, NavAsked, RefAsked
<1>10. Target(t) \in Sendable(gcs) /\ LEADER \in Quads
  BY <1>2, SwarmLinkAssumption DEF Sendable, Quads
<1>11. DownsRef'
  BY <1>3, <1>9, <1>10, SendRef
<1> QED BY <1>3, <1>9, <1>11

(* Whom a thread sends what: ACK_NAV is the message of "init", ACK_REF of  *)
(* "end negotiate".                                                        *)
LEMMA MessageRef ==
  ASSUME GcsRef(gcs), NEW q \in Quads
  PROVE  Message(q) \in Sendable(gcs)
<1>1. JobOK(gcs) /\ gcs.target[q] \in Known
  BY DEF GcsRef, HeardOK
<1>2. gcs.wait = SWARM_INIT => ACK_NAV \in Acks(gcs)
  BY <1>1 DEF JobOK, Acks, NavAsked, ACK_NAV, ACK_REF
<1>3. gcs.wait = SWARM_WAIT_CMD => ACK_REF \in Acks(gcs)
  BY <1>1 DEF JobOK, Acks, RefAsked, ACK_NAV, ACK_REF
<1>4. ACK_EXEC \in Acks(gcs)
  BY DEF Acks, ACK_NAV, ACK_REF, ACK_EXEC
<1>5. {BLOCK_ID_START_ENGINE, BLOCK_ID_TAKE_OFF, BLOCK_ID_LAND_HERE} \subseteq Blocks
  BY DEF Blocks
<1>6. /\ \A a \in Acks(gcs) : Ack(a) \in Sendable(gcs)
      /\ \A b \in Blocks : Block(b) \in Sendable(gcs)
      /\ Target(gcs.target[q]) \in Sendable(gcs)
  BY <1>1 DEF Sendable
<1> QED
  BY <1>2, <1>3, <1>4, <1>5, <1>6 DEF Message

(* One turn of wait_all_quads' loop.                                       *)
LEMMA SendQuadRef ==
  ASSUME RefInv, IInv, SendQuad
  PROVE  GcsRef(gcs') /\ Grown(gcs, gcs') /\ DownsRef' /\ up' = up
<1> DEFINE q == gcs.at
           g == IF ~Due THEN gcs
                ELSE IF gcs.wait = SWARM_EXEC_CMD THEN [gcs EXCEPT !.timer = FALSE]
                ELSE [gcs EXCEPT !.fresh[q] = FALSE]
           k == [g EXCEPT !.seen = SWARM_KILLED]
<1>1. /\ gcs' = IF q < QUAD_NB THEN SendFrom(g, q + 1) ELSE Scan(k, gcs.wait)
      /\ down' = IF Due THEN [down EXCEPT ![q] = Sent(down[q], Message(q))] ELSE down
      /\ up' = up
  BY DEF SendQuad
<1>2. /\ gcs \in GcsType /\ GcsRef(gcs) /\ JobOK(gcs) /\ HeardOK(gcs) /\ q \in Quads
      /\ gcs.pc = "send" /\ gcs.wait # NONE /\ \A r \in Quads : gcs.target[r] \in Known
  BY DEF RefInv, GcsRef, SendQuad, GcsOK, GcsType, JobOK, HeardOK
<1>3. GcsOK(gcs')
  BY SendQuadStep DEF IInv
<1>4. /\ g \in GcsType /\ SameNews(gcs, g) /\ g.target = gcs.target /\ g.job = gcs.job
      /\ g.wait = gcs.wait
  <2>1. CASE g = gcs
    BY <1>2, <2>1 DEF SameNews
  <2>2. CASE g = [gcs EXCEPT !.timer = FALSE]
    <3> HIDE DEF g
    <3> QED BY <1>2, <2>2 DEF GcsType, SameNews
  <2>3. CASE g = [gcs EXCEPT !.fresh[q] = FALSE]
    <3> HIDE DEF g
    <3> QED BY <1>2, <2>3 DEF GcsType, SameNews
  <2> QED BY <2>1, <2>2, <2>3
<1> HIDE DEF g
<1>5. /\ k \in GcsType /\ SameNews(gcs, k) /\ k.target = gcs.target /\ k.job = gcs.job
      /\ k.wait = gcs.wait
  BY <1>4, StatesKnown DEF GcsType, SameNews
<1> HIDE DEF k
<1>6. /\ SameNews(gcs, gcs') /\ gcs'.target = gcs.target /\ gcs'.job = gcs.job
      /\ gcs'.wait = gcs.wait
      /\ gcs'.pc = "send" \/ (gcs'.pc = "scan" /\ gcs'.goal = gcs.wait /\ gcs'.at = 1)
  <2>1. CASE q < QUAD_NB
    <3>1. gcs' = SendFrom(g, q + 1)
      BY <1>1, <2>1
    <3> QED BY <1>4, <3>1, SendFromFields DEF SameNews
  <2>2. CASE ~(q < QUAD_NB)
    <3>1. gcs' = Scan(k, gcs.wait)
      BY <1>1, <2>2
    <3> QED BY <1>5, <3>1, ScanFields DEF SameNews
  <2> QED BY <2>1, <2>2
<1>7. JobOK(gcs') /\ ~(1 > LEADER)
  BY <1>2, <1>6, SwarmLinkAssumption DEF JobOK
<1>8. GcsRef(gcs') /\ Grown(gcs, gcs')
  BY <1>2, <1>3, <1>6, <1>7, NoNews DEF SameNews, NavAsked, RefAsked
<1>9. DownsRef'
  <2>1. CASE Due
    <3>1. Message(q) \in Sendable(gcs)
      BY <1>2, MessageRef
    <3>2. down' = [down EXCEPT ![q] = Sent(down[q], Message(q))]
      BY <1>1, <2>1
    <3> HIDE DEF q
    <3> QED BY <1>2, <1>8, <3>1, <3>2, SendRef
  <2>2. CASE ~Due
    BY <1>1, <1>8, <2>2, RestKept
  <2> QED BY <2>1, <2>2
<1> QED BY <1>1, <1>8, <1>9

(* The clock brings no news.                                               *)
LEMMA TwoSecondsRef ==
  ASSUME GcsRef(gcs), TwoSeconds
  PROVE  GcsRef(gcs') /\ Grown(gcs, gcs')
<1>1. /\ gcs \in GcsType /\ GcsOK(gcs) /\ JobOK(gcs) /\ HeardOK(gcs)
  BY DEF GcsRef, GcsOK
<1>2. gcs' = [gcs EXCEPT !.timer = TRUE]
  BY DEF TwoSeconds
<1>3. /\ SameNews(gcs, gcs') /\ gcs'.target = gcs.target /\ gcs'.job = gcs.job
      /\ gcs'.wait = gcs.wait /\ gcs'.pc = gcs.pc /\ gcs'.goal = gcs.goal /\ gcs'.at = gcs.at
  BY <1>1, <1>2 DEF GcsType, SameNews
<1>4. GcsOK(gcs')
  BY <1>1, <1>2 DEF GcsOK, GcsType
<1>5. JobOK(gcs')
  BY <1>1, <1>3 DEF JobOK
<1> QED
  BY <1>1, <1>3, <1>4, <1>5, NoNews DEF SameNews, NavAsked, RefAsked, HeardOK

(* A report is of a state its quad has been in, and the leader's gives its *)
(* position with it.                                                       *)
LEMMA HandleReportRef ==
  ASSUME RefInv, IInv, NEW q \in Quads, HandleReport(q)
  PROVE  GcsRef(gcs') /\ Grown(gcs, gcs') /\ UpsRef' /\ down' = down
<1> DEFINE s == Head(up[q])
           n == gcs.wait # NONE
           l == gcs.located \/ q = LEADER
           c == [gcs.cached EXCEPT ![q] = s]
<1>1. /\ gcs \in GcsType /\ GcsOK(gcs) /\ JobOK(gcs) /\ HeardOK(gcs)
      /\ gcs.cached \in [Quads -> SwarmStates] /\ LEADER \in Quads
  BY SwarmLinkAssumption DEF RefInv, GcsRef, GcsOK, GcsType, Quads
<1>2. s \in States(gcs) /\ Tail(up[q]) \in Seq(States(gcs))
  BY TailRef DEF RefInv, UpsRef, HandleReport
<1>3. /\ gcs' = [gcs EXCEPT !.cached[q] = s, !.heard[q] = TRUE, !.fresh[q] = n, !.located = l]
      /\ up' = [up EXCEPT ![q] = Tail(up[q])] /\ down' = down
  BY DEF HandleReport
<1>4. GcsOK(gcs')
  BY HandleReportStep DEF IInv
<1> HIDE DEF s, n
<1>5. /\ gcs'.cached = c /\ gcs'.located = l /\ gcs'.referenced = gcs.referenced
      /\ gcs'.target = gcs.target /\ gcs'.job = gcs.job /\ gcs'.wait = gcs.wait
      /\ gcs'.pc = gcs.pc /\ gcs'.goal = gcs.goal /\ gcs'.at = gcs.at
  BY <1>1, <1>3 DEF GcsType
<1>6. gcs.located => gcs'.located
  BY <1>5
<1>7. Grown(gcs, gcs')
  BY <1>5, <1>6 DEF Grown, NavAsked, RefAsked
<1>8. States(gcs) \subseteq States(gcs')
  BY <1>7, StatesGrow
<1>9. \A r \in Quads : gcs'.cached[r] \in States(gcs')
  BY <1>1, <1>2, <1>5, <1>8 DEF HeardOK
<1>10. gcs'.cached[LEADER] # SWARM_KILLED => gcs'.located
  BY <1>1, <1>5 DEF HeardOK
<1>11. JobOK(gcs')
  BY <1>1, <1>5 DEF JobOK
<1>12. HeardOK(gcs')
  BY <1>1, <1>5, <1>6, <1>9, <1>10 DEF HeardOK
<1>13. UpsRef'
  <2>1. \A r \in Quads : up[r] \in Seq(States(gcs'))
    BY <1>8, SeqGrow DEF RefInv, UpsRef
  <2>2. Tail(up[q]) \in Seq(States(gcs'))
    BY <1>2, <1>8, SeqGrow
  <2>3. up = [r \in Quads |-> up[r]]
    BY DEF IInv, UpsOK
  <2> QED BY <1>3, <2>1, <2>2, <2>3 DEF UpsRef
<1> QED BY <1>3, <1>4, <1>7, <1>11, <1>12, <1>13 DEF GcsRef

(* The buttons.  "end negotiate" takes the reference, and while it has     *)
(* none it asks quads that have not been told to begin.                    *)
LEMMA PressRef ==
  ASSUME GcsRef(gcs), Press
  PROVE  GcsRef(gcs') /\ Grown(gcs, gcs') /\ UNCHANGED <<up, down>>
<1>1. /\ gcs \in GcsType /\ GcsOK(gcs) /\ JobOK(gcs) /\ HeardOK(gcs) /\ GcsOK(gcs')
      /\ UNCHANGED <<up, down>> /\ \A q \in Quads : gcs.target[q] \in Known
      /\ ~(1 > LEADER)
  BY PressStep, SwarmLinkAssumption DEF GcsRef, GcsOK, HeardOK
<1>2. CASE \E j \in BUTTONS : PressWait(j)
  <2>1. PICK j \in BUTTONS : PressWait(j)
    BY <1>2
  <2> DEFINE r == IF j = "end_negotiate" THEN gcs.located ELSE gcs.referenced
             g == [gcs EXCEPT !.job = j, !.referenced = r]
  <2>2. /\ j \in {"end_negotiate", "init", "start_engine", "takeoff", "land_here"}
        /\ gcs.job = "none" /\ gcs' = WaitAll(g, WaitOfJob[j])
    BY <2>1 DEF PressWait, WaitOfJob
  <2>3. /\ r \in BOOLEAN /\ j \in Jobs
        /\ gcs.referenced => r
    BY <1>1, <2>2 DEF GcsType, HeardOK, Jobs
  <2> HIDE DEF r
  <2>4. /\ g \in GcsType /\ g.referenced = r /\ g.located = gcs.located /\ g.cached = gcs.cached
        /\ g.target = gcs.target /\ g.job = j
    BY <1>1, <2>3 DEF GcsType
  <2> HIDE DEF g
  <2>5. /\ gcs'.referenced = r /\ gcs'.located = gcs.located /\ gcs'.cached = gcs.cached
        /\ gcs'.target = gcs.target /\ gcs'.job = j /\ gcs'.pc = "scan" /\ gcs'.at = 1
        /\ gcs'.wait = WaitOfJob[j] /\ gcs'.goal = WaitOfJob[j]
    BY <2>2, <2>4, WaitAllFields DEF SameNews
  <2>6. JobOK(gcs')
    <3>1. CASE j = "init"
      BY <2>5, <3>1, JobStates DEF JobOK, WaitOfJob
    <3>2. CASE j = "end_negotiate"
      BY <2>5, <3>2, JobStates DEF JobOK, WaitOfJob
    <3>3. CASE j \in {"start_engine", "takeoff", "land_here"}
      <4>1. gcs'.wait \in {SWARM_WAIT_CMD_START_ENGINE, SWARM_WAIT_CMD_TAKEOFF, SWARM_LANDED}
        BY <2>5, <3>3 DEF WaitOfJob
      <4>2. gcs'.wait \notin {SWARM_INIT, SWARM_NEGOTIATE_REF, SWARM_WAIT_CMD}
        BY <4>1, JobStates
      <4> QED BY <2>5, <3>3, <4>2 DEF JobOK
    <3> QED BY <2>2, <3>1, <3>2, <3>3
  <2>7. Grown(gcs, gcs')
    <3>1. gcs.referenced => gcs'.referenced
      BY <2>3, <2>5
    <3>2. RefAsked(gcs) => RefAsked(gcs')
      BY <2>2, <3>1 DEF RefAsked
    <3>3. NavAsked(gcs) => NavAsked(gcs')
      <4>1. j = "end_negotiate" => r = gcs.located
        BY DEF r
      <4> QED BY <2>2, <2>5, <4>1 DEF NavAsked
    <3> QED BY <3>1, <3>2, <3>3 DEF Grown
  <2>8. \A q \in Quads : gcs'.cached[q] \in States(gcs')
    BY <1>1, <2>5, <2>7, StatesGrow DEF HeardOK
  <2>9. r => gcs.located
    BY <1>1 DEF r, HeardOK
  <2>10. HeardOK(gcs')
    BY <1>1, <2>5, <2>8, <2>9 DEF HeardOK
  <2> QED BY <1>1, <2>6, <2>7, <2>10 DEF GcsRef
<1>3. CASE (\E d \in DIRECTIONS : PressGo(d)) \/ PressExecute
  <2>1. PICK d : \/ /\ gcs' = Scan([gcs EXCEPT !.job = "go", !.dir = d], SWARM_WAIT_CMD_TAKEOFF)
                   /\ d \in DIRECTIONS
                \/ gcs' = Scan([gcs EXCEPT !.job = "execute"], SWARM_WAIT_EXEC_ACK)
    BY <1>3 DEF PressGo, PressExecute
  <2>2. gcs.job = "none"
    BY <1>3 DEF PressGo, PressExecute
  <2>3. /\ SameNews(gcs, gcs') /\ gcs'.target = gcs.target /\ gcs'.wait = gcs.wait /\ gcs'.pc = "scan"
        /\ \/ gcs'.job = "go" /\ gcs'.goal = SWARM_WAIT_CMD_TAKEOFF
           \/ gcs'.job = "execute"
    <3>1. CASE gcs' = Scan([gcs EXCEPT !.job = "execute"], SWARM_WAIT_EXEC_ACK)
      <4> DEFINE g == [gcs EXCEPT !.job = "execute"]
      <4>1. /\ g \in GcsType /\ SameNews(gcs, g) /\ g.target = gcs.target /\ g.wait = gcs.wait
            /\ g.job = "execute"
        BY <1>1 DEF GcsType, SameNews, Jobs
      <4> HIDE DEF g
      <4> QED BY <3>1, <4>1, ScanFields DEF SameNews, g
    <3>2. CASE /\ gcs' = Scan([gcs EXCEPT !.job = "go", !.dir = d], SWARM_WAIT_CMD_TAKEOFF)
               /\ d \in DIRECTIONS
      <4> DEFINE g == [gcs EXCEPT !.job = "go", !.dir = d]
      <4>1. /\ g \in GcsType /\ SameNews(gcs, g) /\ g.target = gcs.target /\ g.wait = gcs.wait
            /\ g.job = "go"
        BY <1>1, <3>2 DEF GcsType, SameNews, Jobs
      <4> HIDE DEF g
      <4> QED BY <3>2, <4>1, ScanFields DEF SameNews, g
    <3> QED BY <2>1, <3>1, <3>2
  <2>4. JobOK(gcs')
    BY <1>1, <2>2, <2>3, JobStates DEF JobOK
  <2> QED BY <1>1, <2>2, <2>3, <2>4, NoNews DEF SameNews, NavAsked, RefAsked
<1> QED BY <1>2, <1>3 DEF Press

-----------------------------------------------------------------------------
(* On the ground nothing is asked or heard, and nobody has a target.       *)
LEMMA InitRef ==
  ASSUME START = {"ground"}, Init
  PROVE  RefInv
<1>1. quad = [q \in Quads |-> GroundQuad]
  BY DEF Init, QuadAt
<1>2. /\ gcs.job = "none" /\ gcs.pc = "idle" /\ gcs.wait = NONE /\ ~gcs.referenced /\ ~gcs.located
      /\ gcs.cached = [q \in Quads |-> SWARM_KILLED]
      /\ gcs.target = [q \in Quads |-> NoTarget]
  BY DEF Init, GcsStarts
<1>3. SWARM_KILLED \in States(gcs)
  BY StatesOrder DEF Idle
<1>4. JobOK(gcs)
  BY <1>2, JobStates DEF JobOK
<1>5. LEADER \in Quads
  BY SwarmLinkAssumption DEF Quads
<1>6. HeardOK(gcs)
  BY <1>2, <1>3, <1>5, NoTargetKnown DEF HeardOK
<1>7. GcsRef(gcs)
  BY <1>4, <1>6, InitOK DEF GcsRef, IInv
<1>8. GroundQuad.swarm = SWARM_KILLED /\ GroundQuad.target = NoTarget /\ GroundQuad.waypoint = NoTarget
  BY DEF GroundQuad
<1>9. \A q \in Quads : quad[q] \in QuadType
  BY InitOK DEF IInv, QuadsOK
<1>10. QuadsRef
  BY <1>1, <1>3, <1>8, <1>9, NoTargetKnown DEF QuadsRef, QuadRef
<1>11. DownsRef /\ UpsRef
  BY EmptySeq DEF Init, LinkInit, DownsRef, UpsRef
<1> QED BY <1>7, <1>10, <1>11 DEF RefInv

(* Every step keeps the invariant, if the ground station is not restarted. *)
LEMMA NextRef ==
  ASSUME ~RESTARTS, IInv, RefInv, Next
  PROVE  RefInv'
<1>1. CASE (\E q \in Quads : Airborne(q)) /\ UNCHANGED gcs
  <2>1. QuadsRef' /\ DownsRef' /\ UpsRef'
    BY <1>1, PeriodicRef, DeliverRef, BlockAndModeRef DEF Airborne
  <2> QED BY <1>1, <2>1 DEF RefInv
<1>2. CASE (\E q \in Quads : LoseDown(q) \/ LoseUp(q)) /\ UNCHANGED <<quad, gcs>>
  <2>1. QuadsRef' /\ DownsRef' /\ UpsRef'
    BY <1>2, LossRef
  <2> QED BY <1>2, <2>1 DEF RefInv
<1>3. CASE /\ Press \/ Job \/ TwoSeconds \/ GcsRestart \/ (\E q \in Quads : HandleReport(q))
           /\ UNCHANGED quad
  <2>0. GcsRef(gcs)
    BY DEF RefInv
  <2>1. GcsRef(gcs') /\ Grown(gcs, gcs') => QuadsRef'
    BY <1>3, RestKept
  <2>2. CASE Press
    <3>1. GcsRef(gcs') /\ Grown(gcs, gcs') /\ UNCHANGED <<up, down>>
      BY <2>0, <2>2, PressRef
    <3> QED BY <2>1, <3>1, RestKept DEF RefInv
  <2>3. CASE ScanQuad
    <3>1. GcsRef(gcs') /\ Grown(gcs, gcs') /\ UNCHANGED <<up, down>>
      BY <2>0, <2>3, ScanQuadRef
    <3> QED BY <2>1, <3>1, RestKept DEF RefInv
  <2>4. CASE GoTarget
    <3>1. GcsRef(gcs') /\ Grown(gcs, gcs') /\ DownsRef' /\ up' = up
      BY <2>4, GoTargetRef
    <3> QED BY <2>1, <3>1, RestKept DEF RefInv
  <2>5. CASE SendQuad
    <3>1. GcsRef(gcs') /\ Grown(gcs, gcs') /\ DownsRef' /\ up' = up
      BY <2>5, SendQuadRef
    <3> QED BY <2>1, <3>1, RestKept DEF RefInv
  <2>6. CASE TwoSeconds
    <3>1. GcsRef(gcs') /\ Grown(gcs, gcs') /\ UNCHANGED <<up, down>>
      BY <2>0, <2>6, TwoSecondsRef DEF TwoSeconds
    <3> QED BY <2>1, <3>1, RestKept DEF RefInv
  <2>7. CASE \E q \in Quads : HandleReport(q)
    <3>1. GcsRef(gcs') /\ Grown(gcs, gcs') /\ UpsRef' /\ down' = down
      BY <2>7, HandleReportRef
    <3> QED BY <2>1, <3>1, RestKept DEF RefInv
  <2> QED
    BY <1>3, <2>2, <2>3, <2>4, <2>5, <2>6, <2>7 DEF Job, GcsRestart
<1> QED BY <1>1, <1>2, <1>3 DEF Next

(* Started on the ground, with a ground station that runs on, the quads    *)
(* fly only to targets computed from the reference that the leader's       *)
(* position gave, whatever buttons are pressed in whatever order and       *)
(* whatever is lost: the go threads (Ground_Station.cpp) do not test it.   *)
THEOREM TargetsReferenced ==
  ASSUME START = {"ground"}, ~RESTARTS
  PROVE  Spec => []TargetReferenced
<1>1. Init => RefInv
  BY InitRef
<1>2. IInv /\ RefInv /\ [Next]_vars => RefInv'
  <2> SUFFICES ASSUME IInv, RefInv, [Next]_vars PROVE RefInv'
    OBVIOUS
  <2>1. CASE Next
    BY <2>1, NextRef
  <2>2. CASE UNCHANGED vars
    BY <2>2 DEF vars, RefInv, QuadsRef, DownsRef, UpsRef
  <2> QED BY <2>1, <2>2
<1>3. RefInv => TargetReferenced
  BY DEF RefInv, QuadsRef, QuadRef, Known, TargetReferenced
<1> QED
  BY <1>1, <1>2, <1>3, SwarmInductive, PTL DEF Spec
=============================================================================
