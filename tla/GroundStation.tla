--------------------------- MODULE GroundStation ---------------------------
(***************************************************************************)
(* The swarm's ground station: GCS/Ground_Station.cpp and GCS/Swarm.cpp.   *)
(* Each button starts a thread that takes the mutex GCS_busy with trylock  *)
(* and gives up if it is held, so at most one of them, the "job", runs;    *)
(* beside it runs the data handler, which stores the quads' reports.  They *)
(* share the arrays of class Swarm, which the job reads without a lock: a  *)
(* step of the job reads one quad's entry.                                 *)
(*                                                                         *)
(* The report counters timestamp[q] appear as what the job asks of them:   *)
(* fresh[q], a report came since the last message to q.  last_timestamp    *)
(* starts from 0, so a quad is fresh at first if it ever reported, or if   *)
(* its counter, which nothing initialises, was not 0.                      *)
(***************************************************************************)
EXTENDS SwarmLink

CONSTANTS
  BUTTONS,  \* the buttons the operator uses
  RESTARTS  \* whether the ground station may be restarted

VARIABLE gcs

NONE == 99   \* not a swarm state

Jobs == {"init", "end_negotiate", "start_engine", "takeoff", "go", "execute", "land_here"}

ASSUME GroundStationAssumption == BUTTONS \subseteq Jobs /\ RESTARTS \in BOOLEAN

GcsType ==
  [job : Jobs \cup {"none"},         \* the thread that holds GCS_busy
   pc : {"idle", "scan", "targets", "send"},
   wait : SwarmStates \cup {NONE},   \* argument of wait_all_quads while it runs
   goal : SwarmStates \cup {NONE},   \* argument of all_in_state while it runs
   at : Quads,                       \* loop index
   seen : SwarmStates,               \* the state wait_all_quads has read for "at"
   timer : BOOLEAN,                  \* more than 2 s since last_time
   dir : DIRECTIONS \cup {"none"},
   cached : [Quads -> SwarmStates],  \* Swarm::state
   heard : [Quads -> BOOLEAN],       \* Swarm::timestamp > 0
   fresh : [Quads -> BOOLEAN],       \* last_timestamp < timestamp
   located : BOOLEAN,                \* Swarm::pos of the leader was reported
   referenced : BOOLEAN,             \* ref was computed from a reported position
   target : [Quads -> Targets]]      \* Ground_Station::target

(* The program has just started; timestamp[] is not initialised.           *)
GcsStarts ==
  [job : {"none"}, pc : {"idle"}, wait : {NONE}, goal : {NONE}, at : {1},
   seen : {SWARM_KILLED}, timer : {FALSE}, dir : {"none"},
   cached : {[q \in Quads |-> SWARM_KILLED]}, heard : [Quads -> BOOLEAN],
   fresh : {[q \in Quads |-> FALSE]}, located : {FALSE}, referenced : {FALSE},
   target : {[q \in Quads |-> NoTarget]}]

-----------------------------------------------------------------------------
(* pthread_mutex_unlock(&GCS_busy); the locals of the thread go with it.   *)
Done(g) ==
  [g EXCEPT !.job = "none", !.pc = "idle", !.wait = NONE, !.goal = NONE, !.at = 1,
            !.seen = SWARM_KILLED, !.timer = FALSE, !.dir = "none",
            !.fresh = [q \in Quads |-> FALSE]]

(* all_in_state(s) from the first quad on *)
Scan(g, s) == [g EXCEPT !.pc = "scan", !.goal = s, !.at = 1]

(* wait_all_quads(s) is called *)
WaitAll(g, s) ==
  Scan([g EXCEPT !.wait = s, !.fresh = g.heard, !.timer = FALSE], s)

(* The body of the loop of wait_all_quads, from quad q on: its first read  *)
(* of the quad's state.  While waiting for SWARM_INIT the counter is read  *)
(* before it, and a quad with no news is skipped like one in NEGOTIATE_REF. *)
SendFrom(g, q) ==
  [g EXCEPT !.pc = "send", !.at = q,
            !.seen = IF g.wait = SWARM_INIT /\ ~g.fresh[q] THEN SWARM_NEGOTIATE_REF
                     ELSE g.cached[q]]

-----------------------------------------------------------------------------
(* The buttons.  The go and execute threads test the states they believe   *)
(* the quads to be in; the others wait for a state at once.                *)

WaitOfJob == [end_negotiate |-> SWARM_WAIT_CMD,
              init          |-> SWARM_INIT,
              start_engine  |-> SWARM_WAIT_CMD_START_ENGINE,
              takeoff       |-> SWARM_WAIT_CMD_TAKEOFF,
              land_here     |-> SWARM_LANDED]

(* A slip: "land here" is sent once, and not waited for.                   *)
PressWaitNotLand(j) ==
  /\ gcs.job = "none" /\ j \in BUTTONS \cap DOMAIN WaitOfJob
  /\ IF j = "land_here"
     THEN /\ down' = [q \in Quads |-> Sent(down[q], Block(BLOCK_ID_LAND_HERE))]
          /\ gcs' = gcs
     ELSE /\ gcs' = WaitAll([gcs EXCEPT !.job = j], WaitOfJob[j])
          /\ down' = down
  /\ UNCHANGED up

(* A slip: the reference is not taken.                                     *)
PressWaitNoReference(j) ==
  /\ gcs.job = "none" /\ j \in BUTTONS \cap DOMAIN WaitOfJob
  /\ gcs' = WaitAll([gcs EXCEPT !.job = j], WaitOfJob[j])
  /\ UNCHANGED <<up, down>>

PressWait(j) ==
  /\ gcs.job = "none" /\ j \in BUTTONS \cap DOMAIN WaitOfJob
  /\ gcs' = WaitAll([gcs EXCEPT !.job = j,
                                !.referenced = IF j = "end_negotiate" THEN gcs.located ELSE @],
                    WaitOfJob[j])
  /\ UNCHANGED <<up, down>>

PressGo(dir) ==
  /\ gcs.job = "none" /\ "go" \in BUTTONS
  /\ gcs' = Scan([gcs EXCEPT !.job = "go", !.dir = dir], SWARM_WAIT_CMD_TAKEOFF)
  /\ UNCHANGED <<up, down>>

(* A slip: the state of the swarm is not tested.                           *)
PressExecuteUnchecked ==
  /\ gcs.job = "none" /\ "execute" \in BUTTONS
  /\ gcs' = WaitAll([gcs EXCEPT !.job = "execute"], SWARM_EXEC_CMD)
  /\ UNCHANGED <<up, down>>

PressExecute ==
  /\ gcs.job = "none" /\ "execute" \in BUTTONS
  /\ gcs' = Scan([gcs EXCEPT !.job = "execute"], SWARM_WAIT_EXEC_ACK)
  /\ UNCHANGED <<up, down>>

-----------------------------------------------------------------------------
(* all_in_state(goal) has returned ok: where the job goes from there.      *)

(* before wait_all_quads *)
AfterGuard(g, ok) ==
  CASE g.job = "go" /\ ok           -> [g EXCEPT !.pc = "targets", !.at = 1]
    [] g.job = "go" /\ ~ok /\ g.goal = SWARM_WAIT_CMD_TAKEOFF -> Scan(g, SWARM_REPORT_STATE)
    [] g.job = "execute" /\ ok      -> WaitAll(g, SWARM_EXEC_CMD)
    [] OTHER                        -> Done(g)

(* in the loop of wait_all_quads *)
AfterWait(g, ok) ==
  CASE ok /\ g.wait = SWARM_INIT      -> WaitAll(g, SWARM_NEGOTIATE_REF)
    [] ok /\ g.wait # SWARM_INIT      -> Done(g)
    [] ~ok /\ g.goal = SWARM_EXEC_CMD -> Scan(g, SWARM_REPORT_STATE)
    [] ~ok /\ g.wait = SWARM_NEGOTIATE_REF -> Scan(g, g.wait)
    [] OTHER                          -> SendFrom(g, 1)

AfterScan(g, ok) == IF g.wait = NONE THEN AfterGuard(g, ok) ELSE AfterWait(g, ok)

(* One turn of the loop of Swarm::all_in_state. *)
ScanQuad ==
  /\ gcs.pc = "scan"
  /\ LET in == gcs.cached[gcs.at] = gcs.goal
     IN  gcs' = IF in /\ gcs.at < QUAD_NB THEN [gcs EXCEPT !.at = @ + 1]
                                          ELSE AfterScan(gcs, in)
  /\ UNCHANGED <<up, down>>

(* A slip: the loop runs one quad too far.                                 *)
GoTargetOffByOne ==
  /\ gcs.pc = "targets"
  /\ LET t == [owner |-> gcs.at, dir |-> gcs.dir, referenced |-> gcs.referenced]
         g == [gcs EXCEPT !.target[gcs.at] = t]
     IN  /\ gcs' = IF g.at <= QUAD_NB THEN [g EXCEPT !.at = @ + 1]
                                      ELSE WaitAll(g, SWARM_WAIT_EXEC_ACK)
         /\ down' = [down EXCEPT ![LEADER] = Sent(@, Target(t))]
  /\ UNCHANGED up

(* One turn of the go threads' loop: compute_go_direction for this quad,   *)
(* send_target to the leader.                                              *)
GoTarget ==
  /\ gcs.pc = "targets"
  /\ LET t == [owner |-> gcs.at, dir |-> gcs.dir, referenced |-> gcs.referenced]
         g == [gcs EXCEPT !.target[gcs.at] = t]
     IN  /\ gcs' = IF g.at < QUAD_NB THEN [g EXCEPT !.at = @ + 1]
                                     ELSE WaitAll(g, SWARM_WAIT_EXEC_ACK)
         /\ down' = [down EXCEPT ![LEADER] = Sent(@, Target(t))]
  /\ UNCHANGED up

-----------------------------------------------------------------------------
(* Whether wait_all_quads now sends to quad gcs.at.  The counter is read   *)
(* after the state, so a report may fall between; while waiting for        *)
(* SWARM_INIT it is the state that is read again.                          *)
Due ==
  LET q == gcs.at
  IN  CASE gcs.wait = SWARM_EXEC_CMD -> gcs.timer
        [] gcs.wait = SWARM_INIT     ->
             gcs.seen # SWARM_NEGOTIATE_REF /\ gcs.cached[q] # SWARM_INIT
        [] gcs.wait = SWARM_LANDED   -> gcs.fresh[q] /\ gcs.seen # SWARM_LANDHERE
        [] OTHER                     -> gcs.fresh[q] /\ gcs.seen # gcs.wait

(* A slip: every quad is sent the first quad's target.                     *)
MessageLeaderTarget(q) ==
  CASE gcs.wait = SWARM_INIT                  -> Ack(ACK_NAV)
    [] gcs.wait = SWARM_WAIT_CMD              -> Ack(ACK_REF)
    [] gcs.wait = SWARM_WAIT_CMD_START_ENGINE -> Block(BLOCK_ID_START_ENGINE)
    [] gcs.wait = SWARM_WAIT_CMD_TAKEOFF      -> Block(BLOCK_ID_TAKE_OFF)
    [] gcs.wait = SWARM_WAIT_EXEC_ACK         -> Target(gcs.target[LEADER])
    [] gcs.wait = SWARM_EXEC_CMD              -> Ack(ACK_EXEC)
    [] OTHER                                  -> Block(BLOCK_ID_LAND_HERE)

(* What it sends. *)
Message(q) ==
  CASE gcs.wait = SWARM_INIT                  -> Ack(ACK_NAV)
    [] gcs.wait = SWARM_WAIT_CMD              -> Ack(ACK_REF)
    [] gcs.wait = SWARM_WAIT_CMD_START_ENGINE -> Block(BLOCK_ID_START_ENGINE)
    [] gcs.wait = SWARM_WAIT_CMD_TAKEOFF      -> Block(BLOCK_ID_TAKE_OFF)
    [] gcs.wait = SWARM_WAIT_EXEC_ACK         -> Target(gcs.target[q])
    [] gcs.wait = SWARM_EXEC_CMD              -> Ack(ACK_EXEC)
    [] OTHER                                  -> Block(BLOCK_ID_LAND_HERE)

(* One turn of the loop over the quads in wait_all_quads.                  *)
SendQuad ==
  /\ gcs.pc = "send"
  /\ LET q == gcs.at
         g == IF ~Due THEN gcs
              ELSE IF gcs.wait = SWARM_EXEC_CMD THEN [gcs EXCEPT !.timer = FALSE]
              ELSE [gcs EXCEPT !.fresh[q] = FALSE]
     IN  /\ gcs' = IF q < QUAD_NB THEN SendFrom(g, q + 1)
                                  ELSE Scan([g EXCEPT !.seen = SWARM_KILLED], g.wait)
         /\ down' = IF Due THEN [down EXCEPT ![q] = Sent(@, Message(q))] ELSE down
  /\ UNCHANGED up

(* The clock of wait_all_quads(SWARM_EXEC_CMD); external. *)
TwoSeconds ==
  /\ gcs.wait = SWARM_EXEC_CMD /\ ~gcs.timer
  /\ gcs' = [gcs EXCEPT !.timer = TRUE]
  /\ UNCHANGED <<up, down>>

(* A slip: the report is not counted.                                      *)
HandleReportNotCounted(q) ==
  /\ up[q] # <<>>
  /\ gcs' = [gcs EXCEPT !.cached[q] = Head(up[q]), !.located = @ \/ q = LEADER]
  /\ up' = [up EXCEPT ![q] = Tail(@)]
  /\ UNCHANGED down

(* periodic_data_handle: one quad_swarm_report *)
HandleReport(q) ==
  /\ up[q] # <<>>
  /\ gcs' = [gcs EXCEPT !.cached[q] = Head(up[q]),
                        !.heard[q] = TRUE,
                        !.fresh[q] = (gcs.wait # NONE),
                        !.located = @ \/ q = LEADER]
  /\ up' = [up EXCEPT ![q] = Tail(@)]
  /\ UNCHANGED down

(* The program is stopped, or dies, and is started again.                  *)
GcsRestart ==
  /\ RESTARTS
  /\ gcs' \in GcsStarts
  /\ UNCHANGED <<up, down>>
=============================================================================
