----------------------------- MODULE SwarmLink -----------------------------
(***************************************************************************)
(* What the ground station (GCS/) and the quadcopters' swarm module        *)
(* (sw/airborne/modules/quad_swarm/) share: the swarm states, numbered the *)
(* same in GCS/Swarm.h and quad_swarm.h, and the XBee radio link.          *)
(*                                                                         *)
(* The link is unicast, first in first out in each direction for each      *)
(* quadcopter, and loses messages: nothing in the code acknowledges one at *)
(* its level, and all its retries are for lost ones.  A message is what    *)
(* the handlers tell apart; its bytes are not modelled.                    *)
(***************************************************************************)
EXTENDS Naturals, Sequences

CONSTANTS
  QUAD_NB,     \* number of quadcopters (3 in GCS/Makefile)
  LEADER,      \* Ground_Station::leader_id (1)
  DOWN_CAP,    \* bound: messages under way to one quad
  UP_CAP,      \* bound: reports under way from one quad
  DIRECTIONS,  \* the directions of the go buttons
  LOSSY        \* whether the link loses messages

ASSUME SwarmLinkAssumption ==
  /\ QUAD_NB \in Nat \ {0}
  /\ LEADER \in 1..QUAD_NB
  /\ {DOWN_CAP, UP_CAP} \subseteq Nat \ {0}
  /\ LOSSY \in BOOLEAN

Quads == 1..QUAD_NB

SWARM_INIT                  == 0
SWARM_NEGOTIATE_REF         == 1
SWARM_WAIT_CMD              == 2
SWARM_WAIT_CMD_START_ENGINE == 3
SWARM_WAIT_CMD_TAKEOFF      == 4
SWARM_WAIT_EXEC_ACK         == 5
SWARM_EXEC_CMD              == 6
SWARM_REPORT_STATE          == 7
SWARM_LANDHERE              == 8
SWARM_LANDED                == 9
SWARM_KILLED                == 10
SwarmStates == 0..10

(* The blocks of conf/flight_plans/rotorcraft_basic.xml that the swarm's   *)
(* flight goes through; BLOCK_ID_ of GCS/pprz_msg.h names three of them.   *)
BLOCK_ID_HOLDING_POINT == 2
BLOCK_ID_START_ENGINE  == 3
BLOCK_ID_TAKE_OFF      == 4
BLOCK_ID_LAND_HERE     == 11
Blocks == {0, 1, BLOCK_ID_HOLDING_POINT, BLOCK_ID_START_ENGINE, BLOCK_ID_TAKE_OFF,
           5, BLOCK_ID_LAND_HERE, 12, 13}

(* The acknowledgements of quad_swarm_ack_forwarded.                       *)
ACK_NAV  == 254   \* 0xfe
ACK_EXEC == 253   \* 0xfd
ACK_KILL == 255   \* 0xff
ACK_REF  == 2

(* A target position: whose it is, which way from where that quad was, and *)
(* whether the ground station had taken the leader's position as the       *)
(* reference of its local plane when it computed it.                       *)
NoTarget == [owner |-> 0, dir |-> "none", referenced |-> FALSE]
Targets  == {NoTarget} \cup
            [owner : Quads, dir : DIRECTIONS, referenced : BOOLEAN]

Ack(a)    == [type |-> "quad_swarm_ack_forwarded", ack |-> a]
Block(b)  == [type |-> "block", block |-> b]
Target(t) == [type |-> "quad_swarm_msg", target |-> t]

VARIABLES
  down,   \* down[q]: messages on their way to quad q
  up      \* up[q]: quad_swarm_report messages (the states) on their way from q

LinkInit == down = [q \in Quads |-> <<>>] /\ up = [q \in Quads |-> <<>>]

(* A channel after a message is sent on it; a full one drops the message.  *)
Put(c, m, cap)  == IF Len(c) < cap THEN Append(c, m) ELSE c
Sent(c, m)      == Put(c, m, DOWN_CAP)
Reported(c, s)  == Put(c, s, UP_CAP)

LoseDown(q) == /\ LOSSY /\ down[q] # <<>>
               /\ down' = [down EXCEPT ![q] = Tail(@)]
               /\ UNCHANGED up

LoseUp(q) == /\ LOSSY /\ up[q] # <<>>
             /\ up' = [up EXCEPT ![q] = Tail(@)]
             /\ UNCHANGED down
=============================================================================
