----------------------------- MODULE SwarmRound -----------------------------
(***************************************************************************)
(* What a round of the swarm promises: the quads take targets one by one;  *)
(* none moves before every one holds its target; all move before the next  *)
(* round begins; a quad may leave to land between rounds, for good, and no *)
(* round takes place without it.  Module SwarmSystem implements it with    *)
(* messages that get lost and repeated, and with a ground station that     *)
(* knows only reports.                                                     *)
(***************************************************************************)
CONSTANT Quads

VARIABLES phase, st

vars == <<phase, st>>

Init == phase = "collect" /\ st = [q \in Quads |-> "free"]

Take(q) ==
  /\ phase = "collect" /\ st[q] = "free"
  /\ st' = [st EXCEPT ![q] = "holding"]
  /\ UNCHANGED phase

Move(q) ==
  /\ st[q] = "holding"
  /\ phase = "execute" \/ \A r \in Quads : st[r] = "holding"
  /\ phase' = "execute"
  /\ st' = [st EXCEPT ![q] = "moved"]

Leave(q) ==
  /\ phase = "collect"
  /\ st' = [st EXCEPT ![q] = "gone"]
  /\ UNCHANGED phase

EndRound ==
  /\ phase = "execute" /\ \A q \in Quads : st[q] = "moved"
  /\ phase' = "collect"
  /\ st' = [q \in Quads |-> "free"]

Next == EndRound \/ \E q \in Quads : Take(q) \/ Move(q) \/ Leave(q)

Spec == Init /\ [][Next]_vars
=============================================================================
