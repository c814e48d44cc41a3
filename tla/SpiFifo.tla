------------------------------ MODULE SpiFifo ------------------------------
(***************************************************************************)
(* What the SPI interface promises its users (mcu_periph/spi.h):           *)
(* transactions are exchanged one at a time in the order in which they     *)
(* were accepted, each ends once, and a locked fifo stops after the        *)
(* current transaction until the slave that locked it resumes it.          *)
(***************************************************************************)
EXTENDS Sequences

CONSTANTS
  Transactions,
  Slaves,
  NoSlave        \* the owner of a fifo that is not locked: no slave

VARIABLES
  queue,    \* the transactions accepted and not ended, oldest first
  active,   \* the oldest is being exchanged
  owner     \* the slave that has locked the fifo

vars == <<queue, active, owner>>

Init == queue = <<>> /\ active = FALSE /\ owner = NoSlave

Accept(t) ==
  /\ \A i \in DOMAIN queue : queue[i] # t
  /\ queue' = Append(queue, t)
  /\ active' = (active \/ owner = NoSlave)
  /\ owner' = owner

(* The callback at the end of a transaction may lock the fifo.             *)
End ==
  /\ active
  /\ queue' = Tail(queue)
  /\ owner' = owner \/ (owner = NoSlave /\ owner' \in Slaves)
  /\ active' = (owner' = NoSlave /\ queue' # <<>>)

Resume ==
  /\ owner # NoSlave
  /\ owner' = NoSlave
  /\ active' = (active \/ queue # <<>>)
  /\ queue' = queue

Next == (\E t \in Transactions : Accept(t)) \/ End \/ Resume

Spec == Init /\ [][Next]_vars
=============================================================================
