-------------------------------- MODULE Spi --------------------------------
(***************************************************************************)
(* The SPI driver of the STM32 boards (mcu_periph/spi and                  *)
(* arch/stm32/mcu_periph/spi_arch.c): a ring of transactions that the main *)
(* loop fills and the receive interrupt empties, the DMA that exchanges    *)
(* the words of one transaction, and the interrupts that end it.           *)
(*                                                                         *)
(* A word is a count: what matters is how many are still to be moved, and  *)
(* whether to or from the transaction's buffer or the dummy.  The clock    *)
(* configuration that a transaction asks for is left out.                  *)
(***************************************************************************)
EXTENDS Naturals, FiniteSets

CONSTANTS
  Transactions,
  SlaveOf,                     \* the slave of each transaction
  Select,                      \* its enum SPISlaveSelect
  LockAfter,                   \* those whose after_cb locks the fifo
  NoSlave,                     \* suspend = 0
  NoTransaction,               \* what a slot holds before it is written
  SPI_TRANSACTION_QUEUE_LEN,
  LATE                         \* interrupts may wait for longer than a word takes

Slaves == {SlaveOf[t] : t \in Transactions}
Slots == 0 .. SPI_TRANSACTION_QUEUE_LEN - 1

ASSUME SpiAssumption ==
  /\ SlaveOf \in [Transactions -> Slaves]
  /\ Select \in [Transactions ->
                  {"SPISelectUnselect", "SPISelect", "SPIUnselect", "SPINoSelect"}]
  /\ LockAfter \subseteq Transactions
  /\ NoSlave \notin Slaves /\ NoTransaction \notin Transactions
  /\ SPI_TRANSACTION_QUEUE_LEN \in Nat \ {0, 1}
  /\ LATE \in BOOLEAN

VARIABLES
  spi,      \* struct spi_periph, its slave-select pins and what its DMA has to do
  trans,    \* struct spi_transaction: status, output_length, input_length
  irq       \* the DMA interrupts that wait to be served

spiVars == <<spi, trans, irq>>

SpiType ==
  [ring    : [Slots -> Transactions \cup {NoTransaction}],   \* spi_periph.trans
   insert  : Slots, extract : Slots,
   running : BOOLEAN,                    \* status SPIRunning
   suspend : Slaves \cup {NoSlave},
   select  : SUBSET Slaves,              \* the slaves whose pin is low
   tx : Nat, rx : Nat,                   \* words the enabled DMA has still to move
   txExtra : BOOLEAN, rxExtra : BOOLEAN, \* tx_ and rx_extra_dummy_dma
   wire : 0 .. 2,                        \* words in the data and shift registers
   sent : Nat, got : Nat]                \* words of its buffers exchanged (ghost)

Current(s) == s.ring[s.extract]
AfterUnwrapped(i) == i + 1   \* a slip: the index does not wrap
After(i) == (i + 1) % SPI_TRANSACTION_QUEUE_LEN
Empty(s) == s.extract = s.insert
TransType ==
  [status : {"Pending", "Running", "Success", "Failed", "Done"}, out : Nat, in : Nat]

Minus(n, m) == IF n > m THEN n - m ELSE 0

-----------------------------------------------------------------------------
(* Operations on a pair of the peripheral and the transactions.            *)

Now == [spi |-> spi, trans |-> trans]

(* A slip: the receive DMA counts the words that are sent.                 *)
StartCountsSent(p) ==
  LET t == Current(p.spi)
      out == p.trans[t].out
      in == p.trans[t].in IN
  [spi |-> [p.spi EXCEPT
     !.running = TRUE,
     !.select = IF Select[t] \in {"SPISelectUnselect", "SPISelect"}
                  THEN @ \cup {SlaveOf[t]} ELSE @,
     !.rx = IF out = 0 THEN in ELSE out,
     !.tx = IF out = 0 THEN in ELSE out,
     !.sent = 0, !.got = 0],
   trans |-> [p.trans EXCEPT ![t].status = "Running"]]

(* spi_start_dma_transaction: the DMA of a direction without a buffer uses *)
(* its dummy from the start.                                               *)
Start(p) ==
  LET t == Current(p.spi)
      out == p.trans[t].out
      in == p.trans[t].in IN
  [spi |-> [p.spi EXCEPT
     !.running = TRUE,
     !.select = IF Select[t] \in {"SPISelectUnselect", "SPISelect"}
                  THEN @ \cup {SlaveOf[t]} ELSE @,
     !.rx = IF in = 0 THEN out ELSE in,
     !.tx = IF out = 0 THEN in ELSE out,
     !.rxExtra = @ \/ (in > 0 /\ out > in),
     !.txExtra = @ \/ (out > 0 /\ in > out),
     !.sent = 0, !.got = 0],
   trans |-> [p.trans EXCEPT ![t].status = "Running"]]

StartIf(ready, p) == IF ready THEN Start(p) ELSE p

(* spi_submit: fails when the ring is full or there is nothing to exchange.*)
Submit(t, p) ==
  LET s == p.spi
      idx == After(s.insert) IN
  IF idx = s.extract \/ (p.trans[t].out = 0 /\ p.trans[t].in = 0)
    THEN [p EXCEPT !.trans[t].status = "Failed"]
    ELSE StartIf(~ s.running /\ s.suspend = NoSlave,
           [p EXCEPT !.trans[t].status = "Pending",
                     !.spi.ring[s.insert] = t, !.spi.insert = idx])

LockNever(slave, s) == s   \* a slip: the callback does not lock

Lock(slave, s) == IF s.suspend = NoSlave THEN [s EXCEPT !.suspend = slave] ELSE s

(* spi_resume: only for the slave that has locked the fifo.                *)
Resume(slave, p) ==
  IF p.spi.suspend = slave
    THEN StartIf(~ Empty(p.spi) /\ ~ p.spi.running, [p EXCEPT !.spi.suspend = NoSlave])
    ELSE p

Unselect(slave, s) == [s EXCEPT !.select = @ \ {slave}]

(* A slip: the lock is not looked at.                                      *)
NextTransactionUnlocked(p) ==
  LET q == [p EXCEPT !.spi.ring[p.spi.extract] = NoTransaction,
                     !.spi.extract = After(@), !.spi.running = FALSE] IN
  StartIf(~ Empty(q.spi), q)

(* spi_next_transaction.  The slot it leaves keeps its pointer in the      *)
(* code, where nothing reads it before it is written again.                *)
NextTransaction(p) ==
  LET q == [p EXCEPT !.spi.ring[p.spi.extract] = NoTransaction,
                     !.spi.extract = After(@), !.spi.running = FALSE] IN
  StartIf(~ Empty(q.spi) /\ q.spi.suspend = NoSlave, q)

-----------------------------------------------------------------------------
(* The transmit DMA fills the data register; its last word raises the      *)
(* interrupt.                                                              *)
TxWord ==
  /\ spi.tx > 0 /\ spi.wire < 2
  /\ LET real == trans[Current(spi)].out > spi.sent IN
     spi' = [spi EXCEPT !.tx = @ - 1, !.wire = @ + 1, !.sent = IF real THEN @ + 1 ELSE @]
  /\ irq' = IF spi.tx = 1 THEN irq \cup {"tx"} ELSE irq
  /\ trans' = trans

(* A word has gone over the wire and the receive DMA stores the one that   *)
(* came back.  Unless LATE, an interrupt that waits is served before.      *)
RxWord ==
  /\ spi.rx > 0 /\ spi.wire > 0
  /\ LATE \/ irq = {}
  /\ LET real == trans[Current(spi)].in > spi.got IN
     spi' = [spi EXCEPT !.rx = @ - 1, !.wire = @ - 1, !.got = IF real THEN @ + 1 ELSE @]
  /\ irq' = IF spi.rx = 1 THEN irq \cup {"rx"} ELSE irq
  /\ trans' = trans

(* process_rx_dma_interrupt, the end of the real words: a dummy receives   *)
(* the rest of what is sent.                                               *)
RxDummy ==
  /\ "rx" \in irq /\ spi.rxExtra
  /\ spi' = [spi EXCEPT !.rxExtra = FALSE,
                        !.rx = Minus(trans[Current(spi)].out, trans[Current(spi)].in)]
  /\ irq' = irq \ {"rx"}
  /\ trans' = trans

(* process_rx_dma_interrupt, the end of a transaction: success, the        *)
(* callback, then the slave, then the next transaction.                    *)
Finished(t, p) ==
  LET locked == IF t \in LockAfter THEN Lock(SlaveOf[t], p.spi) ELSE p.spi
      freed == IF Select[t] \in {"SPISelectUnselect", "SPIUnselect"}
                 THEN Unselect(SlaveOf[t], locked) ELSE locked IN
  NextTransaction([spi |-> freed, trans |-> [p.trans EXCEPT ![t].status = "Success"]])

RxEnd ==
  /\ "rx" \in irq /\ ~ spi.rxExtra
  /\ LET p == Finished(Current(spi), Now) IN spi' = p.spi /\ trans' = p.trans
  /\ irq' = irq \ {"rx"}

(* A slip: the transmit DMA is stopped without a dummy.                    *)
TxEndStops ==
  /\ "tx" \in irq /\ "rx" \notin irq
  /\ spi' = [spi EXCEPT !.txExtra = FALSE, !.tx = 0]
  /\ irq' = irq \ {"tx"}
  /\ trans' = trans

(* process_tx_dma_interrupt stops the transmit DMA, or has a dummy clock   *)
(* in the rest.  The receive interrupt has the lower number, so it is      *)
(* served first when both wait.                                            *)
TxEnd ==
  /\ "tx" \in irq /\ "rx" \notin irq
  /\ spi' = [spi EXCEPT
       !.txExtra = FALSE,
       !.tx = IF spi.txExtra THEN Minus(trans[Current(spi)].in, trans[Current(spi)].out) ELSE 0]
  /\ irq' = irq \ {"tx"}
  /\ trans' = trans

Interrupt == RxDummy \/ RxEnd \/ TxEnd
=============================================================================
