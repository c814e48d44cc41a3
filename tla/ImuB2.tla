------------------------------- MODULE ImuB2 -------------------------------
(***************************************************************************)
(* The drivers of the Booz2 IMU on one SPI bus (imu_b2, max1168, ms2100):  *)
(* the ADC of gyros and accelerometers, which keeps its slave selected and *)
(* the fifo locked while it converts, and the magnetometer, read axis by   *)
(* axis, beside another driver that exchanges words with a slave of its    *)
(* own, as mpu60x0_spi does.                                               *)
(*                                                                         *)
(* The main loop runs imu_periodic when its timer is due, then the events  *)
(* of the drivers.  Interrupts come between any two accesses to what they  *)
(* share with it; "at" is where the main loop is.                          *)
(***************************************************************************)
EXTENDS Spi, Sequences

CONSTANTS
  MAX1168_NB_CHAN,   \* words of a result of the ADC
  OTHER_LENGTHS      \* the pairs [out, in] that the other driver exchanges

VARIABLES
  at,           \* the statement of the main loop that is next
  max1168,      \* max1168_status
  ms2100,       \* ms2100.status
  cur_axe,      \* the axis the magnetometer is at
  converting    \* the requests that a device is at work on (external)

vars == <<spi, trans, irq, at, max1168, ms2100, cur_axe, converting>>

DriverStates == {"IDLE", "SENDING_REQ", "GOT_EOC", "READING_RES", "DATA_AVAILABLE"}
Requests == {"max1168_req", "ms2100_req"}

Statements ==
  {"periodic", "max1168_read", "max1168_sent", "ms2100_periodic", "ms2100_sent", "other",
   "max1168_event", "max1168_result", "max1168_eoc", "max1168_reading", "max1168_data",
   "ms2100_event", "ms2100_reading", "ms2100_result"}

(* A statement of the main loop, what it does to the peripheral, and the   *)
(* statement after it.                                                     *)
Step(from, to, p) ==
  /\ at = from /\ at' = to
  /\ spi' = p.spi /\ trans' = p.trans
  /\ UNCHANGED <<irq, converting>>

Mark(t, s) == [Now EXCEPT !.trans[t].status = s]

Lengths(t) ==
  CASE t \in Requests       -> [out |-> 1, in |-> 0]
    [] t = "max1168_read" -> [out |-> 0, in |-> MAX1168_NB_CHAN]
    [] t = "ms2100_read"  -> [out |-> 0, in |-> 2]
    [] OTHER                -> [out |-> 0, in |-> 0]

Init ==
  /\ spi = [ring |-> [i \in Slots |-> NoTransaction],
            insert |-> 0, extract |-> 0, running |-> FALSE, suspend |-> NoSlave, select |-> {},
            tx |-> 0, rx |-> 0, txExtra |-> FALSE, rxExtra |-> FALSE,
            wire |-> 0, sent |-> 0, got |-> 0]
  /\ trans = [t \in Transactions |->
                [status |-> "Done", out |-> Lengths(t).out, in |-> Lengths(t).in]]
  /\ irq = {} /\ converting = {}
  /\ at = "periodic"
  /\ max1168 = "IDLE" /\ ms2100 = "IDLE" /\ cur_axe = 0

-----------------------------------------------------------------------------
(* A slip: a conversion is requested whatever the ADC is at.               *)
ImuPeriodicAlways == Step("periodic", "max1168_read", Submit("max1168_req", Now))

(* imu_periodic, when the timer of the main loop is due: Max1168Periodic,  *)
(* which submits the request and the reading of its result and only then   *)
(* sets its status, then ms2100_periodic.                                  *)
ImuPeriodic ==
  IF max1168 = "IDLE"
    THEN Step("periodic", "max1168_read", Submit("max1168_req", Now))
    ELSE Step("periodic", "ms2100_periodic", Now)

Max1168Read == Step("max1168_read", "max1168_sent", Submit("max1168_read", Now))

Max1168Sent == Step("max1168_sent", "ms2100_periodic", Now) /\ max1168' = "SENDING_REQ"

Ms2100Periodic ==
  IF ms2100 = "IDLE"
    THEN Step("ms2100_periodic", "ms2100_sent", Submit("ms2100_req", Now))
    ELSE Step("ms2100_periodic", "other", Now)

Ms2100Sent == Step("ms2100_sent", "other", Now) /\ ms2100' = "SENDING_REQ"

(* The other driver: it takes the result of its transaction, and when that *)
(* is done it may begin another.                                           *)
Other ==
  \/ Step("other", "max1168_event",
          IF trans["other"].status \in {"Success", "Failed"} THEN Mark("other", "Done") ELSE Now)
  \/ /\ trans["other"].status = "Done"
     /\ \E l \in OTHER_LENGTHS :
          Step("other", "max1168_event",
               Submit("other", [Now EXCEPT !.trans["other"].out = l.out,
                                           !.trans["other"].in = l.in]))

-----------------------------------------------------------------------------
(* max1168_event: the request, the result, then the end of conversion,     *)
(* which resumes the fifo before it sets the status.                       *)
Max1168Event ==
  CASE trans["max1168_req"].status = "Success" ->
         Step("max1168_event", "max1168_result", Mark("max1168_req", "Done")) /\ max1168' = max1168
    [] trans["max1168_req"].status = "Failed" ->
         /\ LET p == Mark("max1168_req", "Done") IN
            Step("max1168_event", "max1168_result",
                 Resume(SlaveOf["max1168_req"],
                        [p EXCEPT !.spi = Unselect(SlaveOf["max1168_req"], p.spi)]))
         /\ max1168' = "IDLE"
    [] OTHER -> Step("max1168_event", "max1168_result", Now) /\ max1168' = max1168

Max1168Result ==
  CASE trans["max1168_read"].status = "Success" /\ max1168 = "READING_RES" ->
         Step("max1168_result", "max1168_eoc", Mark("max1168_read", "Done"))
         /\ max1168' = "DATA_AVAILABLE"
    [] trans["max1168_read"].status = "Failed" ->
         /\ LET p == Mark("max1168_read", "Done") IN
            Step("max1168_result", "max1168_eoc",
                 [p EXCEPT !.spi = Unselect(SlaveOf["max1168_read"], p.spi)])
         /\ max1168' = "IDLE"
    [] OTHER -> Step("max1168_result", "max1168_eoc", Now) /\ max1168' = max1168

(* A slip: the fifo is not resumed.                                        *)
Max1168EocNoResume ==
  IF max1168 = "GOT_EOC"
    THEN Step("max1168_eoc", "max1168_reading", Now)
    ELSE Step("max1168_eoc", "max1168_data", Now)

Max1168Eoc ==
  IF max1168 = "GOT_EOC"
    THEN Step("max1168_eoc", "max1168_reading", Resume(SlaveOf["max1168_req"], Now))
    ELSE Step("max1168_eoc", "max1168_data", Now)

Max1168Reading == Step("max1168_reading", "max1168_data", Now) /\ max1168' = "READING_RES"

(* ImuEvent takes the values.                                              *)
Max1168Data ==
  /\ Step("max1168_data", "ms2100_event", Now)
  /\ max1168' = IF max1168 = "DATA_AVAILABLE" THEN "IDLE" ELSE max1168

-----------------------------------------------------------------------------
(* ms2100_event: the end of conversion is looked at only when the request  *)
(* is done, and the result of an axis before the values are taken.         *)
Ms2100Event ==
  CASE trans["ms2100_req"].status = "Done" /\ ms2100 = "GOT_EOC" ->
         Step("ms2100_event", "ms2100_reading", Submit("ms2100_read", Now))
         /\ UNCHANGED <<ms2100, cur_axe>>
    [] trans["ms2100_req"].status = "Success" ->
         Step("ms2100_event", "ms2100_result", Mark("ms2100_req", "Done"))
         /\ UNCHANGED <<ms2100, cur_axe>>
    [] trans["ms2100_req"].status = "Failed" ->
         Step("ms2100_event", "ms2100_result", Mark("ms2100_req", "Done"))
         /\ ms2100' = "IDLE" /\ cur_axe' = 0
    [] OTHER ->
         Step("ms2100_event", "ms2100_result", Now) /\ UNCHANGED <<ms2100, cur_axe>>

Ms2100Reading ==
  Step("ms2100_reading", "ms2100_result", Now) /\ ms2100' = "READING_RES" /\ cur_axe' = cur_axe

Ms2100Result ==
  CASE trans["ms2100_read"].status = "Success" /\ ms2100 = "READING_RES" ->
         Step("ms2100_result", "periodic", Mark("ms2100_read", "Done"))
         /\ cur_axe' = (cur_axe + 1) % 3
         /\ ms2100' = "IDLE"   \* DATA_AVAILABLE after the last axis: ImuMagEvent takes it
    [] trans["ms2100_read"].status = "Failed" ->
         Step("ms2100_result", "periodic", Mark("ms2100_read", "Done"))
         /\ ms2100' = "IDLE" /\ cur_axe' = 0
    [] OTHER ->
         Step("ms2100_result", "periodic", Now) /\ UNCHANGED <<ms2100, cur_axe>>

(* The timer is not due.                                                   *)
NotDue == Step("periodic", "other", Now)

-----------------------------------------------------------------------------
Max1168Loop ==
  /\ \/ (ImuPeriodic \/ NotDue \/ Max1168Read \/ Max1168Eoc) /\ max1168' = max1168
     \/ Max1168Sent \/ Max1168Event \/ Max1168Result \/ Max1168Reading \/ Max1168Data
  /\ UNCHANGED <<ms2100, cur_axe>>

Ms2100Loop ==
  /\ \/ Ms2100Periodic /\ UNCHANGED <<ms2100, cur_axe>>
     \/ Ms2100Sent /\ cur_axe' = cur_axe
     \/ Ms2100Event \/ Ms2100Reading \/ Ms2100Result
  /\ max1168' = max1168

OtherLoop == Other /\ UNCHANGED <<max1168, ms2100, cur_axe>>

MainLoop == Max1168Loop \/ Ms2100Loop \/ OtherLoop

(* A device starts on a request when it has received it.                   *)
DmaInterrupt ==
  /\ Interrupt
  /\ converting' = converting \cup
       {t \in Requests : trans[t].status = "Running" /\ trans'[t].status = "Success"}
  /\ UNCHANGED <<at, max1168, ms2100, cur_axe>>

DmaWord == (TxWord \/ RxWord) /\ UNCHANGED <<at, max1168, ms2100, cur_axe, converting>>

(* The interrupts of the end of conversion.  A conversion takes longer     *)
(* than the main loop from its request to the status it sets.              *)
Max1168EndOfConversion ==
  /\ "max1168_req" \in converting /\ at \notin {"max1168_read", "max1168_sent"}
  /\ max1168' = "GOT_EOC"
  /\ converting' = converting \ {"max1168_req"}
  /\ UNCHANGED <<spi, trans, irq, at, ms2100, cur_axe>>

Ms2100EndOfConversion ==
  /\ "ms2100_req" \in converting /\ at # "ms2100_sent"
  /\ ms2100' = "GOT_EOC"
  /\ converting' = converting \ {"ms2100_req"}
  /\ UNCHANGED <<spi, trans, irq, at, max1168, cur_axe>>

Next ==
  MainLoop \/ DmaInterrupt \/ DmaWord \/ Max1168EndOfConversion \/ Ms2100EndOfConversion

Spec == Init /\ [][Next]_vars

(* The timer is due again and again, the main loop and the interrupts run, *)
(* words take a bounded time, and a conversion ends.                       *)
Fairness ==
  /\ WF_vars(MainLoop) /\ SF_vars(ImuPeriodic /\ Max1168Loop)
  /\ WF_vars(DmaInterrupt) /\ WF_vars(DmaWord)
  /\ SF_vars(Max1168EndOfConversion) /\ SF_vars(Ms2100EndOfConversion)

FairSpec == Spec /\ Fairness
-----------------------------------------------------------------------------
(* The transactions from the oldest that has not ended to the youngest.    *)
Waiting == (spi.insert + SPI_TRANSACTION_QUEUE_LEN - spi.extract) % SPI_TRANSACTION_QUEUE_LEN
Queue == [i \in 1 .. Waiting |-> spi.ring[(spi.extract + i - 1) % SPI_TRANSACTION_QUEUE_LEN]]
Queued == {Queue[i] : i \in 1 .. Waiting}

(* The peripheral, the transactions and the drivers keep their types.      *)
TypeOK ==
  /\ spi \in SpiType
  /\ trans \in [Transactions -> TransType]
  /\ irq \subseteq {"rx", "tx"}
  /\ at \in Statements
  /\ max1168 \in DriverStates /\ ms2100 \in DriverStates \ {"DATA_AVAILABLE"}
  /\ cur_axe \in 0 .. 2
  /\ converting \subseteq Requests

(* At most one slave is selected, the one whose transaction is exchanged;  *)
(* between transactions only the slave that has locked the fifo may stay   *)
(* selected: two slaves never drive the bus (spi_arch.c, SpiSlaveSelect).  *)
BusExclusive ==
  IF spi.running
    THEN spi.select = {SlaveOf[Current(spi)]}
    ELSE spi.select \subseteq {spi.suspend}

(* "To receive data, the clock must run" (spi_start_dma_transaction): a    *)
(* transaction that is exchanged has words under way, or to send, or an    *)
(* interrupt that goes on with it.                                         *)
ClockRuns ==
  spi.running => irq # {} \/ (spi.rx > 0 /\ (spi.wire > 0 \/ spi.tx > 0))

(* A driver that is at rest, or that holds values the event has yet to     *)
(* take, has no transaction under way: no buffer changes under its reader. *)
OwnBuffers ==
  /\ max1168 \in {"IDLE", "DATA_AVAILABLE"} /\ at \notin {"max1168_read", "max1168_sent"} =>
       {"max1168_req", "max1168_read"} \cap Queued = {}
  /\ ms2100 = "IDLE" /\ at # "ms2100_sent" => {"ms2100_req", "ms2100_read"} \cap Queued = {}

(* A transaction succeeds only when all the words of both its buffers have *)
(* been exchanged: "the rx DMA transfer completed interrupt marks the end  *)
(* of a complete transaction" (spi_arch.c).                                *)
Complete ==
  [][\A t \in Transactions :
       trans[t].status = "Running" /\ trans'[t].status = "Success" =>
         /\ t = Current(spi)
         /\ spi.sent = trans[t].out /\ spi.got = trans[t].in]_vars

(* The driver implements the fifo that its users are promised.             *)
Fifo == INSTANCE SpiFifo WITH queue <- Queue, active <- spi.running, owner <- spi.suspend
ImplementsFifo == Fifo!Spec

(* The ADC delivers again and again, and the magnetometer axis after axis, *)
(* with the lock, the ring and the other driver between them.              *)
SensorsDeliver ==
  []<>(max1168 = "DATA_AVAILABLE") /\ []<>(cur_axe = 0) /\ []<>(cur_axe = 2)
=============================================================================
