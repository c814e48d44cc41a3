---------------------------- MODULE ImuB2Proofs ----------------------------
(***************************************************************************)
(* Proofs about the SPI driver under the drivers of the IMU.  When the     *)
(* interrupts are served in time, the clock of a transaction never stops   *)
(* before its end and a success means that all its words were exchanged,   *)
(* for every length of the ring and of the transactions.  On the board as  *)
(* it is wired, the driver is the fifo that spi.h promises, no two slaves  *)
(* drive the bus, and a driver at rest has nothing under way.              *)
(***************************************************************************)
EXTENDS ImuB2, TLAPS, SequenceTheorems

(* The slots between the two indices of the ring.                          *)
InRing(s, i) ==
  IF s.extract <= s.insert THEN s.extract <= i /\ i < s.insert
                           ELSE s.extract <= i \/ i < s.insert

TypeOf(p) == p \in [spi : SpiType, trans : [Transactions -> TransType]]

(* What is in the ring has words to exchange; the other driver's           *)
(* transaction is there at most once, and then its status says so.         *)
RingOK(p) ==
  /\ p.spi.running => p.spi.insert # p.spi.extract
  /\ \A i \in Slots : InRing(p.spi, i) =>
       /\ p.spi.ring[i] \in Transactions
       /\ p.trans[p.spi.ring[i]].out + p.trans[p.spi.ring[i]].in > 0
       /\ p.spi.ring[i] = "other" =>
            /\ p.trans["other"].status \in {"Pending", "Running"}
            /\ \A j \in Slots : InRing(p.spi, j) /\ p.spi.ring[j] = "other" => j = i

Quiet(s, w) ==
  s.tx = 0 /\ s.rx = 0 /\ s.wire = 0 /\ ~ s.txExtra /\ ~ s.rxExtra /\ w = {}

(* The words that are still to go out and those that are still to come in  *)
(* are as many, counting those on the wire and those left to a dummy; a    *)
(* DMA that has come to its end has its interrupt waiting.                 *)
Words(s, out, in, w) ==
  /\ s.wire + s.tx + (IF s.txExtra THEN in - out ELSE 0)
       = s.rx + (IF s.rxExtra THEN out - in ELSE 0)
  /\ s.txExtra => 0 < out /\ out < in
  /\ s.rxExtra => 0 < in /\ in < out
  /\ "tx" \in w => s.tx = 0
  /\ "rx" \in w => s.rx = 0
  /\ s.txExtra /\ s.tx = 0 => "tx" \in w
  /\ s.rx = 0 => "rx" \in w
  /\ "rx" \in w /\ ~ s.rxExtra => "tx" \notin w
  /\ s.sent <= out /\ (s.sent < out => s.sent + s.tx = out)
  /\ s.got <= in /\ (s.got < in => s.got + s.rx = in)

WordsOK(p, w) ==
  IF p.spi.running
    THEN Words(p.spi, p.trans[Current(p.spi)].out, p.trans[Current(p.spi)].in, w)
    ELSE Quiet(p.spi, w)

PInv(p, w) == TypeOf(p) /\ RingOK(p) /\ WordsOK(p, w) /\ w \subseteq {"rx", "tx"}

Rest ==
  /\ at \in Statements
  /\ max1168 \in DriverStates /\ ms2100 \in DriverStates \ {"DATA_AVAILABLE"}
  /\ cur_axe \in 0 .. 2
  /\ converting \subseteq Requests

IInv == PInv(Now, irq) /\ Rest

(* The transactions of the drivers are among those of the bus, and nobody  *)
(* is late.                                                                *)
InTime ==
  /\ ~ LATE
  /\ {"max1168_req", "max1168_read", "ms2100_req", "ms2100_read", "other"} \subseteq Transactions
  /\ MAX1168_NB_CHAN \in Nat
  /\ OTHER_LENGTHS \subseteq [out : Nat, in : Nat]

(* The transactions of the drivers, and the slave that may lock the fifo.  *)
Drivers == {"max1168_req", "max1168_read", "ms2100_req", "ms2100_read", "other"}
ADC == SlaveOf["max1168_req"]
Busy == {"Pending", "Running"}

(* The board (max1168_init, ms2100_init, mpu60x0_spi_init, spi.h): the     *)
(* request leaves the ADC selected and the fifo locked, the reading        *)
(* unselects it, and the ring has room for all transactions at once.       *)
Wired ==
  /\ SlaveOf["max1168_read"] = ADC
  /\ Select["max1168_req"] = "SPISelect" /\ Select["max1168_read"] = "SPIUnselect"
  /\ \A t \in {"ms2100_req", "ms2100_read", "other"} : Select[t] = "SPISelectUnselect"
  /\ LockAfter = {"max1168_req"}
  /\ MAX1168_NB_CHAN > 0
  /\ SPI_TRANSACTION_QUEUE_LEN > 5

WaitingOf(s) == (s.insert + SPI_TRANSACTION_QUEUE_LEN - s.extract) % SPI_TRANSACTION_QUEUE_LEN
QueueOf(s) ==
  [i \in 1 .. WaitingOf(s) |-> s.ring[(s.extract + i - 1) % SPI_TRANSACTION_QUEUE_LEN]]

(* The pins and the lock, the statuses and the order in a fifo q.          *)
FifoOK(q, s) ==
  /\ s.running <=> q # <<>> /\ s.suspend = NoSlave
  /\ s.suspend \in {NoSlave, ADC}
  /\ s.select = IF s.running THEN {SlaveOf[q[1]]}
                ELSE IF s.suspend = ADC THEN {ADC} ELSE {}
  /\ s.suspend = ADC /\ q # <<>> => q[1] = "max1168_read"

OrderOK(q, open) ==
  /\ \A i \in 1 .. Len(q) : q[i] \in Drivers
  /\ \A i, j \in 1 .. Len(q) : q[i] = q[j] => i = j
  /\ \A i \in 1 .. Len(q) : q[i] = "max1168_read" /\ i > 1 => q[i - 1] = "max1168_req"
  /\ \A i \in 1 .. Len(q) : q[i] = "max1168_req" =>
       IF i = Len(q) THEN open ELSE q[i + 1] = "max1168_read"

StatusOK(q, run, tr) ==
  \A t \in Drivers :
    /\ tr[t].status \in Busy <=> \E i \in 1 .. Len(q) : q[i] = t
    /\ tr[t].status = "Running" <=> run /\ q[1] = t

BusOK(p, open) ==
  /\ FifoOK(QueueOf(p.spi), p.spi)
  /\ OrderOK(QueueOf(p.spi), open)
  /\ StatusOK(QueueOf(p.spi), p.spi.running, p.trans)

(* Where the ADC is: the reading is in the ring behind its request, which  *)
(* is over when the fifo is locked and the conversion runs or has ended;   *)
(* the main loop resumes the fifo only then, and for the reading.          *)
AdcPhase(here, status, req, read, conv, locked) ==
  /\ locked <=> req \notin Busy /\ (conv \/ (status = "GOT_EOC" /\ here # "max1168_reading"))
  /\ req # "Failed" /\ read # "Failed"
  /\ req \in Busy => ~ conv
  /\ here \in {"max1168_read", "max1168_sent"} =>
       /\ status = "IDLE"
       /\ req \in Busy \/ (req = "Success" /\ conv)
       /\ IF here = "max1168_read" THEN read = "Done" ELSE read \in Busy
  /\ here \notin {"max1168_read", "max1168_sent"} =>
       /\ status \in {"IDLE", "DATA_AVAILABLE"} => req = "Done" /\ read = "Done" /\ ~ conv
       /\ status = "SENDING_REQ" => (req \in Busy \/ conv) /\ read \in Busy
       /\ status \in {"GOT_EOC", "READING_RES"} => req \notin Busy /\ ~ conv
       /\ status = "GOT_EOC" /\ here # "max1168_reading" => read \in Busy
       /\ status = "GOT_EOC" /\ here = "max1168_reading" => read # "Done"
       /\ status = "READING_RES" => read # "Done"
  /\ here = "max1168_reading" => status = "GOT_EOC"
  /\ here = "max1168_result" /\ status = "READING_RES" => req = "Done"

(* Where the magnetometer is: a reading follows only a request whose end   *)
(* the main loop has seen.                                                 *)
MagPhase(here, status, req, read, conv) ==
  /\ req # "Failed" /\ read # "Failed"
  /\ req \in Busy => ~ conv
  /\ here = "ms2100_sent" =>
       status = "IDLE" /\ read = "Done" /\ (req \in Busy \/ (req = "Success" /\ conv))
  /\ here # "ms2100_sent" =>
       /\ status = "IDLE" => req = "Done" /\ read = "Done" /\ ~ conv
       /\ status = "SENDING_REQ" => (req \in Busy \/ conv) /\ read = "Done"
       /\ status = "GOT_EOC" /\ here # "ms2100_reading" =>
            req \notin Busy /\ ~ conv /\ read = "Done"
       /\ status = "GOT_EOC" /\ here = "ms2100_reading" => req = "Done" /\ ~ conv /\ read # "Done"
       /\ status = "READING_RES" => req = "Done" /\ ~ conv /\ read # "Done"
  /\ here = "ms2100_reading" => status = "GOT_EOC"

AdcOK ==
  AdcPhase(at, max1168, trans["max1168_req"].status, trans["max1168_read"].status,
           "max1168_req" \in converting, spi.suspend = ADC)

MagOK ==
  MagPhase(at, ms2100, trans["ms2100_req"].status, trans["ms2100_read"].status,
           "ms2100_req" \in converting)

LengthsOK(tr) ==
  \A t \in Drivers \ {"other"} : tr[t].out = Lengths(t).out /\ tr[t].in = Lengths(t).in

BInv == BusOK(Now, at = "max1168_read") /\ AdcOK /\ MagOK /\ LengthsOK(trans)

-----------------------------------------------------------------------------
LEMMA SlotsAre ==
  /\ 0 \in Slots
  /\ \A i \in Slots : i \in Nat /\ i < SPI_TRANSACTION_QUEUE_LEN
  /\ SPI_TRANSACTION_QUEUE_LEN \in Nat \ {0, 1}
  BY SpiAssumption DEF Slots

LEMMA AfterIs ==
  ASSUME NEW i \in Slots
  PROVE  /\ After(i) = IF i + 1 = SPI_TRANSACTION_QUEUE_LEN THEN 0 ELSE i + 1
         /\ After(i) \in Slots /\ After(i) # i
  BY SlotsAre DEF After, Slots

(* A ring that is not empty has its oldest in it.                          *)
LEMMA CurrentInRing ==
  ASSUME NEW s \in SpiType, s.insert # s.extract
  PROVE  InRing(s, s.extract)
  BY SlotsAre DEF InRing, SpiType

(* What a start writes to the peripheral.                                  *)
LEMMA StartType ==
  ASSUME NEW s \in SpiType, NEW sel \in SUBSET Slaves, NEW rx \in Nat, NEW tx \in Nat,
         NEW rxe \in BOOLEAN, NEW txe \in BOOLEAN
  PROVE  [s EXCEPT !.running = TRUE, !.select = sel, !.rx = rx, !.tx = tx,
                   !.rxExtra = rxe, !.txExtra = txe, !.sent = 0, !.got = 0] \in SpiType
  BY DEF SpiType

(* The words of a transaction as it starts.                                *)
LEMMA StartWords ==
  ASSUME NEW s \in SpiType, NEW out \in Nat, NEW in \in Nat, out + in > 0,
         s.wire = 0, s.sent = 0, s.got = 0,
         s.rx = IF in = 0 THEN out ELSE in, s.tx = IF out = 0 THEN in ELSE out,
         s.rxExtra <=> in > 0 /\ out > in, s.txExtra <=> out > 0 /\ in > out
  PROVE  Words(s, out, in, {})
<1>1. CASE in = 0
  BY <1>1 DEF Words
<1>2. CASE out = 0
  BY <1>2 DEF Words
<1>3. CASE in > 0 /\ out > 0
  <2>1. s.rx = in /\ s.tx = out
    BY <1>3
  <2>2. CASE out > in
    BY <1>3, <2>1, <2>2 DEF Words
  <2>3. CASE in > out
    BY <1>3, <2>1, <2>3 DEF Words
  <2>4. CASE in = out
    BY <1>3, <2>1, <2>4 DEF Words
  <2> QED
    BY <2>2, <2>3, <2>4
<1> QED
  BY <1>1, <1>2, <1>3

(* Starting the oldest transaction of a bus at rest.                       *)
LEMMA StartOK ==
  ASSUME NEW p, NEW w, TypeOf(p), RingOK(p), Quiet(p.spi, w), p.spi.insert # p.spi.extract
  PROVE  PInv(Start(p), w) /\ Start(p).spi.running
<1> DEFINE t == Current(p.spi)
           q == Start(p)
<1>1. /\ t \in Transactions
      /\ p.trans[t] \in TransType
      /\ p.trans[t].out + p.trans[t].in > 0
  BY CurrentInRing DEF TypeOf, RingOK, Current, SpiType
<1>2. /\ q.spi = [p.spi EXCEPT
           !.running = TRUE,
           !.select = IF Select[t] \in {"SPISelectUnselect", "SPISelect"}
                        THEN @ \cup {SlaveOf[t]} ELSE @,
           !.rx = IF p.trans[t].in = 0 THEN p.trans[t].out ELSE p.trans[t].in,
           !.tx = IF p.trans[t].out = 0 THEN p.trans[t].in ELSE p.trans[t].out,
           !.rxExtra = @ \/ (p.trans[t].in > 0 /\ p.trans[t].out > p.trans[t].in),
           !.txExtra = @ \/ (p.trans[t].out > 0 /\ p.trans[t].in > p.trans[t].out),
           !.sent = 0, !.got = 0]
      /\ q.trans = [p.trans EXCEPT ![t].status = "Running"]
      /\ q = [spi |-> q.spi, trans |-> q.trans]
  BY DEF Start
<1>3. SlaveOf[t] \in Slaves
  BY <1>1, SpiAssumption
<1>4. q.spi \in SpiType
  <2> DEFINE sel == IF Select[t] \in {"SPISelectUnselect", "SPISelect"}
                      THEN p.spi.select \cup {SlaveOf[t]} ELSE p.spi.select
             rx == IF p.trans[t].in = 0 THEN p.trans[t].out ELSE p.trans[t].in
             tx == IF p.trans[t].out = 0 THEN p.trans[t].in ELSE p.trans[t].out
             rxe == p.spi.rxExtra \/ (p.trans[t].in > 0 /\ p.trans[t].out > p.trans[t].in)
             txe == p.spi.txExtra \/ (p.trans[t].out > 0 /\ p.trans[t].in > p.trans[t].out)
  <2>1. p.spi \in SpiType
    BY DEF TypeOf
  <2>2. sel \in SUBSET Slaves
    BY <1>3, <2>1 DEF SpiType
  <2>3. rx \in Nat /\ tx \in Nat
    BY <1>1 DEF TransType
  <2>4. rxe \in BOOLEAN /\ txe \in BOOLEAN
    OBVIOUS
  <2>5. q.spi = [p.spi EXCEPT !.running = TRUE, !.select = sel, !.rx = rx, !.tx = tx,
                              !.rxExtra = rxe, !.txExtra = txe, !.sent = 0, !.got = 0]
    BY <1>2, <2>1 DEF SpiType
  <2> HIDE DEF sel, rx, tx, rxe, txe
  <2>6. [p.spi EXCEPT !.running = TRUE, !.select = sel, !.rx = rx, !.tx = tx,
                      !.rxExtra = rxe, !.txExtra = txe, !.sent = 0, !.got = 0] \in SpiType
    BY <2>1, <2>2, <2>3, <2>4, StartType, Zenon
  <2> QED
    BY <2>5, <2>6, Zenon
<1>5. q.trans \in [Transactions -> TransType]
  BY <1>1, <1>2 DEF TypeOf, TransType
<1>6. /\ q.spi.ring = p.spi.ring /\ q.spi.insert = p.spi.insert /\ q.spi.extract = p.spi.extract
      /\ q.spi.running
      /\ q.spi.wire = 0 /\ q.spi.sent = 0 /\ q.spi.got = 0
      /\ q.spi.rx = IF p.trans[t].in = 0 THEN p.trans[t].out ELSE p.trans[t].in
      /\ q.spi.tx = IF p.trans[t].out = 0 THEN p.trans[t].in ELSE p.trans[t].out
      /\ q.spi.rxExtra <=> (p.trans[t].in > 0 /\ p.trans[t].out > p.trans[t].in)
      /\ q.spi.txExtra <=> (p.trans[t].out > 0 /\ p.trans[t].in > p.trans[t].out)
  BY <1>2 DEF TypeOf, SpiType, Quiet
<1>7. \A u \in Transactions : /\ q.trans[u].out = p.trans[u].out
                              /\ q.trans[u].in = p.trans[u].in
                              /\ q.trans[u].status = IF u = t THEN "Running" ELSE p.trans[u].status
  BY <1>1, <1>2 DEF TypeOf, TransType
<1>8. RingOK(q)
  BY <1>6, <1>7 DEF RingOK, InRing
<1>9. WordsOK(q, w)
  <2>1. Current(q.spi) = t
    BY <1>6 DEF Current
  <2>2. q.trans[t].out = p.trans[t].out /\ q.trans[t].in = p.trans[t].in
    BY <1>1, <1>7
  <2>3. p.trans[t].out \in Nat /\ p.trans[t].in \in Nat
    BY <1>1 DEF TransType
  <2>4. Words(q.spi, p.trans[t].out, p.trans[t].in, {})
    BY <1>1, <1>4, <1>6, <2>3, StartWords
  <2>5. w = {}
    BY DEF Quiet
  <2> QED
    BY <1>6, <2>1, <2>2, <2>4, <2>5 DEF WordsOK
<1> QED
  BY <1>2, <1>4, <1>5, <1>6, <1>8, <1>9 DEF PInv, TypeOf, Quiet

LEMMA StartIfOK ==
  ASSUME NEW p, NEW w, NEW ready \in BOOLEAN, PInv(p, w),
         ready => ~ p.spi.running /\ p.spi.insert # p.spi.extract
  PROVE  PInv(StartIf(ready, p), w)
  BY StartOK DEF StartIf, PInv, WordsOK


-----------------------------------------------------------------------------
(* What is not part of the exchange may change, but for the status of the  *)
(* other driver's transaction while it is in the ring.                     *)
LEMMA FrameOK ==
  ASSUME NEW p, NEW q, NEW w, PInv(p, w), TypeOf(q),
         q.spi.ring = p.spi.ring, q.spi.insert = p.spi.insert, q.spi.extract = p.spi.extract,
         q.spi.running = p.spi.running, q.spi.tx = p.spi.tx, q.spi.rx = p.spi.rx,
         q.spi.txExtra = p.spi.txExtra, q.spi.rxExtra = p.spi.rxExtra,
         q.spi.wire = p.spi.wire, q.spi.sent = p.spi.sent, q.spi.got = p.spi.got,
         \A u \in Transactions :
           q.trans[u].out = p.trans[u].out /\ q.trans[u].in = p.trans[u].in,
         "other" \in Transactions /\ p.trans["other"].status \in {"Pending", "Running"} =>
           q.trans["other"].status \in {"Pending", "Running"}
  PROVE  PInv(q, w)
<1>1. RingOK(q)
  BY DEF PInv, RingOK, InRing
<1>2. CASE p.spi.running
  <2>1. Current(q.spi) = Current(p.spi) /\ Current(p.spi) \in Transactions
    BY <1>2, CurrentInRing DEF PInv, TypeOf, RingOK, Current, SpiType
  <2> QED
    BY <1>1, <1>2, <2>1 DEF PInv, WordsOK, Words
<1>3. CASE ~ p.spi.running
  BY <1>1, <1>3 DEF PInv, WordsOK, Quiet
<1> QED
  BY <1>2, <1>3

LEMMA MarkOK ==
  ASSUME NEW p, NEW w, PInv(p, w), NEW t \in Transactions,
         NEW st \in {"Failed", "Done"},
         t = "other" => p.trans[t].status \notin {"Pending", "Running"}
  PROVE  PInv([p EXCEPT !.trans[t].status = st], w)
<1> DEFINE q == [p EXCEPT !.trans[t].status = st]
<1>1. q.spi = p.spi /\ q.trans = [p.trans EXCEPT ![t].status = st]
  BY DEF PInv, TypeOf
<1>2. q.trans \in [Transactions -> TransType]
  BY <1>1 DEF PInv, TypeOf, TransType
<1>3. TypeOf(q)
  BY <1>1, <1>2 DEF PInv, TypeOf
<1>4. \A u \in Transactions :
        /\ q.trans[u].out = p.trans[u].out /\ q.trans[u].in = p.trans[u].in
        /\ u # t => q.trans[u].status = p.trans[u].status
  BY <1>1 DEF PInv, TypeOf, TransType
<1> HIDE DEF q
<1>5. PInv(q, w)
  BY <1>1, <1>3, <1>4, FrameOK
<1> QED
  BY <1>5 DEF q

LEMMA UnselectOK ==
  ASSUME NEW p, NEW w, PInv(p, w), NEW slave \in Slaves
  PROVE  PInv([p EXCEPT !.spi = Unselect(slave, p.spi)], w)
<1> DEFINE q == [p EXCEPT !.spi = Unselect(slave, p.spi)]
<1>1. q.spi = [p.spi EXCEPT !.select = @ \ {slave}] /\ q.trans = p.trans
  BY DEF PInv, TypeOf, Unselect
<1>2. TypeOf(q)
  BY <1>1 DEF PInv, TypeOf, SpiType
<1>3. /\ q.spi.ring = p.spi.ring /\ q.spi.insert = p.spi.insert /\ q.spi.extract = p.spi.extract
      /\ q.spi.running = p.spi.running /\ q.spi.tx = p.spi.tx /\ q.spi.rx = p.spi.rx
      /\ q.spi.txExtra = p.spi.txExtra /\ q.spi.rxExtra = p.spi.rxExtra
      /\ q.spi.wire = p.spi.wire /\ q.spi.sent = p.spi.sent /\ q.spi.got = p.spi.got
  BY <1>1 DEF PInv, TypeOf, SpiType
<1> HIDE DEF q
<1>4. PInv(q, w)
  BY <1>1, <1>2, <1>3, FrameOK
<1> QED
  BY <1>4 DEF q

LEMMA ResumeOK ==
  ASSUME NEW p, NEW w, PInv(p, w), NEW slave
  PROVE  PInv(Resume(slave, p), w)
<1> DEFINE q == [p EXCEPT !.spi.suspend = NoSlave]
<1>1. q.spi = [p.spi EXCEPT !.suspend = NoSlave] /\ q.trans = p.trans
  BY DEF PInv, TypeOf
<1>2. TypeOf(q)
  BY <1>1 DEF PInv, TypeOf, SpiType
<1>3. /\ q.spi.ring = p.spi.ring /\ q.spi.insert = p.spi.insert /\ q.spi.extract = p.spi.extract
      /\ q.spi.running = p.spi.running /\ q.spi.tx = p.spi.tx /\ q.spi.rx = p.spi.rx
      /\ q.spi.txExtra = p.spi.txExtra /\ q.spi.rxExtra = p.spi.rxExtra
      /\ q.spi.wire = p.spi.wire /\ q.spi.sent = p.spi.sent /\ q.spi.got = p.spi.got
  BY <1>1 DEF PInv, TypeOf, SpiType
<1> DEFINE ready == ~ Empty(p.spi) /\ ~ p.spi.running
<1>4. Resume(slave, p) = IF p.spi.suspend = slave THEN StartIf(ready, q) ELSE p
  BY DEF Resume
<1>5. ready \in BOOLEAN /\ (ready => ~ q.spi.running /\ q.spi.insert # q.spi.extract)
  BY <1>3 DEF Empty
<1> HIDE DEF q, ready
<1>6. PInv(q, w)
  BY <1>1, <1>2, <1>3, FrameOK
<1>7. PInv(StartIf(ready, q), w)
  BY <1>5, <1>6, StartIfOK
<1> QED
  BY <1>4, <1>7

(* Putting a transaction in the ring.                                      *)
LEMMA EnqueueOK ==
  ASSUME NEW p, NEW w, PInv(p, w), NEW t \in Transactions,
         p.trans[t].out + p.trans[t].in > 0,
         t = "other" => p.trans[t].status \notin {"Pending", "Running"},
         After(p.spi.insert) # p.spi.extract
  PROVE  LET q == [p EXCEPT !.trans[t].status = "Pending",
                            !.spi.ring[p.spi.insert] = t, !.spi.insert = After(p.spi.insert)] IN
         /\ PInv(q, w)
         /\ q.spi.running = p.spi.running /\ q.spi.suspend = p.spi.suspend
         /\ q.spi.insert # q.spi.extract
         /\ q.spi.ring = [p.spi.ring EXCEPT ![p.spi.insert] = t]
         /\ q.spi.insert = After(p.spi.insert) /\ q.spi.extract = p.spi.extract
         /\ q.spi.select = p.spi.select
         /\ \A u \in Transactions :
              /\ q.trans[u].out = p.trans[u].out /\ q.trans[u].in = p.trans[u].in
              /\ q.trans[u].status = IF u = t THEN "Pending" ELSE p.trans[u].status
<1> DEFINE q == [p EXCEPT !.trans[t].status = "Pending",
                          !.spi.ring[p.spi.insert] = t, !.spi.insert = After(p.spi.insert)]
           idx == After(p.spi.insert)
<1>1. /\ q.spi = [p.spi EXCEPT !.ring = [@ EXCEPT ![p.spi.insert] = t], !.insert = idx]
      /\ q.trans = [p.trans EXCEPT ![t].status = "Pending"]
  <2>1. p = [spi |-> p.spi, trans |-> p.trans]
    BY DEF PInv, TypeOf
  <2>2. q.trans = [p.trans EXCEPT ![t].status = "Pending"]
    BY <2>1
  <2>3. q.spi = [p.spi EXCEPT !.ring = [@ EXCEPT ![p.spi.insert] = t], !.insert = idx]
    BY <2>1 DEF PInv, TypeOf, SpiType
  <2> QED
    BY <2>2, <2>3
<1>2. p.spi.insert \in Slots /\ p.spi.extract \in Slots /\ idx \in Slots
      /\ idx = IF p.spi.insert + 1 = SPI_TRANSACTION_QUEUE_LEN THEN 0 ELSE p.spi.insert + 1
  BY AfterIs DEF PInv, TypeOf, SpiType
<1>3. q.trans \in [Transactions -> TransType]
  BY <1>1 DEF PInv, TypeOf, TransType
<1> HIDE DEF idx
<1>4. q.spi \in SpiType
  BY <1>1, <1>2 DEF PInv, TypeOf, SpiType
<1>5. TypeOf(q)
  BY <1>3, <1>4 DEF PInv, TypeOf
<1>6. \A u \in Transactions :
        /\ q.trans[u].out = p.trans[u].out /\ q.trans[u].in = p.trans[u].in
        /\ q.trans[u].status = IF u = t THEN "Pending" ELSE p.trans[u].status
  BY <1>1 DEF PInv, TypeOf, TransType
<1>7. /\ q.spi.ring = [p.spi.ring EXCEPT ![p.spi.insert] = t]
      /\ q.spi.insert = idx /\ q.spi.extract = p.spi.extract
      /\ q.spi.running = p.spi.running /\ q.spi.suspend = p.spi.suspend
      /\ q.spi.select = p.spi.select
      /\ q.spi.tx = p.spi.tx /\ q.spi.rx = p.spi.rx
      /\ q.spi.txExtra = p.spi.txExtra /\ q.spi.rxExtra = p.spi.rxExtra
      /\ q.spi.wire = p.spi.wire /\ q.spi.sent = p.spi.sent /\ q.spi.got = p.spi.got
  BY <1>1 DEF PInv, TypeOf, SpiType
<1> HIDE DEF q
<1>8. \A i \in Slots :
        /\ InRing(q.spi, i) <=> InRing(p.spi, i) \/ i = p.spi.insert
        /\ ~ InRing(p.spi, p.spi.insert)
  BY <1>2, <1>7, SlotsAre DEF InRing, idx
<1>9. \A i \in Slots : q.spi.ring[i] = IF i = p.spi.insert THEN t ELSE p.spi.ring[i]
  BY <1>2, <1>7 DEF PInv, TypeOf, SpiType
<1>10. \A i \in Slots : InRing(p.spi, i) /\ p.spi.ring[i] = "other" => t # "other"
  BY DEF PInv, RingOK
<1>11. RingOK(q)
  <2>1. q.spi.insert # q.spi.extract
    BY <1>7 DEF idx
  <2>2. ASSUME NEW i \in Slots, InRing(q.spi, i)
        PROVE  /\ q.spi.ring[i] \in Transactions
               /\ q.trans[q.spi.ring[i]].out + q.trans[q.spi.ring[i]].in > 0
    <3>1. \/ q.spi.ring[i] = t
          \/ InRing(p.spi, i) /\ q.spi.ring[i] = p.spi.ring[i]
      BY <1>8, <1>9, <2>2
    <3>2. InRing(p.spi, i) => /\ p.spi.ring[i] \in Transactions
                              /\ p.trans[p.spi.ring[i]].out + p.trans[p.spi.ring[i]].in > 0
      BY DEF PInv, RingOK
    <3> QED
      BY <1>6, <3>1, <3>2
  <2>3. ASSUME NEW i \in Slots, InRing(q.spi, i), q.spi.ring[i] = "other"
        PROVE  /\ q.trans["other"].status \in {"Pending", "Running"}
               /\ \A j \in Slots : InRing(q.spi, j) /\ q.spi.ring[j] = "other" => j = i
    BY <1>6, <1>8, <1>9, <1>10, <2>2, <2>3 DEF PInv, RingOK
  <2> QED
    BY <2>1, <2>2, <2>3 DEF RingOK
<1>12. WordsOK(q, w)
  <2>1. CASE p.spi.running
    <3>1. p.spi.extract # p.spi.insert
      BY <2>1 DEF PInv, RingOK
    <3>2. Current(q.spi) = Current(p.spi) /\ Current(p.spi) \in Transactions
      BY <1>2, <1>7, <1>9, <3>1, CurrentInRing DEF PInv, TypeOf, RingOK, Current
    <3> QED
      BY <1>6, <1>7, <2>1, <3>2 DEF PInv, WordsOK, Words
  <2>2. CASE ~ p.spi.running
    BY <1>7, <2>2 DEF PInv, WordsOK, Quiet
  <2> QED
    BY <2>1, <2>2
<1>13. PInv(q, w) /\ q.spi.insert # q.spi.extract
  BY <1>5, <1>7, <1>11, <1>12 DEF PInv, idx
<1> QED
  BY <1>6, <1>7, <1>13 DEF q, idx

LEMMA SubmitOK ==
  ASSUME NEW p, NEW w, PInv(p, w), NEW t \in Transactions,
         t = "other" => p.trans[t].status \notin {"Pending", "Running"}
  PROVE  PInv(Submit(t, p), w)
<1> DEFINE q == [p EXCEPT !.trans[t].status = "Pending",
                          !.spi.ring[p.spi.insert] = t, !.spi.insert = After(p.spi.insert)]
           failed == \/ After(p.spi.insert) = p.spi.extract
                     \/ p.trans[t].out = 0 /\ p.trans[t].in = 0
           ready == ~ p.spi.running /\ p.spi.suspend = NoSlave
<1>1. Submit(t, p) = IF failed THEN [p EXCEPT !.trans[t].status = "Failed"]
                               ELSE StartIf(ready, q)
  BY DEF Submit
<1>2. CASE failed
  <2>1. PInv([p EXCEPT !.trans[t].status = "Failed"], w)
    BY MarkOK
  <2> QED
    BY <1>1, <1>2, <2>1
<1>3. CASE ~ failed
  <2>1. p.trans[t].out \in Nat /\ p.trans[t].in \in Nat
    BY DEF PInv, TypeOf, TransType
  <2>2. p.trans[t].out + p.trans[t].in > 0
    BY <1>3, <2>1
  <2>3. /\ PInv(q, w) /\ q.spi.insert # q.spi.extract
        /\ q.spi.running = p.spi.running
    BY <1>3, <2>2, EnqueueOK
  <2> HIDE DEF q
  <2>4. PInv(StartIf(ready, q), w)
    BY <2>3, StartIfOK
  <2> QED
    BY <1>1, <1>3, <2>4
<1> QED
  BY <1>2, <1>3

-----------------------------------------------------------------------------
(* The words of the transaction that is exchanged, as the DMA moves them.  *)
LEMMA RingFrame ==
  ASSUME NEW p, NEW q, RingOK(p), q.trans = p.trans,
         q.spi.ring = p.spi.ring, q.spi.insert = p.spi.insert, q.spi.extract = p.spi.extract,
         p.spi.running
  PROVE  RingOK(q)
  BY DEF RingOK, InRing

LEMMA NowIs ==
  /\ Now.spi = spi /\ Now.trans = trans
  /\ Now'.spi = spi' /\ Now'.trans = trans'
  BY DEF Now

LEMMA TxWordOK ==
  ASSUME PInv(Now, irq), TxWord
  PROVE  PInv(Now, irq)'
<1> DEFINE t == Current(spi)
           out == trans[t].out
           in == trans[t].in
           n == IF out > spi.sent THEN spi.sent + 1 ELSE spi.sent
<1>1. spi \in SpiType /\ spi.tx > 0 /\ spi.wire < 2
  BY DEF PInv, TypeOf, Now, TxWord
<1>2. spi.running
  BY <1>1 DEF PInv, WordsOK, Quiet, Now
<1>3. t \in Transactions /\ out \in Nat /\ in \in Nat
  BY <1>1, <1>2, CurrentInRing DEF PInv, TypeOf, RingOK, Current, SpiType, TransType, Now
<1>4. Words(spi, out, in, irq)
  BY <1>2 DEF PInv, WordsOK, Now
<1>5. spi' = [spi EXCEPT !.tx = @ - 1, !.wire = @ + 1,
                         !.sent = n]
      /\ irq' = (IF spi.tx = 1 THEN irq \cup {"tx"} ELSE irq) /\ trans' = trans
  BY DEF TxWord
<1>6. spi' \in SpiType
  <2>1. n \in Nat /\ spi.tx - 1 \in Nat /\ spi.wire + 1 \in 0 .. 2
    BY <1>1, <1>3 DEF SpiType
  <2> HIDE DEF n
  <2> QED
    BY <1>1, <1>5, <2>1 DEF SpiType
<1>7. /\ spi'.ring = spi.ring /\ spi'.insert = spi.insert /\ spi'.extract = spi.extract
      /\ spi'.running /\ spi'.rx = spi.rx /\ spi'.got = spi.got
      /\ spi'.txExtra = spi.txExtra /\ spi'.rxExtra = spi.rxExtra
      /\ spi'.tx = spi.tx - 1 /\ spi'.wire = spi.wire + 1
      /\ spi'.sent = n
  BY <1>1, <1>2, <1>5 DEF SpiType
<1>8. /\ spi.tx \in Nat /\ spi.rx \in Nat /\ spi.wire \in Nat
      /\ spi.sent \in Nat /\ spi.got \in Nat
  BY <1>1 DEF SpiType
<1> HIDE DEF t, out, in
<1>9. Words(spi', out, in, irq')
  <2>1. CASE spi.tx = 1
    BY <1>1, <1>3, <1>4, <1>5, <1>7, <1>8, <2>1 DEF Words
  <2>2. CASE spi.tx # 1
    BY <1>1, <1>3, <1>4, <1>5, <1>7, <1>8, <2>2 DEF Words
  <2> QED
    BY <2>1, <2>2
<1>10. RingOK(Now')
  <2>1. RingOK(Now)
    BY DEF PInv
  <2> QED
    BY <1>2, <1>5, <1>7, <2>1, NowIs, RingFrame
<1> QED
  BY <1>5, <1>6, <1>7, <1>9, <1>10 DEF PInv, TypeOf, WordsOK, Now, Current, t, out, in

LEMMA RxWordOK ==
  ASSUME PInv(Now, irq), RxWord, ~ LATE
  PROVE  PInv(Now, irq)'
<1> DEFINE t == Current(spi)
           out == trans[t].out
           in == trans[t].in
           n == IF in > spi.got THEN spi.got + 1 ELSE spi.got
<1>1. spi \in SpiType /\ spi.rx > 0 /\ spi.wire > 0 /\ irq = {}
  BY DEF PInv, TypeOf, Now, RxWord
<1>2. spi.running
  BY <1>1 DEF PInv, WordsOK, Quiet, Now
<1>3. t \in Transactions /\ out \in Nat /\ in \in Nat
  BY <1>1, <1>2, CurrentInRing DEF PInv, TypeOf, RingOK, Current, SpiType, TransType, Now
<1>4. Words(spi, out, in, irq)
  BY <1>2 DEF PInv, WordsOK, Now
<1>5. spi' = [spi EXCEPT !.rx = @ - 1, !.wire = @ - 1,
                         !.got = n]
      /\ irq' = (IF spi.rx = 1 THEN {"rx"} ELSE {}) /\ trans' = trans
  BY <1>1 DEF RxWord
<1>6. spi' \in SpiType
  <2>1. n \in Nat /\ spi.rx - 1 \in Nat /\ spi.wire - 1 \in 0 .. 2
    BY <1>1, <1>3 DEF SpiType
  <2> HIDE DEF n
  <2> QED
    BY <1>1, <1>5, <2>1 DEF SpiType
<1>7. /\ spi'.ring = spi.ring /\ spi'.insert = spi.insert /\ spi'.extract = spi.extract
      /\ spi'.running /\ spi'.tx = spi.tx /\ spi'.sent = spi.sent
      /\ spi'.txExtra = spi.txExtra /\ spi'.rxExtra = spi.rxExtra
      /\ spi'.rx = spi.rx - 1 /\ spi'.wire = spi.wire - 1
      /\ spi'.got = n
  BY <1>1, <1>2, <1>5 DEF SpiType
<1>8. /\ spi.tx \in Nat /\ spi.rx \in Nat /\ spi.wire \in Nat
      /\ spi.sent \in Nat /\ spi.got \in Nat
  BY <1>1 DEF SpiType
<1> HIDE DEF t, out, in
<1>9. Words(spi', out, in, irq')
  <2>1. CASE spi.rx = 1
    <3>1. irq' = {"rx"} /\ "tx" \notin irq' /\ spi'.rx = 0
      BY <1>5, <1>7, <2>1
    <3>2. spi'.got = in
      BY <1>1, <1>3, <1>4, <1>7, <1>8, <2>1 DEF Words, n
    <3> HIDE DEF n
    <3>3. /\ spi'.wire + spi'.tx + (IF spi'.txExtra THEN in - out ELSE 0)
               = spi'.rx + (IF spi'.rxExtra THEN out - in ELSE 0)
          /\ spi'.txExtra => 0 < out /\ out < in
          /\ spi'.rxExtra => 0 < in /\ in < out
          /\ spi'.txExtra => spi'.tx > 0
      BY <1>1, <1>3, <1>4, <1>7, <1>8, <2>1 DEF Words
    <3>4. spi'.sent <= out /\ (spi'.sent < out => spi'.sent + spi'.tx = out)
      BY <1>4, <1>7 DEF Words
    <3> QED
      BY <1>3, <3>1, <3>2, <3>3, <3>4 DEF Words
  <2>2. CASE spi.rx # 1
    BY <1>1, <1>3, <1>4, <1>5, <1>7, <1>8, <2>2 DEF Words
  <2> QED
    BY <2>1, <2>2
<1>10. RingOK(Now')
  <2>1. RingOK(Now)
    BY DEF PInv
  <2> QED
    BY <1>2, <1>5, <1>7, <2>1, NowIs, RingFrame
<1> QED
  BY <1>5, <1>6, <1>7, <1>9, <1>10 DEF PInv, TypeOf, WordsOK, Now, Current, t, out, in

-----------------------------------------------------------------------------
(* A DMA that has come to its end while words are left goes on with them   *)
(* on its dummy.                                                           *)
LEMMA RxDummyOK ==
  ASSUME PInv(Now, irq), RxDummy
  PROVE  PInv(Now, irq)'
<1> DEFINE t == Current(spi)
           out == trans[t].out
           in == trans[t].in
<1>1. spi \in SpiType /\ "rx" \in irq /\ spi.rxExtra
  BY DEF PInv, TypeOf, Now, RxDummy
<1>2. spi.running
  BY <1>1 DEF PInv, WordsOK, Quiet, Now
<1>3. t \in Transactions /\ out \in Nat /\ in \in Nat
  BY <1>1, <1>2, CurrentInRing DEF PInv, TypeOf, RingOK, Current, SpiType, TransType, Now
<1>4. Words(spi, out, in, irq)
  BY <1>2 DEF PInv, WordsOK, Now
<1>5. spi' = [spi EXCEPT !.rxExtra = FALSE, !.rx = Minus(out, in)]
      /\ irq' = irq \ {"rx"} /\ trans' = trans
  BY DEF RxDummy
<1> HIDE DEF t, out, in
<1>6. Minus(out, in) = out - in /\ Minus(out, in) \in Nat
  BY <1>1, <1>3, <1>4 DEF Words, Minus
<1>7. spi' \in SpiType
  BY <1>1, <1>5, <1>6 DEF SpiType
<1>8. /\ spi'.ring = spi.ring /\ spi'.insert = spi.insert /\ spi'.extract = spi.extract
      /\ spi'.running /\ spi'.tx = spi.tx /\ spi'.sent = spi.sent /\ spi'.got = spi.got
      /\ spi'.txExtra = spi.txExtra /\ ~ spi'.rxExtra
      /\ spi'.rx = out - in /\ spi'.wire = spi.wire
  BY <1>1, <1>2, <1>5, <1>6 DEF SpiType
<1>9. /\ spi.tx \in Nat /\ spi.rx \in Nat /\ spi.wire \in Nat
      /\ spi.sent \in Nat /\ spi.got \in Nat
  BY <1>1 DEF SpiType
<1>10. Words(spi', out, in, irq')
  BY <1>1, <1>3, <1>4, <1>5, <1>8, <1>9 DEF Words
<1>11. RingOK(Now')
  <2>1. RingOK(Now)
    BY DEF PInv
  <2> QED
    BY <1>2, <1>5, <1>8, <2>1, NowIs, RingFrame
<1> QED
  BY <1>5, <1>7, <1>8, <1>10, <1>11 DEF PInv, TypeOf, WordsOK, Now, Current, t, out, in

LEMMA TxEndOK ==
  ASSUME PInv(Now, irq), TxEnd
  PROVE  PInv(Now, irq)'
<1> DEFINE t == Current(spi)
           out == trans[t].out
           in == trans[t].in
           rest == IF spi.txExtra THEN Minus(in, out) ELSE 0
<1>1. spi \in SpiType /\ "tx" \in irq /\ "rx" \notin irq
  BY DEF PInv, TypeOf, Now, TxEnd
<1>2. spi.running
  BY <1>1 DEF PInv, WordsOK, Quiet, Now
<1>3. t \in Transactions /\ out \in Nat /\ in \in Nat
  BY <1>1, <1>2, CurrentInRing DEF PInv, TypeOf, RingOK, Current, SpiType, TransType, Now
<1>4. Words(spi, out, in, irq)
  BY <1>2 DEF PInv, WordsOK, Now
<1>5. spi' = [spi EXCEPT !.txExtra = FALSE, !.tx = rest]
      /\ irq' = irq \ {"tx"} /\ trans' = trans
  BY DEF TxEnd
<1> HIDE DEF t, out, in
<1>6. rest \in Nat /\ (spi.txExtra => rest = in - out) /\ (~ spi.txExtra => rest = 0)
  BY <1>1, <1>3, <1>4 DEF Words, Minus
<1> HIDE DEF rest
<1>7. spi' \in SpiType
  BY <1>1, <1>5, <1>6 DEF SpiType
<1>8. /\ spi'.ring = spi.ring /\ spi'.insert = spi.insert /\ spi'.extract = spi.extract
      /\ spi'.running /\ spi'.rx = spi.rx /\ spi'.sent = spi.sent /\ spi'.got = spi.got
      /\ spi'.rxExtra = spi.rxExtra /\ ~ spi'.txExtra
      /\ spi'.tx = rest /\ spi'.wire = spi.wire
  BY <1>1, <1>2, <1>5 DEF SpiType
<1>9. /\ spi.tx \in Nat /\ spi.rx \in Nat /\ spi.wire \in Nat
      /\ spi.sent \in Nat /\ spi.got \in Nat
  BY <1>1 DEF SpiType
<1>10. Words(spi', out, in, irq')
  BY <1>1, <1>3, <1>4, <1>5, <1>6, <1>8, <1>9 DEF Words
<1>11. RingOK(Now')
  <2>1. RingOK(Now)
    BY DEF PInv
  <2> QED
    BY <1>2, <1>5, <1>8, <2>1, NowIs, RingFrame
<1> QED
  BY <1>5, <1>7, <1>8, <1>10, <1>11 DEF PInv, TypeOf, WordsOK, Now, Current, t, out, in

-----------------------------------------------------------------------------
(* The end of a transaction: all its words were exchanged, and the next    *)
(* one starts on a DMA at rest.                                            *)
LEMMA EndedWords ==
  ASSUME NEW s \in SpiType, NEW out \in Nat, NEW in \in Nat, NEW w,
         Words(s, out, in, w), "rx" \in w, ~ s.rxExtra, w \subseteq {"rx", "tx"}
  PROVE  /\ Quiet(s, w \ {"rx"})
         /\ s.sent = out /\ s.got = in
<1>1. /\ s.tx \in Nat /\ s.rx \in Nat /\ s.wire \in Nat /\ s.sent \in Nat /\ s.got \in Nat
  BY DEF SpiType
<1>2. s.rx = 0 /\ "tx" \notin w
  BY DEF Words
<1>3. ~ s.txExtra /\ s.tx = 0 /\ s.wire = 0
  BY <1>1, <1>2 DEF Words
<1>4. s.sent = out /\ s.got = in
  BY <1>1, <1>2, <1>3 DEF Words
<1> QED
  BY <1>2, <1>3, <1>4 DEF Quiet

LEMMA NextTransactionOK ==
  ASSUME NEW p, NEW w, TypeOf(p), Quiet(p.spi, w), p.spi.insert # p.spi.extract,
         \A i \in Slots : InRing(p.spi, i) /\ i # p.spi.extract =>
           /\ p.spi.ring[i] \in Transactions
           /\ p.trans[p.spi.ring[i]].out + p.trans[p.spi.ring[i]].in > 0
           /\ p.spi.ring[i] = "other" =>
                /\ p.trans["other"].status \in {"Pending", "Running"}
                /\ \A j \in Slots : InRing(p.spi, j) /\ p.spi.ring[j] = "other" => j = i
  PROVE  PInv(NextTransaction(p), w)
<1> DEFINE q == [p EXCEPT !.spi.ring[p.spi.extract] = NoTransaction,
                          !.spi.extract = After(@), !.spi.running = FALSE]
           ready == ~ Empty(q.spi) /\ q.spi.suspend = NoSlave
           idx == After(p.spi.extract)
<1>1. /\ q.spi = [p.spi EXCEPT !.ring = [@ EXCEPT ![p.spi.extract] = NoTransaction],
                               !.extract = idx, !.running = FALSE]
      /\ q.trans = p.trans
  <2>1. p = [spi |-> p.spi, trans |-> p.trans]
    BY DEF TypeOf
  <2> QED
    BY <2>1 DEF TypeOf, SpiType
<1>2. p.spi.insert \in Slots /\ p.spi.extract \in Slots /\ idx \in Slots
      /\ idx = IF p.spi.extract + 1 = SPI_TRANSACTION_QUEUE_LEN THEN 0 ELSE p.spi.extract + 1
  BY AfterIs DEF TypeOf, SpiType
<1> HIDE DEF idx
<1>3. q.spi \in SpiType
  BY <1>1, <1>2 DEF TypeOf, SpiType
<1>4. TypeOf(q)
  BY <1>1, <1>3 DEF TypeOf
<1>5. /\ q.spi.ring = [p.spi.ring EXCEPT ![p.spi.extract] = NoTransaction]
      /\ q.spi.insert = p.spi.insert /\ q.spi.extract = idx
      /\ ~ q.spi.running /\ q.trans = p.trans
      /\ q.spi.tx = p.spi.tx /\ q.spi.rx = p.spi.rx
      /\ q.spi.txExtra = p.spi.txExtra /\ q.spi.rxExtra = p.spi.rxExtra
      /\ q.spi.wire = p.spi.wire
  BY <1>1 DEF TypeOf, SpiType
<1>6. NextTransaction(p) = StartIf(ready, q)
  BY DEF NextTransaction
<1>7. ready \in BOOLEAN /\ (ready => q.spi.insert # q.spi.extract)
  BY DEF Empty
<1> HIDE DEF q, ready
<1>8. \A i \in Slots : InRing(q.spi, i) => InRing(p.spi, i) /\ i # p.spi.extract
  BY <1>2, <1>5, SlotsAre DEF InRing, idx
<1>9. \A i \in Slots : i # p.spi.extract => q.spi.ring[i] = p.spi.ring[i]
  BY <1>2, <1>5 DEF TypeOf, SpiType
<1>10. RingOK(q)
  BY <1>5, <1>8, <1>9 DEF RingOK
<1>11. Quiet(q.spi, w)
  BY <1>5 DEF Quiet
<1>12. PInv(q, w)
  BY <1>4, <1>5, <1>10, <1>11 DEF PInv, WordsOK, Quiet
<1> QED
  BY <1>5, <1>6, <1>7, <1>12, StartIfOK

(* A start writes no status but "Running".                                 *)
LEMMA StartStatus ==
  ASSUME NEW q, q.trans \in [Transactions -> TransType], NEW ready \in BOOLEAN,
         NEW u \in Transactions
  PROVE  StartIf(ready, q).trans[u].status \in {q.trans[u].status, "Running"}
<1>1. Start(q).trans = [q.trans EXCEPT ![Current(q.spi)].status = "Running"]
  BY DEF Start
<1>2. Start(q).trans[u].status \in {q.trans[u].status, "Running"}
  BY <1>1 DEF TransType
<1> QED
  BY <1>2 DEF StartIf

LEMMA NextStatus ==
  ASSUME NEW p, TypeOf(p), NEW u \in Transactions
  PROVE  NextTransaction(p).trans[u].status \in {p.trans[u].status, "Running"}
<1> DEFINE q == [p EXCEPT !.spi.ring[p.spi.extract] = NoTransaction,
                          !.spi.extract = After(@), !.spi.running = FALSE]
           ready == ~ Empty(q.spi) /\ q.spi.suspend = NoSlave
<1>1. q.trans = p.trans /\ p.trans \in [Transactions -> TransType]
  BY DEF TypeOf
<1>2. NextTransaction(p) = StartIf(ready, q) /\ ready \in BOOLEAN
  BY DEF NextTransaction
<1> HIDE DEF q, ready
<1> QED
  BY <1>1, <1>2, StartStatus

LEMMA RxEndOK ==
  ASSUME PInv(Now, irq), RxEnd
  PROVE  /\ PInv(Now, irq)'
         /\ \A u \in Transactions :
              trans[u].status = "Running" /\ trans'[u].status = "Success" => u = Current(spi)
         /\ spi.sent = trans[Current(spi)].out /\ spi.got = trans[Current(spi)].in
<1> DEFINE t == Current(spi)
           out == trans[t].out
           in == trans[t].in
           locked == IF t \in LockAfter THEN Lock(SlaveOf[t], spi) ELSE spi
           freed == IF Select[t] \in {"SPISelectUnselect", "SPIUnselect"}
                      THEN Unselect(SlaveOf[t], locked) ELSE locked
           done == [trans EXCEPT ![t].status = "Success"]
           p == [spi |-> freed, trans |-> done]
<1>1. spi \in SpiType /\ trans \in [Transactions -> TransType] /\ RingOK(Now)
      /\ "rx" \in irq /\ ~ spi.rxExtra /\ irq \subseteq {"rx", "tx"}
  BY NowIs DEF PInv, TypeOf, RxEnd
<1>2. spi.running /\ spi.insert # spi.extract
  BY <1>1, NowIs DEF PInv, WordsOK, Quiet, RingOK
<1>3. InRing(spi, spi.extract) /\ spi.extract \in Slots
  BY <1>1, <1>2, CurrentInRing DEF SpiType
<1>4. t \in Transactions
  BY <1>1, <1>3, NowIs DEF RingOK, Current
<1>5. out \in Nat /\ in \in Nat /\ SlaveOf[t] \in Slaves
  BY <1>1, <1>4, SpiAssumption DEF TransType
<1>6. Words(spi, out, in, irq)
  BY <1>2, NowIs DEF PInv, WordsOK
<1>7. /\ Quiet(spi, irq \ {"rx"})
      /\ spi.sent = out /\ spi.got = in
  BY <1>1, <1>5, <1>6, EndedWords
<1>8. /\ spi' = NextTransaction(p).spi /\ trans' = NextTransaction(p).trans
      /\ irq' = irq \ {"rx"}
  BY DEF RxEnd, Finished, Now
<1>9. /\ locked \in SpiType /\ locked.ring = spi.ring
      /\ locked.insert = spi.insert /\ locked.extract = spi.extract
      /\ locked.tx = spi.tx /\ locked.rx = spi.rx /\ locked.wire = spi.wire
      /\ locked.txExtra = spi.txExtra /\ locked.rxExtra = spi.rxExtra
  BY <1>1, <1>5 DEF Lock, SpiType
<1> HIDE DEF locked
<1>10. /\ freed \in SpiType /\ freed.ring = spi.ring
       /\ freed.insert = spi.insert /\ freed.extract = spi.extract
       /\ freed.tx = spi.tx /\ freed.rx = spi.rx /\ freed.wire = spi.wire
       /\ freed.txExtra = spi.txExtra /\ freed.rxExtra = spi.rxExtra
  BY <1>5, <1>9 DEF Unselect, SpiType
<1> HIDE DEF freed
<1>11. done \in [Transactions -> TransType]
  BY <1>1, <1>4 DEF TransType
<1>12. \A u \in Transactions :
         /\ done[u].out = trans[u].out /\ done[u].in = trans[u].in
         /\ u # t => done[u].status = trans[u].status
  BY <1>1, <1>4 DEF TransType
<1> HIDE DEF done
<1>13. TypeOf(p) /\ p.spi = freed /\ p.trans = done
  BY <1>10, <1>11 DEF TypeOf
<1>14. Quiet(p.spi, irq \ {"rx"})
  BY <1>7, <1>10, <1>13 DEF Quiet
<1>15. \A i \in Slots : InRing(p.spi, i) <=> InRing(spi, i)
  BY <1>10, <1>13 DEF InRing
<1> HIDE DEF p, t
<1>16. ASSUME NEW i \in Slots, InRing(p.spi, i), i # p.spi.extract
       PROVE  /\ p.spi.ring[i] \in Transactions
              /\ p.trans[p.spi.ring[i]].out + p.trans[p.spi.ring[i]].in > 0
              /\ p.spi.ring[i] = "other" =>
                   /\ p.trans["other"].status \in {"Pending", "Running"}
                   /\ \A j \in Slots : InRing(p.spi, j) /\ p.spi.ring[j] = "other" => j = i
  <2>1. InRing(spi, i) /\ i # spi.extract /\ p.spi.ring = spi.ring
    BY <1>10, <1>13, <1>15, <1>16
  <2>2. /\ spi.ring[i] \in Transactions
        /\ trans[spi.ring[i]].out + trans[spi.ring[i]].in > 0
        /\ spi.ring[i] = "other" =>
             /\ trans["other"].status \in {"Pending", "Running"}
             /\ \A j \in Slots : InRing(spi, j) /\ spi.ring[j] = "other" => j = i
    BY <1>1, <2>1, NowIs DEF RingOK
  <2>3. spi.ring[i] = "other" => t # "other"
    BY <1>3, <2>1, <2>2 DEF t, Current
  <2> QED
    BY <1>12, <1>13, <1>15, <2>1, <2>2, <2>3
<1>17. PInv(NextTransaction(p), irq \ {"rx"})
  <2>1. p.spi.insert # p.spi.extract
    BY <1>2, <1>10, <1>13
  <2> QED
    BY <1>13, <1>14, <1>16, <2>1, NextTransactionOK
<1>18. Now' = NextTransaction(p)
  BY <1>8, <1>17 DEF PInv, TypeOf, Now
<1>19. ASSUME NEW u \in Transactions, trans[u].status = "Running", trans'[u].status = "Success"
       PROVE  u = t
  BY <1>8, <1>12, <1>13, <1>19, NextStatus
<1> QED
  BY <1>7, <1>8, <1>17, <1>18, <1>19 DEF t, PInv

-----------------------------------------------------------------------------
(* What the main loop makes of the bus: the invariant holds, and nothing   *)
(* succeeds but in the interrupt.                                          *)
Good(p) ==
  /\ PInv(p, irq)
  /\ \A u \in Transactions : p.trans[u].status = "Success" => trans[u].status = "Success"

LEMMA GoodStep ==
  ASSUME NEW p, Good(p), NEW from, NEW to, Step(from, to, p)
  PROVE  /\ PInv(Now, irq)'
         /\ \A u \in Transactions : trans'[u].status = "Success" => trans[u].status = "Success"
<1>1. spi' = p.spi /\ trans' = p.trans /\ irq' = irq
  BY DEF Step
<1>2. PInv(p, irq)
  BY DEF Good
<1>3. Now' = p
  BY <1>1, <1>2 DEF Now, PInv, TypeOf
<1> QED
  BY <1>1, <1>2, <1>3 DEF Good, PInv

LEMMA GoodNow ==
  ASSUME PInv(Now, irq)
  PROVE  Good(Now)
  BY NowIs DEF Good

LEMMA GoodMark ==
  ASSUME NEW p, Good(p), NEW t \in Transactions,
         t = "other" => p.trans[t].status \notin {"Pending", "Running"}
  PROVE  Good([p EXCEPT !.trans[t].status = "Done"])
<1>1. PInv([p EXCEPT !.trans[t].status = "Done"], irq)
  BY MarkOK DEF Good
<1>2. ASSUME NEW u \in Transactions,
             [p EXCEPT !.trans[t].status = "Done"].trans[u].status = "Success"
      PROVE  p.trans[u].status = "Success"
  BY <1>2 DEF Good, PInv, TypeOf, TransType
<1> QED
  BY <1>1, <1>2 DEF Good

LEMMA GoodUnselect ==
  ASSUME NEW p, Good(p), NEW slave \in Slaves
  PROVE  Good([p EXCEPT !.spi = Unselect(slave, p.spi)])
<1>1. PInv([p EXCEPT !.spi = Unselect(slave, p.spi)], irq)
  BY UnselectOK DEF Good
<1>2. [p EXCEPT !.spi = Unselect(slave, p.spi)].trans = p.trans
  BY DEF Good, PInv, TypeOf
<1> QED
  BY <1>1, <1>2 DEF Good

LEMMA GoodResume ==
  ASSUME NEW p, Good(p), NEW slave
  PROVE  Good(Resume(slave, p))
<1> DEFINE q == [p EXCEPT !.spi.suspend = NoSlave]
           ready == ~ Empty(p.spi) /\ ~ p.spi.running
<1>1. PInv(Resume(slave, p), irq)
  BY ResumeOK DEF Good
<1>2. q.trans = p.trans /\ p.trans \in [Transactions -> TransType]
  BY DEF Good, PInv, TypeOf
<1>3. Resume(slave, p) = (IF p.spi.suspend = slave THEN StartIf(ready, q) ELSE p)
      /\ ready \in BOOLEAN
  BY DEF Resume
<1> HIDE DEF q, ready
<1>4. \A u \in Transactions : Resume(slave, p).trans[u].status \in {p.trans[u].status, "Running"}
  BY <1>2, <1>3, StartStatus
<1> QED
  BY <1>1, <1>4 DEF Good

LEMMA GoodSubmit ==
  ASSUME NEW p, Good(p), NEW t \in Transactions,
         t = "other" => p.trans[t].status \notin {"Pending", "Running"}
  PROVE  Good(Submit(t, p))
<1> DEFINE f == [p EXCEPT !.trans[t].status = "Failed"]
           q == [p EXCEPT !.trans[t].status = "Pending",
                          !.spi.ring[p.spi.insert] = t, !.spi.insert = After(p.spi.insert)]
           failed == \/ After(p.spi.insert) = p.spi.extract
                     \/ p.trans[t].out = 0 /\ p.trans[t].in = 0
           ready == ~ p.spi.running /\ p.spi.suspend = NoSlave
<1>1. PInv(Submit(t, p), irq)
  BY SubmitOK DEF Good
<1>2. /\ f.trans = [p.trans EXCEPT ![t].status = "Failed"]
      /\ q.trans = [p.trans EXCEPT ![t].status = "Pending"]
      /\ p.trans \in [Transactions -> TransType]
  <2>1. p = [spi |-> p.spi, trans |-> p.trans]
    BY DEF Good, PInv, TypeOf
  <2> QED
    BY <2>1 DEF Good, PInv, TypeOf
<1>3. Submit(t, p) = (IF failed THEN f ELSE StartIf(ready, q)) /\ ready \in BOOLEAN
  BY DEF Submit
<1> HIDE DEF f, q, failed, ready
<1>4. /\ q.trans \in [Transactions -> TransType]
      /\ \A u \in Transactions :
           /\ f.trans[u].status \in {p.trans[u].status, "Failed"}
           /\ q.trans[u].status \in {p.trans[u].status, "Pending"}
  BY <1>2 DEF TransType
<1>5. \A u \in Transactions : StartIf(ready, q).trans[u].status \in {q.trans[u].status, "Running"}
  BY <1>3, <1>4, StartStatus
<1>6. \A u \in Transactions :
        Submit(t, p).trans[u].status \in {p.trans[u].status, "Failed", "Pending", "Running"}
  BY <1>3, <1>4, <1>5
<1> QED
  BY <1>1, <1>6 DEF Good

(* The other driver gives its transaction new lengths when it is not in    *)
(* the ring.                                                               *)
LEMMA GoodLengths ==
  ASSUME PInv(Now, irq), "other" \in Transactions, trans["other"].status = "Done",
         NEW l \in [out : Nat, in : Nat]
  PROVE  /\ Good([Now EXCEPT !.trans["other"].out = l.out, !.trans["other"].in = l.in])
         /\ [Now EXCEPT !.trans["other"].out = l.out,
                         !.trans["other"].in = l.in].trans["other"].status = "Done"
<1> DEFINE q == [Now EXCEPT !.trans["other"].out = l.out, !.trans["other"].in = l.in]
<1>1. q.spi = spi /\ q.trans = [trans EXCEPT !["other"] = [@ EXCEPT !.out = l.out, !.in = l.in]]
  BY DEF Now, PInv, TypeOf, TransType
<1>2. spi \in SpiType /\ trans \in [Transactions -> TransType]
  BY NowIs DEF PInv, TypeOf
<1>3. q.trans \in [Transactions -> TransType]
  <2> DEFINE r == [trans["other"] EXCEPT !.out = l.out, !.in = l.in]
  <2>1. r \in TransType
    BY <1>2 DEF TransType
  <2>2. q.trans = [trans EXCEPT !["other"] = r]
    BY <1>1
  <2> HIDE DEF q, r
  <2> QED
    BY <1>2, <2>1, <2>2
<1>4. TypeOf(q)
  BY <1>1, <1>2, <1>3 DEF TypeOf, Now
<1> HIDE DEF q
<1>5. \A u \in Transactions :
        /\ q.trans[u].status = trans[u].status
        /\ u # "other" => q.trans[u].out = trans[u].out /\ q.trans[u].in = trans[u].in
  BY <1>1, <1>2 DEF TransType
<1>6. \A i \in Slots : InRing(spi, i) => spi.ring[i] \in Transactions \ {"other"}
  BY NowIs DEF PInv, RingOK
<1>7. RingOK(q)
  BY <1>1, <1>5, <1>6, NowIs DEF PInv, RingOK
<1>8. WordsOK(q, irq)
  <2>1. CASE spi.running
    <3>1. Current(spi) \in Transactions \ {"other"}
      BY <1>2, <1>6, <2>1, CurrentInRing, NowIs DEF PInv, RingOK, Current, SpiType
    <3> QED
      BY <1>1, <1>5, <2>1, <3>1, NowIs DEF PInv, WordsOK
  <2>2. CASE ~ spi.running
    BY <1>1, <2>2, NowIs DEF PInv, WordsOK
  <2> QED
    BY <2>1, <2>2
<1> QED
  BY <1>4, <1>5, <1>7, <1>8 DEF PInv, Good, q

-----------------------------------------------------------------------------
(* Every statement of the main loop.                                       *)
LEMMA MainLoopOK ==
  ASSUME InTime, IInv, MainLoop
  PROVE  /\ PInv(Now, irq)'
         /\ \A u \in Transactions : trans'[u].status = "Success" => trans[u].status = "Success"
<1> DEFINE Goal == /\ PInv(Now, irq)'
                   /\ \A u \in Transactions :
                        trans'[u].status = "Success" => trans[u].status = "Success"
           mr == "max1168_req"
           mm == "max1168_read"
           rr == "ms2100_req"
           rm == "ms2100_read"
<1>1. /\ mr \in Transactions /\ mm \in Transactions
      /\ rr \in Transactions /\ rm \in Transactions /\ "other" \in Transactions
  BY DEF InTime
<1>2. SlaveOf[mr] \in Slaves /\ SlaveOf[mm] \in Slaves
  BY <1>1, SpiAssumption
<1>3. Good(Now)
  BY GoodNow DEF IInv
<1>4. ASSUME NEW from, NEW to, Step(from, to, Now)
      PROVE  Goal
  BY <1>3, <1>4, GoodStep
<1>5. ASSUME NEW from, NEW to, NEW t \in {mr, mm, rr, rm}, Step(from, to, Submit(t, Now))
      PROVE  Goal
  <2>1. t \in Transactions /\ t # "other"
    BY <1>1
  <2>2. Good(Submit(t, Now))
    BY <1>3, <2>1, GoodSubmit
  <2> QED
    BY <1>5, <2>2, GoodStep
<1>6. ASSUME NEW t \in {mr, mm, rr, rm}
      PROVE  Good(Mark(t, "Done"))
  <2>1. t \in Transactions /\ t # "other"
    BY <1>1
  <2> QED
    BY <1>3, <2>1, GoodMark DEF Mark
<1>7. ASSUME NEW from, NEW to, NEW t \in {mr, mm, rr, rm}, Step(from, to, Mark(t, "Done"))
      PROVE  Goal
  BY <1>6, <1>7, GoodStep
<1> SUFFICES Goal
  OBVIOUS
<1> HIDE DEF Goal
<1>8. CASE ImuPeriodic \/ Max1168Read \/ Max1168Sent \/ Ms2100Periodic \/ Ms2100Sent \/ NotDue
  BY <1>4, <1>5, <1>8 DEF ImuPeriodic, Max1168Read, Max1168Sent, Ms2100Periodic, Ms2100Sent, NotDue
<1>9. CASE Other
  <2>1. ASSUME trans["other"].status \in {"Success", "Failed"},
               Step("other", "max1168_event", Mark("other", "Done"))
        PROVE  Goal
    <3>1. Good(Mark("other", "Done"))
      BY <1>1, <1>3, <2>1, NowIs, GoodMark DEF Mark
    <3> QED
      BY <2>1, <3>1, GoodStep DEF Goal
  <2>2. ASSUME trans["other"].status = "Done", NEW l \in OTHER_LENGTHS,
               Step("other", "max1168_event",
                    Submit("other", [Now EXCEPT !.trans["other"].out = l.out,
                                                !.trans["other"].in = l.in]))
        PROVE  Goal
    <3> DEFINE q == [Now EXCEPT !.trans["other"].out = l.out, !.trans["other"].in = l.in]
    <3>1. l \in [out : Nat, in : Nat]
      BY DEF InTime
    <3>2. Good(q) /\ q.trans["other"].status = "Done"
      BY <1>1, <2>2, <3>1, GoodLengths DEF IInv
    <3> HIDE DEF q
    <3>3. Good(Submit("other", q))
      BY <1>1, <3>2, GoodSubmit
    <3> QED
      BY <2>2, <3>3, GoodStep DEF Goal, q
  <2> QED
    BY <1>4, <1>9, <2>1, <2>2 DEF Other
<1>10. CASE Max1168Event
  <2> DEFINE p == Mark(mr, "Done")
             q == [p EXCEPT !.spi = Unselect(SlaveOf[mr], p.spi)]
  <2>1. Good(q)
    BY <1>2, <1>6, GoodUnselect
  <2>2. Good(Resume(SlaveOf[mr], q))
    BY <2>1, GoodResume
  <2>3. ASSUME Step("max1168_event", "max1168_result", Resume(SlaveOf[mr], q))
        PROVE  Goal
    BY <2>2, <2>3, GoodStep DEF Goal
  <2> QED
    BY <1>4, <1>7, <1>10, <2>3 DEF Max1168Event
<1>11. CASE Max1168Result
  <2> DEFINE p == Mark(mm, "Done")
             q == [p EXCEPT !.spi = Unselect(SlaveOf[mm], p.spi)]
  <2>1. Good(q)
    BY <1>2, <1>6, GoodUnselect
  <2>2. ASSUME Step("max1168_result", "max1168_eoc", q)
        PROVE  Goal
    BY <2>1, <2>2, GoodStep DEF Goal
  <2> QED
    BY <1>4, <1>7, <1>11, <2>2 DEF Max1168Result
<1>12. CASE Max1168Eoc
  <2>1. Good(Resume(SlaveOf[mr], Now))
    BY <1>3, GoodResume
  <2>2. ASSUME Step("max1168_eoc", "max1168_reading", Resume(SlaveOf[mr], Now))
        PROVE  Goal
    BY <2>1, <2>2, GoodStep DEF Goal
  <2> QED
    BY <1>4, <1>12, <2>2 DEF Max1168Eoc
<1>13. CASE Max1168Reading \/ Max1168Data \/ Ms2100Reading
  BY <1>4, <1>13 DEF Max1168Reading, Max1168Data, Ms2100Reading
<1>14. CASE Ms2100Event
  BY <1>4, <1>5, <1>7, <1>14 DEF Ms2100Event
<1>15. CASE Ms2100Result
  BY <1>4, <1>7, <1>15 DEF Ms2100Result
<1> QED
  BY <1>8, <1>9, <1>10, <1>11, <1>12, <1>13, <1>14, <1>15
     DEF MainLoop, Max1168Loop, Ms2100Loop, OtherLoop

-----------------------------------------------------------------------------
LEMMA InitIInv ==
  ASSUME InTime, Init
  PROVE  IInv
<1>1. \A t \in Transactions : Lengths(t) \in [out : Nat, in : Nat]
  BY DEF InTime, Lengths
<1>2. trans \in [Transactions -> TransType]
  BY <1>1 DEF Init, TransType
<1>3. spi \in SpiType
  BY SlotsAre, SpiAssumption DEF Init, SpiType
<1>4. ~ spi.running /\ spi.insert = spi.extract /\ Quiet(spi, irq)
  BY DEF Init, Quiet
<1>5. RingOK(Now)
  BY <1>3, <1>4, NowIs, SlotsAre DEF RingOK, InRing, SpiType
<1>6. PInv(Now, irq)
  BY <1>2, <1>3, <1>4, <1>5, NowIs DEF PInv, TypeOf, WordsOK, Now, Init
<1>7. Rest
  BY DEF Init, Rest, Statements, DriverStates
<1> QED
  BY <1>6, <1>7 DEF IInv

(* The variables of the drivers keep their types.                          *)
LEMMA RestOK ==
  ASSUME Rest, Next
  PROVE  Rest'
<1> USE DEF Rest, Statements, DriverStates, Requests
<1>1. CASE Max1168Loop
  BY <1>1 DEF Max1168Loop, ImuPeriodic, NotDue, Max1168Read, Max1168Sent, Max1168Event,
     Max1168Result, Max1168Eoc, Max1168Reading, Max1168Data, Step
<1>2. CASE Ms2100Loop
  BY <1>2 DEF Ms2100Loop, Ms2100Periodic, Ms2100Sent, Ms2100Event, Ms2100Reading,
     Ms2100Result, Step
<1>3. CASE OtherLoop
  BY <1>3 DEF OtherLoop, Other, Step
<1>4. CASE DmaInterrupt
  BY <1>4 DEF DmaInterrupt
<1>5. CASE DmaWord
  BY <1>5 DEF DmaWord
<1>6. CASE Max1168EndOfConversion \/ Ms2100EndOfConversion
  BY <1>6 DEF Max1168EndOfConversion, Ms2100EndOfConversion
<1> QED
  BY <1>1, <1>2, <1>3, <1>4, <1>5, <1>6 DEF Next, MainLoop

LEMMA NextIInv ==
  ASSUME InTime, IInv, [Next]_vars
  PROVE  IInv'
<1>1. CASE UNCHANGED vars
  BY <1>1 DEF vars, IInv, Rest, PInv, TypeOf, RingOK, WordsOK, Now
<1>2. ASSUME Next
      PROVE  PInv(Now, irq)'
  <2>1. CASE MainLoop
    BY <2>1, MainLoopOK
  <2>2. CASE DmaInterrupt
    BY <2>2, RxDummyOK, RxEndOK, TxEndOK DEF DmaInterrupt, Interrupt, IInv
  <2>3. CASE DmaWord
    BY <2>3, TxWordOK, RxWordOK DEF DmaWord, IInv, InTime
  <2>4. CASE Max1168EndOfConversion \/ Ms2100EndOfConversion
    <3>1. UNCHANGED <<spi, trans, irq>>
      BY <2>4 DEF Max1168EndOfConversion, Ms2100EndOfConversion
    <3> QED
      BY <3>1 DEF IInv, PInv, TypeOf, RingOK, WordsOK, Now
  <2> QED
    BY <1>2, <2>1, <2>2, <2>3, <2>4 DEF Next
<1>3. CASE Next
  BY <1>2, <1>3, RestOK DEF IInv
<1> QED
  BY <1>1, <1>3

(* For every length of the ring and of the transactions, and any number of *)
(* words of the ADC, the invariant of the words that are under way holds.  *)
THEOREM SpiInductive ==
  ASSUME InTime
  PROVE  Spec => []IInv
<1>1. Init => IInv
  BY InitIInv
<1>2. IInv /\ [Next]_vars => IInv'
  BY NextIInv
<1> QED
  BY <1>1, <1>2, PTL DEF Spec

(* The peripheral, the transactions and the drivers keep their types:      *)
(* above all, no count of words to move falls below zero.                  *)
THEOREM SpiTypeCorrect ==
  ASSUME InTime
  PROVE  Spec => []TypeOK
<1>1. IInv => TypeOK
  BY NowIs DEF IInv, PInv, TypeOf, Rest, TypeOK
<1> QED
  BY <1>1, SpiInductive, PTL

(* The clock of a transaction never stops before its end, whichever of its *)
(* buffers is longer (process_rx_ and process_tx_dma_interrupt).           *)
THEOREM ClockKeepsRunning ==
  ASSUME InTime
  PROVE  Spec => []ClockRuns
<1>1. IInv => ClockRuns
  <2> SUFFICES ASSUME IInv, spi.running, irq = {}
               PROVE  spi.rx > 0 /\ (spi.wire > 0 \/ spi.tx > 0)
    BY DEF ClockRuns
  <2> DEFINE out == trans[Current(spi)].out
             in == trans[Current(spi)].in
  <2>1. spi \in SpiType /\ trans \in [Transactions -> TransType] /\ Words(spi, out, in, irq)
    BY NowIs DEF IInv, PInv, TypeOf, WordsOK
  <2>2. Current(spi) \in Transactions
    BY <2>1, CurrentInRing, NowIs DEF IInv, PInv, RingOK, Current, SpiType
  <2>3. out \in Nat /\ in \in Nat
    BY <2>1, <2>2 DEF TransType
  <2>4. spi.tx \in Nat /\ spi.rx \in Nat /\ spi.wire \in Nat
    BY <2>1 DEF SpiType
  <2> HIDE DEF out, in
  <2> QED
    BY <2>1, <2>3, <2>4 DEF Words
<1> QED
  BY <1>1, SpiInductive, PTL

(* A transaction succeeds only when all the words of both its buffers have *)
(* been exchanged: it is the receive interrupt that ends it.               *)
THEOREM SuccessIsComplete ==
  ASSUME InTime
  PROVE  Spec => Complete
<1> DEFINE Ends == \A t \in Transactions :
             trans[t].status = "Running" /\ trans'[t].status = "Success" =>
               /\ t = Current(spi)
               /\ spi.sent = trans[t].out /\ spi.got = trans[t].in
<1>1. ASSUME IInv, [Next]_vars
      PROVE  Ends
  <2> SUFFICES ASSUME NEW t \in Transactions,
                      trans[t].status = "Running", trans'[t].status = "Success"
               PROVE  /\ t = Current(spi)
                      /\ spi.sent = trans[t].out /\ spi.got = trans[t].in
    OBVIOUS
  <2>1. trans' # trans
    OBVIOUS
  <2>2. ~ MainLoop
    BY <1>1, MainLoopOK
  <2>3. RxEnd
    BY <1>1, <2>1, <2>2 DEF vars, Next, DmaInterrupt, DmaWord, Interrupt, RxDummy, TxEnd, TxWord,
       RxWord, Max1168EndOfConversion, Ms2100EndOfConversion
  <2> QED
    BY <1>1, <2>3, RxEndOK DEF IInv
<1>2. IInv /\ [Next]_vars => [Ends]_vars
  BY <1>1
<1> QED
  BY <1>2, SpiInductive, PTL DEF Spec, Complete

-----------------------------------------------------------------------------
(* The ring as the sequence of what is between its indices.                *)
LEMMA SlotAfter ==
  ASSUME NEW e \in Slots, NEW k \in Slots
  PROVE  /\ (e + k) % SPI_TRANSACTION_QUEUE_LEN
              = IF e + k < SPI_TRANSACTION_QUEUE_LEN THEN e + k
                                                    ELSE e + k - SPI_TRANSACTION_QUEUE_LEN
         /\ (e + k) % SPI_TRANSACTION_QUEUE_LEN \in Slots
  BY SlotsAre DEF Slots

LEMMA WaitingIs ==
  ASSUME NEW s \in SpiType
  PROVE  /\ WaitingOf(s) = IF s.extract <= s.insert THEN s.insert - s.extract
                             ELSE s.insert - s.extract + SPI_TRANSACTION_QUEUE_LEN
         /\ WaitingOf(s) \in Nat /\ WaitingOf(s) < SPI_TRANSACTION_QUEUE_LEN
<1>1. s.insert \in Slots /\ s.extract \in Slots
  BY DEF SpiType
<1> QED
  BY <1>1, SlotsAre DEF WaitingOf, Slots

LEMMA QueueIs ==
  ASSUME NEW s \in SpiType
  PROVE  /\ QueueOf(s) \in Seq(Transactions \cup {NoTransaction})
         /\ Len(QueueOf(s)) = WaitingOf(s)
         /\ \A i \in 1 .. WaitingOf(s) :
              QueueOf(s)[i] = s.ring[IF s.extract + i - 1 < SPI_TRANSACTION_QUEUE_LEN
                                       THEN s.extract + i - 1
                                       ELSE s.extract + i - 1 - SPI_TRANSACTION_QUEUE_LEN]
         /\ QueueOf(s) = <<>> <=> s.insert = s.extract
         /\ s.insert # s.extract => QueueOf(s)[1] = Current(s)
<1>1. s.insert \in Slots /\ s.extract \in Slots
      /\ s.ring \in [Slots -> Transactions \cup {NoTransaction}]
  BY DEF SpiType
<1> DEFINE n == WaitingOf(s)
           at0(i) == (s.extract + i - 1) % SPI_TRANSACTION_QUEUE_LEN
<1>2. n \in Nat /\ n < SPI_TRANSACTION_QUEUE_LEN /\ (n = 0 <=> s.insert = s.extract)
  BY <1>1, SlotsAre, WaitingIs
<1> HIDE DEF n
<1>3. \A i \in 1 .. n :
        /\ at0(i) = IF s.extract + i - 1 < SPI_TRANSACTION_QUEUE_LEN
                      THEN s.extract + i - 1
                      ELSE s.extract + i - 1 - SPI_TRANSACTION_QUEUE_LEN
        /\ at0(i) \in Slots
  <2> SUFFICES ASSUME NEW i \in 1 .. n
               PROVE  /\ at0(i) = IF s.extract + i - 1 < SPI_TRANSACTION_QUEUE_LEN
                                    THEN s.extract + i - 1
                                    ELSE s.extract + i - 1 - SPI_TRANSACTION_QUEUE_LEN
                      /\ at0(i) \in Slots
    OBVIOUS
  <2>1. i - 1 \in Slots
    BY <1>2, SlotsAre DEF Slots
  <2>2. s.extract + (i - 1) = s.extract + i - 1
    BY <1>1, SlotsAre, <2>1
  <2> QED
    BY <1>1, <2>1, <2>2, SlotAfter
<1>4. QueueOf(s) = [i \in 1 .. n |-> s.ring[at0(i)]]
  BY DEF QueueOf, n
<1> HIDE DEF at0
<1>5. QueueOf(s) \in [1 .. n -> Transactions \cup {NoTransaction}]
  BY <1>1, <1>3, <1>4
<1>6. QueueOf(s) \in Seq(Transactions \cup {NoTransaction})
  BY <1>2, <1>5, SeqDef
<1>7. Len(QueueOf(s)) = n
  BY <1>2, <1>4, <1>6
<1>8. s.insert # s.extract => QueueOf(s)[1] = Current(s)
  BY <1>1, <1>2, <1>3, <1>4, SlotsAre DEF Current
<1>9. QueueOf(s) = <<>> <=> n = 0
  BY <1>2, <1>6, <1>7, EmptySeq
<1> QED
  BY <1>2, <1>3, <1>4, <1>6, <1>7, <1>8, <1>9 DEF n

LEMMA QueueSame ==
  ASSUME NEW s, NEW r, r.ring = s.ring, r.insert = s.insert, r.extract = s.extract
  PROVE  QueueOf(r) = QueueOf(s)
  BY DEF QueueOf, WaitingOf

LEMMA QueueAppend ==
  ASSUME NEW s \in SpiType, NEW r \in SpiType, NEW t \in Transactions,
         After(s.insert) # s.extract,
         r.ring = [s.ring EXCEPT ![s.insert] = t],
         r.insert = After(s.insert), r.extract = s.extract
  PROVE  QueueOf(r) = Append(QueueOf(s), t)
<1> DEFINE S == Transactions \cup {NoTransaction}
           q == Append(QueueOf(s), t)
<1>1. s.insert \in Slots /\ s.extract \in Slots /\ s.ring \in [Slots -> S]
  BY DEF SpiType
<1>2. WaitingOf(r) = WaitingOf(s) + 1
  BY <1>1, WaitingIs, AfterIs, SlotsAre
<1>3. /\ QueueOf(s) \in Seq(S) /\ Len(QueueOf(s)) = WaitingOf(s)
      /\ QueueOf(r) \in Seq(S) /\ Len(QueueOf(r)) = WaitingOf(r)
  BY QueueIs
<1>4. /\ q \in Seq(S) /\ Len(q) = WaitingOf(s) + 1
      /\ \A i \in 1 .. WaitingOf(s) : q[i] = QueueOf(s)[i]
      /\ q[WaitingOf(s) + 1] = t
  BY <1>3, AppendProperties
<1> HIDE DEF q, S
<1>5. WaitingOf(s) \in Nat
  BY WaitingIs
<1>6. ASSUME NEW i \in 1 .. WaitingOf(s)
      PROVE  QueueOf(r)[i] = q[i]
  <2> DEFINE k == IF s.extract + i - 1 < SPI_TRANSACTION_QUEUE_LEN
                    THEN s.extract + i - 1
                    ELSE s.extract + i - 1 - SPI_TRANSACTION_QUEUE_LEN
  <2>1. k \in Slots /\ k # s.insert
    BY <1>1, <1>5, WaitingIs, SlotsAre DEF Slots
  <2>2. i \in 1 .. WaitingOf(r)
    BY <1>2, <1>5
  <2>3. QueueOf(s)[i] = s.ring[k]
    BY QueueIs
  <2>4. QueueOf(r)[i] = r.ring[k]
    BY QueueIs, <2>2
  <2> HIDE DEF k
  <2> QED
    BY <1>1, <1>4, <2>1, <2>3, <2>4
<1>7. QueueOf(r)[WaitingOf(s) + 1] = t
  <2> DEFINE i == WaitingOf(s) + 1
             k == IF s.extract + i - 1 < SPI_TRANSACTION_QUEUE_LEN
                    THEN s.extract + i - 1
                    ELSE s.extract + i - 1 - SPI_TRANSACTION_QUEUE_LEN
  <2>1. k = s.insert
    BY <1>1, <1>5, WaitingIs, SlotsAre
  <2>2. i \in 1 .. WaitingOf(r)
    BY <1>2, <1>5
  <2>3. QueueOf(r)[i] = r.ring[k]
    BY QueueIs, <2>2
  <2> QED
    BY <1>1, <2>1, <2>3
<1>8. \A i \in 1 .. Len(QueueOf(r)) : QueueOf(r)[i] = q[i]
  BY <1>2, <1>3, <1>4, <1>5, <1>6, <1>7
<1>9. QueueOf(r) = q
  BY <1>2, <1>3, <1>4, <1>8, SeqEqual
<1> QED
  BY <1>9 DEF q

LEMMA QueueTail ==
  ASSUME NEW s \in SpiType, NEW r \in SpiType, s.insert # s.extract,
         r.ring = [s.ring EXCEPT ![s.extract] = NoTransaction],
         r.insert = s.insert, r.extract = After(s.extract)
  PROVE  QueueOf(r) = Tail(QueueOf(s)) /\ QueueOf(s) # <<>>
<1> DEFINE S == Transactions \cup {NoTransaction}
           q == Tail(QueueOf(s))
<1>1. s.insert \in Slots /\ s.extract \in Slots /\ s.ring \in [Slots -> S]
  BY DEF SpiType
<1>2. WaitingOf(s) = WaitingOf(r) + 1 /\ WaitingOf(r) \in Nat
  BY <1>1, WaitingIs, AfterIs, SlotsAre
<1>3. /\ QueueOf(s) \in Seq(S) /\ Len(QueueOf(s)) = WaitingOf(s) /\ QueueOf(s) # <<>>
      /\ QueueOf(r) \in Seq(S) /\ Len(QueueOf(r)) = WaitingOf(r)
  BY QueueIs
<1>4. /\ q \in Seq(S) /\ Len(q) = WaitingOf(r)
      /\ \A i \in 1 .. WaitingOf(r) : q[i] = QueueOf(s)[i + 1]
  BY <1>2, <1>3, HeadTailProperties
<1> HIDE DEF q, S
<1>5. ASSUME NEW i \in 1 .. WaitingOf(r)
      PROVE  QueueOf(r)[i] = q[i]
  <2> DEFINE k == IF s.extract + i < SPI_TRANSACTION_QUEUE_LEN
                    THEN s.extract + i
                    ELSE s.extract + i - SPI_TRANSACTION_QUEUE_LEN
             l == IF r.extract + i - 1 < SPI_TRANSACTION_QUEUE_LEN
                    THEN r.extract + i - 1
                    ELSE r.extract + i - 1 - SPI_TRANSACTION_QUEUE_LEN
  <2>1. k \in Slots /\ k # s.extract /\ k = l
    <3> DEFINE n == SPI_TRANSACTION_QUEUE_LEN
    <3>1. n \in Nat \ {0, 1} /\ s.extract \in 0 .. n - 1
      BY <1>1, SlotsAre DEF Slots
    <3>2. i \in Nat /\ i > 0 /\ i < n
      BY <1>2, WaitingIs, SlotsAre
    <3>3. r.extract = IF s.extract + 1 = n THEN 0 ELSE s.extract + 1
      BY <1>1, AfterIs
    <3> QED
      BY <3>1, <3>2, <3>3 DEF Slots
  <2>2. i + 1 \in 1 .. WaitingOf(s) /\ s.extract + (i + 1) - 1 = s.extract + i
    BY <1>1, <1>2, SlotsAre
  <2>3. QueueOf(s)[i + 1] = s.ring[k]
    BY QueueIs, <2>2
  <2>4. QueueOf(r)[i] = r.ring[l]
    BY QueueIs
  <2> HIDE DEF k, l
  <2> QED
    BY <1>1, <1>4, <2>1, <2>3, <2>4
<1>6. QueueOf(r) = q
  BY <1>3, <1>4, <1>5, SeqEqual
<1> QED
  BY <1>3, <1>6 DEF q

-----------------------------------------------------------------------------
(* The operations of the driver on the fifo.  Kept: the transactions of D  *)
(* stay in the ring or out of it, and keep their lengths.                  *)
Kept(p, q, D) ==
  \A u \in D :
    /\ q.trans[u].status \in Busy <=> p.trans[u].status \in Busy
    /\ p.trans[u].status \notin Busy => q.trans[u].status = p.trans[u].status
    /\ q.trans[u].out = p.trans[u].out /\ q.trans[u].in = p.trans[u].in

LEMMA DriversAre ==
  ASSUME InTime
  PROVE  /\ \A t \in Drivers : t \in Transactions
         /\ ADC \in Slaves /\ ADC # NoSlave
  BY SpiAssumption DEF InTime, Drivers, ADC

(* The oldest starts on a bus where nothing is selected but the ADC, when  *)
(* it is the ADC that is read.                                             *)
LEMMA BusStart ==
  ASSUME InTime, Wired, NEW p, TypeOf(p), NEW open,
         QueueOf(p.spi) # <<>>, OrderOK(QueueOf(p.spi), open),
         StatusOK(QueueOf(p.spi), FALSE, p.trans), p.spi.suspend = NoSlave,
         p.spi.select = IF QueueOf(p.spi)[1] = "max1168_read" THEN {ADC} ELSE {}
  PROVE  /\ BusOK(Start(p), open) /\ Kept(p, Start(p), Drivers)
         /\ QueueOf(Start(p).spi) = QueueOf(p.spi)
         /\ Start(p).spi.suspend = NoSlave /\ Start(p).spi.running
<1> DEFINE q == QueueOf(p.spi)
           t == q[1]
           r == Start(p)
<1>1. p.spi \in SpiType /\ p.trans \in [Transactions -> TransType]
  BY DEF TypeOf
<1>2. q \in Seq(Transactions \cup {NoTransaction}) /\ Len(q) \in Nat /\ Len(q) > 0
      /\ p.spi.insert # p.spi.extract /\ t = Current(p.spi)
  BY <1>1, QueueIs, WaitingIs
<1> HIDE DEF q
<1>3. t \in Drivers /\ t \in Transactions
  BY <1>2, DriversAre DEF OrderOK, q
<1>4. /\ r.spi = [p.spi EXCEPT
           !.running = TRUE,
           !.select = IF Select[t] \in {"SPISelectUnselect", "SPISelect"}
                        THEN @ \cup {SlaveOf[t]} ELSE @,
           !.rx = IF p.trans[t].in = 0 THEN p.trans[t].out ELSE p.trans[t].in,
           !.tx = IF p.trans[t].out = 0 THEN p.trans[t].in ELSE p.trans[t].out,
           !.rxExtra = @ \/ (p.trans[t].in > 0 /\ p.trans[t].out > p.trans[t].in),
           !.txExtra = @ \/ (p.trans[t].out > 0 /\ p.trans[t].in > p.trans[t].out),
           !.sent = 0, !.got = 0]
      /\ r.trans = [p.trans EXCEPT ![t].status = "Running"]
  BY <1>2 DEF Start
<1>5. /\ r.spi.ring = p.spi.ring /\ r.spi.insert = p.spi.insert /\ r.spi.extract = p.spi.extract
      /\ r.spi.running = TRUE /\ r.spi.suspend = NoSlave
      /\ r.spi.select = IF Select[t] \in {"SPISelectUnselect", "SPISelect"}
                          THEN p.spi.select \cup {SlaveOf[t]} ELSE p.spi.select
  BY <1>1, <1>4 DEF SpiType
<1>6. \A u \in Drivers :
        /\ r.trans[u].status = IF u = t THEN "Running" ELSE p.trans[u].status
        /\ r.trans[u].out = p.trans[u].out /\ r.trans[u].in = p.trans[u].in
  BY <1>1, <1>3, <1>4, DriversAre DEF TransType
<1> HIDE DEF r
<1>7. QueueOf(r.spi) = q
  BY <1>5, QueueSame DEF q
<1>8. r.spi.select = {SlaveOf[t]}
  <2>1. CASE t = "max1168_read"
    BY <1>5, <2>1 DEF Wired, q
  <2>2. CASE t # "max1168_read"
    <3>1. p.spi.select = {}
      BY <2>2 DEF q
    <3>2. Select[t] \in {"SPISelectUnselect", "SPISelect"}
      BY <1>3, <2>2 DEF Wired, Drivers
    <3> QED
      BY <1>5, <3>1, <3>2
  <2> QED
    BY <2>1, <2>2
<1>9. FifoOK(q, r.spi)
  BY <1>5, <1>8, DriversAre DEF FifoOK, q
<1>10. \A u \in Drivers :
         /\ p.trans[u].status \in Busy <=> \E i \in 1 .. Len(q) : q[i] = u
         /\ p.trans[u].status # "Running"
  BY DEF StatusOK, q
<1>11. p.trans[t].status \in Busy
  BY <1>2, <1>3, <1>10
<1>12. StatusOK(q, TRUE, r.trans)
  BY <1>2, <1>6, <1>10, <1>11 DEF StatusOK, Busy
<1>13. Kept(p, r, Drivers)
  BY <1>6, <1>11 DEF Kept, Busy
<1> QED
  BY <1>5, <1>7, <1>9, <1>12, <1>13 DEF BusOK, q, r

(* Five transactions, each in the ring at most once, leave room in it.     *)
LEMMA RoomLeft ==
  ASSUME Wired, NEW s \in SpiType, NEW open, OrderOK(QueueOf(s), open),
         NEW t \in Drivers, \A i \in 1 .. Len(QueueOf(s)) : QueueOf(s)[i] # t
  PROVE  After(s.insert) # s.extract
<1> DEFINE q == QueueOf(s)
           n == Len(q)
<1>1. n = WaitingOf(s) /\ WaitingOf(s) \in Nat
  BY QueueIs, WaitingIs
<1>2. After(s.insert) = s.extract => WaitingOf(s) + 1 = SPI_TRANSACTION_QUEUE_LEN
  BY WaitingIs, AfterIs, SlotsAre DEF SpiType
<1>3. \A i \in 1 .. n : q[i] \in Drivers \ {t}
  BY DEF OrderOK
<1>4. \A i, j \in 1 .. n : q[i] = q[j] => i = j
  BY DEF OrderOK
<1> HIDE DEF q
<1>5. n < 5
  <2> SUFFICES ASSUME n >= 5
               PROVE  FALSE
    BY <1>1
  <2>1. 1 \in 1 .. n /\ 2 \in 1 .. n /\ 3 \in 1 .. n /\ 4 \in 1 .. n /\ 5 \in 1 .. n
    BY <1>1
  <2>2. /\ q[1] \in Drivers \ {t} /\ q[2] \in Drivers \ {t} /\ q[3] \in Drivers \ {t}
        /\ q[4] \in Drivers \ {t} /\ q[5] \in Drivers \ {t}
    BY <1>3, <2>1
  <2>3. /\ q[1] # q[2] /\ q[1] # q[3] /\ q[1] # q[4] /\ q[1] # q[5]
        /\ q[2] # q[3] /\ q[2] # q[4] /\ q[2] # q[5]
        /\ q[3] # q[4] /\ q[3] # q[5] /\ q[4] # q[5]
    BY <1>4, <2>1
  <2> QED
    BY <2>2, <2>3 DEF Drivers
<1> QED
  BY <1>1, <1>2, <1>5, SlotsAre DEF Wired

(* A transaction is appended; the reading of the ADC comes right behind    *)
(* its request, or first in a fifo that the request has locked.            *)
LEMMA OrderAppend ==
  ASSUME InTime, NEW q \in Seq(Transactions \cup {NoTransaction}), NEW open \in BOOLEAN,
         OrderOK(q, open), NEW t \in Drivers, \A i \in 1 .. Len(q) : q[i] # t,
         open => t = "max1168_read",
         t = "max1168_read" => q = <<>> \/ (open /\ \E i \in 1 .. Len(q) : q[i] = "max1168_req")
  PROVE  OrderOK(Append(q, t), t = "max1168_req")
<1> DEFINE r == Append(q, t)
           n == Len(q)
<1>1. t \in Transactions
  BY DriversAre
<1>2. /\ n \in Nat /\ Len(r) = n + 1
      /\ \A i \in 1 .. n : r[i] = q[i]
      /\ r[n + 1] = t
  BY <1>1, AppendProperties, LenProperties
<1> HIDE DEF r
<1>3. \A i \in 1 .. n + 1 : i \in 1 .. n \/ i = n + 1
  BY <1>2
<1>4. \A i \in 1 .. Len(r) : r[i] \in Drivers
  BY <1>2, <1>3 DEF OrderOK
<1>5. \A i, j \in 1 .. Len(r) : r[i] = r[j] => i = j
  BY <1>2, <1>3 DEF OrderOK
<1>6. ASSUME NEW i \in 1 .. Len(r), r[i] = "max1168_read", i > 1
      PROVE  r[i - 1] = "max1168_req"
  <2>1. CASE i \in 1 .. n
    BY <1>2, <1>6, <2>1 DEF OrderOK
  <2>2. CASE i = n + 1
    <3>1. t = "max1168_read" /\ q # <<>>
      BY <1>2, <1>6, <2>2, EmptySeq
    <3>2. PICK k \in 1 .. n : q[k] = "max1168_req"
      BY <3>1
    <3>3. k = n
      BY <1>2, <3>1, <3>2 DEF OrderOK
    <3> QED
      BY <1>2, <2>2, <3>2, <3>3
  <2> QED
    BY <1>2, <1>3, <2>1, <2>2
<1>7. ASSUME NEW i \in 1 .. Len(r), r[i] = "max1168_req"
      PROVE  IF i = Len(r) THEN t = "max1168_req" ELSE r[i + 1] = "max1168_read"
  <2>1. CASE i \in 1 .. n /\ i # n
    BY <1>2, <1>7, <2>1 DEF OrderOK
  <2>2. CASE i \in 1 .. n /\ i = n
    BY <1>2, <1>7, <2>2 DEF OrderOK
  <2>3. CASE i = n + 1
    BY <1>2, <1>7, <2>3
  <2> QED
    BY <1>2, <1>3, <2>1, <2>2, <2>3
<1> QED
  BY <1>4, <1>5, <1>6, <1>7 DEF OrderOK, r

LEMMA BusFrame ==
  ASSUME NEW p, NEW r, NEW open, BusOK(p, open),
         r.spi.ring = p.spi.ring, r.spi.insert = p.spi.insert, r.spi.extract = p.spi.extract,
         r.spi.running = p.spi.running, r.spi.suspend = p.spi.suspend,
         r.spi.select = p.spi.select,
         \A u \in Drivers : \/ r.trans[u].status = p.trans[u].status
                            \/ r.trans[u].status \notin Busy /\ p.trans[u].status \notin Busy
  PROVE  BusOK(r, open) /\ QueueOf(r.spi) = QueueOf(p.spi)
<1>1. QueueOf(r.spi) = QueueOf(p.spi)
  BY QueueSame
<1>2. FifoOK(QueueOf(p.spi), r.spi)
  BY DEF BusOK, FifoOK
<1>3. StatusOK(QueueOf(p.spi), p.spi.running, r.trans)
  BY DEF BusOK, StatusOK, Busy
<1> QED
  BY <1>1, <1>2, <1>3 DEF BusOK

LEMMA BusSubmit ==
  ASSUME InTime, Wired, NEW p, NEW w, PInv(p, w), NEW open \in BOOLEAN, BusOK(p, open),
         NEW t \in Drivers, p.trans[t].status \notin Busy,
         ~ (p.trans[t].out = 0 /\ p.trans[t].in = 0),
         open => t = "max1168_read",
         t = "max1168_read" =>
           \/ QueueOf(p.spi) = <<>> /\ p.spi.suspend = ADC
           \/ open /\ p.trans["max1168_req"].status \in Busy,
         p.spi.suspend = ADC => t = "max1168_read" \/ QueueOf(p.spi) # <<>>
  PROVE  LET r == Submit(t, p) IN
         /\ BusOK(r, t = "max1168_req")
         /\ Kept(p, r, Drivers \ {t})
         /\ r.trans[t].status \in Busy
         /\ r.trans[t].out = p.trans[t].out /\ r.trans[t].in = p.trans[t].in
         /\ QueueOf(r.spi) = Append(QueueOf(p.spi), t)
         /\ r.spi.suspend = p.spi.suspend
         /\ r.spi.running <=> p.spi.running \/ p.spi.suspend = NoSlave
<1> DEFINE q == QueueOf(p.spi)
           r == Submit(t, p)
           e == [p EXCEPT !.trans[t].status = "Pending",
                          !.spi.ring[p.spi.insert] = t, !.spi.insert = After(p.spi.insert)]
           S == Transactions \cup {NoTransaction}
           ready == ~ p.spi.running /\ p.spi.suspend = NoSlave
<1>1. t \in Transactions /\ p.spi \in SpiType
      /\ p.trans[t].out \in Nat /\ p.trans[t].in \in Nat
  BY DriversAre DEF PInv, TypeOf, TransType
<1>2. q \in Seq(S) /\ Len(q) \in Nat
  BY <1>1, QueueIs, WaitingIs
<1>3. \A i \in 1 .. Len(q) : q[i] # t
  BY DEF BusOK, StatusOK
<1>4. After(p.spi.insert) # p.spi.extract
  BY <1>1, <1>3, RoomLeft DEF BusOK
<1>5. r = StartIf(ready, e)
  BY <1>4 DEF Submit
<1>6. t = "other" => p.trans[t].status \notin {"Pending", "Running"}
  BY DEF Busy
<1>7. /\ PInv(e, w)
      /\ e.spi.running = p.spi.running /\ e.spi.suspend = p.spi.suspend
      /\ e.spi.ring = [p.spi.ring EXCEPT ![p.spi.insert] = t]
      /\ e.spi.insert = After(p.spi.insert) /\ e.spi.extract = p.spi.extract
      /\ e.spi.select = p.spi.select
      /\ \A u \in Transactions :
           /\ e.trans[u].out = p.trans[u].out /\ e.trans[u].in = p.trans[u].in
           /\ e.trans[u].status = IF u = t THEN "Pending" ELSE p.trans[u].status
  <2>1. p.trans[t].out + p.trans[t].in > 0
    BY <1>1
  <2> QED
    BY <1>1, <1>4, <1>6, <2>1, EnqueueOK
<1> HIDE DEF e, r
<1>8. e.spi \in SpiType /\ TypeOf(e)
  BY <1>7 DEF PInv, TypeOf
<1>9. QueueOf(e.spi) = Append(q, t)
  BY <1>1, <1>4, <1>7, <1>8, QueueAppend
<1>10. /\ Append(q, t) # <<>> /\ Len(Append(q, t)) = Len(q) + 1
       /\ \A i \in 1 .. Len(q) : Append(q, t)[i] = q[i]
       /\ Append(q, t)[Len(q) + 1] = t
       /\ q # <<>> => Len(q) > 0
       /\ q = <<>> => Append(q, t)[1] = t
  BY <1>1, <1>2, AppendProperties, EmptySeq
<1>11. OrderOK(Append(q, t), t = "max1168_req")
  <2>1. p.trans["max1168_req"].status \in Busy =>
          \E i \in 1 .. Len(q) : q[i] = "max1168_req"
    BY DEF BusOK, StatusOK, Drivers
  <2>2. t = "max1168_read" => q = <<>> \/ (open /\ \E i \in 1 .. Len(q) : q[i] = "max1168_req")
    BY <2>1
  <2>3. OrderOK(q, open)
    BY DEF BusOK
  <2> QED
    BY <1>2, <1>3, <2>2, <2>3, OrderAppend
<1>12. Kept(p, e, Drivers \ {t}) /\ e.trans[t].status = "Pending"
  BY <1>1, <1>7, DriversAre DEF Kept
<1>13. FifoOK(q, p.spi) /\ StatusOK(q, p.spi.running, p.trans)
  BY DEF BusOK
<1>14. ASSUME p.spi.running => q # <<>>
       PROVE  StatusOK(Append(q, t), p.spi.running, e.trans)
  <2> SUFFICES ASSUME NEW u \in Drivers
               PROVE  /\ e.trans[u].status \in Busy <=>
                           \E i \in 1 .. Len(Append(q, t)) : Append(q, t)[i] = u
                      /\ e.trans[u].status = "Running" <=> p.spi.running /\ Append(q, t)[1] = u
    BY DEF StatusOK
  <2>1. /\ p.trans[u].status \in Busy <=> \E i \in 1 .. Len(q) : q[i] = u
        /\ p.trans[u].status = "Running" <=> p.spi.running /\ q[1] = u
    BY <1>13 DEF StatusOK
  <2>2. CASE u = t
    BY <1>2, <1>3, <1>10, <1>14, <2>2, <1>12 DEF Busy
  <2>3. CASE u # t
    <3>1. e.trans[u].status = p.trans[u].status
      BY <1>7, <2>3, DriversAre
    <3>2. (\E i \in 1 .. Len(Append(q, t)) : Append(q, t)[i] = u) <=>
             \E i \in 1 .. Len(q) : q[i] = u
      BY <1>2, <1>10, <2>3
    <3>3. p.spi.running => Append(q, t)[1] = q[1]
      BY <1>2, <1>10, <1>14
    <3> QED
      BY <2>1, <3>1, <3>2, <3>3
  <2> QED
    BY <2>2, <2>3
<1>15. p.spi.running => q # <<>>
  BY <1>13 DEF FifoOK
<1> DEFINE Goal ==
         /\ BusOK(r, t = "max1168_req")
         /\ Kept(p, r, Drivers \ {t})
         /\ r.trans[t].status \in Busy
         /\ r.trans[t].out = p.trans[t].out /\ r.trans[t].in = p.trans[t].in
         /\ QueueOf(r.spi) = Append(QueueOf(p.spi), t)
         /\ r.spi.suspend = p.spi.suspend
         /\ r.spi.running <=> p.spi.running \/ p.spi.suspend = NoSlave
<1> SUFFICES Goal
  BY DEF r
<1> HIDE DEF Goal
<1>16. CASE ready
  <2>1. r = Start(e) /\ q = <<>> /\ t # "max1168_read" /\ p.spi.select = {}
        /\ ~ p.spi.running /\ p.spi.suspend = NoSlave
    <3>1. q = <<>> /\ p.spi.select = {}
      BY <1>13, <1>16, DriversAre DEF FifoOK
    <3>2. \A i \in 1 .. Len(q) : FALSE
      BY <3>1, EmptySeq
    <3>3. t # "max1168_read"
      BY <1>13, <1>16, <3>2, DriversAre DEF StatusOK, Drivers
    <3> QED
      BY <1>5, <1>16, <3>1, <3>3 DEF StartIf
  <2>2. StatusOK(Append(q, t), FALSE, e.trans)
    BY <1>14, <1>15, <2>1 DEF StatusOK
  <2>3. e.spi.select = IF QueueOf(e.spi)[1] = "max1168_read" THEN {ADC} ELSE {}
    BY <1>7, <1>9, <1>10, <2>1
  <2>4. /\ BusOK(r, t = "max1168_req") /\ Kept(e, r, Drivers)
        /\ QueueOf(r.spi) = QueueOf(e.spi)
        /\ r.spi.suspend = NoSlave /\ r.spi.running
    BY <1>7, <1>8, <1>9, <1>10, <1>11, <2>1, <2>2, <2>3, BusStart
  <2>5. Kept(p, r, Drivers \ {t}) /\ r.trans[t].status \in Busy
        /\ r.trans[t].out = p.trans[t].out /\ r.trans[t].in = p.trans[t].in
    BY <1>1, <1>7, <1>12, <2>4 DEF Kept, Busy
  <2> QED
    BY <1>9, <2>1, <2>4, <2>5 DEF q, Goal
<1>17. CASE ~ ready
  <2>1. r = e
    BY <1>5, <1>17 DEF StartIf
  <2>2. p.spi.running \/ p.spi.suspend = ADC
    BY <1>13, <1>17 DEF FifoOK
  <2>3. FifoOK(Append(q, t), e.spi)
    <3>1. CASE p.spi.running
      <4>1. q # <<>> /\ Append(q, t)[1] = q[1] /\ p.spi.suspend = NoSlave
        BY <1>2, <1>10, <1>13, <3>1 DEF FifoOK
      <4> QED
        BY <1>7, <1>10, <1>13, <3>1, <4>1, DriversAre DEF FifoOK
    <3>2. CASE ~ p.spi.running
      <4>1. p.spi.suspend = ADC
        BY <2>2, <3>2
      <4>2. Append(q, t)[1] = "max1168_read"
        <5>1. CASE q = <<>>
          BY <1>10, <4>1, <5>1 DEF q
        <5>2. CASE q # <<>>
          BY <1>2, <1>10, <1>13, <4>1, <5>2 DEF FifoOK
        <5> QED
          BY <5>1, <5>2
      <4> QED
        BY <1>7, <1>13, <3>2, <4>1, <4>2, DriversAre DEF FifoOK
    <3> QED
      BY <3>1, <3>2
  <2>4. StatusOK(Append(q, t), e.spi.running, e.trans)
    BY <1>7, <1>14, <1>15
  <2>5. BusOK(r, t = "max1168_req")
    BY <1>9, <1>11, <2>1, <2>3, <2>4 DEF BusOK
  <2>6. p.spi.suspend = ADC => ~ p.spi.running /\ p.spi.suspend # NoSlave
    BY <1>13, DriversAre DEF FifoOK
  <2> QED
    BY <1>1, <1>7, <1>9, <1>12, <1>17, <2>1, <2>2, <2>5, <2>6 DEF Busy, q, Goal
<1> QED
  BY <1>16, <1>17

LEMMA OrderTail ==
  ASSUME NEW S, NEW q \in Seq(S), q # <<>>, NEW open, OrderOK(q, open)
  PROVE  /\ OrderOK(Tail(q), open)
         /\ \A u : (\E i \in 1 .. Len(Tail(q)) : Tail(q)[i] = u) <=>
                     u # q[1] /\ \E i \in 1 .. Len(q) : q[i] = u
         /\ Tail(q) # <<>> => (q[1] = "max1168_req" <=> Tail(q)[1] = "max1168_read")
<1> DEFINE r == Tail(q)
           n == Len(q)
<1>1. /\ n \in Nat \ {0} /\ Len(r) = n - 1 /\ r \in Seq(S)
      /\ \A i \in 1 .. n - 1 : r[i] = q[i + 1]
  BY EmptySeq, HeadTailProperties
<1>2. r # <<>> => n > 1
  BY <1>1, EmptySeq
<1> HIDE DEF r
<1>3. \A i \in 1 .. n : q[i] \in Drivers
  BY DEF OrderOK
<1>4. \A i, j \in 1 .. n : q[i] = q[j] => i = j
  BY DEF OrderOK
<1>5. \A i \in 1 .. n : q[i] = "max1168_read" /\ i > 1 => q[i - 1] = "max1168_req"
  BY DEF OrderOK
<1>6. \A i \in 1 .. n : q[i] = "max1168_req" =>
        IF i = n THEN open ELSE q[i + 1] = "max1168_read"
  BY DEF OrderOK
<1>7. \A i \in 1 .. n - 1 : i + 1 \in 1 .. n
  BY <1>1
<1>8. \A i \in 1 .. Len(r) : r[i] \in Drivers
  BY <1>1, <1>3, <1>7
<1>9. \A i, j \in 1 .. Len(r) : r[i] = r[j] => i = j
  BY <1>1, <1>4, <1>7
<1>10. ASSUME NEW i \in 1 .. Len(r), r[i] = "max1168_read", i > 1
       PROVE  r[i - 1] = "max1168_req"
  <2>1. q[i + 1] = "max1168_read" /\ i + 1 \in 1 .. n /\ i + 1 > 1
    BY <1>1, <1>7, <1>10
  <2>2. q[(i + 1) - 1] = "max1168_req"
    BY <1>5, <2>1
  <2> QED
    BY <1>1, <1>10, <2>2
<1>11. ASSUME NEW i \in 1 .. Len(r), r[i] = "max1168_req"
       PROVE  IF i = Len(r) THEN open ELSE r[i + 1] = "max1168_read"
  <2>1. q[i + 1] = "max1168_req" /\ i + 1 \in 1 .. n
    BY <1>1, <1>7, <1>11
  <2>2. IF i + 1 = n THEN open ELSE q[(i + 1) + 1] = "max1168_read"
    BY <1>6, <2>1
  <2> QED
    BY <1>1, <2>2
<1>12. OrderOK(r, open)
  BY <1>8, <1>9, <1>10, <1>11 DEF OrderOK
<1>13. ASSUME NEW u
       PROVE  (\E i \in 1 .. Len(r) : r[i] = u) <=> u # q[1] /\ \E i \in 1 .. n : q[i] = u
  <2>1. ASSUME NEW i \in 1 .. Len(r), r[i] = u
        PROVE  u # q[1] /\ \E j \in 1 .. n : q[j] = u
    BY <1>1, <1>4, <1>7, <2>1
  <2>2. ASSUME u # q[1], NEW i \in 1 .. n, q[i] = u
        PROVE  \E j \in 1 .. Len(r) : r[j] = u
    <3>1. i # 1 /\ i - 1 \in 1 .. Len(r) /\ (i - 1) + 1 = i
      BY <1>1, <2>2
    <3>2. r[i - 1] = u
      BY <1>1, <2>2, <3>1
    <3> QED
      BY <3>1, <3>2
  <2> QED
    BY <2>1, <2>2
<1>14. ASSUME r # <<>>
       PROVE  q[1] = "max1168_req" <=> r[1] = "max1168_read"
  <2>1. n > 1 /\ 1 \in 1 .. n /\ 2 \in 1 .. n /\ r[1] = q[2] /\ 1 # n
    BY <1>1, <1>2, <1>14
  <2>2. q[1] = "max1168_req" => q[1 + 1] = "max1168_read"
    BY <1>6, <2>1
  <2>3. q[2] = "max1168_read" => q[2 - 1] = "max1168_req"
    BY <1>5, <2>1
  <2> QED
    BY <2>1, <2>2, <2>3
<1> QED
  BY <1>12, <1>13, <1>14 DEF r

(* The fifo is resumed for the reading behind the request that locked it.  *)
LEMMA BusResume ==
  ASSUME InTime, Wired, NEW p, TypeOf(p), NEW open, BusOK(p, open),
         p.spi.suspend = ADC, p.trans["max1168_read"].status \in Busy
  PROVE  LET r == Resume(ADC, p) IN
         /\ BusOK(r, open) /\ Kept(p, r, Drivers)
         /\ QueueOf(r.spi) = QueueOf(p.spi) /\ QueueOf(p.spi) # <<>>
         /\ r.spi.suspend = NoSlave /\ r.spi.running
<1> DEFINE q == QueueOf(p.spi)
           e == [p EXCEPT !.spi.suspend = NoSlave]
<1>1. e.spi = [p.spi EXCEPT !.suspend = NoSlave] /\ e.trans = p.trans
  BY DEF TypeOf
<1>2. p.spi \in SpiType /\ TypeOf(e)
  BY <1>1 DEF TypeOf, SpiType
<1>3. /\ e.spi.ring = p.spi.ring /\ e.spi.insert = p.spi.insert /\ e.spi.extract = p.spi.extract
      /\ e.spi.suspend = NoSlave /\ e.spi.select = p.spi.select
  BY <1>1, <1>2 DEF SpiType
<1>4. FifoOK(q, p.spi) /\ OrderOK(q, open) /\ StatusOK(q, p.spi.running, p.trans)
  BY DEF BusOK
<1>5. ~ p.spi.running /\ p.spi.select = {ADC}
  BY <1>4, DriversAre DEF FifoOK
<1>6. q # <<>>
  <2>1. \E i \in 1 .. Len(q) : q[i] = "max1168_read"
    BY <1>4 DEF StatusOK, Drivers
  <2> QED
    BY <2>1, EmptySeq
<1>7. q[1] = "max1168_read" /\ p.spi.insert # p.spi.extract
  BY <1>2, <1>4, <1>6, QueueIs DEF FifoOK
<1>8. Resume(ADC, p) = Start(e)
  BY <1>5, <1>7 DEF Resume, StartIf, Empty
<1> HIDE DEF e
<1>9. QueueOf(e.spi) = q
  BY <1>3, QueueSame
<1>10. StatusOK(q, FALSE, e.trans)
  BY <1>1, <1>4, <1>5 DEF StatusOK
<1>11. /\ BusOK(Start(e), open) /\ Kept(e, Start(e), Drivers)
       /\ QueueOf(Start(e).spi) = QueueOf(e.spi)
       /\ Start(e).spi.suspend = NoSlave /\ Start(e).spi.running
  BY <1>2, <1>3, <1>4, <1>5, <1>6, <1>7, <1>9, <1>10, BusStart
<1> QED
  BY <1>1, <1>6, <1>8, <1>9, <1>11 DEF Kept

(* The end of a transaction: the request locks the fifo with the ADC       *)
(* selected; after any other the next one starts.                          *)
LEMMA BusEnd ==
  ASSUME InTime, Wired, PInv(Now, irq), NEW open, BusOK(Now, open), RxEnd
  PROVE  LET t == QueueOf(spi)[1] IN
         /\ BusOK(Now', open)
         /\ spi.running /\ spi.suspend = NoSlave
         /\ t \in Drivers /\ QueueOf(spi) # <<>> /\ QueueOf(spi') = Tail(QueueOf(spi))
         /\ spi'.suspend = IF t = "max1168_req" THEN ADC ELSE NoSlave
         /\ trans[t].status = "Running" /\ trans'[t].status = "Success"
         /\ trans'[t].out = trans[t].out /\ trans'[t].in = trans[t].in
         /\ Kept(Now, Now', Drivers \ {t})
<1> DEFINE q == QueueOf(spi)
           t == Current(spi)
           locked == IF t \in LockAfter THEN Lock(SlaveOf[t], spi) ELSE spi
           freed == IF Select[t] \in {"SPISelectUnselect", "SPIUnselect"}
                      THEN Unselect(SlaveOf[t], locked) ELSE locked
           done == [trans EXCEPT ![t].status = "Success"]
           p == [spi |-> freed, trans |-> done]
           e == [p EXCEPT !.spi.ring[p.spi.extract] = NoTransaction,
                          !.spi.extract = After(@), !.spi.running = FALSE]
           ready == ~ Empty(e.spi) /\ e.spi.suspend = NoSlave
<1>1. spi \in SpiType /\ trans \in [Transactions -> TransType] /\ "rx" \in irq /\ ~ spi.rxExtra
  BY NowIs DEF PInv, TypeOf, RxEnd
<1>2. spi.running /\ spi.insert # spi.extract
  BY <1>1, NowIs DEF PInv, WordsOK, Quiet, RingOK
<1>3. FifoOK(q, spi) /\ OrderOK(q, open) /\ StatusOK(q, TRUE, trans)
  BY <1>2, NowIs DEF BusOK, StatusOK
<1>4. /\ q # <<>> /\ spi.suspend = NoSlave /\ q[1] = t /\ spi.select = {SlaveOf[t]}
      /\ q \in Seq(Transactions \cup {NoTransaction})
  BY <1>1, <1>2, <1>3, QueueIs DEF FifoOK
<1>5. t \in Drivers /\ t \in Transactions
  <2>1. Len(q) \in Nat \ {0}
    BY <1>4, EmptySeq
  <2> QED
    BY <1>3, <1>4, <2>1, DriversAre DEF OrderOK
<1> HIDE DEF t
<1>6. Now' = NextTransaction(p)
  <2>1. spi' = NextTransaction(p).spi /\ trans' = NextTransaction(p).trans
    BY DEF RxEnd, Finished, Now, t
  <2>2. PInv(Now, irq)'
    BY RxEndOK
  <2>3. NextTransaction(p) = [spi |-> NextTransaction(p).spi, trans |-> NextTransaction(p).trans]
    BY DEF NextTransaction, StartIf, Start
  <2> QED
    BY <2>1, <2>3 DEF Now
<1>7. /\ locked \in SpiType /\ locked.ring = spi.ring
      /\ locked.insert = spi.insert /\ locked.extract = spi.extract
      /\ locked.suspend = IF t = "max1168_req" THEN ADC ELSE NoSlave
      /\ locked.select = spi.select
  <2>1. CASE t = "max1168_req"
    BY <1>1, <1>4, <2>1, DriversAre DEF Wired, Lock, SpiType, ADC
  <2>2. CASE t # "max1168_req"
    BY <1>1, <1>4, <2>2 DEF Wired
  <2> QED
    BY <2>1, <2>2
<1> HIDE DEF locked
<1>8. /\ freed \in SpiType /\ freed.ring = spi.ring
      /\ freed.insert = spi.insert /\ freed.extract = spi.extract
      /\ freed.suspend = locked.suspend
      /\ freed.select = IF t = "max1168_req" THEN {ADC} ELSE {}
  <2>1. CASE t = "max1168_req"
    BY <1>4, <1>7, <2>1 DEF Wired, ADC
  <2>2. CASE t # "max1168_req"
    <3>1. Select[t] \in {"SPISelectUnselect", "SPIUnselect"}
      BY <1>5, <2>2 DEF Wired, Drivers
    <3>2. freed = [locked EXCEPT !.select = @ \ {SlaveOf[t]}]
      BY <3>1 DEF Unselect
    <3> QED
      BY <1>4, <1>7, <2>2, <3>2 DEF SpiType
  <2> QED
    BY <2>1, <2>2
<1> HIDE DEF freed
<1>9. done \in [Transactions -> TransType]
      /\ \A u \in Transactions :
           /\ done[u].out = trans[u].out /\ done[u].in = trans[u].in
           /\ done[u].status = IF u = t THEN "Success" ELSE trans[u].status
  BY <1>1, <1>5 DEF TransType
<1> HIDE DEF done
<1>10. p.spi = freed /\ p.trans = done
  OBVIOUS
<1>11. /\ e.spi = [freed EXCEPT !.ring = [@ EXCEPT ![spi.extract] = NoTransaction],
                                !.extract = After(spi.extract), !.running = FALSE]
       /\ e.trans = done
  BY <1>8 DEF SpiType
<1>12. NextTransaction(p) = StartIf(ready, e)
  BY DEF NextTransaction
<1> HIDE DEF e, p
<1>13. /\ e.spi \in SpiType /\ e.spi.ring = [spi.ring EXCEPT ![spi.extract] = NoTransaction]
       /\ e.spi.insert = spi.insert /\ e.spi.extract = After(spi.extract)
       /\ e.spi.running = FALSE
       /\ e.spi.suspend = (IF t = "max1168_req" THEN ADC ELSE NoSlave)
       /\ e.spi.select = IF t = "max1168_req" THEN {ADC} ELSE {}
  <2>1. After(spi.extract) \in Slots /\ spi.extract \in Slots
    BY <1>1, AfterIs DEF SpiType
  <2> DEFINE ring == [spi.ring EXCEPT ![spi.extract] = NoTransaction]
  <2>2. ring \in [Slots -> Transactions \cup {NoTransaction}]
    BY <1>1, <2>1 DEF SpiType
  <2>3. e.spi = [freed EXCEPT !.ring = ring, !.extract = After(spi.extract), !.running = FALSE]
    BY <1>8, <1>11 DEF SpiType
  <2> HIDE DEF ring
  <2>4. /\ e.spi \in SpiType /\ e.spi.ring = ring
        /\ e.spi.insert = spi.insert /\ e.spi.extract = After(spi.extract)
        /\ e.spi.running = FALSE
        /\ e.spi.suspend = freed.suspend /\ e.spi.select = freed.select
    BY <1>8, <2>1, <2>2, <2>3 DEF SpiType
  <2> QED
    BY <1>7, <1>8, <2>4 DEF ring
<1>14. QueueOf(e.spi) = Tail(q)
  BY <1>1, <1>2, <1>13, QueueTail
<1>15. /\ OrderOK(Tail(q), open)
       /\ \A u : (\E i \in 1 .. Len(Tail(q)) : Tail(q)[i] = u) <=>
                   u # t /\ \E i \in 1 .. Len(q) : q[i] = u
       /\ Tail(q) # <<>> => (t = "max1168_req" <=> Tail(q)[1] = "max1168_read")
  BY <1>3, <1>4, OrderTail
<1> HIDE DEF q
<1>16. StatusOK(Tail(q), FALSE, e.trans)
  <2> SUFFICES ASSUME NEW u \in Drivers
               PROVE  /\ e.trans[u].status \in Busy <=>
                           \E i \in 1 .. Len(Tail(q)) : Tail(q)[i] = u
                      /\ e.trans[u].status # "Running"
    BY DEF StatusOK
  <2>1. e.trans[u].status = IF u = t THEN "Success" ELSE trans[u].status
    BY <1>9, <1>11, DriversAre
  <2>2. /\ trans[u].status \in Busy <=> \E i \in 1 .. Len(q) : q[i] = u
        /\ trans[u].status = "Running" => t = u
    BY <1>3, <1>4 DEF StatusOK
  <2> QED
    BY <1>15, <2>1, <2>2 DEF Busy
<1>17. Empty(e.spi) <=> Tail(q) = <<>>
  BY <1>13, <1>14, QueueIs DEF Empty
<1>18. /\ e.trans[t].status = "Success"
       /\ e.trans[t].out = trans[t].out /\ e.trans[t].in = trans[t].in
       /\ Kept(Now, e, Drivers \ {t})
  BY <1>5, <1>9, <1>11, NowIs, DriversAre DEF Kept
<1>19. trans[t].status = "Running"
  BY <1>3, <1>4, <1>5 DEF StatusOK
<1>20. CASE ready
  <2>1. t # "max1168_req" /\ Tail(q) # <<>> /\ Now' = Start(e) /\ e.spi.select = {}
        /\ Tail(q)[1] # "max1168_read"
    BY <1>6, <1>12, <1>13, <1>15, <1>17, <1>20, DriversAre DEF StartIf
  <2>2. TypeOf(e)
    BY <1>9, <1>11, <1>13, <1>12 DEF TypeOf, e, p
  <2>3. /\ BusOK(Start(e), open) /\ Kept(e, Start(e), Drivers)
        /\ QueueOf(Start(e).spi) = Tail(q)
        /\ Start(e).spi.suspend = NoSlave
    <3>1. /\ QueueOf(e.spi) # <<>> /\ OrderOK(QueueOf(e.spi), open)
          /\ StatusOK(QueueOf(e.spi), FALSE, e.trans) /\ e.spi.suspend = NoSlave
          /\ e.spi.select = IF QueueOf(e.spi)[1] = "max1168_read" THEN {ADC} ELSE {}
      BY <1>13, <1>14, <1>15, <1>16, <2>1
    <3> QED
      BY <1>14, <2>2, <3>1, BusStart
  <2>4. Kept(Now, Now', Drivers \ {t}) /\ trans'[t].status = "Success"
        /\ trans'[t].out = trans[t].out /\ trans'[t].in = trans[t].in
    BY <1>5, <1>18, <2>1, <2>3, NowIs DEF Kept, Busy
  <2> QED
    BY <1>2, <1>4, <1>5, <1>19, <2>1, <2>3, <2>4, NowIs DEF q
<1>21. CASE ~ ready
  <2>1. Now' = e /\ (Tail(q) = <<>> \/ t = "max1168_req")
    BY <1>6, <1>12, <1>13, <1>17, <1>21 DEF StartIf
  <2>2. FifoOK(Tail(q), e.spi)
    BY <1>13, <1>15, <2>1, DriversAre DEF FifoOK
  <2>3. BusOK(e, open)
    BY <1>13, <1>14, <1>15, <1>16, <2>2 DEF BusOK
  <2> QED
    BY <1>2, <1>4, <1>5, <1>13, <1>14, <1>18, <1>19, <2>1, <2>3, NowIs DEF q
<1> QED
  BY <1>20, <1>21

-----------------------------------------------------------------------------
(* What a step does to the fifo: it keeps the invariant of the bus, leaves *)
(* alone the transactions that are not in D, leaves the lock as given, and *)
(* is a step of the abstract fifo or none.                                 *)
FifoStep == [Fifo!Next]_(Fifo!vars)

Did(D, lock) ==
  /\ BusOK(Now', at' = "max1168_read")
  /\ Kept(Now, Now', Drivers \ D)
  /\ LengthsOK(trans')
  /\ spi'.suspend = lock
  /\ FifoStep

LEMMA QueueIsOf ==
  Queue = QueueOf(spi) /\ Queue' = QueueOf(spi')
  BY DEF Queue, Waiting, QueueOf, WaitingOf

LEMMA StepIs ==
  ASSUME NEW p, TypeOf(p), NEW from, NEW to, Step(from, to, p)
  PROVE  /\ Now' = p /\ spi' = p.spi /\ trans' = p.trans
         /\ at = from /\ at' = to /\ irq' = irq /\ converting' = converting
  BY DEF Step, Now, TypeOf

(* What keeps the ring and the pins is no step of the fifo.                *)
LEMMA DidFrame ==
  ASSUME BInv, NEW D,
         spi'.ring = spi.ring, spi'.insert = spi.insert, spi'.extract = spi.extract,
         spi'.running = spi.running, spi'.suspend = spi.suspend, spi'.select = spi.select,
         \A u \in Drivers \ D : trans'[u].status = trans[u].status,
         \A u \in Drivers \cap D :
           trans'[u].status \notin Busy /\ trans[u].status \notin Busy,
         \A u \in Drivers : u # "other" \/ u \notin D =>
           trans'[u].out = trans[u].out /\ trans'[u].in = trans[u].in,
         at' = "max1168_read" <=> at = "max1168_read"
  PROVE  Did(D, spi.suspend)
<1>1. BusOK(Now, at = "max1168_read") /\ LengthsOK(trans)
  BY DEF BInv
<1>2. BusOK(Now', at = "max1168_read") /\ QueueOf(spi') = QueueOf(spi)
  <2>1. \A u \in Drivers : \/ Now'.trans[u].status = Now.trans[u].status
                           \/ Now'.trans[u].status \notin Busy /\ Now.trans[u].status \notin Busy
    BY NowIs
  <2>2. /\ Now'.spi.ring = Now.spi.ring /\ Now'.spi.insert = Now.spi.insert
        /\ Now'.spi.extract = Now.spi.extract /\ Now'.spi.running = Now.spi.running
        /\ Now'.spi.suspend = Now.spi.suspend /\ Now'.spi.select = Now.spi.select
    BY NowIs
  <2> QED
    BY <1>1, <2>1, <2>2, BusFrame, NowIs
<1>3. Kept(Now, Now', Drivers \ D)
  BY NowIs DEF Kept
<1>4. LengthsOK(trans')
  BY <1>1 DEF LengthsOK
<1>5. FifoStep
  BY <1>2, QueueIsOf DEF FifoStep, Fifo!vars
<1>6. (at' = "max1168_read") = (at = "max1168_read")
  OBVIOUS
<1> QED
  BY <1>2, <1>3, <1>4, <1>5, <1>6 DEF Did

LEMMA DidNothing ==
  ASSUME IInv, BInv, NEW from, NEW to, Step(from, to, Now),
         from # "max1168_read", to # "max1168_read"
  PROVE  Did({}, spi.suspend)
<1>1. Now' = Now /\ spi' = spi /\ trans' = trans /\ at = from /\ at' = to
  BY StepIs, NowIs DEF IInv, PInv
<1> QED
  BY <1>1, DidFrame

LEMMA DidMark ==
  ASSUME InTime, IInv, BInv, NEW from, NEW to, NEW t \in Drivers, Step(from, to, Mark(t, "Done")),
         trans[t].status \in {"Success", "Failed"},
         from # "max1168_read", to # "max1168_read"
  PROVE  Did({t}, spi.suspend) /\ trans'[t].status = "Done"
<1>1. t \in Transactions
  BY DriversAre
<1>2. spi \in SpiType /\ trans \in [Transactions -> TransType]
  BY NowIs DEF IInv, PInv, TypeOf
<1>3. Mark(t, "Done").spi = spi /\ Mark(t, "Done").trans = [trans EXCEPT ![t].status = "Done"]
  BY DEF Mark, Now
<1>4. at = from /\ at' = to /\ spi' = spi /\ trans' = [trans EXCEPT ![t].status = "Done"]
  BY <1>3 DEF Step
<1>5. \A u \in Transactions :
        /\ trans'[u].status = IF u = t THEN "Done" ELSE trans[u].status
        /\ trans'[u].out = trans[u].out /\ trans'[u].in = trans[u].in
  BY <1>2, <1>4 DEF TransType
<1>6. \A u \in Drivers \ {t} : trans'[u].status = trans[u].status
  BY <1>5, DriversAre
<1>7. \A u \in Drivers \cap {t} : trans'[u].status \notin Busy /\ trans[u].status \notin Busy
  BY <1>1, <1>5 DEF Busy
<1>8. \A u \in Drivers : trans'[u].out = trans[u].out /\ trans'[u].in = trans[u].in
  BY <1>5, DriversAre
<1>9. Did({t}, spi.suspend)
  BY <1>4, <1>6, <1>7, <1>8, DidFrame
<1> QED
  BY <1>1, <1>5, <1>9

(* Behind the lock of the ADC there is only its reading.                   *)
LEMMA LockIs ==
  ASSUME InTime, IInv, BInv, spi.suspend = ADC
  PROVE  IF at = "max1168_read" THEN QueueOf(spi) = <<>>
                                ELSE trans["max1168_read"].status \in Busy
<1>1. AdcPhase(at, max1168, trans["max1168_req"].status, trans["max1168_read"].status,
               "max1168_req" \in converting, TRUE)
  BY DEF BInv, AdcOK
<1>2. BusOK(Now, at = "max1168_read") /\ spi \in SpiType
  BY NowIs DEF BInv, IInv, PInv, TypeOf
<1>3. CASE at = "max1168_read"
  <2>1. trans["max1168_read"].status \notin Busy
    BY <1>1, <1>3 DEF AdcPhase, Busy
  <2>2. ASSUME QueueOf(spi) # <<>>
        PROVE  FALSE
    <3>1. QueueOf(spi)[1] = "max1168_read"
      BY <1>2, <2>2, NowIs DEF BusOK, FifoOK
    <3>2. Len(QueueOf(spi)) \in Nat \ {0}
      BY <1>2, <2>2, QueueIs, EmptySeq
    <3>3. 1 \in 1 .. Len(QueueOf(spi))
      BY <3>2
    <3> QED
      BY <1>2, <2>1, <3>1, <3>3, NowIs DEF BusOK, StatusOK, Drivers
  <2> QED
    BY <1>3, <2>2
<1>4. CASE at # "max1168_read"
  <2>1. max1168 \in DriverStates
    BY DEF IInv, Rest
  <2> QED
    BY <1>1, <1>4, <2>1 DEF AdcPhase, Busy, DriverStates
<1> QED
  BY <1>3, <1>4

(* A driver submits a transaction that is not in the ring.                 *)
LEMMA DidSubmit ==
  ASSUME InTime, Wired, IInv, BInv, NEW p, PInv(p, irq), p.spi = spi, LengthsOK(p.trans),
         NEW t \in Drivers, Kept(Now, p, Drivers \ {t}),
         \A u \in Drivers : p.trans[u].status = trans[u].status,
         trans[t].status \notin Busy, p.trans[t].out + p.trans[t].in > 0,
         NEW from, NEW to, Step(from, to, Submit(t, p)),
         from = "max1168_read" <=> t = "max1168_read",
         to = "max1168_read" <=> t = "max1168_req",
         t = "max1168_req" => spi.suspend # ADC
  PROVE  Did({t}, spi.suspend) /\ trans'[t].status \in Busy
<1> DEFINE open == at = "max1168_read"
           r == Submit(t, p)
<1>1. p.spi \in SpiType /\ p.trans \in [Transactions -> TransType] /\ spi \in SpiType
  BY NowIs DEF IInv, PInv, TypeOf
<1>2. TypeOf(r)
  <2>1. t = "other" => p.trans[t].status \notin {"Pending", "Running"}
    BY DEF Busy
  <2>2. PInv(r, irq)
    BY <2>1, SubmitOK, DriversAre
  <2> QED
    BY <2>2 DEF PInv
<1>3. Now' = r /\ spi' = r.spi /\ trans' = r.trans /\ at = from /\ at' = to
  BY <1>2, StepIs
<1>4. open \in BOOLEAN /\ BusOK(Now, open)
  BY DEF BInv
<1>5. BusOK(p, open)
  BY <1>4, NowIs, BusFrame
<1>6. ~ (p.trans[t].out = 0 /\ p.trans[t].in = 0)
  OBVIOUS
<1>7. t = "max1168_read" =>
        \/ QueueOf(p.spi) = <<>> /\ p.spi.suspend = ADC
        \/ open /\ p.trans["max1168_req"].status \in Busy
  <2> SUFFICES ASSUME t = "max1168_read"
               PROVE  \/ QueueOf(spi) = <<>> /\ spi.suspend = ADC
                      \/ open /\ trans["max1168_req"].status \in Busy
    BY DEF Drivers
  <2>1. at = "max1168_read"
    BY <1>3
  <2>2. AdcOK
    BY DEF BInv
  <2>3. trans["max1168_req"].status \in Busy
          \/ (trans["max1168_req"].status = "Success" /\ "max1168_req" \in converting)
    BY <2>1, <2>2 DEF AdcOK, AdcPhase
  <2>4. CASE trans["max1168_req"].status = "Success" /\ "max1168_req" \in converting
    <3>1. spi.suspend = ADC
      BY <2>2, <2>4 DEF AdcOK, AdcPhase, Busy
    <3> QED
      BY <2>1, <3>1, LockIs
  <2> QED
    BY <2>1, <2>3, <2>4
<1>8. p.spi.suspend = ADC => t = "max1168_read" \/ QueueOf(p.spi) # <<>>
  <2> SUFFICES ASSUME spi.suspend = ADC, t # "max1168_read"
               PROVE  QueueOf(spi) # <<>>
    OBVIOUS
  <2>1. trans["max1168_read"].status \in Busy
    BY <1>3, LockIs
  <2>2. \E i \in 1 .. Len(QueueOf(spi)) : QueueOf(spi)[i] = "max1168_read"
    BY <1>4, <2>1, NowIs DEF BusOK, StatusOK, Drivers
  <2> QED
    BY <2>2, EmptySeq
<1>9. open => t = "max1168_read"
  BY <1>3
<1>10. p.trans[t].status \notin Busy
  OBVIOUS
<1> HIDE DEF open
<1>11. /\ BusOK(r, t = "max1168_req")
       /\ Kept(p, r, Drivers \ {t})
       /\ r.trans[t].status \in Busy
       /\ r.trans[t].out = p.trans[t].out /\ r.trans[t].in = p.trans[t].in
       /\ QueueOf(r.spi) = Append(QueueOf(p.spi), t)
       /\ r.spi.suspend = p.spi.suspend
       /\ r.spi.running <=> p.spi.running \/ p.spi.suspend = NoSlave
  BY <1>4, <1>5, <1>6, <1>7, <1>8, <1>9, <1>10, BusSubmit
<1> HIDE DEF r
<1>12. BusOK(Now', at' = "max1168_read")
  <2>1. (at' = "max1168_read") = (t = "max1168_req")
    BY <1>3
  <2> QED
    BY <1>3, <1>11, <2>1
<1>13. Kept(Now, Now', Drivers \ {t})
  BY <1>3, <1>11 DEF Kept
<1>14. LengthsOK(trans')
  BY <1>3, <1>11 DEF LengthsOK, Kept
<1>15. FifoStep
  <2>1. /\ Queue' = Append(Queue, t)
        /\ spi'.suspend = spi.suspend
        /\ spi'.running <=> spi.running \/ spi.suspend = NoSlave
    BY <1>3, <1>11, QueueIsOf
  <2>2. \A i \in DOMAIN Queue : Queue[i] # t
    <3>1. DOMAIN Queue = 1 .. Len(QueueOf(spi))
      BY <1>1, QueueIs, QueueIsOf DEF QueueOf
    <3> QED
      BY <1>4, <3>1, NowIs, QueueIsOf DEF BusOK, StatusOK
  <2>3. spi'.running \in BOOLEAN /\ spi.running \in BOOLEAN
    BY <1>1, <1>2, <1>3 DEF TypeOf, SpiType
  <2>4. Fifo!Accept(t)
    BY <2>1, <2>2, <2>3 DEF Fifo!Accept
  <2>5. t \in Transactions
    BY DriversAre
  <2> QED
    BY <2>4, <2>5 DEF FifoStep, Fifo!Next
<1> QED
  BY <1>3, <1>11, <1>12, <1>13, <1>14, <1>15 DEF Did

(* The main loop resumes the fifo for the reading.                         *)
LEMMA DidResume ==
  ASSUME InTime, Wired, IInv, BInv, NEW from, NEW to, Step(from, to, Resume(ADC, Now)),
         from # "max1168_read", to # "max1168_read", spi.suspend = ADC
  PROVE  Did({}, NoSlave)
<1> DEFINE r == Resume(ADC, Now)
<1>1. BusOK(Now, FALSE) /\ LengthsOK(trans) /\ at = from /\ at' = to
  <2>1. at = from /\ at' = to
    BY DEF Step
  <2>2. (at = "max1168_read") = FALSE
    BY <2>1
  <2>3. BusOK(Now, at = "max1168_read") /\ LengthsOK(trans)
    BY DEF BInv
  <2> QED
    BY <2>1, <2>2, <2>3
<1>2. TypeOf(r) /\ TypeOf(Now) /\ ADC \in Slaves /\ ADC # NoSlave
  BY ResumeOK, DriversAre DEF IInv, PInv
<1>3. Now' = r /\ spi' = r.spi /\ trans' = r.trans
  BY <1>2, StepIs
<1>4. trans["max1168_read"].status \in Busy
  BY <1>1, LockIs
<1>5. /\ BusOK(r, FALSE) /\ Kept(Now, r, Drivers)
      /\ QueueOf(r.spi) = QueueOf(spi) /\ QueueOf(spi) # <<>>
      /\ r.spi.suspend = NoSlave /\ r.spi.running
  BY <1>1, <1>2, <1>4, NowIs, BusResume
<1> HIDE DEF r
<1>6. BusOK(Now', at' = "max1168_read")
  <2>1. (at' = "max1168_read") = FALSE
    BY <1>1
  <2> QED
    BY <1>3, <1>5, <2>1
<1>7. LengthsOK(trans')
  BY <1>1, <1>3, <1>5, NowIs DEF LengthsOK, Kept
<1>8. FifoStep
  <2>1. Queue' = Queue /\ Queue # <<>> /\ spi'.suspend = NoSlave /\ spi'.running = TRUE
    <3>1. spi'.running \in BOOLEAN
      BY <1>2, <1>3 DEF TypeOf, SpiType
    <3> QED
      BY <1>3, <1>5, <3>1, QueueIsOf
  <2>2. Fifo!Resume
    BY <1>2, <2>1 DEF Fifo!Resume
  <2> QED
    BY <2>2 DEF FifoStep, Fifo!Next
<1>9. Drivers \ {} = Drivers
  OBVIOUS
<1> QED
  BY <1>3, <1>5, <1>6, <1>7, <1>8, <1>9 DEF Did

(* The receive interrupt ends the oldest.                                  *)
LEMMA DidEnd ==
  ASSUME InTime, Wired, IInv, BInv, RxEnd, at' = at
  PROVE  LET t == QueueOf(spi)[1] IN
         /\ Did({t}, IF t = "max1168_req" THEN ADC ELSE NoSlave)
         /\ t \in Drivers /\ spi.suspend = NoSlave
         /\ trans[t].status = "Running" /\ trans'[t].status = "Success"
         /\ t = "max1168_read" /\ at # "max1168_read" => trans["max1168_req"].status \notin Busy
<1> DEFINE q == QueueOf(spi)
           t == q[1]
           open == at = "max1168_read"
<1>1. PInv(Now, irq) /\ open \in BOOLEAN /\ BusOK(Now, open) /\ LengthsOK(trans)
  BY DEF IInv, BInv
<1>2. spi \in SpiType
  BY <1>1, NowIs DEF PInv, TypeOf
<1> HIDE DEF open
<1>3. /\ BusOK(Now', open)
      /\ spi.running /\ spi.suspend = NoSlave
      /\ t \in Drivers /\ q # <<>> /\ QueueOf(spi') = Tail(q)
      /\ spi'.suspend = IF t = "max1168_req" THEN ADC ELSE NoSlave
      /\ trans[t].status = "Running" /\ trans'[t].status = "Success"
      /\ trans'[t].out = trans[t].out /\ trans'[t].in = trans[t].in
      /\ Kept(Now, Now', Drivers \ {t})
  BY <1>1, BusEnd
<1>4. BusOK(Now', at' = "max1168_read")
  BY <1>3 DEF open
<1>5. LengthsOK(trans')
  BY <1>1, <1>3, NowIs DEF LengthsOK, Kept
<1>6. FifoStep
  <2>1. PInv(Now, irq)'
    BY <1>1, RxEndOK
  <2>2. spi' \in SpiType
    BY <2>1, NowIs DEF PInv, TypeOf
  <2>3. FifoOK(QueueOf(spi'), spi')
    BY <1>3, NowIs DEF BusOK
  <2>4. spi'.running = (spi'.suspend = NoSlave /\ Queue' # <<>>)
    BY <2>2, <2>3, QueueIsOf DEF FifoOK, SpiType
  <2>5. Queue' = Tail(Queue) /\ spi.running
    BY <1>3, QueueIsOf
  <2>6. spi'.suspend = spi.suspend \/ (spi.suspend = NoSlave /\ spi'.suspend \in Slaves)
    BY <1>3, DriversAre
  <2>7. Fifo!End
    BY <2>4, <2>5, <2>6 DEF Fifo!End, Slaves
  <2> QED
    BY <2>7 DEF FifoStep, Fifo!Next
<1>7. ASSUME t = "max1168_read", at # "max1168_read"
      PROVE  trans["max1168_req"].status \notin Busy
  <2> SUFFICES ASSUME trans["max1168_req"].status \in Busy
               PROVE  FALSE
    OBVIOUS
  <2>1. /\ StatusOK(q, spi.running, trans) /\ OrderOK(q, FALSE)
    BY <1>1, <1>7, NowIs DEF BusOK, open
  <2>2. PICK i \in 1 .. Len(q) : q[i] = "max1168_req"
    BY <2>1 DEF StatusOK, Drivers
  <2>3. Len(q) \in Nat
    BY <1>2, QueueIs, WaitingIs
  <2>4. i # Len(q) /\ q[i + 1] = "max1168_read"
    BY <2>1, <2>2 DEF OrderOK
  <2>5. i + 1 \in 1 .. Len(q) /\ 1 \in 1 .. Len(q) /\ i + 1 # 1
    BY <2>3, <2>4
  <2> QED
    BY <1>7, <2>1, <2>4, <2>5 DEF OrderOK
<1> QED
  BY <1>3, <1>4, <1>5, <1>6, <1>7 DEF Did

-----------------------------------------------------------------------------
(* A step that is not of a device leaves its phase.                        *)
LEMMA AdcApart ==
  ASSUME AdcOK, NEW D, Did(D, spi.suspend), "max1168_req" \notin D, "max1168_read" \notin D,
         at' = at \/ {at, at'} \cap {"max1168_read", "max1168_sent", "max1168_reading",
                                     "max1168_result"} = {},
         max1168' = max1168,
         "max1168_req" \in converting' <=> "max1168_req" \in converting
  PROVE  AdcOK'
<1> DEFINE req == trans["max1168_req"].status
           read == trans["max1168_read"].status
<1>1. /\ req' \in Busy <=> req \in Busy
      /\ req \notin Busy => req' = req
      /\ read' \in Busy <=> read \in Busy
      /\ read \notin Busy => read' = read
  BY NowIs DEF Did, Kept, Drivers
<1>2. spi'.suspend = spi.suspend
  BY DEF Did
<1> HIDE DEF req, read
<1>3. AdcPhase(at, max1168, req, read, "max1168_req" \in converting, spi.suspend = ADC)
  BY DEF AdcOK, req, read
<1>4. AdcPhase(at', max1168', req', read', "max1168_req" \in converting', spi'.suspend = ADC)
  BY <1>1, <1>2, <1>3 DEF AdcPhase, Busy
<1> QED
  BY <1>4 DEF AdcOK, req, read

LEMMA MagApart ==
  ASSUME MagOK, NEW D, NEW lock, Did(D, lock), "ms2100_req" \notin D, "ms2100_read" \notin D,
         at' = at \/ {at, at'} \cap {"ms2100_sent", "ms2100_reading"} = {},
         ms2100' = ms2100,
         "ms2100_req" \in converting' <=> "ms2100_req" \in converting
  PROVE  MagOK'
<1> DEFINE req == trans["ms2100_req"].status
           read == trans["ms2100_read"].status
<1>1. /\ req' \in Busy <=> req \in Busy
      /\ req \notin Busy => req' = req
      /\ read' \in Busy <=> read \in Busy
      /\ read \notin Busy => read' = read
  BY NowIs DEF Did, Kept, Drivers
<1> HIDE DEF req, read
<1>2. MagPhase(at, ms2100, req, read, "ms2100_req" \in converting)
  BY DEF MagOK, req, read
<1>3. MagPhase(at', ms2100', req', read', "ms2100_req" \in converting')
  BY <1>1, <1>2 DEF MagPhase, Busy
<1> QED
  BY <1>3 DEF MagOK, req, read

-----------------------------------------------------------------------------
(* The statements of the main loop.                                        *)
LEMMA LengthsPositive ==
  ASSUME InTime, Wired, NEW tr, LengthsOK(tr), NEW t \in Drivers \ {"other"}
  PROVE  tr[t].out + tr[t].in > 0
  BY DEF InTime, Wired, LengthsOK, Lengths, Requests, Drivers

(* A device submits a transaction that is not in the ring.                 *)
LEMMA DeviceSubmits ==
  ASSUME InTime, Wired, IInv, BInv, NEW t \in Drivers \ {"other"},
         trans[t].status \notin Busy,
         NEW from, NEW to, Step(from, to, Submit(t, Now)),
         from = "max1168_read" <=> t = "max1168_read",
         to = "max1168_read" <=> t = "max1168_req",
         t = "max1168_req" => spi.suspend # ADC
  PROVE  Did({t}, spi.suspend) /\ trans'[t].status \in Busy
<1>1. PInv(Now, irq) /\ LengthsOK(Now.trans)
  BY NowIs DEF IInv, BInv
<1>2. Now.trans[t].out + Now.trans[t].in > 0
  BY <1>1, LengthsPositive
<1>3. Kept(Now, Now, Drivers \ {t})
  BY DEF Kept
<1> QED
  BY <1>1, <1>2, <1>3, NowIs, DidSubmit

LEMMA StatusesAre ==
  ASSUME InTime, IInv, NEW t \in Drivers
  PROVE  trans[t].status \in {"Pending", "Running", "Success", "Failed", "Done"}
  BY NowIs, DriversAre DEF IInv, PInv, TypeOf, TransType

(* Of the ADC.                                                             *)
LEMMA AdcLoop ==
  ASSUME InTime, Wired, IInv, BInv, Max1168Loop
  PROVE  \E D \in SUBSET {"max1168_req", "max1168_read"}, lock \in {spi.suspend, NoSlave} :
           Did(D, lock) /\ AdcOK'
<1> DEFINE req == trans["max1168_req"].status
           read == trans["max1168_read"].status
           conv == "max1168_req" \in converting
           Goal == \E D \in SUBSET {"max1168_req", "max1168_read"},
                     lock \in {spi.suspend, NoSlave} : Did(D, lock) /\ AdcOK'
<1> SUFFICES Goal
  OBVIOUS
<1>1. AdcPhase(at, max1168, req, read, conv, spi.suspend = ADC)
  BY DEF BInv, AdcOK
<1>2. /\ req \in {"Pending", "Running", "Success", "Failed", "Done"}
      /\ read \in {"Pending", "Running", "Success", "Failed", "Done"}
      /\ max1168 \in DriverStates
  BY StatusesAre DEF Drivers, IInv, Rest
<1>3. conv' = conv
  BY DEF Max1168Loop, ImuPeriodic, NotDue, Max1168Read, Max1168Eoc, Max1168Sent, Max1168Event,
     Max1168Result, Max1168Reading, Max1168Data, Step
<1>4. ASSUME NEW D, NEW lock, Did(D, lock), "max1168_req" \notin D
      PROVE  (req' \in Busy <=> req \in Busy) /\ (req \notin Busy => req' = req)
  BY <1>4, NowIs DEF Did, Kept, Drivers
<1>5. ASSUME NEW D, NEW lock, Did(D, lock), "max1168_read" \notin D
      PROVE  (read' \in Busy <=> read \in Busy) /\ (read \notin Busy => read' = read)
  BY <1>5, NowIs DEF Did, Kept, Drivers
<1>6. ASSUME NEW D \in SUBSET {"max1168_req", "max1168_read"},
             NEW lock \in {spi.suspend, NoSlave}, Did(D, lock),
             AdcPhase(at', max1168', req', read', conv, lock = ADC)
      PROVE  Goal
  <2>1. AdcOK'
    BY <1>3, <1>6 DEF AdcOK, Did
  <2> QED
    BY <1>6, <2>1
<1>7. ASSUME NEW from, NEW to, Step(from, to, Now),
             from # "max1168_read", to # "max1168_read",
             AdcPhase(to, max1168', req, read, conv, spi.suspend = ADC)
      PROVE  Goal
  <2>1. Did({}, spi.suspend) /\ at' = to /\ req' = req /\ read' = read
    BY <1>7, DidNothing, NowIs DEF Step
  <2> QED
    BY <1>6, <1>7, <2>1
<1>8. ASSUME NEW from, NEW to, NEW t \in {"max1168_req", "max1168_read"},
             Step(from, to, Mark(t, "Done")), trans[t].status = "Success",
             from # "max1168_read", to # "max1168_read",
             AdcPhase(to, max1168', IF t = "max1168_req" THEN "Done" ELSE req,
                      IF t = "max1168_read" THEN "Done" ELSE read, conv, spi.suspend = ADC)
      PROVE  Goal
  <2>1. t \in Drivers
    BY DEF Drivers
  <2>2. Did({t}, spi.suspend) /\ trans'[t].status = "Done" /\ at' = to
    BY <1>8, <2>1, DidMark DEF Step
  <2>3. CASE t = "max1168_req"
    <3>1. (read' \in Busy <=> read \in Busy) /\ (read \notin Busy => read' = read)
      BY <1>5, <2>2, <2>3
    <3>2. AdcPhase(to, max1168', req', read, conv, spi.suspend = ADC)
      BY <1>8, <2>2, <2>3
    <3>3. AdcPhase(at', max1168', req', read', conv, spi.suspend = ADC)
      BY <2>2, <3>1, <3>2 DEF AdcPhase, Busy
    <3> QED
      BY <1>6, <2>2, <3>3
  <2>4. CASE t = "max1168_read"
    <3>1. (req' \in Busy <=> req \in Busy) /\ (req \notin Busy => req' = req)
      BY <1>4, <2>2, <2>4
    <3>2. AdcPhase(to, max1168', req, read', conv, spi.suspend = ADC)
      BY <1>8, <2>2, <2>4
    <3>3. AdcPhase(at', max1168', req', read', conv, spi.suspend = ADC)
      BY <2>2, <3>1, <3>2 DEF AdcPhase, Busy
    <3> QED
      BY <1>6, <2>2, <3>3
  <2> QED
    BY <2>3, <2>4
<1> HIDE DEF Goal, req, read, conv
<1> USE DEF Busy, DriverStates
<1>10. CASE ImuPeriodic /\ max1168' = max1168
  <2>1. CASE max1168 = "IDLE"
    <3>1. Step("periodic", "max1168_read", Submit("max1168_req", Now)) /\ at = "periodic"
          /\ at' = "max1168_read"
      BY <1>10, <2>1 DEF ImuPeriodic, Step
    <3>2. req = "Done" /\ read = "Done" /\ ~ conv /\ spi.suspend # ADC
      BY <1>1, <2>1, <3>1 DEF AdcPhase
    <3>3. Did({"max1168_req"}, spi.suspend) /\ req' \in Busy
      BY <3>1, <3>2, DeviceSubmits DEF Drivers, req
    <3>4. read' = "Done"
      BY <1>5, <3>2, <3>3
    <3>5. AdcPhase(at', max1168', req', read', conv, spi.suspend = ADC)
      BY <1>10, <2>1, <3>1, <3>2, <3>3, <3>4 DEF AdcPhase
    <3> QED
      BY <1>6, <3>3, <3>5
  <2>2. CASE max1168 # "IDLE"
    <3>1. Step("periodic", "ms2100_periodic", Now) /\ at = "periodic"
      BY <1>10, <2>2 DEF ImuPeriodic, Step
    <3>2. AdcPhase("ms2100_periodic", max1168', req, read, conv, spi.suspend = ADC)
      BY <1>1, <1>10, <3>1 DEF AdcPhase
    <3> QED
      BY <1>7, <3>1, <3>2
  <2> QED
    BY <2>1, <2>2
<1>11. CASE NotDue /\ max1168' = max1168
  <2>1. Step("periodic", "other", Now) /\ at = "periodic"
    BY <1>11 DEF NotDue, Step
  <2>2. AdcPhase("other", max1168', req, read, conv, spi.suspend = ADC)
    BY <1>1, <1>11, <2>1 DEF AdcPhase
  <2> QED
    BY <1>7, <2>1, <2>2
<1>12. CASE Max1168Read /\ max1168' = max1168
  <2>1. /\ Step("max1168_read", "max1168_sent", Submit("max1168_read", Now))
        /\ at = "max1168_read" /\ at' = "max1168_sent"
    BY <1>12 DEF Max1168Read, Step
  <2>2. read = "Done"
    BY <1>1, <2>1 DEF AdcPhase
  <2>3. Did({"max1168_read"}, spi.suspend) /\ read' \in Busy
    BY <2>1, <2>2, DeviceSubmits DEF Drivers, read
  <2>4. (req' \in Busy <=> req \in Busy) /\ (req \notin Busy => req' = req)
    BY <1>4, <2>3
  <2>5. AdcPhase(at', max1168', req', read', conv, spi.suspend = ADC)
    BY <1>1, <1>12, <2>1, <2>3, <2>4 DEF AdcPhase
  <2> QED
    BY <1>6, <2>3, <2>5
<1>13. CASE Max1168Sent
  <2>1. Step("max1168_sent", "ms2100_periodic", Now) /\ at = "max1168_sent"
        /\ max1168' = "SENDING_REQ"
    BY <1>13 DEF Max1168Sent, Step
  <2>2. AdcPhase("ms2100_periodic", max1168', req, read, conv, spi.suspend = ADC)
    BY <1>1, <2>1 DEF AdcPhase
  <2> QED
    BY <1>7, <2>1, <2>2
<1>14. CASE Max1168Event
  <2>1. at = "max1168_event"
    BY <1>14 DEF Max1168Event, Step
  <2>2. req # "Failed"
    BY <1>1 DEF AdcPhase
  <2>3. CASE req = "Success"
    <3>1. Step("max1168_event", "max1168_result", Mark("max1168_req", "Done"))
          /\ max1168' = max1168
      BY <1>14, <2>3 DEF Max1168Event, req
    <3>2. AdcPhase("max1168_result", max1168', "Done", read, conv, spi.suspend = ADC)
      BY <1>1, <2>1, <2>3, <3>1 DEF AdcPhase
    <3>3. trans["max1168_req"].status = "Success"
      BY <2>3 DEF req
    <3> QED
      BY <1>8, <3>1, <3>2, <3>3
  <2>4. CASE req # "Success"
    <3>1. Step("max1168_event", "max1168_result", Now) /\ max1168' = max1168
      BY <1>14, <2>2, <2>4 DEF Max1168Event, req
    <3>2. AdcPhase("max1168_result", max1168', req, read, conv, spi.suspend = ADC)
      BY <1>1, <1>2, <2>1, <2>2, <2>4, <3>1 DEF AdcPhase
    <3> QED
      BY <1>7, <3>1, <3>2
  <2> QED
    BY <2>3, <2>4
<1>15. CASE Max1168Result
  <2>1. at = "max1168_result"
    BY <1>15 DEF Max1168Result, Step
  <2>2. read # "Failed"
    BY <1>1 DEF AdcPhase
  <2>3. CASE read = "Success" /\ max1168 = "READING_RES"
    <3>1. Step("max1168_result", "max1168_eoc", Mark("max1168_read", "Done"))
          /\ max1168' = "DATA_AVAILABLE"
      BY <1>15, <2>3 DEF Max1168Result, read
    <3>2. AdcPhase("max1168_eoc", max1168', req, "Done", conv, spi.suspend = ADC)
      BY <1>1, <2>1, <2>3, <3>1 DEF AdcPhase
    <3>3. trans["max1168_read"].status = "Success"
      BY <2>3 DEF read
    <3> QED
      BY <1>8, <3>1, <3>2, <3>3
  <2>4. CASE ~ (read = "Success" /\ max1168 = "READING_RES")
    <3>1. Step("max1168_result", "max1168_eoc", Now) /\ max1168' = max1168
      BY <1>15, <2>2, <2>4 DEF Max1168Result, read
    <3>2. AdcPhase("max1168_eoc", max1168', req, read, conv, spi.suspend = ADC)
      BY <1>1, <2>1, <3>1 DEF AdcPhase
    <3> QED
      BY <1>7, <3>1, <3>2
  <2> QED
    BY <2>3, <2>4
<1>16. CASE Max1168Eoc /\ max1168' = max1168
  <2>1. at = "max1168_eoc"
    BY <1>16 DEF Max1168Eoc, Step
  <2>2. CASE max1168 = "GOT_EOC"
    <3>1. Step("max1168_eoc", "max1168_reading", Resume(ADC, Now)) /\ at' = "max1168_reading"
      BY <1>16, <2>2 DEF Max1168Eoc, ADC, Step
    <3>2. spi.suspend = ADC /\ req \notin Busy /\ ~ conv /\ read \in Busy
      BY <1>1, <2>1, <2>2 DEF AdcPhase
    <3>3. Did({}, NoSlave)
      BY <3>1, <3>2, DidResume
    <3>4. req' = req /\ read' \in Busy
      BY <1>4, <1>5, <3>2, <3>3
    <3>5. AdcPhase(at', max1168', req', read', conv, NoSlave = ADC)
      BY <1>1, <1>16, <2>2, <3>1, <3>2, <3>4, DriversAre DEF AdcPhase
    <3> QED
      BY <1>6, <3>3, <3>5
  <2>3. CASE max1168 # "GOT_EOC"
    <3>1. Step("max1168_eoc", "max1168_data", Now)
      BY <1>16, <2>3 DEF Max1168Eoc
    <3>2. AdcPhase("max1168_data", max1168', req, read, conv, spi.suspend = ADC)
      BY <1>1, <1>16, <2>1 DEF AdcPhase
    <3> QED
      BY <1>7, <3>1, <3>2
  <2> QED
    BY <2>2, <2>3
<1>17. CASE Max1168Reading
  <2>1. Step("max1168_reading", "max1168_data", Now) /\ at = "max1168_reading"
        /\ max1168' = "READING_RES"
    BY <1>17 DEF Max1168Reading, Step
  <2>2. AdcPhase("max1168_data", max1168', req, read, conv, spi.suspend = ADC)
    BY <1>1, <2>1 DEF AdcPhase
  <2> QED
    BY <1>7, <2>1, <2>2
<1>18. CASE Max1168Data
  <2>1. Step("max1168_data", "ms2100_event", Now) /\ at = "max1168_data"
        /\ max1168' = IF max1168 = "DATA_AVAILABLE" THEN "IDLE" ELSE max1168
    BY <1>18 DEF Max1168Data, Step
  <2>2. AdcPhase("ms2100_event", max1168', req, read, conv, spi.suspend = ADC)
    BY <1>1, <2>1 DEF AdcPhase
  <2> QED
    BY <1>7, <2>1, <2>2
<1> QED
  BY <1>10, <1>11, <1>12, <1>13, <1>14, <1>15, <1>16, <1>17, <1>18 DEF Max1168Loop

(* Of the magnetometer.                                                    *)
LEMMA MagLoop ==
  ASSUME InTime, Wired, IInv, BInv, Ms2100Loop
  PROVE  \E D \in SUBSET {"ms2100_req", "ms2100_read"} : Did(D, spi.suspend) /\ MagOK'
<1> DEFINE req == trans["ms2100_req"].status
           read == trans["ms2100_read"].status
           conv == "ms2100_req" \in converting
           Goal == \E D \in SUBSET {"ms2100_req", "ms2100_read"} : Did(D, spi.suspend) /\ MagOK'
<1> SUFFICES Goal
  OBVIOUS
<1>1. MagPhase(at, ms2100, req, read, conv)
  BY DEF BInv, MagOK
<1>2. /\ req \in {"Pending", "Running", "Success", "Failed", "Done"}
      /\ read \in {"Pending", "Running", "Success", "Failed", "Done"}
      /\ ms2100 \in DriverStates \ {"DATA_AVAILABLE"}
  BY StatusesAre DEF Drivers, IInv, Rest
<1>3. conv' = conv
  BY DEF Ms2100Loop, Ms2100Periodic, Ms2100Sent, Ms2100Event, Ms2100Reading, Ms2100Result, Step
<1>4. ASSUME NEW D, Did(D, spi.suspend), "ms2100_req" \notin D
      PROVE  (req' \in Busy <=> req \in Busy) /\ (req \notin Busy => req' = req)
  BY <1>4, NowIs DEF Did, Kept, Drivers
<1>5. ASSUME NEW D, Did(D, spi.suspend), "ms2100_read" \notin D
      PROVE  (read' \in Busy <=> read \in Busy) /\ (read \notin Busy => read' = read)
  BY <1>5, NowIs DEF Did, Kept, Drivers
<1>6. ASSUME NEW D \in SUBSET {"ms2100_req", "ms2100_read"}, Did(D, spi.suspend),
             MagPhase(at', ms2100', req', read', conv)
      PROVE  Goal
  <2>1. MagOK'
    BY <1>3, <1>6 DEF MagOK
  <2> QED
    BY <1>6, <2>1
<1>7. ASSUME NEW from, NEW to, Step(from, to, Now),
             from # "max1168_read", to # "max1168_read",
             MagPhase(to, ms2100', req, read, conv)
      PROVE  Goal
  <2>1. Did({}, spi.suspend) /\ at' = to /\ req' = req /\ read' = read
    BY <1>7, DidNothing, NowIs DEF Step
  <2> QED
    BY <1>6, <1>7, <2>1
<1> HIDE DEF Goal, req, read, conv
<1> USE DEF Busy, DriverStates
<1>8. CASE Ms2100Periodic /\ UNCHANGED <<ms2100, cur_axe>>
  <2>1. CASE ms2100 = "IDLE"
    <3>1. Step("ms2100_periodic", "ms2100_sent", Submit("ms2100_req", Now))
          /\ at = "ms2100_periodic" /\ at' = "ms2100_sent"
      BY <1>8, <2>1 DEF Ms2100Periodic, Step
    <3>2. req = "Done" /\ read = "Done" /\ ~ conv
      BY <1>1, <2>1, <3>1 DEF MagPhase
    <3>3. Did({"ms2100_req"}, spi.suspend) /\ req' \in Busy
      BY <3>1, <3>2, DeviceSubmits DEF Drivers, req
    <3>4. read' = "Done"
      BY <1>5, <3>2, <3>3
    <3>5. MagPhase(at', ms2100', req', read', conv)
      BY <1>8, <2>1, <3>1, <3>2, <3>3, <3>4 DEF MagPhase
    <3> QED
      BY <1>6, <3>3, <3>5
  <2>2. CASE ms2100 # "IDLE"
    <3>1. Step("ms2100_periodic", "other", Now) /\ at = "ms2100_periodic"
      BY <1>8, <2>2 DEF Ms2100Periodic, Step
    <3>2. MagPhase("other", ms2100', req, read, conv)
      BY <1>1, <1>8, <3>1 DEF MagPhase
    <3> QED
      BY <1>7, <3>1, <3>2
  <2> QED
    BY <2>1, <2>2
<1>9. CASE Ms2100Sent
  <2>1. Step("ms2100_sent", "other", Now) /\ at = "ms2100_sent" /\ ms2100' = "SENDING_REQ"
    BY <1>9 DEF Ms2100Sent, Step
  <2>2. MagPhase("other", ms2100', req, read, conv)
    BY <1>1, <2>1 DEF MagPhase
  <2> QED
    BY <1>7, <2>1, <2>2
<1>10. CASE Ms2100Event
  <2>1. at = "ms2100_event"
    BY <1>10 DEF Ms2100Event, Step
  <2>2. req # "Failed"
    BY <1>1 DEF MagPhase
  <2>3. CASE req = "Done" /\ ms2100 = "GOT_EOC"
    <3>1. Step("ms2100_event", "ms2100_reading", Submit("ms2100_read", Now))
          /\ ms2100' = ms2100 /\ at' = "ms2100_reading"
      BY <1>10, <2>3 DEF Ms2100Event, Step, req
    <3>2. read = "Done" /\ ~ conv
      BY <1>1, <2>1, <2>3 DEF MagPhase
    <3>3. Did({"ms2100_read"}, spi.suspend) /\ read' \in Busy
      BY <3>1, <3>2, DeviceSubmits DEF Drivers, read
    <3>4. req' = "Done"
      BY <1>4, <2>3, <3>3
    <3>5. MagPhase(at', ms2100', req', read', conv)
      BY <2>3, <3>1, <3>2, <3>3, <3>4 DEF MagPhase
    <3> QED
      BY <1>6, <3>3, <3>5
  <2>4. CASE req = "Success"
    <3>1. Step("ms2100_event", "ms2100_result", Mark("ms2100_req", "Done")) /\ ms2100' = ms2100
          /\ at' = "ms2100_result"
      BY <1>10, <2>4 DEF Ms2100Event, Step, req
    <3>2. Did({"ms2100_req"}, spi.suspend) /\ req' = "Done"
      BY <2>4, <3>1, DidMark DEF Drivers, req
    <3>3. (read' \in Busy <=> read \in Busy) /\ (read \notin Busy => read' = read)
      BY <1>5, <3>2
    <3>4. MagPhase(at', ms2100', req', read', conv)
      BY <1>1, <2>1, <2>4, <3>1, <3>2, <3>3 DEF MagPhase
    <3> QED
      BY <1>6, <3>2, <3>4
  <2>5. CASE ~ (req = "Done" /\ ms2100 = "GOT_EOC") /\ req # "Success"
    <3>1. Step("ms2100_event", "ms2100_result", Now) /\ ms2100' = ms2100
      BY <1>10, <2>2, <2>5 DEF Ms2100Event, req
    <3>2. MagPhase("ms2100_result", ms2100', req, read, conv)
      BY <1>1, <2>1, <3>1 DEF MagPhase
    <3> QED
      BY <1>7, <3>1, <3>2
  <2> QED
    BY <2>3, <2>4, <2>5
<1>11. CASE Ms2100Reading
  <2>1. Step("ms2100_reading", "ms2100_result", Now) /\ at = "ms2100_reading"
        /\ ms2100' = "READING_RES"
    BY <1>11 DEF Ms2100Reading, Step
  <2>2. MagPhase("ms2100_result", ms2100', req, read, conv)
    BY <1>1, <2>1 DEF MagPhase
  <2> QED
    BY <1>7, <2>1, <2>2
<1>12. CASE Ms2100Result
  <2>1. at = "ms2100_result"
    BY <1>12 DEF Ms2100Result, Step
  <2>2. read # "Failed"
    BY <1>1 DEF MagPhase
  <2>3. CASE read = "Success" /\ ms2100 = "READING_RES"
    <3>1. Step("ms2100_result", "periodic", Mark("ms2100_read", "Done")) /\ ms2100' = "IDLE"
          /\ at' = "periodic"
      BY <1>12, <2>3 DEF Ms2100Result, Step, read
    <3>2. Did({"ms2100_read"}, spi.suspend) /\ read' = "Done"
      BY <2>3, <3>1, DidMark DEF Drivers, read
    <3>3. (req' \in Busy <=> req \in Busy) /\ (req \notin Busy => req' = req)
      BY <1>4, <3>2
    <3>4. MagPhase(at', ms2100', req', read', conv)
      BY <1>1, <2>1, <2>3, <3>1, <3>2, <3>3 DEF MagPhase
    <3> QED
      BY <1>6, <3>2, <3>4
  <2>4. CASE ~ (read = "Success" /\ ms2100 = "READING_RES")
    <3>1. Step("ms2100_result", "periodic", Now) /\ ms2100' = ms2100
      BY <1>12, <2>2, <2>4 DEF Ms2100Result, read
    <3>2. MagPhase("periodic", ms2100', req, read, conv)
      BY <1>1, <2>1, <3>1 DEF MagPhase
    <3> QED
      BY <1>7, <3>1, <3>2
  <2> QED
    BY <2>3, <2>4
<1> QED
  BY <1>8, <1>9, <1>10, <1>11, <1>12 DEF Ms2100Loop

(* Of the other driver: a transaction without words fails at once.         *)
LEMMA OtherDid ==
  ASSUME InTime, Wired, IInv, BInv, OtherLoop
  PROVE  Did({}, spi.suspend) \/ Did({"other"}, spi.suspend)
<1>1. "other" \in Drivers /\ "other" \in Transactions
  BY DEF Drivers, InTime
<1>2. CASE Step("other", "max1168_event", Now)
  BY <1>2, DidNothing
<1>3. CASE trans["other"].status \in {"Success", "Failed"}
           /\ Step("other", "max1168_event", Mark("other", "Done"))
  BY <1>1, <1>3, DidMark
<1>4. ASSUME trans["other"].status = "Done", NEW l \in OTHER_LENGTHS,
             Step("other", "max1168_event",
                  Submit("other", [Now EXCEPT !.trans["other"].out = l.out,
                                              !.trans["other"].in = l.in]))
      PROVE  Did({"other"}, spi.suspend)
  <2> DEFINE p == [Now EXCEPT !.trans["other"].out = l.out, !.trans["other"].in = l.in]
             r == [trans["other"] EXCEPT !.out = l.out, !.in = l.in]
  <2>1. l \in [out : Nat, in : Nat]
    BY DEF InTime
  <2>2. Good(p) /\ p.trans["other"].status = "Done"
    BY <1>1, <1>4, <2>1, GoodLengths DEF IInv
  <2>3. spi \in SpiType /\ trans \in [Transactions -> TransType]
    BY NowIs DEF IInv, PInv, TypeOf
  <2>4. p.spi = spi /\ p.trans = [trans EXCEPT !["other"] = r]
    BY <2>3 DEF Now, TransType
  <2>5. r.out = l.out /\ r.in = l.in /\ r.status = "Done"
    BY <1>1, <1>4, <2>3 DEF TransType
  <2> HIDE DEF p, r
  <2>6. \A u \in Transactions \ {"other"} : p.trans[u] = trans[u]
    BY <2>3, <2>4
  <2>7. p.trans["other"] = r
    BY <1>1, <2>3, <2>4
  <2>8. PInv(p, irq) /\ p.trans \in [Transactions -> TransType]
    BY <2>2 DEF Good, PInv, TypeOf
  <2>9. \A u \in Drivers : p.trans[u].status = trans[u].status
    BY <1>4, <2>5, <2>6, <2>7, DriversAre
  <2>10. Kept(Now, p, Drivers \ {"other"}) /\ LengthsOK(p.trans)
    <3>1. LengthsOK(trans)
      BY DEF BInv
    <3> QED
      BY <2>6, <3>1, NowIs, DriversAre DEF Kept, LengthsOK
  <2>11. CASE l.out + l.in > 0
    <3>1. p.trans["other"].out + p.trans["other"].in > 0
      BY <2>5, <2>7, <2>11
    <3>2. trans["other"].status \notin Busy
      BY <1>4 DEF Busy
    <3>3. Step("other", "max1168_event", Submit("other", p))
      BY <1>4 DEF p
    <3> QED
      BY <1>1, <2>4, <2>8, <2>9, <2>10, <3>1, <3>2, <3>3, DidSubmit
  <2>12. CASE ~ (l.out + l.in > 0)
    <3>1. l.out = 0 /\ l.in = 0
      BY <2>1, <2>12
    <3>2. Submit("other", p) = [p EXCEPT !.trans["other"].status = "Failed"]
      BY <2>5, <2>7, <3>1 DEF Submit
    <3>3. /\ Submit("other", p).spi = p.spi
          /\ Submit("other", p).trans = [p.trans EXCEPT !["other"].status = "Failed"]
      BY <2>8, <3>2 DEF PInv, TypeOf
    <3>4. spi' = spi /\ trans' = [p.trans EXCEPT !["other"].status = "Failed"]
          /\ at = "other" /\ at' = "max1168_event"
      BY <1>4, <2>4, <3>3 DEF Step, p
    <3>5. \A u \in Transactions \ {"other"} : trans'[u] = trans[u]
      BY <2>6, <2>8, <3>4
    <3>6. trans'["other"].status = "Failed"
      BY <1>1, <2>8, <3>4 DEF TransType
    <3>7. /\ \A u \in Drivers \ {"other"} : trans'[u].status = trans[u].status
          /\ \A u \in Drivers \cap {"other"} :
               trans'[u].status \notin Busy /\ trans[u].status \notin Busy
          /\ \A u \in Drivers : u # "other" \/ u \notin {"other"} =>
               trans'[u].out = trans[u].out /\ trans'[u].in = trans[u].in
      BY <1>4, <3>5, <3>6, DriversAre DEF Busy
    <3> QED
      BY <3>4, <3>7, DidFrame
  <2> QED
    BY <2>11, <2>12
<1> QED
  BY <1>2, <1>3, <1>4 DEF OtherLoop, Other

-----------------------------------------------------------------------------
(* The interrupts.                                                         *)
LEMMA DmaKeeps ==
  ASSUME InTime, Wired, IInv, BInv, DmaInterrupt
  PROVE  BInv' /\ FifoStep
<1>1. UNCHANGED <<at, max1168, ms2100>> /\ spi \in SpiType
      /\ converting' = converting \cup
           {t \in Requests : trans[t].status = "Running" /\ trans'[t].status = "Success"}
  BY NowIs DEF DmaInterrupt, IInv, PInv, TypeOf
<1>2. AdcOK /\ MagOK
  BY DEF BInv
<1>3. CASE RxDummy \/ TxEnd
  <2>1. /\ trans' = trans
        /\ spi'.ring = spi.ring /\ spi'.insert = spi.insert /\ spi'.extract = spi.extract
        /\ spi'.running = spi.running /\ spi'.suspend = spi.suspend /\ spi'.select = spi.select
    BY <1>1, <1>3 DEF RxDummy, TxEnd, SpiType
  <2>2. Did({}, spi.suspend)
    BY <1>1, <2>1, DidFrame
  <2>3. \A t : t \in converting' <=> t \in converting
    BY <1>1, <2>1
  <2>4. AdcOK' /\ MagOK'
    BY <1>1, <1>2, <2>2, <2>3, AdcApart, MagApart
  <2> QED
    BY <2>2, <2>4 DEF Did, BInv
<1>4. CASE RxEnd
  <2> DEFINE t == QueueOf(spi)[1]
  <2>1. /\ Did({t}, IF t = "max1168_req" THEN ADC ELSE NoSlave)
        /\ t \in Drivers /\ spi.suspend = NoSlave
        /\ trans[t].status = "Running" /\ trans'[t].status = "Success"
        /\ t = "max1168_read" /\ at # "max1168_read" => trans["max1168_req"].status \notin Busy
    BY <1>1, <1>4, DidEnd
  <2> HIDE DEF t
  <2>2. \A u \in Drivers \ {t} : ~ (trans[u].status = "Running" /\ trans'[u].status = "Success")
    BY <2>1, NowIs DEF Did, Kept, Busy
  <2>3. \A u \in Requests : u \in converting' <=> u \in converting \/ u = t
    BY <1>1, <2>1, <2>2 DEF Requests, Drivers
  <2>4. ASSUME t \notin {"max1168_req", "max1168_read"}
        PROVE  AdcOK'
    <3>1. Did({t}, spi.suspend) /\ ("max1168_req" \in converting' <=> "max1168_req" \in converting)
      BY <2>1, <2>3, <2>4 DEF Requests
    <3> QED
      BY <1>1, <1>2, <2>4, <3>1, AdcApart
  <2>5. ASSUME t \notin {"ms2100_req", "ms2100_read"}
        PROVE  MagOK'
    <3>1. "ms2100_req" \in converting' <=> "ms2100_req" \in converting
      BY <2>3, <2>5 DEF Requests
    <3> QED
      BY <1>1, <1>2, <2>1, <2>5, <3>1, MagApart
  <2>6. CASE t \in {"max1168_req", "max1168_read"}
    <3> DEFINE req == trans["max1168_req"].status
               read == trans["max1168_read"].status
               conv == "max1168_req" \in converting
    <3>1. AdcPhase(at, max1168, req, read, conv, FALSE)
      BY <1>2, <2>1, DriversAre DEF AdcOK
    <3>2. max1168 \in DriverStates
      BY DEF IInv, Rest
    <3>3. t = "max1168_req" => /\ req = "Running" /\ req' = "Success" /\ conv'
                               /\ read' \in Busy <=> read \in Busy
                               /\ read \notin Busy => read' = read
                               /\ spi'.suspend = ADC
      BY <2>1, <2>3, NowIs DEF Did, Kept, Drivers, Requests
    <3>4. t = "max1168_read" => /\ read = "Running" /\ read' = "Success" /\ (conv' <=> conv)
                                /\ req' \in Busy <=> req \in Busy
                                /\ req \notin Busy => req' = req
                                /\ spi'.suspend # ADC
                                /\ at # "max1168_read" => req \notin Busy
      BY <2>1, <2>3, NowIs, DriversAre DEF Did, Kept, Drivers, Requests
    <3> HIDE DEF req, read, conv
    <3>5. AdcPhase(at', max1168', req', read', conv', spi'.suspend = ADC)
      <4>1. CASE t = "max1168_req"
        BY <1>1, <3>1, <3>2, <3>3, <4>1 DEF AdcPhase, Busy, DriverStates
      <4>2. CASE t = "max1168_read"
        BY <1>1, <3>1, <3>2, <3>4, <4>2 DEF AdcPhase, Busy, DriverStates
      <4> QED
        BY <2>6, <4>1, <4>2
    <3>6. AdcOK'
      BY <3>5 DEF AdcOK, req, read, conv
    <3> QED
      BY <2>1, <2>5, <2>6, <3>6 DEF Did, BInv
  <2>7. CASE t \in {"ms2100_req", "ms2100_read"}
    <3> DEFINE req == trans["ms2100_req"].status
               read == trans["ms2100_read"].status
               conv == "ms2100_req" \in converting
    <3>1. MagPhase(at, ms2100, req, read, conv)
      BY <1>2 DEF MagOK
    <3>2. ms2100 \in DriverStates
      BY DEF IInv, Rest
    <3>3. t = "ms2100_req" => /\ req = "Running" /\ req' = "Success" /\ conv'
                              /\ read' \in Busy <=> read \in Busy
                              /\ read \notin Busy => read' = read
      BY <2>1, <2>3, NowIs DEF Did, Kept, Drivers, Requests
    <3>4. t = "ms2100_read" => /\ read = "Running" /\ read' = "Success" /\ (conv' <=> conv)
                               /\ req' \in Busy <=> req \in Busy
                               /\ req \notin Busy => req' = req
      BY <2>1, <2>3, NowIs DEF Did, Kept, Drivers, Requests
    <3> HIDE DEF req, read, conv
    <3>5. MagPhase(at', ms2100', req', read', conv')
      <4>1. CASE t = "ms2100_req"
        BY <1>1, <3>1, <3>2, <3>3, <4>1 DEF MagPhase, Busy, DriverStates
      <4>2. CASE t = "ms2100_read"
        BY <1>1, <3>1, <3>2, <3>4, <4>2 DEF MagPhase, Busy, DriverStates
      <4> QED
        BY <2>7, <4>1, <4>2
    <3>6. MagOK'
      BY <3>5 DEF MagOK, req, read, conv
    <3> QED
      BY <2>1, <2>4, <2>7, <3>6 DEF Did, BInv
  <2>8. CASE t \notin {"max1168_req", "max1168_read", "ms2100_req", "ms2100_read"}
    BY <2>1, <2>4, <2>5, <2>8 DEF Did, BInv
  <2> QED
    BY <2>6, <2>7, <2>8
<1> QED
  BY <1>3, <1>4 DEF DmaInterrupt, Interrupt

LEMMA QuietKeeps ==
  ASSUME IInv, BInv, DmaWord \/ Max1168EndOfConversion \/ Ms2100EndOfConversion
  PROVE  BInv' /\ FifoStep
<1>1. /\ at' = at /\ trans' = trans /\ spi \in SpiType
      /\ spi'.ring = spi.ring /\ spi'.insert = spi.insert /\ spi'.extract = spi.extract
      /\ spi'.running = spi.running /\ spi'.suspend = spi.suspend /\ spi'.select = spi.select
  <2>1. spi \in SpiType
    BY NowIs DEF IInv, PInv, TypeOf
  <2> QED
    BY <2>1 DEF DmaWord, TxWord, RxWord, Max1168EndOfConversion, Ms2100EndOfConversion, SpiType
<1>2. Did({}, spi.suspend)
  BY <1>1, DidFrame
<1>3. AdcOK /\ MagOK /\ max1168 \in DriverStates /\ ms2100 \in DriverStates \ {"DATA_AVAILABLE"}
  BY DEF BInv, IInv, Rest
<1>4. CASE DmaWord
  <2>1. UNCHANGED <<max1168, ms2100, converting>>
    BY <1>4 DEF DmaWord
  <2>2. AdcOK' /\ MagOK'
    BY <1>1, <1>2, <1>3, <2>1, AdcApart, MagApart
  <2> QED
    BY <1>2, <2>2 DEF Did, BInv
<1>5. CASE Max1168EndOfConversion
  <2>1. /\ "max1168_req" \in converting /\ at \notin {"max1168_read", "max1168_sent"}
        /\ max1168' = "GOT_EOC" /\ ms2100' = ms2100 /\ "max1168_req" \notin converting'
        /\ "ms2100_req" \in converting' <=> "ms2100_req" \in converting
    BY <1>5 DEF Max1168EndOfConversion
  <2>2. MagOK'
    BY <1>1, <1>2, <1>3, <2>1, MagApart
  <2>3. AdcOK'
    BY <1>1, <1>3, <2>1 DEF AdcOK, AdcPhase, Busy, DriverStates
  <2> QED
    BY <1>2, <2>2, <2>3 DEF Did, BInv
<1>6. CASE Ms2100EndOfConversion
  <2>1. /\ "ms2100_req" \in converting /\ at # "ms2100_sent"
        /\ ms2100' = "GOT_EOC" /\ max1168' = max1168 /\ "ms2100_req" \notin converting'
        /\ "max1168_req" \in converting' <=> "max1168_req" \in converting
    BY <1>6 DEF Ms2100EndOfConversion
  <2>2. AdcOK'
    BY <1>1, <1>2, <1>3, <2>1, AdcApart
  <2>3. MagOK'
    BY <1>1, <1>3, <2>1 DEF MagOK, MagPhase, Busy, DriverStates
  <2> QED
    BY <1>2, <2>2, <2>3 DEF Did, BInv
<1> QED
  BY <1>4, <1>5, <1>6

LEMMA LoopKeeps ==
  ASSUME InTime, Wired, IInv, BInv, MainLoop
  PROVE  BInv' /\ FifoStep
<1>1. AdcOK /\ MagOK /\ converting' = converting
  BY DEF BInv, MainLoop, Max1168Loop, Ms2100Loop, OtherLoop, ImuPeriodic, NotDue, Max1168Read,
     Max1168Eoc, Max1168Sent, Max1168Event, Max1168Result, Max1168Reading, Max1168Data,
     Ms2100Periodic, Ms2100Sent, Ms2100Event, Ms2100Reading, Ms2100Result, Other, Step
<1>2. CASE Max1168Loop
  <2>1. PICK D \in SUBSET {"max1168_req", "max1168_read"}, lock \in {spi.suspend, NoSlave} :
          Did(D, lock) /\ AdcOK'
    BY <1>2, AdcLoop
  <2>2. ms2100' = ms2100 /\ {at, at'} \cap {"ms2100_sent", "ms2100_reading"} = {}
    BY <1>2 DEF Max1168Loop, ImuPeriodic, NotDue, Max1168Read, Max1168Eoc, Max1168Sent,
       Max1168Event, Max1168Result, Max1168Reading, Max1168Data, Step
  <2>3. MagOK'
    BY <1>1, <2>1, <2>2, MagApart
  <2> QED
    BY <2>1, <2>3 DEF Did, BInv
<1>3. CASE Ms2100Loop
  <2>1. PICK D \in SUBSET {"ms2100_req", "ms2100_read"} : Did(D, spi.suspend) /\ MagOK'
    BY <1>3, MagLoop
  <2>2. /\ max1168' = max1168
        /\ {at, at'} \cap {"max1168_read", "max1168_sent", "max1168_reading", "max1168_result"} = {}
    BY <1>3 DEF Ms2100Loop, Ms2100Periodic, Ms2100Sent, Ms2100Event, Ms2100Reading,
       Ms2100Result, Step
  <2>3. AdcOK'
    BY <1>1, <2>1, <2>2, AdcApart
  <2> QED
    BY <2>1, <2>3 DEF Did, BInv
<1>4. CASE OtherLoop
  <2>1. PICK D \in {{}, {"other"}} : Did(D, spi.suspend)
    BY <1>4, OtherDid
  <2>2. /\ max1168' = max1168 /\ ms2100' = ms2100 /\ at = "other" /\ at' = "max1168_event"
    BY <1>4 DEF OtherLoop, Other, Step
  <2>3. AdcOK'
    BY <1>1, <2>1, <2>2, AdcApart
  <2>4. MagOK'
    BY <1>1, <2>1, <2>2, MagApart
  <2> QED
    BY <2>1, <2>3, <2>4 DEF Did, BInv
<1> QED
  BY <1>2, <1>3, <1>4 DEF MainLoop

LEMMA InitBInv ==
  ASSUME InTime, Wired, Init
  PROVE  BInv /\ Fifo!Init
<1>1. spi \in SpiType
  BY InitIInv, NowIs DEF IInv, PInv, TypeOf
<1>2. QueueOf(spi) = <<>>
  BY <1>1, QueueIs DEF Init
<1>3. \A i \in 1 .. Len(<<>>) : FALSE
  BY EmptySeq
<1>4. /\ \A t \in Drivers : trans[t].status = "Done"
      /\ \A t \in Drivers : trans[t].out = Lengths(t).out /\ trans[t].in = Lengths(t).in
      /\ spi.running = FALSE /\ spi.suspend = NoSlave /\ spi.select = {}
  BY DriversAre DEF Init
<1>5. BusOK(Now, at = "max1168_read")
  <2>1. FifoOK(<<>>, spi)
    BY <1>4, DriversAre DEF FifoOK
  <2>2. OrderOK(<<>>, at = "max1168_read")
    BY <1>3 DEF OrderOK
  <2>3. StatusOK(<<>>, spi.running, trans)
    BY <1>3, <1>4 DEF StatusOK, Busy
  <2> QED
    BY <1>2, <2>1, <2>2, <2>3, NowIs DEF BusOK
<1>6. AdcOK
  BY <1>4, DriversAre DEF Init, AdcOK, AdcPhase, Busy, Drivers
<1>7. MagOK
  BY <1>4 DEF Init, MagOK, MagPhase, Busy, Drivers
<1>8. LengthsOK(trans)
  BY <1>4 DEF LengthsOK
<1> QED
  BY <1>2, <1>4, <1>5, <1>6, <1>7, <1>8, QueueIsOf DEF BInv, Fifo!Init

LEMMA NextBInv ==
  ASSUME InTime, Wired, IInv, BInv, [Next]_vars
  PROVE  BInv' /\ FifoStep
<1>1. CASE UNCHANGED vars
  <2>1. AdcOK /\ MagOK
    BY DEF BInv
  <2>2. UNCHANGED <<spi, trans, at, max1168, ms2100, converting>>
    BY <1>1 DEF vars
  <2>3. Did({}, spi.suspend)
    BY <2>2, DidFrame
  <2>4. AdcOK' /\ MagOK'
    BY <2>1, <2>2, <2>3, AdcApart, MagApart
  <2> QED
    BY <2>3, <2>4 DEF Did, BInv
<1>2. CASE MainLoop
  BY <1>2, LoopKeeps
<1>3. CASE DmaInterrupt
  BY <1>3, DmaKeeps
<1>4. CASE DmaWord \/ Max1168EndOfConversion \/ Ms2100EndOfConversion
  BY <1>4, QuietKeeps
<1> QED
  BY <1>1, <1>2, <1>3, <1>4 DEF Next

-----------------------------------------------------------------------------
(* On the board of the IMU, for every length of the ring that holds the    *)
(* five transactions and for every length of these, the pins, the lock and *)
(* the statuses agree with what is in the ring, and each device is where   *)
(* its driver takes it to be.                                              *)
THEOREM BusInductive ==
  ASSUME InTime, Wired
  PROVE  Spec => [](IInv /\ BInv)
<1>1. Init => IInv /\ BInv
  BY InitIInv, InitBInv
<1>2. IInv /\ BInv /\ [Next]_vars => (IInv /\ BInv)'
  BY NextIInv, NextBInv
<1> QED
  BY <1>1, <1>2, PTL DEF Spec

(* Two slaves never drive the bus: the one that is selected is the one     *)
(* whose transaction is exchanged, or has locked the fifo                  *)
(* (SpiSlaveSelect and SpiSlaveUnselect of spi_arch.c).                    *)
THEOREM BusIsExclusive ==
  ASSUME InTime, Wired
  PROVE  Spec => []BusExclusive
<1>1. IInv /\ BInv => BusExclusive
  <2> SUFFICES ASSUME IInv, BInv
               PROVE  BusExclusive
    OBVIOUS
  <2>1. FifoOK(QueueOf(spi), spi) /\ spi \in SpiType
    BY NowIs DEF BInv, BusOK, IInv, PInv, TypeOf
  <2>2. CASE spi.running
    BY <2>1, <2>2, QueueIs DEF FifoOK, BusExclusive
  <2>3. CASE ~ spi.running
    BY <2>1, <2>3 DEF FifoOK, BusExclusive
  <2> QED
    BY <2>2, <2>3
<1> QED
  BY <1>1, BusInductive, PTL

(* A driver at rest, or with values to be taken, has no transaction under  *)
(* way: nothing is written to a buffer that its reader holds               *)
(* (max1168_event, ms2100_event).                                          *)
THEOREM BuffersAreOwn ==
  ASSUME InTime, Wired
  PROVE  Spec => []OwnBuffers
<1>1. IInv /\ BInv => OwnBuffers
  <2> SUFFICES ASSUME IInv, BInv
               PROVE  OwnBuffers
    OBVIOUS
  <2>1. spi \in SpiType /\ AdcOK /\ MagOK /\ StatusOK(QueueOf(spi), spi.running, trans)
    BY NowIs DEF BInv, BusOK, IInv, PInv, TypeOf
  <2>2. Len(QueueOf(spi)) = Waiting
    BY <2>1, QueueIs DEF Waiting, WaitingOf
  <2>3. \A t \in Drivers : t \in Queued <=> trans[t].status \in Busy
    BY <2>1, <2>2, QueueIsOf DEF StatusOK, Queued
  <2>4. ASSUME max1168 \in {"IDLE", "DATA_AVAILABLE"}, at \notin {"max1168_read", "max1168_sent"}
        PROVE  {"max1168_req", "max1168_read"} \cap Queued = {}
    BY <2>1, <2>3, <2>4 DEF AdcOK, AdcPhase, Busy, Drivers
  <2>5. ASSUME ms2100 = "IDLE", at # "ms2100_sent"
        PROVE  {"ms2100_req", "ms2100_read"} \cap Queued = {}
    BY <2>1, <2>3, <2>5 DEF MagOK, MagPhase, Busy, Drivers
  <2> QED
    BY <2>4, <2>5 DEF OwnBuffers
<1> QED
  BY <1>1, BusInductive, PTL

(* The driver, with its ring, its two DMA and their interrupts, implements *)
(* the fifo that its users are promised (mcu_periph/spi.h).                *)
THEOREM DriverImplementsFifo ==
  ASSUME InTime, Wired
  PROVE  Spec => ImplementsFifo
<1>1. Init => Fifo!Init
  BY InitBInv
<1>2. IInv /\ BInv /\ [Next]_vars => [Fifo!Next]_(Fifo!vars)
  BY NextBInv DEF FifoStep
<1> QED
  BY <1>1, <1>2, BusInductive, PTL DEF Spec, ImplementsFifo, Fifo!Spec
=============================================================================
