-------------------------- MODULE JTAG_UART_proofs --------------------------
(***************************************************************************)
(* Theorems about the two drivers of the JTAG UART (JTAG_UART_SMALL and    *)
(* JTAG_UART_FAST, as MC_Console composes them): the bytes cross in order  *)
(* and none is lost, for every ring length, FIFO depth, threshold, timeout *)
(* and length of the two streams.                                          *)
(***************************************************************************)
EXTENDS MC_Console, SequenceTheorems, TLAPS

\* How far slot b is from slot a: (b - a) % BUF_LEN.
Ahead(a, b) == IF a <= b THEN b - a ELSE b - a + BUF_LEN
TxQueued == Ahead(tx_out, tx_in)
RxQueued == Ahead(rx_out, rx_in)

\* The labels of a write call.
Writing == {"w_copy", "w_fill", "w_publish", "w_kick", "w_spin", "w_check"}

\* Every byte a write has accepted is with the host, in the FIFO or in the ring, in that
\* order: the three together are 1, 2, ..., accepted.
TxOrder ==
  /\ accepted = Len(delivered) + Len(wfifo) + TxQueued
  /\ \A i \in 1..Len(delivered) : delivered[i] = i
  /\ \A i \in 1..Len(wfifo) : wfifo[i] = Len(delivered) + i
  /\ \A s \in Slots : Ahead(tx_out, s) < TxQueued =>
       tx_buf[s] = Len(delivered) + Len(wfifo) + 1 + Ahead(tx_out, s)

\* A write between its look at the ring and its update of tx_in.
TxWriter ==
  /\ space + Len(wfifo) <= FIFO_DEPTH
  /\ pc \in Writing => accepted + left <= MaxWritten
  /\ pc \in {"w_fill", "w_publish"} =>
       in = tx_in /\ n \in 1..left /\ in + n <= BUF_LEN /\ n + TxQueued < BUF_LEN
  /\ pc = "w_publish" => \A s \in in..in + n - 1 : tx_buf[s] = accepted + 1 + s - in

\* A read that has copied its bytes but not yet moved rx_out holds them twice.
Taken == IF pc = "r_publish" THEN Len(got) - n ELSE Len(got)

\* Every byte the host has sent is with the program, in the ring or in the FIFO.
RxOrder ==
  /\ sent = Taken + RxQueued + Len(rfifo)
  /\ \A i \in 1..Len(got) : got[i] = i
  /\ \A i \in 1..Len(rfifo) : rfifo[i] = Taken + RxQueued + i
  /\ \A s \in Slots : Ahead(rx_out, s) < RxQueued => rx_buf[s] = Taken + 1 + Ahead(rx_out, s)

\* A read between its look at the ring and its update of rx_out.
RxReader ==
  /\ pc \in {"r_fill", "r_publish"} => out = rx_out /\ n \in 1..RxQueued /\ out + n <= BUF_LEN
  /\ pc = "r_fill" => n <= left
  /\ pc = "r_publish" => moved > 0 /\ n <= Len(got)

\* What the driver believes it has enabled is what the device has enabled, and nobody
\* sleeps on an interrupt that cannot come.
Enables ==
  /\ ien_AE <=> "WE" \in irq_enable
  /\ ien_AF <=> "RE" \in irq_enable
  /\ NoLostWakeup /\ ReceiveComesBack

\* The routine is not called for nothing: what a pause or the threshold announces is in
\* the FIFO until the routine takes it, and then it is in the ring.
Found ==
  /\ pause_irq => rfifo # <<>>
  /\ isr = "rx" => rfifo # <<>> \/ rx_in # rx_out
  /\ isr = "rx_end" => rx_in # rx_out

\* The count of idle periods never passes an infinite timeout.
Patience ==
  /\ host_inactive <= INT_MAX - 2
  /\ (pc = "w_kick" /\ left > 0) \/ pc \in {"w_spin", "w_check"} => Following(tx_in) = out
  /\ pc = "w_check" /\ out = tx_out => timeout < INT_MAX - 1

\* The inductive invariant of the interrupt-driven driver.
FastInv == TypeOK /\ TxOrder /\ TxWriter /\ RxOrder /\ RxReader /\ Enables /\ Found /\ Patience

-----------------------------------------------------------------------------
(* The arithmetic of rings. *)

\* A sum stays within its bound when a term of it shrinks.
LEMMA SumBound ==
  ASSUME NEW a \in Int, NEW b \in Int, NEW c \in Int, NEW d \in Int, d <= b
  PROVE  (a + b <= c => a + d <= c) /\ (b + a < c => d + a < c)
OBVIOUS

\* Following, without its remainder.
LEMMA FollowingCases ==
  ASSUME NEW a \in Slots
  PROVE  Following(a) \in Slots /\ Following(a) = (IF a + 1 = BUF_LEN THEN 0 ELSE a + 1)
<1>1. BUF_LEN \in Nat \ {0, 1}
  BY ConsoleAssumption DEF FastAssumption
<1> QED
  BY <1>1 DEF Following, Slots

\* A pointer that moves by k up to the end of the array wraps at the end only.
LEMMA StepCases ==
  ASSUME NEW a \in Slots, NEW k \in Nat, a + k <= BUF_LEN
  PROVE  (a + k) % BUF_LEN \in Slots
         /\ (a + k) % BUF_LEN = (IF a + k = BUF_LEN THEN 0 ELSE a + k)
<1>1. BUF_LEN \in Nat \ {0, 1}
  BY ConsoleAssumption DEF FastAssumption
<1> QED
  BY <1>1 DEF Slots

-----------------------------------------------------------------------------
\* TypeOK in parts, spelt out.
FlagTypes ==
  ien_AF \in BOOLEAN /\ ien_AE \in BOOLEAN /\ pause_irq \in BOOLEAN /\ ac \in BOOLEAN
DeviceTypes ==
  /\ wfifo \in Seq(Nat) /\ Len(wfifo) <= FIFO_DEPTH
  /\ rfifo \in Seq(1..MaxSent) /\ Len(rfifo) <= FIFO_DEPTH
  /\ delivered \in Seq(Nat) /\ sent \in 0..MaxSent
WatchTypes ==
  timeout \in 2..INT_MAX /\ host_inactive \in 0..INT_MAX /\ irq_enable \subseteq {"RE", "WE"}
RingTypes ==
  /\ rx_in \in Slots /\ rx_out \in Slots /\ tx_in \in Slots /\ tx_out \in Slots
  /\ rx_buf \in [Slots -> 0..MaxSent] /\ tx_buf \in [Slots -> 0..MaxWritten]
  /\ accepted \in 0..MaxWritten /\ got \in Seq(1..MaxSent)
ProgramTypes ==
  /\ pc \in Labels /\ left \in Nat /\ nonblock \in BOOLEAN
  /\ in \in Slots /\ out \in Slots /\ n \in 0..BUF_LEN /\ moved \in Nat /\ ret \in Int
RoutineTypes ==
  /\ isr \in {"off", "poll", "rx", "rx_end", "tx", "tx_end"}
  /\ control \subseteq {"RI", "WI"} /\ space \in 0..FIFO_DEPTH /\ data \in 0..FIFO_DEPTH

\* The parts are the whole.
LEMMA TypeParts ==
  TypeOK <=> FlagTypes /\ DeviceTypes /\ WatchTypes /\ RingTypes /\ ProgramTypes /\ RoutineTypes
BY DEF TypeOK, JtagTypeOK, FlagTypes, DeviceTypes, WatchTypes, RingTypes, ProgramTypes, RoutineTypes

\* What the assumptions say of the constants.
LEMMA Constants ==
  /\ FIFO_DEPTH \in Nat \ {0} /\ BUF_LEN \in Nat \ {0, 1} /\ INT_MAX \in Nat
  /\ MaxWritten \in Nat /\ MaxSent \in Nat /\ MaxSpace \in Nat
  /\ DEFAULT_TIMEOUT \in 2..INT_MAX - 3 /\ Timeouts \subseteq Int
BY ConsoleAssumption DEF FastAssumption, JtagAssumption

\* The invariant's types, spelt out.
LEMMA Types ==
  ASSUME TypeOK
  PROVE  /\ rx_in \in Slots /\ rx_out \in Slots /\ tx_in \in Slots /\ tx_out \in Slots
         /\ in \in Slots /\ out \in Slots
         /\ n \in Nat /\ moved \in Nat /\ left \in Nat /\ accepted \in Nat /\ sent \in Nat
         /\ delivered \in Seq(Nat) /\ wfifo \in Seq(Nat)
         /\ got \in Seq(1..MaxSent) /\ rfifo \in Seq(1..MaxSent)
         /\ Len(delivered) \in Nat /\ Len(wfifo) \in Nat /\ Len(got) \in Nat /\ Len(rfifo) \in Nat
         /\ tx_buf \in [Slots -> 0..MaxWritten] /\ rx_buf \in [Slots -> 0..MaxSent]
         /\ space \in Nat /\ data \in Nat
<1>1. DeviceTypes /\ RingTypes /\ ProgramTypes /\ RoutineTypes
  BY TypeParts
<1>2. accepted \in Nat /\ sent \in Nat /\ n \in Nat /\ space \in Nat /\ data \in Nat
  BY <1>1, Constants DEF DeviceTypes, RingTypes, ProgramTypes, RoutineTypes
<1>3. Len(delivered) \in Nat /\ Len(wfifo) \in Nat /\ Len(got) \in Nat /\ Len(rfifo) \in Nat
  BY <1>1, LenProperties DEF DeviceTypes, RingTypes
<1> QED
  BY <1>1, <1>2, <1>3 DEF DeviceTypes, RingTypes, ProgramTypes

\* The drivers start with empty rings, over an empty device.
LEMMA InitFastInv == Init => FastInv
<1> SUFFICES ASSUME Init PROVE FastInv
  OBVIOUS
<1> USE ConsoleAssumption DEF FastAssumption, JtagAssumption, Init, JtagReset
<1>1. TypeOK
  <2>1. FlagTypes
    BY DEF FlagTypes
  <2>4. WatchTypes
    BY DEF WatchTypes
  <2>2. DeviceTypes /\ RoutineTypes
    BY DEF DeviceTypes, RoutineTypes
  <2>3. RingTypes
    BY DEF RingTypes, Slots
  <2>5. ProgramTypes
    <3>1. 0 \in Slots /\ pc \in Labels
      BY DEF Slots, Labels
    <3>2. left \in Nat /\ n \in 0..BUF_LEN /\ moved \in Nat
      OBVIOUS
    <3>3. nonblock \in BOOLEAN
      OBVIOUS
    <3>5. ret \in Int
      OBVIOUS
    <3>4. in \in Slots /\ out \in Slots
      BY <3>1
    <3> QED
      BY <3>1, <3>2, <3>3, <3>4, <3>5 DEF ProgramTypes
  <2> QED
    BY <2>1, <2>2, <2>3, <2>4, <2>5, TypeParts
<1>2. TxQueued = 0 /\ RxQueued = 0
  BY DEF TxQueued, RxQueued, Ahead
<1>3. TxOrder /\ RxOrder
  BY <1>2 DEF TxOrder, RxOrder, Taken, Slots, Ahead
<1>4. TxWriter /\ RxReader /\ Patience
  BY DEF TxWriter, RxReader, Patience, Writing
<1>5. Enables
  BY DEF Enables, NoLostWakeup, ReceiveComesBack
<1>6. Found
  BY DEF Found
<1> QED
  BY <1>1, <1>3, <1>4, <1>5, <1>6 DEF FastInv


USE DEF device, host, watch, rings, local, routine, ledger, At, Goto, In, Inside

\* A write fills slots beyond those that are queued.
LEMMA WriteFillOrder ==
  ASSUME FastInv, WriteFill
  PROVE TxOrder'
<1>0. BUF_LEN \in Nat \ {0, 1} /\ tx_in \in Slots /\ tx_out \in Slots /\ n \in Nat
  BY Types, Constants DEF FastInv
<1>1. /\ pc = "w_fill" /\ in = tx_in /\ in + n <= BUF_LEN /\ n + TxQueued < BUF_LEN
      /\ UNCHANGED <<accepted, delivered, wfifo, tx_in, tx_out>>
  BY DEF WriteFill, FastInv, TxWriter, At, Goto
<1>2. ASSUME NEW s \in Slots, Ahead(tx_out, s) < TxQueued
      PROVE  tx_buf'[s] = tx_buf[s]
  <2>1. s \notin in..in + n - 1
    BY <1>0, <1>1, <1>2 DEF TxQueued, Slots, Ahead
  <2> QED
    BY <2>1, <1>1 DEF WriteFill
<1>3. TxQueued' = TxQueued
  BY <1>1 DEF TxQueued, Ahead
<1> QED
  BY <1>1, <1>2, <1>3 DEF TxOrder, Ahead, FastInv
 
\* Moving tx_in over the slots just filled queues the next bytes of the stream.
LEMMA WritePublishOrder ==
  ASSUME FastInv, WritePublish
  PROVE TxOrder'
<1>0. BUF_LEN \in Nat \ {0, 1} /\ tx_in \in Slots /\ tx_out \in Slots /\ n \in Nat
      /\ Len(wfifo) \in Nat /\ Len(delivered) \in Nat /\ accepted \in Nat
  BY Types, Constants DEF FastInv
<1>1. /\ pc = "w_publish" /\ in = tx_in /\ in + n <= BUF_LEN /\ n + TxQueued < BUF_LEN
      /\ UNCHANGED <<delivered, wfifo, tx_out, tx_buf>>
      /\ tx_in' = (tx_in + n) % BUF_LEN /\ accepted' = accepted + n
      /\ \A s \in tx_in..tx_in + n - 1 : tx_buf[s] = accepted + 1 + s - tx_in
  BY DEF WritePublish, FastInv, TxWriter, At, Goto
<1>2. TxQueued' = TxQueued + n /\ TxQueued \in Nat
  <2>1. tx_in' = (IF tx_in + n = BUF_LEN THEN 0 ELSE tx_in + n)
    BY <1>0, <1>1, StepCases
  <2> QED
    BY <1>0, <1>1, <2>1 DEF TxQueued, Slots, Ahead
<1>3. ASSUME NEW s \in Slots, Ahead(tx_out, s) < TxQueued + n
      PROVE  tx_buf[s] = Len(delivered) + Len(wfifo) + 1 + Ahead(tx_out, s)
  <2>1. CASE Ahead(tx_out, s) < TxQueued
    BY <2>1 DEF TxOrder, FastInv
  <2>2. CASE ~(Ahead(tx_out, s) < TxQueued)
    <3>1. s \in tx_in..tx_in + n - 1 /\ Ahead(tx_out, s) = TxQueued + s - tx_in
      BY <1>0, <1>1, <1>3, <2>2 DEF TxQueued, Slots, Ahead
    <3>2. tx_buf[s] = accepted + 1 + s - tx_in
      BY <3>1, <1>1
    <3>3. accepted = Len(delivered) + Len(wfifo) + TxQueued
      BY DEF TxOrder, FastInv
    <3> QED
      BY <3>1, <3>2, <3>3, <1>0, <1>2 DEF Slots
  <2> QED
    BY <2>1, <2>2
<1>5. accepted' = Len(delivered) + Len(wfifo) + TxQueued'
  BY <1>0, <1>1, <1>2 DEF TxOrder, FastInv
<1> QED
  BY <1>1, <1>2, <1>3, <1>5 DEF TxOrder, Ahead, FastInv

\* The routine moves the oldest byte of the ring behind those in the FIFO.
LEMMA TransmitOrder ==
  ASSUME FastInv, IsrTransmit
  PROVE TxOrder'
<1>0. BUF_LEN \in Nat \ {0, 1} /\ tx_in \in Slots /\ tx_out \in Slots
      /\ wfifo \in Seq(Nat) /\ delivered \in Seq(Nat) /\ accepted \in Nat /\ space \in Nat
      /\ FIFO_DEPTH \in Nat
  BY Types, Constants DEF FastInv
<1>1. /\ tx_out # tx_in /\ wfifo' = Append(wfifo, tx_buf[tx_out])
      /\ UNCHANGED <<delivered, accepted, tx_in, tx_buf>>
      /\ tx_out' = (IF tx_out + 1 = BUF_LEN THEN 0 ELSE tx_out + 1)
  BY <1>0, FollowingCases DEF IsrTransmit, In, Inside, WriteData, FastInv, TxWriter
<1>2. TxQueued' = TxQueued - 1 /\ Len(wfifo') = Len(wfifo) + 1 /\ TxQueued \in Nat
  BY <1>0, <1>1 DEF TxQueued, Slots, Ahead
<1>3. ASSUME NEW s \in Slots, Ahead(tx_out', s) < TxQueued'
      PROVE  Ahead(tx_out', s) = Ahead(tx_out, s) - 1 /\ Ahead(tx_out, s) < TxQueued
  BY <1>0, <1>1, <1>3 DEF TxQueued, Slots, Ahead
<1>4. tx_buf[tx_out] = Len(delivered) + Len(wfifo) + 1
  <2>1. Ahead(tx_out, tx_out) = 0 /\ 0 < TxQueued
    BY <1>0, <1>1 DEF TxQueued, Slots, Ahead
  <2> QED
    BY <1>0, <2>1 DEF TxOrder, FastInv
<1>5. accepted' = Len(delivered') + Len(wfifo') + TxQueued'
  BY <1>0, <1>1, <1>2 DEF TxOrder, FastInv
<1>6. \A i \in 1..Len(wfifo') : wfifo'[i] = Len(delivered') + i
  <2> SUFFICES ASSUME NEW i \in 1..Len(wfifo) + 1
               PROVE  Append(wfifo, tx_buf[tx_out])[i] = Len(delivered) + i
    BY <1>1, <1>2
  <2>1. CASE i = Len(wfifo) + 1
    BY <2>1, <1>0, <1>4
  <2>2. CASE i \in 1..Len(wfifo)
    BY <2>2, <1>0 DEF TxOrder, FastInv
  <2> QED
    BY <2>1, <2>2, <1>0
<1>7. ASSUME NEW s \in Slots, Ahead(tx_out', s) < TxQueued'
      PROVE tx_buf[s] = Len(delivered) + Len(wfifo') + 1 + Ahead(tx_out', s)
  <2>1. Ahead(tx_out, s) \in Int
    BY <1>0 DEF Ahead, Slots
  <2> QED
    BY <1>0, <1>2, <1>3, <1>7, <2>1 DEF TxOrder, FastInv
<1> QED
  BY <1>1, <1>2, <1>5, <1>6, <1>7 DEF TxOrder, FastInv

\* The calls, and the steps, by what they are made of: expanded where they occur.
USE DEF Write, Read, Close, GetConnected, SetTimeout, Call,
  WriteCopy, WriteFill, WritePublish, WriteKick, WriteSpin, WriteCheck,
  ReadCopy, ReadFill, ReadPublish, ReadSpin, ReadCheck, ReadDone, CloseWait, Spin,
  IsrEnter, IsrPoll, IsrReceive, IsrReceiveFull, IsrReceiveEnd, IsrTransmit, IsrTransmitEnd,
  Timeout, Host

\* A sequence of one element.
LEMMA OneElement ==
  ASSUME NEW S, NEW x \in S
  PROVE  <<x>> \in Seq(S) /\ Len(<<x>>) = 1 /\ <<x>>[1] = x
BY SMT

\* What is left of a sequence without its first element, if it has one.
LEMMA RestIsSequence ==
  ASSUME NEW S, NEW s \in Seq(S)
  PROVE  (IF s # <<>> THEN Tail(s) ELSE s) \in Seq(S)
<1>1. CASE s = <<>>
  BY <1>1
<1>2. CASE s # <<>>
  BY <1>2, HeadTailProperties
<1> QED
  BY <1>1, <1>2

\* A read of DATA takes the first byte, if there is one, and may let one byte in.
LEMMA ReadDataValues ==
  ASSUME FastInv, NEW late \in BOOLEAN, ReadData(late),
         NEW k \in Nat, k = (IF rfifo # <<>> THEN 1 ELSE 0),
         NEW m \in Nat, m = (IF late THEN 1 ELSE 0)
  PROVE  /\ rfifo' \in Seq(1..MaxSent) /\ Len(rfifo') <= FIFO_DEPTH
         /\ sent' \in 0..MaxSent /\ sent' = sent + m
         /\ Len(rfifo') = Len(rfifo) - k + m
         /\ \A i \in 1..Len(rfifo) - k : rfifo'[i] = rfifo[i + k]
         /\ m = 1 => rfifo'[Len(rfifo) - k + 1] = sent + 1
<1> DEFINE rest == IF rfifo # <<>> THEN Tail(rfifo) ELSE rfifo
           new == IF late THEN <<sent + 1>> ELSE <<>>
<1>0. /\ rfifo \in Seq(1..MaxSent) /\ sent \in 0..MaxSent /\ MaxSent \in Nat /\ FIFO_DEPTH \in Nat
      /\ Len(rfifo) \in Nat /\ Len(rfifo) <= FIFO_DEPTH
      /\ late => sent < MaxSent /\ Len(rfifo) < FIFO_DEPTH
  BY Types, TypeParts, Constants DEF FastInv, DeviceTypes, ReadData
<1>1. rest \in Seq(1..MaxSent) /\ Len(rest) = Len(rfifo) - k /\ \A i \in 1..Len(rest) : rest[i] = rfifo[i + k]
  <2>1. CASE rfifo = <<>>
    BY <1>0, <2>1
  <2>2. CASE rfifo # <<>>
    BY <1>0, <2>2, HeadTailProperties
  <2> QED
    BY <2>1, <2>2
<1>2. new \in Seq(1..MaxSent) /\ Len(new) = m /\ (m = 1 => new[1] = sent + 1)
  <2>1. CASE late
    <3>1. sent + 1 \in 1..MaxSent /\ new = <<sent + 1>>
      BY <1>0, <2>1
    <3>2. new \in Seq(1..MaxSent) /\ Len(new) = 1 /\ new[1] = sent + 1
      <4> HIDE DEF new
      <4> QED
        BY <3>1, OneElement, Zenon
    <3> QED
      BY <2>1, <3>2
  <2>2. CASE ~late
    BY <2>2
  <2> QED
    BY <2>1, <2>2
<1>3. rfifo' = rest \o new /\ sent' = sent + m
  BY <1>0 DEF ReadData, RVALID
<1> HIDE DEF rest, new
<1>4. /\ rfifo' \in Seq(1..MaxSent) /\ Len(rfifo') = Len(rest) + m
      /\ \A i \in 1..Len(rest) : rfifo'[i] = rest[i]
      /\ m = 1 => rfifo'[Len(rest) + 1] = new[1]
  <2>1. rest \o new \in Seq(1..MaxSent) /\ Len(rest \o new) = Len(rest) + Len(new)
    BY <1>1, <1>2, ConcatProperties
  <2>2. \A i \in 1..Len(rest) + Len(new) :
          (rest \o new)[i] = IF i <= Len(rest) THEN rest[i] ELSE new[i - Len(rest)]
    BY <1>1, <1>2, ConcatProperties
  <2>3. Len(rest) \in Nat
    BY <1>1
  <2>4. \A i \in 1..Len(rest) : (rest \o new)[i] = rest[i]
    BY <1>2, <2>2, <2>3
  <2>5. m = 1 => (rest \o new)[Len(rest) + 1] = new[1]
    <3> SUFFICES ASSUME m = 1 PROVE (rest \o new)[Len(rest) + 1] = new[1]
      OBVIOUS
    <3>1. Len(rest) + 1 \in 1..Len(rest) + Len(new) /\ ~(Len(rest) + 1 <= Len(rest))
          /\ Len(rest) + 1 - Len(rest) = 1
      BY <1>2, <2>3
    <3> QED
      BY <2>2, <3>1
  <2> QED
    BY <1>2, <1>3, <2>1, <2>4, <2>5
<1>5. Len(rfifo') <= FIFO_DEPTH /\ sent' \in 0..MaxSent
  BY <1>0, <1>1, <1>3, <1>4
<1> QED
  BY <1>1, <1>2, <1>3, <1>4, <1>5

\* TypeOK is preserved, part by part: the enables and flags of the device.
LEMMA FlagStep ==
  ASSUME FastInv, Next
  PROVE FlagTypes'
<1>0. FlagTypes
  BY TypeParts DEF FastInv
<1>1. CASE UNCHANGED <<ien_AF, ien_AE, pause_irq, ac>>
  BY <1>0, <1>1 DEF FlagTypes
<1>2. ASSUME NEW e, NEW c, WriteControl(e, c) PROVE FlagTypes'
  <2>0. ("RE" \in e) \in BOOLEAN /\ ("WE" \in e) \in BOOLEAN
    OBVIOUS
  <2>1. ien_AF' \in BOOLEAN
    BY <1>2, <2>0 DEF WriteControl
  <2>2. ien_AE' \in BOOLEAN
    BY <1>2, <2>0 DEF WriteControl
  <2>3. ac' \in BOOLEAN
    BY <1>2, Zenon DEF WriteControl
  <2> QED
    BY <2>1, <2>2, <2>3, <1>2, <1>0 DEF FlagTypes, WriteControl
<1>3. ASSUME NEW late \in BOOLEAN, ReadData(late) PROVE FlagTypes'
  <2>1. ac' \in BOOLEAN /\ UNCHANGED <<ien_AF, ien_AE>> /\ pause_irq' = FALSE
    BY <1>0, <1>3, Zenon DEF FlagTypes, ReadData
  <2> QED
    BY <1>0, <2>1 DEF FlagTypes
<1>4. CASE HostActs
  BY <1>0, <1>4, Zenon DEF FlagTypes, HostActs, HostTakes, HostSends, HostPauses
<1> QED
  BY <1>1, <1>2, <1>3, <1>4 DEF Next, Driver, Copying, Waiting, Isr, Calls, WriteData

\* The FIFOs and the host's streams.
LEMMA DeviceStep ==
  ASSUME FastInv, Next
  PROVE DeviceTypes'
<1>0. DeviceTypes /\ tx_buf \in [Slots -> 0..MaxWritten] /\ tx_out \in Slots
      /\ MaxWritten \in Nat /\ FIFO_DEPTH \in Nat /\ MaxSent \in Nat
  BY TypeParts, Constants DEF FastInv, RingTypes
<1>1. CASE UNCHANGED <<wfifo, rfifo, delivered, sent>>
  BY <1>0, <1>1 DEF DeviceTypes
<1>3. ASSUME NEW late \in BOOLEAN, ReadData(late) PROVE DeviceTypes'
  <2>1. rfifo' \in Seq(1..MaxSent) /\ Len(rfifo') <= FIFO_DEPTH /\ sent' \in 0..MaxSent
    BY <1>3, ReadDataValues
  <2> QED
    BY <1>0, <1>3, <2>1 DEF DeviceTypes, ReadData
<1>4. CASE IsrTransmit
  BY <1>0, <1>4 DEF DeviceTypes, WriteData
<1>5. CASE HostTakes
  BY <1>0, <1>5 DEF DeviceTypes, HostTakes
<1>6. CASE HostSends
  BY <1>0, <1>6 DEF DeviceTypes, HostSends
<1> QED
  BY <1>1, <1>3, <1>4, <1>5, <1>6
     DEF Next, Driver, Copying, Waiting, Isr, Calls, WriteControl, HostActs, HostPauses

\* The watchdog on the host.
LEMMA WatchStep ==
  ASSUME FastInv, Next
  PROVE WatchTypes'
<1>0. WatchTypes /\ INT_MAX \in Nat /\ DEFAULT_TIMEOUT \in 2..INT_MAX - 3 /\ Timeouts \subseteq Int
  BY TypeParts, Constants DEF FastInv
<1>1. CASE UNCHANGED <<timeout, host_inactive, irq_enable>>
  BY <1>0, <1>1 DEF WatchTypes
<1>2. CASE Timeout
  <2>1. host_inactive \in 0..INT_MAX - 2
    BY <1>0 DEF WatchTypes, FastInv, Patience
  <2>2. host_inactive' \in 0..INT_MAX
    <3>1. CASE ac
      BY <1>0, <1>2, <3>1
    <3>2. CASE ~ac
      BY <1>0, <1>2, <2>1, <3>2
    <3> QED
      BY <3>1, <3>2
  <2> QED
    BY <1>0, <1>2, <2>2 DEF WatchTypes
<1>3. ASSUME NEW t \in Timeouts, SetTimeout(t) PROVE WatchTypes'
  BY <1>0, <1>3 DEF WatchTypes
<1>4. CASE WriteKick \/ ReadDone \/ IsrReceiveEnd \/ IsrTransmitEnd
  BY <1>0, <1>4 DEF WatchTypes
<1> QED
  BY <1>1, <1>2, <1>3, <1>4 DEF Next, Driver, Copying, Waiting, Isr, Calls

\* What a write copies are the program's next bytes.
LEMMA WriteFillValues ==
  ASSUME FastInv, WriteFill
  PROVE  tx_buf' \in [Slots -> 0..MaxWritten]
<1>1. /\ tx_buf \in [Slots -> 0..MaxWritten] /\ MaxWritten \in Nat /\ accepted \in Nat /\ left \in Nat
      /\ in \in Slots /\ n \in 1..left /\ accepted + left <= MaxWritten
  BY Types, Constants DEF FastInv, TxWriter, Writing
<1>2. ASSUME NEW i \in Slots
      PROVE  (IF i \in in..in + n - 1 THEN accepted + 1 + i - in ELSE tx_buf[i]) \in 0..MaxWritten
  BY <1>1 DEF Slots
<1> QED
  BY <1>2

\* What a read copies are bytes the host has sent.
LEMMA ReadFillValues ==
  ASSUME FastInv, ReadFill
  PROVE  /\ \A i \in 1..n : rx_buf[out + i - 1] = Len(got) + i
         /\ Len(got) + n <= sent /\ n \in Nat \ {0} /\ n <= left
         /\ got' \in Seq(1..MaxSent) /\ Len(got') = Len(got) + n
         /\ \A i \in 1..Len(got') : got'[i] = i
<1>1. /\ n \in 1..RxQueued /\ out = rx_out /\ out + n <= BUF_LEN /\ out \in Slots /\ rx_in \in Slots
      /\ BUF_LEN \in Nat \ {0, 1} /\ Len(got) \in Nat /\ sent \in 0..MaxSent /\ Len(rfifo) \in Nat
      /\ sent = Len(got) + RxQueued + Len(rfifo) /\ got \in Seq(1..MaxSent) /\ MaxSent \in Nat
      /\ n <= left
  BY Types, Constants, TypeParts DEF FastInv, RxReader, RxOrder, Taken, DeviceTypes
<1>2. RxQueued \in Nat /\ n \in Nat \ {0}
  BY <1>1 DEF RxQueued, Ahead, Slots
<1>3. ASSUME NEW i \in 1..n
      PROVE  rx_buf[out + i - 1] = Len(got) + i /\ rx_buf[out + i - 1] \in 1..MaxSent
  <2>1. out + i - 1 \in Slots /\ Ahead(rx_out, out + i - 1) = i - 1 /\ i - 1 < RxQueued
    <3>1. out + i - 1 \in Slots /\ i - 1 < RxQueued /\ out <= out + i - 1
      BY <1>1, <1>2 DEF Slots
    <3> QED
      BY <1>1, <3>1 DEF Slots, Ahead
  <2>2. rx_buf[out + i - 1] = Len(got) + 1 + Ahead(rx_out, out + i - 1)
    BY <2>1 DEF FastInv, RxOrder, Taken
  <2>3. rx_buf[out + i - 1] = Len(got) + i
    BY <1>1, <2>1, <2>2
  <2>4. Len(got) + i \in 1..MaxSent
    BY <1>1, <1>2
  <2> QED
    BY <2>3, <2>4
<1>4. Len(got) + n <= sent
  BY <1>1, <1>2
<1> DEFINE more == [i \in 1..n |-> rx_buf[out + i - 1]]
<1>5. more \in Seq(1..MaxSent) /\ Len(more) = n /\ got' = got \o more
  BY <1>2, <1>3
<1>6. /\ got' \in Seq(1..MaxSent) /\ Len(got') = Len(got) + n
      /\ \A i \in 1..Len(got) + n : got'[i] = IF i <= Len(got) THEN got[i] ELSE more[i - Len(got)]
  BY <1>1, <1>2, <1>5, ConcatProperties
<1>7. ASSUME NEW i \in 1..Len(got) + n PROVE got'[i] = i
  <2>1. CASE i <= Len(got)
    BY <1>1, <1>2, <1>6, <2>1 DEF FastInv, RxOrder
  <2>2. CASE i > Len(got)
    <3>1. i - Len(got) \in 1..n
      BY <1>1, <1>2, <2>2
    <3>2. got'[i] = more[i - Len(got)] /\ more[i - Len(got)] = rx_buf[out + (i - Len(got)) - 1]
      BY <1>1, <1>2, <1>6, <2>2, <3>1
    <3>3. rx_buf[out + (i - Len(got)) - 1] = Len(got) + (i - Len(got))
      BY <1>3, <3>1
    <3>4. Len(got) + (i - Len(got)) = i
      BY <1>1
    <3> QED
      BY <3>2, <3>3, <3>4
  <2>3. i <= Len(got) \/ i > Len(got)
    BY <1>1
  <2> QED
    BY <2>1, <2>2, <2>3
<1> HIDE DEF more
<1> QED
  BY <1>1, <1>2, <1>3, <1>4, <1>6, <1>7

\* The rings and the program's streams.
LEMMA RingStep ==
  ASSUME FastInv, Next
  PROVE  RingTypes'
<1>0. RingTypes /\ DeviceTypes /\ n \in Nat /\ left \in Nat /\ in \in Slots /\ out \in Slots
      /\ MaxWritten \in Nat /\ MaxSent \in Nat
  BY TypeParts, Types, Constants DEF FastInv
<1>1. CASE UNCHANGED <<rings, accepted, got>>
  BY <1>0, <1>1 DEF RingTypes
<1>2. CASE WriteFill
  BY <1>0, <1>2, WriteFillValues DEF RingTypes
<1>3. CASE WritePublish
  <2>1. in + n <= BUF_LEN /\ n <= left /\ accepted + left <= MaxWritten
    BY <1>0, <1>3 DEF FastInv, TxWriter, Writing
  <2>2. tx_in' \in Slots
    BY <1>0, <1>3, <2>1, StepCases
  <2>3. accepted' \in 0..MaxWritten
    BY <1>0, <1>3, <2>1 DEF RingTypes
  <2> QED
    BY <1>0, <1>3, <2>2, <2>3 DEF RingTypes
<1>4. CASE ReadFill
  BY <1>0, <1>4, ReadFillValues DEF RingTypes
<1>5. CASE ReadPublish
  <2>1. out + n <= BUF_LEN
    BY <1>5 DEF FastInv, RxReader
  <2>2. rx_out' \in Slots
    BY <1>0, <1>5, <2>1, StepCases
  <2> QED
    BY <1>0, <1>5, <2>2 DEF RingTypes
<1>6. CASE IsrReceive
  <2>1. rfifo # <<>> => Head(rfifo) \in 0..MaxSent
    BY <1>0 DEF DeviceTypes
  <2> QED
    BY <1>0, <1>6, <2>1, FollowingCases DEF RingTypes, RVALID
<1>7. CASE IsrTransmit
  BY <1>0, <1>7, FollowingCases DEF RingTypes
<1> QED
  BY <1>1, <1>2, <1>3, <1>4, <1>5, <1>6, <1>7 DEF Next, Driver, Copying, Waiting, Isr, Calls

\* The call of the program.
LEMMA ProgramStep ==
  ASSUME FastInv, Next
  PROVE  ProgramTypes'
<1>0. ProgramTypes /\ RingTypes /\ MaxWritten \in Nat /\ MaxSpace \in Nat /\ BUF_LEN \in Nat \ {0, 1}
  BY TypeParts, Constants DEF FastInv
<1> USE DEF ProgramTypes, Labels
<1>1. CASE UNCHANGED local
  BY <1>0, <1>1
<1>2. CASE Write
  BY <1>0, <1>2 DEF RingTypes
<1>3. CASE Read \/ Close
  BY <1>0, <1>3
<1>4. CASE GetConnected
  BY <1>0, <1>4 DEF ENOTTY
<1>5. ASSUME NEW t \in Timeouts, SetTimeout(t) PROVE ProgramTypes'
  BY <1>0, <1>5 DEF ENOTTY
<1>6. Outcome \in Int /\ 0 \in Slots
  BY <1>0 DEF Outcome, EIO, EWOULDBLOCK, Slots
<1>18. ASSUME NEW rc \in Int, Return(rc) PROVE ProgramTypes'
  <2>1. pc' \in Labels /\ left' \in Nat /\ nonblock' \in BOOLEAN
    BY <1>18 DEF Return
  <2>2. in' \in Slots /\ out' \in Slots /\ n' \in 0..BUF_LEN /\ moved' \in Nat /\ ret' \in Int
    BY <1>0, <1>6, <1>18 DEF Return
  <2> QED
    BY <2>1, <2>2
<1>7. CASE WriteCopy
  <2>1. RunOfFree(tx_in, tx_out) \in 0..BUF_LEN
    BY <1>0 DEF RunOfFree, RingTypes, Slots
  <2>2. CASE left = 0
    BY <1>0, <1>7, <2>2
  <2>3. CASE left > 0
    <3>1. in' \in Slots /\ out' \in Slots
      BY <1>0, <1>7, <2>3 DEF RingTypes
    <3>2. n' \in 0..BUF_LEN
      BY <1>0, <1>7, <2>1, <2>3 DEF Least
    <3> QED
      BY <1>0, <1>7, <2>3, <3>1, <3>2
  <2> QED
    BY <1>0, <2>2, <2>3
<1>8. CASE WriteFill
  BY <1>0, <1>8
<1>9. CASE WritePublish
  BY <1>0, <1>9 DEF FastInv, TxWriter
<1>10. CASE WriteKick
  <2>1. CASE left > 0 /\ ~nonblock
    BY <1>0, <1>10, <2>1
  <2>2. CASE ~(left > 0 /\ ~nonblock)
    BY <1>6, <1>10, <1>18, <2>2
  <2> QED
    BY <2>1, <2>2
<1>11. CASE WriteSpin \/ ReadSpin \/ ReadCheck
  BY <1>0, <1>11
<1>12. CASE WriteCheck
  <2>1. CASE out # tx_out
    BY <1>0, <1>12, <2>1
  <2>2. CASE out = tx_out
    BY <1>6, <1>12, <1>18, <2>2
  <2> QED
    BY <2>1, <2>2
<1>13. CASE ReadCopy
  <2>1. CASE left = 0
    BY <1>0, <1>13, <2>1
  <2>2. CASE left > 0
    <3>1. in' \in Slots /\ out' \in Slots
      BY <1>0, <1>13, <2>2 DEF RingTypes
    <3>2. n' \in 0..BUF_LEN
      <4>1. (IF rx_in >= rx_out THEN rx_in - rx_out ELSE BUF_LEN - rx_out) \in 0..BUF_LEN
        BY <1>0 DEF RingTypes, Slots
      <4> QED
        BY <1>0, <1>13, <2>2, <4>1 DEF Least
    <3> QED
      BY <1>0, <1>13, <2>2, <3>1, <3>2
  <2> QED
    BY <1>0, <2>1, <2>2
<1>14. CASE ReadFill
  BY <1>0, <1>14 DEF FastInv, RxReader
<1>15. CASE ReadPublish
  BY <1>0, <1>15
<1>16. CASE ReadDone
  BY <1>6, <1>16, <1>18
<1>17. CASE CloseWait
  BY <1>17, <1>18 DEF EWOULDBLOCK
<1> QED
  BY <1>1, <1>2, <1>3, <1>4, <1>5, <1>7, <1>8, <1>9, <1>10, <1>11, <1>12, <1>13, <1>14, <1>15,
     <1>16, <1>17 DEF Next, Driver, Copying, Waiting, Isr, Calls

\* The interrupt routine.
LEMMA RoutineStep ==
  ASSUME FastInv, Next
  PROVE  RoutineTypes'
<1>0. RoutineTypes /\ DeviceTypes /\ FIFO_DEPTH \in Nat \ {0}
  BY TypeParts, Constants DEF FastInv
<1>1. CASE UNCHANGED routine
  BY <1>0, <1>1 DEF RoutineTypes
<1>2. CASE IsrEnter \/ IsrReceiveFull \/ IsrReceiveEnd \/ IsrTransmitEnd
  BY <1>0, <1>2 DEF RoutineTypes
<1>3. CASE IsrPoll
  <2>1. WSPACE \in 0..FIFO_DEPTH
    BY <1>0 DEF WSPACE, DeviceTypes
  <2> QED
    BY <1>0, <1>3, <2>1 DEF RoutineTypes
<1>4. CASE IsrReceive
  <2>1. RAVAIL \in 0..FIFO_DEPTH
    BY DeviceStep DEF RAVAIL, DeviceTypes
  <2> QED
    BY <1>0, <1>4, <2>1 DEF RoutineTypes
<1>5. CASE IsrTransmit
  BY <1>0, <1>5 DEF RoutineTypes
<1> QED
  BY <1>1, <1>2, <1>3, <1>4, <1>5 DEF Next, Driver, Copying, Waiting, Isr, Calls

\* And the whole.
LEMMA TypesStep ==
  ASSUME FastInv, Next
  PROVE  TypeOK'
<1>1. FlagTypes' /\ DeviceTypes' /\ WatchTypes' /\ RingTypes' /\ ProgramTypes' /\ RoutineTypes'
  BY FlagStep, DeviceStep, WatchStep, RingStep, ProgramStep, RoutineStep
<1> QED
  BY <1>1, TypeParts, PTL

-----------------------------------------------------------------------------
(* The way to the host. *)

\* No step loses, doubles or reorders a byte on its way out.
LEMMA TxOrderStep ==
  ASSUME FastInv, Next
  PROVE  TxOrder'
<1>1. CASE UNCHANGED <<accepted, delivered, wfifo, tx_in, tx_out, tx_buf>>
  BY <1>1 DEF FastInv, TxOrder, TxQueued, Ahead
<1>2. CASE WriteFill
  BY <1>2, WriteFillOrder
<1>3. CASE WritePublish
  BY <1>3, WritePublishOrder
<1>4. CASE IsrTransmit
  BY <1>4, TransmitOrder
<1>5. CASE Host /\ HostTakes
  <2>0. wfifo \in Seq(Nat) /\ delivered \in Seq(Nat) /\ accepted \in Nat
        /\ tx_in \in Slots /\ tx_out \in Slots /\ BUF_LEN \in Nat
    BY Types, Constants DEF FastInv
  <2>5. TxQueued \in Int
    BY <2>0 DEF TxQueued, Ahead, Slots
  <2>1. /\ delivered' = Append(delivered, Head(wfifo)) /\ wfifo' = Tail(wfifo) /\ wfifo # <<>>
        /\ UNCHANGED <<accepted, tx_in, tx_out, tx_buf>>
    BY <1>5 DEF HostTakes
  <2>2. Len(delivered') = Len(delivered) + 1 /\ Len(wfifo') = Len(wfifo) - 1 /\ TxQueued' = TxQueued
    BY <2>0, <2>1 DEF TxQueued, Ahead
  <2>3. \A i \in 1..Len(delivered') : delivered'[i] = i
    BY <2>0, <2>1, <2>2 DEF FastInv, TxOrder
  <2>4. \A i \in 1..Len(wfifo') : wfifo'[i] = Len(delivered') + i
    BY <2>0, <2>1, <2>2 DEF FastInv, TxOrder
  <2> QED
    BY <2>0, <2>1, <2>2, <2>3, <2>4, <2>5 DEF FastInv, TxOrder, Ahead
<1> QED
  BY <1>1, <1>2, <1>3, <1>4, <1>5
     DEF Next, Driver, Copying, Waiting, Isr, Calls, WriteControl, ReadData, HostActs, HostSends, HostPauses

\* While a write copies, only it moves tx_in, and the routine only makes room.
LEMMA TxWriterStep ==
  ASSUME FastInv, Next
  PROVE  TxWriter'
<1>0. /\ tx_in \in Slots /\ tx_out \in Slots /\ BUF_LEN \in Nat \ {0, 1} /\ left \in Nat /\ n \in Nat
      /\ accepted \in Nat /\ MaxWritten \in Nat /\ wfifo \in Seq(Nat) /\ FIFO_DEPTH \in Nat
      /\ space \in Nat /\ Len(wfifo) \in Nat /\ Len(wfifo) <= FIFO_DEPTH
  BY Types, TypeParts, Constants DEF FastInv, DeviceTypes
<1>1. TxWriter
  BY DEF FastInv
<1>2. (space + Len(wfifo) <= FIFO_DEPTH)'
  <2>1. CASE UNCHANGED <<space, wfifo>>
    BY <1>1, <2>1 DEF TxWriter
  <2>2. CASE IsrPoll
    BY <1>0, <2>2 DEF WSPACE, WI
  <2>3. CASE IsrTransmit
    BY <1>0, <1>1, <2>3 DEF WriteData, TxWriter
  <2>4. CASE Host
    BY <1>0, <1>1, <2>4 DEF TxWriter, HostActs, HostTakes, HostSends, HostPauses
  <2> QED
    BY <2>1, <2>2, <2>3, <2>4 DEF Next, Driver, Copying, Waiting, Isr, Calls, WriteControl, ReadData
<1>3. (pc \in Writing => accepted + left <= MaxWritten)'
  <2>1. CASE UNCHANGED <<pc, accepted, left>>
    BY <1>1, <2>1 DEF TxWriter
  <2>2. CASE Write
    BY <1>0, <2>2
  <2>3. CASE WriteCopy \/ WriteFill \/ WriteSpin
    BY <1>1, <2>3 DEF TxWriter, Writing
  <2>4. CASE WritePublish
    BY <1>0, <1>1, <2>4 DEF TxWriter, Writing
  <2>5. CASE WriteKick \/ WriteCheck
    BY <1>1, <2>5 DEF TxWriter, Writing, Return
  <2>6. CASE pc' \notin Writing
    BY <2>6
  <2> QED
    BY <2>1, <2>2, <2>3, <2>4, <2>5, <2>6
       DEF Next, Driver, Copying, Waiting, Isr, Calls, Writing, Return
<1> DEFINE Held == in = tx_in /\ n \in 1..left /\ in + n <= BUF_LEN /\ n + TxQueued < BUF_LEN
<1>4. (pc \in {"w_fill", "w_publish"} => Held)'
  <2>1. CASE UNCHANGED <<pc, in, n, left, tx_in, tx_out>>
    BY <1>1, <2>1 DEF TxWriter, TxQueued, Ahead
  <2>2. CASE WriteCopy /\ pc' = "w_fill"
    <3>1. /\ left' = left /\ in' = tx_in /\ tx_in' = tx_in /\ tx_out' = tx_out
          /\ n' = Least(RunOfFree(tx_in, tx_out), left) /\ n' # 0 /\ left > 0
      BY <2>2
    <3>2. /\ RunOfFree(tx_in, tx_out) \in Nat /\ tx_in + RunOfFree(tx_in, tx_out) <= BUF_LEN
          /\ RunOfFree(tx_in, tx_out) + TxQueued < BUF_LEN
      BY <1>0 DEF TxQueued, Ahead, RunOfFree, Slots
    <3>3. n' \in 1..left /\ n' <= RunOfFree(tx_in, tx_out)
      BY <1>0, <3>1, <3>2 DEF Least
    <3>4. TxQueued' = TxQueued /\ TxQueued \in Int
      BY <1>0, <3>1 DEF TxQueued, Ahead, Slots
    <3>5. tx_in + n' <= BUF_LEN /\ n' + TxQueued < BUF_LEN
      <4>1. tx_in \in Int /\ BUF_LEN \in Int /\ n' \in Int
        BY <1>0, <3>3 DEF Slots
      <4>2. n' <= RunOfFree(tx_in, tx_out)
        BY <3>3
      <4> QED
        <5> DEFINE free == RunOfFree(tx_in, tx_out)
        <5>1. free \in Int /\ tx_in + free <= BUF_LEN /\ free + TxQueued < BUF_LEN /\ n' <= free
          BY <3>2, <4>2
        <5> HIDE DEF free
        <5>2. TxQueued \in Int
          BY <3>4
        <5> QED
          BY <4>1, <5>1, <5>2, SumBound
    <3> QED
      BY <3>1, <3>3, <3>4, <3>5
  <2>3. CASE WriteFill
    BY <1>1, <2>3 DEF TxWriter, TxQueued, Ahead
  <2>4. CASE IsrTransmit
    <3>1. tx_out' = (IF tx_out + 1 = BUF_LEN THEN 0 ELSE tx_out + 1)
      BY <1>0, <2>4, FollowingCases
    <3>2. TxQueued' = TxQueued - 1 /\ TxQueued \in Int
      BY <1>0, <2>4, <3>1 DEF TxQueued, Ahead, Slots
    <3> QED
      BY <1>0, <1>1, <2>4, <3>2 DEF TxWriter
  <2>5. CASE pc' \notin {"w_fill", "w_publish"}
    BY <2>5
  <2> QED
    BY <2>1, <2>2, <2>3, <2>4, <2>5 DEF Next, Driver, Copying, Waiting, Isr, Calls, Return
<1>5. (pc = "w_publish" => \A s \in in..in + n - 1 : tx_buf[s] = accepted + 1 + s - in)'
  <2>1. CASE UNCHANGED <<pc, in, n, tx_buf, accepted>>
    BY <1>1, <2>1 DEF TxWriter
  <2>2. CASE WriteFill
    <3>1. in \in Slots /\ in + n <= BUF_LEN
      BY <1>0, <1>1, <2>2 DEF TxWriter
    <3>2. \A s \in in..in + n - 1 : s \in Slots
      BY <1>0, <3>1 DEF Slots
    <3> QED
      BY <2>2, <3>2
  <2>3. CASE pc' # "w_publish"
    BY <2>3
  <2> QED
    BY <2>1, <2>2, <2>3 DEF Next, Driver, Copying, Waiting, Isr, Calls, Return
<1> QED
  BY <1>2, <1>3, <1>4, <1>5 DEF TxWriter

-----------------------------------------------------------------------------
(* The way from the host. *)

\* Moving rx_out over the slots just copied hands their bytes over for good.
LEMMA ReadPublishOrder ==
  ASSUME FastInv, ReadPublish
  PROVE  RxOrder'
<1>0. BUF_LEN \in Nat \ {0, 1} /\ rx_in \in Slots /\ rx_out \in Slots /\ n \in Nat
      /\ Len(got) \in Nat /\ Len(rfifo) \in Nat /\ sent \in Nat
  BY Types, Constants DEF FastInv
<1>1. /\ n \in 1..RxQueued /\ rx_out + n <= BUF_LEN /\ rx_out' = (rx_out + n) % BUF_LEN
      /\ UNCHANGED <<got, rfifo, sent, rx_in, rx_buf>> /\ Taken = Len(got) - n /\ Taken' = Len(got)
  BY DEF FastInv, RxReader, Taken
<1>2. RxQueued' = RxQueued - n /\ RxQueued \in Nat
  <2>1. rx_out' = (IF rx_out + n = BUF_LEN THEN 0 ELSE rx_out + n)
    BY <1>0, <1>1, StepCases
  <2> QED
    BY <1>0, <1>1, <2>1 DEF RxQueued, Slots, Ahead
<1>3. ASSUME NEW s \in Slots, Ahead(rx_out', s) < RxQueued'
      PROVE  Ahead(rx_out', s) = Ahead(rx_out, s) - n /\ Ahead(rx_out, s) < RxQueued
             /\ Ahead(rx_out, s) \in Int
  <2>1. CASE rx_out + n = BUF_LEN
    <3>1. rx_out' = 0
      BY <1>0, <1>1, <2>1, StepCases
    <3> QED
      BY <1>0, <1>1, <1>3, <2>1, <3>1 DEF RxQueued, Slots, Ahead
  <2>2. CASE rx_out + n < BUF_LEN
    <3>1. rx_out' = rx_out + n
      BY <1>0, <1>1, <2>2, StepCases
    <3>2. /\ BUF_LEN \in Nat /\ rx_in \in 0..BUF_LEN - 1 /\ rx_out \in 0..BUF_LEN - 1
          /\ s \in 0..BUF_LEN - 1 /\ n \in Nat /\ 0 < n
      BY <1>0, <1>1, <1>3 DEF Slots
    <3>3. Ahead(rx_out + n, s) < Ahead(rx_out + n, rx_in) /\ n <= Ahead(rx_out, rx_in)
      BY <1>1, <1>2, <1>3, <3>1, <3>2 DEF RxQueued
    <3>4. CASE s >= rx_out + n
      BY <2>2, <3>1, <3>2, <3>3, <3>4 DEF RxQueued, Ahead
    <3>5. CASE s < rx_out + n /\ s >= rx_out
      BY <2>2, <3>1, <3>2, <3>3, <3>5 DEF RxQueued, Ahead
    <3>6. CASE s < rx_out
      BY <2>2, <3>1, <3>2, <3>3, <3>6 DEF RxQueued, Ahead
    <3> QED
      BY <3>2, <3>4, <3>5, <3>6
  <2> QED
    BY <1>0, <1>1, <2>1, <2>2 DEF Slots
<1>4. \A s \in Slots : Ahead(rx_out', s) < RxQueued' => rx_buf[s] = Len(got) + 1 + Ahead(rx_out', s)
  BY <1>0, <1>1, <1>3 DEF FastInv, RxOrder
<1>5. \A i \in 1..Len(rfifo) : rfifo[i] = Taken' + RxQueued' + i
  BY <1>0, <1>1, <1>2 DEF FastInv, RxOrder
<1>6. sent' = Taken' + RxQueued' + Len(rfifo')
  <2>1. sent = Taken + RxQueued + Len(rfifo)
    BY DEF FastInv, RxOrder
  <2> QED
    BY <1>0, <1>1, <1>2, <2>1
<1>7. \A i \in 1..Len(got) : got[i] = i
  BY DEF FastInv, RxOrder
<1> QED
  BY <1>1, <1>4, <1>5, <1>6, <1>7 DEF RxOrder

\* The routine moves the oldest byte of the FIFO, if there is one, behind those in the
\* ring; a byte that arrives meanwhile is behind all others.
LEMMA ReceiveOrder ==
  ASSUME FastInv, IsrReceive
  PROVE  RxOrder'
<1>0. BUF_LEN \in Nat \ {0, 1} /\ rx_in \in Slots /\ rx_out \in Slots /\ n \in Nat
      /\ Len(got) \in Nat /\ rfifo \in Seq(1..MaxSent) /\ Len(rfifo) \in Nat /\ sent \in Nat
      /\ rx_buf \in [Slots -> 0..MaxSent]
  BY Types, Constants DEF FastInv
<1>7. PICK late \in BOOLEAN : ReadData(late)
  OBVIOUS
<1>8. PICK k \in Nat : k = (IF rfifo # <<>> THEN 1 ELSE 0)
  OBVIOUS
<1>9. PICK m \in Nat : m = (IF late THEN 1 ELSE 0)
  OBVIOUS
<1>1. /\ k = 1 => rx_buf' = [rx_buf EXCEPT ![rx_in] = Head(rfifo)] /\ rx_in' = Following(rx_in)
      /\ k = 0 => UNCHANGED <<rx_buf, rx_in>>
      /\ k \in {0, 1} /\ m \in {0, 1} /\ (k = 1 => rfifo # <<>>) /\ (k = 0 => rfifo = <<>>)
      /\ Following(rx_in) # rx_out
      /\ UNCHANGED <<got, rx_out>> /\ Taken' = Taken /\ Taken \in Int
  BY <1>0, <1>8, <1>9 DEF RVALID, Taken
<1>6. /\ sent' = sent + m /\ Len(rfifo') = Len(rfifo) - k + m
      /\ \A i \in 1..Len(rfifo) - k : rfifo'[i] = rfifo[i + k]
      /\ m = 1 => rfifo'[Len(rfifo) - k + 1] = sent + 1
  BY <1>7, <1>8, <1>9, ReadDataValues
<1>2. RxQueued' = RxQueued + k /\ RxQueued \in Nat
  <2>1. CASE k = 1
    <3>1. rx_in' = (IF rx_in + 1 = BUF_LEN THEN 0 ELSE rx_in + 1)
      BY <1>0, <1>1, <2>1, FollowingCases
    <3> QED
      BY <1>0, <1>1, <2>1, <3>1 DEF RxQueued, Slots, Ahead
  <2>2. CASE k = 0
    BY <1>0, <1>1, <2>2 DEF RxQueued, Slots, Ahead
  <2> QED
    BY <1>1, <2>1, <2>2
<1>3. ASSUME NEW s \in Slots, Ahead(rx_out, s) < RxQueued + k
      PROVE  rx_buf'[s] = Taken + 1 + Ahead(rx_out, s)
  <2>1. CASE k = 1 /\ s = rx_in
    <3>1. Head(rfifo) = Taken + RxQueued + 1
      BY <1>0, <1>1, <2>1 DEF FastInv, RxOrder
    <3>2. Ahead(rx_out, s) = RxQueued
      BY <2>1 DEF RxQueued
    <3> QED
      BY <1>0, <1>1, <1>2, <2>1, <3>1, <3>2
  <2>2. CASE k = 1 /\ s # rx_in
    <3>1. Ahead(rx_out, s) < RxQueued
      BY <1>0, <1>3, <2>2 DEF RxQueued, Ahead, Slots
    <3> QED
      BY <1>0, <1>1, <2>2, <3>1 DEF FastInv, RxOrder
  <2>3. CASE k = 0
    BY <1>1, <1>2, <1>3, <2>3 DEF FastInv, RxOrder
  <2> QED
    BY <1>1, <2>1, <2>2, <2>3
<1>10. \A i \in 1..Len(rfifo) : rfifo[i] = Taken + RxQueued + i
  BY DEF FastInv, RxOrder
<1>11. sent = Taken + RxQueued + Len(rfifo)
  BY DEF FastInv, RxOrder
<1>4. ASSUME NEW i \in 1..Len(rfifo')
      PROVE  rfifo'[i] = Taken + RxQueued' + i
  <2>1. CASE i \in 1..Len(rfifo) - k
    <3>1. i + k \in 1..Len(rfifo)
      BY <1>0, <2>1
    <3> QED
      BY <1>0, <1>1, <1>2, <1>6, <1>10, <2>1, <3>1
  <2>2. CASE i \notin 1..Len(rfifo) - k
    <3>1. m = 1 /\ i = Len(rfifo) - k + 1
      BY <1>0, <1>1, <1>6, <2>2
    <3> QED
      BY <1>0, <1>1, <1>2, <1>6, <1>11, <3>1
  <2> QED
    BY <2>1, <2>2
<1>5. sent' = Taken' + RxQueued' + Len(rfifo')
  BY <1>0, <1>1, <1>2, <1>6, <1>11
<1>12. \A i \in 1..Len(got') : got'[i] = i
  BY <1>1 DEF FastInv, RxOrder
<1>13. \A s \in Slots : Ahead(rx_out, s)' < RxQueued' => rx_buf'[s] = Taken' + 1 + Ahead(rx_out, s)'
  BY <1>1, <1>2, <1>3 DEF Ahead
<1> QED
  BY <1>1, <1>4, <1>5, <1>12, <1>13 DEF RxOrder

\* No step loses, doubles or reorders a byte on its way in.
LEMMA RxOrderStep ==
  ASSUME FastInv, Next
  PROVE  RxOrder'
<1>0. /\ rx_in \in Slots /\ rx_out \in Slots /\ BUF_LEN \in Nat \ {0, 1} /\ n \in Nat
      /\ rfifo \in Seq(1..MaxSent) /\ Len(got) \in Nat /\ sent \in Nat /\ Len(rfifo) \in Nat
  BY Types, Constants DEF FastInv
<1>1. CASE UNCHANGED <<sent, got, rfifo, rx_in, rx_out, rx_buf>> /\ Taken' = Taken
  BY <1>1 DEF FastInv, RxOrder, RxQueued, Ahead
<1>2. CASE ReadFill
  <2>1. Taken' = Taken /\ UNCHANGED <<sent, rfifo, rx_in, rx_out, rx_buf>>
    BY <1>0, <1>2, ReadFillValues DEF Taken
  <2> QED
    BY <1>2, <2>1, ReadFillValues DEF FastInv, RxOrder, RxQueued, Ahead
<1>3. CASE ReadPublish
  BY <1>3, ReadPublishOrder
<1>4. CASE IsrReceive
  BY <1>4, ReceiveOrder
<1>5. CASE Host /\ HostSends
  <2>1. /\ sent' = sent + 1 /\ rfifo' = Append(rfifo, sent + 1) /\ Len(rfifo') = Len(rfifo) + 1
        /\ UNCHANGED <<got, rx_in, rx_out, rx_buf>> /\ Taken' = Taken
        /\ RxQueued' = RxQueued /\ Taken \in Int
    BY <1>0, <1>5 DEF HostSends, Taken, RxQueued, Ahead
  <2>2. RxQueued \in Int
    BY <1>0 DEF RxQueued, Ahead, Slots
  <2>3. \A i \in 1..Len(rfifo') : rfifo'[i] = Taken + RxQueued + i
    <3> SUFFICES ASSUME NEW i \in 1..Len(rfifo) + 1
                 PROVE  Append(rfifo, sent + 1)[i] = Taken + RxQueued + i
      BY <2>1
    <3>1. CASE i = Len(rfifo) + 1
      BY <1>0, <2>1, <2>2, <3>1 DEF FastInv, RxOrder
    <3>2. CASE i \in 1..Len(rfifo)
      BY <1>0, <2>1, <3>2 DEF FastInv, RxOrder
    <3> QED
      BY <1>0, <3>1, <3>2
  <2> QED
    BY <1>0, <2>1, <2>2, <2>3 DEF FastInv, RxOrder, Ahead
<1> QED
  BY <1>1, <1>2, <1>3, <1>4, <1>5
     DEF Next, Driver, Copying, Waiting, Isr, Calls, WriteControl, WriteData, HostActs, HostTakes,
         HostPauses, Taken, Return

\* While a read copies, only it moves rx_out, and the routine only adds bytes.
LEMMA RxReaderStep ==
  ASSUME FastInv, Next
  PROVE  RxReader'
<1>0. /\ rx_in \in Slots /\ rx_out \in Slots /\ BUF_LEN \in Nat \ {0, 1} /\ n \in Nat
      /\ rfifo \in Seq(1..MaxSent) /\ Len(got) \in Nat /\ left \in Nat /\ moved \in Nat
  BY Types, Constants DEF FastInv
<1>1. CASE UNCHANGED <<pc, out, rx_out, n, rx_in, left, moved, got>>
  BY <1>1 DEF FastInv, RxReader, RxQueued, Ahead
<1>2. CASE ReadCopy
  <2> DEFINE run == IF rx_in >= rx_out THEN rx_in - rx_out ELSE BUF_LEN - rx_out
  <2>1. CASE pc' # "r_fill"
    BY <1>2, <2>1 DEF RxReader
  <2>2. CASE pc' = "r_fill"
    <3>1. /\ out' = rx_out /\ n' = Least(run, left) /\ n' > 0 /\ left > 0 /\ left' = left
          /\ UNCHANGED <<rx_in, rx_out>>
      BY <1>2, <2>2
    <3>2. run \in 0..RxQueued /\ RxQueued \in Nat /\ rx_out + run <= BUF_LEN
      BY <1>0 DEF RxQueued, Ahead, Slots
    <3>3. n' \in 1..run /\ n' <= left
      <4> HIDE DEF run
      <4> QED
        BY <1>0, <3>1, <3>2 DEF Least
    <3>4. n' \in 1..RxQueued /\ rx_out + n' <= BUF_LEN
      <4>1. rx_out \in Int /\ BUF_LEN \in Int
        BY <1>0 DEF Slots
      <4> HIDE DEF run
      <4>2. run \in Int /\ run <= RxQueued /\ rx_out + run <= BUF_LEN /\ RxQueued \in Int
        BY <3>2
      <4>3. n' \in Int /\ 1 <= n' /\ n' <= run
        BY <4>2, <3>3
      <4>4. n' \in 1..RxQueued
        BY <4>2, <4>3
      <4> QED
        BY <4>1, <4>2, <4>3, <4>4, SumBound
    <3>5. RxQueued' = RxQueued
      BY <3>1 DEF RxQueued, Ahead
    <3> QED
      BY <2>2, <3>1, <3>3, <3>4, <3>5 DEF RxReader
  <2> QED
    BY <2>1, <2>2
<1>3. CASE ReadFill
  <2>1. n \in Nat \ {0} /\ n <= Len(got')
    BY <1>0, <1>3, ReadFillValues
  <2> QED
    BY <1>0, <1>3, <2>1 DEF FastInv, RxReader, RxQueued, Ahead
<1>4. CASE IsrReceive
  <2>1. CASE UNCHANGED rx_in
    BY <1>1, <1>4, <2>1
  <2>2. CASE rx_in' = Following(rx_in)
    <3>1. rx_in' = (IF rx_in + 1 = BUF_LEN THEN 0 ELSE rx_in + 1) /\ rx_in' # rx_out
      BY <1>0, <1>4, <2>2, FollowingCases
    <3>2. RxQueued' = RxQueued + 1 /\ RxQueued \in Int
      BY <1>0, <1>4, <3>1 DEF RxQueued, Ahead, Slots
    <3> QED
      BY <1>0, <1>4, <3>2 DEF FastInv, RxReader
  <2> QED
    BY <1>4, <2>1, <2>2
<1>5. CASE pc' \notin {"r_fill", "r_publish"}
  BY <1>5 DEF RxReader
<1> QED
  BY <1>1, <1>2, <1>3, <1>4, <1>5
     DEF Next, Driver, Copying, Waiting, Isr, Calls, Return

-----------------------------------------------------------------------------
(* Interrupt enables and timeouts. *)

\* Both sides write irq_enable and the control register in one step, with interrupts off.
LEMMA EnablesMatchStep ==
  ASSUME FastInv, Next
  PROVE  (ien_AE <=> "WE" \in irq_enable)' /\ (ien_AF <=> "RE" \in irq_enable)'
<1>0. (ien_AE <=> "WE" \in irq_enable) /\ (ien_AF <=> "RE" \in irq_enable)
  BY DEF FastInv, Enables
<1>1. CASE UNCHANGED <<ien_AE, ien_AF, irq_enable>>
  BY <1>0, <1>1
<1>2. CASE \E c \in BOOLEAN : WriteControl(irq_enable', c)
  BY <1>2 DEF WriteControl
<1> QED
  BY <1>1, <1>2
     DEF Next, Driver, Copying, Waiting, Isr, Calls, ReadData, WriteData, HostActs, HostTakes,
         HostSends, HostPauses

\* A byte that has been announced stays in the FIFO until the routine takes it.
LEMMA FoundStep ==
  ASSUME FastInv, Next
  PROVE  Found'
<1>0. /\ Found /\ rfifo \in Seq(1..MaxSent) /\ sent \in Nat /\ BUF_LEN \in Nat \ {0, 1}
      /\ rx_in \in Slots /\ Len(rfifo) \in Nat /\ FIFO_DEPTH \in Nat
  BY Types, Constants DEF FastInv
<1>1. CASE UNCHANGED <<rfifo, pause_irq>> /\ isr' \notin {"rx", "rx_end"}
  BY <1>0, <1>1 DEF Found
<1>2. CASE UNCHANGED <<rfifo, pause_irq, isr, rx_in, rx_out>>
  BY <1>0, <1>2 DEF Found
<1>3. CASE IsrPoll
  <2>1. RI => rfifo # <<>>
    <3>1. THRESHOLD \in 0..FIFO_DEPTH - 1
      BY ConsoleAssumption DEF JtagAssumption
    <3>2. rfifo = <<>> => Len(rfifo) = 0
      OBVIOUS
    <3> QED
      BY <1>0, <3>1, <3>2 DEF RI, Found
  <2>2. UNCHANGED <<rfifo, pause_irq>> /\ isr' # "rx_end" /\ (isr' = "rx" => RI)
    BY <1>3
  <2> QED
    BY <1>0, <2>1, <2>2 DEF Found
<1>4. CASE IsrReceive
  <2>1. pause_irq' = FALSE /\ isr = "rx" /\ rx_out' = rx_out /\ Following(rx_in) # rx_out
    BY <1>4 DEF ReadData
  <2>2. CASE RVALID
    BY <1>4, <2>1, <2>2 DEF Found
  <2>3. CASE ~RVALID
    BY <1>0, <1>4, <2>1, <2>3 DEF Found, RVALID
  <2> QED
    BY <2>2, <2>3
<1>5. CASE IsrReceiveFull
  <2>1. Following(rx_in) # rx_in
    BY <1>0, FollowingCases DEF Slots
  <2> QED
    BY <1>0, <1>5, <2>1 DEF Found
<1>6. CASE Host /\ HostSends
  <2>1. rfifo' # <<>> /\ UNCHANGED <<isr, rx_in, rx_out>>
    BY <1>0, <1>6 DEF HostSends
  <2> QED
    BY <1>0, <2>1 DEF Found
<1>7. CASE Host /\ HostPauses
  BY <1>0, <1>7 DEF HostPauses, Found
<1> QED
  BY <1>1, <1>2, <1>3, <1>4, <1>5, <1>6, <1>7
     DEF Next, Driver, Copying, Waiting, Isr, Calls, WriteControl, WriteData, HostActs, HostTakes

\* A waiting writer has the transmit interrupt on, or is about to turn it on.
LEMMA WakeupStep ==
  ASSUME FastInv, Next
  PROVE  NoLostWakeup'
<1>0. NoLostWakeup /\ (ien_AE <=> "WE" \in irq_enable)
      /\ (ien_AE' <=> "WE" \in irq_enable')
  BY EnablesMatchStep DEF FastInv, Enables
<1>1. CASE /\ tx_out' # tx_in' => tx_out # tx_in
           /\ ien_AE => ien_AE'
           /\ pc \in {"w_copy", "w_fill", "w_publish", "w_kick"} =>
                pc' \in {"w_copy", "w_fill", "w_publish", "w_kick"}
  BY <1>0, <1>1 DEF NoLostWakeup
<1>2. CASE WritePublish
  BY <1>2 DEF NoLostWakeup
<1>3. CASE WriteKick
  BY <1>0, <1>3 DEF NoLostWakeup
<1>4. CASE IsrTransmitEnd
  <2>1. CASE space > 0
    BY <1>4, <2>1 DEF NoLostWakeup
  <2>2. CASE ~(space > 0)
    BY <1>1, <1>4, <2>2
  <2> QED
    BY <2>1, <2>2
<1>5. CASE UNCHANGED <<irq_enable, tx_in, pc, local>> /\ (tx_out' # tx_in' => tx_out # tx_in)
  BY <1>0, <1>1, <1>5
<1>6. CASE ReadDone \/ IsrReceiveEnd
  BY <1>0, <1>1, <1>6
<1>7. CASE UNCHANGED <<irq_enable, tx_in, tx_out>> /\ pc \notin {"w_copy", "w_fill", "w_publish", "w_kick"}
  BY <1>0, <1>1, <1>7
<1>8. CASE WriteCopy \/ WriteFill
  BY <1>0, <1>1, <1>8
<1> QED
  BY <1>2, <1>3, <1>4, <1>5, <1>6, <1>7, <1>8 DEF Next, Driver, Copying, Waiting, Isr, Calls

\* The receive interrupt is off only while there is something to read, or a read that took
\* something is about to turn it on.
LEMMA ReceiveOnStep ==
  ASSUME FastInv, Next
  PROVE  ReceiveComesBack'
<1>0. ReceiveComesBack /\ (ien_AF <=> "RE" \in irq_enable)
      /\ (ien_AF' <=> "RE" \in irq_enable')
  BY EnablesMatchStep DEF FastInv, Enables
<1>1. CASE UNCHANGED <<irq_enable, rx_in, rx_out, pc, moved>>
  BY <1>0, <1>1 DEF ReceiveComesBack
<1>2. CASE ien_AF /\ UNCHANGED irq_enable
  BY <1>0, <1>2 DEF ReceiveComesBack
<1>3. CASE pc \notin {"r_copy", "r_fill", "r_publish", "r_done"} /\ UNCHANGED <<rx_in, rx_out>>
           /\ (ien_AF => ien_AF')
  BY <1>0, <1>3 DEF ReceiveComesBack
<1>4. CASE ReadCopy
  <2>1. UNCHANGED <<irq_enable, rx_in, rx_out, moved>> /\ pc = "r_copy"
    BY <1>4
  <2>2. CASE rx_in # rx_out
    BY <2>1, <2>2 DEF ReceiveComesBack
  <2>3. CASE ~ien_AF /\ moved > 0
    <3>1. pc' \in {"r_fill", "r_done"}
      BY <1>4, <2>3
    <3> QED
      BY <2>1, <2>3, <3>1 DEF ReceiveComesBack
  <2> QED
    BY <1>0, <1>2, <2>1, <2>2, <2>3 DEF ReceiveComesBack
<1>5. CASE ReadFill \/ ReadPublish
  <2>0. moved \in Nat
    BY Types DEF FastInv
  <2>1. moved' > 0
    BY <1>5, <2>0, ReadFillValues DEF FastInv, RxReader
  <2> QED
    BY <1>5, <2>1 DEF ReceiveComesBack
<1>6. CASE ReadDone
  <2>1. CASE moved > 0
    <3>1. irq_enable' = irq_enable \cup {"RE"}
      BY <1>6, <2>1
    <3> QED
      BY <1>0, <3>1 DEF ReceiveComesBack
  <2>2. CASE ~(moved > 0)
    BY <1>0, <1>6, <2>2 DEF ReceiveComesBack
  <2> QED
    BY <2>1, <2>2
<1>7. CASE IsrReceive
  <2>1. CASE RVALID
    BY <1>7, <2>1 DEF ReceiveComesBack
  <2>2. CASE ~RVALID
    BY <1>1, <1>7, <2>2
  <2> QED
    BY <2>1, <2>2
<1>8. CASE IsrReceiveEnd
  <2>1. rx_in # rx_out /\ UNCHANGED <<rx_in, rx_out>>
    BY <1>8 DEF FastInv, Found
  <2> QED
    BY <2>1 DEF ReceiveComesBack
<1>9. CASE IsrTransmitEnd \/ Timeout
  BY <1>0, <1>9 DEF ReceiveComesBack
<1> QED
  BY <1>1, <1>2, <1>3, <1>4, <1>5, <1>6, <1>7, <1>8, <1>9, <1>0
     DEF Next, Driver, Copying, Waiting, Isr, Calls

\* A wait ends one count short of the infinite timeout.
LEMMA PatienceStep ==
  ASSUME FastInv, Next
  PROVE  Patience'
<1>0. /\ tx_in \in Slots /\ tx_out \in Slots /\ BUF_LEN \in Nat \ {0, 1} /\ left \in Nat
      /\ INT_MAX \in Nat /\ DEFAULT_TIMEOUT \in 2..INT_MAX - 3
      /\ timeout \in 2..INT_MAX /\ host_inactive \in 0..INT_MAX - 2 /\ out \in Slots
  BY Types, TypeParts, Constants DEF FastInv, WatchTypes, Patience
<1>1. (host_inactive <= INT_MAX - 2)'
  <2>1. CASE UNCHANGED host_inactive
    BY <1>0, <2>1
  <2>2. CASE Timeout
    <3>1. CASE ac
      BY <1>0, <2>2, <3>1
    <3>2. CASE ~ac
      BY <1>0, <2>2, <3>2
    <3> QED
      BY <3>1, <3>2
  <2> QED
    BY <2>1, <2>2 DEF Next, Driver, Copying, Waiting, Isr, Calls
<1>2. ((pc = "w_kick" /\ left > 0) \/ pc \in {"w_spin", "w_check"} => Following(tx_in) = out)'
  <2>0. (pc = "w_kick" /\ left > 0) \/ pc \in {"w_spin", "w_check"} => Following(tx_in) = out
    BY DEF FastInv, Patience
  <2>1. CASE UNCHANGED <<pc, left, tx_in, out>>
    BY <2>0, <2>1 DEF Following
  <2>2. CASE WriteCopy /\ pc' = "w_kick" /\ left' > 0
    BY <1>0, <2>2, FollowingCases DEF Least, RunOfFree, Slots, Following
  <2>3. CASE WriteKick \/ WriteSpin
    BY <2>0, <2>3 DEF Following, Return
  <2>4. CASE ~((pc' = "w_kick" /\ left' > 0) \/ pc' \in {"w_spin", "w_check"})
    BY <2>4
  <2> QED
    BY <2>1, <2>2, <2>3, <2>4 DEF Next, Driver, Copying, Waiting, Isr, Calls, Return
<1>3. (pc = "w_check" /\ out = tx_out => timeout < INT_MAX - 1)'
  <2>0. pc = "w_check" /\ out = tx_out => timeout < INT_MAX - 1
    BY DEF FastInv, Patience
  <2>1. CASE UNCHANGED <<pc, out, tx_out, timeout>>
    BY <2>0, <2>1
  <2>2. CASE WriteSpin
    BY <1>0, <2>2
  <2>3. CASE pc = "w_check" /\ IsrTransmit
    <3>1. Following(tx_in) = out
      BY <2>3 DEF FastInv, Patience
    <3>2. tx_out' # out
      BY <1>0, <2>3, <3>1, FollowingCases DEF Slots
    <3> QED
      BY <2>3, <3>2
  <2>4. CASE pc' # "w_check"
    BY <2>4
  <2> QED
    BY <2>1, <2>2, <2>3, <2>4 DEF Next, Driver, Copying, Waiting, Isr, Calls, Return
<1> QED
  BY <1>1, <1>2, <1>3 DEF Patience

\* Every step of the interrupt-driven driver preserves its invariant.
LEMMA FastStep ==
  ASSUME FastInv, [Next]_vars
  PROVE  FastInv'
<1>1. CASE Next
  <2>1. Enables'
    BY <1>1, EnablesMatchStep, WakeupStep, ReceiveOnStep DEF Enables
  <2> QED
    BY <1>1, <2>1, TypesStep, TxOrderStep, TxWriterStep, RxOrderStep, RxReaderStep, FoundStep, PatienceStep
       DEF FastInv
<1>2. CASE UNCHANGED vars
  <2>1. UNCHANGED TypeOK
    BY <1>2 DEF vars, TypeOK, JtagTypeOK
  <2>2. UNCHANGED <<TxOrder, TxWriter>>
    BY <1>2 DEF vars, TxOrder, TxWriter, TxQueued, Ahead
  <2>3. UNCHANGED <<RxOrder, RxReader>>
    BY <1>2 DEF vars, RxOrder, RxReader, RxQueued, Taken, Ahead
  <2>4. UNCHANGED <<Enables, Found, Patience>>
    BY <1>2 DEF vars, Enables, Found, Patience, NoLostWakeup, ReceiveComesBack, Following
  <2> QED
    BY <2>1, <2>2, <2>3, <2>4 DEF FastInv
<1> QED
  BY <1>1, <1>2

-----------------------------------------------------------------------------
(* The invariant implies the properties. *)

\* The bytes base + 1, ..., base + k.
Run(base, k) == [i \in 1..k |-> base + i]

\* A ring that holds consecutive bytes, read out from its first slot, is a run.
LEMMA RingBytes ==
  ASSUME NEW buf, NEW from \in Slots, NEW to \in Slots, NEW base \in Nat,
         \A s \in Slots : Ahead(from, s) < Ahead(from, to) => buf[s] = base + 1 + Ahead(from, s)
  PROVE  Content(buf, from, to) = Run(base, Ahead(from, to))
<1>0. BUF_LEN \in Nat \ {0, 1}
  BY Constants
<1>1. (to - from) % BUF_LEN = Ahead(from, to) /\ Ahead(from, to) \in 0..BUF_LEN - 1
  <2>1. CASE from <= to
    BY <1>0, <2>1 DEF Ahead, Slots
  <2>2. CASE from > to
    BY <1>0, <2>2 DEF Ahead, Slots
  <2> QED
    BY <2>1, <2>2 DEF Slots
<1>2. ASSUME NEW i \in 1..Ahead(from, to)
      PROVE  buf[(from + i - 1) % BUF_LEN] = base + i
  <2>1. (from + i - 1) % BUF_LEN =
          IF from + i - 1 < BUF_LEN THEN from + i - 1 ELSE from + i - 1 - BUF_LEN
    <3>1. CASE from + i - 1 \in 0..BUF_LEN - 1
      BY <1>0, <1>1, <3>1 DEF Slots
    <3>2. CASE from + i - 1 \in BUF_LEN..2 * BUF_LEN - 1
      BY <1>0, <1>1, <3>2 DEF Slots
    <3> QED
      BY <1>0, <1>1, <3>1, <3>2 DEF Slots
  <2>2. (from + i - 1) % BUF_LEN \in Slots /\ Ahead(from, (from + i - 1) % BUF_LEN) = i - 1
    BY <1>0, <1>1, <2>1 DEF Slots, Ahead
  <2>3. buf[(from + i - 1) % BUF_LEN] = base + 1 + (i - 1)
    BY <1>1, <2>2
  <2> QED
    BY <1>1, <2>3
<1> QED
  BY <1>1, <1>2 DEF Content, Run

\* A sequence of consecutive numbers is determined by its length.
LEMMA Numbered ==
  ASSUME NEW a \in Seq(Nat), NEW b \in Seq(Nat),
         \A i \in 1..Len(a) : a[i] = i, \A i \in 1..Len(b) : b[i] = Len(a) + i
  PROVE  a \o b = [i \in 1..Len(a) + Len(b) |-> i] /\ a \o b \in Seq(Nat)
         /\ Len(a \o b) = Len(a) + Len(b)
<1>1. /\ a \o b \in Seq(Nat) /\ Len(a \o b) = Len(a) + Len(b)
      /\ \A i \in 1..Len(a) + Len(b) : (a \o b)[i] = IF i <= Len(a) THEN a[i] ELSE b[i - Len(a)]
  BY ConcatProperties
<1>2. Len(a) \in Nat /\ Len(b) \in Nat
  OBVIOUS
<1>3. ASSUME NEW i \in 1..Len(a) + Len(b) PROVE (a \o b)[i] = i
  <2>1. CASE i <= Len(a)
    BY <1>1, <1>2, <2>1
  <2>2. CASE i > Len(a)
    <3>1. i - Len(a) \in 1..Len(b)
      BY <1>2, <2>2
    <3> QED
      BY <1>1, <1>2, <2>2, <3>1
  <2> QED
    BY <1>2, <2>1, <2>2
<1> DEFINE all == [i \in 1..Len(a) + Len(b) |-> i]
<1>4. all \in Seq(Nat) /\ Len(all) = Len(a) + Len(b) /\ \A i \in 1..Len(all) : all[i] = i
  BY <1>2
<1>5. a \o b = all
  <2> HIDE DEF all
  <2> QED
    BY <1>1, <1>3, <1>4, SeqEqual
<1> QED
  BY <1>1, <1>5

\* The invariant implies that the bytes out are in order.
LEMMA TxInOrderHolds == FastInv => TxInOrder
<1> SUFFICES ASSUME FastInv PROVE TxInOrder
  OBVIOUS
<1>0. delivered \in Seq(Nat) /\ wfifo \in Seq(Nat) /\ tx_in \in Slots /\ tx_out \in Slots
      /\ Len(delivered) \in Nat /\ Len(wfifo) \in Nat /\ BUF_LEN \in Nat \ {0, 1}
  BY Types, Constants DEF FastInv
<1> DEFINE ring == [i \in 1..TxQueued |-> Len(delivered) + Len(wfifo) + i]
<1>1. Content(tx_buf, tx_out, tx_in) = ring
  <2> DEFINE base == Len(delivered) + Len(wfifo)
  <2>1. base \in Nat
    BY <1>0
  <2>2. \A s \in Slots : Ahead(tx_out, s) < Ahead(tx_out, tx_in) =>
          tx_buf[s] = base + 1 + Ahead(tx_out, s)
    BY DEF FastInv, TxOrder, TxQueued
  <2>3. Content(tx_buf, tx_out, tx_in) = Run(base, Ahead(tx_out, tx_in))
    <3> HIDE DEF base
    <3> QED
      BY <1>0, <2>1, <2>2, RingBytes
  <2> QED
    BY <2>3 DEF TxQueued, Run
<1>2. ring \in Seq(Nat) /\ Len(ring) = TxQueued
  <2>1. TxQueued \in Nat
    BY <1>0 DEF TxQueued, Ahead, Slots
  <2> QED
    BY <1>0, <2>1
<1>3. /\ delivered \o wfifo = [i \in 1..Len(delivered) + Len(wfifo) |-> i]
      /\ delivered \o wfifo \in Seq(Nat) /\ Len(delivered \o wfifo) = Len(delivered) + Len(wfifo)
  BY <1>0, Numbered DEF FastInv, TxOrder
<1>4. (delivered \o wfifo) \o ring = [i \in 1..Len(delivered) + Len(wfifo) + TxQueued |-> i]
  <2>1. \A i \in 1..Len(delivered \o wfifo) : (delivered \o wfifo)[i] = i
    BY <1>3
  <2>2. \A i \in 1..Len(ring) : ring[i] = Len(delivered \o wfifo) + i
    BY <1>2, <1>3
  <2> HIDE DEF ring
  <2> QED
    BY <1>2, <1>3, <2>1, <2>2, Numbered
<1> QED
  BY <1>1, <1>4 DEF TxInOrder, FastInv, TxOrder

\* And the bytes in.
LEMMA RxInOrderHolds == FastInv => RxInOrder
<1> SUFFICES ASSUME FastInv PROVE RxInOrder
  OBVIOUS
<1>0. got \in Seq(1..MaxSent) /\ rfifo \in Seq(1..MaxSent) /\ rx_in \in Slots /\ rx_out \in Slots
      /\ Len(got) \in Nat /\ Len(rfifo) \in Nat /\ BUF_LEN \in Nat \ {0, 1} /\ n \in Nat
      /\ MaxSent \in Nat
  BY Types, Constants DEF FastInv
<1> DEFINE done == IF pc = "r_publish" THEN SubSeq(got, 1, Len(got) - n) ELSE got
           ring == [i \in 1..RxQueued |-> Taken + i]
<1>1. /\ done \in Seq(Nat) /\ Len(done) = Taken /\ Taken \in Nat
      /\ \A i \in 1..Taken : done[i] = i
  <2>1. CASE pc = "r_publish"
    <3>1. n <= Len(got)
      BY <2>1 DEF FastInv, RxReader
    <3>2. got \in Seq(Nat)
      BY <1>0
    <3>3. /\ SubSeq(got, 1, Len(got) - n) \in Seq(Nat)
          /\ Len(SubSeq(got, 1, Len(got) - n)) = Len(got) - n
          /\ \A i \in 1..Len(got) - n : SubSeq(got, 1, Len(got) - n)[i] = got[i]
      <4>1. Len(got) - n \in 0..Len(got) /\ \A i \in 1..Len(got) - n : got[i] \in Nat
        BY <1>0, <3>1, <3>2
      <4> HIDE DEF done, ring
      <4> QED
        BY <4>1, SubSeqProperties
    <3>4. Taken = Len(got) - n /\ Len(got) - n \in Nat /\ done = SubSeq(got, 1, Len(got) - n)
      BY <1>0, <2>1, <3>1 DEF Taken
    <3>5. \A i \in 1..Len(got) : got[i] = i
      BY DEF FastInv, RxOrder
    <3> HIDE DEF done
    <3>6. \A i \in 1..Taken : done[i] = i
      BY <1>0, <3>3, <3>4, <3>5
    <3> QED
      BY <3>3, <3>4, <3>6
  <2>2. CASE pc # "r_publish"
    BY <1>0, <2>2 DEF FastInv, RxOrder, Taken
  <2> QED
    BY <2>1, <2>2
<1>2. Content(rx_buf, rx_out, rx_in) = ring
  <2>1. \A s \in Slots : Ahead(rx_out, s) < Ahead(rx_out, rx_in) =>
          rx_buf[s] = Taken + 1 + Ahead(rx_out, s)
    BY DEF FastInv, RxOrder, RxQueued
  <2>3. Taken \in Nat
    BY <1>1
  <2>2. Content(rx_buf, rx_out, rx_in) = Run(Taken, Ahead(rx_out, rx_in))
    <3> HIDE DEF done, ring
    <3> QED
      BY <1>0, <2>1, <2>3, RingBytes
  <2> QED
    BY <2>2 DEF RxQueued, Run
<1>3. ring \in Seq(Nat) /\ Len(ring) = RxQueued /\ RxQueued \in Nat
  <2>1. RxQueued \in Nat
    BY <1>0 DEF RxQueued, Ahead, Slots
  <2> QED
    BY <1>1, <2>1
<1>4. /\ done \o ring = [i \in 1..Taken + RxQueued |-> i]
      /\ done \o ring \in Seq(Nat) /\ Len(done \o ring) = Taken + RxQueued
  <2>1. \A i \in 1..Len(ring) : ring[i] = Len(done) + i
    BY <1>1, <1>3
  <2> HIDE DEF ring, done
  <2> QED
    BY <1>1, <1>3, <2>1, Numbered
<1>5. (done \o ring) \o rfifo = [i \in 1..Taken + RxQueued + Len(rfifo) |-> i]
  <2>1. \A i \in 1..Len(done \o ring) : (done \o ring)[i] = i
    BY <1>4
  <2>3. rfifo \in Seq(Nat)
    BY <1>0
  <2>2. \A i \in 1..Len(rfifo) : rfifo[i] = Len(done \o ring) + i
    BY <1>4 DEF FastInv, RxOrder
  <2> HIDE DEF ring, done
  <2> QED
    BY <1>4, <2>1, <2>2, <2>3, Numbered
<1> QED
  BY <1>2, <1>5 DEF RxInOrder, FastInv, RxOrder

\* And that an infinite timeout never expires.
LEMMA InfiniteTimeoutHolds == FastInv => InfiniteTimeoutNeverExpires
<1> SUFFICES ASSUME FastInv PROVE InfiniteTimeoutNeverExpires
  OBVIOUS
<1>1. INT_MAX \in Nat /\ timeout \in 2..INT_MAX /\ host_inactive \in 0..INT_MAX
  BY Constants, TypeParts DEF FastInv, WatchTypes
<1> QED
  BY <1>1 DEF FastInv, Patience, InfiniteTimeoutNeverExpires

-----------------------------------------------------------------------------
\* What JTAG_UART_FAST promises of its states.
FastSafe ==
  /\ TypeOK /\ TxInOrder /\ RxInOrder /\ NoLostWakeup /\ ReceiveComesBack
  /\ InfiniteTimeoutNeverExpires

\* The invariant implies the four properties.
LEMMA FastInvSafe == FastInv => FastSafe
BY TxInOrderHolds, RxInOrderHolds, InfiniteTimeoutHolds DEF FastSafe, FastInv, Enables

\* The interrupt-driven driver (altera_avalon_jtag_uart_{init,read,write,ioctl}.c): bytes
\* cross both rings in order, a waiting writer is woken, the receive interrupt is off only
\* while the ring has bytes or a read is about to turn it on, and an infinite timeout
\* never expires.
THEOREM FastDriverSafe == Spec => []FastSafe
<1>1. FastInv /\ [Next]_vars => FastInv'
  BY FastStep
<1> QED
  BY InitFastInv, <1>1, FastInvSafe, PTL DEF Spec

-----------------------------------------------------------------------------
(* The two streams. *)

\* Every step of the interrupt-driven driver is a step of the two streams.
LEMMA FastLinkStep ==
  ASSUME FastInv, Next
  PROVE  [Link!Next]_link
<1>0. /\ tx_in \in Slots /\ tx_out \in Slots /\ rx_in \in Slots /\ rx_out \in Slots
      /\ BUF_LEN \in Nat \ {0, 1} /\ FIFO_DEPTH \in Nat /\ n \in Nat /\ accepted \in Nat /\ sent \in Nat
      /\ Len(delivered) \in Nat /\ Len(wfifo) \in Nat /\ Len(got) \in Nat /\ Len(rfifo) \in Nat
      /\ wfifo \in Seq(Nat) /\ Len(wfifo) <= FIFO_DEPTH /\ got \in Seq(1..MaxSent)
  BY Types, TypeParts, Constants DEF FastInv, DeviceTypes
<1>1. CASE UNCHANGED link
  BY <1>1
<1>2. CASE WritePublish
  <2>1. /\ accepted' = accepted + n /\ n \in 1..left /\ n + TxQueued < BUF_LEN
        /\ accepted = Len(delivered) + Len(wfifo) + TxQueued
        /\ UNCHANGED <<delivered, sent, got>>
    BY <1>2 DEF FastInv, TxWriter, TxOrder
  <2>2. TxQueued \in Int
    BY <1>0 DEF TxQueued, Ahead, Slots
  <2>3. accepted' > accepted /\ accepted' - Len(delivered) <= BUF_LEN - 1 + FIFO_DEPTH
    BY <1>0, <2>1, <2>2
  <2> QED
    BY <2>1, <2>3 DEF Link!Next, Link!Accept
<1>3. CASE Host /\ HostTakes
  <2>1. Head(wfifo) = Len(delivered) + 1 /\ Len(delivered) < accepted
    <3>1. wfifo # <<>> /\ Len(wfifo) > 0
      BY <1>0, <1>3 DEF HostTakes
    <3>2. TxQueued \in Nat
      BY <1>0 DEF TxQueued, Ahead, Slots
    <3> QED
      BY <1>0, <3>1, <3>2 DEF FastInv, TxOrder
  <2> QED
    BY <1>3, <2>1 DEF Link!Next, Link!Deliver, HostTakes
<1>4. CASE Host /\ HostSends
  <2>1. RxQueued \in 0..BUF_LEN - 1 /\ Taken <= Len(got) /\ Taken \in Int
    BY <1>0 DEF RxQueued, Ahead, Slots, Taken
  <2>2. sent - Len(got) < BUF_LEN - 1 + FIFO_DEPTH
    BY <1>0, <1>4, <2>1 DEF FastInv, RxOrder, HostSends
  <2> QED
    BY <1>4, <2>2 DEF Link!Next, Link!Send, HostSends
<1>6. CASE IsrReceive
  <2>1. RxQueued \in Nat /\ RxQueued < BUF_LEN - 1 /\ Taken <= Len(got) /\ Taken \in Int
    <3>1. Following(rx_in) # rx_out
      BY <1>6
    <3>2. RxQueued \in Nat /\ RxQueued < BUF_LEN - 1
      BY <1>0, <3>1, FollowingCases DEF RxQueued, Ahead, Slots
    <3>3. Taken <= Len(got) /\ Taken \in Int
      BY <1>0 DEF Taken
    <3> QED
      BY <3>2, <3>3
  <2>2. PICK late \in BOOLEAN : ReadData(late)
    BY <1>6
  <2>3. UNCHANGED <<accepted, delivered, got>>
    BY <1>6, <2>2 DEF ReadData
  <2>4. CASE late
    <3>1. sent' = sent + 1 /\ Len(rfifo) < FIFO_DEPTH
      BY <2>2, <2>4 DEF ReadData
    <3>2. sent - Len(got) < BUF_LEN - 1 + FIFO_DEPTH
      BY <1>0, <2>1, <3>1 DEF FastInv, RxOrder
    <3> QED
      BY <2>3, <3>1, <3>2 DEF Link!Next, Link!Send
  <2>5. CASE ~late
    BY <1>1, <2>2, <2>3, <2>5 DEF ReadData, link
  <2> QED
    BY <2>4, <2>5
<1>5. CASE ReadFill
  <2>1. /\ got' \in Seq(1..MaxSent) /\ Len(got') = Len(got) + n /\ n \in Nat \ {0}
        /\ Len(got) + n <= sent /\ \A i \in 1..Len(got') : got'[i] = i
    BY <1>5, ReadFillValues
  <2>2. got' = Link!Numbers(1, Len(got) + n)
    <3> DEFINE all == [i \in 1..Len(got) + n |-> i]
    <3>1. all \in Seq(Nat) /\ Len(all) = Len(got) + n /\ \A i \in 1..Len(all) : all[i] = i
      BY <1>0
    <3>2. got' = all
      <4>1. got' \in Seq(Nat)
        BY <2>1
      <4> HIDE DEF all
      <4> QED
        BY <2>1, <3>1, <4>1, SeqEqual
    <3> QED
      BY <1>0, <3>2 DEF Link!Numbers
  <2>3. Len(got) + n \in Len(got) + 1 .. sent
    BY <1>0, <2>1
  <2>4. UNCHANGED <<accepted, delivered, sent>>
    BY <1>5
  <2> QED
    BY <2>2, <2>3, <2>4 DEF Link!Next, Link!HandOut
<1> QED
  BY <1>1, <1>2, <1>3, <1>4, <1>5, <1>6
     DEF Next, Driver, Copying, Waiting, Isr, Calls, HostActs, HostPauses, link

\* A write that gives up has left no room in the ring.
LEMMA ShortWriteStep ==
  ASSUME FastInv, Next
  PROVE  ShortOnlyWhenFull
<1> SUFFICES ASSUME pc = "w_check", pc' = "idle"
             PROVE  Following(tx_in) = tx_out /\ timeout < INT_MAX - 1
  BY DEF ShortOnlyWhenFull
<1>1. WriteCheck /\ out = tx_out
  BY DEF Next, Driver, Copying, Waiting, Isr, Calls, Return
<1> QED
  BY <1>1 DEF FastInv, Patience

\* It implements the two streams of JTAG_LINK, and a short write means a full ring.
THEOREM FastDriverLinks == Spec => Link!Init /\ [][Link!Next]_link /\ [][ShortOnlyWhenFull]_vars
<1>1. Init => Link!Init
  BY DEF Init, JtagReset, Link!Init
<1>2. FastInv /\ [Next]_vars => FastInv'
  BY FastStep
<1>3. FastInv /\ [Next]_vars => [Link!Next]_link /\ [ShortOnlyWhenFull]_vars
  <2> SUFFICES ASSUME FastInv, [Next]_vars
               PROVE  [Link!Next]_link /\ [ShortOnlyWhenFull]_vars
    OBVIOUS
  <2>1. CASE Next
    BY <2>1, FastLinkStep, ShortWriteStep
  <2>2. CASE UNCHANGED vars
    BY <2>2 DEF vars, link
  <2> QED
    BY <2>1, <2>2
<1> QED
  BY InitFastInv, <1>1, <1>2, <1>3, PTL DEF Spec

-----------------------------------------------------------------------------
(* The polled driver. *)

\* The two streams: what is not with the program or the host is in a FIFO.
PolledStreams ==
  /\ accepted = Len(delivered) + Len(wfifo)
  /\ \A i \in 1..Len(delivered) : delivered[i] = i
  /\ \A i \in 1..Len(wfifo) : wfifo[i] = Len(delivered) + i
  /\ sent = Len(got) + Len(rfifo)
  /\ \A i \in 1..Len(got) : got[i] = i
  /\ \A i \in 1..Len(rfifo) : rfifo[i] = Len(got) + i

\* The room the driver saw in the control register is there when it writes.
PolledCall ==
  /\ pc = "w_put" => Len(wfifo) < PolledDepth /\ left > 0
  /\ pc \in {"w_poll", "w_put"} => accepted + left <= MaxWritten /\ moved <= accepted
  /\ pc = "read" => moved + left <= MaxSpace

\* The inductive invariant of the polled driver.
PolledInv == Polled!TypeOK /\ PolledStreams /\ PolledCall /\ Polled!ErrorMovesNothing

\* Its types, spelt out.
PolledTypes ==
  /\ wfifo \in Seq(Nat) /\ Len(wfifo) <= PolledDepth
  /\ rfifo \in Seq(1..MaxSent) /\ Len(rfifo) <= PolledDepth
  /\ delivered \in Seq(Nat) /\ sent \in 0..MaxSent
  /\ pc \in {"idle", "w_poll", "w_put", "read"}
  /\ left \in Nat /\ moved \in Nat /\ nonblock \in BOOLEAN
  /\ accepted \in 0..MaxWritten /\ got \in Seq(1..MaxSent)
  /\ ret \in {EIO, EWOULDBLOCK} \cup 0..MaxWritten + MaxSpace

\* q is base + 1, base + 2, ...
NumberedFrom(q, base) == \A i \in 1..Len(q) : q[i] = base + i

\* Numbered sequences stay numbered at either end.
LEMMA AppendNumbered ==
  ASSUME NEW S, NEW q \in Seq(S), NEW base \in Nat, NumberedFrom(q, base),
         NEW x, x = base + Len(q) + 1
  PROVE  Len(Append(q, x)) = Len(q) + 1 /\ NumberedFrom(Append(q, x), base)
<1> USE DEF NumberedFrom
<1>1. Len(Append(q, x)) = Len(q) + 1 /\ Len(q) \in Nat
  OBVIOUS
<1>2. ASSUME NEW i \in 1..Len(q) + 1 PROVE Append(q, x)[i] = base + i
  <2>1. CASE i = Len(q) + 1
    BY <1>1, <2>1
  <2>2. CASE i \in 1..Len(q)
    BY <2>2
  <2> QED
    BY <1>1, <2>1, <2>2
<1> QED
  BY <1>1, <1>2

\* And when their first element goes.
LEMMA TailNumbered ==
  ASSUME NEW S, NEW q \in Seq(S), NEW base \in Nat, \A i \in 1..Len(q) : q[i] = base + i,
         q # <<>>
  PROVE  /\ Len(Tail(q)) = Len(q) - 1 /\ Len(q) \in Nat \ {0} /\ Head(q) = base + 1
         /\ \A i \in 1..Len(Tail(q)) : Tail(q)[i] = base + 1 + i
<1>1. Len(Tail(q)) = Len(q) - 1 /\ Len(q) \in Nat \ {0} /\ Head(q) = q[1]
  OBVIOUS
<1>2. ASSUME NEW i \in 1..Len(q) - 1 PROVE Tail(q)[i] = base + 1 + i
  <2>1. Tail(q)[i] = q[i + 1] /\ i + 1 \in 1..Len(q)
    BY <1>1
  <2> QED
    BY <2>1
<1> QED
  BY <1>1, <1>2

\* What the assumptions say of the polled driver's constants.
LEMMA PolledConstants ==
  PolledDepth \in Nat \ {0} /\ MaxSent \in Nat /\ MaxWritten \in Nat /\ MaxSpace \in Nat
BY ConsoleAssumption DEF Polled!JtagAssumption, FastAssumption

\* The parts are the whole.
LEMMA PolledTypeParts == Polled!TypeOK <=> FlagTypes /\ PolledTypes
BY DEF Polled!TypeOK, Polled!JtagTypeOK, FlagTypes, PolledTypes, EIO, EWOULDBLOCK, Polled!EIO,
       Polled!EWOULDBLOCK

\* The polled driver starts over an empty device.
LEMMA InitPolledInv == Polled!Init => PolledInv
<1> SUFFICES ASSUME Polled!Init PROVE PolledInv
  OBVIOUS
<1> USE PolledConstants DEF Polled!Init, Polled!JtagReset
<1>1. FlagTypes
  BY DEF FlagTypes
<1>3. PolledTypes
  <2>1. wfifo \in Seq(Nat) /\ rfifo \in Seq(1..MaxSent) /\ delivered \in Seq(Nat) /\ got \in Seq(1..MaxSent)
        /\ Len(wfifo) = 0 /\ Len(rfifo) = 0
    OBVIOUS
  <2>2. nonblock \in BOOLEAN
    OBVIOUS
  <2>3. ret \in 0..MaxWritten + MaxSpace
    OBVIOUS
  <2> QED
    BY <2>1, <2>2, <2>3 DEF PolledTypes
<1>2. PolledStreams /\ PolledCall /\ Polled!ErrorMovesNothing
  BY DEF PolledStreams, PolledCall, Polled!ErrorMovesNothing
<1> QED
  BY <1>1, <1>2, <1>3, PolledTypeParts DEF PolledInv

USE DEF Polled!device, Polled!host, Polled!local,
  Polled!Write, Polled!Read, Polled!Call, Polled!Return, Polled!WritePoll, Polled!WritePut,
  Polled!ReadByte, Polled!ReadEnds, Polled!ReadAgain, Polled!Host

\* What a read of DATA does when the host does not act in it.
LEMMA PolledReadValues ==
  ASSUME PolledInv, Polled!ReadData(FALSE)
  PROVE  /\ rfifo' = IF rfifo # <<>> THEN Tail(rfifo) ELSE rfifo
         /\ UNCHANGED <<wfifo, ien_AF, ien_AE, ac, delivered, sent>> /\ pause_irq' = FALSE
<1>1. ac \in BOOLEAN /\ rfifo \in Seq(1..MaxSent)
  BY PolledTypeParts DEF PolledInv, FlagTypes, PolledTypes
<1> DEFINE rest == IF rfifo # <<>> THEN Tail(rfifo) ELSE rfifo
<1>2. rest \in Seq(1..MaxSent)
  BY <1>1, RestIsSequence, Zenon
<1>3. rfifo' = rest \o <<>> /\ sent' = sent /\ ac' = (ac \/ FALSE)
      /\ UNCHANGED <<wfifo, ien_AF, ien_AE, delivered>> /\ pause_irq' = FALSE
  BY DEF Polled!ReadData, Polled!RVALID
<1>4. (ac \/ FALSE) = ac
  BY <1>1
<1> HIDE DEF rest
<1>5. rest \o <<>> = rest
  BY <1>2, ConcatEmptySeq
<1>6. rfifo' = rest
  BY <1>3, <1>5
<1> QED
  BY <1>3, <1>4, <1>6 DEF rest

\* Its types are preserved: the enables and flags of the device.
LEMMA PolledFlagStep ==
  ASSUME PolledInv, Polled!Next
  PROVE  FlagTypes'
<1>0. FlagTypes
  BY PolledTypeParts DEF PolledInv
<1>1. CASE UNCHANGED <<ien_AF, ien_AE, pause_irq, ac>>
  BY <1>0, <1>1 DEF FlagTypes
<1>2. CASE Polled!ReadData(FALSE)
  BY <1>0, <1>2, PolledReadValues DEF FlagTypes
<1>3. CASE Polled!HostActs
  BY <1>0, <1>3, Zenon
     DEF FlagTypes, Polled!HostActs, Polled!HostTakes, Polled!HostSends, Polled!HostPauses
<1>4. CASE Polled!WritePut
  BY <1>1, <1>4 DEF Polled!WriteData
<1> QED
  BY <1>1, <1>2, <1>3, <1>4 DEF Polled!Next, Polled!Driver

\* A byte that is taken from the FIFO is the next one.
LEMMA ReadByteValues ==
  ASSUME PolledInv, Polled!ReadByte
  PROVE  /\ got' = Append(got, Len(got) + 1) /\ rfifo' = Tail(rfifo) /\ rfifo # <<>>
         /\ Len(got) + 1 <= sent /\ Len(got) \in Nat
<1>1. rfifo \in Seq(1..MaxSent) /\ got \in Seq(1..MaxSent) /\ rfifo # <<>>
  BY PolledTypeParts DEF PolledInv, PolledTypes, Polled!RVALID
<1>2. Len(rfifo) \in Nat /\ Len(rfifo) > 0 /\ Len(got) \in Nat
  BY <1>1
<1>3. Head(rfifo) = Len(got) + 1 /\ sent = Len(got) + Len(rfifo)
  BY <1>1, <1>2 DEF PolledInv, PolledStreams
<1> QED
  BY <1>1, <1>2, <1>3, PolledReadValues DEF Polled!RVALID

\* Everything else.
LEMMA PolledTypesStep ==
  ASSUME PolledInv, Polled!Next
  PROVE  PolledTypes'
<1>0. PolledTypes /\ PolledCall
  BY PolledTypeParts DEF PolledInv
<1> USE PolledConstants
<1>1. CASE Polled!Write
  BY <1>0, <1>1 DEF PolledTypes
<1>2. CASE Polled!Read
  BY <1>0, <1>2 DEF PolledTypes
<1>3. CASE Polled!WritePoll
  BY <1>0, <1>3 DEF PolledTypes, PolledCall
<1>4. CASE Polled!WritePut
  BY <1>0, <1>4 DEF PolledTypes, PolledCall, Polled!WriteData
<1>5. CASE Polled!ReadByte
  <2>1. sent \in 0..MaxSent /\ got \in Seq(1..MaxSent) /\ rfifo \in Seq(1..MaxSent)
    BY <1>0 DEF PolledTypes
  <2>2. got' \in Seq(1..MaxSent) /\ rfifo' \in Seq(1..MaxSent) /\ Len(rfifo') = Len(rfifo) - 1
    <3>1. Len(got) + 1 \in 1..MaxSent
      BY <1>5, <2>1, ReadByteValues
    <3>2. got' \in Seq(1..MaxSent)
      BY <1>5, <2>1, <3>1, ReadByteValues
    <3>3. rfifo' \in Seq(1..MaxSent) /\ Len(rfifo') = Len(rfifo) - 1
      <4>1. rfifo # <<>> /\ rfifo' = Tail(rfifo)
        BY <1>5, ReadByteValues
      <4> QED
        BY <2>1, <4>1, HeadTailProperties
    <3> QED
      BY <3>2, <3>3
  <2> QED
    BY <1>0, <1>5, <2>2, PolledReadValues DEF PolledTypes
<1>6. CASE Polled!ReadEnds
  <2>1. UNCHANGED <<wfifo, delivered, sent, accepted, got, left, moved, nonblock>> /\ pc' = "idle"
    BY <1>6, PolledReadValues
  <2>2. rfifo' = rfifo
    BY <1>6, PolledReadValues DEF Polled!RVALID
  <2>3. ret' \in {EIO, EWOULDBLOCK} \cup 0..MaxWritten + MaxSpace
    BY <1>0, <1>6 DEF PolledTypes, PolledCall, EIO, EWOULDBLOCK, Polled!EIO, Polled!EWOULDBLOCK
  <2> QED
    BY <1>0, <2>1, <2>2, <2>3 DEF PolledTypes
<1>7. CASE Polled!ReadAgain
  BY <1>0, <1>7, PolledReadValues DEF PolledTypes, Polled!RVALID
<1>8. CASE Polled!Host
  <2>1. CASE Polled!HostTakes
    BY <1>0, <1>8, <2>1 DEF PolledTypes, Polled!HostTakes
  <2>2. CASE Polled!HostSends
    <3>1. sent + 1 \in 1..MaxSent /\ rfifo \in Seq(1..MaxSent)
      BY <1>0, <2>2 DEF PolledTypes, Polled!HostSends
    <3>2. rfifo' \in Seq(1..MaxSent) /\ Len(rfifo') = Len(rfifo) + 1
      BY <2>2, <3>1 DEF Polled!HostSends
    <3> QED
      BY <1>0, <1>8, <2>2, <3>1, <3>2 DEF PolledTypes, Polled!HostSends
  <2>3. CASE Polled!HostPauses
    BY <1>0, <1>8, <2>3 DEF PolledTypes, Polled!HostPauses
  <2> QED
    BY <1>8, <2>1, <2>2, <2>3 DEF Polled!HostActs
<1> QED
  BY <1>1, <1>2, <1>3, <1>4, <1>5, <1>6, <1>7, <1>8 DEF Polled!Next, Polled!Driver

\* No step of the polled driver loses, doubles or reorders a byte.
LEMMA PolledStreamsStep ==
  ASSUME PolledInv, Polled!Next
  PROVE  PolledStreams'
<1>0. PolledStreams /\ PolledTypes /\ PolledCall
  BY PolledTypeParts DEF PolledInv
<1>9. /\ wfifo \in Seq(Nat) /\ rfifo \in Seq(1..MaxSent) /\ delivered \in Seq(Nat) /\ got \in Seq(1..MaxSent)
      /\ Len(wfifo) \in Nat /\ Len(rfifo) \in Nat /\ Len(delivered) \in Nat /\ Len(got) \in Nat
  BY <1>0 DEF PolledTypes
<1>1. CASE UNCHANGED <<wfifo, rfifo, delivered, sent, accepted, got>>
  BY <1>0, <1>1 DEF PolledStreams
<1>2. CASE Polled!WritePut
  <2>1. /\ wfifo' = Append(wfifo, accepted + 1) /\ accepted' = accepted + 1
        /\ accepted + 1 = Len(delivered) + Len(wfifo) + 1
        /\ UNCHANGED <<rfifo, delivered, sent, got>>
    BY <1>0, <1>2 DEF PolledStreams, PolledCall, Polled!WriteData
  <2>2. Len(wfifo') = Len(wfifo) + 1 /\ \A i \in 1..Len(wfifo') : wfifo'[i] = Len(delivered) + i
    <3>1. NumberedFrom(wfifo, Len(delivered))
      BY <1>0 DEF PolledStreams, NumberedFrom
    <3>2. Len(wfifo') = Len(wfifo) + 1 /\ NumberedFrom(wfifo', Len(delivered))
      BY <1>9, <2>1, <3>1, AppendNumbered
    <3> QED
      BY <3>2 DEF NumberedFrom
  <2> QED
    BY <1>0, <1>9, <2>1, <2>2 DEF PolledStreams
<1>3. CASE Polled!ReadByte
  <2>1. /\ got' = Append(got, Len(got) + 1) /\ rfifo' = Tail(rfifo) /\ rfifo # <<>>
        /\ UNCHANGED <<wfifo, delivered, sent, accepted>>
    BY <1>3, ReadByteValues, PolledReadValues
  <2>2. Len(got') = Len(got) + 1 /\ \A i \in 1..Len(got') : got'[i] = i
    <3>1. NumberedFrom(got, 0) /\ Len(got) + 1 = 0 + Len(got) + 1
      BY <1>0, <1>9 DEF PolledStreams, NumberedFrom
    <3>2. Len(got') = Len(got) + 1 /\ NumberedFrom(got', 0)
      BY <1>9, <2>1, <3>1, AppendNumbered
    <3>3. got' \in Seq(Nat)
      BY <1>9, <2>1, PolledConstants
    <3> QED
      BY <1>9, <3>2, <3>3 DEF NumberedFrom
  <2>3. Len(rfifo') = Len(rfifo) - 1 /\ \A i \in 1..Len(rfifo') : rfifo'[i] = Len(got) + 1 + i
    BY <1>0, <1>9, <2>1, TailNumbered DEF PolledStreams
  <2> QED
    BY <1>0, <1>9, <2>1, <2>2, <2>3 DEF PolledStreams
<1>4. CASE Polled!HostTakes /\ Polled!Host
  <2>1. /\ delivered' = Append(delivered, Head(wfifo)) /\ wfifo' = Tail(wfifo) /\ wfifo # <<>>
        /\ UNCHANGED <<rfifo, sent, accepted, got>>
    BY <1>4 DEF Polled!HostTakes
  <2>2. /\ Len(wfifo') = Len(wfifo) - 1 /\ Head(wfifo) = Len(delivered) + 1
        /\ \A i \in 1..Len(wfifo') : wfifo'[i] = Len(delivered) + 1 + i
    BY <1>0, <1>9, <2>1, TailNumbered DEF PolledStreams
  <2>3. Len(delivered') = Len(delivered) + 1 /\ \A i \in 1..Len(delivered') : delivered'[i] = i
    BY <1>0, <1>9, <2>1, <2>2 DEF PolledStreams
  <2> QED
    BY <1>0, <1>9, <2>1, <2>2, <2>3 DEF PolledStreams
<1>5. CASE Polled!HostSends /\ Polled!Host
  <2>1. /\ rfifo' = Append(rfifo, sent + 1) /\ sent' = sent + 1 /\ sent + 1 = Len(got) + Len(rfifo) + 1
        /\ UNCHANGED <<wfifo, delivered, accepted, got>>
    BY <1>0, <1>5 DEF PolledStreams, Polled!HostSends
  <2>2. Len(rfifo') = Len(rfifo) + 1 /\ \A i \in 1..Len(rfifo') : rfifo'[i] = Len(got) + i
    <3>1. NumberedFrom(rfifo, Len(got))
      BY <1>0 DEF PolledStreams, NumberedFrom
    <3>2. Len(rfifo') = Len(rfifo) + 1 /\ NumberedFrom(rfifo', Len(got))
      BY <1>9, <2>1, <3>1, AppendNumbered
    <3> QED
      BY <3>2 DEF NumberedFrom
  <2>3. sent' = Len(got') + Len(rfifo')
    BY <1>9, <2>1, <2>2
  <2> QED
    BY <1>0, <1>9, <2>1, <2>2, <2>3 DEF PolledStreams
<1>6. CASE Polled!ReadEnds \/ Polled!ReadAgain
  BY <1>1, <1>6, PolledReadValues DEF Polled!RVALID
<1> QED
  BY <1>1, <1>2, <1>3, <1>4, <1>5, <1>6
     DEF Polled!Next, Polled!Driver, Polled!HostActs, Polled!HostPauses

\* Its calls keep within what they were given, and an error moves nothing.
LEMMA PolledCallStep ==
  ASSUME PolledInv, Polled!Next
  PROVE  PolledCall' /\ Polled!ErrorMovesNothing'
<1>0. PolledTypes /\ PolledCall /\ Polled!ErrorMovesNothing
  BY PolledTypeParts DEF PolledInv
<1> USE PolledConstants DEF PolledCall, PolledTypes, Polled!ErrorMovesNothing
<1>1. CASE Polled!Write
  BY <1>0, <1>1
<1>8. CASE Polled!Read
  BY <1>0, <1>8
<1>2. CASE Polled!WritePoll
  BY <1>0, <1>2 DEF Polled!WSPACE
<1>3. CASE Polled!WritePut
  BY <1>0, <1>3
<1>4. CASE Polled!ReadByte
  BY <1>0, <1>4
<1>5. CASE Polled!ReadEnds
  <2>1. /\ pc' = "idle" /\ UNCHANGED <<left, moved, nonblock, accepted, got, delivered, sent>>
        /\ ret' = (IF moved > 0 THEN moved ELSE IF nonblock THEN Polled!EWOULDBLOCK ELSE Polled!EIO)
        /\ left = 0 \/ moved > 0 \/ nonblock
    BY <1>5
  <2> QED
    BY <1>0, <2>1 DEF Polled!EIO, Polled!EWOULDBLOCK
<1>6. CASE Polled!ReadAgain
  BY <1>0, <1>6
<1>7. CASE Polled!Host
  <2>1. Len(wfifo') <= Len(wfifo)
    <3>1. CASE Polled!HostTakes
      BY <1>0, <3>1, HeadTailProperties DEF Polled!HostTakes
    <3>2. CASE UNCHANGED wfifo
      BY <1>0, <3>2
    <3> QED
      BY <1>7, <3>1, <3>2 DEF Polled!HostActs, Polled!HostSends, Polled!HostPauses
  <2>2. Len(wfifo') \in Nat /\ Len(wfifo) \in Nat
    BY <1>0, <1>7, PolledTypesStep
  <2> QED
    BY <1>0, <1>7, <2>1, <2>2
<1> QED
  BY <1>1, <1>2, <1>3, <1>4, <1>5, <1>6, <1>7, <1>8 DEF Polled!Next, Polled!Driver

\* Every step of the polled driver preserves its invariant.
LEMMA PolledStep ==
  ASSUME PolledInv, Polled!Next
  PROVE  PolledInv'
<1>1. Polled!TypeOK'
  BY PolledFlagStep, PolledTypesStep, PolledTypeParts, PTL
<1> QED
  BY <1>1, PolledStreamsStep, PolledCallStep DEF PolledInv

\* Every step of the polled driver is a step of the two streams.
LEMMA PolledLinkStep ==
  ASSUME PolledInv, Polled!Next
  PROVE  [Polled!Link!Next]_link
<1>0. PolledStreams /\ PolledTypes /\ PolledCall
  BY PolledTypeParts DEF PolledInv
<1>9. /\ wfifo \in Seq(Nat) /\ rfifo \in Seq(1..MaxSent) /\ delivered \in Seq(Nat) /\ got \in Seq(1..MaxSent)
      /\ Len(wfifo) \in Nat /\ Len(rfifo) \in Nat /\ Len(delivered) \in Nat /\ Len(got) \in Nat
      /\ PolledDepth \in Nat
  BY <1>0, PolledConstants DEF PolledTypes
<1>1. CASE UNCHANGED link
  BY <1>1
<1>2. CASE Polled!WritePut
  BY <1>0, <1>2, <1>9
     DEF PolledStreams, PolledCall, Polled!WriteData, Polled!Link!Next, Polled!Link!Accept
<1>3. CASE Polled!ReadByte
  <2>1. /\ got' = Append(got, Len(got) + 1) /\ Len(got) + 1 <= sent
        /\ UNCHANGED <<delivered, sent, accepted>>
    BY <1>3, ReadByteValues
  <2>2. got' = Polled!Link!Numbers(1, Len(got) + 1)
    <3> DEFINE all == [i \in 1..Len(got) + 1 |-> i]
    <3>1. all \in Seq(Nat) /\ Len(all) = Len(got) + 1 /\ \A i \in 1..Len(all) : all[i] = i
      BY <1>9
    <3>2. got' \in Seq(Nat) /\ Len(got') = Len(got) + 1
      <4>1. got \in Seq(Nat)
        BY <1>9, PolledConstants
      <4> QED
        BY <1>9, <2>1, <4>1, AppendProperties
    <3>3. \A i \in 1..Len(got') : got'[i] = i
      BY <1>3, PolledStreamsStep DEF PolledStreams, Polled!Next, Polled!Driver
    <3>4. got' = all
      <4> HIDE DEF all
      <4> QED
        BY <3>1, <3>2, <3>3, SeqEqual
    <3> QED
      BY <1>9, <3>4 DEF Polled!Link!Numbers
  <2>3. Len(got) + 1 \in Len(got) + 1 .. sent
    BY <1>0, <1>9, <2>1 DEF PolledTypes
  <2> QED
    BY <2>1, <2>2, <2>3 DEF Polled!Link!Next, Polled!Link!HandOut
<1>4. CASE Polled!HostTakes /\ Polled!Host
  <2>1. wfifo # <<>> /\ Len(wfifo) > 0
    BY <1>4, <1>9 DEF Polled!HostTakes
  <2>2. Head(wfifo) = Len(delivered) + 1 /\ Len(delivered) < accepted
    BY <1>0, <1>9, <2>1 DEF PolledStreams
  <2> QED
    BY <1>4, <2>2 DEF Polled!HostTakes, Polled!Link!Next, Polled!Link!Deliver
<1>5. CASE Polled!HostSends /\ Polled!Host
  BY <1>0, <1>5, <1>9 DEF PolledStreams, Polled!HostSends, Polled!Link!Next, Polled!Link!Send
<1> QED
  BY <1>1, <1>2, <1>3, <1>4, <1>5
     DEF Polled!Next, Polled!Driver, Polled!HostActs, Polled!HostPauses, link

-----------------------------------------------------------------------------
(* The driver that is compiled. *)

\* Whichever of the two drivers is compiled, its own invariant.
ConsoleInv == IF part = "polled" THEN PolledInv ELSE FastInv

\* Whichever driver is compiled starts in its invariant.
LEMMA InitConsoleInv == ConsoleInit => ConsoleInv /\ Polled!Link!Init
<1> SUFFICES ASSUME ConsoleInit PROVE ConsoleInv /\ Polled!Link!Init
  OBVIOUS
<1>1. CASE part = "polled"
  BY <1>1, InitPolledInv DEF ConsoleInit, ConsoleInv, Polled!Init, Polled!JtagReset, Polled!Link!Init
<1>2. CASE part # "polled"
  BY <1>2, InitFastInv DEF ConsoleInit, ConsoleInv, Init, JtagReset, Polled!Link!Init
<1> QED
  BY <1>1, <1>2

\* And keeps it.
LEMMA ConsoleStep ==
  ASSUME ConsoleInv, [ConsoleNext]_console
  PROVE  ConsoleInv'
<1>1. CASE ConsoleNext /\ part = "polled"
  BY <1>1, PolledStep DEF ConsoleNext, ConsoleInv
<1>2. CASE ConsoleNext /\ part # "polled"
  BY <1>2, FastStep DEF ConsoleNext, ConsoleInv
<1>3. CASE UNCHANGED console
  <2>1. CASE part = "polled"
    <3>1. UNCHANGED <<Polled!TypeOK, Polled!ErrorMovesNothing>>
      BY <1>3 DEF console, vars, Polled!TypeOK, Polled!JtagTypeOK, Polled!ErrorMovesNothing
    <3>2. UNCHANGED <<PolledStreams, PolledCall>>
      BY <1>3 DEF console, vars, PolledStreams, PolledCall
    <3> QED
      BY <1>3, <2>1, <3>1, <3>2 DEF ConsoleInv, PolledInv, console
  <2>2. CASE part # "polled"
    BY <1>3, <2>2, FastStep DEF ConsoleInv, console
  <2> QED
    BY <2>1, <2>2
<1> QED
  BY <1>1, <1>2, <1>3

\* Whichever of the two drivers is compiled: the bytes of each direction arrive in the order
\* they were given, none lost and none twice, and an error moves none.
THEOREM ConsoleBytes == ConsoleSpec => []BytesInOrder
<1>1. ConsoleInv /\ [ConsoleNext]_console => ConsoleInv'
  BY ConsoleStep
<1>2. ConsoleInv => BytesInOrder
  BY FastInvSafe DEF ConsoleInv, BytesInOrder, FastSafe, PolledInv
<1> QED
  BY InitConsoleInv, <1>1, <1>2, PTL DEF ConsoleSpec

\* Whichever of the two drivers is compiled: it implements the two streams of JTAG_LINK,
\* and a write that returns short has met a full ring.
THEOREM ConsoleLink == ConsoleSpec => LinkIsKept
<1>1. ConsoleInv /\ [ConsoleNext]_console => ConsoleInv'
  BY ConsoleStep
<1> DEFINE LinkNext == IF part = "polled" THEN Polled!Link!Next ELSE Link!Next
<1>2. ConsoleInv /\ [ConsoleNext]_console => [LinkNext]_link
  <2> SUFFICES ASSUME ConsoleInv, [ConsoleNext]_console PROVE [LinkNext]_link
    OBVIOUS
  <2>1. CASE ConsoleNext /\ part = "polled"
    BY <2>1, PolledLinkStep DEF ConsoleNext, ConsoleInv
  <2>2. CASE ConsoleNext /\ part # "polled"
    BY <2>2, FastLinkStep DEF ConsoleNext, ConsoleInv
  <2>3. CASE UNCHANGED console
    BY <2>3 DEF console, vars, link
  <2> QED
    BY <2>1, <2>2, <2>3
<1>3. ConsoleInv /\ [ConsoleNext]_console => [ShortOnlyWhenFull]_vars
  <2> SUFFICES ASSUME ConsoleInv, [ConsoleNext]_console PROVE [ShortOnlyWhenFull]_vars
    OBVIOUS
  <2>1. CASE ConsoleNext /\ part = "polled"
    <3>1. pc # "w_check"
      BY <2>1, PolledTypeParts DEF ConsoleInv, PolledInv, PolledTypes
    <3> QED
      BY <3>1 DEF ShortOnlyWhenFull
  <2>2. CASE ConsoleNext /\ part # "polled"
    BY <2>2, ShortWriteStep DEF ConsoleNext, ConsoleInv
  <2>3. CASE UNCHANGED console
    BY <2>3 DEF console, vars
  <2> QED
    BY <2>1, <2>2, <2>3
<1> QED
  BY InitConsoleInv, <1>1, <1>2, <1>3, PTL DEF ConsoleSpec, LinkIsKept
=============================================================================
