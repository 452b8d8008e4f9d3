--------------------------- MODULE JTAG_UART_FAST ---------------------------
(***************************************************************************)
(* The interrupt-driven driver of the JTAG UART: two ring buffers shared   *)
(* between the program and the interrupt routine without a lock, interrupt *)
(* enables that both change, and an alarm that watches for the host.       *)
(*                                                                         *)
(* The program (pc) and the interrupt routine (isr) advance in steps that  *)
(* each touch the shared state once; the program stands still while the    *)
(* routine runs.  The alarm is a second interrupt and does not nest.       *)
(***************************************************************************)
EXTENDS JTAG_UART

CONSTANTS
  BUF_LEN,     \* ALTERA_AVALON_JTAG_UART_BUF_LEN, 2048
  INT_MAX,     \* of the C implementation; scaled down for checking
  DEFAULT_TIMEOUT,  \* ALTERA_AVALON_JTAG_UART_DEFAULT_TIMEOUT, in alarms
  Timeouts,    \* the arguments of TIOCSTIMEOUT that are tried
  MaxWritten,  \* bound: the program writes that many bytes in all
  MaxSpace     \* bound: the largest buffer a read is given

FastAssumption ==
  /\ BUF_LEN \in Nat \ {0, 1} /\ DEFAULT_TIMEOUT \in 2..INT_MAX - 3
  /\ INT_MAX \in Nat /\ Timeouts \subseteq Int
  /\ MaxWritten \in Nat /\ MaxSpace \in Nat

EIO == -5
EWOULDBLOCK == -11
ENOTTY == -25

VARIABLES
  timeout, irq_enable, host_inactive,
  rx_in, rx_out, tx_in, tx_out, rx_buf, tx_buf,
  pc,          \* where the program is: "idle" outside the driver
  left,        \* count or space
  nonblock,    \* O_NONBLOCK in flags
  in, out, n,  \* the program's locals
  moved,       \* ptr - start
  ret,         \* what the last call returned
  isr,         \* where the interrupt routine is: "off" outside it
  control,     \* its copy of the control register
  space,       \* its count of room in the transmit FIFO
  data,        \* the RAVAIL field of its last read of DATA
  accepted,    \* bytes put in the transmit ring since the start
  got          \* bytes read

rings == <<rx_in, rx_out, tx_in, tx_out, rx_buf, tx_buf>>
local == <<pc, left, nonblock, in, out, n, moved, ret>>
routine == <<isr, control, space, data>>
ledger == <<accepted, got>>
watch == <<timeout, host_inactive>>
vars == <<device, host, watch, irq_enable, rings, local, routine, ledger>>

Slots == 0..BUF_LEN - 1

\* The bytes between two indices of a ring.
Content(buf, from, to) ==
  [i \in 1..(to - from) % BUF_LEN |-> buf[(from + i - 1) % BUF_LEN]]

Labels == {"idle", "w_copy", "w_fill", "w_publish", "w_kick", "w_spin", "w_check",
           "r_copy", "r_fill", "r_publish", "r_spin", "r_check", "r_done", "close"}

TypeOK ==
  /\ JtagTypeOK
  /\ timeout \in 2..INT_MAX /\ host_inactive \in 0..INT_MAX
  /\ irq_enable \subseteq {"RE", "WE"}
  /\ {rx_in, rx_out, tx_in, tx_out} \subseteq Slots
  /\ rx_buf \in [Slots -> 0..MaxSent] /\ tx_buf \in [Slots -> 0..MaxWritten]
  /\ pc \in Labels /\ left \in Nat /\ nonblock \in BOOLEAN
  /\ {in, out} \subseteq Slots /\ n \in 0..BUF_LEN /\ moved \in Nat /\ ret \in Int
  /\ isr \in {"off", "poll", "rx", "rx_end", "tx", "tx_end"}
  /\ control \subseteq {"RI", "WI"} /\ space \in 0..FIFO_DEPTH /\ data \in 0..FIFO_DEPTH
  /\ accepted \in 0..MaxWritten /\ got \in Seq(1..MaxSent)

\* After altera_avalon_jtag_uart_init: alt_alarm_start may have failed, as it
\* does where there is no system clock.
Init ==
  /\ JtagReset /\ ien_AF = TRUE /\ irq_enable = {"RE"}
  /\ timeout \in {DEFAULT_TIMEOUT, INT_MAX} /\ host_inactive = 0
  /\ rx_in = 0 /\ rx_out = 0 /\ tx_in = 0 /\ tx_out = 0
  /\ rx_buf = [i \in Slots |-> 0] /\ tx_buf = [i \in Slots |-> 0]
  /\ pc = "idle" /\ left = 0 /\ nonblock = FALSE
  /\ in = 0 /\ out = 0 /\ n = 0 /\ moved = 0 /\ ret = 0
  /\ isr = "off" /\ control = {} /\ space = 0 /\ data = 0
  /\ accepted = 0 /\ got = <<>>

-----------------------------------------------------------------------------
\* The program.
At(label) == pc = label /\ isr = "off" /\ UNCHANGED <<routine, host, timeout, host_inactive>>
Goto(label) == pc' = label
Least(a, b) == IF a < b THEN a ELSE b

\* The locals are gone.
Return(rc) ==
  /\ Goto("idle") /\ ret' = rc
  /\ left' = 0 /\ nonblock' = FALSE /\ in' = 0 /\ out' = 0 /\ n' = 0 /\ moved' = 0

Outcome == IF moved > 0 THEN moved ELSE IF nonblock THEN EWOULDBLOCK ELSE EIO

Call(label, size, flag) ==
  /\ At("idle") /\ Goto(label)
  /\ left' = size /\ nonblock' = flag /\ moved' = 0 /\ ret' = 0
  /\ UNCHANGED <<device, irq_enable, rings, in, out, n, ledger>>

\* Slip: the slot that tells a full ring from an empty one is given away.
RunOfFree_OneMore(i, o) == IF i < o THEN o - 1 - i ELSE BUF_LEN - i
\* The longest run of free slots at in.
RunOfFree(i, o) ==
  IF i < o THEN o - 1 - i ELSE IF o > 0 THEN BUF_LEN - i ELSE BUF_LEN - 1 - i

Write == \E count \in 0..MaxWritten - accepted, flag \in BOOLEAN :
  Call("w_copy", count, flag)

WriteCopy ==
  /\ At("w_copy")
  /\ \/ left = 0 /\ Goto("w_kick") /\ UNCHANGED <<in, out, n>>
     \/ /\ left > 0
        /\ in' = tx_in /\ out' = tx_out
        /\ n' = Least(RunOfFree(tx_in, tx_out), left)
        /\ Goto(IF n' = 0 THEN "w_kick" ELSE "w_fill")
  /\ UNCHANGED <<device, irq_enable, rings, left, nonblock, moved, ret, ledger>>

\* memcpy: the program's next bytes.
WriteFill ==
  /\ At("w_fill") /\ Goto("w_publish")
  /\ tx_buf' = [i \in Slots |-> IF i \in in..in + n - 1
                                THEN accepted + 1 + i - in ELSE tx_buf[i]]
  /\ UNCHANGED <<device, irq_enable, rx_in, rx_out, tx_in, tx_out, rx_buf,
                 left, nonblock, in, out, n, moved, ret, ledger>>

WritePublish ==
  /\ At("w_publish") /\ Goto("w_copy")
  /\ moved' = moved + n /\ left' = left - n /\ accepted' = accepted + n
  /\ tx_in' = (in + n) % BUF_LEN
  /\ UNCHANGED <<device, irq_enable, rx_in, rx_out, tx_out, rx_buf, tx_buf,
                 nonblock, in, out, n, ret, got>>

\* With interrupts disabled.
WriteKick ==
  /\ At("w_kick")
  /\ irq_enable' = irq_enable \cup {"WE"} /\ WriteControl(irq_enable', FALSE)
  /\ IF left > 0 /\ ~nonblock
     THEN Goto("w_spin") /\ UNCHANGED <<left, nonblock, in, out, n, moved, ret>>
     ELSE Return(Outcome)
  /\ UNCHANGED <<rings, ledger>>

\* Slip: the timeout is not looked at.
Spin_Forever(here, there, waiting) ==
  /\ At(here) /\ ~waiting /\ Goto(there)
  /\ UNCHANGED <<device, irq_enable, rings, left, nonblock, in, out, n, moved, ret, ledger>>

Spin(here, there, waiting) ==
  /\ At(here) /\ ~(waiting /\ host_inactive < timeout) /\ Goto(there)
  /\ UNCHANGED <<device, irq_enable, rings, left, nonblock, in, out, n, moved, ret, ledger>>

\* out is the value seen before the kick.
WriteSpin == Spin("w_spin", "w_check", out = tx_out)
WriteCheck ==
  /\ At("w_check")
  /\ IF out = tx_out THEN Return(Outcome)
     ELSE Goto("w_copy") /\ UNCHANGED <<left, nonblock, in, out, n, moved, ret>>
  /\ UNCHANGED <<device, irq_enable, rings, ledger>>

Read == \E size \in 0..MaxSpace, flag \in BOOLEAN :
  Len(got) < MaxSent /\ Call("r_copy", size, flag)

ReadCopy ==
  /\ At("r_copy")
  /\ \/ left = 0 /\ Goto("r_done") /\ UNCHANGED <<in, out, n>>
     \/ /\ left > 0
        /\ in' = rx_in /\ out' = rx_out
        /\ n' = Least(IF rx_in >= rx_out THEN rx_in - rx_out ELSE BUF_LEN - rx_out, left)
        /\ Goto(IF n' > 0 THEN "r_fill"
                ELSE IF moved > 0 \/ nonblock THEN "r_done" ELSE "r_spin")
  /\ UNCHANGED <<device, irq_enable, rings, left, nonblock, moved, ret, ledger>>

\* memcpy into the caller's buffer.
ReadFill ==
  /\ At("r_fill") /\ Goto("r_publish")
  /\ got' = got \o [i \in 1..n |-> rx_buf[out + i - 1]]
  /\ moved' = moved + n /\ left' = left - n
  /\ UNCHANGED <<device, irq_enable, rings, nonblock, in, out, n, ret, accepted>>

ReadPublish ==
  /\ At("r_publish") /\ Goto("r_copy")
  /\ rx_out' = (out + n) % BUF_LEN
  /\ UNCHANGED <<device, irq_enable, rx_in, tx_in, tx_out, rx_buf, tx_buf,
                 left, nonblock, in, out, n, moved, ret, ledger>>

ReadSpin == Spin("r_spin", "r_check", in = rx_in)
ReadCheck ==
  /\ At("r_check") /\ Goto(IF in = rx_in THEN "r_done" ELSE "r_copy")
  /\ UNCHANGED <<device, irq_enable, rings, left, nonblock, in, out, n, moved, ret, ledger>>

\* With interrupts disabled, and only if something was read.
ReadDone ==
  /\ At("r_done") /\ Return(Outcome)
  /\ IF moved > 0
     THEN irq_enable' = irq_enable \cup {"RE"} /\ WriteControl(irq_enable', FALSE)
     ELSE UNCHANGED <<device, irq_enable>>
  /\ UNCHANGED <<rings, ledger>>

Close == \E flag \in BOOLEAN : Call("close", 0, flag)
CloseWait ==
  /\ At("close")
  /\ \/ ~(tx_out # tx_in /\ host_inactive < timeout) /\ Return(0)
     \/ tx_out # tx_in /\ host_inactive < timeout /\ nonblock /\ Return(EWOULDBLOCK)
  /\ UNCHANGED <<device, irq_enable, rings, ledger>>

\* ioctl TIOCSTIMEOUT and TIOCGCONNECTED.
SetTimeout(t) ==
  /\ pc = "idle" /\ isr = "off"
  /\ IF timeout # INT_MAX
     THEN timeout' = (IF t >= 2 /\ t < INT_MAX THEN t ELSE INT_MAX - 1) /\ ret' = 0
     ELSE timeout' = timeout /\ ret' = ENOTTY
  /\ UNCHANGED <<device, host, host_inactive, irq_enable, rings, pc, left, nonblock,
                 in, out, n, moved, routine, ledger>>

GetConnected ==
  /\ At("idle")
  /\ ret' = IF timeout = INT_MAX THEN ENOTTY ELSE IF host_inactive < timeout THEN 1 ELSE 0
  /\ UNCHANGED <<device, irq_enable, rings, pc, left, nonblock, in, out, n, moved, ledger>>

Copying == WriteCopy \/ WriteFill \/ WritePublish \/ ReadCopy \/ ReadFill \/ ReadPublish
Waiting == WriteSpin \/ WriteCheck \/ ReadSpin \/ ReadCheck \/ CloseWait
Driver == Copying \/ WriteKick \/ Waiting \/ ReadDone
Calls == Write \/ Read \/ Close \/ GetConnected \/ \E t \in Timeouts : SetTimeout(t)

-----------------------------------------------------------------------------
\* The interrupt routine.
Inside(here) == isr = here /\ UNCHANGED <<local, ledger, timeout, host_inactive>>
In(here) == Inside(here) /\ UNCHANGED host

IsrEnter ==
  /\ In("off") /\ (RI \/ WI) /\ isr' = "poll"
  /\ UNCHANGED <<device, irq_enable, rings, control, space, data>>

IsrPoll ==
  /\ In("poll")
  /\ control' = {c \in {"RI", "WI"} : IF c = "RI" THEN RI ELSE WI}
  /\ isr' = IF RI THEN "rx" ELSE IF WI THEN "tx" ELSE "off"
  /\ space' = (IF WI THEN WSPACE ELSE 0) /\ data' = (IF RI THEN 1 ELSE 0)
  /\ UNCHANGED <<device, irq_enable, rings>>

\* One turn of the receive loop.
Following(i) == (i + 1) % BUF_LEN

IsrReceive ==
  /\ Inside("rx") /\ Following(rx_in) # rx_out
  /\ \E late \in BOOLEAN : ReadData(late)
  /\ data' = RAVAIL
  /\ IF RVALID
     THEN rx_buf' = [rx_buf EXCEPT ![rx_in] = Head(rfifo)] /\ rx_in' = Following(rx_in) /\ isr' = isr
     ELSE isr' = "rx_end" /\ UNCHANGED <<rx_buf, rx_in>>
  /\ UNCHANGED <<irq_enable, rx_out, tx_in, tx_out, tx_buf, control, space>>

IsrReceiveFull ==
  /\ In("rx") /\ Following(rx_in) = rx_out /\ isr' = "rx_end"
  /\ UNCHANGED <<device, irq_enable, rings, control, space, data>>

\* More in the FIFO is taken to mean that the ring is full.
IsrReceiveEnd ==
  /\ In("rx_end") /\ isr' = (IF "WI" \in control THEN "tx" ELSE "poll")
  /\ IF data > 0
     THEN irq_enable' = irq_enable \ {"RE"} /\ WriteControl(irq_enable', FALSE)
     ELSE UNCHANGED <<device, irq_enable>>
  /\ UNCHANGED <<rings, control, space, data>>

\* One turn of the transmit loop, and what follows it.
IsrTransmit ==
  /\ In("tx") /\ space > 0 /\ tx_out # tx_in
  /\ WriteData(tx_buf[tx_out])
  /\ tx_out' = Following(tx_out) /\ space' = space - 1
  /\ UNCHANGED <<irq_enable, rx_in, rx_out, tx_in, rx_buf, tx_buf, isr, control, data>>

\* Slip: transmit interrupts go off with bytes left in the ring.
IsrTransmitEnd_Off ==
  /\ In("tx") /\ ~(space > 0 /\ tx_out # tx_in) /\ isr' = "poll"
  /\ irq_enable' = irq_enable \ {"WE"} /\ WriteControl(irq_enable', FALSE)
  /\ UNCHANGED <<rings, control, space, data>>

IsrTransmitEnd ==
  /\ In("tx") /\ ~(space > 0 /\ tx_out # tx_in) /\ isr' = "poll"
  /\ IF space > 0
     THEN irq_enable' = irq_enable \ {"WE"} /\ WriteControl(irq_enable', FALSE)
     ELSE UNCHANGED <<device, irq_enable>>
  /\ UNCHANGED <<rings, control, space, data>>

Isr == IsrEnter \/ IsrPoll \/ IsrReceive \/ IsrReceiveFull \/ IsrReceiveEnd
       \/ IsrTransmit \/ IsrTransmitEnd

\* The alarm, once a second, if it could be started.
Timeout ==
  /\ isr = "off" /\ timeout # INT_MAX
  /\ IF ac THEN WriteControl(irq_enable, TRUE) /\ host_inactive' = 0
     ELSE /\ host_inactive' = IF host_inactive < INT_MAX - 2 THEN host_inactive + 1
                              ELSE host_inactive
          /\ UNCHANGED device
  /\ UNCHANGED <<host, timeout, irq_enable, rings, local, routine, ledger>>

Host == HostActs /\ UNCHANGED <<watch, irq_enable, rings, local, routine, ledger>>

Next == Calls \/ Driver \/ Isr \/ Timeout \/ Host

\* The processor runs the program and serves interrupts; the host takes what
\* it is offered; the alarm goes off again and again.
Processor == WF_vars(Driver) /\ WF_vars(Isr)
Taking == HostTakes /\ UNCHANGED <<watch, irq_enable, rings, local, routine, ledger>>
Spec == Init /\ [][Next]_vars /\ Processor
HostSpec == Spec /\ WF_vars(Taking)
AlarmSpec == Spec /\ WF_vars(Timeout)

-----------------------------------------------------------------------------
\* No byte to the host is lost, doubled or overtaken on its way through ring
\* and FIFO, although the program fills the ring while the routine drains it
\* and neither takes a lock.
TxInOrder ==
  delivered \o wfifo \o Content(tx_buf, tx_out, tx_in) = [i \in 1..accepted |-> i]

\* Nor one from the host; while rx_out is not yet updated the bytes just
\* copied are still in the ring.
RxInOrder ==
  LET done == IF pc = "r_publish" THEN SubSeq(got, 1, Len(got) - n) ELSE got IN
    done \o Content(rx_buf, rx_out, rx_in) \o rfifo = [i \in 1..sent |-> i]

\* Bytes wait in the ring with the transmit interrupt off only while the
\* write that put them there is on its way to its kick: the routine, which
\* turns the interrupt off when it finds the ring empty, never turns off a
\* wake-up that is still needed.
NoLostWakeup ==
  tx_out # tx_in /\ ~ien_AE => pc \in {"w_copy", "w_fill", "w_publish", "w_kick"}

\* Receive interrupts are off only while there is something to read in the
\* ring, or a read that took something has not come to its end, which turns
\* them on: a read that waits is never left alone with the interrupt off.  The
\* ring need not be full, see MoreMeansFull; but a byte too late for RVALID is
\* never the first that the routine finds.
ReceiveComesBack ==
  ~ien_AF => \/ rx_in # rx_out
             \/ pc \in {"r_copy", "r_fill", "r_publish", "r_done"} /\ moved > 0

\* Claim of altera_avalon_jtag_uart_init.c:158: "If there is still data
\* available here then the buffer is full".  A byte that arrives during the
\* routine's last read of DATA is available and the ring has room.
MoreMeansFull == isr = "rx_end" /\ data > 0 => Following(rx_in) = rx_out

\* A timeout set to the largest value, or no alarm, means for ever.
InfiniteTimeoutNeverExpires == timeout >= INT_MAX - 1 => host_inactive < timeout

\* A blocking write that comes back short leaves the ring full, and the
\* timeout was finite: progress the routine made while the write was waiting
\* is never mistaken for none, although indices come round again.
ShortOnlyWhenFull ==
  (pc = "w_check" /\ pc' = "idle") => Following(tx_in) = tx_out /\ timeout < INT_MAX - 1

\* The two streams that the driver is: see JTAG_LINK.
Link == INSTANCE JTAG_LINK WITH
  TxCapacity <- BUF_LEN - 1 + FIFO_DEPTH, RxCapacity <- BUF_LEN - 1 + FIFO_DEPTH

\* A read that waits gets the bytes of a host that has paused.
PausedBytesArrive ==
  (pc \in {"r_spin", "r_check"} /\ rfifo # <<>> /\ pause_irq) ~> pc \notin {"r_spin", "r_check"}
=============================================================================
