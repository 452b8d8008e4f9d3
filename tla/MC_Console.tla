----------------------------- MODULE MC_Console -----------------------------
(***************************************************************************)
(* The two drivers of the JTAG UART, of which the board support package    *)
(* compiles one; the driver that is compiled runs in every behaviour.      *)
(*   polled    JTAG_UART_SMALL, as this board is built                     *)
(*   transmit  JTAG_UART_FAST with a host that takes what it is offered:   *)
(*             more bytes than ring and FIFO hold                          *)
(*   receive   JTAG_UART_FAST: bytes from the host, and writes of no       *)
(*             bytes, which change the interrupt enables all the same      *)
(*   timeout   JTAG_UART_FAST with its alarm, a host that may be away, and *)
(*             more bytes than ring and FIFO hold                          *)
(* For checking the rings are short, the indices come round within each    *)
(* run, and the infinite timeout of the driver, INT_MAX, is 5.             *)
(***************************************************************************)
EXTENDS JTAG_UART_FAST

CONSTANTS
  PolledDepth, PolledThreshold,  \* FIFO_DEPTH and THRESHOLD of the part "polled"
  Limit        \* bounds of the parts: bytes sent, written, room for a read, ioctls

VARIABLE part

Polled == INSTANCE JTAG_UART_SMALL WITH
  FIFO_DEPTH <- PolledDepth, THRESHOLD <- PolledThreshold

Parts == {"polled", "transmit", "receive", "timeout"}
ConsoleLimit ==
  LET limit(s, w, r, t) == [sent |-> s, written |-> w, space |-> r, ioctl |-> t] IN
    [polled |-> limit(3, 3, 2, FALSE), transmit |-> limit(0, 4, 0, TRUE),
     receive |-> limit(4, 0, 2, FALSE), timeout |-> limit(1, 4, 1, FALSE)]

ASSUME ConsoleAssumption ==
  JtagAssumption /\ FastAssumption /\ Polled!JtagAssumption

-----------------------------------------------------------------------------
\* What only the interrupt-driven driver has.
buffers == <<watch, irq_enable, rings>>
handler == <<in, out, n, routine>>
polled == <<device, host, pc, left, nonblock, moved, ret, accepted, got>>
console == <<part, vars>>
link == <<accepted, delivered, sent, got>>

NoRings ==
  /\ timeout = 0 /\ irq_enable = {} /\ host_inactive = 0
  /\ rx_in = 0 /\ rx_out = 0 /\ tx_in = 0 /\ tx_out = 0 /\ rx_buf = <<>> /\ tx_buf = <<>>
  /\ in = 0 /\ out = 0 /\ n = 0 /\ isr = "off" /\ control = {} /\ space = 0 /\ data = 0

ConsoleInit ==
  \/ part = "polled" /\ Polled!Init /\ NoRings
  \/ part \in {"transmit", "receive", "timeout"} /\ Init

\* What the program and the host undertake is bounded, and no more than that.
WithinLimit ==
  /\ sent' <= Limit[part].sent
  /\ pc = "idle" =>
       /\ pc' \in {"w_copy", "w_poll"} => accepted + left' <= Limit[part].written
       /\ pc' \in {"r_copy", "read"} => left' <= Limit[part].space
       /\ timeout' # timeout => Limit[part].ioctl

ConsoleNext ==
  /\ UNCHANGED part
  /\ IF part = "polled" THEN Polled!Next /\ UNCHANGED <<buffers, handler>> ELSE Next
  /\ WithinLimit

\* The fairness of the part that runs, as its module states it: the processor
\* goes on; the host takes bytes, but for "receive" and "timeout"; in "timeout"
\* the alarm goes off.
Fairness ==
  /\ WF_polled(part = "polled" /\ Polled!Driver)
  /\ WF_polled(part = "polled" /\ HostTakes /\ UNCHANGED <<pc, left, nonblock, moved, ret, accepted, got>>)
  /\ WF_vars(part = "transmit" /\ Taking)
  /\ WF_vars(part # "polled" /\ Driver)
  /\ WF_vars(part # "polled" /\ Isr)
  /\ WF_vars(part = "timeout" /\ Timeout)
ConsoleSpec == ConsoleInit /\ [][ConsoleNext]_console /\ Fairness

-----------------------------------------------------------------------------
\* No byte is lost, doubled or overtaken in either direction, although program
\* and interrupt routine share the rings without a lock; the transmit interrupt
\* is off only while no byte waits or a write is on its way to its kick, and the
\* receive interrupt only while the ring has bytes to read or a read that took
\* some goes on to its end; an infinite timeout never expires, and an error of
\* the polled driver means that nothing was moved.
BytesInOrder ==
  IF part = "polled" THEN Polled!TypeOK /\ Polled!ErrorMovesNothing
  ELSE /\ TypeOK /\ TxInOrder /\ RxInOrder /\ NoLostWakeup /\ ReceiveComesBack
       /\ InfiniteTimeoutNeverExpires

\* To the layer above, each driver is a pair of bounded streams, and a blocking
\* write comes back short only from a full ring and a finite timeout.
LinkIsKept ==
  /\ Polled!Link!Init
  /\ [][IF part = "polled" THEN Polled!Link!Next ELSE Link!Next]_link
  /\ [][ShortOnlyWhenFull]_vars

\* What was accepted arrives at a host that takes its bytes.  Calls come back: a
\* write as long as the host takes bytes; a read that waits once a host that has
\* sent bytes pauses; and with an alarm and a finite timeout every call, unless
\* the host keeps showing signs of life.
CallsComeBack ==
  /\ WF_link(part \in {"polled", "transmit"} /\ Link!Deliver)
  /\ Polled!WriteReturns
  /\ (part = "transmit" /\ pc \notin {"idle", "r_spin"}) ~> pc \in {"idle", "r_spin"}
  /\ PausedBytesArrive
  /\ (part = "timeout" /\ pc # "idle") ~> (pc = "idle" \/ ac \/ timeout >= 4)
=============================================================================
