----------------------------- MODULE JTAG_UART -----------------------------
(***************************************************************************)
(* The JTAG UART of the Qsys system as its drivers see it: two FIFOs       *)
(* between the processor and the host's debugger, a data register and a    *)
(* control register with the interrupt enables.  The bytes of each         *)
(* direction are numbered from 1 in the order in which they are sent.      *)
(* A register access is one step, during which the host may send a byte;   *)
(* the registered flags that the interrupts compare, one clock behind, are *)
(* read without that delay.                                                *)
(***************************************************************************)
EXTENDS Integers, Sequences, SequencesExt

CONSTANTS
  FIFO_DEPTH,  \* 64 in each direction in system_jtag_uart_0
  THRESHOLD,   \* 8: an interrupt when that few places are used, or left
  MaxSent      \* bound: the host sends that many bytes

JtagAssumption ==
  /\ FIFO_DEPTH \in Nat \ {0} /\ MaxSent \in Nat
  /\ THRESHOLD \in 0..FIFO_DEPTH - 1

VARIABLES
  wfifo,       \* from the processor to the host
  rfifo,       \* from the host to the processor
  ien_AF,      \* the RE bit of the control register
  ien_AE,      \* the WE bit
  pause_irq,   \* the host has paused after sending
  ac,          \* the host has been active since the bit was cleared
  delivered,   \* what the host has taken out of wfifo
  sent         \* how many bytes the host has sent

device == <<wfifo, rfifo, ien_AF, ien_AE, pause_irq, ac>>
host == <<delivered, sent>>

JtagTypeOK ==
  /\ wfifo \in Seq(Nat) /\ Len(wfifo) <= FIFO_DEPTH
  /\ rfifo \in Seq(1..MaxSent) /\ Len(rfifo) <= FIFO_DEPTH
  /\ {ien_AF, ien_AE, pause_irq, ac} \subseteq BOOLEAN
  /\ delivered \in Seq(Nat) /\ sent \in 0..MaxSent

JtagReset ==
  /\ wfifo = <<>> /\ rfifo = <<>> /\ ien_AE = FALSE
  /\ pause_irq = FALSE /\ ac = FALSE
  /\ delivered = <<>> /\ sent = 0

\* The bits RI and WI, and the field WSPACE, of the control register.
RI == ien_AF /\ (pause_irq \/ FIFO_DEPTH - Len(rfifo) <= THRESHOLD)
WI == ien_AE /\ Len(wfifo) <= THRESHOLD
WSPACE == FIFO_DEPTH - Len(wfifo)

\* A read of DATA takes a byte, if there is one: RVALID is decided at the edge
\* that accepts the request.  The count RAVAIL is the FIFO's a clock later, so
\* that a byte the host sends at that very edge (late) is in the count although
\* it is too late for RVALID.
RVALID == rfifo # <<>>
ReadData(late) ==
  /\ late => sent < MaxSent /\ Len(rfifo) < FIFO_DEPTH
  /\ rfifo' = (IF RVALID THEN Tail(rfifo) ELSE rfifo) \o (IF late THEN <<sent + 1>> ELSE <<>>)
  /\ sent' = (IF late THEN sent + 1 ELSE sent) /\ ac' = (ac \/ late)
  /\ pause_irq' = FALSE
  /\ UNCHANGED <<wfifo, ien_AF, ien_AE, delivered>>
RAVAIL == Len(rfifo')

\* A byte for a full FIFO is lost.
WriteData(b) ==
  /\ wfifo' = IF Len(wfifo) < FIFO_DEPTH THEN Append(wfifo, b) ELSE wfifo
  /\ UNCHANGED <<rfifo, ien_AF, ien_AE, pause_irq, ac>>

\* enable is a subset of {"RE", "WE"}; a one in bit 10 clears AC.
WriteControl(enable, clearAC) ==
  /\ ien_AF' = ("RE" \in enable) /\ ien_AE' = ("WE" \in enable)
  /\ ac' = (ac /\ ~clearAC)
  /\ UNCHANGED <<wfifo, rfifo, pause_irq>>

\* The host takes a byte; sends one, if there is room; or pauses.  Only the
\* last two count as activity.
HostTakes ==
  /\ wfifo # <<>>
  /\ delivered' = Append(delivered, Head(wfifo)) /\ wfifo' = Tail(wfifo)
  /\ UNCHANGED <<rfifo, ien_AF, ien_AE, pause_irq, ac, sent>>

HostSends ==
  /\ sent < MaxSent /\ Len(rfifo) < FIFO_DEPTH
  /\ sent' = sent + 1 /\ rfifo' = Append(rfifo, sent + 1)
  /\ ac' = TRUE
  /\ UNCHANGED <<wfifo, ien_AF, ien_AE, pause_irq, delivered>>

HostPauses ==
  /\ pause_irq' = (pause_irq \/ rfifo # <<>>)
  /\ ac' = TRUE
  /\ UNCHANGED <<wfifo, rfifo, ien_AF, ien_AE, host>>

HostActs == HostTakes \/ HostSends \/ HostPauses
=============================================================================
