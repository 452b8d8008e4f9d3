-------------------------- MODULE JTAG_UART_SMALL --------------------------
(***************************************************************************)
(* The polled driver that the board support package is built with          *)
(* (ALT_USE_SMALL_DRIVERS): no buffer, no interrupt, no timeout.  One turn *)
(* of a loop is a step, or two where the code reads a register and then    *)
(* acts on what it read.  RAVAIL is not looked at: a byte that arrives     *)
(* during a read of DATA is no different from one that arrives behind it.  *)
(***************************************************************************)
EXTENDS JTAG_UART

CONSTANTS
  MaxWritten,  \* bound: the program writes that many bytes in all
  MaxSpace     \* bound: the largest buffer a read is given

EIO == -5
EWOULDBLOCK == -11

VARIABLES
  pc,          \* where the program is: "idle" outside the driver
  left,        \* end - ptr
  nonblock,    \* O_NONBLOCK in the flags of the descriptor
  moved,       \* ptr - start
  accepted,    \* bytes written since the start of the program
  got,         \* bytes read
  ret          \* what the last call returned

local == <<pc, left, nonblock, moved, ret>>
vars == <<device, host, local, accepted, got>>

TypeOK ==
  /\ JtagTypeOK
  /\ pc \in {"idle", "w_poll", "w_put", "read"}
  /\ left \in Nat /\ moved \in Nat /\ nonblock \in BOOLEAN
  /\ accepted \in 0..MaxWritten /\ got \in Seq(1..MaxSent)
  /\ ret \in {EIO, EWOULDBLOCK} \cup 0..MaxWritten + MaxSpace

Init ==
  /\ JtagReset /\ ien_AF = FALSE
  /\ pc = "idle" /\ left = 0 /\ nonblock = FALSE /\ moved = 0 /\ ret = 0
  /\ accepted = 0 /\ got = <<>>

Call(label, count, flag) ==
  /\ pc = "idle"
  /\ pc' = label /\ left' = count /\ nonblock' = flag /\ moved' = 0
  /\ UNCHANGED <<device, host, accepted, got, ret>>

Return(rc) == pc' = "idle" /\ ret' = rc /\ UNCHANGED <<left, nonblock, moved>>

Write == \E count \in 0..MaxWritten - accepted, flag \in BOOLEAN :
  Call("w_poll", count, flag)

\* The flags are not looked at: with no room the loop goes on for ever.
WritePoll ==
  /\ pc = "w_poll"
  /\ IF left = 0 THEN Return(moved)
     ELSE /\ WSPACE # 0 /\ pc' = "w_put"
          /\ UNCHANGED <<left, nonblock, moved, ret>>
  /\ UNCHANGED <<device, host, accepted, got>>

WritePut ==
  /\ pc = "w_put"
  /\ WriteData(accepted + 1)
  /\ accepted' = accepted + 1 /\ left' = left - 1 /\ moved' = moved + 1
  /\ pc' = "w_poll"
  /\ UNCHANGED <<host, nonblock, got, ret>>

Read == \E space \in 0..MaxSpace, flag \in BOOLEAN :
  Len(got) < MaxSent /\ Call("read", space, flag)

ReadByte ==
  /\ pc = "read" /\ left > 0 /\ RVALID
  /\ ReadData(FALSE)
  /\ got' = Append(got, Head(rfifo)) /\ left' = left - 1 /\ moved' = moved + 1
  /\ UNCHANGED <<host, pc, nonblock, ret, accepted>>

ReadEnds ==
  /\ pc = "read"
  /\ \/ left = 0 /\ UNCHANGED device
     \/ left > 0 /\ ~RVALID /\ (moved > 0 \/ nonblock) /\ ReadData(FALSE)
  /\ Return(IF moved > 0 THEN moved ELSE IF nonblock THEN EWOULDBLOCK ELSE EIO)
  /\ UNCHANGED <<host, accepted, got>>

\* Nothing there: the loop polls again, which clears the pause interrupt.
ReadAgain ==
  /\ pc = "read" /\ left > 0 /\ ~RVALID /\ moved = 0 /\ ~nonblock
  /\ ReadData(FALSE)
  /\ UNCHANGED <<host, local, accepted, got>>

Driver == WritePoll \/ WritePut \/ ReadByte \/ ReadEnds \/ ReadAgain
Host == HostActs /\ UNCHANGED <<local, accepted, got>>
Next == Write \/ Read \/ Driver \/ Host

Fairness == WF_vars(Driver)
HostListens == WF_vars(HostTakes /\ UNCHANGED <<local, accepted, got>>)
Spec == Init /\ [][Next]_vars /\ Fairness /\ HostListens

-----------------------------------------------------------------------------
\* The driver is a pair of bounded streams (JTAG_LINK): nothing is lost between
\* the room it saw in the control register and the byte it then writes, although
\* the host acts in between.
Link == INSTANCE JTAG_LINK WITH
  TxCapacity <- FIFO_DEPTH, RxCapacity <- FIFO_DEPTH

\* A write blocks, whatever the descriptor's flags say, but it comes back as
\* long as the host takes bytes: the printf calls of the program end.
WriteReturns == pc \in {"w_poll", "w_put"} ~> pc = "idle"

\* An error means that nothing was moved: a call that blocks fails only if it
\* was given no room, and one that may not block says so.
ErrorMovesNothing ==
  pc = "idle" /\ ret < 0 =>
    moved = 0 /\ (ret = EWOULDBLOCK) = nonblock /\ (ret = EIO => left = 0)
=============================================================================
