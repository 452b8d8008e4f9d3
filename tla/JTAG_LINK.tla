----------------------------- MODULE JTAG_LINK -----------------------------
(***************************************************************************)
(* What a driver of the JTAG UART promises to the layer above it: two      *)
(* bounded streams, whose bytes are numbered, without loss, duplication or *)
(* reordering.  How many bytes one call moves is left open.                *)
(***************************************************************************)
EXTENDS Integers, Sequences

CONSTANTS TxCapacity, RxCapacity, MaxSent

VARIABLES
  accepted,    \* bytes that write() has taken
  delivered,   \* bytes the host has received
  sent,        \* bytes the host has sent
  got          \* bytes that read() has handed out

link == <<accepted, delivered, sent, got>>

Numbers(a, b) == [i \in 1..b - a + 1 |-> a + i - 1]

Init == accepted = 0 /\ delivered = <<>> /\ sent = 0 /\ got = <<>>

Accept ==
  /\ accepted' > accepted
  /\ accepted' - Len(delivered) <= TxCapacity
  /\ UNCHANGED <<delivered, sent, got>>

Deliver ==
  /\ Len(delivered) < accepted
  /\ delivered' = Append(delivered, Len(delivered) + 1)
  /\ UNCHANGED <<accepted, sent, got>>

Send ==
  /\ sent - Len(got) < RxCapacity
  /\ sent' = sent + 1
  /\ UNCHANGED <<accepted, delivered, got>>

HandOut ==
  /\ \E k \in Len(got) + 1 .. sent : got' = Numbers(1, k)
  /\ UNCHANGED <<accepted, delivered, sent>>

Next == Accept \/ Deliver \/ Send \/ HandOut

\* Whatever was accepted reaches the host.
Spec == Init /\ [][Next]_link /\ WF_link(Deliver)
=============================================================================
