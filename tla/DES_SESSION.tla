---------------------------- MODULE DES_SESSION ----------------------------
(***************************************************************************)
(* The register file under the protocol that software/DES/source.c         *)
(* follows: operands are written while no operation is running, Start is   *)
(* one write, and nothing is written from then on until a read of the      *)
(* status register has shown Done.  Any number of operations follow one    *)
(* another, at any pace, and a reset may strike at any edge.               *)
(***************************************************************************)
EXTENDS DES_AVALON_WRAPPER

VARIABLES
  phase,       \* "load", "run" (Start written) or "done" (Done was read)
  request,     \* the operands Start was written with, as a set of at most one
  polls        \* the parity of the number of polls, to state fairness with

svars == <<vars, phase, request, polls>>

Operands == [pt |-> plaintext_reg, key |-> key_reg]

SInit == Init /\ phase = "load" /\ request = {} /\ polls = 0

\* source.c:49-53
LoadOperand(address, d) ==
  /\ phase # "run"
  /\ Write(address, d)
  /\ phase' = "load" /\ request' = {}
  /\ UNCHANGED polls

\* source.c:58
StartOperation ==
  /\ phase # "run"
  /\ Write(0, {0})
  /\ phase' = "run" /\ request' = {Operands}
  /\ UNCHANGED polls

\* source.c:63: a read of the status register, one turn of the polling loop.
Poll ==
  /\ phase = "run"
  /\ NoWrite
  /\ phase' = IF 1 \in Readdata(0) THEN "done" ELSE "run"
  /\ polls' = 1 - polls
  /\ UNCHANGED request

\* An edge at which the master does not use the bus, or reads the result.
SElsewhere == NoWrite /\ UNCHANGED <<phase, request, polls>>

SReset == Reset /\ phase' = "load" /\ request' = {} /\ UNCHANGED polls

SNext ==
  \/ \E address \in 1..4, d \in WriteData : LoadOperand(address, d)
  \/ StartOperation \/ Poll \/ SElsewhere \/ SReset

\* The clock never stops, and the loop of source.c keeps reading the status:
\* weak fairness of Poll, which is the only step that changes polls and is
\* possible throughout a run.
PollsAgain == phase = "run" /\ polls' = 1 - polls
SSpec == SInit /\ [][SNext]_svars /\ WF_polls(PollsAgain)

-----------------------------------------------------------------------------
InFlight == {i \in Stages : Valid_reg[i]}

\* At most one operation is anywhere between the Start bit and Done, none
\* outside a run, and Done is never up while one still is: the Done that the
\* program reads is that of its own Start, not an earlier one's.
OneOperationAtATime ==
  /\ \A i, j \in InFlight : i = j
  /\ start_reg => InFlight = {}
  /\ (start_reg \/ InFlight # {}) => phase = "run" /\ ~done_reg

\* While the flag is up for a request, the two ciphertext registers hold its
\* encryption, although the core's output is not latched.
DoneMeansResult ==
  (done_reg /\ phase # "load") =>
    \E r \in request :
      Join(Readdata(6), Readdata(5), 32) = Encrypt(r.pt, r.key, Rounds)

\* The program does not poll for ever: a run ends with Done or in a reset.
RunEnds == phase = "run" ~> phase # "run"

\* An answer is there once Done is up.
OperandWord == {Join(hi, lo, 32) : hi, lo \in WriteData \cup {{}}}
Encipher(r) == Encrypt(r.pt, r.key, Rounds)
Answered == done_reg /\ phase # "load"
Service == INSTANCE DES_SERVICE WITH
  Requests <- [pt : OperandWord, key : OperandWord],
  state <- IF phase = "load" THEN "idle" ELSE IF Answered THEN "ready" ELSE "busy",
  result <- IF Answered THEN {Join(Readdata(6), Readdata(5), 32)} ELSE {}

\* The protocol implements DES_SERVICE: one answer to a request, the encryption of
\* its operands, and it stays until the next operand is written.
ServiceSpec == Service!Spec
=============================================================================
