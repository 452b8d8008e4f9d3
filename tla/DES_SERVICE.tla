---------------------------- MODULE DES_SERVICE ----------------------------
(***************************************************************************)
(* What a well-behaved bus master obtains from the peripheral: one request *)
(* at a time, answered once with the encryption of the operands it was     *)
(* made with; the answer stays until the next operand is written.  A       *)
(* reset drops a request and its answer.                                   *)
(***************************************************************************)
CONSTANTS Requests, Encipher(_)

VARIABLES state, request, result
vars == <<state, request, result>>

Init == state = "idle" /\ request = {} /\ result = {}

Ask(r) ==
  /\ request' = {r}
  /\ state # "busy" /\ state' = "busy"
  /\ result' = {}

Answer ==
  /\ state = "busy"
  /\ state' = "ready" /\ result' = {Encipher(r) : r \in request}
  /\ UNCHANGED request

Withdraw ==
  /\ state = "ready"
  /\ state' = "idle" /\ request' = {} /\ result' = {}

Reset == state' = "idle" /\ request' = {} /\ result' = {}

Next == Answer \/ Withdraw \/ Reset \/ \E r \in Requests : Ask(r)

Spec == Init /\ [][Next]_vars
=============================================================================
