----------------------------- MODULE DES_ENGINE -----------------------------
(***************************************************************************)
(* What the pipelined core promises to the module that drives it: every    *)
(* clock cycle a block may be accepted, each accepted block comes out      *)
(* exactly once, enciphered under the key it came with, Latency cycles     *)
(* later and marked by Done; Done marks nothing else.  A reset forgets     *)
(* every block in flight.                                                  *)
(***************************************************************************)
EXTENDS Naturals

CONSTANTS
  Latency,         \* cycles between the acceptance of a block and its result
  Inputs,          \* what may be on the inputs: records Start, Plaintext, Key_in
  Outputs,         \* the values of the output word
  Encipher(_, _)   \* the result for a plaintext and a key

VARIABLES
  pending,         \* the blocks in flight: records pt, key, age
  Done, Ciphertext \* the outputs
vars == <<pending, Done, Ciphertext>>

Init ==
  /\ pending = {}
  /\ Done = FALSE
  /\ Ciphertext \in Outputs

Older ==
  {[pt |-> b.pt, key |-> b.key, age |-> b.age + 1] : b \in {p \in pending : p.age < Latency}}
Accepted(in) ==
  IF in.Start THEN {[pt |-> in.Plaintext, key |-> in.Key_in, age |-> 0]} ELSE {}

Tick(in) ==
  /\ pending' = Older \cup Accepted(in)
  /\ Done' = (\E b \in pending' : b.age = Latency)
  /\ Ciphertext' \in Outputs
  /\ \A b \in pending' : b.age = Latency => Ciphertext' = Encipher(b.pt, b.key)

Reset ==
  /\ pending' = {}
  /\ Done' = FALSE
  /\ Ciphertext' \in Outputs

Next == Reset \/ \E in \in Inputs : Tick(in)

Spec == Init /\ [][Next]_vars
=============================================================================
