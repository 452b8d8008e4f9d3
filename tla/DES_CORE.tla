------------------------------ MODULE DES_CORE ------------------------------
(***************************************************************************)
(* The pipelined core on its own, its input ports driven from a set of     *)
(* inputs, and what it promises to whoever drives it (DES_ENGINE).         *)
(***************************************************************************)
EXTENDS DES_ALGORITHM

CONSTANT Inputs   \* what the environment may drive

ASSUME InputsAssumption == Inputs \subseteq CoreInputs

Next == CoreReset \/ \E in \in Inputs : Posedge(in)

Spec == CoreInit /\ [][Next]_core

-----------------------------------------------------------------------------
\* The blocks in flight are the valid stages.
Encipher(pt, key) == Encrypt(pt, key, Rounds)
Engine == INSTANCE DES_ENGINE WITH
  Latency <- Rounds,
  Outputs <- Word(64),
  pending <- UNION {{[pt |-> b.pt, key |-> b.key, age |-> i] : b \in block[i]} :
                      i \in {j \in Stages : Valid_reg[j]}}

\* The core implements DES_ENGINE: whatever is driven and whenever it is reset,
\* every accepted block comes out once, Rounds cycles later, and marked.
EngineSpec == Engine!Spec

=============================================================================
