----------------------------- MODULE MC_Wrapper -----------------------------
(***************************************************************************)
(* Two claims of comments about the register file under an arbitrary       *)
(* master.  What does hold of it is checked by MC_Accelerator.             *)
(***************************************************************************)
EXTENDS DES_AVALON_WRAPPER

\* 0 and 1: Start or not, and two values of every operand half.
MCWriteData == {{}, {0}}

-----------------------------------------------------------------------------
\* "CATCH pulse Done" (DES_AVALON_WRAPPER.v:45): when the core pulses Done, the
\* status register shows it after the edge, unless that edge starts a new block
\* or a reset strikes.
DonePulseIsCaught ==
  [][(Done /\ ~start_reg' /\ des_inst) => done_reg']_vars

\* "The Verilog automatically clears this on the next clock cycle"
\* (source.c:56): Start does not stay up across an edge that changes an operand.
StartClearsItself ==
  [][(start_reg /\ <<plaintext_reg, key_reg>>' # <<plaintext_reg, key_reg>>)
       => ~start_reg']_vars
=============================================================================
