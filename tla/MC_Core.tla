------------------------------ MODULE MC_Core ------------------------------
(***************************************************************************)
(* Three rounds of the core (one- and two-position rotations) under every  *)
(* sequence of starts, bubbles, blocks, keys and resets.  The two blocks   *)
(* are complementary, and so are the two keys.                             *)
(***************************************************************************)
EXTENDS DES_CORE

MCInputs ==
  [Start : BOOLEAN,
   Plaintext : {{0, 17, 46}, (0..63) \ {0, 17, 46}},
   Key_in : {{3, 22, 41, 60}, (0..63) \ {3, 22, 41, 60}}]
=============================================================================
