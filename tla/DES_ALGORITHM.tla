--------------------------- MODULE DES_ALGORITHM ---------------------------
(***************************************************************************)
(* DES_ALGORITHM.v: the pipelined core.  Stage 0 holds the permuted inputs *)
(* of the last clock edge, stage i the result of round i, and all of them  *)
(* move on at every edge, whether they are valid or not.                   *)
(***************************************************************************)
EXTENDS DES_STANDARD

CONSTANT Rounds   \* 16 in the code; fewer in the runs that explore interleavings

ASSUME RoundsAssumption == Rounds \in 1..16

VARIABLES
  L_reg, R_reg,    \* the halves of the block in each stage
  C_reg, D_reg,    \* the halves of its key, as rotated so far
  Valid_reg,       \* whether the block was started
  block            \* history: the inputs a stage holds, as a set of at most
                   \* one [pt, key]; empty after a reset

core == <<L_reg, R_reg, C_reg, D_reg, Valid_reg, block>>

Stages == 0 .. Rounds

\* What may be on the input ports at an edge.
CoreInputs == [Start : BOOLEAN, Plaintext : Word(64), Key_in : Word(64)]

\* The pipeline registers keep the widths they are declared with.
CoreTypeOK ==
  /\ L_reg \in [Stages -> Word(32)] /\ R_reg \in [Stages -> Word(32)]
  /\ C_reg \in [Stages -> Word(28)] /\ D_reg \in [Stages -> Word(28)]
  /\ Valid_reg \in [Stages -> BOOLEAN]
  /\ block \in [Stages -> SUBSET [pt : Word(64), key : Word(64)]]

\* What Reset_n leaves in every stage.
AllStages(v) == [i \in Stages |-> v]

CoreInit ==
  /\ L_reg = AllStages({}) /\ R_reg = AllStages({})
  /\ C_reg = AllStages({}) /\ D_reg = AllStages({})
  /\ Valid_reg = AllStages(FALSE)
  /\ block = AllStages({})

-----------------------------------------------------------------------------
\* Slip: the second single shift is in round 3.
Shifted_Round3(i, C) == IF i \in {1, 3, 9, 16} THEN SHIFT_LEFT_1(C) ELSE SHIFT_LEFT_2(C)
\* Slip: the third single shift is in round 8.
Shifted_Round8(i, C) == IF i \in {1, 2, 8, 16} THEN SHIFT_LEFT_1(C) ELSE SHIFT_LEFT_2(C)

\* The wires of round i: C1_next .. C16_next and the like.
Shifted(i, C) == IF i \in {1, 2, 9, 16} THEN SHIFT_LEFT_1(C) ELSE SHIFT_LEFT_2(C)
C_next(i) == Shifted(i, C_reg[i-1])
D_next(i) == Shifted(i, D_reg[i-1])
\* Slip: the subkey is taken before the shift.
SubKey_Unshifted(i) == PC_2(Join(C_reg[i-1], D_reg[i-1], 28))
SubKey(i) == PC_2(Join(C_next(i), D_next(i), 28))
\* Slip: the other half.
f_result_OfL(i) == F_FUNCTION(L_reg[i-1], SubKey(i))
f_result(i) == F_FUNCTION(R_reg[i-1], SubKey(i))

\* The rising edge of Clk, every always block at once.
Posedge(in) ==
  /\ L_reg' = [i \in Stages |-> IF i = 0 THEN IP(in.Plaintext).L0 ELSE R_reg[i-1]]
  /\ R_reg' = [i \in Stages |-> IF i = 0 THEN IP(in.Plaintext).R0
                                         ELSE SymDiff(L_reg[i-1], f_result(i))]
  /\ C_reg' = [i \in Stages |-> IF i = 0 THEN PC_1(in.Key_in).C0 ELSE C_next(i)]
  /\ D_reg' = [i \in Stages |-> IF i = 0 THEN PC_1(in.Key_in).D0 ELSE D_next(i)]
  /\ Valid_reg' = [i \in Stages |-> IF i = 0 THEN in.Start ELSE Valid_reg[i-1]]
  /\ block' = [i \in Stages |-> IF i = 0 THEN {[pt |-> in.Plaintext, key |-> in.Key_in]}
                                         ELSE block[i-1]]

\* Slip: Valid_reg is not reset.
CoreReset_KeepsValid ==
  /\ L_reg' = AllStages({}) /\ R_reg' = AllStages({})
  /\ C_reg' = AllStages({}) /\ D_reg' = AllStages({})
  /\ block' = AllStages({})
  /\ UNCHANGED Valid_reg

\* The falling edge of Reset_n, at any time.
CoreReset ==
  /\ L_reg' = AllStages({}) /\ R_reg' = AllStages({})
  /\ C_reg' = AllStages({}) /\ D_reg' = AllStages({})
  /\ Valid_reg' = AllStages(FALSE)
  /\ block' = AllStages({})

\* Slip: the halves are not exchanged at the end.
Ciphertext_NoSwap == IP_1(Join(L_reg[Rounds], R_reg[Rounds], 32))

\* The outputs.
Ciphertext == IP_1(Join(R_reg[Rounds], L_reg[Rounds], 32))
Done == Valid_reg[Rounds]

-----------------------------------------------------------------------------
\* A valid stage holds a block: Done never marks what a reset left behind.
ValidHoldsBlock == \A i \in Stages : Valid_reg[i] => block[i] # {}

\* In every stage the rotated key halves are those of the block's own key, at
\* its own round, however the keys of the neighbouring stages differ.
KeyTravelsWithBlock ==
  \A i \in Stages : \A b \in block[i] :
    C_reg[i] = RoundC(b.key, i) /\ D_reg[i] = RoundD(b.key, i)

\* In every stage the two halves are those of the block after that many rounds
\* of the network, under the key it was accepted with.
HalvesOfBlock ==
  \A i \in Stages : \A b \in block[i] :
    LET h == Halves(b.pt, KeySchedule(b.key, Rounds), Rounds)
    IN  L_reg[i] = h[i].L /\ R_reg[i] = h[i].R

\* When Done is up the output is the encryption of the block of the last stage.
DoneDeliversEncryption ==
  Done => \E b \in block[Rounds] : Ciphertext = Encrypt(b.pt, b.key, Rounds)

\* What comes out can be deciphered with the round keys in reverse order.
OutputDeciphers ==
  \A b \in block[Rounds] : Decrypt(Ciphertext, b.key, Rounds) = b.pt

\* DES commutes with complementing: a block and its complement, under
\* complementary keys, leave the core one after the other with complementary
\* results.  Stage Rounds-1 is taken through its last round here.
ComplementsFollow ==
  \A b \in block[Rounds], c \in block[Rounds-1] :
    (c.pt = (0..63) \ b.pt /\ c.key = (0..63) \ b.key) =>
      LET L == R_reg[Rounds-1]
          R == SymDiff(L_reg[Rounds-1], f_result(Rounds))
      IN  IP_1(Join(R, L, 32)) = (0..63) \ Ciphertext

=============================================================================
