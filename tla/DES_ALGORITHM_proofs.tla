------------------------ MODULE DES_ALGORITHM_proofs ------------------------
(***************************************************************************)
(* What one step of the core preserves, for every number of rounds up to   *)
(* 16, every input and the datapath as it is in the Verilog: types, and    *)
(* the invariant that says what each stage holds.                          *)
(***************************************************************************)
EXTENDS DES_ALGORITHM, DES_STANDARD_proofs

LEMMA StagesFacts ==
  /\ Rounds \in Nat /\ 0 \in Stages /\ Rounds \in Stages
  /\ Stages \subseteq Nat
  /\ \A i \in Stages : i # 0 => i-1 \in Stages /\ i \in 1..16 /\ i \in 1..Rounds
BY RoundsAssumption DEF Stages

LEMMA ShiftedType ==
  ASSUME NEW i, NEW C
  PROVE  Shifted(i, C) \in Word(28)
BY ShiftType DEF Shifted

-----------------------------------------------------------------------------
(* Types. *)

LEMMA InitType == CoreInit => CoreTypeOK
BY DEF CoreInit, CoreTypeOK, AllStages, Word

LEMMA ResetType == CoreReset => CoreTypeOK'
BY DEF CoreReset, CoreTypeOK, AllStages, Word

LEMMA PosedgeType ==
  ASSUME CoreTypeOK, NEW in \in CoreInputs, Posedge(in)
  PROVE  CoreTypeOK'
<1>0. /\ in.Start \in BOOLEAN
      /\ [pt |-> in.Plaintext, key |-> in.Key_in] \in [pt : Word(64), key : Word(64)]
  BY DEF CoreInputs
<1>1. L_reg' \in [Stages -> Word(32)]
  BY StagesFacts, IPType DEF Posedge, CoreTypeOK
<1>2. R_reg' \in [Stages -> Word(32)]
  <2>1. \A i \in Stages : i # 0 => SymDiff(L_reg[i-1], f_result(i)) \in Word(32)
    BY StagesFacts, F_FUNCTIONType, SymDiffType DEF CoreTypeOK, f_result
  <2> QED
    BY <2>1, IPType DEF Posedge
<1>3. C_reg' \in [Stages -> Word(28)] /\ D_reg' \in [Stages -> Word(28)]
  BY PC_1Type, ShiftedType DEF Posedge, C_next, D_next
<1>4. Valid_reg' \in [Stages -> BOOLEAN]
  BY <1>0, StagesFacts DEF Posedge, CoreTypeOK
<1>5. block' \in [Stages -> SUBSET [pt : Word(64), key : Word(64)]]
  BY <1>0, StagesFacts DEF Posedge, CoreTypeOK
<1> QED
  BY <1>1, <1>2, <1>3, <1>4, <1>5 DEF CoreTypeOK

-----------------------------------------------------------------------------
(* The contents of the stages. *)

\* The rotation of round i is the one that the closed form of the key schedule
\* has between rounds i-1 and i.
LEMMA ShiftAmounts ==
  ASSUME NEW i \in 1..16
  PROVE  /\ ShiftUpTo(i-1) \in 0..27
         /\ i \in {1, 2, 9, 16} => ShiftUpTo(i) = ShiftUpTo(i-1) + 1
         /\ i \notin {1, 2, 9, 16} =>
              ShiftUpTo(i) = ShiftUpTo(i-1) + 2 /\ ShiftUpTo(i-1) # 27
BY DEF ShiftUpTo, TotalShift

LEMMA ShiftedRoundKey ==
  ASSUME NEW C, NEW i \in 1..16
  PROVE  Shifted(i, RotateLeft(C, ShiftUpTo(i-1))) = RotateLeft(C, ShiftUpTo(i))
<1>1. CASE i \in {1, 2, 9, 16}
  BY <1>1, ShiftAmounts, RotateFurther DEF Shifted
<1>2. CASE i \notin {1, 2, 9, 16}
  BY <1>2, ShiftAmounts, RotateFurther DEF Shifted
<1> QED
  BY <1>1, <1>2

\* The network of a block, round by round, under its own key schedule.
NetworkOf(b) == Halves(b.pt, KeySchedule(b.key, Rounds), Rounds)

LEMMA NetworkStart ==
  ASSUME NEW b
  PROVE  NetworkOf(b)[0].L = IP(b.pt).L0 /\ NetworkOf(b)[0].R = IP(b.pt).R0
<1>1. IsHalves(NetworkOf(b), b.pt, KeySchedule(b.key, Rounds), Rounds)
  BY HalvesDef, StagesFacts DEF NetworkOf
<1> QED
  BY <1>1, StagesFacts DEF IsHalves, HalvesStart, Stages

LEMMA NetworkRound ==
  ASSUME NEW b, NEW i \in Stages, i # 0
  PROVE  /\ NetworkOf(b)[i].L = NetworkOf(b)[i-1].R
         /\ NetworkOf(b)[i].R =
              SymDiff(NetworkOf(b)[i-1].L, F_FUNCTION(NetworkOf(b)[i-1].R, RoundKey(b.key, i)))
<1>1. IsHalves(NetworkOf(b), b.pt, KeySchedule(b.key, Rounds), Rounds)
  BY HalvesDef, StagesFacts DEF NetworkOf
<1>2. KeySchedule(b.key, Rounds)[i] = RoundKey(b.key, i)
  BY StagesFacts DEF KeySchedule
<1> QED
  BY <1>1, <1>2, StagesFacts DEF IsHalves, HalvesStep, Stages

\* The inductive invariant: a valid stage holds a block, and a stage that holds
\* one holds its key halves and its data halves of that round.
StageInv ==
  /\ CoreTypeOK
  /\ ValidHoldsBlock
  /\ KeyTravelsWithBlock
  /\ HalvesOfBlock

LEMMA InitStageInv == CoreInit => StageInv
<1> SUFFICES ASSUME CoreInit
             PROVE  StageInv
  OBVIOUS
<1>1. CoreTypeOK
  BY InitType
<1>2. \A i \in Stages : block[i] = {} /\ Valid_reg[i] = FALSE
  BY DEF CoreInit, AllStages
<1> QED
  BY <1>1, <1>2 DEF StageInv, ValidHoldsBlock, KeyTravelsWithBlock, HalvesOfBlock

LEMMA ResetStageInv == CoreReset => StageInv'
<1> SUFFICES ASSUME CoreReset
             PROVE  StageInv'
  OBVIOUS
<1>1. CoreTypeOK'
  BY ResetType
<1>2. \A i \in Stages : block'[i] = {} /\ Valid_reg'[i] = FALSE
  BY DEF CoreReset, AllStages
<1> QED
  BY <1>1, <1>2 DEF StageInv, ValidHoldsBlock, KeyTravelsWithBlock, HalvesOfBlock

\* The wires of round i carry the round key of the block in stage i-1.
LEMMA NextRoundKey ==
  ASSUME KeyTravelsWithBlock, NEW i \in Stages, i # 0, NEW b \in block[i-1]
  PROVE  /\ C_next(i) = RoundC(b.key, i) /\ D_next(i) = RoundD(b.key, i)
         /\ SubKey(i) = RoundKey(b.key, i)
<1>1. i-1 \in Stages /\ i \in 1..16
  BY StagesFacts
<1>2. C_reg[i-1] = RoundC(b.key, i-1) /\ D_reg[i-1] = RoundD(b.key, i-1)
  BY <1>1 DEF KeyTravelsWithBlock
<1>3. C_next(i) = RoundC(b.key, i) /\ D_next(i) = RoundD(b.key, i)
  BY <1>1, <1>2, ShiftedRoundKey DEF C_next, D_next, RoundC, RoundD
<1> QED
  BY <1>3 DEF SubKey, RoundKey

LEMMA PosedgeStageInv ==
  ASSUME StageInv, NEW in \in CoreInputs, Posedge(in)
  PROVE  StageInv'
<1>1. CoreTypeOK'
  BY PosedgeType DEF StageInv
<1>2. ValidHoldsBlock'
  BY StagesFacts DEF StageInv, ValidHoldsBlock, Posedge
<1>3. ASSUME NEW i \in Stages, i # 0, NEW b \in block'[i]
      PROVE  /\ b \in block[i-1] /\ i-1 \in Stages
             /\ C_next(i) = RoundC(b.key, i) /\ D_next(i) = RoundD(b.key, i)
             /\ SubKey(i) = RoundKey(b.key, i)
  <2>1. b \in block[i-1] /\ i-1 \in Stages
    BY <1>3, StagesFacts DEF Posedge
  <2> QED
    BY <1>3, <2>1, NextRoundKey DEF StageInv
<1>4. KeyTravelsWithBlock'
  <2> SUFFICES ASSUME NEW i \in Stages, NEW b \in block'[i]
               PROVE  C_reg'[i] = RoundC(b.key, i) /\ D_reg'[i] = RoundD(b.key, i)
    BY DEF KeyTravelsWithBlock
  <2>1. CASE i = 0
    <3>1. b.key = in.Key_in /\ C_reg'[0] = PC_1(b.key).C0 /\ D_reg'[0] = PC_1(b.key).D0
      BY <2>1, StagesFacts DEF Posedge
    <3> QED
      BY <2>1, <3>1, PC_1Type, RotateNothing DEF RoundC, RoundD, ShiftUpTo
  <2>2. CASE i # 0
    BY <2>2, <1>3 DEF Posedge
  <2> QED
    BY <2>1, <2>2
<1>5. HalvesOfBlock'
  <2> SUFFICES ASSUME NEW i \in Stages, NEW b \in block'[i]
               PROVE  L_reg'[i] = NetworkOf(b)[i].L /\ R_reg'[i] = NetworkOf(b)[i].R
    BY DEF HalvesOfBlock, NetworkOf
  <2>1. CASE i = 0
    <3>1. b.pt = in.Plaintext /\ L_reg'[0] = IP(b.pt).L0 /\ R_reg'[0] = IP(b.pt).R0
      BY <2>1, StagesFacts DEF Posedge
    <3> QED
      BY <2>1, <3>1, NetworkStart
  <2>2. CASE i # 0
    <3>1. /\ b \in block[i-1] /\ i-1 \in Stages
          /\ SubKey(i) = RoundKey(b.key, i)
      BY <2>2, <1>3
    <3>2. L_reg[i-1] = NetworkOf(b)[i-1].L /\ R_reg[i-1] = NetworkOf(b)[i-1].R
      BY <3>1 DEF StageInv, HalvesOfBlock, NetworkOf
    <3>3. /\ L_reg'[i] = R_reg[i-1]
          /\ R_reg'[i] = SymDiff(L_reg[i-1], F_FUNCTION(R_reg[i-1], RoundKey(b.key, i)))
      BY <2>2, <3>1 DEF Posedge, f_result
    <3> QED
      BY <2>2, <3>2, <3>3, NetworkRound
  <2> QED
    BY <2>1, <2>2
<1> QED
  BY <1>1, <1>2, <1>4, <1>5 DEF StageInv

LEMMA StutterStageInv == StageInv /\ UNCHANGED core => StageInv'
BY DEF core, StageInv, CoreTypeOK, ValidHoldsBlock, KeyTravelsWithBlock, HalvesOfBlock

LEMMA StageInvOutput ==
  ASSUME StageInv, NEW b \in block[Rounds]
  PROVE  Ciphertext = Encrypt(b.pt, b.key, Rounds)
<1>1. L_reg[Rounds] = NetworkOf(b)[Rounds].L /\ R_reg[Rounds] = NetworkOf(b)[Rounds].R
  BY StagesFacts DEF StageInv, HalvesOfBlock, NetworkOf
<1> QED
  BY <1>1 DEF Ciphertext, Encrypt, Output, NetworkOf

=============================================================================
