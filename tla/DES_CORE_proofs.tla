-------------------------- MODULE DES_CORE_proofs --------------------------
(***************************************************************************)
(* Theorems about the core, for every number of rounds up to 16, every set *)
(* of inputs and the datapath as it is in the Verilog.                     *)
(***************************************************************************)
EXTENDS DES_CORE, DES_ALGORITHM_proofs

\* Every register stays within its width, and Done is a Boolean: the core is
\* type correct.
THEOREM TypeCorrect == Spec => []CoreTypeOK
<1>1. CoreInit => CoreTypeOK
  BY InitType
<1>2. CoreTypeOK /\ [Next]_core => CoreTypeOK'
  <2> SUFFICES ASSUME CoreTypeOK, [Next]_core
               PROVE  CoreTypeOK'
    OBVIOUS
  <2>1. CASE CoreReset
    BY <2>1, ResetType
  <2>2. CASE \E in \in Inputs : Posedge(in)
    BY <2>2, PosedgeType, InputsAssumption
  <2>3. CASE UNCHANGED core
    BY <2>3 DEF core, CoreTypeOK
  <2> QED
    BY <2>1, <2>2, <2>3 DEF Next
<1> QED
  BY <1>1, <1>2, PTL DEF Spec

-----------------------------------------------------------------------------
(* Contents of the stages, and results. *)

LEMMA StageInvariant == Spec => []StageInv
<1>1. CoreInit => StageInv
  BY InitStageInv
<1>2. StageInv /\ [Next]_core => StageInv'
  <2> SUFFICES ASSUME StageInv, [Next]_core
               PROVE  StageInv'
    OBVIOUS
  <2>1. CASE CoreReset
    BY <2>1, ResetStageInv
  <2>2. CASE \E in \in Inputs : Posedge(in)
    BY <2>2, PosedgeStageInv, InputsAssumption
  <2>3. CASE UNCHANGED core
    BY <2>3, StutterStageInv
  <2> QED
    BY <2>1, <2>2, <2>3 DEF Next
<1> QED
  BY <1>1, <1>2, PTL DEF Spec

\* Keys never mix: whatever the keys of the blocks around it, every stage holds
\* the key of its own block, rotated for its own round.
THEOREM KeysCorrect == Spec => []KeyTravelsWithBlock
BY StageInvariant, PTL DEF StageInv

\* Every stage holds its block after that many rounds of the network.
THEOREM HalvesCorrect == Spec => []HalvesOfBlock
BY StageInvariant, PTL DEF StageInv

\* Whenever the core raises Done, its output is the encryption of a block that
\* was accepted, under the key it was accepted with.
THEOREM DoneCorrect == Spec => []DoneDeliversEncryption
<1>1. StageInv => DoneDeliversEncryption
  BY StageInvOutput, StagesFacts DEF StageInv, ValidHoldsBlock, DoneDeliversEncryption, Done
<1> QED
  BY <1>1, StageInvariant, PTL

-----------------------------------------------------------------------------
(* Two properties of DES that no reference implementation is needed for. *)

\* What the core delivers can be deciphered with the round keys in reverse order: no
\* block is ever lost in it, whatever the key.
THEOREM DecipherCorrect == Spec => []OutputDeciphers
<1>1. StageInv => OutputDeciphers
  <2> SUFFICES ASSUME StageInv, NEW b \in block[Rounds]
               PROVE  Decrypt(Ciphertext, b.key, Rounds) = b.pt
    BY DEF OutputDeciphers
  <2>1. b.pt \in Word(64)
    BY StagesFacts DEF StageInv, CoreTypeOK
  <2> QED
    BY <2>1, StageInvOutput, StagesFacts, DecryptUndoesEncrypt
<1> QED
  BY <1>1, StageInvariant, PTL

\* A block and its complement, in neighbouring stages and under complementary keys, leave
\* the core with complementary results.
THEOREM ComplementsCorrect == Spec => []ComplementsFollow
<1>1. StageInv => ComplementsFollow
  <2> SUFFICES ASSUME StageInv, NEW b \in block[Rounds], NEW c \in block[Rounds-1],
                      c.pt = Comp(64, b.pt), c.key = Comp(64, b.key)
               PROVE  IP_1(Join(SymDiff(L_reg[Rounds-1], f_result(Rounds)), R_reg[Rounds-1], 32))
                        = Comp(64, Ciphertext)
    BY DEF ComplementsFollow, Comp
  <2>1. Rounds \in Stages /\ Rounds # 0 /\ Rounds-1 \in Stages /\ Rounds \in 0..16
    BY StagesFacts, RoundsAssumption DEF Stages
  <2>2. L_reg[Rounds-1] = NetworkOf(c)[Rounds-1].L /\ R_reg[Rounds-1] = NetworkOf(c)[Rounds-1].R
    BY <2>1 DEF StageInv, HalvesOfBlock, NetworkOf
  <2>3. f_result(Rounds) = F_FUNCTION(NetworkOf(c)[Rounds-1].R, RoundKey(c.key, Rounds))
    BY <2>1, <2>2, NextRoundKey DEF StageInv, f_result
  <2>4. /\ NetworkOf(c)[Rounds].L = R_reg[Rounds-1]
        /\ NetworkOf(c)[Rounds].R = SymDiff(L_reg[Rounds-1], f_result(Rounds))
    BY <2>1, <2>2, <2>3, NetworkRound
  <2>5. IP_1(Join(SymDiff(L_reg[Rounds-1], f_result(Rounds)), R_reg[Rounds-1], 32))
          = Encrypt(c.pt, c.key, Rounds)
    BY <2>4 DEF Encrypt, Output, NetworkOf
  <2>6. Encrypt(c.pt, c.key, Rounds) = Comp(64, Encrypt(b.pt, b.key, Rounds))
    BY <2>1, EncryptComp
  <2> QED
    BY <2>5, <2>6, StageInvOutput
<1> QED
  BY <1>1, StageInvariant, PTL

-----------------------------------------------------------------------------
(* The core implements DES_ENGINE. *)

\* The blocks in flight, as the refinement mapping has them.
Pending ==
  UNION {{[pt |-> b.pt, key |-> b.key, age |-> i] : b \in block[i]} :
           i \in {j \in Stages : Valid_reg[j]}}
Aged(b, i) == [pt |-> b.pt, key |-> b.key, age |-> i]

LEMMA PendingFacts ==
  /\ \A i \in Stages : \A b \in block[i] : Valid_reg[i] => Aged(b, i) \in Pending
  /\ \A r \in Pending : \E i \in Stages : \E b \in block[i] : Valid_reg[i] /\ r = Aged(b, i)
  /\ \A i \in Stages : \A b \in block'[i] : Valid_reg'[i] => Aged(b, i) \in Pending'
BY DEF Pending, Aged

LEMMA PosedgeRefines ==
  ASSUME StageInv, StageInv', NEW in \in CoreInputs, Posedge(in)
  PROVE  Engine!Tick(in)
<1> DEFINE Old == {Aged(r, r.age + 1) : r \in {p \in Pending : p.age < Rounds}}
           New == IF in.Start
                  THEN {[pt |-> in.Plaintext, key |-> in.Key_in, age |-> 0]} ELSE {}
<1>1. Pending' = Old \cup New
  <2>1. ASSUME NEW r \in Pending'
        PROVE  r \in Old \cup New
    <3>1i. PICK i \in Stages : \E b \in block'[i] : Valid_reg'[i] /\ r = Aged(b, i)
      BY <2>1 DEF Pending, Aged
    <3>1. PICK b \in block'[i] : Valid_reg'[i] /\ r = Aged(b, i)
      BY <3>1i
    <3>2. CASE i = 0
      <4>1. in.Start /\ b = [pt |-> in.Plaintext, key |-> in.Key_in]
        BY <3>1, <3>2 DEF Posedge
      <4> QED
        BY <3>1, <3>2, <4>1 DEF Aged
    <3>3. CASE i # 0
      <4>1. i-1 \in Stages /\ b \in block[i-1] /\ Valid_reg[i-1] /\ i-1 < Rounds
        BY <3>1, <3>3, StagesFacts DEF Posedge, Stages
      <4>2. Aged(b, i-1) \in {p \in Pending : p.age < Rounds}
        BY <4>1, PendingFacts DEF Aged
      <4>3. r = Aged(Aged(b, i-1), Aged(b, i-1).age + 1)
        BY <3>1, StagesFacts DEF Aged
      <4> QED
        BY <4>2, <4>3
    <3> QED
      BY <3>2, <3>3
  <2>2. ASSUME NEW r \in Old
        PROVE  r \in Pending'
    <3>1. PICK p \in Pending : p.age < Rounds /\ r = Aged(p, p.age + 1)
      BY <2>2
    <3>2i. PICK i \in Stages : \E b \in block[i] : Valid_reg[i] /\ p = Aged(b, i)
      BY <3>1, PendingFacts
    <3>2. PICK b \in block[i] : Valid_reg[i] /\ p = Aged(b, i)
      BY <3>2i
    <3>3. i+1 \in Stages /\ i+1 # 0 /\ (i+1)-1 = i
      BY <3>1, <3>2, StagesFacts DEF Aged, Stages
    <3>4. Valid_reg'[i+1] = Valid_reg[i] /\ block'[i+1] = block[i]
      BY <3>3 DEF Posedge
    <3>5. r = Aged(b, i+1)
      BY <3>1, <3>2 DEF Aged
    <3> QED
      BY <3>2, <3>3, <3>4, <3>5, PendingFacts
  <2>3. ASSUME NEW r \in New
        PROVE  r \in Pending'
    <3>1. in.Start /\ r = Aged([pt |-> in.Plaintext, key |-> in.Key_in], 0)
      BY <2>3 DEF Aged
    <3>2. Valid_reg'[0] = in.Start /\ block'[0] = {[pt |-> in.Plaintext, key |-> in.Key_in]}
      BY StagesFacts DEF Posedge
    <3> QED
      BY <3>1, <3>2, StagesFacts, PendingFacts
  <2> QED
    BY <2>1, <2>2, <2>3
<1>2. ASSUME NEW r \in Pending', r.age = Rounds
      PROVE  Done' /\ Ciphertext' = Encrypt(r.pt, r.key, Rounds)
  <2>1i. PICK i \in Stages : \E b \in block'[i] : Valid_reg'[i] /\ r = Aged(b, i)
    BY <1>2 DEF Pending, Aged
  <2>1. PICK b \in block'[i] : Valid_reg'[i] /\ r = Aged(b, i)
    BY <2>1i
  <2>2. i = Rounds /\ r.pt = b.pt /\ r.key = b.key
    BY <1>2, <2>1 DEF Aged
  <2>3. L_reg'[Rounds] = NetworkOf(b)[Rounds].L /\ R_reg'[Rounds] = NetworkOf(b)[Rounds].R
    BY <2>1, <2>2, StagesFacts DEF StageInv, HalvesOfBlock, NetworkOf
  <2> QED
    BY <2>1, <2>2, <2>3 DEF Done, Ciphertext, Encrypt, Output, NetworkOf
<1>3. Done' => \E r \in Pending' : r.age = Rounds
  <2> SUFFICES ASSUME Done'
               PROVE  \E r \in Pending' : r.age = Rounds
    OBVIOUS
  <2>1. PICK b : b \in block'[Rounds]
    BY StagesFacts DEF StageInv, ValidHoldsBlock, Done
  <2>2. Aged(b, Rounds) \in Pending'
    BY <2>1, StagesFacts DEF Pending, Aged, Done
  <2> QED
    BY <2>2 DEF Aged
<1>4. Ciphertext' \in Word(64)
  BY IP_1Type DEF Ciphertext
<1>5. Done' = (\E r \in Pending' : r.age = Rounds)
  BY <1>2, <1>3, StagesFacts DEF StageInv, CoreTypeOK, Done
<1> QED
  BY <1>1, <1>2, <1>4, <1>5
     DEF Engine!Tick, Engine!Older, Engine!Accepted, Pending, Aged, Encipher

\* The core is the delay line that DES_ENGINE describes: each accepted block
\* comes out once, Rounds cycles after its acceptance, enciphered and marked by
\* Done, and nothing else is marked.
THEOREM EngineCorrect == Spec => EngineSpec
<1>1. CoreInit => Engine!Init
  <2> SUFFICES ASSUME CoreInit
               PROVE  Engine!Init
    OBVIOUS
  <2>1. \A i \in Stages : block[i] = {} /\ Valid_reg[i] = FALSE
    BY DEF CoreInit, AllStages
  <2>2. Pending = {} /\ Done = FALSE /\ Ciphertext \in Word(64)
    BY <2>1, StagesFacts, IP_1Type DEF Pending, Done, Ciphertext
  <2> QED
    BY <2>2 DEF Engine!Init, Pending
<1>2. StageInv /\ StageInv' /\ [Next]_core => [Engine!Next]_(Engine!vars)
  <2> SUFFICES ASSUME StageInv, StageInv', [Next]_core
               PROVE  [Engine!Next]_(Engine!vars)
    OBVIOUS
  <2>1. CASE CoreReset
    <3>1. \A i \in Stages : block'[i] = {} /\ Valid_reg'[i] = FALSE
      BY <2>1 DEF CoreReset, AllStages
    <3>2. Pending' = {} /\ Done' = FALSE /\ Ciphertext' \in Word(64)
      BY <3>1, StagesFacts, IP_1Type DEF Pending, Done, Ciphertext
    <3> QED
      BY <3>2 DEF Engine!Next, Engine!Reset, Pending
  <2>2. CASE \E in \in Inputs : Posedge(in)
    BY <2>2, PosedgeRefines, InputsAssumption DEF Engine!Next
  <2>3. CASE UNCHANGED core
    BY <2>3 DEF core, Engine!vars, Done, Ciphertext
  <2> QED
    BY <2>1, <2>2, <2>3 DEF Next
<1> QED
  BY <1>1, <1>2, StageInvariant, PTL DEF Spec, EngineSpec, Engine!Spec
=============================================================================
