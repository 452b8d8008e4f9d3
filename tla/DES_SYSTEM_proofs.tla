-------------------------- MODULE DES_SYSTEM_proofs --------------------------
(*****************************************************************************)
(* Theorems about the register file and the programs that drive it, for      *)
(* every number of rounds, every set of words and programs, any pace of the  *)
(* processor and any number of resets: the register file under an arbitrary  *)
(* master, under the protocol of source.c, and under main of the             *)
(* verification program.                                                     *)
(*****************************************************************************)
EXTENDS DES_SESSION, DES_SYSTEM, DES_ALGORITHM_proofs

-----------------------------------------------------------------------------
(* The register file under an arbitrary master. *)

Operation == [pt |-> plaintext_reg, key |-> key_reg]

\* The inductive invariant: the core's, and that the stages which were filled
\* since the last write to an operand hold what the operand registers hold.
QuietStages == \A i \in Stages : i < quiet => block[i] = {Operation}
WrapperInv == TypeOK /\ StageInv /\ QuietStages

LEMMA WithTypes ==
  ASSUME NEW reg \in Word(64), NEW d \in Word(32)
  PROVE  WithLow(reg, d) \in Word(64) /\ WithHigh(reg, d) \in Word(64)
BY DEF WithLow, WithHigh, Word, Join

LEMMA QuietType ==
  ASSUME quiet \in 0 .. Rounds+1
  PROVE  LongerQuiet \in 0 .. Rounds+1 /\ LongerQuiet <= quiet + 1
BY RoundsAssumption DEF LongerQuiet

LEMMA InputsDriven ==
  ASSUME TypeOK
  PROVE  [Start |-> start_reg, Plaintext |-> plaintext_reg, Key_in |-> key_reg] \in CoreInputs
BY DEF TypeOK, CoreInputs

\* The core's part of any edge.
LEMMA EdgeStageInv ==
  ASSUME TypeOK, StageInv, des_inst
  PROVE  StageInv' /\ CoreTypeOK'
BY InputsDriven, PosedgeStageInv DEF des_inst, StageInv

LEMMA EdgeQuietStages ==
  ASSUME TypeOK, QuietStages, des_inst, UNCHANGED <<plaintext_reg, key_reg>>,
         quiet' = LongerQuiet
  PROVE  QuietStages'
<1> SUFFICES ASSUME NEW i \in Stages, i < quiet'
             PROVE  block'[i] = {Operation'}
  BY DEF QuietStages
<1>1. Operation' = Operation
  BY DEF Operation
<1>2. CASE i = 0
  BY <1>1, <1>2, StagesFacts DEF des_inst, Posedge, Operation
<1>3. CASE i # 0
  <2>1. i-1 \in Stages /\ i-1 < quiet /\ block'[i] = block[i-1]
    BY <1>3, QuietType, StagesFacts DEF TypeOK, des_inst, Posedge
  <2> QED
    BY <1>1, <2>1 DEF QuietStages
<1> QED
  BY <1>2, <1>3

LEMMA WriteRegsType ==
  ASSUME TypeOK, NEW address \in 0..7, NEW d \in Word(32), WriteRegs(address, d)
  PROVE  /\ plaintext_reg' \in Word(64) /\ key_reg' \in Word(64)
         /\ start_reg' \in BOOLEAN /\ done_reg' \in BOOLEAN
         /\ address \notin 1..4 => UNCHANGED <<plaintext_reg, key_reg>>
<1>1. CASE address = 0
  BY <1>1 DEF TypeOK, WriteRegs, WriteControl
<1>2. CASE address # 0
  <2>1. WriteOperand(address, d)
    BY <1>2 DEF WriteRegs
  <2>2. plaintext_reg' \in Word(64)
    BY <2>1, WithTypes DEF TypeOK, WriteOperand
  <2>3. key_reg' \in Word(64)
    BY <2>1, WithTypes DEF TypeOK, WriteOperand
  <2>4. UNCHANGED <<start_reg, done_reg>>
    BY <2>1 DEF WriteOperand
  <2>5. address \notin 1..4 => UNCHANGED <<plaintext_reg, key_reg>>
    BY <2>1 DEF WriteOperand
  <2> QED
    BY <2>2, <2>3, <2>4, <2>5 DEF TypeOK
<1> QED
  BY <1>1, <1>2

LEMMA WriteInv ==
  ASSUME WrapperInv, NEW address \in 0..7, NEW d \in Word(32), Write(address, d)
  PROVE  WrapperInv'
<1>1. TypeOK /\ StageInv /\ QuietStages /\ des_inst /\ WriteRegs(address, d)
  BY DEF WrapperInv, Write
<1>2. quiet' = IF address \in 1..4 THEN 0 ELSE LongerQuiet
  BY DEF Write
<1>3. quiet' \in 0 .. Rounds+1
  <2>1. LongerQuiet \in 0 .. Rounds+1
    BY <1>1, QuietType DEF TypeOK
  <2>2. 0 \in 0 .. Rounds+1
    BY RoundsAssumption
  <2> QED
    BY <1>2, <2>1, <2>2
<1>4. TypeOK' /\ StageInv'
  BY <1>1, <1>3, EdgeStageInv, WriteRegsType DEF TypeOK
<1>5. ASSUME address \in 1..4 PROVE QuietStages'
  <2>1. quiet' = 0 /\ \A i \in Stages : ~(i < 0)
    BY <1>2, <1>5, StagesFacts
  <2> QED
    BY <2>1 DEF QuietStages
<1>6. ASSUME address \notin 1..4 PROVE QuietStages'
  <2>1. UNCHANGED <<plaintext_reg, key_reg>>
    BY <1>1, <1>6, WriteRegsType
  <2>2. quiet' = LongerQuiet
    BY <1>2, <1>6
  <2> QED
    BY <1>1, <2>1, <2>2, EdgeQuietStages
<1> QED
  BY <1>4, <1>5, <1>6 DEF WrapperInv

LEMMA NoWriteInv ==
  ASSUME WrapperInv, NoWrite
  PROVE  WrapperInv'
<1>1. TypeOK /\ StageInv /\ QuietStages /\ des_inst /\ NoWriteRegs /\ quiet' = LongerQuiet
  BY DEF WrapperInv, NoWrite
<1>2. quiet' \in 0 .. Rounds+1
  BY <1>1, QuietType DEF TypeOK
<1>3. done_reg' \in BOOLEAN /\ start_reg' \in BOOLEAN /\ UNCHANGED <<plaintext_reg, key_reg>>
  BY <1>1 DEF NoWriteRegs
<1>4. TypeOK' /\ StageInv'
  BY <1>1, <1>2, <1>3, EdgeStageInv DEF TypeOK
<1>5. QuietStages'
  BY <1>1, <1>3, EdgeQuietStages
<1> QED
  BY <1>4, <1>5 DEF WrapperInv

LEMMA InitWrapperInv == Init => WrapperInv
<1> SUFFICES ASSUME Init
             PROVE  WrapperInv
  OBVIOUS
<1>1. TypeOK
  <2>1. CoreTypeOK /\ 0 \in 0 .. Rounds+1 /\ {} \in Word(64)
    BY InitType, RoundsAssumption DEF Init, Word
  <2> QED
    BY <2>1 DEF Init, TypeOK
<1> QED
  BY <1>1, InitStageInv, StagesFacts DEF Init, WrapperInv, QuietStages

LEMMA ResetWrapperInv == Reset => WrapperInv'
<1> SUFFICES ASSUME Reset
             PROVE  WrapperInv'
  OBVIOUS
<1>1. TypeOK'
  <2>1. CoreTypeOK' /\ 0 \in 0 .. Rounds+1 /\ {} \in Word(64)
    BY ResetType, RoundsAssumption DEF Reset, Word
  <2> QED
    BY <2>1 DEF Reset, TypeOK
<1> QED
  BY <1>1, ResetStageInv, StagesFacts DEF Reset, WrapperInv, QuietStages

LEMMA StutterWrapperInv == WrapperInv /\ UNCHANGED vars => WrapperInv'
<1> SUFFICES ASSUME WrapperInv, UNCHANGED vars
             PROVE  WrapperInv'
  OBVIOUS
<1>1. UNCHANGED core /\ UNCHANGED regs /\ UNCHANGED quiet
  BY DEF vars
<1>2. StageInv'
  BY <1>1, StutterStageInv DEF WrapperInv
<1> QED
  BY <1>1, <1>2 DEF WrapperInv, TypeOK, StageInv, regs, core, QuietStages, Operation

LEMMA WrapperInvariant == Spec => []WrapperInv
<1>1. WrapperInv /\ [Next]_vars => WrapperInv'
  <2> SUFFICES ASSUME WrapperInv, [Next]_vars
               PROVE  WrapperInv'
    OBVIOUS
  <2>1. CASE Reset
    BY <2>1, ResetWrapperInv
  <2>2. CASE NoWrite
    BY <2>2, NoWriteInv
  <2>3. CASE \E address \in 0..7, d \in WriteData : Write(address, d)
    BY <2>3, WriteInv, WriteDataAssumption
  <2>4. CASE UNCHANGED vars
    BY <2>4, StutterWrapperInv
  <2> QED
    BY <2>1, <2>2, <2>3, <2>4 DEF Next
<1> QED
  BY <1>1, InitWrapperInv, PTL DEF Spec

\* The registers keep their widths whatever the master writes.
THEOREM WrapperTypeCorrect == Spec => []TypeOK
BY WrapperInvariant, PTL DEF WrapperInv

LEMMA QuietResult ==
  ASSUME WrapperInv, quiet = Rounds+1
  PROVE  Ciphertext = Encrypt(plaintext_reg, key_reg, Rounds)
<1>1. block[Rounds] = {Operation}
  BY StagesFacts DEF WrapperInv, QuietStages
<1> QED
  BY <1>1, StageInvOutput DEF WrapperInv, Operation

\* Whatever the master does, operands left alone for the length of the pipeline
\* are what the ciphertext registers show the encryption of.
THEOREM QuietCorrect == Spec => []QuietOperandsGiveResult
<1>1. WrapperInv => QuietOperandsGiveResult
  BY QuietResult DEF QuietOperandsGiveResult
<1> QED
  BY <1>1, WrapperInvariant, PTL

-----------------------------------------------------------------------------
(* A run: from the write of Start on, as long as nothing else is written.  *)

Empty == \A i \in Stages : ~Valid_reg[i]

\* One operation at most is on its way from the Start bit to Done; a block in
\* stage i was accepted after the last operand write, so that the operands have
\* been left alone for the length of the pipeline when Done is caught.
RunInv ==
  /\ \A i, j \in Stages : Valid_reg[i] /\ Valid_reg[j] => i = j
  /\ start_reg => Empty
  /\ done_reg => ~start_reg /\ Empty /\ quiet = Rounds+1
  /\ \A i \in Stages : Valid_reg[i] => quiet >= i+1

LEMMA ValidMovesOn ==
  ASSUME des_inst
  PROVE  /\ Valid_reg'[0] = start_reg
         /\ \A i \in Stages : i # 0 => i-1 \in Stages /\ Valid_reg'[i] = Valid_reg[i-1]
BY StagesFacts DEF des_inst, Posedge

LEMMA IdleStaysEmpty ==
  ASSUME Empty, ~start_reg, des_inst
  PROVE  Empty'
BY ValidMovesOn DEF Empty

\* A write of Start when only the last stage may still hold a block.
LEMMA RunStarts ==
  ASSUME ~start_reg, \A i \in Stages : Valid_reg[i] => i = Rounds, Write(0, {0})
  PROVE  /\ RunInv' /\ Empty' /\ start_reg' /\ ~done_reg'
         /\ UNCHANGED <<plaintext_reg, key_reg>>
<1>1. des_inst /\ WriteControl({0})
  BY DEF Write, WriteRegs
<1>2. start_reg' /\ ~done_reg' /\ UNCHANGED <<plaintext_reg, key_reg>>
  BY <1>1 DEF WriteControl
<1>3. ASSUME NEW i \in Stages PROVE ~Valid_reg'[i]
  <2>1. CASE i = 0
    BY <1>1, <2>1, ValidMovesOn
  <2>2. CASE i # 0
    <3>1. i-1 \in Stages /\ i-1 # Rounds /\ Valid_reg'[i] = Valid_reg[i-1]
      BY <1>1, <2>2, ValidMovesOn, RoundsAssumption DEF Stages
    <3> QED
      BY <3>1
  <2> QED
    BY <2>1, <2>2
<1> QED
  BY <1>2, <1>3 DEF RunInv, Empty

LEMMA RunContinues ==
  ASSUME WrapperInv, RunInv, NoWrite
  PROVE  RunInv'
<1>1. /\ des_inst /\ ~start_reg' /\ (done_reg' <=> (done_reg \/ Done))
      /\ quiet' = LongerQuiet
  BY DEF NoWrite, NoWriteRegs
<1>2. quiet \in 0 .. Rounds+1
  BY DEF WrapperInv, TypeOK
<1>3. ASSUME NEW i \in Stages, NEW j \in Stages, Valid_reg'[i], Valid_reg'[j]
      PROVE  i = j
  <2>1. CASE i = 0 \/ j = 0
    BY <1>1, <1>3, <2>1, ValidMovesOn DEF RunInv, Empty
  <2>2. CASE i # 0 /\ j # 0
    <3>1. i-1 = j-1
      BY <1>1, <1>3, <2>2, ValidMovesOn DEF RunInv
    <3> QED
      BY <3>1, StagesFacts
  <2> QED
    BY <2>1, <2>2
<1>4. ASSUME NEW i \in Stages, Valid_reg'[i]
      PROVE  quiet' >= i+1
  <2>1. CASE i = 0
    BY <1>1, <1>2, <2>1, RoundsAssumption DEF LongerQuiet
  <2>2. CASE i # 0
    <3>1. i-1 \in Stages /\ Valid_reg[i-1]
      BY <1>1, <1>4, <2>2, ValidMovesOn
    <3>2. quiet >= i
      BY <3>1, StagesFacts DEF RunInv
    <3> QED
      BY <1>1, <1>2, <3>2, RoundsAssumption DEF LongerQuiet, Stages
  <2> QED
    BY <2>1, <2>2
<1>5. ASSUME done_reg'
      PROVE  Empty' /\ quiet' = Rounds+1
  <2>1. CASE done_reg
    <3>1. Empty'
      BY <1>1, <2>1, IdleStaysEmpty DEF RunInv
    <3> QED
      BY <1>1, <2>1, <3>1, RoundsAssumption DEF RunInv, LongerQuiet
  <2>2. CASE Done
    <3>1. \A i \in Stages : Valid_reg[i] => i = Rounds
      BY <2>2, StagesFacts DEF Done, RunInv
    <3>2. ~start_reg
      BY <2>2, StagesFacts DEF Done, RunInv, Empty
    <3>3. ASSUME NEW i \in Stages PROVE ~Valid_reg'[i]
      <4>1. CASE i = 0
        BY <1>1, <3>2, <4>1, ValidMovesOn
      <4>2. CASE i # 0
        <5>1. i-1 \in Stages /\ i-1 # Rounds /\ Valid_reg'[i] = Valid_reg[i-1]
          BY <1>1, <4>2, ValidMovesOn, RoundsAssumption DEF Stages
        <5> QED
          BY <3>1, <5>1
      <4> QED
        BY <4>1, <4>2
    <3>4. quiet >= Rounds+1
      BY <2>2, StagesFacts DEF Done, RunInv
    <3>5. quiet' = Rounds+1
      BY <1>1, <1>2, <3>4, RoundsAssumption DEF LongerQuiet
    <3> QED
      BY <3>3, <3>5 DEF Empty
  <2> QED
    BY <1>1, <1>5, <2>1, <2>2
<1>6. RunInv' = (/\ \A i, j \in Stages : Valid_reg'[i] /\ Valid_reg'[j] => i = j
                 /\ start_reg' => Empty'
                 /\ done_reg' => ~start_reg' /\ Empty' /\ quiet' = Rounds+1
                 /\ \A i \in Stages : Valid_reg'[i] => quiet' >= i+1)
  BY DEF RunInv
<1> QED
  BY <1>1, <1>3, <1>4, <1>5, <1>6

LEMMA DoneBit == done_reg <=> 1 \in Readdata(0)
BY DEF Readdata

LEMMA JoinedHalves ==
  ASSUME NEW w \in Word(64)
  PROVE  Join({b \in 0..31 : b + 32 \in w}, w \cap (0..31), 32) = w
<1>1. w \subseteq 0..63
  BY DEF Word
<1>2. ASSUME NEW b \in w PROVE b \in 0..31 \/ (b-32 \in 0..31 /\ (b-32)+32 = b)
  BY <1>1
<1> QED
  BY <1>2 DEF Join

LEMMA ResultRead ==
  Join(Readdata(6), Readdata(5), 32) = Ciphertext
<1>1. Ciphertext \in Word(64)
  BY IP_1Type DEF Ciphertext
<1>2. Readdata(6) = {b \in 0..31 : b + 32 \in Ciphertext}
  BY DEF Readdata
<1>3. Readdata(5) = Ciphertext \cap (0..31)
  BY DEF Readdata
<1> QED
  BY <1>1, <1>2, <1>3, JoinedHalves

-----------------------------------------------------------------------------
(* The protocol of source.c on the register file. *)

\* What the program knows in each phase: the request it made is what the operand
\* registers still hold, and it takes a result only when Done is up.
RequestHeld ==
  /\ phase \in {"load", "run", "done"}
  /\ request = IF phase = "load" THEN {} ELSE {Operands}
  /\ phase = "done" => done_reg

\* Between two runs nothing is on its way, and in a run the register file obeys
\* the invariant of a run.
RunHeld == IF phase = "load" THEN ~start_reg /\ Empty ELSE RunInv

\* The operands are made of words the program may write.
OperandsWritten == plaintext_reg \in OperandWord /\ key_reg \in OperandWord

\* The inductive invariant.
SessionInv == WrapperInv /\ RequestHeld /\ RunHeld /\ OperandsWritten

LEMMA OutsideRun ==
  ASSUME SessionInv, phase # "run"
  PROVE  ~start_reg /\ Empty
BY DEF SessionInv, RequestHeld, RunHeld, RunInv

LEMMA WordWritten ==
  ASSUME NEW reg \in OperandWord, NEW d \in WriteData
  PROVE  WithLow(reg, d) \in OperandWord /\ WithHigh(reg, d) \in OperandWord
<1>1. PICK hi \in WriteData \cup {{}}, lo \in WriteData \cup {{}} : reg = Join(hi, lo, 32)
  BY DEF OperandWord
<1>2. hi \subseteq 0..31 /\ lo \subseteq 0..31 /\ d \subseteq 0..31
  BY <1>1, WriteDataAssumption DEF Word
<1>3. WithLow(reg, d) = Join(hi, d, 32)
  <2> DEFINE up == {b + 32 : b \in hi}
  <2>2. up \cap (0..31) = {}
    BY <1>2
  <2>3. reg = up \cup lo
    BY <1>1 DEF Join
  <2> HIDE DEF up
  <2>1. reg \ (0..31) = up
    BY <1>2, <2>2, <2>3
  <2> QED
    BY <2>1 DEF WithLow, Join, up
<1>4. WithHigh(reg, d) = Join(d, lo, 32)
  <2> DEFINE up == {b + 32 : b \in hi}
  <2>2. up \cap (0..31) = {}
    BY <1>2
  <2>3. reg = up \cup lo
    BY <1>1 DEF Join
  <2> HIDE DEF up
  <2>1. reg \cap (0..31) = lo
    BY <1>2, <2>2, <2>3
  <2> QED
    BY <2>1 DEF WithHigh
<1> QED
  BY <1>1, <1>3, <1>4 DEF OperandWord

LEMMA NothingWritten == {} \in OperandWord
<1>1. {} = Join({}, {}, 32)
  BY DEF Join
<1> QED
  BY <1>1 DEF OperandWord

-----------------------------------------------------------------------------
(* One lemma for every kind of step. *)

LEMMA InitSessionInv == SInit => SessionInv
<1> SUFFICES ASSUME SInit PROVE SessionInv
  OBVIOUS
<1>1. WrapperInv
  BY InitWrapperInv DEF SInit
<1>2. Empty
  BY DEF SInit, Init, CoreInit, AllStages, Empty
<1>3. ~start_reg /\ plaintext_reg = {} /\ key_reg = {}
  BY DEF SInit, Init
<1> QED
  BY <1>1, <1>2, <1>3, NothingWritten
     DEF SInit, SessionInv, RequestHeld, RunHeld, OperandsWritten

LEMMA ResetSessionInv == SReset => SessionInv'
<1> SUFFICES ASSUME SReset PROVE SessionInv'
  OBVIOUS
<1>1. WrapperInv'
  BY ResetWrapperInv DEF SReset
<1>2. Empty'
  BY DEF SReset, Reset, CoreReset, AllStages, Empty
<1>3. ~start_reg' /\ plaintext_reg' = {} /\ key_reg' = {}
  BY DEF SReset, Reset
<1> QED
  BY <1>1, <1>2, <1>3, NothingWritten
     DEF SReset, SessionInv, RequestHeld, RunHeld, OperandsWritten

LEMMA LoadSessionInv ==
  ASSUME SessionInv, NEW address \in 1..4, NEW d \in WriteData, LoadOperand(address, d)
  PROVE  SessionInv'
<1>1. phase # "run" /\ des_inst /\ WriteOperand(address, d)
      /\ phase' = "load" /\ request' = {} /\ Write(address, d)
  BY DEF LoadOperand, Write, WriteRegs
<1>2. WrapperInv'
  BY <1>1, WriteInv, WriteDataAssumption DEF SessionInv
<1>3. ~start_reg' /\ Empty'
  BY <1>1, OutsideRun, IdleStaysEmpty DEF WriteOperand
<1>4. OperandsWritten'
  <2>1. plaintext_reg' \in OperandWord
    BY <1>1, WordWritten DEF SessionInv, OperandsWritten, WriteOperand
  <2>2. key_reg' \in OperandWord
    BY <1>1, WordWritten DEF SessionInv, OperandsWritten, WriteOperand
  <2> QED
    BY <2>1, <2>2 DEF OperandsWritten
<1> QED
  BY <1>1, <1>2, <1>3, <1>4 DEF SessionInv, RequestHeld, RunHeld

LEMMA StartSessionInv ==
  ASSUME SessionInv, StartOperation
  PROVE  SessionInv' /\ ~done_reg' /\ request' = {Operands}
<1>1. phase # "run" /\ phase' = "run" /\ request' = {Operands} /\ Write(0, {0})
  BY DEF StartOperation
<1>2. WrapperInv'
  <2>1. 0 \in 0..7 /\ {0} \in Word(32)
    BY DEF Word
  <2> QED
    BY <1>1, <2>1, WriteInv DEF SessionInv
<1>3. RunInv' /\ ~done_reg' /\ UNCHANGED <<plaintext_reg, key_reg>>
  <2>1. ~start_reg /\ \A i \in Stages : Valid_reg[i] => i = Rounds
    BY <1>1, OutsideRun DEF Empty
  <2> QED
    BY <1>1, <2>1, RunStarts
<1> QED
  BY <1>1, <1>2, <1>3 DEF SessionInv, RequestHeld, RunHeld, OperandsWritten, Operands

\* The program waits: Poll and SElsewhere.
Waits ==
  /\ NoWrite
  /\ UNCHANGED request
  /\ phase' = phase \/ (phase = "run" /\ done_reg /\ phase' = "done")

LEMMA PollWaits ==
  ASSUME Poll \/ SElsewhere
  PROVE  Waits
BY DoneBit DEF Poll, SElsewhere, Waits

LEMMA WaitSessionInv ==
  ASSUME SessionInv, Waits
  PROVE  SessionInv'
<1>1. /\ done_reg => done_reg'
      /\ UNCHANGED <<plaintext_reg, key_reg>>
      /\ des_inst /\ ~start_reg'
  BY DEF Waits, NoWrite, NoWriteRegs
<1>2. WrapperInv'
  BY NoWriteInv DEF SessionInv, Waits
<1>3. RequestHeld'
  BY <1>1 DEF SessionInv, RequestHeld, Waits, Operands
<1>4. RunHeld'
  BY <1>1, RunContinues, IdleStaysEmpty DEF SessionInv, RunHeld, RequestHeld, Waits
<1>5. OperandsWritten'
  BY <1>1 DEF SessionInv, OperandsWritten
<1> QED
  BY <1>2, <1>3, <1>4, <1>5 DEF SessionInv

LEMMA StutterSessionInv == SessionInv /\ UNCHANGED svars => SessionInv'
<1> SUFFICES ASSUME SessionInv, UNCHANGED svars PROVE SessionInv'
  OBVIOUS
<1>1. UNCHANGED vars /\ UNCHANGED <<phase, request>>
  BY DEF svars
<1>2. WrapperInv'
  BY <1>1, StutterWrapperInv DEF SessionInv
<1>3. UNCHANGED regs /\ UNCHANGED quiet /\ UNCHANGED Valid_reg
  BY <1>1 DEF vars, core
<1> QED
  BY <1>1, <1>2, <1>3 DEF SessionInv, regs, RequestHeld, RunHeld, RunInv, Empty,
     OperandsWritten, Operands

LEMMA SessionStep == SessionInv /\ [SNext]_svars => SessionInv'
<1> SUFFICES ASSUME SessionInv, [SNext]_svars PROVE SessionInv'
  OBVIOUS
<1>1. CASE \E address \in 1..4, d \in WriteData : LoadOperand(address, d)
  BY <1>1, LoadSessionInv
<1>2. CASE StartOperation
  BY <1>2, StartSessionInv
<1>3. CASE Poll \/ SElsewhere
  BY <1>3, PollWaits, WaitSessionInv
<1>4. CASE SReset
  BY <1>4, ResetSessionInv
<1>5. CASE UNCHANGED svars
  BY <1>5, StutterSessionInv
<1> QED
  BY <1>1, <1>2, <1>3, <1>4, <1>5 DEF SNext

LEMMA SessionInvariant == SSpec => []SessionInv
BY InitSessionInv, SessionStep, PTL DEF SSpec

-----------------------------------------------------------------------------
\* The Done that the program reads is that of its own Start: one operation at
\* most is between the Start bit and Done, and none outside a run.
THEOREM OneOperationCorrect == SSpec => []OneOperationAtATime
<1>1. SessionInv => OneOperationAtATime
  BY DEF SessionInv, RequestHeld, RunHeld, RunInv, Empty, OneOperationAtATime, InFlight
<1> QED
  BY <1>1, SessionInvariant, PTL

LEMMA ResultReady ==
  ASSUME SessionInv, done_reg, phase # "load"
  PROVE  /\ request = {Operands}
         /\ Join(Readdata(6), Readdata(5), 32) = Encrypt(plaintext_reg, key_reg, Rounds)
<1>1. quiet = Rounds+1
  BY DEF SessionInv, RunHeld, RunInv
<1>2. Ciphertext = Encrypt(plaintext_reg, key_reg, Rounds)
  BY <1>1, QuietResult DEF SessionInv
<1> QED
  BY <1>2, ResultRead DEF SessionInv, RequestHeld

\* While Done is up for a request the two ciphertext registers hold its
\* encryption.
THEOREM ResultCorrect == SSpec => []DoneMeansResult
<1>1. SessionInv => DoneMeansResult
  <2> SUFFICES ASSUME SessionInv, done_reg, phase # "load"
               PROVE  \E r \in request :
                        Join(Readdata(6), Readdata(5), 32) = Encrypt(r.pt, r.key, Rounds)
    BY DEF DoneMeansResult
  <2>1. Operands \in request /\ Operands.pt = plaintext_reg /\ Operands.key = key_reg
    BY ResultReady DEF Operands
  <2> QED
    BY <2>1, ResultReady
<1> QED
  BY <1>1, SessionInvariant, PTL

-----------------------------------------------------------------------------
(* The protocol implements DES_SERVICE.  The state and the result of the   *)
(* service, by the names its instance gives them here.                     *)

Word64Read == Join(Readdata(6), Readdata(5), 32)
State  == IF phase = "load" THEN "idle" ELSE IF Answered THEN "ready" ELSE "busy"
Result == IF Answered THEN {Word64Read} ELSE {}

ServiceState ==
  /\ phase = "load" => State = "idle" /\ Result = {} /\ request = {}
  /\ phase # "load" /\ done_reg =>
       State = "ready" /\ request = {Operands} /\ Result = {Encipher(Operands)}
  /\ phase # "load" /\ ~done_reg =>
       State = "busy" /\ Result = {} /\ request = {Operands}

LEMMA StateFacts == SessionInv => ServiceState
<1> SUFFICES ASSUME SessionInv
             PROVE  ServiceState
  OBVIOUS
<1>1. phase = "load" => State = "idle" /\ Result = {} /\ request = {}
  BY DEF State, Result, Answered, SessionInv, RequestHeld
<1>2. ASSUME phase # "load", done_reg
      PROVE  State = "ready" /\ request = {Operands} /\ Result = {Encipher(Operands)}
  BY <1>2, ResultReady DEF State, Result, Answered, Word64Read, Encipher, Operands
<1>3. phase # "load" /\ ~done_reg => State = "busy" /\ Result = {} /\ request = {Operands}
  BY DEF State, Result, Answered, SessionInv, RequestHeld
<1> QED
  BY <1>1, <1>2, <1>3 DEF ServiceState

LEMMA StateFactsNext == SessionInv' => ServiceState'
BY StateFacts, PTL

LEMMA SessionRefines ==
  ASSUME SessionInv, SessionInv', [SNext]_svars
  PROVE  [Service!Next]_(Service!vars)
<1>1. ASSUME NEW address \in 1..4, NEW d \in WriteData, LoadOperand(address, d)
      PROVE  [Service!Next]_(Service!vars)
  <2>1. phase # "run" /\ phase' = "load"
    BY <1>1 DEF LoadOperand
  <2>2. CASE phase = "load"
    BY <2>1, <2>2, StateFacts, StateFactsNext
       DEF ServiceState, Service!vars, State, Result, Word64Read
  <2>3. CASE phase = "done"
    BY <2>1, <2>3, StateFacts, StateFactsNext
       DEF ServiceState, SessionInv, RequestHeld, Service!Next, Service!Withdraw,
           State, Result, Word64Read
  <2> QED
    BY <2>1, <2>2, <2>3 DEF SessionInv, RequestHeld
<1>2. ASSUME StartOperation
      PROVE  [Service!Next]_(Service!vars)
  <2>1. /\ phase # "run" /\ phase' = "run" /\ ~done_reg' /\ request' = {Operands}
    BY <1>2, StartSessionInv DEF StartOperation
  <2>2. State # "busy"
    BY <2>1, StateFacts DEF ServiceState, SessionInv, RequestHeld
  <2>3. State' = "busy" /\ Result' = {}
    BY <2>1, StateFactsNext DEF ServiceState
  <2>4. Operands \in [pt : OperandWord, key : OperandWord]
    BY DEF Operands, SessionInv, OperandsWritten
  <2>5. Service!Ask(Operands)
    BY <2>1, <2>2, <2>3 DEF Service!Ask, State, Result, Word64Read
  <2> QED
    BY <2>4, <2>5 DEF Service!Next
<1>3. ASSUME Waits
      PROVE  [Service!Next]_(Service!vars)
  <2>1. /\ UNCHANGED request /\ (done_reg => done_reg') /\ UNCHANGED Operands
        /\ phase' = "load" <=> phase = "load"
    BY <1>3 DEF Waits, NoWrite, NoWriteRegs, Operands
  <2>2. CASE phase = "load" \/ done_reg \/ ~done_reg'
    <3>1. State' = State /\ Result' = Result
      BY <2>1, <2>2, StateFacts, StateFactsNext DEF ServiceState, Encipher
    <3> QED
      BY <2>1, <3>1 DEF Service!vars, State, Result, Word64Read
  <2>3. CASE phase # "load" /\ ~done_reg /\ done_reg'
    <3>1. State = "busy" /\ State' = "ready" /\ request = {Operands}
          /\ Result' = {Encipher(Operands)}
      BY <2>1, <2>3, StateFacts, StateFactsNext DEF ServiceState, Encipher
    <3>2. Result' = {Encipher(r) : r \in request}
      BY <3>1
    <3>3. Service!Answer
      BY <2>1, <3>1, <3>2 DEF Service!Answer, State, Result, Word64Read
    <3> QED
      BY <3>3 DEF Service!Next
  <2> QED
    BY <2>2, <2>3
<1>4. ASSUME SReset
      PROVE  [Service!Next]_(Service!vars)
  <2>1. phase' = "load"
    BY <1>4 DEF SReset
  <2> QED
    BY <2>1, StateFactsNext
       DEF ServiceState, Service!Next, Service!Reset, State, Result, Word64Read
<1>5. ASSUME UNCHANGED svars
      PROVE  [Service!Next]_(Service!vars)
  BY <1>5 DEF svars, vars, regs, core, Service!vars, Answered, Readdata, Ciphertext
<1> QED
  BY <1>1, <1>2, <1>3, <1>4, <1>5, PollWaits DEF SNext

\* The register file under the protocol of source.c is a request-answer
\* service: one answer to a request, with its encryption, which stays until the
\* next operand is written.
THEOREM ServiceCorrect == SSpec => ServiceSpec
<1>1. SInit => Service!Init
  <2> SUFFICES ASSUME SInit PROVE Service!Init
    OBVIOUS
  <2>1. SessionInv /\ phase = "load"
    BY InitSessionInv DEF SInit
  <2> QED
    BY <2>1, StateFacts DEF ServiceState, Service!Init, State, Result, Word64Read
<1>2. SessionInv /\ SessionInv' /\ [SNext]_svars => [Service!Next]_(Service!vars)
  BY SessionRefines
<1> QED
  BY <1>1, <1>2, SessionInvariant, PTL DEF SSpec, ServiceSpec, Service!Spec

-----------------------------------------------------------------------------
(* main on the accelerator. *)

Loading == {"pt_low", "pt_high", "key_low", "key_high", "start"}
StoresDone ==
  [pt_low |-> 0, pt_high |-> 1, key_low |-> 2, key_high |-> 3, start |-> 4]

SystemTypes ==
  /\ pc \in Loading \cup Loads \cup {"verify"} \cup Verdicts
  /\ boot \in 0 .. BootCycles
  /\ boot > 0 => pc = "pt_low"
  /\ reading => pc \in Loads
  /\ program \in Programs

\* Until Start is written the blocks of an interrupted run move towards the end
\* of the pipeline; from then on the register file obeys the invariant of a run.
OldBlocksLeave ==
  IF pc \in Loading
  THEN /\ ~start_reg
       /\ \A i \in Stages : Valid_reg[i] => i >= BootCycles - boot + StoresDone[pc]
  ELSE RunInv

\* What main has stored so far.
OperandsLoaded ==
  /\ pc # "pt_low" => Low(plaintext_reg) = Low(program.pt)
  /\ pc \notin {"pt_low", "pt_high"} => plaintext_reg = program.pt
  /\ pc \notin {"pt_low", "pt_high", "key_low"} => Low(key_reg) = Low(program.key)
  /\ pc \notin {"pt_low", "pt_high", "key_low", "key_high"} => key_reg = program.key

\* What main has read so far, and its verdict.
OwnResult == Encrypt(program.pt, program.key, Rounds)
ResultsRead ==
  /\ pc \notin Loading \cup {"poll"} => done_reg
  /\ pc \in {"ct_high", "verify"} => ct_low = Low(OwnResult)
  /\ pc = "verify" => ct_high = High(OwnResult)
  /\ VerdictIsRight

\* The inductive invariant.
SystemInv ==
  WrapperInv /\ SystemTypes /\ OldBlocksLeave /\ OperandsLoaded /\ ResultsRead

-----------------------------------------------------------------------------
(* Words and their halves. *)

LEMMA HalfTypes ==
  ASSUME NEW w
  PROVE  Low(w) \in Word(32) /\ High(w) \in Word(32)
BY DEF Low, High, Word

LEMMA LowWritten ==
  ASSUME NEW reg, NEW d \in Word(32)
  PROVE  Low(WithLow(reg, d)) = d
<1>1. d \subseteq 0..31
  BY DEF Word
<1> QED
  BY <1>1 DEF Low, WithLow

LEMMA HighWritten ==
  ASSUME NEW reg, NEW w \in Word(64), Low(reg) = Low(w)
  PROVE  WithHigh(reg, High(w)) = w
<1>1. WithHigh(reg, High(w)) = Join({b \in 0..31 : b + 32 \in w}, w \cap (0..31), 32)
  BY DEF WithHigh, Low, High
<1> QED
  BY <1>1, JoinedHalves

LEMMA SameHalves ==
  ASSUME NEW v \in Word(64), NEW w \in Word(64)
  PROVE  v = w <=> High(v) = High(w) /\ Low(v) = Low(w)
<1>1. v = Join(High(v), Low(v), 32) /\ w = Join(High(w), Low(w), 32)
  BY JoinedHalves DEF High, Low
<1> QED
  BY <1>1

LEMMA ProgramTypes ==
  ASSUME SystemTypes
  PROVE  program.pt \in Word(64) /\ program.key \in Word(64) /\ program.expected \in Word(64)
BY ProgramsAssumption DEF SystemTypes

LEMMA OwnResultType == OwnResult \in Word(64)
BY IP_1Type DEF OwnResult, Encrypt, Output

\* In a run that has raised Done the ciphertext registers hold main's result.
LEMMA ReadsOwn ==
  ASSUME SystemInv, done_reg, pc \notin Loading
  PROVE  Readdata(5) = Low(OwnResult) /\ Readdata(6) = High(OwnResult)
<1>1. quiet = Rounds+1
  BY DEF SystemInv, OldBlocksLeave, RunInv
<1>2. plaintext_reg = program.pt /\ key_reg = program.key
  BY DEF SystemInv, OperandsLoaded, Loading
<1>3. Ciphertext = OwnResult
  BY <1>1, <1>2, QuietResult DEF SystemInv, OwnResult
<1>4. Readdata(5) = Low(Ciphertext)
  BY DEF Readdata, Low
<1>5. Readdata(6) = High(Ciphertext)
  BY DEF Readdata, High
<1> QED
  BY <1>3, <1>4, <1>5

-----------------------------------------------------------------------------
(* An edge without a write. *)

\* The control of such an edge: main stays among its stores, or after them.
Proceeds ==
  /\ NoWrite
  /\ UNCHANGED program
  /\ IF pc \in Loading THEN pc' = pc /\ boot' \in 0 .. boot /\ boot' >= boot - 1
                       ELSE pc' \notin Loading

LEMMA ProceedsInv ==
  ASSUME SystemInv, Proceeds, SystemTypes'
  PROVE  WrapperInv' /\ OldBlocksLeave' /\ OperandsLoaded' /\ (done_reg => done_reg')
<1>1. /\ des_inst /\ ~start_reg' /\ UNCHANGED <<plaintext_reg, key_reg>>
      /\ done_reg => done_reg'
  BY DEF Proceeds, NoWrite, NoWriteRegs
<1>2. WrapperInv'
  BY NoWriteInv DEF SystemInv, Proceeds
<1>3. OldBlocksLeave'
  <2>1. CASE pc \notin Loading
    BY <2>1, RunContinues DEF SystemInv, OldBlocksLeave, Proceeds
  <2>2. CASE pc \in Loading
    <3>1. ~start_reg /\ \A i \in Stages : Valid_reg[i] => i >= BootCycles - boot + StoresDone[pc]
      BY <2>2 DEF SystemInv, OldBlocksLeave
    <3>2. pc' = pc /\ boot \in Nat /\ boot' \in Nat /\ boot' >= boot - 1
          /\ BootCycles \in Nat /\ StoresDone[pc] \in Nat
      BY <2>2, BootAssumption DEF Proceeds, SystemInv, SystemTypes, Loading, StoresDone
    <3>3. ASSUME NEW i \in Stages, Valid_reg'[i]
          PROVE  i >= BootCycles - boot' + StoresDone[pc]
      <4>1. i # 0 /\ i-1 \in Stages /\ Valid_reg[i-1]
        BY <1>1, <3>1, <3>3, ValidMovesOn
      <4>2. i-1 >= BootCycles - boot + StoresDone[pc] /\ i \in Nat
        BY <3>1, <4>1, StagesFacts
      <4> QED
        BY <3>2, <4>2
    <3> QED
      BY <1>1, <2>2, <3>2, <3>3 DEF OldBlocksLeave
  <2> QED
    BY <2>1, <2>2
<1>4. OperandsLoaded'
  BY <1>1 DEF SystemInv, OperandsLoaded, Proceeds, Loading
<1> QED
  BY <1>1, <1>2, <1>3, <1>4

\* The same, when main neither reads nor decides anything.
LEMMA IdleSystemInv ==
  ASSUME SystemInv, Proceeds, pc' = pc, UNCHANGED <<ct_low, ct_high>>, SystemTypes'
  PROVE  SystemInv'
<1>1. ResultsRead'
  BY ProceedsInv DEF SystemInv, ResultsRead, VerdictIsRight, Proceeds, OwnResult
<1> QED
  BY <1>1, ProceedsInv DEF SystemInv

LEMMA BootInv ==
  ASSUME SystemInv, Boot, UNCHANGED program
  PROVE  SystemInv'
<1>1. boot > 0 /\ boot' = boot - 1 /\ NoWrite /\ UNCHANGED <<pc, reading, ct_low, ct_high>>
  BY DEF Boot
<1>2. boot \in 0 .. BootCycles /\ BootCycles \in Nat /\ pc = "pt_low"
  BY <1>1, BootAssumption DEF SystemInv, SystemTypes
<1>3. SystemTypes'
  BY <1>1, <1>2 DEF SystemInv, SystemTypes
<1>4. Proceeds
  BY <1>1, <1>2 DEF Proceeds, Loading
<1> QED
  BY <1>1, <1>3, <1>4, IdleSystemInv

LEMMA WaitInv ==
  ASSUME SystemInv, ReadWait \/ Elsewhere, UNCHANGED program
  PROVE  SystemInv'
<1>1. NoWrite /\ UNCHANGED <<pc, boot, ct_low, ct_high>> /\ (reading' => pc \in Loads)
  BY DEF ReadWait, Elsewhere, cpu, SystemInv, SystemTypes
<1>2. SystemTypes'
  BY <1>1 DEF SystemInv, SystemTypes
<1>3. Proceeds
  <2>1. boot \in Nat
    BY BootAssumption DEF SystemInv, SystemTypes
  <2> QED
    BY <1>1, <2>1 DEF Proceeds
<1> QED
  BY <1>1, <1>2, <1>3, IdleSystemInv

LEMMA PollInv ==
  ASSUME SystemInv, PollStatus, UNCHANGED program
  PROVE  SystemInv'
<1>1. pc = "poll" /\ NoWrite /\ ~reading' /\ UNCHANGED <<boot, ct_low, ct_high>>
  BY DEF PollStatus
<1>2. pc' = IF done_reg THEN "ct_low" ELSE "poll"
  BY DoneBit DEF PollStatus
<1>3. SystemTypes' /\ Proceeds
  BY <1>1, <1>2 DEF SystemInv, SystemTypes, Proceeds, Loading, Loads
<1>4. ResultsRead'
  BY <1>1, <1>2, <1>3, ProceedsInv DEF ResultsRead, VerdictIsRight, Verdicts, Loading
<1> QED
  BY <1>3, <1>4, ProceedsInv DEF SystemInv

LEMMA ReadLowInv ==
  ASSUME SystemInv, ReadLow, UNCHANGED program
  PROVE  SystemInv'
<1>1. /\ pc = "ct_low" /\ pc' = "ct_high" /\ NoWrite /\ ~reading'
      /\ ct_low' = Readdata(5) /\ UNCHANGED <<boot, ct_high>>
  BY DEF ReadLow
<1>2. SystemTypes' /\ Proceeds
  BY <1>1 DEF SystemInv, SystemTypes, Proceeds, Loading, Loads
<1>3. done_reg /\ ct_low' = Low(OwnResult)
  BY <1>1, ReadsOwn DEF SystemInv, ResultsRead, Loading
<1>4. OwnResult' = OwnResult
  BY DEF OwnResult
<1>5. ResultsRead'
  BY <1>1, <1>2, <1>3, <1>4, ProceedsInv DEF ResultsRead, VerdictIsRight, Verdicts, Loading
<1> QED
  BY <1>2, <1>5, ProceedsInv DEF SystemInv

LEMMA ReadHighInv ==
  ASSUME SystemInv, ReadHigh, UNCHANGED program
  PROVE  SystemInv'
<1>1. /\ pc = "ct_high" /\ pc' = "verify" /\ NoWrite /\ ~reading'
      /\ ct_high' = Readdata(6) /\ UNCHANGED <<boot, ct_low>>
  BY DEF ReadHigh
<1>2. SystemTypes' /\ Proceeds
  BY <1>1 DEF SystemInv, SystemTypes, Proceeds, Loading, Loads
<1>3. done_reg /\ ct_high' = High(OwnResult) /\ ct_low = Low(OwnResult)
  BY <1>1, ReadsOwn DEF SystemInv, ResultsRead, Loading
<1>4. OwnResult' = OwnResult
  BY DEF OwnResult
<1>5. ResultsRead'
  BY <1>1, <1>2, <1>3, <1>4, ProceedsInv DEF ResultsRead, VerdictIsRight, Verdicts, Loading
<1> QED
  BY <1>2, <1>5, ProceedsInv DEF SystemInv

LEMMA VerifyInv ==
  ASSUME SystemInv, Verify, UNCHANGED program
  PROVE  SystemInv'
<1>1. pc = "verify" /\ NoWrite /\ UNCHANGED <<boot, reading, ct_low, ct_high>>
  BY DEF Verify
<1>2. done_reg /\ ct_high = High(OwnResult) /\ ct_low = Low(OwnResult)
  BY <1>1 DEF SystemInv, ResultsRead, Loading
<1>3. pc' = IF program.expected = OwnResult THEN "passed" ELSE "failed"
  <2>1. program.expected = OwnResult <=>
          High(program.expected) = High(OwnResult) /\ Low(program.expected) = Low(OwnResult)
    BY SameHalves, OwnResultType, ProgramTypes DEF SystemInv
  <2> QED
    BY <1>2, <2>1 DEF Verify
<1>4. SystemTypes' /\ Proceeds
  BY <1>1, <1>3 DEF SystemInv, SystemTypes, Proceeds, Loading, Loads, Verdicts
<1>5. ResultsRead'
  <2>1. VerdictIsRight'
    BY <1>3 DEF VerdictIsRight, OwnResult
  <2>2. pc' \notin {"ct_high", "verify"} /\ done_reg'
    BY <1>2, <1>3, <1>4, ProceedsInv
  <2> QED
    BY <2>1, <2>2 DEF ResultsRead
<1> QED
  BY <1>4, <1>5, ProceedsInv DEF SystemInv

-----------------------------------------------------------------------------
(* The stores. *)

LEMMA StoresFacts ==
  /\ DOMAIN Stores = Loading
  /\ \A p \in Loading : Stores[p].address \in 0..4 /\ Stores[p].data \in Word(32)
<1>1. DOMAIN Stores = Loading
  BY DEF Stores, Loading
<1>2. {0} \in Word(32)
  BY DEF Word
<1> QED
  BY <1>1, <1>2, HalfTypes DEF Stores, Loading

\* What the next access of main finds after a store of an operand.
LEMMA OperandStored ==
  ASSUME SystemInv, Store, pc # "start"
  PROVE  OperandsLoaded' \/ program' # program
<1> SUFFICES ASSUME program' = program PROVE OperandsLoaded'
  OBVIOUS
<1>0. pc \in Loading /\ WriteRegs(Stores[pc].address, Stores[pc].data) /\ pc' = Stores[pc].next
  BY StoresFacts DEF Store, Write
<1>t. program.pt \in Word(64) /\ program.key \in Word(64)
  BY ProgramTypes DEF SystemInv
<1>l. OperandsLoaded
  BY DEF SystemInv
<1>1. CASE pc = "pt_low"
  <2>1. pc' = "pt_high" /\ WriteOperand(1, Low(program.pt))
    BY <1>0, <1>1 DEF Stores, WriteRegs
  <2>2. Low(plaintext_reg') = Low(program.pt)
    BY <2>1, HalfTypes, LowWritten DEF WriteOperand
  <2> QED
    BY <2>1, <2>2 DEF OperandsLoaded
<1>2. CASE pc = "pt_high"
  <2>1. pc' = "key_low" /\ WriteOperand(2, High(program.pt))
    BY <1>0, <1>2 DEF Stores, WriteRegs
  <2>2. plaintext_reg' = program.pt
    BY <1>2, <1>t, <1>l, <2>1, HighWritten DEF WriteOperand, OperandsLoaded
  <2> QED
    BY <2>1, <2>2 DEF OperandsLoaded
<1>3. CASE pc = "key_low"
  <2>1. pc' = "key_high" /\ WriteOperand(3, Low(program.key))
    BY <1>0, <1>3 DEF Stores, WriteRegs
  <2>2. Low(key_reg') = Low(program.key)
    BY <2>1, HalfTypes, LowWritten DEF WriteOperand
  <2>3. plaintext_reg' = program.pt
    BY <1>3, <1>l, <2>1 DEF WriteOperand, OperandsLoaded
  <2> QED
    BY <2>1, <2>2, <2>3 DEF OperandsLoaded
<1>4. CASE pc = "key_high"
  <2>1. pc' = "start" /\ WriteOperand(4, High(program.key))
    BY <1>0, <1>4 DEF Stores, WriteRegs
  <2>2. key_reg' = program.key
    BY <1>4, <1>t, <1>l, <2>1, HighWritten DEF WriteOperand, OperandsLoaded
  <2>3. plaintext_reg' = program.pt
    BY <1>4, <1>l, <2>1 DEF WriteOperand, OperandsLoaded
  <2> QED
    BY <2>1, <2>2, <2>3 DEF OperandsLoaded
<1> QED
  BY <1>0, <1>1, <1>2, <1>3, <1>4 DEF Loading

LEMMA StoreInv ==
  ASSUME SystemInv, Store, UNCHANGED program
  PROVE  SystemInv'
<1>0. /\ boot = 0 /\ pc \in Loading /\ pc' = Stores[pc].next
      /\ Write(Stores[pc].address, Stores[pc].data)
      /\ UNCHANGED <<boot, reading, ct_low, ct_high>>
  BY StoresFacts DEF Store
<1>1. WrapperInv'
  BY <1>0, StoresFacts, WriteInv DEF SystemInv
<1>2. ~reading /\ boot \in 0 .. BootCycles
  BY <1>0 DEF SystemInv, SystemTypes, Loading, Loads
<1>3. ~start_reg /\ \A i \in Stages : Valid_reg[i] => i >= BootCycles + StoresDone[pc]
  BY <1>0, BootAssumption DEF SystemInv, OldBlocksLeave
<1>4. CASE pc # "start"
  <2>1. pc' \in Loading /\ StoresDone[pc'] = StoresDone[pc] + 1 /\ StoresDone[pc] \in Nat
    BY <1>0, <1>4 DEF Stores, Loading, StoresDone
  <2>2. SystemTypes'
    BY <1>0, <1>2, <2>1 DEF SystemInv, SystemTypes
  <2>3. OperandsLoaded'
    BY <1>4, OperandStored
  <2>4. des_inst /\ ~start_reg'
    <3>1. WriteRegs(Stores[pc].address, Stores[pc].data) /\ Stores[pc].address # 0
      BY <1>0, <1>4 DEF Write, Stores, Loading
    <3> QED
      BY <1>0, <1>3, <3>1 DEF Write, WriteRegs, WriteOperand
  <2>5. ASSUME NEW i \in Stages, Valid_reg'[i]
        PROVE  i >= BootCycles - boot' + StoresDone[pc']
    <3>1. i # 0 /\ i-1 \in Stages /\ Valid_reg[i-1]
      BY <1>3, <2>4, <2>5, ValidMovesOn
    <3>2. i-1 >= BootCycles + StoresDone[pc] /\ i \in Nat
      BY <1>3, <3>1, StagesFacts
    <3> QED
      BY <1>0, <2>1, <3>2, BootAssumption
  <2>6. OldBlocksLeave'
    BY <2>1, <2>4, <2>5 DEF OldBlocksLeave
  <2>7. ResultsRead'
    BY <2>1 DEF ResultsRead, VerdictIsRight, Loading, Verdicts
  <2> QED
    BY <1>1, <2>2, <2>3, <2>6, <2>7 DEF SystemInv
<1>5. CASE pc = "start"
  <2>1. pc' = "poll" /\ Write(0, {0})
    BY <1>0, <1>5 DEF Stores
  <2>2. SystemTypes'
    BY <1>0, <1>2, <2>1 DEF SystemInv, SystemTypes, Loads
  <2>3. \A i \in Stages : Valid_reg[i] => i = Rounds
    <3>1. StoresDone[pc] = 4
      BY <1>5 DEF StoresDone
    <3> QED
      BY <1>3, <3>1, BootAssumption, RoundsAssumption DEF Stages
  <2>4. RunInv' /\ UNCHANGED <<plaintext_reg, key_reg>>
    BY <1>3, <2>1, <2>3, RunStarts
  <2>5. OperandsLoaded'
    BY <1>5, <2>4 DEF SystemInv, OperandsLoaded
  <2>6. OldBlocksLeave' /\ ResultsRead'
    BY <2>1, <2>4 DEF OldBlocksLeave, ResultsRead, VerdictIsRight, Loading, Verdicts
  <2> QED
    BY <1>1, <2>2, <2>5, <2>6 DEF SystemInv
<1> QED
  BY <1>4, <1>5

-----------------------------------------------------------------------------
(* The start and the resets. *)

LEMMA RestartTypes ==
  ASSUME Restart, program' \in Programs
  PROVE  /\ SystemTypes' /\ OperandsLoaded' /\ ResultsRead' /\ pc' \in Loading
         /\ BootCycles - boot' + StoresDone[pc'] = 0
<1>1. pc' = "pt_low" /\ boot' = BootCycles /\ reading' = FALSE
  BY DEF Restart
<1>2. BootCycles \in Nat /\ StoresDone["pt_low"] = 0
  BY BootAssumption DEF StoresDone
<1> QED
  BY <1>1, <1>2
     DEF SystemTypes, OperandsLoaded, ResultsRead, VerdictIsRight, Loading, Verdicts

LEMMA BoardResetInv ==
  ASSUME SystemInv, BoardReset
  PROVE  SystemInv'
<1>1. Restart /\ Reset /\ program' \in Programs
  BY DEF BoardReset, SystemInv, SystemTypes
<1>2. ~start_reg' /\ \A i \in Stages : ~Valid_reg'[i]
  BY <1>1 DEF Reset, CoreReset, AllStages
<1>3. OldBlocksLeave'
  BY <1>1, <1>2, RestartTypes DEF OldBlocksLeave
<1> QED
  BY <1>1, <1>3, RestartTypes, ResetWrapperInv DEF SystemInv

LEMMA DebugResetInv ==
  ASSUME SystemInv, DebugReset
  PROVE  SystemInv'
<1>1. Restart /\ NoWrite /\ program' \in Programs
  BY DEF DebugReset
<1>2. ~start_reg'
  BY <1>1 DEF NoWrite, NoWriteRegs
<1>3. OldBlocksLeave'
  <2>1. \A i \in Stages : i >= 0
    BY StagesFacts
  <2> QED
    BY <1>1, <1>2, <2>1, RestartTypes DEF OldBlocksLeave
<1> QED
  BY <1>1, <1>3, RestartTypes, NoWriteInv DEF SystemInv

LEMMA InitSystemInv == SysInit => SystemInv
<1> SUFFICES ASSUME SysInit PROVE SystemInv
  OBVIOUS
<1>1. pc = "pt_low" /\ boot = BootCycles /\ reading = FALSE /\ program \in Programs
  BY DEF SysInit
<1>2. BootCycles \in Nat
  BY BootAssumption
<1>3. SystemTypes /\ OperandsLoaded /\ ResultsRead
  BY <1>1, <1>2
     DEF SystemTypes, OperandsLoaded, ResultsRead, VerdictIsRight, Loading, Verdicts
<1>4. ~start_reg /\ \A i \in Stages : ~Valid_reg[i]
  BY DEF SysInit, Init, CoreInit, AllStages
<1>5. OldBlocksLeave
  BY <1>1, <1>4 DEF OldBlocksLeave, Loading
<1> QED
  BY <1>3, <1>5, InitWrapperInv DEF SysInit, SystemInv

LEMMA StutterSystemInv == SystemInv /\ UNCHANGED sysvars => SystemInv'
<1> SUFFICES ASSUME SystemInv, UNCHANGED sysvars PROVE SystemInv'
  OBVIOUS
<1>1. UNCHANGED vars /\ UNCHANGED cpu /\ UNCHANGED program
  BY DEF sysvars
<1>2. WrapperInv'
  BY <1>1, StutterWrapperInv DEF SystemInv
<1>3. UNCHANGED regs /\ UNCHANGED quiet /\ UNCHANGED Valid_reg
  BY <1>1 DEF vars, core
<1> QED
  BY <1>1, <1>2, <1>3
     DEF SystemInv, cpu, regs, SystemTypes, OldBlocksLeave, RunInv, Empty,
         OperandsLoaded, ResultsRead, VerdictIsRight, OwnResult

LEMMA SystemStep == SystemInv /\ [SysNext]_sysvars => SystemInv'
<1> SUFFICES ASSUME SystemInv, [SysNext]_sysvars PROVE SystemInv'
  OBVIOUS
<1>1. CASE CpuStep
  BY <1>1, BootInv, StoreInv, WaitInv, PollInv, ReadLowInv, ReadHighInv, VerifyInv DEF CpuStep
<1>2. CASE Elsewhere
  <2>1. UNCHANGED program
    BY <1>2 DEF Elsewhere
  <2> QED
    BY <1>2, <2>1, WaitInv
<1>3. CASE BoardReset
  BY <1>3, BoardResetInv
<1>4. CASE DebugReset
  BY <1>4, DebugResetInv
<1>5. CASE UNCHANGED sysvars
  BY <1>5, StutterSystemInv
<1> QED
  BY <1>1, <1>2, <1>3, <1>4, <1>5 DEF SysNext

LEMMA SystemInvariant == SysSpec => []SystemInv
BY InitSystemInv, SystemStep, PTL DEF SysSpec

-----------------------------------------------------------------------------
\* main prints PASSED or FAILED as its own constants deserve, whatever was in
\* the accelerator when it was started.
THEOREM VerdictCorrect == SysSpec => []VerdictIsRight
<1>1. SystemInv => VerdictIsRight
  BY DEF SystemInv, ResultsRead
<1> QED
  BY <1>1, SystemInvariant, PTL

\* Every program expects the right ciphertext.
ProgramsRight == \A p \in Programs : p.expected = Encrypt(p.pt, p.key, Rounds)

\* If so, none prints FAILED, whatever an interrupted one left behind.
THEOREM PassCorrect ==
  ASSUME ProgramsRight
  PROVE  SysSpec => []NeverFails
<1>1. SystemInv => NeverFails
  BY DEF SystemInv, SystemTypes, ResultsRead, VerdictIsRight, ProgramsRight, NeverFails,
         Verdicts
<1> QED
  BY <1>1, SystemInvariant, PTL

\* When main has seen Done the pipeline is empty of other work and every stage
\* holds its operands, so that the two reads of the result are of one block.
THEOREM OwnCorrect == SysSpec => []ResultIsOwn
<1>1. ASSUME SystemInv, pc \in {"ct_low", "ct_high"}, NEW i \in Stages
      PROVE  ~Valid_reg[i] /\ block[i] = {[pt |-> program.pt, key |-> program.key]}
  <2>1. pc \notin Loading /\ done_reg
    BY <1>1 DEF SystemInv, ResultsRead, Loading
  <2>2. Empty /\ quiet = Rounds+1
    BY <1>1, <2>1 DEF SystemInv, OldBlocksLeave, RunInv
  <2>3. plaintext_reg = program.pt /\ key_reg = program.key
    BY <1>1, <2>1 DEF SystemInv, OperandsLoaded, Loading
  <2>4. i < Rounds+1
    BY RoundsAssumption DEF Stages
  <2>5. block[i] = {Operation}
    BY <1>1, <2>2, <2>4 DEF SystemInv, WrapperInv, QuietStages
  <2> QED
    BY <2>2, <2>3, <2>5 DEF Empty, Operation
<1>2. SystemInv => ResultIsOwn
  BY <1>1 DEF ResultIsOwn
<1> QED
  BY <1>2, SystemInvariant, PTL

=============================================================================
