-------------------------- MODULE DES_CONTROL_proofs --------------------------
(***************************************************************************)
(* The controller rotates every key half as the standard says.  The type   *)
(* invariant and the schedule together are inductive: the counter is the   *)
(* round, and its wrap happens on the edge into S_DONE.                    *)
(***************************************************************************)
EXTENDS DES_CONTROL, DES_STANDARD_proofs

Inv == TypeOK /\ ScheduleFollowed

\* The rotation of one round, in the closed form of the schedule.
LEMMA RoundShift ==
  ASSUME NEW i \in 0..15
  PROVE  /\ ShiftUpTo(i) \in 0..27
         /\ i \in {0, 1, 8, 15} => ShiftUpTo(i + 1) = ShiftUpTo(i) + 1
         /\ i \notin {0, 1, 8, 15} => ShiftUpTo(i + 1) = ShiftUpTo(i) + 2 /\ ShiftUpTo(i) # 27
BY DEF ShiftUpTo, TotalShift

LEMMA RotateZero ==
  ASSUME NEW h \in SUBSET (0..27)
  PROVE  RotateLeft(h, ShiftUpTo(0)) = h
<1>1. h \in Word(28)
  BY DEF Word
<1> QED
  BY <1>1, RotateNothing DEF ShiftUpTo

LEMMA InitInv == Init => Inv
<1> SUFFICES ASSUME Init PROVE Inv
  OBVIOUS
<1>1. TypeOK
  BY DEF Init, TypeOK
<1>2. Round = 0
  BY DEF Init, Round, Done
<1> QED
  BY <1>1, <1>2, RotateZero DEF Inv, ScheduleFollowed, Init, TypeOK

LEMMA ResetInv == Reset => Inv'
<1> SUFFICES ASSUME Reset PROVE Inv'
  OBVIOUS
<1>1. TypeOK'
  BY DEF Reset, TypeOK
<1>2. Round' = 0
  BY DEF Reset, Round, Done
<1> QED
  BY <1>1, <1>2, RotateZero DEF Inv, ScheduleFollowed, Reset, TypeOK

\* A round, of which the last is the one that wraps the counter.
LEMMA ProcessInv ==
  ASSUME Inv, Posedge, Pre_state = "S_PROCESS"
  PROVE  Inv' /\ Round' = Round + 1
<1> USE DEF Inv
<1>1. Counter \in 0..15 /\ Round = Counter
  BY DEF TypeOK, Round, Done
<1>2. /\ Counter' = (Counter + 1) % 16 /\ loaded' = loaded
      /\ Pre_state' = (IF Counter = 15 THEN "S_DONE" ELSE "S_PROCESS")
      /\ C_half' = (IF Counter \in {0, 1, 8, 15} THEN SHIFT_LEFT_1(C_half) ELSE SHIFT_LEFT_2(C_half))
  BY DEF Posedge, Next_state, NextCounter, Mux_sel, Shift_sel
<1>3. Round' = Round + 1
  BY <1>1, <1>2 DEF Round, Done
<1>4. C_half' = RotateLeft(loaded, ShiftUpTo(Counter + 1))
  <2>1. C_half = RotateLeft(loaded, ShiftUpTo(Counter))
    BY <1>1 DEF ScheduleFollowed
  <2>2. CASE Counter \in {0, 1, 8, 15}
    BY <1>1, <1>2, <2>1, <2>2, RoundShift, RotateFurther
  <2>3. CASE Counter \notin {0, 1, 8, 15}
    BY <1>1, <1>2, <2>1, <2>3, RoundShift, RotateFurther
  <2> QED
    BY <2>2, <2>3
<1>5. ScheduleFollowed'
  BY <1>1, <1>2, <1>3, <1>4 DEF ScheduleFollowed
<1>6. C_half' \in SUBSET (0..27)
  BY <1>2, ShiftType DEF Word
<1>7. TypeOK'
  BY <1>1, <1>2, <1>6 DEF TypeOK
<1> QED
  BY <1>3, <1>5, <1>7

\* Outside of an operation a new half is loaded.
LEMMA LoadInv ==
  ASSUME Inv, Posedge, Pre_state # "S_PROCESS"
  PROVE  Inv' /\ Round' = 0
<1> USE DEF Inv
<1>1. Pre_state \in {"S_IDLE", "S_DONE"} /\ Counter \in 0..15
  BY DEF TypeOK
<1>2. /\ Pre_state' \in {"S_IDLE", "S_PROCESS"} /\ Counter' \in 0..15
      /\ Pre_state' = "S_PROCESS" => Counter' = 0
      /\ C_half' \in KeyHalves /\ loaded' = C_half'
  BY <1>1 DEF Posedge, Next_state, NextCounter, Mux_sel
<1>3. C_half' \in SUBSET (0..27)
  BY <1>2, HalvesAssumption DEF Word
<1>4. Round' = 0
  BY <1>2 DEF Round, Done
<1>5. TypeOK'
  BY <1>2, <1>3 DEF TypeOK
<1>6. ScheduleFollowed'
  BY <1>2, <1>3, <1>4, RotateZero DEF ScheduleFollowed
<1> QED
  BY <1>4, <1>5, <1>6

LEMMA StepInv == Inv /\ [Next]_vars => Inv'
<1> SUFFICES ASSUME Inv, [Next]_vars PROVE Inv'
  OBVIOUS
<1>1. CASE Posedge
  BY <1>1, ProcessInv, LoadInv
<1>2. CASE Reset
  BY <1>2, ResetInv
<1>3. CASE UNCHANGED vars
  BY <1>3 DEF Inv, TypeOK, ScheduleFollowed, Round, Done, vars
<1> QED
  BY <1>1, <1>2, <1>3 DEF Next

LEMMA Invariance == Spec => []Inv
<1> QED
  BY InitInv, StepInv, PTL DEF Spec

\* The state and the 4-bit counter keep their types.
THEOREM ControlTypeCorrect == Spec => []TypeOK
<1>1. Inv => TypeOK
  BY DEF Inv
<1> QED
  BY <1>1, Invariance, PTL

\* The key half is rotated as the standard says at every round, whatever PC_1
\* delivers and whenever Start and resets come.
THEOREM ScheduleCorrect == Spec => []ScheduleFollowed
<1>1. Inv => ScheduleFollowed
  BY DEF Inv
<1> QED
  BY <1>1, Invariance, PTL

\* Operations run through sixteen rounds although the counter has only four bits.
THEOREM RoundsCorrect == Spec => SixteenRounds
<1>1. Inv /\ [Next]_vars
      => [~Reset => Round' = (IF Pre_state = "S_PROCESS" THEN Round + 1 ELSE 0)]_vars
  <2> SUFFICES ASSUME Inv, Next, ~Reset
               PROVE  Round' = (IF Pre_state = "S_PROCESS" THEN Round + 1 ELSE 0)
    OBVIOUS
  <2>1. Posedge
    BY DEF Next
  <2> QED
    BY <2>1, ProcessInv, LoadInv
<1> QED
  BY <1>1, Invariance, PTL DEF Spec, SixteenRounds
=============================================================================
