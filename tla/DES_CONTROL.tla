----------------------------- MODULE DES_CONTROL -----------------------------
(***************************************************************************)
(* DES_CONTROL.v: the controller of an iterative core, one round a cycle,  *)
(* with one half of the key register that its outputs are meant for: load  *)
(* or feed back (Mux_sel), rotate by one or by two (Shift_sel).            *)
(***************************************************************************)
EXTENDS DES_STANDARD

CONSTANT KeyHalves   \* what PC_1 may deliver
ASSUME HalvesAssumption == KeyHalves # {} /\ KeyHalves \subseteq Word(28)

VARIABLES
  Pre_state,
  Counter,   \* 4 bits
  C_half,    \* the key half that the outputs steer
  loaded     \* history: what was loaded into it last
vars == <<Pre_state, Counter, C_half, loaded>>

\* Slip: the last round is left out.
Next_state_Early(Start) ==
  CASE Pre_state = "S_IDLE" -> IF Start THEN "S_PROCESS" ELSE "S_IDLE"
    [] Pre_state = "S_PROCESS" -> IF Counter = 14 THEN "S_DONE" ELSE "S_PROCESS"
    [] Pre_state = "S_DONE" -> "S_IDLE"
Next_state(Start) ==
  CASE Pre_state = "S_IDLE" -> IF Start THEN "S_PROCESS" ELSE "S_IDLE"
    [] Pre_state = "S_PROCESS" -> IF Counter = 15 THEN "S_DONE" ELSE "S_PROCESS"
    [] Pre_state = "S_DONE" -> "S_IDLE"

NextCounter ==
  CASE Pre_state = "S_IDLE" -> 0
    [] Pre_state = "S_PROCESS" -> (Counter + 1) % 16
    [] Pre_state = "S_DONE" -> Counter

Done == Pre_state = "S_DONE"
Mux_sel == Pre_state = "S_PROCESS"
\* Slip: the rounds are counted from one.
Shift_sel_FromOne == ~(Pre_state = "S_PROCESS" /\ Counter \in {1, 2, 9, 15})
Shift_sel == ~(Pre_state = "S_PROCESS" /\ Counter \in {0, 1, 8, 15})

Init == Pre_state = "S_IDLE" /\ Counter = 0 /\ C_half = {} /\ loaded = {}

Posedge ==
  \E Start \in BOOLEAN :
    /\ Pre_state' = Next_state(Start) /\ Counter' = NextCounter
    /\ IF Mux_sel
       THEN /\ C_half' = (IF Shift_sel THEN SHIFT_LEFT_2(C_half) ELSE SHIFT_LEFT_1(C_half))
            /\ UNCHANGED loaded
       ELSE C_half' \in KeyHalves /\ loaded' = C_half'

\* The falling edge of Reset_n.
Reset == Pre_state' = "S_IDLE" /\ Counter' = 0 /\ C_half' = {} /\ loaded' = {}

Next == Posedge \/ Reset
Spec == Init /\ [][Next]_vars

-----------------------------------------------------------------------------
TypeOK ==
  /\ Pre_state \in {"S_IDLE", "S_PROCESS", "S_DONE"} /\ Counter \in 0..15
  /\ C_half \in SUBSET (0..27) /\ loaded \in SUBSET (0..27)

\* The rounds that the current operation has behind it: the counter is back at
\* zero when the machine leaves S_PROCESS, on the edge of the sixteenth.
Round == IF Done THEN 16 ELSE IF Pre_state = "S_PROCESS" THEN Counter ELSE 0

\* At every round of every operation the key half is rotated as the standard
\* says, and at Done by all of its 28 bits.
ScheduleFollowed == C_half = RotateLeft(loaded, ShiftUpTo(Round))

\* An operation starts at round 0, goes through all sixteen one by one, and is
\* over after the last; only a reset cuts it short.
SixteenRounds ==
  [][~Reset => Round' = (IF Pre_state = "S_PROCESS" THEN Round + 1 ELSE 0)]_vars
=============================================================================
