------------------------- MODULE DES_AVALON_WRAPPER -------------------------
(***************************************************************************)
(* DES_AVALON_WRAPPER.v: the Avalon-MM register file around the core.  One *)
(* clock edge is one step of the registers and of the core together; the   *)
(* bus performs at most one write in it, at any address, and reads         *)
(* (Readdata) change nothing.  The master is arbitrary.                    *)
(***************************************************************************)
EXTENDS DES_ALGORITHM

CONSTANT WriteData    \* the 32-bit words the master may write

ASSUME WriteDataAssumption == WriteData \subseteq Word(32)

VARIABLES
  plaintext_reg, key_reg, start_reg, done_reg,
  quiet        \* history: edges since an operand register was last written,
               \* up to Rounds+1

regs == <<plaintext_reg, key_reg, start_reg, done_reg>>
vars == <<regs, core, quiet>>

\* The registers keep the widths they are declared with, after writes of halves.
TypeOK ==
  /\ plaintext_reg \in Word(64) /\ key_reg \in Word(64)
  /\ start_reg \in BOOLEAN /\ done_reg \in BOOLEAN
  /\ quiet \in 0 .. Rounds+1
  /\ CoreTypeOK

Init ==
  /\ plaintext_reg = {} /\ key_reg = {}
  /\ start_reg = FALSE /\ done_reg = FALSE
  /\ quiet = 0
  /\ CoreInit

-----------------------------------------------------------------------------
\* reg[31:0] <= d and reg[63:32] <= d.
WithLow(reg, d)  == (reg \ (0..31)) \cup d
WithHigh(reg, d) == Join(d, reg \cap (0..31), 32)

\* Slip: Done stays up when a new operation is started.
WriteControl_KeepsDone(d) ==
  /\ start_reg' = (0 \in d)
  /\ UNCHANGED <<done_reg, plaintext_reg, key_reg>>

\* The cases of a write, by address.
WriteControl(d) ==
  /\ start_reg' = (0 \in d)
  /\ done_reg' = (done_reg /\ 0 \notin d)
  /\ UNCHANGED <<plaintext_reg, key_reg>>

WriteOperand(address, d) ==
  /\ plaintext_reg' = CASE address = 1 -> WithLow(plaintext_reg, d)
                        [] address = 2 -> WithHigh(plaintext_reg, d)
                        [] OTHER       -> plaintext_reg
  /\ key_reg' = CASE address = 3 -> WithLow(key_reg, d)
                  [] address = 4 -> WithHigh(key_reg, d)
                  [] OTHER       -> key_reg
  /\ UNCHANGED <<start_reg, done_reg>>

WriteRegs(address, d) ==
  \/ address = 0 /\ WriteControl(d)
  \/ address # 0 /\ WriteOperand(address, d)

\* Slips: Start is not cleared; Done is passed on, not caught.
NoWriteRegs_StartStays ==
  /\ done_reg' = (done_reg \/ Done)
  /\ UNCHANGED <<start_reg, plaintext_reg, key_reg>>
NoWriteRegs_DonePulse ==
  /\ start_reg' = FALSE
  /\ done_reg' = Done
  /\ UNCHANGED <<plaintext_reg, key_reg>>

\* A cycle without a write: Start falls and the pulse of the core is caught.
NoWriteRegs ==
  /\ start_reg' = FALSE
  /\ done_reg' = (done_reg \/ Done)
  /\ UNCHANGED <<plaintext_reg, key_reg>>

\* Slip: the operand ports exchanged.
des_inst_PortsSwapped ==
  Posedge([Start |-> start_reg, Plaintext |-> key_reg, Key_in |-> plaintext_reg])

\* The core at the same edge; it sees the registers as they were.
des_inst ==
  Posedge([Start |-> start_reg, Plaintext |-> plaintext_reg, Key_in |-> key_reg])

LongerQuiet == IF quiet <= Rounds THEN quiet + 1 ELSE quiet

Write(address, d) ==
  /\ WriteRegs(address, d)
  /\ des_inst
  /\ quiet' = IF address \in 1..4 THEN 0 ELSE LongerQuiet

NoWrite ==
  /\ NoWriteRegs
  /\ des_inst
  /\ quiet' = LongerQuiet

Reset ==
  /\ plaintext_reg' = {} /\ key_reg' = {}
  /\ start_reg' = FALSE /\ done_reg' = FALSE
  /\ quiet' = 0
  /\ CoreReset

Next ==
  \/ Reset
  \/ NoWrite
  \/ \E address \in 0..7, d \in WriteData : Write(address, d)

Spec == Init /\ [][Next]_vars

\* Slip: the halves of the ciphertext exchanged.
Readdata_HalvesSwapped(address) ==
  CASE address = 0 -> (IF start_reg THEN {0} ELSE {}) \cup (IF done_reg THEN {1} ELSE {})
    [] address = 6 -> Ciphertext \cap (0..31)
    [] address = 5 -> {b \in 0..31 : b + 32 \in Ciphertext}
    [] OTHER       -> {}

\* The read multiplexer: status and the two halves of the ciphertext.
Readdata(address) ==
  CASE address = 0 -> (IF start_reg THEN {0} ELSE {}) \cup (IF done_reg THEN {1} ELSE {})
    [] address = 5 -> Ciphertext \cap (0..31)
    [] address = 6 -> {b \in 0..31 : b + 32 \in Ciphertext}
    [] OTHER       -> {}
-----------------------------------------------------------------------------
\* Once the operand registers have been left alone for the length of the
\* pipeline the output is their encryption, whatever else the master does: the
\* ciphertext is not latched, it follows the operands Rounds+1 edges later.
QuietOperandsGiveResult ==
  quiet = Rounds+1 => Ciphertext = Encrypt(plaintext_reg, key_reg, Rounds)

=============================================================================
