------------------------------ MODULE HAL_MULDIV ------------------------------
(***************************************************************************)
(* The emulation of multiplications and divisions, on words of W bits: the *)
(* loops over the bits, and the registers on the stack from which operands *)
(* are taken and into which the result goes (alt_exception_muldiv.S).      *)
(***************************************************************************)
EXTENDS Integers

CONSTANTS
  W,             \* the width of a word; 32 in the processor
  Frame,         \* how much lower the stack pointer is than in the program; 136 bytes
  Immediates,    \* the sign-extended IMM16 fields
  Sources, Destinations  \* the registers that instructions name

Pow2[n \in 0..W] == IF n = 0 THEN 1 ELSE 2 * Pow2[n - 1]
Word == 0..Pow2[W] - 1
\* One register of each kind: r2 is saved by the entry, r16 and fp by the emulation.
CallerSaved == {"r2", "ra"}
Restored == {"r16", "fp"}
Register == {"r0", "gp", "sp"} \cup CallerSaved \cup Restored
WidthAssumption == W \in Nat \ {0} /\ Frame \in Word /\ Immediates \subseteq Word
RegisterAssumption == Sources \subseteq Register /\ Destinations \subseteq Register

MulOps == {"mul", "mulxuu", "mulxsu", "mulxss"}
DivOps == {"div", "divu"}

VARIABLES
  reg,          \* the registers, as the program sees them
  instruction   \* the last instruction and its operands
vars == <<reg, instruction>>

None == [op |-> "none", A |-> "r0", B |-> "r0", C |-> "r0", IMM |-> 0]
Init == reg = [r \in Register |-> 0] /\ instruction = None

Wrap(n) == n % Pow2[W]
Negative(x) == x >= Pow2[W - 1]   \* the most significant bit
Msb(x) == x \div Pow2[W - 1]
Abs(x) == IF Negative(x) THEN Wrap(-x) ELSE x

-----------------------------------------------------------------------------
Fits(remainder, divisor) == remainder >= divisor

\* .Ldivide_loop: r3 holds what is left of the dividend, and the quotient.
DivideTurn(old, divisor) ==
  LET remainder == Wrap(2 * old.r13 + Msb(old.r3))
      shifted == Wrap(2 * old.r3)
  IN  IF Fits(remainder, divisor)
      THEN [r13 |-> remainder - divisor, r3 |-> shifted + 1]
      ELSE [r13 |-> remainder, r3 |-> shifted]
DivideLoop(dividend, divisor) ==
  LET Loop[n \in 0..W] == IF n = 0 THEN [r13 |-> 0, r3 |-> dividend]
                          ELSE DivideTurn(Loop[n - 1], divisor)
  IN  Loop
Quotient(dividend, divisor) == DivideLoop(dividend, divisor)[W].r3

Divided(op, a, b) ==
  IF op = "divu" THEN Quotient(a, b)
  ELSE LET q == Quotient(Abs(a), Abs(b))
       IN  IF Negative(a) # Negative(b) THEN Wrap(-q) ELSE q

\* .Lmultiply_loop: the lower half of the product in r9, the upper half in r10.
MultiplyTurn(old, multiplicand) ==
  LET added == old.r10 + (old.r12 % 2) * multiplicand  \* with the saved carry
  IN  [r9 |-> Wrap(2 * old.r9 + Msb(old.r6) * multiplicand),
       r10 |-> added \div 2,
       r6 |-> Wrap(2 * old.r6),
       r12 |-> old.r12 \div 2]
MultiplyLoop(multiplicand, multiplier) ==
  LET Loop[n \in 0..W] ==
        IF n = 0 THEN [r9 |-> 0, r10 |-> 0, r6 |-> multiplier, r12 |-> multiplier]
        ELSE MultiplyTurn(Loop[n - 1], multiplicand)
  IN  Loop
Product(multiplicand, multiplier) == MultiplyLoop(multiplicand, multiplier)[W]

\* Slip: the operands of the correction are exchanged.
Upper_Exchanged(op, a, b) ==
  Wrap(Product(a, b).r10
       - (IF op # "mulxuu" /\ Negative(b) THEN b ELSE 0)
       - (IF op = "mulxss" /\ Negative(a) THEN a ELSE 0))
Upper(op, a, b) ==
  Wrap(Product(a, b).r10
       - (IF op # "mulxuu" /\ Negative(a) THEN b ELSE 0)
       - (IF op = "mulxss" /\ Negative(b) THEN a ELSE 0))

Result(op, a, b) ==
  IF op \in DivOps THEN Divided(op, a, b)
  ELSE IF op = "mul" THEN Product(a, b).r9 ELSE Upper(op, a, b)

-----------------------------------------------------------------------------
\* What the handler has put on the stack, with its own stack pointer.
OnStack == [reg EXCEPT !["r0"] = 0, !["sp"] = Wrap(@ - Frame)]

\* The registers that are loaded from the stack again, those of the entry included.
Reloaded == CallerSaved \cup Restored

Store(dest, r9) == [r \in Register |-> IF r \in Reloaded /\ r = dest THEN r9 ELSE reg[r]]

\* A muli takes its second operand from the instruction, and its destination from B.
Muli ==
  \E A \in Sources, B \in Destinations, IMM \in Immediates :
    /\ reg' = Store(B, Result("mul", OnStack[A], IMM))
    /\ instruction' = [op |-> "muli", A |-> A, B |-> B, C |-> B, IMM |-> IMM]
RType ==
  \E op \in MulOps \cup DivOps, A \in Sources, B \in Sources, C \in Destinations :
    /\ reg' = Store(C, Result(op, OnStack[A], OnStack[B]))
    /\ instruction' = [op |-> op, A |-> A, B |-> B, C |-> C, IMM |-> 0]

\* The program loads a register that it is going to name.
Load ==
  \E r \in Sources \ {"r0"}, x \in Word :
    reg' = [reg EXCEPT ![r] = x] /\ instruction' = None

Next == Muli \/ RType \/ Load
Spec == Init /\ [][Next]_vars

-----------------------------------------------------------------------------
Signed(x) == IF Negative(x) THEN x - Pow2[W] ELSE x
\* The quotient of integers, rounded to zero.
Truncated(a, b) ==
  LET q == (IF a < 0 THEN -a ELSE a) \div (IF b < 0 THEN -b ELSE b)
  IN  IF (a < 0) # (b < 0) THEN -q ELSE q

\* The values that the instruction set allows; a division by zero has no defined one.
Defined(op, a, b) ==
  CASE op \in {"mul", "muli"} -> {Wrap(a * b)}
    [] op = "mulxuu" -> {(a * b) \div Pow2[W]}
    [] op = "mulxsu" -> {Wrap((Signed(a) * b) \div Pow2[W])}
    [] op = "mulxss" -> {Wrap((Signed(a) * Signed(b)) \div Pow2[W])}
    [] op = "divu" -> IF b = 0 THEN Word ELSE {a \div b}
    [] op = "div" -> IF b = 0 THEN Word ELSE {Wrap(Truncated(Signed(a), Signed(b)))}

\* alt_exception_muldiv.S:60: "The emulations match the instructions": the
\* destination has the result of the instruction on the operands of the program,
\* r0 stays zero and no other register changes.
MatchesInstruction ==
  [][instruction'.op # "none" =>
       LET i == instruction'
           b == IF i.op = "muli" THEN i.IMM ELSE reg[i.B]
       IN  \E x \in Defined(i.op, reg[i.A], b) :
             reg' = [r \in Register |-> IF r = i.C /\ r # "r0" THEN x ELSE reg[r]]]_vars
=============================================================================
