--------------------------- MODULE HAL_EXCEPTIONS ----------------------------
(***************************************************************************)
(* What the processor executes, exceptions included: the entry code tells  *)
(* interrupts, instructions to be emulated and others apart, and returns   *)
(* to the instruction or behind it.  An interrupt is served in one step    *)
(* (HAL_INTERRUPTS).  Emulation and handlers of exceptions are options of  *)
(* the HAL that this build does without.                                   *)
(***************************************************************************)
EXTENDS Integers, Sequences

CONSTANTS
  Emulated,     \* the addresses of instructions that the processor lacks
  Odd,          \* of those that cause another exception, until a handler removes its cause
  ProgramLength, HandlerLength,  \* the program is at 1..., the handler further on
  MaxLines,     \* bound on the interrupts
  Spurious      \* may a line be negated before it is served?

Program == 1..ProgramLength
Handler == ProgramLength + 2
HandlerEnd == Handler + HandlerLength
Instructions == Program \cup (Handler..HandlerEnd - 1)

\* The handler is compiled for this processor and causes no exception itself.
ExceptionsAssumption ==
  /\ ProgramLength \in Nat /\ HandlerLength \in Nat
  /\ (Emulated \cup Odd) \cap (Handler..HandlerEnd - 1) = {}

VARIABLES
  at,           \* "run", or where the processor is in the exception code
  pc,           \* the address it is running at
  ea, pie, estatus,
  stack,        \* what the exception code has pushed: [estatus, ret]
  line,         \* ipending
  lines,        \* the interrupts so far
  alt_instruction_exception_handler,  \* is one registered?
  r2,           \* what the handler has returned
  removed,      \* the causes of exceptions that a handler has removed
  done          \* what the program has done: the addresses executed or skipped
regs == <<ea, pie, estatus>>
vars == <<at, pc, regs, stack, line, lines, alt_instruction_exception_handler, r2, removed,
          done>>

REISSUE == 0  \* NIOS2_EXCEPTION_RETURN_REISSUE_INST
SKIP == 1     \* NIOS2_EXCEPTION_RETURN_SKIP_INST

Init ==
  /\ at = "run" /\ pc = 1 /\ ea = 0 /\ pie = TRUE /\ estatus = FALSE /\ stack = <<>>
  /\ line = FALSE /\ lines = 0
  /\ alt_instruction_exception_handler = FALSE /\ r2 = SKIP /\ removed = {} /\ done = <<>>

Top == stack[Len(stack)]
WithReturn(ret) == [stack EXCEPT ![Len(stack)].ret = ret]
Goes(from, to) == at = from /\ at' = to
Noted(a) == IF a \in Program THEN Append(done, a) ELSE done

-----------------------------------------------------------------------------
\* The processor: ea is the address behind the instruction.
Exception ==
  /\ Goes("run", "entry") /\ ea' = pc + 1 /\ estatus' = pie /\ pie' = FALSE
  /\ UNCHANGED <<pc, stack, line, lines, alt_instruction_exception_handler, r2, removed, done>>
Raises == pc \in Emulated \cup (Odd \ removed)
Execute ==
  /\ at = "run" /\ pc \in Instructions /\ ~Raises /\ pc' = pc + 1 /\ done' = Noted(pc)
  /\ UNCHANGED <<at, regs, stack, line, lines, alt_instruction_exception_handler, r2, removed>>
Raise == pc \in Instructions /\ Raises /\ Exception
Interrupt == pc \in Instructions /\ pie /\ line /\ Exception

\* A device raises its line, and may negate it again.
Line ==
  /\ \/ ~line /\ lines < MaxLines /\ line' = TRUE /\ lines' = lines + 1
     \/ line /\ Spurious /\ line' = FALSE /\ UNCHANGED lines
  /\ UNCHANGED <<at, pc, regs, stack, alt_instruction_exception_handler, r2, removed, done>>

\* alt_instruction_exception_register, with a handler or with NULL.
Register ==
  /\ at = "run" /\ pc \in Program
  /\ alt_instruction_exception_handler' = ~alt_instruction_exception_handler
  /\ UNCHANGED <<at, pc, regs, stack, line, lines, r2, removed, done>>

\* alt_exception_entry: the instruction is to be issued again ...
Entry ==
  /\ Goes("entry", "irqtest") /\ stack' = Append(stack, [estatus |-> estatus, ret |-> ea - 1])
  /\ UNCHANGED <<pc, regs, line, lines, alt_instruction_exception_handler, r2, removed, done>>

IsInterrupt == Top.estatus /\ line

\* ... after an interrupt; the routine serves the line.
Irq ==
  /\ Goes("irqtest", "exit") /\ IsInterrupt /\ line' = FALSE
  /\ UNCHANGED <<pc, regs, stack, lines, alt_instruction_exception_handler, r2, removed, done>>

\* Slip: it is also issued again after an emulation.
NotIrq_Again == stack
\* Otherwise it is not.
NotIrq == WithReturn(ea)

Soft ==
  /\ Goes("irqtest", IF ea - 1 \in Emulated THEN "emulate" ELSE "unknown")
  /\ ~IsInterrupt /\ stack' = NotIrq
  /\ UNCHANGED <<pc, regs, line, lines, alt_instruction_exception_handler, r2, removed, done>>
\* The result is computed (HAL_MULDIV).
Emulate ==
  /\ Goes("emulate", "exit") /\ done' = Noted(ea - 1)
  /\ UNCHANGED <<pc, regs, stack, line, lines, alt_instruction_exception_handler, r2, removed>>

\* alt_instruction_exception_entry: without a handler the processor stops.
CallHandler ==
  /\ Goes("unknown", "run") /\ pc' = Handler /\ alt_instruction_exception_handler
  /\ UNCHANGED <<regs, stack, line, lines, alt_instruction_exception_handler, r2, removed, done>>
Break ==
  /\ Goes("unknown", "break") /\ ~alt_instruction_exception_handler
  /\ UNCHANGED <<pc, regs, stack, line, lines, alt_instruction_exception_handler, r2, removed, done>>

\* The handler removes the cause and has the instruction issued again, or skips
\* it; it knows the instruction from its argument, ea - 4 at the call.
Cause == Top.ret - 1
HandlerReturns ==
  /\ Goes("run", "returned") /\ pc = HandlerEnd
  /\ \/ r2' = REISSUE /\ removed' = removed \cup {Cause} /\ UNCHANGED done
     \/ r2' = SKIP /\ done' = Noted(Cause) /\ UNCHANGED removed
  /\ UNCHANGED <<pc, regs, stack, line, lines, alt_instruction_exception_handler>>

\* bne r2, r0: anything but 0 leaves the frame as it is.
Answer ==
  /\ Goes("returned", "exit") /\ stack' = (IF r2 # 0 THEN stack ELSE WithReturn(ea - 1))
  /\ UNCHANGED <<pc, regs, line, lines, alt_instruction_exception_handler, r2, removed, done>>

Restored == Top.estatus
Exit ==
  /\ Goes("exit", "run") /\ pc' = Top.ret /\ ea' = Top.ret
  /\ estatus' = Restored /\ pie' = Restored
  /\ stack' = SubSeq(stack, 1, Len(stack) - 1)
  /\ UNCHANGED <<line, lines, alt_instruction_exception_handler, r2, removed, done>>

Hardware == Execute \/ Raise \/ Interrupt \/ Line
Hal ==
  \/ Entry \/ Irq \/ Soft \/ Emulate \/ CallHandler \/ Break
  \/ HandlerReturns \/ Answer \/ Exit
Next == Hardware \/ Hal \/ Register

Spec == Init /\ [][Next]_vars

-----------------------------------------------------------------------------
\* The program's instructions are executed, or skipped because a handler says
\* so, each once and in order, whatever interrupts and emulations come between.
InOrder ==
  /\ \A k \in 1..Len(done) : done[k] = k
  /\ at = "run" /\ pc \in Program => Len(done) = pc - 1

\* Between exceptions the program runs on an empty exception stack, with its own
\* interrupt enable.
Balanced == at = "run" /\ pc \in Program => stack = <<>> /\ pie
=============================================================================
