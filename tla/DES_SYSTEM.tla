----------------------------- MODULE DES_SYSTEM -----------------------------
(***************************************************************************)
(* The Qsys system as far as the accelerator sees it: the Nios II running  *)
(* main of software/DES/source.c, its accesses as the interconnect delays  *)
(* them, and the two resets.  The board's reset clears the processor and   *)
(* the accelerator; the debug module's (by which a program is loaded and   *)
(* restarted) clears the processor only, so that main may start again,     *)
(* with other constants, while the accelerator still works for the last.   *)
(***************************************************************************)
EXTENDS DES_AVALON_WRAPPER

CONSTANTS
  Programs,     \* the builds of main: records pt, key, expected
  BootCycles,   \* edges from a reset to main's first access, at least
  MaxResets     \* bound on the number of resets in a behaviour

\* The time from a restart to the write of Start, in cycles without a pause, is
\* that of the start-up and of four stores: what a debug reset left in the
\* pipeline must be out, or at its last stage, by then.
ASSUME BootAssumption ==
  BootCycles \in Nat /\ BootCycles + 4 >= Rounds /\ MaxResets \in Nat
ASSUME ProgramsAssumption ==
  Programs \subseteq [pt : Word(64), key : Word(64), expected : Word(64)]

VARIABLES
  pc,           \* the next access of main, or its verdict
  program,      \* the program in memory
  boot,         \* edges still to pass before main runs
  reading,      \* whether a read is in its second cycle
  ct_low, ct_high,
  resets,       \* number of resets so far
  steps         \* parity of the processor's steps, to state fairness with

cpu == <<pc, boot, reading, ct_low, ct_high>>
sysvars == <<vars, cpu, program, resets, steps>>

Low(w)  == w \cap (0..31)
High(w) == {b \in 0..31 : b + 32 \in w}

\* Slip: the offsets of the plaintext's halves exchanged.
Stores_Exchanged == [
  pt_low   |-> [address |-> 2, data |-> Low(program.pt),   next |-> "pt_high"],
  pt_high  |-> [address |-> 1, data |-> High(program.pt),  next |-> "key_low"],
  key_low  |-> [address |-> 3, data |-> Low(program.key),  next |-> "key_high"],
  key_high |-> [address |-> 4, data |-> High(program.key), next |-> "start"],
  start    |-> [address |-> 0, data |-> {0},               next |-> "poll"] ]

\* The stores of main and the loads, each with what follows it.
Stores == [
  pt_low   |-> [address |-> 1, data |-> Low(program.pt),   next |-> "pt_high"],
  pt_high  |-> [address |-> 2, data |-> High(program.pt),  next |-> "key_low"],
  key_low  |-> [address |-> 3, data |-> Low(program.key),  next |-> "key_high"],
  key_high |-> [address |-> 4, data |-> High(program.key), next |-> "start"],
  start    |-> [address |-> 0, data |-> {0},               next |-> "poll"] ]
Loads == {"poll", "ct_low", "ct_high"}
Verdicts == {"passed", "failed"}

Restart == pc' = "pt_low" /\ boot' = BootCycles /\ reading' = FALSE
           /\ ct_low' = {} /\ ct_high' = {}

SysInit ==
  /\ Init
  /\ pc = "pt_low" /\ boot = BootCycles /\ reading = FALSE
  /\ ct_low = {} /\ ct_high = {}
  /\ program \in Programs /\ resets = 0 /\ steps = 0

-----------------------------------------------------------------------------
\* The C runtime and the printf before the first store.
Boot ==
  /\ boot > 0 /\ boot' = boot - 1
  /\ NoWrite
  /\ UNCHANGED <<pc, reading, ct_low, ct_high>>

\* IOWR_32DIRECT: the interconnect raises write for one cycle.
Store ==
  /\ boot = 0 /\ pc \in DOMAIN Stores
  /\ Write(Stores[pc].address, Stores[pc].data)
  /\ pc' = Stores[pc].next
  /\ UNCHANGED <<boot, reading, ct_low, ct_high>>

\* IORD_32DIRECT takes two cycles, and the value is that of the second.
ReadWait ==
  /\ boot = 0 /\ pc \in Loads /\ ~reading
  /\ NoWrite
  /\ reading' = TRUE
  /\ UNCHANGED <<pc, boot, ct_low, ct_high>>

\* Slips: the mask is 0x01; the loop's condition is negated.
PollStatus_StartBit ==
  /\ reading /\ pc = "poll"
  /\ NoWrite
  /\ pc' = IF 0 \in Readdata(0) THEN "ct_low" ELSE "poll"
  /\ reading' = FALSE
  /\ UNCHANGED <<boot, ct_low, ct_high>>
PollStatus_Negated ==
  /\ reading /\ pc = "poll"
  /\ NoWrite
  /\ pc' = IF 1 \in Readdata(0) THEN "poll" ELSE "ct_low"
  /\ reading' = FALSE
  /\ UNCHANGED <<boot, ct_low, ct_high>>
PollStatus ==
  /\ reading /\ pc = "poll"
  /\ NoWrite
  /\ pc' = IF 1 \in Readdata(0) THEN "ct_low" ELSE "poll"
  /\ reading' = FALSE
  /\ UNCHANGED <<boot, ct_low, ct_high>>

ReadLow ==
  /\ reading /\ pc = "ct_low"
  /\ NoWrite
  /\ ct_low' = Readdata(5)
  /\ pc' = "ct_high" /\ reading' = FALSE
  /\ UNCHANGED <<boot, ct_high>>

ReadHigh ==
  /\ reading /\ pc = "ct_high"
  /\ NoWrite
  /\ ct_high' = Readdata(6)
  /\ pc' = "verify" /\ reading' = FALSE
  /\ UNCHANGED <<boot, ct_low>>

\* source.c:76
Verify ==
  /\ pc = "verify"
  /\ NoWrite
  /\ pc' = IF ct_high = High(program.expected) /\ ct_low = Low(program.expected)
           THEN "passed" ELSE "failed"
  /\ UNCHANGED <<boot, reading, ct_low, ct_high>>

CpuStep ==
  /\ Boot \/ Store \/ ReadWait \/ PollStatus \/ ReadLow \/ ReadHigh \/ Verify
  /\ steps' = 1 - steps
  /\ UNCHANGED <<program, resets>>

\* An edge at which the processor is busy elsewhere; a read is not held up.
Elsewhere ==
  /\ ~reading
  /\ NoWrite
  /\ UNCHANGED <<cpu, program, resets, steps>>

\* KEY[0]: everything but the memory, that is the program, starts anew.
BoardReset ==
  /\ resets < MaxResets /\ resets' = resets + 1
  /\ Reset
  /\ Restart
  /\ UNCHANGED <<program, steps>>

\* The debug module: the accelerator is not reset, and its clock goes on.
DebugReset ==
  /\ resets < MaxResets /\ resets' = resets + 1
  /\ NoWrite
  /\ Restart
  /\ program' \in Programs
  /\ UNCHANGED steps

SysNext == CpuStep \/ Elsewhere \/ BoardReset \/ DebugReset

\* The processor goes on until main has its verdict; it can always take a step
\* until then, and no other step changes steps.
CpuGoesOn == pc \notin Verdicts /\ steps' = 1 - steps
Fairness == WF_steps(CpuGoesOn)

SysSpec == SysInit /\ [][SysNext]_sysvars /\ Fairness

-----------------------------------------------------------------------------
\* main's verdict is that of its own constants, wherever the resets strike and
\* however slow it is: it prints PASSED when the ciphertext it expects is the
\* encryption of its block under its key, and FAILED when it is not.
VerdictIsRight ==
  pc \in Verdicts =>
    (pc = "passed" <=> program.expected = Encrypt(program.pt, program.key, Rounds))

\* main does not print FAILED.
NeverFails == pc # "failed"

\* When main has seen Done, nothing of an earlier program is left in the core,
\* and both halves it goes on to read are of one block, its own.
ResultIsOwn ==
  pc \in {"ct_low", "ct_high"} =>
    \A i \in Stages :
      ~Valid_reg[i] /\ block[i] = {[pt |-> program.pt, key |-> program.key]}

\* main ends: no Done is lost to its polling loop.
Ends == <>[](pc \in Verdicts)

\* main ends with PASSED.
Passes == <>[](pc = "passed")
=============================================================================
