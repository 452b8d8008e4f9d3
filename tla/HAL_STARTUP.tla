----------------------------- MODULE HAL_STARTUP -----------------------------
(***************************************************************************)
(* From reset to main and from main to the end: crt0 clears the bss,       *)
(* alt_load copies the initialised data, which a program that ran before a *)
(* reset may have changed, from its image; alt_main sets the system up and *)
(* calls constructors and main; exit calls destructors.  A reset may come  *)
(* at any moment and leaves memory alone.  Of each word the model knows    *)
(* where its content comes from.                                           *)
(***************************************************************************)
EXTENDS Integers, Sequences

CONSTANTS
  DataWords, BssWords,  \* words of .rwdata and of .bss
  DeviceWords,          \* those of .rwdata that are alt_dev_list and the devices in it
  FileWords,            \* and those that are alt_fd_list and alt_max_fd
  Ctors,                \* constructors in the list, and destructors
  ExitCodes,
  MaxResets             \* bound on the resets

StartupAssumption ==
  /\ {DataWords, BssWords, Ctors, MaxResets} \subseteq Nat
  /\ DeviceWords \cup FileWords \subseteq 1..DataWords

\* A word that start-up itself has set up from words as they were linked; one
\* that the program of this run has changed; and one with whatever an earlier
\* run, or the power-up, has left there.
Prepared == -1
Changed == -2
Stale == -3

VARIABLES
  pc,       \* where the processor is
  i,        \* the pointer of the loop it is in
  rwdata,   \* each word: the number of the image's word that was copied, or one of the above
  bss,      \* each word: 0, Changed or Stale
  irq,      \* interrupts are on
  ran,      \* the constructors and destructors called since reset
  atexit,   \* destructors are to be called by exit
  exit_code,
  sim,      \* what a simulator has been told: "", "pass" or "fail"
  resets
memory == <<rwdata, bss>>
vars == <<pc, i, memory, irq, ran, atexit, exit_code, sim, resets>>

TypeOK ==
  /\ pc \in {"bss", "load", "irq_init", "sys_init", "redirect", "ctors", "atexit", "main",
             "close", "exit", "dtors", "_exit", "spin"}
  /\ rwdata \in [1..DataWords -> 1..DataWords \cup {Prepared, Changed, Stale}]
  /\ bss \in [1..BssWords -> {0, Changed, Stale}]
  /\ i \in Nat /\ irq \in BOOLEAN /\ atexit \in BOOLEAN /\ exit_code \in ExitCodes \cup {0}
  /\ ran \in Seq({"ctor", "dtor"} \X (1..Ctors)) /\ sim \in {"", "pass", "fail"}
  /\ resets \in 0..MaxResets

Init ==
  /\ pc = "bss" /\ i = 1
  /\ rwdata = [k \in 1..DataWords |-> Stale] /\ bss = [k \in 1..BssWords |-> Stale]
  /\ irq = FALSE /\ ran = <<>> /\ atexit = FALSE /\ exit_code = 0 /\ sim = "" /\ resets = 0

Goes(from, to) == pc = from /\ pc' = to

-----------------------------------------------------------------------------
\* crt0: stores to the bss, if there is one, until its end.
ClearWord ==
  /\ pc = "bss" /\ i <= BssWords /\ bss' = [bss EXCEPT ![i] = 0] /\ i' = i + 1
  /\ UNCHANGED <<pc, rwdata, irq, ran, atexit, exit_code, sim, resets>>
ClearEnds ==
  /\ Goes("bss", "load") /\ i > BssWords /\ i' = 1
  /\ UNCHANGED <<memory, irq, ran, atexit, exit_code, sim, resets>>

\* Slip: the last word is not copied.
AtEnd_Early(to) == to >= DataWords
AtEnd(to) == to > DataWords

\* alt_load: the section of initialised data, word by word.  The sections that
\* are linked where they are loaded are left alone.
LoadWord ==
  /\ pc = "load" /\ ~AtEnd(i) /\ rwdata' = [rwdata EXCEPT ![i] = i] /\ i' = i + 1
  /\ UNCHANGED <<pc, bss, irq, ran, atexit, exit_code, sim, resets>>
LoadEnds ==
  /\ Goes("load", "irq_init") /\ AtEnd(i)
  /\ UNCHANGED <<i, memory, irq, ran, atexit, exit_code, sim, resets>>

\* alt_main: interrupts, drivers, standard streams.
IrqInit ==
  /\ Goes("irq_init", "sys_init") /\ irq' = TRUE
  /\ UNCHANGED <<i, memory, ran, atexit, exit_code, sim, resets>>

\* Start-up's own writes go by what it reads.
Update(writes, reads) ==
  rwdata' = [k \in 1..DataWords |->
    IF k \in writes
    THEN IF \A r \in reads : rwdata[r] \in {r, Prepared} THEN Prepared ELSE Stale
    ELSE rwdata[k]]

\* The driver's device goes into the list, next to the one that is there.
SysInit ==
  /\ Goes("sys_init", "redirect") /\ Update(DeviceWords, DeviceWords)
  /\ UNCHANGED <<i, bss, irq, ran, atexit, exit_code, sim, resets>>

\* The standard streams: three times a device is found in the list, opened with
\* a free descriptor, copied into the stream's and the descriptor released.
Redirect ==
  /\ Goes("redirect", "ctors") /\ i' = Ctors /\ Update(FileWords, DeviceWords \cup FileWords)
  /\ UNCHANGED <<bss, irq, ran, atexit, exit_code, sim, resets>>

\* ctor >= __CTOR_LIST__: from the end of the list down to its first entry.
InList(k) == k >= 1

Constructor ==
  /\ pc = "ctors" /\ InList(i) /\ ran' = Append(ran, <<"ctor", i>>) /\ i' = i - 1
  /\ UNCHANGED <<pc, memory, irq, atexit, exit_code, sim, resets>>
CtorsEnd ==
  /\ Goes("ctors", "atexit") /\ ~InList(i)
  /\ UNCHANGED <<i, memory, irq, ran, atexit, exit_code, sim, resets>>
AtExit ==
  /\ Goes("atexit", "main") /\ atexit' = TRUE
  /\ UNCHANGED <<i, memory, irq, ran, exit_code, sim, resets>>

\* The program changes its data, in constructors, main and destructors, once the
\* first of each has been called.
Running == pc = "main" \/ (pc \in {"ctors", "dtors"} /\ i < Ctors)
Program ==
  /\ Running
  /\ \/ \E k \in 1..DataWords : rwdata' = [rwdata EXCEPT ![k] = Changed] /\ UNCHANGED bss
     \/ \E k \in 1..BssWords : bss' = [bss EXCEPT ![k] = Changed] /\ UNCHANGED rwdata
  /\ UNCHANGED <<pc, i, irq, ran, atexit, exit_code, sim, resets>>

\* main returns; or the program calls exit, from a constructor even; or it sends
\* itself a signal that ends it.
Return(code) ==
  /\ Goes("main", "close") /\ exit_code' = code
  /\ UNCHANGED <<i, memory, irq, ran, atexit, sim, resets>>
CallExit(code) ==
  /\ Running /\ pc # "dtors" /\ pc' = "exit" /\ exit_code' = code
  /\ UNCHANGED <<i, memory, irq, ran, atexit, sim, resets>>
Kill ==
  /\ Running /\ pc' = "_exit" /\ exit_code' = 0
  /\ UNCHANGED <<i, memory, irq, ran, atexit, sim, resets>>
CloseStdout ==
  /\ Goes("close", "exit") /\ UNCHANGED <<i, memory, irq, ran, atexit, exit_code, sim, resets>>

\* exit calls what has been registered with atexit, once.
Exit ==
  /\ pc = "exit" /\ pc' = (IF atexit THEN "dtors" ELSE "_exit") /\ i' = Ctors /\ atexit' = FALSE
  /\ UNCHANGED <<memory, irq, ran, exit_code, sim, resets>>
Destructor ==
  /\ pc = "dtors" /\ InList(i) /\ ran' = Append(ran, <<"dtor", i>>) /\ i' = i - 1
  /\ UNCHANGED <<pc, memory, irq, atexit, exit_code, sim, resets>>
DtorsEnd ==
  /\ Goes("dtors", "_exit") /\ ~InList(i)
  /\ UNCHANGED <<i, memory, irq, ran, atexit, exit_code, sim, resets>>

Verdict(code) == IF code = 0 THEN "pass" ELSE "fail"

\* _exit tells the simulator and spins, with interrupts as they are.
Halt ==
  /\ Goes("_exit", "spin") /\ sim' = Verdict(exit_code)
  /\ UNCHANGED <<i, memory, irq, ran, atexit, exit_code, resets>>

Reset ==
  /\ resets < MaxResets /\ resets' = resets + 1
  /\ pc' = "bss" /\ i' = 1 /\ irq' = FALSE
  \* Data of this description, not of the machine:
  /\ ran' = <<>> /\ atexit' = FALSE /\ exit_code' = 0 /\ sim' = ""
  \* What memory holds is from now on what an earlier run has left.
  /\ rwdata' = [k \in 1..DataWords |-> Stale] /\ bss' = [k \in 1..BssWords |-> Stale]

Startup ==
  \/ ClearWord \/ ClearEnds \/ LoadWord \/ LoadEnds \/ IrqInit \/ SysInit \/ Redirect
  \/ Constructor \/ CtorsEnd \/ AtExit
Shutdown == CloseStdout \/ Exit \/ Destructor \/ DtorsEnd \/ Halt
Next ==
  \/ Startup \/ Shutdown \/ Reset \/ Program \/ Kill
  \/ \E code \in ExitCodes : Return(code) \/ CallExit(code)

Spec == Init /\ [][Next]_vars

-----------------------------------------------------------------------------
\* Wherever a reset struck, and whatever had been changed by then, alt_main
\* starts with the data as it was linked; the first constructor, or main where
\* there is none, finds that and what start-up itself has set up from it; and no
\* constructor, main or destructor ever finds a word of an earlier run.
Linked(but) ==
  /\ \A k \in 1..DataWords : rwdata[k] = IF k \in but THEN Prepared ELSE k
  /\ \A k \in 1..BssWords : bss[k] = 0

StartsAfresh ==
  /\ pc \in {"irq_init", "sys_init"} => Linked({})
  /\ pc = "redirect" => Linked(DeviceWords)
  /\ pc \in {"ctors", "atexit"} /\ ran = <<>> => Linked(DeviceWords \cup FileWords)
  /\ pc \notin {"bss", "load"} =>
       /\ \A k \in 1..DataWords : rwdata[k] # Stale
       /\ \A k \in 1..BssWords : bss[k] # Stale

\* main and destructors find everything constructed: each once, from the end of
\* the list; and what has been destroyed is not destroyed again.
ConstructedOnce ==
  /\ pc \in {"main", "close", "dtors"} =>
       /\ Len(ran) >= Ctors
       /\ \A k \in 1..Ctors : ran[k] = <<"ctor", Ctors + 1 - k>>
  /\ \A j \in 1..Len(ran), k \in 1..Len(ran) : ran[j] = ran[k] => j = k
=============================================================================
