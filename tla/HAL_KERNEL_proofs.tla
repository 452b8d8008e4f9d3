-------------------------- MODULE HAL_KERNEL_proofs --------------------------
(***************************************************************************)
(* Theorems about start-up, exceptions, interrupts, alarms, the time of    *)
(* day, delays and the emulation of instructions (HAL_STARTUP,             *)
(* HAL_EXCEPTIONS, HAL_INTERRUPTS, HAL_ALARM, HAL_TIME, HAL_SLEEP and      *)
(* HAL_MULDIV, as MC_Kernel composes them), for every size of the          *)
(* sections, lists, programs, tables and stacks, any width of a word and   *)
(* of the tick counter, any rates and frequencies, and any number of       *)
(* resets, interrupts, registrations, alarms and instructions.             *)
(***************************************************************************)
EXTENDS MC_Kernel, SequenceTheorems, FiniteSetTheorems, WellFoundedInduction,
        NaturalsInduction, TLAPS

-----------------------------------------------------------------------------
(* Start-up. *)

\* The constructors and destructors in the order in which they are called.
Entry(k) == IF k <= Ctors THEN <<"ctor", Ctors + 1 - k>> ELSE <<"dtor", 2 * Ctors + 1 - k>>

\* The words before the pointer are in their place, and what is behind is yet to come.
MemoryInv ==
  /\ startup_pc = "bss" => 1 <= i /\ \A k \in 1..BssWords : k < i => bss[k] = 0
  /\ startup_pc = "load" =>
       /\ 1 <= i /\ \A k \in 1..BssWords : bss[k] = 0
       /\ \A k \in 1..DataWords : k < i => rwdata[k] = k

\* What has been called is a beginning of the two lists, and how long it is shows
\* in the phase; destructors are due when every constructor has been called.
ListInv ==
  /\ \A k \in 1..Len(ran) : ran[k] = Entry(k)
  /\ Len(ran) <= 2 * Ctors
  /\ startup_pc \in {"bss", "load", "irq_init", "sys_init", "redirect"} => Len(ran) = 0 /\ ~atexit
  /\ startup_pc = "ctors" => i <= Ctors /\ Len(ran) = Ctors - i /\ ~atexit
  /\ startup_pc \in {"atexit", "main", "close"} \/ atexit => Len(ran) = Ctors
  /\ startup_pc = "dtors" => i <= Ctors /\ Len(ran) = 2 * Ctors - i /\ ~atexit

\* The inductive invariant of start-up and exit.
StartupInv == Startup!TypeOK /\ Startup!StartsAfresh /\ MemoryInv /\ ListInv

LEMMA StartupConstants ==
  /\ DataWords \in Nat /\ BssWords \in Nat /\ Ctors \in Nat /\ MaxResets \in Nat
  /\ DeviceWords \subseteq 1..DataWords /\ FileWords \subseteq 1..DataWords
BY KernelAssumption DEF Startup!StartupAssumption

Called == {"ctor", "dtor"} \X (1..Ctors)

\* Where the content of a word may come from.
DataContents == 1..DataWords \cup {Startup!Prepared, Startup!Changed, Startup!Stale}
BssContents == {0, Startup!Changed, Startup!Stale}

\* The three marks are no numbers of words.
LEMMA Marks ==
  /\ Startup!Stale \notin 1..DataWords /\ Startup!Stale # Startup!Prepared
  /\ Startup!Stale # Startup!Changed /\ Startup!Stale # 0
BY DEF Startup!Stale, Startup!Prepared, Startup!Changed

LEMMA InitStartupInv == Startup!Init => StartupInv
<1> SUFFICES ASSUME Startup!Init PROVE StartupInv
  OBVIOUS
<1>0. DataWords \in Nat /\ BssWords \in Nat /\ Ctors \in Nat /\ MaxResets \in Nat
  BY StartupConstants
<1>a. startup_pc = "bss" /\ i = 1 /\ ran = <<>> /\ atexit = FALSE
  BY DEF Startup!Init
<1>1. Startup!TypeOK
  <2>1. rwdata \in [1..DataWords -> DataContents]
    <3>1. rwdata = [k \in 1..DataWords |-> Startup!Stale] /\ Startup!Stale \in DataContents
      BY DEF Startup!Init, DataContents
    <3> QED
      BY <3>1
  <2>2. bss \in [1..BssWords -> BssContents]
    <3>1. bss = [k \in 1..BssWords |-> Startup!Stale] /\ Startup!Stale \in BssContents
      BY DEF Startup!Init, BssContents
    <3> QED
      BY <3>1
  <2>3. irq \in BOOLEAN /\ atexit \in BOOLEAN
    BY DEF Startup!Init
  <2>4. ran \in Seq({"ctor", "dtor"} \X (1..Ctors))
    BY <1>a
  <2>5. exit_code \in ExitCodes \cup {0} /\ sim \in {"", "pass", "fail"}
    BY DEF Startup!Init
  <2>6. resets = 0
    BY DEF Startup!Init
  <2>7. resets \in 0..MaxResets
    BY <1>0, <2>6
  <2> QED
    BY <1>a, <2>1, <2>2, <2>3, <2>4, <2>5, <2>7 DEF Startup!TypeOK, DataContents, BssContents
<1>2. Startup!StartsAfresh
  BY <1>a, <1>0 DEF Startup!StartsAfresh
<1>3. MemoryInv
  BY <1>a, <1>0 DEF MemoryInv
<1>4. ListInv
  BY <1>a, <1>0 DEF ListInv
<1> QED
  BY <1>1, <1>2, <1>3, <1>4 DEF StartupInv

USE DEF Startup!memory, Startup!Goes, Startup!Running

Phases ==
  {"bss", "load", "irq_init", "sys_init", "redirect", "ctors", "atexit", "main", "close", "exit",
   "dtors", "_exit", "spin"}

\* What may change what, and where each phase is entered from.
LEMMA StartupChanges ==
  ASSUME Startup!Next
  PROVE  /\ startup_pc' \in Phases \cup {startup_pc}
         /\ irq' \in {irq, TRUE, FALSE} /\ atexit' \in {atexit, TRUE, FALSE}
         /\ exit_code' \in ExitCodes \cup {0, exit_code} /\ sim' \in {sim, "", "pass", "fail"}
         /\ i' \in {1, Ctors, i, i + 1} \/ (i' = i - 1 /\ i >= 1)
         /\ resets' = resets \/ (resets < MaxResets /\ resets' = resets + 1)
         /\ ran' = ran \/ Startup!Constructor \/ Startup!Destructor \/ Startup!Reset
         /\ \/ rwdata' = rwdata \/ Startup!LoadWord \/ Startup!Program
            \/ Startup!SysInit \/ Startup!Redirect \/ Startup!Reset
         /\ bss' = bss \/ Startup!ClearWord \/ Startup!Program \/ Startup!Reset
         /\ startup_pc' = "bss" => Startup!ClearWord \/ Startup!Reset
         /\ startup_pc' = "load" => Startup!ClearEnds \/ Startup!LoadWord
         /\ startup_pc' = "irq_init" => Startup!LoadEnds
         /\ startup_pc' = "sys_init" => Startup!IrqInit
         /\ startup_pc' = "redirect" => Startup!SysInit
         /\ startup_pc' = "ctors" => \/ Startup!Redirect \/ Startup!Constructor
                                     \/ Startup!Program /\ startup_pc = "ctors"
         /\ startup_pc' = "atexit" => Startup!CtorsEnd
         /\ startup_pc \in {"bss", "load"} =>
              startup_pc' \in {"bss", "load"} \/ Startup!LoadEnds
<1> USE DEF Startup!Next, Startup!Startup, Startup!Shutdown, Startup!ClearWord, Startup!ClearEnds,
            Startup!LoadWord, Startup!LoadEnds, Startup!IrqInit, Startup!SysInit,
            Startup!Redirect, Startup!Constructor, Startup!CtorsEnd, Startup!AtExit,
            Startup!Program, Startup!Return, Startup!CallExit, Startup!Kill,
            Startup!CloseStdout, Startup!Exit, Startup!Destructor, Startup!DtorsEnd,
            Startup!Halt, Startup!Verdict, Startup!Reset, Startup!InList
<1>1. startup_pc' \in Phases \cup {startup_pc}
  BY DEF Phases
<1>2. irq' \in {irq, TRUE, FALSE} /\ atexit' \in {atexit, TRUE, FALSE}
  OBVIOUS
<1>3. exit_code' \in ExitCodes \cup {0, exit_code} /\ sim' \in {sim, "", "pass", "fail"}
  OBVIOUS
<1>4. i' \in {1, Ctors, i, i + 1} \/ (i' = i - 1 /\ i >= 1)
  OBVIOUS
<1>5. resets' = resets \/ (resets < MaxResets /\ resets' = resets + 1)
  OBVIOUS
<1>6. ran' = ran \/ Startup!Constructor \/ Startup!Destructor \/ Startup!Reset
  OBVIOUS
<1>7. \/ rwdata' = rwdata \/ Startup!LoadWord \/ Startup!Program
      \/ Startup!SysInit \/ Startup!Redirect \/ Startup!Reset
  OBVIOUS
<1>8. bss' = bss \/ Startup!ClearWord \/ Startup!Program \/ Startup!Reset
  OBVIOUS
<1>9. startup_pc' = "bss" => Startup!ClearWord \/ Startup!Reset
  OBVIOUS
<1>10. startup_pc' = "load" => Startup!ClearEnds \/ Startup!LoadWord
  OBVIOUS
<1>11. startup_pc' = "irq_init" => Startup!LoadEnds
  OBVIOUS
<1>12. startup_pc' = "sys_init" => Startup!IrqInit
  OBVIOUS
<1>13. startup_pc' = "redirect" => Startup!SysInit
  OBVIOUS
<1>14. startup_pc' = "ctors" => \/ Startup!Redirect \/ Startup!Constructor
                                \/ Startup!Program /\ startup_pc = "ctors"
  OBVIOUS
<1>15. startup_pc' = "atexit" => Startup!CtorsEnd
  OBVIOUS
<1>16. startup_pc \in {"bss", "load"} =>
         startup_pc' \in {"bss", "load"} \/ Startup!LoadEnds
  OBVIOUS
<1> QED
  BY <1>1, <1>2, <1>3, <1>4, <1>5, <1>6, <1>7, <1>8, <1>9, <1>10, <1>11, <1>12, <1>13, <1>14,
     <1>15, <1>16

LEMMA StartupTypesStep ==
  ASSUME StartupInv, Startup!Next
  PROVE  Startup!TypeOK'
<1>0. Startup!TypeOK /\ MemoryInv /\ ListInv
  BY DEF StartupInv
<1>a. DataWords \in Nat /\ BssWords \in Nat /\ Ctors \in Nat /\ MaxResets \in Nat
  BY StartupConstants
<1>b. /\ startup_pc \in Phases
      /\ exit_code \in ExitCodes \cup {0} /\ sim \in {"", "pass", "fail"}
  BY <1>0 DEF Startup!TypeOK, Phases
<1>c. irq \in BOOLEAN /\ atexit \in BOOLEAN
  BY <1>0 DEF Startup!TypeOK
<1>d. ran \in Seq(Called)
  BY <1>0 DEF Startup!TypeOK, Called
<1>e. i \in Nat /\ resets \in 0..MaxResets
  BY <1>0 DEF Startup!TypeOK
<1>f. (startup_pc = "load" => 1 <= i) /\ (startup_pc \in {"ctors", "dtors"} => i <= Ctors)
  BY <1>0 DEF MemoryInv, ListInv
<1>g. rwdata \in [1..DataWords -> DataContents] /\ bss \in [1..BssWords -> BssContents]
  BY <1>0 DEF Startup!TypeOK, DataContents, BssContents
<1>h. /\ 1..DataWords \subseteq DataContents /\ 0 \in BssContents
      /\ {Startup!Prepared, Startup!Changed, Startup!Stale} \subseteq DataContents
      /\ {Startup!Changed, Startup!Stale} \subseteq BssContents
  BY DEF DataContents, BssContents
<1>1. startup_pc' \in Phases
  BY <1>b, StartupChanges
<1>2. irq' \in BOOLEAN /\ atexit' \in BOOLEAN
  BY <1>c, StartupChanges
<1>3. exit_code' \in ExitCodes \cup {0} /\ sim' \in {"", "pass", "fail"}
  BY <1>b, StartupChanges
<1>4. i' \in Nat
  <2>1. i' \in {1, Ctors, i, i + 1} \/ (i' = i - 1 /\ i >= 1)
    BY StartupChanges
  <2> QED
    BY <1>a, <1>e, <2>1
<1>5. resets' \in 0..MaxResets
  <2>1. resets' = resets \/ (resets < MaxResets /\ resets' = resets + 1)
    BY StartupChanges
  <2> QED
    BY <1>a, <1>e, <2>1
<1>6. ran' \in Seq(Called)
  <2>1. CASE Startup!Constructor \/ Startup!Destructor
    <3>1. i \in 1..Ctors
      BY <1>a, <1>e, <1>f, <2>1 DEF Startup!Constructor, Startup!Destructor, Startup!InList
    <3>2. PICK e \in Called : ran' = Append(ran, e)
      BY <2>1, <3>1 DEF Startup!Constructor, Startup!Destructor, Called
    <3> QED
      BY <1>d, <3>2, AppendProperties
  <2>2. CASE Startup!Reset
    <3>1. ran' = <<>>
      BY <2>2 DEF Startup!Reset
    <3> QED
      BY <3>1
  <2> QED
    BY <1>d, <2>1, <2>2, StartupChanges
<1>7. rwdata' \in [1..DataWords -> DataContents]
  <2>1. CASE Startup!LoadWord
    <3>1. i \in 1..DataWords /\ rwdata' = [rwdata EXCEPT ![i] = i]
      BY <1>a, <1>e, <1>f, <2>1 DEF Startup!LoadWord, Startup!AtEnd
    <3> QED
      BY <1>g, <1>h, <3>1
  <2>2. CASE Startup!Program
    <3>1. \/ rwdata' = rwdata
          \/ \E k \in 1..DataWords : rwdata' = [rwdata EXCEPT ![k] = Startup!Changed]
      BY <2>2 DEF Startup!Program
    <3> QED
      BY <1>g, <1>h, <3>1
  <2>3. CASE Startup!SysInit \/ Startup!Redirect
    <3>1. PICK wr, rd : Startup!Update(wr, rd)
      BY <2>3 DEF Startup!SysInit, Startup!Redirect
    <3> QED
      BY <1>g, <1>h, <3>1 DEF Startup!Update
  <2>4. CASE Startup!Reset
    BY <1>h, <2>4 DEF Startup!Reset
  <2> QED
    BY <1>g, <2>1, <2>2, <2>3, <2>4, StartupChanges
<1>8. bss' \in [1..BssWords -> BssContents]
  <2>1. CASE Startup!ClearWord
    BY <1>g, <1>h, <2>1 DEF Startup!ClearWord
  <2>2. CASE Startup!Program
    <3>1. \/ bss' = bss
          \/ \E k \in 1..BssWords : bss' = [bss EXCEPT ![k] = Startup!Changed]
      BY <2>2 DEF Startup!Program
    <3> QED
      BY <1>g, <1>h, <3>1
  <2>3. CASE Startup!Reset
    BY <1>h, <2>3 DEF Startup!Reset
  <2> QED
    BY <1>g, <2>1, <2>2, <2>3, StartupChanges
<1> QED
  BY <1>1, <1>2, <1>3, <1>4, <1>5, <1>6, <1>7, <1>8
     DEF Startup!TypeOK, Called, Phases, DataContents, BssContents

\* Start-up's own writes keep what was linked but for the words written.
LEMMA UpdateKeeps ==
  ASSUME NEW wr, NEW rd, rd \subseteq 1..DataWords, NEW but,
         Startup!Linked(but), Startup!Update(wr, rd), bss' = bss
  PROVE  Startup!Linked(but \cup wr)'
<1>1. \A r \in rd : rwdata[r] \in {r, Startup!Prepared}
  BY DEF Startup!Linked
<1>2. ASSUME NEW k \in 1..DataWords
      PROVE  rwdata'[k] = IF k \in but \cup wr THEN Startup!Prepared ELSE k
  <2>1. rwdata'[k] = IF k \in wr THEN Startup!Prepared ELSE rwdata[k]
    BY <1>1, <1>2 DEF Startup!Update
  <2>2. rwdata[k] = IF k \in but THEN Startup!Prepared ELSE k
    BY <1>2 DEF Startup!Linked
  <2> QED
    BY <2>1, <2>2
<1>3. \A k \in 1..BssWords : bss'[k] = 0
  BY DEF Startup!Linked
<1> QED
  BY <1>2, <1>3 DEF Startup!Linked

\* Nothing of an earlier run.
NoneStale ==
  /\ \A k \in 1..DataWords : rwdata[k] # Startup!Stale
  /\ \A k \in 1..BssWords : bss[k] # Startup!Stale

LEMMA MemoryStep ==
  ASSUME StartupInv, Startup!Next
  PROVE  MemoryInv' /\ Startup!StartsAfresh'
<1>0. MemoryInv /\ Startup!StartsAfresh
  BY DEF StartupInv
<1>a. DataWords \in Nat /\ BssWords \in Nat
  BY StartupConstants
<1>b. i \in Nat
  BY DEF StartupInv, Startup!TypeOK
<1>c. rwdata \in [1..DataWords -> DataContents]
  BY DEF StartupInv, Startup!TypeOK, DataContents
<1>d. bss \in [1..BssWords -> BssContents]
  BY DEF StartupInv, Startup!TypeOK, BssContents
<1>1. ASSUME startup_pc' = "bss"
      PROVE  1 <= i' /\ \A k \in 1..BssWords : k < i' => bss'[k] = 0
  <2>1. CASE Startup!ClearWord
    <3>1. startup_pc = "bss" /\ bss' = [bss EXCEPT ![i] = 0] /\ i' = i + 1
      BY <2>1 DEF Startup!ClearWord
    <3>2. 1 <= i /\ \A k \in 1..BssWords : k < i => bss[k] = 0
      BY <1>0, <3>1 DEF MemoryInv
    <3>3. ASSUME NEW k \in 1..BssWords, k < i' PROVE bss'[k] = 0
      BY <1>b, <1>d, <3>1, <3>2, <3>3
    <3> QED
      BY <1>b, <3>1, <3>2, <3>3
  <2>2. CASE Startup!Reset
    <3>1. i' = 1
      BY <2>2 DEF Startup!Reset
    <3> QED
      BY <3>1
  <2> QED
    BY <1>1, <2>1, <2>2, StartupChanges
<1>2. ASSUME startup_pc' = "load"
      PROVE  /\ 1 <= i' /\ \A k \in 1..BssWords : bss'[k] = 0
             /\ \A k \in 1..DataWords : k < i' => rwdata'[k] = k
  <2>1. CASE Startup!ClearEnds
    <3>1. startup_pc = "bss" /\ i > BssWords /\ i' = 1 /\ bss' = bss
      BY <2>1 DEF Startup!ClearEnds
    <3>2. \A k \in 1..BssWords : k < i => bss[k] = 0
      BY <1>0, <3>1 DEF MemoryInv
    <3> QED
      BY <1>a, <1>b, <3>1, <3>2
  <2>2. CASE Startup!LoadWord
    <3>1. startup_pc = "load" /\ bss' = bss /\ rwdata' = [rwdata EXCEPT ![i] = i] /\ i' = i + 1
      BY <2>2 DEF Startup!LoadWord
    <3>2. /\ 1 <= i /\ \A k \in 1..BssWords : bss[k] = 0
          /\ \A k \in 1..DataWords : k < i => rwdata[k] = k
      BY <1>0, <3>1 DEF MemoryInv
    <3>3. ASSUME NEW k \in 1..DataWords, k < i' PROVE rwdata'[k] = k
      BY <1>b, <1>c, <3>1, <3>2, <3>3
    <3> QED
      BY <1>b, <3>1, <3>2, <3>3
  <2> QED
    BY <1>2, <2>1, <2>2, StartupChanges
<1>3. MemoryInv'
  BY <1>1, <1>2 DEF MemoryInv
<1>4. ASSUME startup_pc' \in {"irq_init", "sys_init"}
      PROVE  Startup!Linked({})'
  <2>1. CASE Startup!LoadEnds
    <3>1. startup_pc = "load" /\ i > DataWords /\ rwdata' = rwdata /\ bss' = bss
      BY <2>1 DEF Startup!LoadEnds, Startup!AtEnd
    <3>2. /\ \A k \in 1..BssWords : bss[k] = 0
          /\ \A k \in 1..DataWords : k < i => rwdata[k] = k
      BY <1>0, <3>1 DEF MemoryInv
    <3> QED
      BY <1>a, <1>b, <3>1, <3>2 DEF Startup!Linked
  <2>2. CASE Startup!IrqInit
    <3>1. startup_pc = "irq_init" /\ rwdata' = rwdata /\ bss' = bss
      BY <2>2 DEF Startup!IrqInit
    <3>2. Startup!Linked({})
      BY <1>0, <3>1 DEF Startup!StartsAfresh
    <3> QED
      BY <3>1, <3>2 DEF Startup!Linked
  <2> QED
    BY <1>4, <2>1, <2>2, StartupChanges
<1>5. ASSUME startup_pc' = "redirect"
      PROVE  Startup!Linked(DeviceWords)'
  <2>1. startup_pc = "sys_init" /\ Startup!Update(DeviceWords, DeviceWords) /\ bss' = bss
    BY <1>5, StartupChanges DEF Startup!SysInit
  <2>2. Startup!Linked({})
    BY <1>0, <2>1 DEF Startup!StartsAfresh
  <2>3. Startup!Linked({} \cup DeviceWords)'
    BY <1>a, <2>1, <2>2, UpdateKeeps, StartupConstants
  <2>4. {} \cup DeviceWords = DeviceWords
    OBVIOUS
  <2> QED
    BY <2>3, <2>4
<1>6. ASSUME startup_pc' \in {"ctors", "atexit"}, ran' = <<>>
      PROVE  Startup!Linked(DeviceWords \cup FileWords)'
  <2>1. CASE Startup!Redirect
    <3>1. /\ startup_pc = "redirect" /\ Startup!Update(FileWords, DeviceWords \cup FileWords)
          /\ bss' = bss
      BY <2>1 DEF Startup!Redirect
    <3>2. Startup!Linked(DeviceWords)
      BY <1>0, <3>1 DEF Startup!StartsAfresh
    <3>3. DeviceWords \cup FileWords \subseteq 1..DataWords
      BY StartupConstants
    <3> QED
      BY <3>1, <3>2, <3>3, UpdateKeeps
  <2>2. CASE Startup!Constructor
    <3>1. ran' = Append(ran, <<"ctor", i>>) /\ ran \in Seq(Called)
      BY <2>2 DEF Startup!Constructor, StartupInv, Startup!TypeOK, Called
    <3> QED
      BY <1>6, <3>1
  <2>3. CASE Startup!Program /\ startup_pc = "ctors"
    <3>1. i < Ctors /\ ran = <<>> /\ Len(ran) = Ctors - i
      BY <1>6, <2>3 DEF Startup!Program, StartupInv, ListInv
    <3> QED
      BY <1>b, <3>1, StartupConstants
  <2>4. CASE Startup!CtorsEnd
    <3>1. startup_pc = "ctors" /\ ran = <<>> /\ rwdata' = rwdata /\ bss' = bss
      BY <1>6, <2>4 DEF Startup!CtorsEnd
    <3>2. Startup!Linked(DeviceWords \cup FileWords)
      BY <1>0, <3>1 DEF Startup!StartsAfresh
    <3> QED
      BY <3>1, <3>2 DEF Startup!Linked
  <2> QED
    BY <1>6, <2>1, <2>2, <2>3, <2>4, StartupChanges
<1>7. ASSUME startup_pc' \notin {"bss", "load"}
      PROVE  NoneStale'
  <2>1. CASE Startup!LoadEnds
    <3>1. Startup!Linked({})'
      BY <1>4, <2>1 DEF Startup!LoadEnds
    <3> QED
      BY <3>1, Marks DEF Startup!Linked, NoneStale
  <2>2. CASE Startup!SysInit
    <3>1. Startup!Linked(DeviceWords)'
      BY <1>5, <2>2 DEF Startup!SysInit
    <3> QED
      BY <3>1, Marks DEF Startup!Linked, NoneStale
  <2>3. CASE Startup!Redirect
    <3>1. /\ startup_pc = "redirect" /\ Startup!Update(FileWords, DeviceWords \cup FileWords)
          /\ bss' = bss
      BY <2>3 DEF Startup!Redirect
    <3>2. Startup!Linked(DeviceWords)
      BY <1>0, <3>1 DEF Startup!StartsAfresh
    <3>3. DeviceWords \cup FileWords \subseteq 1..DataWords
      BY StartupConstants
    <3>4. Startup!Linked(DeviceWords \cup FileWords)'
      BY <3>1, <3>2, <3>3, UpdateKeeps
    <3> QED
      BY <3>4, Marks DEF Startup!Linked, NoneStale
  <2>4. CASE startup_pc \notin {"bss", "load"} /\ ~Startup!SysInit /\ ~Startup!Redirect
    <3>1. NoneStale
      BY <1>0, <2>4 DEF Startup!StartsAfresh, NoneStale
    <3>2. CASE Startup!Program
      <4>1. \/ \E k \in 1..DataWords : rwdata' = [rwdata EXCEPT ![k] = Startup!Changed] /\ bss' = bss
            \/ \E k \in 1..BssWords : bss' = [bss EXCEPT ![k] = Startup!Changed] /\ rwdata' = rwdata
        BY <3>2 DEF Startup!Program
      <4> QED
        BY <1>c, <1>d, <3>1, <4>1, Marks DEF NoneStale
    <3>3. CASE rwdata' = rwdata /\ bss' = bss
      BY <3>1, <3>3 DEF NoneStale
    <3>4. ~Startup!LoadWord /\ ~Startup!ClearWord /\ ~Startup!Reset
      BY <1>7, <2>4 DEF Startup!LoadWord, Startup!ClearWord, Startup!Reset
    <3> QED
      BY <2>4, <3>2, <3>3, <3>4, StartupChanges
  <2> QED
    BY <1>7, <2>1, <2>2, <2>3, <2>4, StartupChanges
<1>8. Startup!StartsAfresh'
  BY <1>4, <1>5, <1>6, <1>7 DEF Startup!StartsAfresh, NoneStale
<1> QED
  BY <1>3, <1>8

LEMMA ListStep ==
  ASSUME StartupInv, Startup!Next
  PROVE  ListInv'
<1>0. ListInv
  BY DEF StartupInv
<1>a. Ctors \in Nat /\ i \in Nat
  BY StartupConstants DEF StartupInv, Startup!TypeOK
<1>b. ran \in Seq(Called)
  BY DEF StartupInv, Startup!TypeOK, Called
<1>c. Len(ran) \in Nat
  BY <1>b
<1>1. CASE Startup!Constructor \/ Startup!Destructor
  <2> DEFINE which == IF startup_pc = "ctors" THEN "ctor" ELSE "dtor"
  <2>1. /\ startup_pc' = startup_pc /\ startup_pc \in {"ctors", "dtors"} /\ i >= 1 /\ i' = i - 1
        /\ atexit' = atexit /\ ran' = Append(ran, <<which, i>>)
    BY <1>1 DEF Startup!Constructor, Startup!Destructor, Startup!InList
  <2>2. /\ i <= Ctors /\ ~atexit
        /\ startup_pc = "ctors" => Len(ran) = Ctors - i
        /\ startup_pc = "dtors" => Len(ran) = 2 * Ctors - i
    BY <1>0, <2>1 DEF ListInv
  <2>3. Entry(Len(ran) + 1) = <<which, i>>
    <3>1. CASE startup_pc = "ctors"
      <4>1. Len(ran) + 1 <= Ctors /\ Ctors + 1 - (Len(ran) + 1) = i
        BY <1>a, <1>c, <2>1, <2>2, <3>1
      <4> QED
        BY <3>1, <4>1 DEF Entry
    <3>2. CASE startup_pc = "dtors"
      <4>1. ~(Len(ran) + 1 <= Ctors) /\ 2 * Ctors + 1 - (Len(ran) + 1) = i
        BY <1>a, <1>c, <2>1, <2>2, <3>2
      <4> QED
        BY <3>2, <4>1 DEF Entry
    <3> QED
      BY <2>1, <3>1, <3>2
  <2>4. <<which, i>> \in Called
    BY <1>a, <2>1, <2>2 DEF Called
  <2>5. /\ Len(ran') = Len(ran) + 1 /\ ran'[Len(ran) + 1] = Entry(Len(ran) + 1)
        /\ \A k \in 1..Len(ran) : ran'[k] = ran[k]
    BY <1>b, <2>1, <2>3, <2>4, AppendProperties
  <2>6. \A k \in 1..Len(ran) : ran[k] = Entry(k)
    BY <1>0 DEF ListInv
  <2>7. \A k \in 1..Len(ran') : ran'[k] = Entry(k)
    BY <1>c, <2>5, <2>6
  <2>8. /\ Len(ran') <= 2 * Ctors /\ i' <= Ctors
        /\ startup_pc' = "ctors" => Len(ran') = Ctors - i'
        /\ startup_pc' = "dtors" => Len(ran') = 2 * Ctors - i'
    BY <1>a, <1>c, <2>1, <2>2, <2>5
  <2>9. startup_pc' \in {"ctors", "dtors"} /\ ~atexit'
    BY <2>1, <2>2
  <2> QED
    BY <2>7, <2>8, <2>9 DEF ListInv
<1>2. CASE Startup!Reset
  <2>1. Len(ran') = 0 /\ startup_pc' = "bss" /\ ~atexit'
    BY <1>2 DEF Startup!Reset
  <2> QED
    BY <1>a, <2>1 DEF ListInv
<1>3. CASE ~Startup!Constructor /\ ~Startup!Destructor /\ ~Startup!Reset
  <2>1. ran' = ran
    BY <1>3, StartupChanges
  <2>2. (\A k \in 1..Len(ran') : ran'[k] = Entry(k)) /\ Len(ran') <= 2 * Ctors
    BY <1>0, <2>1 DEF ListInv
  <2> USE DEF Startup!Next, Startup!Startup, Startup!Shutdown, Startup!ClearWord,
              Startup!ClearEnds, Startup!LoadWord, Startup!LoadEnds, Startup!IrqInit,
              Startup!SysInit, Startup!Redirect, Startup!CtorsEnd, Startup!AtExit,
              Startup!Program, Startup!Return, Startup!CallExit, Startup!Kill,
              Startup!CloseStdout, Startup!Exit, Startup!DtorsEnd, Startup!Halt,
              Startup!InList
  <2>3. startup_pc' \in {"bss", "load", "irq_init", "sys_init", "redirect"} =>
          /\ startup_pc \in {"bss", "load", "irq_init", "sys_init", "redirect"} /\ atexit' = atexit
    BY <1>3
  <2>4. startup_pc' = "ctors" =>
          \/ startup_pc = "redirect" /\ i' = Ctors /\ atexit' = atexit
          \/ startup_pc = "ctors" /\ i' = i /\ atexit' = atexit
    BY <1>3
  <2>5. startup_pc' \in {"atexit", "main", "close"} \/ atexit' =>
          \/ startup_pc = "ctors" /\ i < 1
          \/ startup_pc \in {"atexit", "main", "close"} \/ atexit
    BY <1>a, <1>3
  <2>6. startup_pc' = "dtors" =>
          \/ startup_pc = "exit" /\ atexit /\ i' = Ctors /\ ~atexit'
          \/ startup_pc = "dtors" /\ i' = i /\ atexit' = atexit
    BY <1>3
  <2> HIDE DEF Startup!Next, Startup!Startup, Startup!Shutdown, Startup!ClearWord,
               Startup!ClearEnds, Startup!LoadWord, Startup!LoadEnds, Startup!IrqInit,
               Startup!SysInit, Startup!Redirect, Startup!CtorsEnd, Startup!AtExit,
               Startup!Program, Startup!Return, Startup!CallExit, Startup!Kill,
               Startup!CloseStdout, Startup!Exit, Startup!DtorsEnd, Startup!Halt,
               Startup!InList
  <2>7. startup_pc' \in {"bss", "load", "irq_init", "sys_init", "redirect"} =>
          Len(ran') = 0 /\ ~atexit'
    BY <1>0, <2>1, <2>3 DEF ListInv
  <2>8. startup_pc' = "ctors" => i' <= Ctors /\ Len(ran') = Ctors - i' /\ ~atexit'
    BY <1>0, <1>a, <2>1, <2>4 DEF ListInv
  <2>9. startup_pc' \in {"atexit", "main", "close"} \/ atexit' => Len(ran') = Ctors
    BY <1>0, <1>a, <2>1, <2>5 DEF ListInv
  <2>10. startup_pc' = "dtors" => i' <= Ctors /\ Len(ran') = 2 * Ctors - i' /\ ~atexit'
    BY <1>0, <1>a, <2>1, <2>6 DEF ListInv
  <2> QED
    BY <2>2, <2>7, <2>8, <2>9, <2>10 DEF ListInv
<1> QED
  BY <1>1, <1>2, <1>3

\* What the list of calls says of the properties.
LEMMA ListConstructs == StartupInv => Startup!ConstructedOnce
<1> SUFFICES ASSUME StartupInv PROVE Startup!ConstructedOnce
  OBVIOUS
<1>0. ListInv
  BY DEF StartupInv
<1>a. Ctors \in Nat /\ i \in Nat
  BY StartupConstants DEF StartupInv, Startup!TypeOK
<1>b. ran \in Seq(Called)
  BY DEF StartupInv, Startup!TypeOK, Called
<1>c. Len(ran) \in Nat
  BY <1>b
<1>1. ASSUME startup_pc \in {"main", "close", "dtors"}
      PROVE  Len(ran) >= Ctors
  BY <1>0, <1>1, <1>a, <1>c DEF ListInv
<1>2. ASSUME startup_pc \in {"main", "close", "dtors"}, NEW k \in 1..Ctors
      PROVE  ran[k] = <<"ctor", Ctors + 1 - k>>
  <2>1. k \in 1..Len(ran) /\ k <= Ctors
    BY <1>1, <1>2, <1>a, <1>c
  <2> QED
    BY <1>0, <2>1 DEF ListInv, Entry
<1>3. ASSUME NEW j \in 1..Len(ran), NEW k \in 1..Len(ran), ran[j] = ran[k]
      PROVE  j = k
  <2>1. Entry(j) = Entry(k)
    BY <1>0, <1>3 DEF ListInv
  <2>2. j \in Int /\ k \in Int
    BY <1>c
  <2>3. CASE j <= Ctors /\ k <= Ctors
    <3>1. Ctors + 1 - j = Ctors + 1 - k
      BY <2>1, <2>3 DEF Entry
    <3> QED
      BY <1>a, <2>2, <3>1
  <2>4. CASE ~(j <= Ctors) /\ ~(k <= Ctors)
    <3>1. 2 * Ctors + 1 - j = 2 * Ctors + 1 - k
      BY <2>1, <2>4 DEF Entry
    <3> QED
      BY <1>a, <2>2, <3>1
  <2>5. CASE j <= Ctors /\ ~(k <= Ctors)
    BY <2>1, <2>5 DEF Entry
  <2>6. CASE ~(j <= Ctors) /\ k <= Ctors
    BY <2>1, <2>6 DEF Entry
  <2> QED
    BY <2>3, <2>4, <2>5, <2>6
<1> QED
  BY <1>1, <1>2, <1>3 DEF Startup!ConstructedOnce

-----------------------------------------------------------------------------
\* A step of one part leaves the others as they are, but for stuttering.
LEMMA StartupAlone == [KernelNext]_kernel => [Startup!Next]_(Startup!vars)
BY DEF KernelNext, kernel, startup, Startup!vars, Startup!memory

\* Wherever resets strike, start-up begins with the data as it was linked, the first
\* constructor finds nothing changed but what start-up has set up, nothing of the program
\* finds a word of an earlier run, main starts with everything constructed once, and what
\* has been destroyed is not destroyed again
\* (crt0.S, alt_load.c, alt_main.c, alt_do_ctors.c, alt_do_dtors.c).
THEOREM FreshStart == KernelSpec => []StartsAfresh
<1>1. KernelInit => StartupInv
  BY InitStartupInv DEF KernelInit
<1>2. StartupInv /\ [KernelNext]_kernel => StartupInv'
  <2> SUFFICES ASSUME StartupInv, [Startup!Next]_(Startup!vars) PROVE StartupInv'
    BY StartupAlone
  <2>1. CASE Startup!Next
    <3>1. Startup!TypeOK' /\ Startup!StartsAfresh'
      BY <2>1, StartupTypesStep, MemoryStep, ListStep DEF StartupInv
    <3>2. MemoryInv' /\ ListInv'
      BY <2>1, StartupTypesStep, MemoryStep, ListStep DEF StartupInv
    <3> QED
      BY <3>1, <3>2 DEF StartupInv
  <2>2. CASE UNCHANGED Startup!vars
    <3>1. /\ startup_pc' = startup_pc /\ i' = i /\ irq' = irq /\ ran' = ran
          /\ rwdata' = rwdata /\ bss' = bss
          /\ atexit' = atexit /\ exit_code' = exit_code /\ sim' = sim /\ resets' = resets
      BY <2>2 DEF Startup!vars, Startup!memory
    <3>2. Startup!TypeOK'
      BY <3>1 DEF StartupInv, Startup!TypeOK
    <3>3. Startup!StartsAfresh'
      BY <3>1 DEF StartupInv, Startup!StartsAfresh, Startup!Linked
    <3>4. MemoryInv'
      BY <3>1 DEF StartupInv, MemoryInv
    <3>5. ListInv'
      BY <3>1 DEF StartupInv, ListInv, Entry
    <3> QED
      BY <3>2, <3>3, <3>4, <3>5 DEF StartupInv
  <2> QED
    BY <2>1, <2>2
<1>3. StartupInv => StartsAfresh
  BY ListConstructs DEF StartsAfresh, StartupInv
<1> QED
  BY <1>1, <1>2, <1>3, PTL DEF KernelSpec

-----------------------------------------------------------------------------
(* Exceptions. *)

\* The exception stack with one frame.
Frame(status, address) == <<[estatus |-> status, ret |-> address]>>

LEMMA FrameReturn ==
  ASSUME NEW status, NEW from, NEW to
  PROVE  [Frame(status, from) EXCEPT ![Len(Frame(status, from))].ret = to] = Frame(status, to)
BY DEF Frame

LEMMA FrameIsRead ==
  ASSUME NEW status, NEW from
  PROVE  /\ Append(<<>>, [estatus |-> status, ret |-> from]) = Frame(status, from)
         /\ Frame(status, from)[Len(Frame(status, from))].estatus = status
         /\ Frame(status, from)[Len(Frame(status, from))].ret = from
         /\ SubSeq(Frame(status, from), 1, Len(Frame(status, from)) - 1) = <<>>
<1>1. Len(Frame(status, from)) = 1 /\ Frame(status, from)[1] = [estatus |-> status, ret |-> from]
  BY DEF Frame
<1>2. SubSeq(Frame(status, from), 1, Len(Frame(status, from)) - 1) = <<>>
  BY <1>1 DEF Frame
<1>3. Append(<<>>, [estatus |-> status, ret |-> from]) = Frame(status, from)
  BY DEF Frame
<1> QED
  BY <1>1, <1>2, <1>3

\* An exception of the program is served, and the program is to go on behind it.
Serving ==
  /\ stack = Frame(TRUE, ea) /\ Len(done) = ea - 2 /\ 1 <= ea - 1 /\ ea - 1 <= ProgramLength

\* The inductive invariant of the exception code: what has been done, what the
\* stack holds and where ea points, in each phase.
ExceptionsInv ==
  /\ ea \in Int /\ pc \in Int
  /\ done \in Seq(Nat) /\ \A k \in 1..Len(done) : done[k] = k
  /\ at = "run" =>
       \/ /\ 1 <= pc /\ pc <= ProgramLength + 1
          /\ stack = <<>> /\ running_pie = TRUE /\ Len(done) = pc - 1
       \/ /\ Exceptions!Handler <= pc /\ pc <= Exceptions!HandlerEnd
          /\ running_pie = FALSE /\ Serving
  /\ at \in {"entry", "irqtest"} =>
       /\ running_pie = FALSE
       /\ Len(done) = ea - 2 /\ 1 <= ea - 1 /\ ea - 1 <= ProgramLength
  /\ at = "entry" => estatus = TRUE /\ stack = <<>>
  /\ at = "irqtest" => stack = Frame(TRUE, ea - 1)
  /\ at \in {"emulate", "unknown"} => running_pie = FALSE /\ Serving
  /\ at = "returned" =>
       /\ stack = Frame(TRUE, ea) /\ 1 <= ea - 1 /\ ea - 1 <= ProgramLength
       /\ \/ r2 = Exceptions!REISSUE /\ Len(done) = ea - 2
          \/ r2 = Exceptions!SKIP /\ Len(done) = ea - 1
  /\ at = "exit" => stack = Frame(TRUE, Len(done) + 1) /\ Len(done) <= ProgramLength

USE DEF Exceptions!regs

LEMMA ExceptionsConstants ==
  /\ ProgramLength \in Nat /\ HandlerLength \in Nat
  /\ \A a \in Int : a \in Exceptions!Program <=> (1 <= a /\ a <= ProgramLength)
  /\ \A a \in Int : a \in Exceptions!Instructions <=>
       \/ 1 <= a /\ a <= ProgramLength
       \/ Exceptions!Handler <= a /\ a <= Exceptions!HandlerEnd - 1
  /\ \A a \in Int :
       Exceptions!Handler <= a /\ a <= Exceptions!HandlerEnd - 1 => a \notin Emulated \cup Odd
  /\ Exceptions!Handler = ProgramLength + 2
  /\ Exceptions!HandlerEnd = ProgramLength + 2 + HandlerLength
<1>1. ProgramLength \in Nat /\ HandlerLength \in Nat
  BY KernelAssumption DEF Exceptions!ExceptionsAssumption
<1>2. /\ Exceptions!Handler = ProgramLength + 2
      /\ Exceptions!HandlerEnd = ProgramLength + 2 + HandlerLength
  BY <1>1 DEF Exceptions!Handler, Exceptions!HandlerEnd
<1>3. (Emulated \cup Odd) \cap (Exceptions!Handler..Exceptions!HandlerEnd - 1) = {}
  BY KernelAssumption DEF Exceptions!ExceptionsAssumption
<1>4. ASSUME NEW a \in Int
      PROVE  /\ a \in Exceptions!Program <=> (1 <= a /\ a <= ProgramLength)
             /\ a \in Exceptions!Handler..Exceptions!HandlerEnd - 1
                <=> Exceptions!Handler <= a /\ a <= Exceptions!HandlerEnd - 1
  BY <1>1, <1>2 DEF Exceptions!Program
<1>5. ASSUME NEW a \in Int, Exceptions!Handler <= a, a <= Exceptions!HandlerEnd - 1
      PROVE  a \notin Emulated \cup Odd
  BY <1>3, <1>4, <1>5
<1>6. ASSUME NEW a \in Int
      PROVE  a \in Exceptions!Instructions <=>
               \/ 1 <= a /\ a <= ProgramLength
               \/ Exceptions!Handler <= a /\ a <= Exceptions!HandlerEnd - 1
  BY <1>4 DEF Exceptions!Instructions
<1> QED
  BY <1>1, <1>2, <1>4, <1>5, <1>6

\* The program does one instruction more.
LEMMA DoneNext ==
  ASSUME NEW a \in Int, a = Len(done) + 1, a \in Exceptions!Program,
         done \in Seq(Nat), \A k \in 1..Len(done) : done[k] = k,
         done' = Exceptions!Noted(a)
  PROVE  /\ done' \in Seq(Nat) /\ \A k \in 1..Len(done') : done'[k] = k
         /\ Len(done') = Len(done) + 1
<1>1. done' = Append(done, a) /\ Len(done) \in Nat
  BY DEF Exceptions!Noted
<1>2. a \in Nat
  BY <1>1
<1>3. /\ Len(done') = Len(done) + 1 /\ done'[Len(done) + 1] = a
      /\ \A k \in 1..Len(done) : done'[k] = done[k]
  BY <1>1, <1>2, AppendProperties
<1>4. done' \in Seq(Nat)
  BY <1>1, <1>2, AppendProperties
<1>5. \A k \in 1..Len(done') : done'[k] = k
  BY <1>1, <1>3
<1> QED
  BY <1>3, <1>4, <1>5

LEMMA InitExceptionsInv == Exceptions!Init => ExceptionsInv
<1> SUFFICES ASSUME Exceptions!Init PROVE ExceptionsInv
  OBVIOUS
<1>1. ProgramLength \in Nat
  BY ExceptionsConstants
<1>2. at = "run" /\ pc = 1 /\ ea = 0 /\ running_pie = TRUE /\ stack = <<>> /\ done = <<>>
  BY DEF Exceptions!Init
<1>3. done \in Seq(Nat) /\ Len(done) = 0
  BY <1>2
<1>4. 1 <= pc /\ pc <= ProgramLength + 1 /\ Len(done) = pc - 1
  BY <1>1, <1>2, <1>3
<1> QED
  BY <1>2, <1>3, <1>4 DEF ExceptionsInv

LEMMA ExceptionsStep ==
  ASSUME ExceptionsInv, Exceptions!Next
  PROVE  ExceptionsInv'
<1>0. ea \in Int /\ pc \in Int
  BY DEF ExceptionsInv
<1>a. done \in Seq(Nat) /\ \A k \in 1..Len(done) : done[k] = k
  BY DEF ExceptionsInv
<1>b. Len(done) \in Nat
  BY <1>a
<1>c. ProgramLength \in Nat /\ HandlerLength \in Nat
  BY ExceptionsConstants
<1>d. /\ Exceptions!Handler = ProgramLength + 2
      /\ Exceptions!HandlerEnd = ProgramLength + 2 + HandlerLength
  BY ExceptionsConstants
<1>1. CASE Exceptions!Execute
  <2>1. /\ at = "run" /\ at' = "run" /\ pc' = pc + 1 /\ ea' = ea /\ stack' = stack
        /\ running_pie' = running_pie
    BY <1>1 DEF Exceptions!Execute
  <2>2. pc \in Exceptions!Instructions /\ done' = Exceptions!Noted(pc)
    BY <1>1 DEF Exceptions!Execute
  <2>3. CASE pc <= ProgramLength + 1
    <3>1. 1 <= pc /\ stack = <<>> /\ running_pie = TRUE /\ Len(done) = pc - 1
      BY <2>1, <2>3, <1>0, <1>c, <1>d DEF ExceptionsInv
    <3>2. pc <= ProgramLength
      BY <1>0, <1>c, <1>d, <2>2, <2>3, ExceptionsConstants
    <3>3. pc \in Exceptions!Program
      BY <1>0, <3>1, <3>2, ExceptionsConstants
    <3>4. /\ done' \in Seq(Nat) /\ \A k \in 1..Len(done') : done'[k] = k
          /\ Len(done') = Len(done) + 1
      BY <1>0, <1>a, <1>b, <2>2, <3>1, <3>3, DoneNext
    <3>5. /\ ea' \in Int /\ pc' \in Int /\ 1 <= pc' /\ pc' <= ProgramLength + 1
          /\ Len(done') = pc' - 1
      BY <1>0, <1>b, <1>c, <2>1, <3>1, <3>2, <3>4
    <3> QED
      BY <2>1, <3>1, <3>4, <3>5 DEF ExceptionsInv
  <2>4. CASE ~(pc <= ProgramLength + 1)
    <3>1. Exceptions!Handler <= pc /\ running_pie = FALSE /\ Serving
      BY <2>1, <2>4 DEF ExceptionsInv
    <3>2. pc <= Exceptions!HandlerEnd - 1 /\ pc \notin Exceptions!Program
      BY <1>0, <1>c, <2>2, <2>4, ExceptionsConstants
    <3>3. done' = done
      BY <2>2, <3>2 DEF Exceptions!Noted
    <3>4. pc' \in Int /\ Exceptions!Handler <= pc' /\ pc' <= Exceptions!HandlerEnd
      BY <1>0, <1>c, <1>d, <2>1, <3>1, <3>2
    <3> QED
      BY <1>0, <1>a, <2>1, <3>1, <3>3, <3>4 DEF ExceptionsInv, Serving
  <2> QED
    BY <2>3, <2>4
<1>2. CASE Exceptions!Raise \/ Exceptions!Interrupt
  <2>1. /\ at = "run" /\ at' = "entry" /\ ea' = pc + 1 /\ estatus' = running_pie
        /\ running_pie' = FALSE /\ pc' = pc /\ stack' = stack /\ done' = done
    BY <1>2 DEF Exceptions!Raise, Exceptions!Interrupt, Exceptions!Exception, Exceptions!Goes
  <2>2. pc \in Exceptions!Instructions /\ (running_pie \/ pc \in Emulated \cup Odd)
    BY <1>2 DEF Exceptions!Raise, Exceptions!Interrupt, Exceptions!Raises
  <2>3. pc <= ProgramLength + 1
    <3> SUFFICES ASSUME ~(pc <= ProgramLength + 1) PROVE FALSE
      OBVIOUS
    <3>1. Exceptions!Handler <= pc /\ running_pie = FALSE
      BY <2>1 DEF ExceptionsInv
    <3>2. pc <= Exceptions!HandlerEnd - 1
      BY <1>0, <1>c, <2>2, ExceptionsConstants
    <3> QED
      BY <1>0, <2>2, <3>1, <3>2, ExceptionsConstants
  <2>4. 1 <= pc /\ stack = <<>> /\ running_pie = TRUE /\ Len(done) = pc - 1
    BY <2>1, <2>3, <1>0, <1>c, <1>d DEF ExceptionsInv
  <2>5. pc <= ProgramLength
    BY <1>0, <1>c, <1>d, <2>2, <2>3, ExceptionsConstants
  <2>6. ea' \in Int /\ Len(done') = ea' - 2 /\ 1 <= ea' - 1 /\ ea' - 1 <= ProgramLength
    BY <1>0, <1>b, <1>c, <2>1, <2>4, <2>5
  <2> QED
    BY <1>0, <1>a, <2>1, <2>4, <2>6 DEF ExceptionsInv
<1>3. CASE Exceptions!Line \/ Exceptions!Register
  <2>1. /\ at' = at /\ pc' = pc /\ ea' = ea /\ running_pie' = running_pie /\ estatus' = estatus
        /\ stack' = stack /\ r2' = r2 /\ done' = done
    BY <1>3 DEF Exceptions!Line, Exceptions!Register
  <2> QED
    BY <2>1 DEF ExceptionsInv, Serving
<1>4. CASE Exceptions!Entry
  <2>1. /\ at = "entry" /\ at' = "irqtest" /\ pc' = pc /\ ea' = ea /\ running_pie' = running_pie
        /\ done' = done /\ stack' = Append(stack, [estatus |-> estatus, ret |-> ea - 1])
    BY <1>4 DEF Exceptions!Entry, Exceptions!Goes
  <2>2. estatus = TRUE /\ stack = <<>> /\ running_pie = FALSE
    BY <2>1 DEF ExceptionsInv
  <2>3. stack' = Frame(TRUE, ea - 1)
    BY <2>1, <2>2, FrameIsRead
  <2>4. Len(done) = ea - 2 /\ 1 <= ea - 1 /\ ea - 1 <= ProgramLength
    BY <2>1 DEF ExceptionsInv
  <2> QED
    BY <1>0, <1>a, <2>1, <2>2, <2>3, <2>4 DEF ExceptionsInv
<1>5. CASE Exceptions!Irq
  <2>1. at = "irqtest" /\ at' = "exit" /\ pc' = pc /\ ea' = ea /\ stack' = stack /\ done' = done
    BY <1>5 DEF Exceptions!Irq, Exceptions!Goes
  <2>2. stack = Frame(TRUE, ea - 1) /\ Len(done) = ea - 2 /\ ea - 1 <= ProgramLength
    BY <2>1 DEF ExceptionsInv
  <2>3. ea - 1 = Len(done) + 1 /\ Len(done) <= ProgramLength
    BY <1>0, <1>b, <1>c, <2>2
  <2> QED
    BY <1>0, <1>a, <2>1, <2>2, <2>3 DEF ExceptionsInv
<1>6. CASE Exceptions!Soft
  <2>1. /\ at = "irqtest" /\ at' \in {"emulate", "unknown"} /\ pc' = pc /\ ea' = ea
        /\ running_pie' = running_pie /\ done' = done
        /\ stack' = [stack EXCEPT ![Len(stack)].ret = ea]
    BY <1>6 DEF Exceptions!Soft, Exceptions!Goes, Exceptions!NotIrq, Exceptions!WithReturn
  <2>2. /\ stack = Frame(TRUE, ea - 1) /\ running_pie = FALSE
        /\ Len(done) = ea - 2 /\ 1 <= ea - 1 /\ ea - 1 <= ProgramLength
    BY <2>1 DEF ExceptionsInv
  <2>3. stack' = Frame(TRUE, ea)
    BY <2>1, <2>2, FrameReturn
  <2> QED
    BY <1>0, <1>a, <2>1, <2>2, <2>3 DEF ExceptionsInv, Serving
<1>7. CASE Exceptions!Emulate
  <2>1. /\ at = "emulate" /\ at' = "exit" /\ pc' = pc /\ ea' = ea /\ stack' = stack
        /\ done' = Exceptions!Noted(ea - 1)
    BY <1>7 DEF Exceptions!Emulate, Exceptions!Goes
  <2>2. /\ stack = Frame(TRUE, ea) /\ Len(done) = ea - 2 /\ 1 <= ea - 1 /\ ea - 1 <= ProgramLength
    BY <2>1 DEF ExceptionsInv, Serving
  <2>3. ea - 1 \in Int /\ ea - 1 = Len(done) + 1 /\ ea - 1 \in Exceptions!Program
    BY <1>0, <1>b, <2>2, ExceptionsConstants
  <2>4. /\ done' \in Seq(Nat) /\ \A k \in 1..Len(done') : done'[k] = k
        /\ Len(done') = Len(done) + 1
    BY <1>a, <2>1, <2>3, DoneNext
  <2>5. ea = Len(done') + 1 /\ Len(done') <= ProgramLength
    BY <1>0, <1>b, <1>c, <2>2, <2>4
  <2> QED
    BY <1>0, <2>1, <2>2, <2>4, <2>5 DEF ExceptionsInv
<1>8. CASE Exceptions!CallHandler
  <2>1. /\ at = "unknown" /\ at' = "run" /\ pc' = Exceptions!Handler /\ ea' = ea
        /\ running_pie' = running_pie /\ stack' = stack /\ done' = done
    BY <1>8 DEF Exceptions!CallHandler, Exceptions!Goes
  <2>2. Serving /\ running_pie = FALSE
    BY <2>1 DEF ExceptionsInv
  <2>3. pc' \in Int /\ Exceptions!Handler <= pc' /\ pc' <= Exceptions!HandlerEnd
    BY <1>c, <1>d, <2>1
  <2> QED
    BY <1>0, <1>a, <2>1, <2>2, <2>3 DEF ExceptionsInv, Serving
<1>9. CASE Exceptions!Break
  <2>1. at' = "break" /\ pc' = pc /\ ea' = ea /\ done' = done
    BY <1>9 DEF Exceptions!Break, Exceptions!Goes
  <2> QED
    BY <1>0, <1>a, <2>1 DEF ExceptionsInv
<1>10. CASE Exceptions!HandlerReturns
  <2>1. /\ at = "run" /\ at' = "returned" /\ pc = Exceptions!HandlerEnd
        /\ pc' = pc /\ ea' = ea /\ stack' = stack
        /\ \/ r2' = Exceptions!REISSUE /\ done' = done
           \/ r2' = Exceptions!SKIP /\ done' = Exceptions!Noted(Exceptions!Cause)
    BY <1>10 DEF Exceptions!HandlerReturns, Exceptions!Goes
  <2>2. Serving
    <3>1. ~(pc <= ProgramLength + 1)
      BY <1>0, <1>c, <1>d, <2>1
    <3> QED
      BY <2>1, <3>1 DEF ExceptionsInv
  <2>3. stack = Frame(TRUE, ea) /\ Len(done) = ea - 2 /\ 1 <= ea - 1 /\ ea - 1 <= ProgramLength
    BY <2>2 DEF Serving
  <2>4. Exceptions!Cause = ea - 1
    BY <2>3, FrameIsRead DEF Exceptions!Cause, Exceptions!Top
  <2>5. ea - 1 \in Int /\ ea - 1 = Len(done) + 1 /\ ea - 1 \in Exceptions!Program
    BY <1>0, <1>b, <2>3, ExceptionsConstants
  <2>6. CASE r2' = Exceptions!REISSUE /\ done' = done
    BY <1>0, <1>a, <2>1, <2>3, <2>6 DEF ExceptionsInv
  <2>7. CASE r2' = Exceptions!SKIP /\ done' = Exceptions!Noted(ea - 1)
    <3>1. /\ done' \in Seq(Nat) /\ \A k \in 1..Len(done') : done'[k] = k
          /\ Len(done') = Len(done) + 1
      BY <1>a, <2>5, <2>7, DoneNext
    <3>2. Len(done') = ea - 1
      BY <1>0, <1>b, <2>3, <3>1
    <3> QED
      BY <1>0, <2>1, <2>3, <2>7, <3>1, <3>2 DEF ExceptionsInv
  <2> QED
    BY <2>1, <2>4, <2>6, <2>7
<1>11. CASE Exceptions!Answer
  <2>1. /\ at = "returned" /\ at' = "exit" /\ pc' = pc /\ ea' = ea /\ done' = done
        /\ stack' = (IF r2 # 0 THEN stack ELSE [stack EXCEPT ![Len(stack)].ret = ea - 1])
    BY <1>11 DEF Exceptions!Answer, Exceptions!Goes, Exceptions!WithReturn
  <2>2. stack = Frame(TRUE, ea) /\ 1 <= ea - 1 /\ ea - 1 <= ProgramLength
    BY <2>1 DEF ExceptionsInv
  <2>3. CASE r2 = Exceptions!SKIP /\ Len(done) = ea - 1
    <3>1. stack' = stack
      BY <2>1, <2>3 DEF Exceptions!SKIP
    <3>2. ea = Len(done) + 1 /\ Len(done) <= ProgramLength
      BY <1>0, <1>b, <2>2, <2>3
    <3> QED
      BY <1>0, <1>a, <2>1, <2>2, <3>1, <3>2 DEF ExceptionsInv
  <2>4. CASE r2 = Exceptions!REISSUE /\ Len(done) = ea - 2
    <3>1. stack' = Frame(TRUE, ea - 1)
      BY <2>1, <2>2, <2>4, FrameReturn DEF Exceptions!REISSUE
    <3>2. ea - 1 = Len(done) + 1 /\ Len(done) <= ProgramLength
      BY <1>0, <1>b, <1>c, <2>2, <2>4
    <3> QED
      BY <1>0, <1>a, <2>1, <3>1, <3>2 DEF ExceptionsInv
  <2> QED
    BY <2>1, <2>3, <2>4 DEF ExceptionsInv
<1>12. CASE Exceptions!Exit
  <2>1. /\ at = "exit" /\ at' = "run" /\ done' = done
        /\ pc' = stack[Len(stack)].ret /\ ea' = stack[Len(stack)].ret
        /\ running_pie' = stack[Len(stack)].estatus /\ stack' = SubSeq(stack, 1, Len(stack) - 1)
    BY <1>12 DEF Exceptions!Exit, Exceptions!Goes, Exceptions!Top, Exceptions!Restored
  <2>2. stack = Frame(TRUE, Len(done) + 1) /\ Len(done) <= ProgramLength
    BY <2>1 DEF ExceptionsInv
  <2>3. pc' = Len(done) + 1 /\ ea' = Len(done) + 1 /\ running_pie' = TRUE /\ stack' = <<>>
    BY <2>1, <2>2, FrameIsRead
  <2>4. pc' \in Int /\ ea' \in Int /\ 1 <= pc' /\ pc' <= ProgramLength + 1 /\ Len(done') = pc' - 1
    <3>1. pc' = Len(done) + 1 /\ ea' = Len(done) + 1
      BY <2>3
    <3>2. Len(done) <= ProgramLength
      BY <2>2
    <3>3. Len(done') = Len(done)
      BY <2>1
    <3> QED
      BY <1>b, <1>c, <3>1, <3>2, <3>3
  <2> QED
    BY <1>a, <2>1, <2>3, <2>4 DEF ExceptionsInv
<1> QED
  BY <1>1, <1>2, <1>3, <1>4, <1>5, <1>6, <1>7, <1>8, <1>9, <1>10, <1>11, <1>12
     DEF Exceptions!Next, Exceptions!Hardware, Exceptions!Hal

-----------------------------------------------------------------------------
LEMMA ExceptionsAlone == [KernelNext]_kernel => [Exceptions!Next]_(Exceptions!vars)
BY DEF KernelNext, kernel, exceptions, Exceptions!vars

\* Every instruction of the program is executed or skipped once and in order, on an
\* empty exception stack and with the program's own interrupt enable, whatever the
\* program, the handler and the number of interrupts and exceptions that come between
\* (alt_exception_entry.S, alt_instruction_exception_entry.c).
THEOREM ProgramInOrder == KernelSpec => []ExceptionsInOrder
<1>1. KernelInit => ExceptionsInv
  BY InitExceptionsInv DEF KernelInit
<1>2. ExceptionsInv /\ [KernelNext]_kernel => ExceptionsInv'
  <2> SUFFICES ASSUME ExceptionsInv, [Exceptions!Next]_(Exceptions!vars) PROVE ExceptionsInv'
    BY ExceptionsAlone
  <2>1. CASE Exceptions!Next
    BY <2>1, ExceptionsStep
  <2>2. CASE UNCHANGED Exceptions!vars
    BY <2>2 DEF ExceptionsInv, Serving, Exceptions!vars
  <2> QED
    BY <2>1, <2>2
<1>3. ExceptionsInv => ExceptionsInOrder
  <2> SUFFICES ASSUME ExceptionsInv PROVE ExceptionsInOrder
    OBVIOUS
  <2>1. \A k \in 1..Len(done) : done[k] = k
    BY DEF ExceptionsInv
  <2>2. ASSUME at = "run", pc \in Exceptions!Program
        PROVE  Len(done) = pc - 1 /\ stack = <<>> /\ running_pie
    <3>1. pc \in Int /\ ProgramLength \in Nat /\ pc <= ProgramLength
      BY <2>2, ExceptionsConstants DEF ExceptionsInv
    <3>2. ~(Exceptions!Handler <= pc)
      BY <3>1, ExceptionsConstants
    <3> QED
      BY <2>2, <3>2 DEF ExceptionsInv
  <2> QED
    BY <2>1, <2>2 DEF ExceptionsInOrder, Exceptions!InOrder, Exceptions!Balanced
<1> QED
  BY <1>1, <1>2, <1>3, PTL DEF KernelSpec

-----------------------------------------------------------------------------
(* Interrupts. *)

LEMMA MinIsMember ==
  ASSUME NEW S \in SUBSET Nat, S # {}
  PROVE  Min(S) \in S
<1>1. IsWellFoundedOn(OpToRel(<, Nat), Nat)
  BY NatLessThanWellFounded
<1>2. PICK m \in S : \A y \in S : ~(<<y, m>> \in OpToRel(<, Nat))
  BY <1>1, WFMin
<1>3. \A y \in S : ~(y < m)
  BY <1>2 DEF OpToRel
<1>4. m \in Nat /\ \A y \in S : y \in Nat /\ m <= y
  BY <1>3
<1> QED
  BY <1>4 DEF Min

\* The program's labels, and those of alt_irq_handler and the routines it calls.
Labels == {"run", "shut", "handler", "context", "off", "active", "ienable", "on", "reopen"}
Inside == {"look", "dispatch", "isr", "open"}
Frames ==
  [irq : Irqs \cup {ALT_NIRQ}, pc : Labels \cup Inside, job : Jobs, back : {"run", "look"},
   ctx : BOOLEAN, outer : BOOLEAN, active : SUBSET Irqs, old : SUBSET Irqs, section : BOOLEAN]
Program == threads[1]

\* The stack: the program at the bottom, in its own code; above it routines that
\* let others in, but for the one on top.
StackInv ==
  /\ threads \in Seq(Frames) /\ Len(threads) > 0
  /\ Program.pc \in Labels /\ Program.back = "run"
  /\ \A k \in 2..Len(threads) :
       /\ threads[k].pc \in Inside
       /\ k < Len(threads) => threads[k].pc = "open"

\* What the lines, tables and registers are.
TablesOK ==
  /\ alt_irq \in [Irqs -> [handler : Isrs \cup {NULL}, context : Isrs \cup {NULL}]]
  /\ alt_irq_active \subseteq Irqs /\ alt_priority_mask \subseteq Irqs
  /\ ienable \subseteq Irqs /\ asserted \subseteq Irqs
  /\ rc \in {0, -EINVAL}

LEMMA IrqsAreNatural ==
  /\ ALT_NIRQ \in Nat /\ Irqs \subseteq Nat /\ 0 \in Irqs
  /\ \A j \in Irqs \cup {ALT_NIRQ} : j \in Int
BY KernelAssumption DEF InterruptsAssumption, Irqs

LEMMA StackIsSeq == StackInv => Len(threads) \in Nat /\ Len(threads) > 0
<1> SUFFICES ASSUME StackInv PROVE Len(threads) \in Nat /\ Len(threads) > 0
  OBVIOUS
<1>1. threads \in Seq(Frames)
  BY DEF StackInv
<1>2. Len(threads) \in Nat
  BY <1>1
<1>3. Len(threads) > 0
  BY DEF StackInv
<1> QED
  BY <1>2, <1>3

LEMMA AtLeastTwo ==
  ASSUME NEW n \in Nat, n > 0, n # 1
  PROVE  n >= 2 /\ n \in 2..n
OBVIOUS

LEMMA NotOne ==
  ASSUME NEW n \in Nat
  PROVE  (n >= 2 => n # 1) /\ (n # 1 => n + 1 # 2) /\ n + 1 - 1 = n
OBVIOUS

LEMMA ProgramRuns ==
  ASSUME StackInv, Top.pc \in Labels
  PROVE  Len(threads) = 1 /\ Top = Program
<1>1. Len(threads) \in Nat /\ Len(threads) > 0
  BY StackIsSeq
<1>2. Len(threads) = 1
  <2> SUFFICES ASSUME Len(threads) # 1 PROVE FALSE
    OBVIOUS
  <2>1. Len(threads) \in 2..Len(threads)
    BY <1>1, AtLeastTwo
  <2>2. Top.pc \in Inside
    BY <2>1 DEF StackInv, Top
  <2> QED
    BY <2>2 DEF Labels, Inside
<1> QED
  BY <1>2 DEF Top, Program

LEMMA RoutineRuns ==
  ASSUME StackInv, Top.pc \in Inside
  PROVE  Len(threads) \in Nat /\ Len(threads) >= 2
<1>1. Len(threads) \in Nat /\ Len(threads) > 0
  BY StackIsSeq
<1>2. Len(threads) # 1
  BY DEF StackInv, Top, Program, Labels, Inside
<1> QED
  BY <1>1, <1>2, AtLeastTwo

LEMMA TopIsFrame ==
  ASSUME StackInv
  PROVE  Top \in Frames /\ Program \in Frames
<1>1. threads \in Seq(Frames) /\ Len(threads) > 0
  BY DEF StackInv
<1>2. Len(threads) \in 1..Len(threads) /\ 1 \in 1..Len(threads)
  BY <1>1
<1> QED
  BY <1>1, <1>2 DEF Top, Program

\* The activation on top goes on.
LEMMA BecomesFrame ==
  ASSUME StackInv, NEW a \in Frames, Becomes(a)
  PROVE  /\ threads' \in Seq(Frames) /\ Len(threads') = Len(threads) /\ threads'[Len(threads)] = a
         /\ \A k \in 1..Len(threads) - 1 : threads'[k] = threads[k]
<1>1. threads \in Seq(Frames) /\ Len(threads) > 0
  BY DEF StackInv
<1>2. Len(threads) \in Nat /\ Len(threads) \in 1..Len(threads)
  BY <1>1
<1>3. threads' = [threads EXCEPT ![Len(threads)] = a]
  BY DEF Becomes
<1>4. /\ threads' \in Seq(Frames) /\ Len(threads') = Len(threads)
      /\ \A k \in 1..Len(threads) : threads'[k] = IF k = Len(threads) THEN a ELSE threads[k]
  BY <1>1, <1>2, <1>3, ExceptSeq
<1> QED
  BY <1>2, <1>4

\* Likewise, when the program is in its own code.
LEMMA ProgramBecomes ==
  ASSUME StackInv, Top.pc \in Labels, NEW a \in Frames, Becomes(a), a.pc \in Labels, a.back = "run"
  PROVE  StackInv' /\ Len(threads) = 1 /\ Top = Program /\ Len(threads') = 1 /\ Program' = a
<1>1. Len(threads) = 1 /\ Top = Program
  BY ProgramRuns
<1>2. threads' \in Seq(Frames) /\ Len(threads') = Len(threads) /\ threads'[Len(threads)] = a
  BY BecomesFrame
<1>3. Len(threads') = 1 /\ Program' = a
  BY <1>1, <1>2 DEF Program
<1>4. StackInv'
  BY <1>2, <1>3 DEF StackInv
<1> QED
  BY <1>1, <1>3, <1>4

-----------------------------------------------------------------------------
\* The program is in a registration, or may be interrupted in its call.
Registers == Program.job.kind = "register"
Open == Program.pc \in {"run", "shut"} \/ (Program.pc = "off" /\ ~Registers)

\* The program's interrupt enable, and what its calls have kept of it.
PieInv ==
  /\ pie \in BOOLEAN
  /\ Program.pc \in {"shut", "handler", "context", "reopen"} => Registers
  /\ Program.pc = "run" => ~Registers
  /\ Registers /\ Program.pc # "shut" => (Program.outer <=> ~Program.section)
  /\ Program.pc \in {"active", "ienable", "on"} => (Program.ctx <=> ~Registers /\ ~Program.section)
  /\ IF Len(threads) = 1
     THEN pie <=> Open /\ ~Program.section
     ELSE Open /\ ~Program.section /\ (pie <=> Top.pc = "open")

\* Lines that are enabled have a handler with its context, but for the one whose
\* registration is under way.
Changing(j) == Registers /\ j = Program.job.irq
TableInv ==
  /\ Registers /\ Program.pc \in {"context", "off", "active"} =>
       alt_irq[Program.job.irq].handler = Program.job.isr
  /\ Program.job.kind = "enable" => alt_irq[Program.job.irq].handler # NULL
  /\ \A j \in Irqs :
       /\ alt_irq[j].context = alt_irq[j].handler \/ (Program.pc = "context" /\ Changing(j))
       /\ j \in alt_irq_active =>
            \/ alt_irq[j].handler # NULL
            \/ Program.pc \in {"context", "off", "active"} /\ Changing(j)
       /\ j \in ienable =>
            \/ alt_irq[j].handler # NULL
            \/ Program.pc \in {"context", "off", "active", "ienable"} /\ Changing(j)

USE DEF table, registers

LEMMA NoJobIsJob == NoJob \in Jobs /\ NoJob.kind = "disable"
BY IrqsAreNatural DEF NoJob, Jobs

LEMMA CallSteps ==
  ASSUME StackInv, TablesOK, PieInv, TableInv,
         Registering \/ EnterSection \/ LeaveSection \/ \E job \in Jobs : Call(job)
  PROVE  StackInv' /\ PieInv' /\ TableInv' /\ Len(threads) = 1 /\ Len(threads') = 1
<1>0. Top \in Frames /\ Top.job \in Jobs /\ Top.job.irq \in Irqs
  BY TopIsFrame DEF Frames, Jobs
<1>a. pie \in BOOLEAN
  BY DEF PieInv
<1>b. alt_irq \in [Irqs -> [handler : Isrs \cup {NULL}, context : Isrs \cup {NULL}]]
  BY DEF TablesOK
<1>c. Top.ctx \in BOOLEAN /\ Top.outer \in BOOLEAN
  BY TopIsFrame DEF Frames
<1>1. CASE RegisterShut
  <2> DEFINE a == [Top EXCEPT !.outer = pie, !.pc = "handler"]
  <2>1. Top.pc = "shut" /\ Becomes(a)
    BY <1>1 DEF RegisterShut, DisableAll, At
  <2>2. /\ pie' = FALSE
        /\ alt_irq' = alt_irq /\ alt_irq_active' = alt_irq_active /\ ienable' = ienable
    BY <1>1 DEF RegisterShut, DisableAll, At
  <2>3. a \in Frames
    BY <1>0, <1>a DEF Frames, Labels
  <2>4. /\ a.pc = "handler" /\ a.job = Top.job /\ a.outer = pie
        /\ a.ctx = Top.ctx /\ a.section = Top.section /\ a.back = Top.back
    BY <1>0 DEF Frames
  <2>5. Top.back = "run"
    BY <2>1, ProgramRuns DEF StackInv, Labels
  <2> HIDE DEF a
  <2>6. /\ StackInv' /\ Len(threads) = 1 /\ Len(threads') = 1
        /\ Top = Program /\ Program' = a
    BY <2>1, <2>3, <2>4, <2>5, ProgramBecomes DEF Labels
  <2>7. PieInv'
    BY <1>1, <1>0, <1>a, <2>1, <2>2, <2>4, <2>5, <2>6 DEF PieInv, Registers, Open
  <2>8. TableInv'
    BY <1>1, <1>0, <1>b, <2>1, <2>2, <2>4, <2>5, <2>6
       DEF TableInv, PieInv, Changing, Registers, Open
  <2> QED
    BY <2>6, <2>7, <2>8
<1>2. CASE RegisterHandler
  <2> DEFINE a == [Top EXCEPT !.pc = "context"]
  <2>1. Top.pc = "handler" /\ Becomes(a)
    BY <1>2 DEF RegisterHandler, At
  <2>2. /\ pie' = pie /\ alt_irq_active' = alt_irq_active /\ ienable' = ienable
        /\ alt_irq' = [alt_irq EXCEPT ![Top.job.irq].handler = Top.job.isr]
    BY <1>2 DEF RegisterHandler, At
  <2>3. a \in Frames
    BY <1>0, <1>a DEF Frames, Labels
  <2>4. /\ a.pc = "context" /\ a.job = Top.job /\ a.outer = Top.outer
        /\ a.ctx = Top.ctx /\ a.section = Top.section /\ a.back = Top.back
    BY <1>0 DEF Frames
  <2>5. Top.back = "run"
    BY <2>1, ProgramRuns DEF StackInv, Labels
  <2> HIDE DEF a
  <2>6. /\ StackInv' /\ Len(threads) = 1 /\ Len(threads') = 1
        /\ Top = Program /\ Program' = a
    BY <2>1, <2>3, <2>4, <2>5, ProgramBecomes DEF Labels
  <2>7. PieInv'
    BY <1>2, <1>0, <1>a, <2>1, <2>2, <2>4, <2>5, <2>6 DEF PieInv, Registers, Open
  <2>8. TableInv'
    BY <1>2, <1>0, <1>b, <2>1, <2>2, <2>4, <2>5, <2>6
       DEF TableInv, PieInv, Changing, Registers, Open
  <2> QED
    BY <2>6, <2>7, <2>8
<1>3. CASE RegisterContext
  <2> DEFINE a == [Top EXCEPT !.pc = "off"]
  <2>1. Top.pc = "context" /\ Becomes(a)
    BY <1>3 DEF RegisterContext, At
  <2>2. /\ pie' = pie /\ alt_irq_active' = alt_irq_active /\ ienable' = ienable
        /\ alt_irq' = [alt_irq EXCEPT ![Top.job.irq].context = Top.job.isr]
    BY <1>3 DEF RegisterContext, At
  <2>3. a \in Frames
    BY <1>0, <1>a DEF Frames, Labels
  <2>4. /\ a.pc = "off" /\ a.job = Top.job /\ a.outer = Top.outer
        /\ a.ctx = Top.ctx /\ a.section = Top.section /\ a.back = Top.back
    BY <1>0 DEF Frames
  <2>5. Top.back = "run"
    BY <2>1, ProgramRuns DEF StackInv, Labels
  <2> HIDE DEF a
  <2>6. /\ StackInv' /\ Len(threads) = 1 /\ Len(threads') = 1
        /\ Top = Program /\ Program' = a
    BY <2>1, <2>3, <2>4, <2>5, ProgramBecomes DEF Labels
  <2>7. PieInv'
    BY <1>3, <1>0, <1>a, <2>1, <2>2, <2>4, <2>5, <2>6 DEF PieInv, Registers, Open
  <2>8. TableInv'
    BY <1>3, <1>0, <1>b, <2>1, <2>2, <2>4, <2>5, <2>6
       DEF TableInv, PieInv, Changing, Registers, Open
  <2> QED
    BY <2>6, <2>7, <2>8
<1>4. CASE Off
  <2> DEFINE a == [Top EXCEPT !.ctx = pie, !.pc = "active"]
  <2>1. Top.pc = "off" /\ Becomes(a)
    BY <1>4 DEF Off, DisableAll, At
  <2>2. /\ pie' = FALSE
        /\ alt_irq' = alt_irq /\ alt_irq_active' = alt_irq_active /\ ienable' = ienable
    BY <1>4 DEF Off, DisableAll, At
  <2>3. a \in Frames
    BY <1>0, <1>a DEF Frames, Labels
  <2>4. /\ a.pc = "active" /\ a.job = Top.job /\ a.outer = Top.outer
        /\ a.ctx = pie /\ a.section = Top.section /\ a.back = Top.back
    BY <1>0 DEF Frames
  <2>5. Top.back = "run"
    BY <2>1, ProgramRuns DEF StackInv, Labels
  <2> HIDE DEF a
  <2>6. /\ StackInv' /\ Len(threads) = 1 /\ Len(threads') = 1
        /\ Top = Program /\ Program' = a
    BY <2>1, <2>3, <2>4, <2>5, ProgramBecomes DEF Labels
  <2>7. PieInv'
    BY <1>4, <1>0, <1>a, <2>1, <2>2, <2>4, <2>5, <2>6 DEF PieInv, Registers, Open
  <2>8. TableInv'
    BY <1>4, <1>0, <1>b, <2>1, <2>2, <2>4, <2>5, <2>6
       DEF TableInv, PieInv, Changing, Registers, Open
  <2> QED
    BY <2>6, <2>7, <2>8
<1>5. CASE SetActive
  <2> DEFINE a == [Top EXCEPT !.pc = "ienable"]
  <2>1. Top.pc = "active" /\ Becomes(a)
    BY <1>5 DEF SetActive, At
  <2>2. /\ pie' = pie /\ alt_irq' = alt_irq /\ ienable' = ienable
        /\ alt_irq_active' = IF Enables(Top.job) THEN alt_irq_active \cup {Top.job.irq}
                              ELSE alt_irq_active \ {Top.job.irq}
    BY <1>5 DEF SetActive, At
  <2>3. a \in Frames
    BY <1>0, <1>a DEF Frames, Labels
  <2>4. /\ a.pc = "ienable" /\ a.job = Top.job /\ a.outer = Top.outer
        /\ a.ctx = Top.ctx /\ a.section = Top.section /\ a.back = Top.back
    BY <1>0 DEF Frames
  <2>5. Top.back = "run"
    BY <2>1, ProgramRuns DEF StackInv, Labels
  <2> HIDE DEF a
  <2>6. /\ StackInv' /\ Len(threads) = 1 /\ Len(threads') = 1
        /\ Top = Program /\ Program' = a
    BY <2>1, <2>3, <2>4, <2>5, ProgramBecomes DEF Labels
  <2>7. PieInv'
    BY <1>5, <1>0, <1>a, <2>1, <2>2, <2>4, <2>5, <2>6 DEF PieInv, Registers, Open
  <2>8. TableInv'
    BY <1>5, <1>0, <1>b, <2>1, <2>2, <2>4, <2>5, <2>6
       DEF TableInv, PieInv, Changing, Registers, Open, Enables
  <2> QED
    BY <2>6, <2>7, <2>8
<1>6. CASE SetIenable
  <2> DEFINE a == [Top EXCEPT !.pc = "on"]
  <2>1. Top.pc = "ienable" /\ Becomes(a)
    BY <1>6 DEF SetIenable, At
  <2>2. /\ pie' = pie /\ alt_irq' = alt_irq /\ alt_irq_active' = alt_irq_active
        /\ ienable' = alt_irq_active
    BY <1>6 DEF SetIenable, At
  <2>3. a \in Frames
    BY <1>0, <1>a DEF Frames, Labels
  <2>4. /\ a.pc = "on" /\ a.job = Top.job /\ a.outer = Top.outer
        /\ a.ctx = Top.ctx /\ a.section = Top.section /\ a.back = Top.back
    BY <1>0 DEF Frames
  <2>5. Top.back = "run"
    BY <2>1, ProgramRuns DEF StackInv, Labels
  <2> HIDE DEF a
  <2>6. /\ StackInv' /\ Len(threads) = 1 /\ Len(threads') = 1
        /\ Top = Program /\ Program' = a
    BY <2>1, <2>3, <2>4, <2>5, ProgramBecomes DEF Labels
  <2>7. PieInv'
    BY <1>6, <1>0, <1>a, <2>1, <2>2, <2>4, <2>5, <2>6 DEF PieInv, Registers, Open
  <2>8. TableInv'
    BY <1>6, <1>0, <1>b, <2>1, <2>2, <2>4, <2>5, <2>6
       DEF TableInv, PieInv, Changing, Registers, Open
  <2> QED
    BY <2>6, <2>7, <2>8
<1>7. CASE On /\ Top.job.kind = "register"
  <2> DEFINE a == [Top EXCEPT !.pc = "reopen", !.job = Top.job]
  <2>1. Top.pc = "on" /\ Becomes(a)
    BY <1>7 DEF On, EnableAll, At
  <2>2. /\ pie' = Top.ctx
        /\ alt_irq' = alt_irq /\ alt_irq_active' = alt_irq_active /\ ienable' = ienable
    BY <1>7 DEF On, EnableAll, At
  <2>3. a \in Frames
    BY <1>0, <1>a DEF Frames, Labels
  <2>4. /\ a.pc = "reopen" /\ a.job = Top.job /\ a.outer = Top.outer
        /\ a.ctx = Top.ctx /\ a.section = Top.section /\ a.back = Top.back
    BY <1>0 DEF Frames
  <2>5. Top.back = "run"
    BY <2>1, ProgramRuns DEF StackInv, Labels
  <2> HIDE DEF a
  <2>6. /\ StackInv' /\ Len(threads) = 1 /\ Len(threads') = 1
        /\ Top = Program /\ Program' = a
    BY <2>1, <2>3, <2>4, <2>5, ProgramBecomes DEF Labels
  <2>9. ~pie' /\ Registers'
    BY <1>7, <2>1, <2>2, <2>4, <2>6 DEF PieInv, Registers
  <2>10. pie' \in BOOLEAN
    BY <1>c, <2>2
  <2>7. PieInv'
    BY <2>1, <2>2, <2>4, <2>6, <2>9, <2>10 DEF PieInv, Registers, Open
  <2>8. TableInv'
    BY <1>7, <1>0, <1>b, <2>1, <2>2, <2>4, <2>5, <2>6
       DEF TableInv, PieInv, Changing, Registers, Open
  <2> QED
    BY <2>6, <2>7, <2>8
<1>8. CASE On /\ Top.job.kind # "register"
  <2> DEFINE a == [Top EXCEPT !.pc = Top.back, !.job = NoJob]
  <2>1. Top.pc = "on" /\ Becomes(a)
    BY <1>8 DEF On, EnableAll, At
  <2>5. Top.back = "run"
    BY <2>1, ProgramRuns DEF StackInv, Labels
  <2>2. /\ pie' = Top.ctx
        /\ alt_irq' = alt_irq /\ alt_irq_active' = alt_irq_active /\ ienable' = ienable
    BY <1>8 DEF On, EnableAll, At
  <2>3. a \in Frames
    BY <1>0, <2>5, NoJobIsJob DEF Frames, Labels
  <2>4. /\ a.pc = Top.back /\ a.job = NoJob /\ a.outer = Top.outer
        /\ a.ctx = Top.ctx /\ a.section = Top.section /\ a.back = Top.back
    BY <1>0 DEF Frames
  <2> HIDE DEF a
  <2>6. /\ StackInv' /\ Len(threads) = 1 /\ Len(threads') = 1
        /\ Top = Program /\ Program' = a
    BY <2>1, <2>3, <2>4, <2>5, ProgramBecomes DEF Labels
  <2>9. pie' <=> ~Program.section
    BY <1>8, <2>1, <2>2, <2>6 DEF PieInv, Registers
  <2>10. pie' \in BOOLEAN
    BY <1>c, <2>2
  <2>7. PieInv'
    BY <2>4, <2>5, <2>6, <2>9, <2>10, NoJobIsJob DEF PieInv, Registers, Open
  <2>8. TableInv'
    BY NoJobIsJob, <1>8, <1>0, <1>b, <2>1, <2>2, <2>4, <2>5, <2>6
       DEF TableInv, PieInv, Changing, Registers, Open
  <2> QED
    BY <2>6, <2>7, <2>8
<1>9. CASE RegisterReopen
  <2> DEFINE a == [Top EXCEPT !.pc = Top.back, !.job = NoJob]
  <2>1. Top.pc = "reopen" /\ Becomes(a)
    BY <1>9 DEF RegisterReopen, EnableAll, At
  <2>5. Top.back = "run"
    BY <2>1, ProgramRuns DEF StackInv, Labels
  <2>2. /\ pie' = Top.outer
        /\ alt_irq' = alt_irq /\ alt_irq_active' = alt_irq_active /\ ienable' = ienable
    BY <1>9 DEF RegisterReopen, EnableAll, At
  <2>3. a \in Frames
    BY <1>0, <2>5, NoJobIsJob DEF Frames, Labels
  <2>4. /\ a.pc = Top.back /\ a.job = NoJob /\ a.outer = Top.outer
        /\ a.ctx = Top.ctx /\ a.section = Top.section /\ a.back = Top.back
    BY <1>0 DEF Frames
  <2> HIDE DEF a
  <2>6. /\ StackInv' /\ Len(threads) = 1 /\ Len(threads') = 1
        /\ Top = Program /\ Program' = a
    BY <2>1, <2>3, <2>4, <2>5, ProgramBecomes DEF Labels
  <2>9. pie' <=> ~Program.section
    BY <2>1, <2>2, <2>6 DEF PieInv, Registers
  <2>10. pie' \in BOOLEAN
    BY <1>c, <2>2
  <2>7. PieInv'
    BY <2>4, <2>5, <2>6, <2>9, <2>10, NoJobIsJob DEF PieInv, Registers, Open
  <2>8. TableInv'
    BY NoJobIsJob, <1>9, <1>0, <1>b, <2>1, <2>2, <2>4, <2>5, <2>6
       DEF TableInv, PieInv, Changing, Registers, Open
  <2> QED
    BY <2>6, <2>7, <2>8
<1>10. CASE EnterSection
  <2> DEFINE a == [Top EXCEPT !.section = TRUE]
  <2>1. Top.pc = "run" /\ Becomes(a)
    BY <1>10 DEF EnterSection, DisableAll, At
  <2>2. /\ pie' = FALSE
        /\ alt_irq' = alt_irq /\ alt_irq_active' = alt_irq_active /\ ienable' = ienable
    BY <1>10 DEF EnterSection, DisableAll, At
  <2>3. a \in Frames
    BY <1>0, <1>a DEF Frames, Labels
  <2>4. /\ a.pc = Top.pc /\ a.job = Top.job /\ a.outer = Top.outer
        /\ a.ctx = Top.ctx /\ a.section = TRUE /\ a.back = Top.back
    BY <1>0 DEF Frames
  <2>5. Top.back = "run"
    BY <2>1, ProgramRuns DEF StackInv, Labels
  <2> HIDE DEF a
  <2>6. /\ StackInv' /\ Len(threads) = 1 /\ Len(threads') = 1
        /\ Top = Program /\ Program' = a
    BY <2>1, <2>3, <2>4, <2>5, ProgramBecomes DEF Labels
  <2>7. PieInv'
    BY <1>10, <1>0, <1>a, <2>1, <2>2, <2>4, <2>5, <2>6 DEF PieInv, Registers, Open
  <2>8. TableInv'
    BY <1>10, <1>0, <1>b, <2>1, <2>2, <2>4, <2>5, <2>6
       DEF TableInv, PieInv, Changing, Registers, Open
  <2> QED
    BY <2>6, <2>7, <2>8
<1>11. CASE LeaveSection
  <2> DEFINE a == [Top EXCEPT !.section = FALSE]
  <2>1. Top.pc = "run" /\ Becomes(a)
    BY <1>11 DEF LeaveSection, EnableAll, At
  <2>2. /\ pie' = TRUE
        /\ alt_irq' = alt_irq /\ alt_irq_active' = alt_irq_active /\ ienable' = ienable
    BY <1>11 DEF LeaveSection, EnableAll, At
  <2>3. a \in Frames
    BY <1>0, <1>a DEF Frames, Labels
  <2>4. /\ a.pc = Top.pc /\ a.job = Top.job /\ a.outer = Top.outer
        /\ a.ctx = Top.ctx /\ a.section = FALSE /\ a.back = Top.back
    BY <1>0 DEF Frames
  <2>5. Top.back = "run"
    BY <2>1, ProgramRuns DEF StackInv, Labels
  <2> HIDE DEF a
  <2>6. /\ StackInv' /\ Len(threads) = 1 /\ Len(threads') = 1
        /\ Top = Program /\ Program' = a
    BY <2>1, <2>3, <2>4, <2>5, ProgramBecomes DEF Labels
  <2>7. PieInv'
    BY <1>11, <1>0, <1>a, <2>1, <2>2, <2>4, <2>5, <2>6 DEF PieInv, Registers, Open
  <2>8. TableInv'
    BY <1>11, <1>0, <1>b, <2>1, <2>2, <2>4, <2>5, <2>6
       DEF TableInv, PieInv, Changing, Registers, Open
  <2> QED
    BY <2>6, <2>7, <2>8
<1>12. ASSUME NEW job \in Jobs, Call(job)
      PROVE  StackInv' /\ PieInv' /\ TableInv' /\ Len(threads) = 1 /\ Len(threads') = 1
  <2> DEFINE next_pc == IF job.kind = "register" THEN "shut" ELSE "off"
             a == [Top EXCEPT !.job = job, !.back = Top.pc, !.pc = next_pc]
  <2>1. Top.pc = "run" /\ Becomes(a)
    BY <1>12, KernelAssumption DEF Call, Callable, At
  <2>2. /\ pie' = pie /\ alt_irq' = alt_irq /\ alt_irq_active' = alt_irq_active
        /\ ienable' = ienable /\ (job.kind = "enable" => alt_irq[job.irq].handler # NULL)
    BY <1>12 DEF Call
  <2>3. a \in Frames
    BY <1>0, <2>1 DEF Frames, Labels
  <2>4. /\ a.pc = next_pc /\ a.job = job /\ a.outer = Top.outer /\ a.ctx = Top.ctx
        /\ a.section = Top.section /\ a.back = "run"
    BY <1>0, <2>1 DEF Frames
  <2> HIDE DEF a
  <2>5. /\ StackInv' /\ Len(threads) = 1 /\ Len(threads') = 1
        /\ Top = Program /\ Program' = a
    BY <2>1, <2>3, <2>4, ProgramBecomes DEF Labels
  <2>6. PieInv'
    BY <1>0, <1>a, <2>1, <2>2, <2>4, <2>5 DEF PieInv, Registers, Open
  <2>7. TableInv'
    BY <1>0, <1>b, <2>1, <2>2, <2>4, <2>5 DEF TableInv, Changing, Registers
  <2> QED
    BY <2>5, <2>6, <2>7
<1> QED
  BY <1>1, <1>2, <1>3, <1>4, <1>5, <1>6, <1>7, <1>8, <1>9, <1>10, <1>11, <1>12 DEF Registering

-----------------------------------------------------------------------------
\* The lines that may interrupt the routine of a line, and those that may interrupt
\* the activation below k.
Below(line_) == {j \in Irqs : j < line_}
Above(k) == IF k = 2 THEN Irqs ELSE Below(threads[k - 1].irq)

\* The lines that are let in, now and after each routine.
MaskInv ==
  /\ alt_priority_mask = IF Len(threads) = 1 THEN Irqs
                         ELSE IF Top.pc = "open" THEN Below(Top.irq) ELSE Above(Len(threads))
  /\ ienable \subseteq alt_priority_mask
  /\ Top.pc = "dispatch" => Top.active # {} /\ Top.active \subseteq ienable
  /\ \A k \in 2..Len(threads) :
       /\ threads[k].pc \in {"isr", "open"} => threads[k].irq \in Above(k)
       /\ threads[k].pc = "open" => threads[k].old = Above(k)

\* The inductive invariant of registration and dispatch.
InterruptsInv ==
  StackInv /\ TablesOK /\ PieInv /\ TableInv /\ MaskInv /\ NestsByPriority

LEMMA RoutineBecomes ==
  ASSUME StackInv, Top.pc \in Inside, NEW a \in Frames, Becomes(a), a.pc \in Inside
  PROVE  /\ Len(threads) \in Nat /\ Len(threads) >= 2 /\ Len(threads') = Len(threads)
         /\ StackInv' /\ Top' = a /\ Program' = Program
         /\ \A k \in 1..Len(threads) - 1 : threads'[k] = threads[k]
<1>1. Len(threads) \in Nat /\ Len(threads) >= 2
  BY RoutineRuns
<1>2. /\ threads' \in Seq(Frames) /\ Len(threads') = Len(threads) /\ threads'[Len(threads)] = a
      /\ \A k \in 1..Len(threads) - 1 : threads'[k] = threads[k]
  BY BecomesFrame
<1>3. 1 \in 1..Len(threads) - 1
  BY <1>1
<1>4. Top' = a /\ Program' = Program
  BY <1>2, <1>3 DEF Top, Program
<1>5. ASSUME NEW k \in 2..Len(threads)
      PROVE  /\ threads'[k].pc \in Inside
             /\ k < Len(threads) => threads'[k].pc = "open"
  <2>1. CASE k = Len(threads)
    BY <1>2, <2>1
  <2>2. CASE k # Len(threads)
    <3>1. k \in 1..Len(threads) - 1 /\ k < Len(threads)
      BY <1>1, <2>2
    <3> QED
      BY <1>2, <3>1 DEF StackInv
  <2> QED
    BY <2>1, <2>2
<1>6. Program'.pc \in Labels /\ Program'.back = "run"
  BY <1>4 DEF StackInv
<1>7. Len(threads') > 0
  BY <1>1, <1>2
<1>8. StackInv'
  BY <1>2, <1>5, <1>6, <1>7 DEF StackInv
<1> QED
  BY <1>1, <1>2, <1>4, <1>8

LEMMA FrameIrq ==
  ASSUME StackInv, NEW k \in 2..Len(threads)
  PROVE  threads[k] \in Frames /\ threads[k].irq \in Int
<1>1. threads \in Seq(Frames) /\ k \in 1..Len(threads)
  BY StackIsSeq DEF StackInv
<1>2. threads[k] \in Frames
  BY <1>1
<1>3. threads[k].irq \in Irqs \cup {ALT_NIRQ}
  BY <1>2 DEF Frames
<1> QED
  BY <1>2, <1>3, IrqsAreNatural

LEMMA LessThanLess ==
  ASSUME NEW x \in Int, NEW y \in Int, NEW z \in Int, x < y, y < z
  PROVE  x < z
OBVIOUS

\* A routine goes on, under the same mask or another.
LEMMA RoutineMask ==
  ASSUME InterruptsInv, Top.pc \in Inside, NEW a \in Frames, Becomes(a), a.pc \in Inside,
         ienable' \subseteq alt_priority_mask',
         alt_priority_mask' = (IF a.pc = "open" THEN Below(a.irq) ELSE Above(Len(threads))),
         a.pc = "dispatch" => a.active # {} /\ a.active \subseteq ienable',
         a.pc \in {"isr", "open"} => a.irq \in Above(Len(threads)),
         a.pc = "open" => a.old = Above(Len(threads))
  PROVE  MaskInv' /\ NestsByPriority'
<1>0. StackInv /\ MaskInv /\ NestsByPriority
  BY DEF InterruptsInv
<1>1. /\ Len(threads) \in Nat /\ Len(threads) >= 2 /\ Len(threads') = Len(threads)
      /\ StackInv' /\ Top' = a /\ Program' = Program
      /\ \A k \in 1..Len(threads) - 1 : threads'[k] = threads[k]
  BY <1>0, RoutineBecomes
<1>2. Len(threads) \in Nat /\ Len(threads) >= 2
  BY <1>1
<1>3. ASSUME NEW k \in 2..Len(threads)
      PROVE  Above(k)' = Above(k)
  <2>1. k - 1 \in 1..Len(threads) - 1
    BY <1>2
  <2> QED
    BY <1>1, <2>1 DEF Above, Below
<1>4. Len(threads) \in 2..Len(threads) /\ threads'[Len(threads)] = a
  BY <1>1, <1>2 DEF Top
<1>5. ASSUME NEW k \in 2..Len(threads), k # Len(threads)
      PROVE  k \in 1..Len(threads) - 1 /\ threads'[k] = threads[k]
  <2>1. k \in 1..Len(threads) - 1
    BY <1>2, <1>5
  <2> QED
    BY <1>1, <2>1
<1>6. MaskInv'
  <2>1. ASSUME NEW k \in 2..Len(threads)
        PROVE  /\ threads'[k].pc \in {"isr", "open"} => threads'[k].irq \in Above(k)'
               /\ threads'[k].pc = "open" => threads'[k].old = Above(k)'
    <3>1. CASE k = Len(threads)
      BY <1>3, <1>4, <3>1
    <3>2. CASE k # Len(threads)
      BY <1>0, <1>3, <1>5, <3>2 DEF MaskInv
    <3> QED
      BY <3>1, <3>2
  <2>2. Len(threads') # 1
    BY <1>1, <1>2
  <2>3. alt_priority_mask' = IF Top'.pc = "open" THEN Below(Top'.irq) ELSE Above(Len(threads))'
    BY <1>1, <1>3, <1>4
  <2>4. \A k \in 2..Len(threads') :
          /\ threads'[k].pc \in {"isr", "open"} => threads'[k].irq \in Above(k)'
          /\ threads'[k].pc = "open" => threads'[k].old = Above(k)'
    BY <1>1, <2>1
  <2> QED
    BY <1>1, <2>2, <2>3, <2>4 DEF MaskInv
<1>7. ASSUME NEW j \in 2..Len(threads'), NEW k \in 2..Len(threads'), j < k,
             threads'[k].pc \notin {"look", "dispatch"}
      PROVE  threads'[k].irq < threads'[j].irq
  <2>1. j \in 2..Len(threads) /\ k \in 2..Len(threads) /\ j # Len(threads) /\ j \in Int /\ k \in Int
    BY <1>1, <1>2, <1>7
  <2>2. threads'[j] = threads[j]
    BY <1>5, <2>1
  <2>3. CASE k # Len(threads)
    BY <1>0, <1>5, <1>7, <2>1, <2>2, <2>3 DEF NestsByPriority
  <2>4. CASE k = Len(threads)
    <3> DEFINE m == Len(threads) - 1
    <3>1. m \in 2..Len(threads) /\ m < Len(threads) /\ Len(threads) # 2 /\ j <= m
      BY <1>2, <1>7, <2>1, <2>4
    <3>2. a.irq \in Below(threads[m].irq)
      <4>1. a.pc \in Inside /\ a.pc \notin {"look", "dispatch"}
        BY <1>4, <1>7, <2>4
      <4>2. a.irq \in Above(Len(threads))
        BY <4>1 DEF Inside
      <4> QED
        BY <3>1, <4>2 DEF Above
    <3>3. a.irq \in Int /\ a.irq < threads[m].irq
      <4>1. a.irq \in Irqs /\ a.irq < threads[m].irq
        BY <3>2 DEF Below
      <4> QED
        BY <4>1, IrqsAreNatural
    <3>4. CASE j = m
      BY <1>4, <2>2, <2>4, <3>3, <3>4
    <3>5. CASE j # m
      <4>1. threads[m].pc = "open" /\ j < m
        BY <1>0, <2>1, <3>1, <3>5 DEF StackInv
      <4>2. threads[m].irq < threads[j].irq
        BY <1>0, <2>1, <3>1, <4>1 DEF NestsByPriority
      <4>3. threads[m].irq \in Int /\ threads[j].irq \in Int
        BY <1>0, <2>1, <3>1, FrameIrq
      <4>4. a.irq < threads[j].irq
        BY <3>3, <4>2, <4>3, LessThanLess
      <4> QED
        BY <1>4, <2>2, <2>4, <4>4
    <3> QED
      BY <3>4, <3>5
  <2> QED
    BY <2>3, <2>4
<1> QED
  BY <1>6, <1>7 DEF NestsByPriority

\* The program's own calls leave the mask as it is.
LEMMA CallsMask ==
  ASSUME InterruptsInv, Registering \/ EnterSection \/ LeaveSection \/ \E job \in Jobs : Call(job)
  PROVE  InterruptsInv'
<1>0. StackInv /\ TablesOK /\ PieInv /\ TableInv /\ MaskInv
  BY DEF InterruptsInv
<1>1. StackInv' /\ PieInv' /\ TableInv' /\ Len(threads) = 1 /\ Len(threads') = 1
  BY <1>0, CallSteps
<1>2. Top \in Frames /\ Top.job \in Jobs
  BY <1>0, TopIsFrame DEF Frames
<1>3. Top.job.irq \in Irqs /\ Top.job.isr \in Isrs \cup {NULL}
  BY <1>2 DEF Jobs
<1>4. /\ alt_irq' \in {alt_irq, [alt_irq EXCEPT ![Top.job.irq].handler = Top.job.isr],
                       [alt_irq EXCEPT ![Top.job.irq].context = Top.job.isr]}
      /\ alt_irq_active' \in {alt_irq_active, alt_irq_active \cup {Top.job.irq},
                              alt_irq_active \ {Top.job.irq}}
      /\ ienable' \in {ienable, alt_irq_active} /\ rc' \in {rc, 0}
      /\ alt_priority_mask' = alt_priority_mask /\ asserted' = asserted
  BY DEF Registering, RegisterShut, RegisterHandler, RegisterContext, Off, SetActive, SetIenable,
         On, RegisterReopen, EnterSection, LeaveSection, Call
<1>5. alt_irq' \in [Irqs -> [handler : Isrs \cup {NULL}, context : Isrs \cup {NULL}]]
  BY <1>0, <1>3, <1>4 DEF TablesOK
<1>6. TablesOK'
  BY <1>0, <1>3, <1>4, <1>5 DEF TablesOK
<1>7. alt_priority_mask' = Irqs
  BY <1>0, <1>1, <1>4 DEF MaskInv
<1>8. Top'.pc # "dispatch"
  BY <1>1 DEF StackInv, Top, Program, Labels
<1>9. MaskInv'
  BY <1>1, <1>6, <1>7, <1>8 DEF MaskInv, TablesOK
<1>10. NestsByPriority'
  BY <1>1 DEF NestsByPriority
<1> QED
  BY <1>1, <1>6, <1>9, <1>10 DEF InterruptsInv

\* What holds of the program while routines run.
LEMMA RoutineKeeps ==
  ASSUME InterruptsInv, Top.pc \in Inside, Len(threads') # 1, Program' = Program,
         alt_irq' = alt_irq, alt_irq_active' = alt_irq_active,
         ienable' \subseteq ienable \cup alt_irq_active,
         pie' = TRUE \/ pie' = FALSE, pie' = TRUE <=> Top'.pc = "open"
  PROVE  PieInv' /\ TableInv'
<1>0. StackInv /\ PieInv /\ TableInv
  BY DEF InterruptsInv
<1>1. Len(threads) # 1
  BY <1>0, RoutineRuns, NotOne
<1>2. Open /\ ~Program.section
  BY <1>0, <1>1 DEF PieInv
<1>3. PieInv'
  BY <1>0, <1>2 DEF PieInv, Open, Registers
<1>4. ASSUME NEW j \in Irqs, j \in ienable'
      PROVE  alt_irq[j].handler # NULL
  BY <1>0, <1>2, <1>4 DEF TableInv, Open, Changing
<1>5. TableInv'
  BY <1>0, <1>4 DEF TableInv, Changing, Registers
<1> QED
  BY <1>3, <1>5

LEMMA TakeStep ==
  ASSUME InterruptsInv, Take
  PROVE  InterruptsInv'
<1>0. StackInv /\ TablesOK /\ PieInv /\ TableInv /\ MaskInv /\ NestsByPriority
  BY DEF InterruptsInv
<1> DEFINE n == Len(threads)
           a == Activation(ALT_NIRQ, "look")
<1>1. threads' = Append(threads, a) /\ pie' = FALSE
  BY DEF Take
<1>2. pie /\ UNCHANGED <<table, ienable, asserted, rc>>
  BY DEF Take
<1>3. n \in Nat /\ n > 0
  BY <1>0, StackIsSeq
<1>4. a \in Frames /\ a.pc = "look"
  BY NoJobIsJob DEF Activation, Frames, Labels, Inside
<1>5. threads \in Seq(Frames)
  BY <1>0 DEF StackInv
<1> HIDE DEF a
<1>6. /\ threads' \in Seq(Frames) /\ Len(threads') = n + 1 /\ threads'[n + 1] = a
      /\ \A k \in 1..n : threads'[k] = threads[k]
  BY <1>1, <1>4, <1>5, AppendProperties
<1>7. Program' = Program /\ Top' = a
  BY <1>3, <1>6 DEF Program, Top
<1>8. Open /\ ~Program.section /\ (n # 1 => Top.pc = "open")
  BY <1>0, <1>2 DEF PieInv
<1>9. n + 1 # 1 /\ n + 1 > 0
  BY <1>3
<1>10. ASSUME NEW k \in 2..n + 1
       PROVE  k = n + 1 \/ (k \in 2..n /\ k \in 1..n)
  BY <1>3
<1>11. StackInv'
  <2>1. ASSUME NEW k \in 2..n, k \in 1..n
        PROVE  threads'[k].pc \in Inside /\ threads'[k].pc = "open"
    <3>1. CASE k < n
      BY <1>0, <1>6, <2>1, <3>1 DEF StackInv, Inside
    <3>2. CASE k = n
      <4>1. n # 1
        BY <1>3, <2>1, <3>2
      <4> QED
        BY <1>6, <1>8, <2>1, <3>2, <4>1 DEF Top, Inside
    <3> QED
      BY <1>3, <3>1, <3>2
  <2>2. ASSUME NEW k \in 2..n + 1
        PROVE  /\ threads'[k].pc \in Inside
               /\ k < n + 1 => threads'[k].pc = "open"
    BY <1>3, <1>4, <1>6, <1>10, <2>1 DEF Inside
  <2>3. Program'.pc \in Labels /\ Program'.back = "run"
    BY <1>0, <1>7 DEF StackInv
  <2> QED
    BY <1>6, <1>9, <2>2, <2>3 DEF StackInv
<1>12. PieInv'
  BY <1>0, <1>1, <1>4, <1>6, <1>7, <1>8, <1>9 DEF PieInv, Open, Registers
<1>13. TableInv' /\ TablesOK'
  BY <1>0, <1>2, <1>7 DEF TableInv, TablesOK, Changing, Registers
<1>14. ASSUME NEW k \in 2..n + 1
       PROVE  Above(k)' = Above(k)
  <2>1. k - 1 \in 1..n
    BY <1>3
  <2> QED
    BY <1>6, <2>1 DEF Above, Below
<1>15. MaskInv'
  <2>1. alt_priority_mask = Above(n + 1)
    <3>1. CASE n = 1
      BY <1>0, <3>1 DEF MaskInv, Above
    <3>2. CASE n # 1
      <4>1. n + 1 # 2 /\ n + 1 - 1 = n
        BY <1>3, <3>2, NotOne
      <4> QED
        BY <1>0, <1>8, <3>2, <4>1 DEF MaskInv, Above, Top
    <3> QED
      BY <3>1, <3>2
  <2>2. n + 1 \in 2..n + 1
    BY <1>3
  <2>3. ASSUME NEW k \in 2..n + 1
        PROVE  /\ threads'[k].pc \in {"isr", "open"} => threads'[k].irq \in Above(k)'
               /\ threads'[k].pc = "open" => threads'[k].old = Above(k)'
    <3>1. CASE k = n + 1
      BY <1>4, <1>6, <3>1
    <3>2. CASE k \in 2..n /\ k \in 1..n
      BY <1>0, <1>6, <1>14, <3>2 DEF MaskInv
    <3> QED
      BY <1>10, <3>1, <3>2
  <2>4. alt_priority_mask' = Above(Len(threads))'
    BY <1>2, <1>6, <1>14, <2>1, <2>2
  <2>5. ienable' \subseteq alt_priority_mask'
    BY <1>0, <1>2 DEF MaskInv
  <2> QED
    BY <1>4, <1>6, <1>7, <1>9, <2>3, <2>4, <2>5 DEF MaskInv
<1>16. ASSUME NEW j \in 2..n + 1, NEW k \in 2..n + 1, j < k,
              threads'[k].pc \notin {"look", "dispatch"}
       PROVE  threads'[k].irq < threads'[j].irq
  <2>1. k # n + 1
    BY <1>4, <1>6, <1>16
  <2>2. k \in 2..n /\ k \in 1..n
    BY <1>10, <2>1
  <2>3. j # n + 1
    BY <1>3, <1>16, <2>2
  <2>4. j \in 2..n /\ j \in 1..n
    BY <1>10, <2>3
  <2> QED
    BY <1>0, <1>6, <1>16, <2>2, <2>4 DEF NestsByPriority
<1>17. NestsByPriority'
  BY <1>6, <1>16 DEF NestsByPriority
<1> QED
  BY <1>11, <1>12, <1>13, <1>15, <1>17 DEF InterruptsInv

\* The indices of the stack and of what is left of it.
LEMMA OneLess ==
  ASSUME NEW n \in Nat, n >= 2, NEW m, m = n - 1
  PROVE  /\ m \in Nat /\ m > 0 /\ 1 <= m /\ m - 1 + 1 = m /\ 1 \in 1..m /\ m \in 1..m
         /\ \A k \in 1..m : k \in 1..n /\ 1 + k - 1 = k /\ k < n
         /\ \A k \in 2..m : k \in 2..n /\ k \in 1..m /\ k - 1 \in 1..m
         /\ m # 1 => m \in 2..n /\ m \in 2..m /\ n # 2
         /\ m = 1 => n = 2
         /\ n \in 2..n /\ n # 1
OBVIOUS

LEMMA LeaveStep ==
  ASSUME InterruptsInv, Leave
  PROVE  InterruptsInv'
<1>0. StackInv /\ TablesOK /\ PieInv /\ TableInv /\ MaskInv /\ NestsByPriority
  BY DEF InterruptsInv
<1> DEFINE n == Len(threads)
           m == n - 1
<1>1. threads' = SubSeq(threads, 1, m) /\ pie' = TRUE /\ Top.pc = "look"
  BY DEF Leave, At
<1>2. UNCHANGED <<table, ienable, asserted, rc>>
  BY DEF Leave
<1>3. Top.pc \in Inside
  BY <1>1 DEF Inside
<1>4. n \in Nat /\ n >= 2
  BY <1>0, <1>3, RoutineRuns
<1>5. threads \in Seq(Frames)
  BY <1>0 DEF StackInv
<1>6. /\ m \in Nat /\ m > 0 /\ 1 <= m /\ m - 1 + 1 = m /\ 1 \in 1..m /\ m \in 1..m
      /\ \A k \in 1..m : k \in 1..n /\ 1 + k - 1 = k /\ k < n
      /\ \A k \in 2..m : k \in 2..n /\ k \in 1..m /\ k - 1 \in 1..m
      /\ m # 1 => m \in 2..n /\ m \in 2..m /\ n # 2
      /\ m = 1 => n = 2
      /\ n \in 2..n /\ n # 1
  BY <1>4, OneLess
<1> HIDE DEF m
<1>7. /\ threads' \in Seq(Frames) /\ Len(threads') = m
      /\ \A k \in 1..m : threads'[k] = threads[k]
  <2>1. \A k \in 1..m : threads[k] \in Frames
    BY <1>5, <1>6
  <2>2. threads' \in Seq(Frames) /\ Len(threads') = IF 1 <= m THEN m - 1 + 1 ELSE 0
    BY <1>1, <1>6, <2>1, SubSeqProperties
  <2>3. \A k \in 1..m - 1 + 1 : threads'[k] = threads[1 + k - 1]
    BY <1>1, <1>6, <2>1, SubSeqProperties
  <2> QED
    BY <1>6, <2>2, <2>3
<1>8. Program' = Program /\ Top' = threads[m]
  BY <1>6, <1>7 DEF Program, Top
<1>9. m # 1 => threads[m].pc = "open"
  BY <1>0, <1>6 DEF StackInv
<1>10. Open /\ ~Program.section
  BY <1>0, <1>6 DEF PieInv
<1>11. StackInv'
  <2>1. ASSUME NEW k \in 2..m
        PROVE  /\ threads'[k].pc \in Inside
               /\ k < m => threads'[k].pc = "open"
    BY <1>0, <1>6, <1>7 DEF StackInv
  <2>2. Program'.pc \in Labels /\ Program'.back = "run"
    BY <1>0, <1>8 DEF StackInv
  <2> QED
    BY <1>6, <1>7, <2>1, <2>2 DEF StackInv
<1>12. PieInv'
  BY <1>0, <1>1, <1>7, <1>8, <1>9, <1>10 DEF PieInv, Open, Registers
<1>13. TableInv' /\ TablesOK'
  BY <1>0, <1>2, <1>8 DEF TableInv, TablesOK, Changing, Registers
<1>14. ASSUME NEW k \in 2..m
       PROVE  Above(k)' = Above(k)
  BY <1>6, <1>7 DEF Above, Below
<1>15. MaskInv'
  <2>1. alt_priority_mask = Above(n)
    BY <1>0, <1>1, <1>6 DEF MaskInv
  <2>2. ASSUME NEW k \in 2..m
        PROVE  /\ threads'[k].pc \in {"isr", "open"} => threads'[k].irq \in Above(k)'
               /\ threads'[k].pc = "open" => threads'[k].old = Above(k)'
    BY <1>0, <1>6, <1>7, <1>14 DEF MaskInv
  <2>3. CASE m = 1
    <3>1. alt_priority_mask' = Irqs
      BY <1>2, <1>6, <2>1, <2>3 DEF Above
    <3>2. Top'.pc # "dispatch"
      BY <1>0, <1>8, <2>3 DEF StackInv, Program, Labels
    <3> QED
      BY <1>0, <1>2, <1>7, <2>2, <2>3, <3>1, <3>2 DEF MaskInv
  <2>4. CASE m # 1
    <3>1. alt_priority_mask' = Below(threads[m].irq)
      BY <1>2, <1>6, <2>1, <2>4 DEF Above, m
    <3> QED
      BY <1>0, <1>2, <1>7, <1>8, <1>9, <2>2, <2>4, <3>1 DEF MaskInv
  <2> QED
    BY <2>3, <2>4
<1>16. NestsByPriority'
  BY <1>0, <1>6, <1>7 DEF NestsByPriority
<1> QED
  BY <1>11, <1>12, <1>13, <1>15, <1>16 DEF InterruptsInv

\* The other steps of alt_irq_handler and of the routines.
LEMMA RoutineSteps ==
  ASSUME InterruptsInv,
         Look \/ Dispatch \/ Acknowledge \/ Interruptible \/ NonInterruptible
  PROVE  InterruptsInv'
<1>0. StackInv /\ TablesOK /\ PieInv /\ TableInv /\ MaskInv /\ NestsByPriority
  BY DEF InterruptsInv
<1>a. Top \in Frames /\ Top.active \subseteq Irqs /\ Top.old \subseteq Irqs
  BY <1>0, TopIsFrame DEF Frames
<1>b. alt_priority_mask \subseteq Irqs /\ ienable \subseteq Irqs /\ asserted \subseteq Irqs
  BY <1>0 DEF TablesOK
<1>1. Top.pc \in Inside
  BY DEF Look, Dispatch, Acknowledge, Interruptible, NonInterruptible, At, Inside
<1>2. Len(threads) \in Nat /\ Len(threads) >= 2 /\ Len(threads) # 1
  BY <1>0, <1>1, RoutineRuns, NotOne
<1>3. Len(threads) \in 2..Len(threads)
  BY <1>2
<1>4. Top.pc # "open" => alt_priority_mask = Above(Len(threads)) /\ pie = FALSE
  BY <1>0, <1>2 DEF MaskInv, PieInv
<1>5. /\ Top.pc \in {"isr", "open"} => Top.irq \in Above(Len(threads))
      /\ Top.pc = "open" => Top.old = Above(Len(threads))
  BY <1>0, <1>3 DEF MaskInv, Top
<1>6. ienable \subseteq alt_priority_mask
  BY <1>0 DEF MaskInv
<1>7. alt_irq' = alt_irq /\ alt_irq_active' = alt_irq_active /\ rc' = rc
  BY DEF Look, Dispatch, Acknowledge, Interruptible, NonInterruptible
<1>8. ASSUME NEW a \in Frames, Becomes(a), a.pc \in Inside,
             ienable' \subseteq alt_priority_mask', asserted' \subseteq Irqs,
             ienable' \subseteq ienable \cup alt_irq_active,
             alt_priority_mask' = (IF a.pc = "open" THEN Below(a.irq) ELSE Above(Len(threads))),
             alt_priority_mask' \subseteq Irqs,
             pie' = TRUE \/ pie' = FALSE, pie' = TRUE <=> a.pc = "open",
             a.pc = "dispatch" => a.active # {} /\ a.active \subseteq ienable',
             a.pc \in {"isr", "open"} => a.irq \in Above(Len(threads)),
             a.pc = "open" => a.old = Above(Len(threads))
      PROVE  InterruptsInv'
  <2>1. /\ Len(threads') = Len(threads) /\ StackInv' /\ Top' = a /\ Program' = Program
    BY <1>0, <1>1, <1>8, RoutineBecomes
  <2>2. MaskInv' /\ NestsByPriority'
    BY <1>1, <1>8, RoutineMask
  <2>3. PieInv' /\ TableInv'
    BY <1>1, <1>2, <1>7, <1>8, <2>1, RoutineKeeps
  <2>4. ienable' \subseteq Irqs
    BY <1>8
  <2>5. TablesOK'
    BY <1>0, <1>7, <1>8, <2>4 DEF TablesOK
  <2> QED
    BY <2>1, <2>2, <2>3, <2>5 DEF InterruptsInv
<1>9. CASE Look
  <2> DEFINE a == [Top EXCEPT !.active = pending, !.pc = "dispatch"]
  <2>1. /\ Top.pc = "look" /\ pending # {} /\ Becomes(a) /\ ienable' = ienable /\ pie' = pie
        /\ alt_priority_mask' = alt_priority_mask /\ asserted' = asserted
    BY <1>9 DEF Look, At
  <2>2. a \in Frames
    BY <1>a, <1>b DEF Frames, Inside, pending
  <2>3. a.pc = "dispatch" /\ a.active = pending /\ pending \subseteq ienable
    BY <1>a DEF Frames, pending
  <2> HIDE DEF a
  <2> QED
    BY <1>4, <1>6, <1>8, <1>b, <2>1, <2>2, <2>3 DEF Inside
<1>10. CASE Dispatch
  <2> DEFINE first == Min(Top.active)
             a == [Top EXCEPT !.irq = first, !.pc = "isr"]
  <2>1. /\ Top.pc = "dispatch" /\ Becomes(a) /\ ienable' = ienable /\ pie' = pie
        /\ alt_priority_mask' = alt_priority_mask /\ asserted' = asserted
    BY <1>10 DEF Dispatch, At
  <2>2. Top.active # {} /\ Top.active \subseteq ienable
    BY <1>0, <2>1 DEF MaskInv
  <2>3. first \in Top.active
    BY <1>a, <2>2, MinIsMember, IrqsAreNatural
  <2>4. first \in Irqs /\ first \in Above(Len(threads))
    BY <1>4, <1>6, <1>a, <2>1, <2>2, <2>3
  <2> HIDE DEF first
  <2>5. a \in Frames
    BY <1>a, <2>4 DEF Frames, Inside
  <2>6. a.pc = "isr" /\ a.irq = first
    BY <1>a DEF Frames
  <2> HIDE DEF a
  <2> QED
    BY <1>4, <1>6, <1>8, <1>b, <2>1, <2>4, <2>5, <2>6 DEF Inside
<1>11. CASE Acknowledge
  <2> DEFINE a == [Top EXCEPT !.pc = "look"]
  <2>1. /\ Top.pc = "isr" /\ Becomes(a) /\ ienable' = ienable /\ pie' = pie
        /\ alt_priority_mask' = alt_priority_mask /\ asserted' = asserted \ {Top.irq}
    BY <1>11 DEF Acknowledge, At
  <2>2. a \in Frames
    BY <1>a DEF Frames, Inside
  <2>3. a.pc = "look"
    BY <1>a DEF Frames
  <2>4. asserted' \subseteq Irqs
    BY <1>b, <2>1
  <2> HIDE DEF a
  <2> QED
    BY <1>4, <1>6, <1>8, <1>b, <2>1, <2>2, <2>3, <2>4 DEF Inside
<1>12. CASE Interruptible
  <2> DEFINE a == [Top EXCEPT !.old = alt_priority_mask, !.pc = "open"]
  <2>1. /\ Top.pc = "isr" /\ Becomes(a) /\ asserted' = asserted /\ pie' = TRUE
        /\ ienable' = alt_irq_active \cap alt_priority_mask'
        /\ alt_priority_mask' = Below(Top.irq)
    BY <1>12 DEF Interruptible, At, Below
  <2>2. a \in Frames
    BY <1>a, <1>b DEF Frames, Inside
  <2>3. a.pc = "open" /\ a.irq = Top.irq /\ a.old = alt_priority_mask
    BY <1>a DEF Frames
  <2>4. Below(Top.irq) \subseteq Irqs
    BY DEF Below
  <2> HIDE DEF a
  <2> QED
    BY <1>4, <1>5, <1>8, <1>b, <2>1, <2>2, <2>3, <2>4 DEF Inside
<1>13. CASE NonInterruptible
  <2> DEFINE a == [Top EXCEPT !.pc = "isr"]
  <2>1. /\ Top.pc = "open" /\ Becomes(a) /\ asserted' = asserted /\ pie' = FALSE
        /\ ienable' = alt_irq_active \cap Top.old /\ alt_priority_mask' = Top.old
    BY <1>13 DEF NonInterruptible, At
  <2>2. a \in Frames
    BY <1>a DEF Frames, Inside
  <2>3. a.pc = "isr" /\ a.irq = Top.irq
    BY <1>a DEF Frames
  <2> HIDE DEF a
  <2> QED
    BY <1>5, <1>8, <1>a, <1>b, <2>1, <2>2, <2>3 DEF Inside
<1> QED
  BY <1>9, <1>10, <1>11, <1>12, <1>13

LEMMA InterruptsStep ==
  ASSUME InterruptsInv, Next
  PROVE  InterruptsInv'
<1>0. StackInv /\ TablesOK /\ PieInv /\ TableInv /\ MaskInv /\ NestsByPriority
  BY DEF InterruptsInv
<1>1. ASSUME NEW j \in Irqs, Assert(j)
      PROVE  InterruptsInv'
  <2>1. asserted' = asserted \cup {j} /\ UNCHANGED <<table, registers, threads, rc>>
    BY <1>1 DEF Assert
  <2>2. TablesOK'
    BY <1>0, <2>1 DEF TablesOK
  <2>3. StackInv' /\ PieInv' /\ TableInv' /\ MaskInv' /\ NestsByPriority'
    BY <1>0, <2>1
       DEF StackInv, PieInv, TableInv, MaskInv, NestsByPriority, Open, Registers, Changing, Program,
           Top, Above
  <2> QED
    BY <2>2, <2>3 DEF InterruptsInv
<1>2. CASE CallTooHigh
  <2>1. rc' = -EINVAL /\ UNCHANGED <<table, registers, asserted, threads>>
    BY <1>2 DEF CallTooHigh
  <2>2. TablesOK'
    BY <1>0, <2>1 DEF TablesOK
  <2>3. StackInv' /\ PieInv' /\ TableInv' /\ MaskInv' /\ NestsByPriority'
    BY <1>0, <2>1
       DEF StackInv, PieInv, TableInv, MaskInv, NestsByPriority, Open, Registers, Changing, Program,
           Top, Above
  <2> QED
    BY <2>2, <2>3 DEF InterruptsInv
<1>3. CASE Handler
  BY <1>3, TakeStep, LeaveStep, RoutineSteps DEF Handler
<1> QED
  BY <1>1, <1>2, <1>3, CallsMask DEF Next

LEMMA InitInterruptsInv == Init => InterruptsInv
<1> SUFFICES ASSUME Init PROVE InterruptsInv
  OBVIOUS
<1> DEFINE a == Activation(ALT_NIRQ, "run")
<1>1. /\ alt_irq = [j \in Irqs |-> [handler |-> NULL, context |-> NULL]] /\ alt_irq_active = {}
      /\ alt_priority_mask = Irqs /\ ienable = {} /\ pie = TRUE /\ asserted = {} /\ rc = 0
      /\ threads = <<a>>
  BY DEF Init
<1>2. a \in Frames /\ a.pc = "run" /\ a.back = "run" /\ a.job = NoJob /\ a.section = FALSE
  BY NoJobIsJob DEF Activation, Frames, Labels
<1> HIDE DEF a
<1>3. threads \in Seq(Frames) /\ Len(threads) = 1 /\ Program = a /\ Top = a
  BY <1>1, <1>2 DEF Program, Top
<1>4. StackInv
  BY <1>2, <1>3 DEF StackInv, Labels
<1>5. TablesOK
  BY <1>1 DEF TablesOK
<1>6. PieInv
  BY <1>1, <1>2, <1>3, NoJobIsJob DEF PieInv, Open, Registers
<1>7. TableInv
  BY <1>1, <1>2, <1>3, NoJobIsJob DEF TableInv, Changing, Registers
<1>8. MaskInv
  BY <1>1, <1>2, <1>3 DEF MaskInv
<1>9. NestsByPriority
  BY <1>3 DEF NestsByPriority
<1> QED
  BY <1>4, <1>5, <1>6, <1>7, <1>8, <1>9 DEF InterruptsInv

LEMMA InterruptsInvHolds == InterruptsInv => InterruptsOrderly
<1> SUFFICES ASSUME InterruptsInv PROVE InterruptsOrderly
  OBVIOUS
<1>0. StackInv /\ TablesOK /\ PieInv /\ TableInv /\ MaskInv /\ NestsByPriority
  BY DEF InterruptsInv
<1>1. TypeOK
  <2>1. ASSUME NEW k \in 1..Len(threads)
        PROVE  /\ threads[k].irq \in Irqs \cup {ALT_NIRQ} /\ threads[k].job \in Jobs
               /\ threads[k].active \subseteq Irqs /\ threads[k].old \subseteq Irqs
               /\ threads[k].ctx \in BOOLEAN /\ threads[k].outer \in BOOLEAN
    <3>1. threads[k] \in Frames
      BY <1>0 DEF StackInv
    <3> QED
      BY <3>1 DEF Frames
  <2>2. Len(threads) > 0
    BY <1>0 DEF StackInv
  <2>3. pie \in BOOLEAN
    BY <1>0 DEF PieInv
  <2> QED
    BY <1>0, <2>1, <2>2, <2>3 DEF TypeOK, TablesOK
<1>2. HandlerIsWhole
  <2> SUFFICES ASSUME Top.pc = "dispatch"
               PROVE  /\ Top.active # {}
                      /\ LET e == alt_irq[Min(Top.active)]
                         IN  e.handler # NULL /\ e.context = e.handler
    BY DEF HandlerIsWhole, At
  <2>1. Top.active # {} /\ Top.active \subseteq ienable
    BY <1>0 DEF MaskInv
  <2>2. Top.active \subseteq Nat
    BY <1>0, <2>1, IrqsAreNatural DEF TablesOK
  <2>3. Min(Top.active) \in Top.active
    BY <2>1, <2>2, MinIsMember
  <2>4. Min(Top.active) \in ienable /\ Min(Top.active) \in Irqs
    BY <1>0, <2>1, <2>3 DEF TablesOK
  <2>5. Len(threads) # 1
    BY <1>0 DEF StackInv, Top, Program, Labels
  <2>6. Open
    BY <1>0, <2>5 DEF PieInv
  <2> QED
    BY <1>0, <2>1, <2>4, <2>6 DEF TableInv, Open, Changing
<1>3. SectionIsClosed
  BY <1>0 DEF SectionIsClosed, PieInv, Program
<1>4. ProgramIsOpen
  BY <1>0 DEF ProgramIsOpen, PieInv, Open, Top, Program, At
<1> QED
  BY <1>0, <1>1, <1>2, <1>3, <1>4 DEF InterruptsOrderly

LEMMA InterruptsAlone == [KernelNext]_kernel => [Next]_vars
BY DEF KernelNext, kernel, vars

\* Whatever lines are asserted, however routines nest and whenever handlers are
\* registered and removed: no handler is called with another's context or after its
\* removal, sections stay closed and the program open outside them, and routines are
\* interrupted by lines of higher priority only (alt_iic.c, alt_iic_isr_register.c,
\* alt_irq_handler.c, alt_irq.h, alt_legacy_irq.h).
THEOREM OrderlyInterrupts == KernelSpec => []InterruptsOrderly
<1>1. KernelInit => InterruptsInv
  BY InitInterruptsInv DEF KernelInit
<1>2. InterruptsInv /\ [KernelNext]_kernel => InterruptsInv'
  <2> SUFFICES ASSUME InterruptsInv, [Next]_vars PROVE InterruptsInv'
    BY InterruptsAlone
  <2>1. CASE Next
    BY <2>1, InterruptsStep
  <2>2. CASE UNCHANGED vars
    BY <2>2
       DEF InterruptsInv, vars, StackInv, TablesOK, PieInv, TableInv, MaskInv, NestsByPriority,
           Open, Registers, Changing, Program, Top, Above
  <2> QED
    BY <2>1, <2>2
<1> QED
  BY <1>1, <1>2, InterruptsInvHolds, PTL DEF KernelSpec

-----------------------------------------------------------------------------
(* Alarms: the doubly linked list. *)

ListHead == Alarm!Head
Links == Alarm!Nodes \cup {Alarm!NotYet}

\* The links n and p hold exactly the alarms of R, in a ring through the head: no part of
\* it with the head is closed.  An alarm outside was never in it, or points to itself.
IsList(n, p, R) ==
  /\ R \subseteq Alarms /\ n \in [Alarm!Nodes -> Links] /\ p \in [Alarm!Nodes -> Links]
  /\ \A x \in R \cup {ListHead} :
       n[x] \in R \cup {ListHead} /\ p[x] \in R \cup {ListHead} /\ p[n[x]] = x /\ n[p[x]] = x
  /\ \A x \in Alarms \ R : n[x] = Alarm!NotYet \/ (n[x] = x /\ p[x] = x)
  /\ \A S \in SUBSET (R \cup {ListHead}) :
       ListHead \in S /\ (\A x \in S : n[x] \in S) => R \subseteq S

LEMMA AlarmConstants ==
  /\ IsFiniteSet(Alarms) /\ ListHead \notin Alarms /\ Alarm!NotYet \notin Alarm!Nodes
  /\ Alarm!Nodes = Alarms \cup {ListHead}
  /\ AlarmWrap \in Nat /\ AlarmWrap > 1
  /\ Nticks \subseteq 0..AlarmWrap - 2 /\ Periods \subseteq 0..AlarmWrap - 1 /\ ~StopsOthers
<1>1. ListHead = "alt_alarm_list" /\ Alarm!NotYet = "null" /\ "alt_alarm_list" # "null"
  BY DEF ListHead, Alarm!Head, Alarm!NotYet
<1>2. ListHead \notin Alarms /\ Alarm!NotYet \notin Alarms
  BY <1>1, KernelAssumption DEF Alarm!AlarmAssumption
<1>3. AlarmWrap \in Nat /\ AlarmWrap > 1
  BY KernelAssumption DEF Alarm!AlarmAssumption
<1>4. Nticks \subseteq 0..AlarmWrap - 2
  BY <1>3, KernelAssumption DEF Alarm!AlarmAssumption
<1>5. Periods \subseteq 0..AlarmWrap - 1 /\ Alarm!IsFiniteSet(Alarms)
  BY KernelAssumption DEF Alarm!AlarmAssumption
<1>7. IsFiniteSet(Alarms)
  BY <1>5 DEF Alarm!IsFiniteSet, IsFiniteSet
<1>6. ~StopsOthers
  BY KernelAssumption, Zenon
<1> QED
  BY <1>1, <1>2, <1>3, <1>4, <1>5, <1>6, <1>7 DEF Alarm!Nodes, ListHead

\* No alarm of the list points to itself.
LEMMA NoLoop ==
  ASSUME NEW n, NEW p, NEW R, IsList(n, p, R), NEW a \in R
  PROVE  n[a] # a /\ p[a] # a
<1>1. a # ListHead
  BY AlarmConstants DEF IsList
<1>2. ASSUME n[a] = a PROVE FALSE
  <2> DEFINE S == (R \cup {ListHead}) \ {a}
  <2>1. ASSUME NEW x \in S PROVE n[x] \in S
    BY <1>2 DEF IsList
  <2>2. ListHead \in S /\ S \in SUBSET (R \cup {ListHead})
    BY <1>1
  <2>3. R \subseteq S
    BY <2>1, <2>2 DEF IsList
  <2> QED
    BY <2>3
<1> QED
  BY <1>2 DEF IsList

\* What an insertion at the head and a removal leave of the links, in l.
LinksInserted(n, p, R, a, l) ==
  /\ \A x \in R : l.n[x] = n[x] /\ (x # n[ListHead] => l.p[x] = p[x])
  /\ l.p[n[ListHead]] = a /\ l.p[a] = ListHead
LinksRemoved(n, p, R, a, l) ==
  /\ \A x \in R \ {a} : (x # p[a] => l.n[x] = n[x]) /\ (x # n[a] => l.p[x] = p[x])
  /\ l.p[n[a]] = p[a]

\* Insertion at the head.
LEMMA InsertedIsList ==
  ASSUME NEW n, NEW p, NEW R, IsList(n, p, R), NEW a \in Alarms \ R,
         NEW l, l = Alarm!Inserted([n |-> n, p |-> p], a)
  PROVE  IsList(l.n, l.p, R \cup {a}) /\ LinksInserted(n, p, R, a, l)
<1>1. /\ a # ListHead /\ a \in Alarm!Nodes /\ ListHead \in Alarm!Nodes /\ R \subseteq Alarm!Nodes
      /\ n[ListHead] \in R \cup {ListHead} /\ n[ListHead] # a /\ ListHead \notin R
      /\ n \in [Alarm!Nodes -> Links] /\ p \in [Alarm!Nodes -> Links]
      /\ Alarm!Nodes \subseteq Links
  BY AlarmConstants DEF IsList, Links
<1>2. /\ l.n = [[n EXCEPT ![a] = n[ListHead]] EXCEPT ![ListHead] = a]
      /\ l.p = [[p EXCEPT ![a] = ListHead] EXCEPT ![n[ListHead]] = a]
  BY DEF Alarm!Inserted, ListHead
<1>3. /\ l.n \in [Alarm!Nodes -> Links] /\ l.n[a] = n[ListHead] /\ l.n[ListHead] = a
      /\ \A x \in Alarm!Nodes : x # a /\ x # ListHead => l.n[x] = n[x]
  <2> DEFINE q == [n EXCEPT ![a] = n[ListHead]]
  <2>1. q \in [Alarm!Nodes -> Links] /\ q[a] = n[ListHead]
    BY <1>1
  <2>2. \A x \in Alarm!Nodes : x # a => q[x] = n[x]
    BY <1>1
  <2>3. l.n = [q EXCEPT ![ListHead] = a]
    BY <1>2
  <2> HIDE DEF q
  <2>4. l.n \in [Alarm!Nodes -> Links] /\ l.n[ListHead] = a
    BY <1>1, <2>1, <2>3
  <2>5. \A x \in Alarm!Nodes : x # ListHead => l.n[x] = q[x]
    BY <1>1, <2>1, <2>3
  <2>6. l.n[a] = n[ListHead]
    BY <1>1, <2>1, <2>5
  <2> QED
    BY <2>2, <2>4, <2>5, <2>6
<1>4. /\ l.p \in [Alarm!Nodes -> Links] /\ l.p[n[ListHead]] = a /\ l.p[a] = ListHead
      /\ \A x \in Alarm!Nodes : x # a /\ x # n[ListHead] => l.p[x] = p[x]
  <2> DEFINE q == [p EXCEPT ![a] = ListHead]
  <2>1. q \in [Alarm!Nodes -> Links] /\ q[a] = ListHead
    BY <1>1
  <2>2. \A x \in Alarm!Nodes : x # a => q[x] = p[x]
    BY <1>1
  <2>3. l.p = [q EXCEPT ![n[ListHead]] = a]
    BY <1>2
  <2> HIDE DEF q
  <2>4. l.p \in [Alarm!Nodes -> Links] /\ l.p[n[ListHead]] = a
    BY <1>1, <2>1, <2>3
  <2>5. \A x \in Alarm!Nodes : x # n[ListHead] => l.p[x] = q[x]
    BY <1>1, <2>1, <2>3
  <2>6. l.p[a] = ListHead
    BY <1>1, <2>1, <2>5
  <2> QED
    BY <2>2, <2>4, <2>5, <2>6
<1>5. ASSUME NEW x \in R \cup {a} \cup {ListHead}
      PROVE  /\ l.n[x] \in R \cup {a} \cup {ListHead} /\ l.p[x] \in R \cup {a} \cup {ListHead}
             /\ l.p[l.n[x]] = x /\ l.n[l.p[x]] = x
  <2>1. CASE x = a
    BY <1>1, <1>3, <1>4, <2>1
  <2>2. CASE x = ListHead
    <3>1. l.n[x] = a /\ l.p[a] = ListHead
      BY <1>3, <1>4, <2>2
    <3>2. CASE n[ListHead] = ListHead
      BY <1>1, <1>3, <1>4, <2>2, <3>1, <3>2
    <3>3. CASE n[ListHead] # ListHead
      <4>1. l.p[x] = p[ListHead] /\ p[ListHead] \in R /\ n[p[ListHead]] = ListHead
        BY <1>1, <1>4, <2>2, <3>3 DEF IsList
      <4> QED
        BY <1>1, <1>3, <2>2, <3>1, <4>1
    <3> QED
      BY <3>2, <3>3
  <2>3. CASE x \in R
    <3>1. /\ l.n[x] = n[x] /\ n[x] \in R \cup {ListHead} /\ p[n[x]] = x
          /\ n[x] # n[ListHead] /\ n[x] # a
      BY <1>1, <1>3, <2>3 DEF IsList
    <3>2. l.p[l.n[x]] = x
      BY <1>1, <1>4, <3>1
    <3>3. CASE x = n[ListHead]
      BY <1>1, <1>3, <1>4, <3>1, <3>2, <3>3
    <3>4. CASE x # n[ListHead]
      <4>1. l.p[x] = p[x] /\ p[x] \in R /\ n[p[x]] = x
        BY <1>1, <1>4, <2>3, <3>4 DEF IsList
      <4> QED
        BY <1>1, <1>3, <3>1, <3>2, <4>1
    <3> QED
      BY <3>3, <3>4
  <2> QED
    BY <2>1, <2>2, <2>3
<1>6. ASSUME NEW x \in Alarms \ (R \cup {a})
      PROVE  l.n[x] = Alarm!NotYet \/ (l.n[x] = x /\ l.p[x] = x)
  <2>1. x \in Alarm!Nodes /\ x # a /\ x # ListHead /\ x # n[ListHead]
    BY <1>1, AlarmConstants
  <2>2. l.n[x] = n[x] /\ l.p[x] = p[x]
    BY <1>3, <1>4, <2>1
  <2> QED
    BY <2>2 DEF IsList
<1>7. ASSUME NEW S \in SUBSET (R \cup {a} \cup {ListHead}), ListHead \in S,
             \A x \in S : l.n[x] \in S
      PROVE  R \cup {a} \subseteq S
  <2> DEFINE T == S \ {a}
  <2>1. a \in S /\ n[ListHead] \in S
    BY <1>3, <1>7
  <2>2. ASSUME NEW x \in T PROVE n[x] \in T
    <3>1. n[x] \in R \cup {ListHead} /\ n[x] # a
      BY <1>1 DEF IsList
    <3>2. x = ListHead \/ l.n[x] = n[x]
      BY <1>1, <1>3
    <3> QED
      BY <1>7, <2>1, <3>1, <3>2
  <2>3. ListHead \in T /\ T \in SUBSET (R \cup {ListHead})
    BY <1>1, <1>7
  <2>4. R \subseteq T
    BY <2>2, <2>3 DEF IsList
  <2> QED
    BY <2>1, <2>4
<1>8. IsList(l.n, l.p, R \cup {a})
  <2>1. R \cup {a} \subseteq Alarms
    BY DEF IsList
  <2> QED
    BY <1>3, <1>4, <1>5, <1>6, <1>7, <2>1 DEF IsList
<1>9. LinksInserted(n, p, R, a, l)
  BY <1>1, <1>3, <1>4 DEF LinksInserted
<1> QED
  BY <1>8, <1>9

\* Removal.
LEMMA RemovedIsList ==
  ASSUME NEW n, NEW p, NEW R, IsList(n, p, R), NEW a \in R,
         NEW l, l = Alarm!Removed([n |-> n, p |-> p], a)
  PROVE  IsList(l.n, l.p, R \ {a}) /\ LinksRemoved(n, p, R, a, l)
<1>0. n[a] # a /\ p[a] # a
  BY NoLoop
<1>1. /\ a # ListHead /\ a \in Alarm!Nodes /\ ListHead \in Alarm!Nodes /\ R \subseteq Alarm!Nodes
      /\ n[a] \in R \cup {ListHead} /\ p[a] \in R \cup {ListHead} /\ n[a] # a /\ p[a] # a
      /\ p[n[a]] = a /\ n[p[a]] = a /\ ListHead \notin R
      /\ n \in [Alarm!Nodes -> Links] /\ p \in [Alarm!Nodes -> Links]
      /\ Alarm!Nodes \subseteq Links
  BY <1>0, AlarmConstants DEF IsList, Links
<1>2. /\ l.n = [[n EXCEPT ![p[a]] = n[a]] EXCEPT ![a] = a]
      /\ l.p = [[p EXCEPT ![n[a]] = p[a]] EXCEPT ![a] = a]
  BY DEF Alarm!Removed
<1>3. /\ l.n \in [Alarm!Nodes -> Links] /\ l.n[a] = a /\ l.n[p[a]] = n[a]
      /\ \A x \in Alarm!Nodes : x # a /\ x # p[a] => l.n[x] = n[x]
  <2> DEFINE q == [n EXCEPT ![p[a]] = n[a]]
  <2>1. q \in [Alarm!Nodes -> Links] /\ q[p[a]] = n[a]
    BY <1>1
  <2>2. \A x \in Alarm!Nodes : x # p[a] => q[x] = n[x]
    BY <1>1
  <2>3. l.n = [q EXCEPT ![a] = a]
    BY <1>2
  <2> HIDE DEF q
  <2>4. l.n \in [Alarm!Nodes -> Links] /\ l.n[a] = a
    BY <1>1, <2>1, <2>3
  <2>5. \A x \in Alarm!Nodes : x # a => l.n[x] = q[x]
    BY <1>1, <2>1, <2>3
  <2>6. l.n[p[a]] = n[a]
    BY <1>1, <2>1, <2>5
  <2> QED
    BY <2>2, <2>4, <2>5, <2>6
<1>4. /\ l.p \in [Alarm!Nodes -> Links] /\ l.p[a] = a /\ l.p[n[a]] = p[a]
      /\ \A x \in Alarm!Nodes : x # a /\ x # n[a] => l.p[x] = p[x]
  <2> DEFINE q == [p EXCEPT ![n[a]] = p[a]]
  <2>1. q \in [Alarm!Nodes -> Links] /\ q[n[a]] = p[a]
    BY <1>1
  <2>2. \A x \in Alarm!Nodes : x # n[a] => q[x] = p[x]
    BY <1>1
  <2>3. l.p = [q EXCEPT ![a] = a]
    BY <1>2
  <2> HIDE DEF q
  <2>4. l.p \in [Alarm!Nodes -> Links] /\ l.p[a] = a
    BY <1>1, <2>1, <2>3
  <2>5. \A x \in Alarm!Nodes : x # a => l.p[x] = q[x]
    BY <1>1, <2>1, <2>3
  <2>6. l.p[n[a]] = p[a]
    BY <1>1, <2>1, <2>5
  <2> QED
    BY <2>2, <2>4, <2>5, <2>6
<1>5. ASSUME NEW x \in (R \ {a}) \cup {ListHead}
      PROVE  /\ l.n[x] \in (R \ {a}) \cup {ListHead} /\ l.p[x] \in (R \ {a}) \cup {ListHead}
             /\ l.p[l.n[x]] = x /\ l.n[l.p[x]] = x
  <2>1. /\ n[x] \in R \cup {ListHead} /\ p[x] \in R \cup {ListHead} /\ p[n[x]] = x /\ n[p[x]] = x
        /\ x # a /\ x \in Alarm!Nodes
    BY <1>1 DEF IsList
  <2>2. l.n[x] \in (R \ {a}) \cup {ListHead} /\ l.p[l.n[x]] = x
    <3>1. CASE x = p[a]
      BY <1>1, <1>3, <1>4, <3>1
    <3>2. CASE x # p[a]
      <4>1. l.n[x] = n[x] /\ n[x] # a /\ n[x] # n[a]
        BY <1>1, <1>3, <2>1, <3>2
      <4> QED
        BY <1>1, <1>4, <2>1, <4>1
    <3> QED
      BY <3>1, <3>2
  <2>3. l.p[x] \in (R \ {a}) \cup {ListHead} /\ l.n[l.p[x]] = x
    <3>1. CASE x = n[a]
      BY <1>1, <1>3, <1>4, <3>1
    <3>2. CASE x # n[a]
      <4>1. l.p[x] = p[x] /\ p[x] # a /\ p[x] # p[a]
        BY <1>1, <1>4, <2>1, <3>2
      <4> QED
        BY <1>1, <1>3, <2>1, <4>1
    <3> QED
      BY <3>1, <3>2
  <2> QED
    BY <2>2, <2>3
<1>6. ASSUME NEW x \in Alarms \ (R \ {a})
      PROVE  l.n[x] = Alarm!NotYet \/ (l.n[x] = x /\ l.p[x] = x)
  <2>1. CASE x = a
    BY <1>3, <1>4, <2>1
  <2>2. CASE x # a
    <3>1. x \in Alarm!Nodes /\ x \notin R /\ x # p[a] /\ x # n[a]
      BY <1>1, <2>2, AlarmConstants
    <3>2. l.n[x] = n[x] /\ l.p[x] = p[x]
      BY <1>3, <1>4, <2>2, <3>1
    <3> QED
      BY <3>1, <3>2 DEF IsList
  <2> QED
    BY <2>1, <2>2
<1>7. ASSUME NEW S \in SUBSET ((R \ {a}) \cup {ListHead}), ListHead \in S, \A x \in S : l.n[x] \in S
      PROVE  R \ {a} \subseteq S
  <2>1. CASE p[a] \in S
    <3> DEFINE T == S \cup {a}
    <3>1. ASSUME NEW x \in T PROVE n[x] \in T
      <4>1. CASE x = a
        BY <1>3, <1>7, <2>1, <4>1
      <4>2. CASE x = p[a]
        BY <1>1, <4>2
      <4>3. CASE x # a /\ x # p[a]
        BY <1>1, <1>3, <1>7, <4>3
      <4> QED
        BY <4>1, <4>2, <4>3
    <3>2. ListHead \in T /\ T \in SUBSET (R \cup {ListHead})
      BY <1>7
    <3>3. R \subseteq T
      BY <3>1, <3>2 DEF IsList
    <3> QED
      BY <3>3
  <2>2. CASE p[a] \notin S
    <3>1. ASSUME NEW x \in S PROVE n[x] \in S
      BY <1>1, <1>3, <1>7, <2>2
    <3>2. S \in SUBSET (R \cup {ListHead})
      OBVIOUS
    <3> QED
      BY <1>7, <3>1, <3>2 DEF IsList
  <2> QED
    BY <2>1, <2>2
<1>8. IsList(l.n, l.p, R \ {a})
  <2>1. R \ {a} \subseteq Alarms
    BY DEF IsList
  <2> QED
    BY <1>3, <1>4, <1>5, <1>6, <1>7, <2>1 DEF IsList
<1>9. LinksRemoved(n, p, R, a, l)
  BY <1>1, <1>3, <1>4 DEF LinksRemoved
<1> QED
  BY <1>8, <1>9

\* A second removal changes nothing.
LEMMA RemovedTwice ==
  ASSUME NEW n, NEW p, NEW R, IsList(n, p, R), NEW a \in Alarms \ R, n[a] # Alarm!NotYet,
         NEW l, l = Alarm!Removed([n |-> n, p |-> p], a)
  PROVE  l.n = n /\ l.p = p
<1>1. /\ n[a] = a /\ p[a] = a /\ n \in [Alarm!Nodes -> Links] /\ p \in [Alarm!Nodes -> Links]
  BY DEF IsList
<1>2. /\ l.n = [[n EXCEPT ![p[a]] = n[a]] EXCEPT ![a] = a]
      /\ l.p = [[p EXCEPT ![n[a]] = p[a]] EXCEPT ![a] = a]
  BY DEF Alarm!Removed
<1>3. [n EXCEPT ![a] = a] = n /\ [p EXCEPT ![a] = a] = p
  BY <1>1
<1> QED
  BY <1>1, <1>2, <1>3

LEMMA SameCardinality == \A S : Alarm!Cardinality(S) = Cardinality(S)
BY DEF Alarm!Cardinality, Cardinality

\* The induction over the naturals that a walk needs.
LEMMA LeastElement ==
  ASSUME NEW T \in SUBSET Nat, T # {}
  PROVE  \E m \in T : \A k \in T : ~(k < m)
<1>1. IsWellFoundedOn(OpToRel(<, Nat), Nat)
  BY NatLessThanWellFounded
<1>2. PICK m \in T : \A k \in T : ~(<<k, m>> \in OpToRel(<, Nat))
  BY <1>1, WFMin
<1> QED
  BY <1>2 DEF OpToRel

LEMMA SetInduction ==
  ASSUME NEW S, 0 \in S, \A n \in Nat : n \in S => n+1 \in S
  PROVE  Nat \subseteq S
<1> SUFFICES ASSUME Nat \ S # {}
             PROVE  FALSE
  OBVIOUS
<1>1. PICK m \in Nat \ S : \A k \in Nat \ S : ~(k < m)
  BY LeastElement
<1>2. m # 0 /\ m-1 \in Nat /\ m-1 < m
  BY <1>1
<1>3. m-1 \in S
  BY <1>1, <1>2
<1> QED
  BY <1>1, <1>2, <1>3

\* The walk, turn by turn.
IsWalk(w, N) ==
  w = [k \in 0..N |-> IF k = 0 THEN {ListHead} ELSE w[k - 1] \cup {next[x] : x \in w[k - 1]}]

LEMMA WalkExists ==
  ASSUME NEW N \in Nat
  PROVE  \E w : IsWalk(w, N)
<1> DEFINE S == {m \in Nat : \E w : IsWalk(w, m)}
<1>1. 0 \in S
  <2> DEFINE w == [k \in 0..0 |-> {ListHead}]
  <2>1. IsWalk(w, 0)
    BY DEF IsWalk
  <2> HIDE DEF w
  <2> QED
    BY <2>1
<1>2. ASSUME NEW m \in Nat, m \in S PROVE m + 1 \in S
  <2>1. PICK w : IsWalk(w, m)
    BY <1>2
  <2> DEFINE Following == w[m] \cup {next[x] : x \in w[m]}
             v == [k \in 0..m + 1 |-> IF k = m + 1 THEN Following ELSE w[k]]
  <2>2. \A k \in 0..m :
          w[k] = IF k = 0 THEN {ListHead} ELSE w[k - 1] \cup {next[x] : x \in w[k - 1]}
    BY <2>1 DEF IsWalk
  <2>3. v[m + 1] = Following /\ \A k \in 0..m : v[k] = w[k]
    OBVIOUS
  <2>4. v = [k \in 0..m + 1 |-> v[k]]
    OBVIOUS
  <2> HIDE DEF v
  <2>5. ASSUME NEW k \in 0..m + 1
        PROVE  v[k] = IF k = 0 THEN {ListHead} ELSE v[k - 1] \cup {next[x] : x \in v[k - 1]}
    <3>1. CASE k = m + 1
      <4>1. k - 1 = m /\ m \in 0..m /\ k # 0
        BY <3>1
      <4> QED
        BY <2>3, <3>1, <4>1
    <3>2. CASE k \in 0..m
      <4>1. v[k] = w[k] /\ (k # 0 => v[k - 1] = w[k - 1])
        BY <2>3, <3>2
      <4> QED
        BY <2>2, <3>2, <4>1
    <3> QED
      BY <3>1, <3>2
  <2>6. IsWalk(v, m + 1)
    BY <2>4, <2>5 DEF IsWalk
  <2> QED
    BY <2>6
<1>3. Nat \subseteq S
  BY <1>1, <1>2, SetInduction
<1> QED
  BY <1>3

LEMMA WalkDef == IsWalk(Alarm!Walk, Alarm!Cardinality(Alarm!Nodes))
<1>1. Alarm!Cardinality(Alarm!Nodes) \in Nat
  <2>1. IsFiniteSet(Alarm!Nodes)
    BY AlarmConstants, FS_AddElement
  <2> QED
    BY <2>1, SameCardinality, FS_CardinalityType
<1>2. PICK w : IsWalk(w, Alarm!Cardinality(Alarm!Nodes))
  BY <1>1, WalkExists
<1> QED
  BY <1>2 DEF Alarm!Walk, IsWalk, ListHead

\* A walk as long as there are nodes meets all that the links lead to.
LEMMA ListSound ==
  ASSUME IsList(next, previous, registered)
  PROVE  Alarm!ListIsSound
<1> DEFINE N == Alarm!Cardinality(Alarm!Nodes)
           C == registered \cup {ListHead}
           Closed(T) == \A x \in T : next[x] \in T
           S == {k \in Nat : k <= N =>
                   /\ Alarm!Walk[k] \subseteq C /\ ListHead \in Alarm!Walk[k]
                   /\ Closed(Alarm!Walk[k]) \/ Cardinality(Alarm!Walk[k]) > k}
<1>1. /\ IsFiniteSet(Alarm!Nodes) /\ N = Cardinality(Alarm!Nodes) /\ N \in Nat
      /\ IsFiniteSet(C) /\ C \subseteq Alarm!Nodes /\ Closed(C)
  <2>1. IsFiniteSet(Alarm!Nodes) /\ N = Cardinality(Alarm!Nodes)
    BY AlarmConstants, FS_AddElement, SameCardinality
  <2>2. C \subseteq Alarm!Nodes /\ Closed(C)
    BY AlarmConstants DEF IsList
  <2> QED
    BY <2>1, <2>2, FS_CardinalityType, FS_Subset
<1> HIDE DEF N
<1>2. \A k \in 0..N : Alarm!Walk[k] = IF k = 0 THEN {ListHead}
                        ELSE Alarm!Walk[k - 1] \cup {next[x] : x \in Alarm!Walk[k - 1]}
  BY WalkDef DEF IsWalk, N
<1>3. 0 \in S
  <2>1. Alarm!Walk[0] = {ListHead}
    <3>1. 0 \in 0..N
      BY <1>1
    <3> QED
      BY <1>2, <3>1
  <2>2. Cardinality({ListHead}) = 1
    BY FS_Singleton
  <2> QED
    BY <2>1, <2>2
<1>4. ASSUME NEW k \in Nat, k \in S PROVE k + 1 \in S
  <2> SUFFICES ASSUME k + 1 <= N
               PROVE  /\ Alarm!Walk[k + 1] \subseteq C /\ ListHead \in Alarm!Walk[k + 1]
                      /\ Closed(Alarm!Walk[k + 1]) \/ Cardinality(Alarm!Walk[k + 1]) > k + 1
    OBVIOUS
  <2> DEFINE V == Alarm!Walk[k]
  <2>1. V \subseteq C /\ ListHead \in V /\ (Closed(V) \/ Cardinality(V) > k)
    BY <1>1, <1>4
  <2>2. Alarm!Walk[k + 1] = V \cup {next[x] : x \in V}
    <3>1. k + 1 \in 0..N /\ k + 1 # 0 /\ (k + 1) - 1 = k
      BY <1>1
    <3> QED
      BY <1>2, <3>1
  <2> HIDE DEF V
  <2>3. Alarm!Walk[k + 1] \subseteq C /\ ListHead \in Alarm!Walk[k + 1]
    BY <1>1, <2>1, <2>2
  <2>4. CASE Closed(V)
    <3>1. Alarm!Walk[k + 1] = V
      BY <2>2, <2>4
    <3> QED
      BY <2>3, <2>4, <3>1
  <2>5. CASE ~Closed(V)
    <3>1. PICK x \in V : next[x] \notin V
      BY <2>5
    <3>2. IsFiniteSet(V) /\ IsFiniteSet(Alarm!Walk[k + 1])
      BY <1>1, <2>1, <2>3, FS_Subset
    <3>3. Cardinality(V \cup {next[x]}) = Cardinality(V) + 1 /\ IsFiniteSet(V \cup {next[x]})
      BY <3>1, <3>2, FS_AddElement
    <3>4. V \cup {next[x]} \subseteq Alarm!Walk[k + 1]
      BY <2>2
    <3>5. Cardinality(V \cup {next[x]}) <= Cardinality(Alarm!Walk[k + 1])
      BY <3>2, <3>4, FS_Subset
    <3>6. Cardinality(V) > k /\ Cardinality(V) \in Nat /\ Cardinality(Alarm!Walk[k + 1]) \in Nat
      BY <2>1, <2>5, <3>2, FS_CardinalityType
    <3> QED
      BY <2>3, <3>3, <3>5, <3>6
  <2> QED
    BY <2>4, <2>5
<1>5. Nat \subseteq S
  <2> HIDE DEF S
  <2> QED
    BY <1>3, <1>4, SetInduction
<1>6. /\ Alarm!Walk[N] \subseteq C /\ ListHead \in Alarm!Walk[N]
      /\ Closed(Alarm!Walk[N]) \/ Cardinality(Alarm!Walk[N]) > N
  BY <1>1, <1>5
<1>7. Closed(Alarm!Walk[N])
  <2>1. Alarm!Walk[N] \subseteq Alarm!Nodes
    BY <1>1, <1>6
  <2>2. Cardinality(Alarm!Walk[N]) <= N /\ Cardinality(Alarm!Walk[N]) \in Nat
    BY <1>1, <2>1, FS_Subset, FS_CardinalityType
  <2> QED
    BY <1>1, <1>6, <2>2
<1>8. Alarm!Reached = C
  <2>1. registered \subseteq Alarm!Walk[N]
    BY <1>6, <1>7 DEF IsList
  <2> QED
    BY <1>6, <2>1 DEF Alarm!Reached, N
<1> QED
  BY <1>8 DEF Alarm!ListIsSound, IsList, ListHead

-----------------------------------------------------------------------------
(* Alarms: what the walk of alt_tick has still before it. *)

\* U is what links lead to from c on, before they are back at the head.
Ahead(n, p, R, U, c) ==
  /\ U \subseteq R /\ IF c = ListHead THEN U = {} ELSE c \in U /\ p[c] \notin U
  /\ \A x \in U : n[x] \in U \cup {ListHead} /\ (x # c => p[x] \in U)

LEMMA AheadFirst ==
  ASSUME NEW n, NEW p, NEW R, IsList(n, p, R)
  PROVE  Ahead(n, p, R, R, n[ListHead])
<1>1. /\ n[ListHead] \in R \cup {ListHead} /\ p[n[ListHead]] = ListHead
      /\ n[p[ListHead]] = ListHead /\ ListHead \notin R
      /\ \A x \in R : n[x] \in R \cup {ListHead} /\ p[x] \in R \cup {ListHead} /\ n[p[x]] = x
  BY AlarmConstants DEF IsList
<1>2. n[ListHead] = ListHead => R = {}
  <2>1. n[ListHead] = ListHead => R \subseteq {ListHead}
    BY DEF IsList
  <2> QED
    BY <1>1, <2>1
<1>3. \A x \in R : x # n[ListHead] => p[x] \in R
  BY <1>1
<1> QED
  BY <1>1, <1>2, <1>3 DEF Ahead

LEMMA AheadMoves ==
  ASSUME NEW n, NEW p, NEW R, IsList(n, p, R), NEW U, NEW c, Ahead(n, p, R, U, c), c # ListHead
  PROVE  Ahead(n, p, R, U \ {c}, n[c])
<1>1. /\ c \in U /\ c \in R /\ U \subseteq R /\ p[c] \notin U
      /\ \A x \in U : n[x] \in U \cup {ListHead} /\ (x # c => p[x] \in U)
  BY DEF Ahead
<1>2. \A x \in R \cup {ListHead} : n[x] \in R \cup {ListHead} /\ p[n[x]] = x /\ n[p[x]] = x
  BY DEF IsList
<1>3. ListHead \notin R
  BY AlarmConstants DEF IsList
<1>4. n[c] # c
  BY <1>1, NoLoop
<1>5. \A x \in U \ {c} : n[x] \in (U \ {c}) \cup {ListHead}
  BY <1>1, <1>2
<1>6. \A x \in U \ {c} : x # n[c] => p[x] \in U \ {c}
  BY <1>1, <1>2
<1>7. CASE n[c] = ListHead
  <2> DEFINE S == (R \cup {ListHead}) \ (U \ {c})
  <2>1. ASSUME NEW x \in S PROVE n[x] \in S
    <3> SUFFICES ASSUME n[x] \in U \ {c} PROVE FALSE
      BY <1>2
    <3>1. p[n[x]] \in U \ {c}
      BY <1>3, <1>6, <1>7, <1>1
    <3> QED
      BY <1>2, <3>1
  <2>2. ListHead \in S /\ S \in SUBSET (R \cup {ListHead})
    BY <1>1, <1>3
  <2>3. R \subseteq S
    BY <2>1, <2>2 DEF IsList
  <2>4. U \ {c} = {}
    BY <1>1, <2>3
  <2> QED
    BY <1>7, <2>4 DEF Ahead
<1>8. CASE n[c] # ListHead
  <2>1. n[c] \in U \ {c} /\ p[n[c]] = c
    BY <1>1, <1>2, <1>4, <1>8
  <2> QED
    BY <1>1, <1>5, <1>6, <1>8, <2>1 DEF Ahead
<1> QED
  BY <1>7, <1>8

LEMMA AheadInserted ==
  ASSUME NEW n, NEW p, NEW R, IsList(n, p, R), NEW U, NEW c, Ahead(n, p, R, U, c),
         NEW a \in Alarms \ R, NEW l, l = Alarm!Inserted([n |-> n, p |-> p], a)
  PROVE  Ahead(l.n, l.p, R \cup {a}, U, c)
<1>1. /\ \A x \in R : l.n[x] = n[x] /\ (x # n[ListHead] => l.p[x] = p[x])
      /\ l.p[n[ListHead]] = a
  <2>1. LinksInserted(n, p, R, a, l)
    BY InsertedIsList
  <2> QED
    BY <2>1 DEF LinksInserted
<1>2. U \subseteq R /\ p[n[ListHead]] = ListHead /\ ListHead \notin U /\ a \notin U
  BY AlarmConstants DEF Ahead, IsList
<1>3. \A x \in U : l.n[x] \in U \cup {ListHead} /\ (x # c => l.p[x] \in U)
  BY <1>1, <1>2 DEF Ahead
<1>4. c # ListHead => c \in U /\ l.p[c] \notin U
  BY <1>1, <1>2 DEF Ahead
<1> QED
  BY <1>2, <1>3, <1>4 DEF Ahead

LEMMA AheadRemoved ==
  ASSUME NEW n, NEW p, NEW R, IsList(n, p, R), NEW U, NEW c, Ahead(n, p, R, U, c),
         NEW a \in R \ U, NEW l, l = Alarm!Removed([n |-> n, p |-> p], a)
  PROVE  Ahead(l.n, l.p, R \ {a}, U, c)
<1>1. /\ \A x \in R \ {a} : (x # p[a] => l.n[x] = n[x]) /\ (x # n[a] => l.p[x] = p[x])
      /\ l.p[n[a]] = p[a]
  <2>1. LinksRemoved(n, p, R, a, l)
    <3>1. a \in R
      OBVIOUS
    <3> QED
      BY <3>1, RemovedIsList
  <2> QED
    BY <2>1 DEF LinksRemoved
<1>2. U \subseteq R \ {a} /\ n[p[a]] = a /\ p[n[a]] = a /\ a # ListHead
  BY AlarmConstants DEF Ahead, IsList
<1>3. p[a] \notin U
  BY <1>2 DEF Ahead
<1>4. \A x \in U : l.n[x] \in U \cup {ListHead} /\ (x # c => l.p[x] \in U)
  BY <1>1, <1>2, <1>3 DEF Ahead
<1>5. c # ListHead => c \in U /\ l.p[c] \notin U
  BY <1>1, <1>2, <1>3 DEF Ahead
<1> QED
  BY <1>2, <1>4, <1>5 DEF Ahead

-----------------------------------------------------------------------------
(* Alarms: due times on a counter that wraps. *)

\* An alarm that is not due yet, and one that the tick under way has not looked at.
Waiting(a) ==
  /\ remaining[a] \in 1..AlarmWrap - 1
  /\ time[a] = (_alt_nticks + remaining[a]) % AlarmWrap
  /\ rollover[a] <=> _alt_nticks + remaining[a] >= AlarmWrap
Unseen(a) ==
  /\ remaining[a] \in 0..AlarmWrap - 2
  /\ time[a] = (_alt_nticks + remaining[a]) % AlarmWrap
  /\ Alarm!StillRolled(a) <=> _alt_nticks + remaining[a] >= AlarmWrap

AlarmInv ==
  /\ Alarm!TypeOK /\ IsList(next, previous, registered)
  /\ alarm_pc = "idle" => \A a \in registered : Waiting(a)
  /\ alarm_pc = "tick" =>
       \E U \in SUBSET registered :
         /\ Ahead(next, previous, registered, U, alarm)
         /\ \A a \in U : Unseen(a)
         /\ \A a \in registered \ U : Waiting(a)

\* A sum of two counts of less than a round.
LEMMA RoundTheCounter ==
  ASSUME NEW now \in 0..AlarmWrap - 1, NEW k \in 0..AlarmWrap - 1
  PROVE  /\ (now + k) % AlarmWrap \in 0..AlarmWrap - 1
         /\ now + k < AlarmWrap => (now + k) % AlarmWrap = now + k
         /\ now + k >= AlarmWrap => (now + k) % AlarmWrap = now + k - AlarmWrap
         /\ (now + k) % AlarmWrap < now <=> now + k >= AlarmWrap
<1>1. AlarmWrap \in Nat \ {0} /\ now + k \in Nat /\ now + k < 2 * AlarmWrap
  BY AlarmConstants
<1>2. (now + k) % AlarmWrap = IF now + k < AlarmWrap THEN now + k ELSE now + k - AlarmWrap
  BY <1>1
<1> QED
  BY <1>1, <1>2

\* The test of alt_tick.
LEMMA ExpiredIs ==
  ASSUME Alarm!TypeOK, NEW a \in Alarms, Unseen(a)
  PROVE  Alarm!Expired(a) <=> remaining[a] = 0
<1>1. /\ _alt_nticks \in 0..AlarmWrap - 1 /\ remaining[a] \in 0..AlarmWrap - 1
      /\ AlarmWrap \in Nat
  BY AlarmConstants DEF Alarm!TypeOK, Unseen
<1>2. CASE _alt_nticks + remaining[a] >= AlarmWrap
  BY <1>1, <1>2 DEF Unseen, Alarm!Expired
<1>3. CASE _alt_nticks + remaining[a] < AlarmWrap
  <2>1. time[a] = _alt_nticks + remaining[a]
    BY <1>1, <1>3, RoundTheCounter DEF Unseen
  <2>2. ~Alarm!StillRolled(a)
    BY <1>1, <1>3 DEF Unseen
  <2> QED
    BY <1>1, <2>1, <2>2 DEF Alarm!Expired
<1> QED
  BY <1>1, <1>2, <1>3

-----------------------------------------------------------------------------
(* Alarms: the steps. *)

LEMMA SetIs ==
  ASSUME NEW l, Alarm!Set(l)
  PROVE  next' = l.n /\ previous' = l.p
BY DEF Alarm!Set

LEMMA AlarmTypes ==
  ASSUME AlarmInv
  PROVE  /\ Alarm!TypeOK /\ IsList(next, previous, registered)
         /\ registered \subseteq Alarms /\ Alarms \subseteq Alarm!Nodes /\ ListHead \in Alarm!Nodes
         /\ _alt_nticks \in 0..AlarmWrap - 1
         /\ time \in [Alarms -> 0..AlarmWrap - 1] /\ rollover \in [Alarms -> BOOLEAN]
         /\ remaining \in [Alarms -> 0..AlarmWrap]
BY AlarmConstants DEF AlarmInv, Alarm!TypeOK

\* An alarm just started, by the program or by a callback.
LEMMA StartedWaits ==
  ASSUME AlarmInv, NEW a \in Alarms, NEW k \in Nticks, UNCHANGED _alt_nticks,
         time'[a] = Alarm!Due(k), rollover'[a] = Alarm!Wrapped(Alarm!Due(k), _alt_nticks),
         remaining'[a] = k + 1
  PROVE  Waiting(a)' /\ Alarm!Due(k) \in 0..AlarmWrap - 1
<1>1. /\ _alt_nticks \in 0..AlarmWrap - 1 /\ k + 1 \in 1..AlarmWrap - 1
      /\ k + 1 \in 0..AlarmWrap - 1 /\ k + _alt_nticks + 1 = _alt_nticks + (k + 1)
  BY AlarmConstants, AlarmTypes
<1>2. Alarm!Due(k) = (_alt_nticks + (k + 1)) % AlarmWrap
  BY <1>1 DEF Alarm!Due
<1>3. rollover'[a] <=> _alt_nticks + (k + 1) >= AlarmWrap
  BY <1>1, <1>2, RoundTheCounter DEF Alarm!Wrapped
<1> QED
  BY <1>1, <1>2, <1>3, RoundTheCounter DEF Waiting

LEMMA StillWaits ==
  ASSUME NEW a, UNCHANGED _alt_nticks, remaining'[a] = remaining[a], time'[a] = time[a],
         rollover'[a] = rollover[a]
  PROVE  (Waiting(a) => Waiting(a)') /\ (Unseen(a) => Unseen(a)')
BY DEF Waiting, Unseen, Alarm!StillRolled

LEMMA SysclkKeeps ==
  ASSUME AlarmInv, Alarm!SysclkInit
  PROVE  AlarmInv'
<1>1. UNCHANGED <<_alt_nticks, next, previous, time, rollover, alarm_pc, alarm, registered,
                  remaining, ret>> /\ _alt_tick_rate' \in {0, 1}
  BY DEF Alarm!SysclkInit, Alarm!links
<1>2. Alarm!TypeOK'
  BY <1>1 DEF AlarmInv, Alarm!TypeOK
<1> QED
  BY <1>1, <1>2 DEF AlarmInv, Waiting, Unseen, Alarm!StillRolled

LEMMA StartKeeps ==
  ASSUME AlarmInv, NEW a \in Alarms, NEW k \in Nticks, Alarm!Start(a, k)
  PROVE  AlarmInv'
<1> USE AlarmTypes
<1>1. /\ alarm_pc = "idle" /\ a \notin registered
      /\ UNCHANGED <<_alt_tick_rate, _alt_nticks, alarm_pc, alarm>>
  BY DEF Alarm!Start, Alarm!clock
<1>2. CASE _alt_tick_rate = 0
  <2>1. /\ ret' = -Alarm!ENOTSUP
        /\ UNCHANGED <<next, previous, time, rollover, registered, remaining>>
    BY <1>2 DEF Alarm!Start, Alarm!links
  <2>2. Alarm!TypeOK'
    BY <1>1, <2>1 DEF Alarm!TypeOK
  <2> QED
    BY <1>1, <2>1, <2>2 DEF AlarmInv, Waiting, Alarm!StillRolled
<1>3. CASE _alt_tick_rate # 0
  <2> DEFINE l == Alarm!Inserted(Alarm!Here, a)
  <2>1. /\ time' = [time EXCEPT ![a] = Alarm!Due(k)]
        /\ rollover' = [rollover EXCEPT ![a] = Alarm!Wrapped(Alarm!Due(k), _alt_nticks)]
        /\ next' = l.n /\ previous' = l.p /\ ret' = 0
        /\ registered' = registered \cup {a}
        /\ remaining' = [remaining EXCEPT ![a] = k + 1]
    BY <1>3 DEF Alarm!Start, Alarm!Set
  <2>2. l = Alarm!Inserted([n |-> next, p |-> previous], a)
    BY DEF Alarm!Here
  <2> HIDE DEF l
  <2>3. IsList(next', previous', registered')
    BY <1>1, <2>1, <2>2, InsertedIsList
  <2>4. Waiting(a)' /\ Alarm!Due(k) \in 0..AlarmWrap - 1
    BY <1>1, <2>1, StartedWaits
  <2>5. ASSUME NEW b \in registered PROVE Waiting(b)'
    <3>1. b # a /\ Waiting(b)
      BY <1>1 DEF AlarmInv
    <3> QED
      BY <1>1, <2>1, <3>1, StillWaits
  <2>6. Alarm!TypeOK'
    <3>1. time' \in [Alarms -> 0..AlarmWrap - 1]
      BY <2>1, <2>4
    <3>2. rollover' \in [Alarms -> BOOLEAN]
      BY <2>1 DEF Alarm!Wrapped
    <3>3. k + 1 \in 0..AlarmWrap
      BY AlarmConstants
    <3>4. remaining' \in [Alarms -> 0..AlarmWrap]
      BY <2>1, <3>3
    <3>5. /\ next' \in [Alarm!Nodes -> Links] /\ previous' \in [Alarm!Nodes -> Links]
          /\ registered' \subseteq Alarms
      BY <2>3 DEF IsList
    <3> QED
      BY <1>1, <2>1, <3>1, <3>2, <3>4, <3>5 DEF Alarm!TypeOK, Links
  <2> QED
    BY <1>1, <2>1, <2>3, <2>4, <2>5, <2>6 DEF AlarmInv
<1> QED
  BY <1>2, <1>3

LEMMA StopKeeps ==
  ASSUME AlarmInv, NEW a \in Alarms, Alarm!Stop(a)
  PROVE  AlarmInv'
<1> USE AlarmTypes
<1> DEFINE l == Alarm!Removed(Alarm!Here, a)
<1>1. /\ alarm_pc = "idle" /\ next[a] # Alarm!NotYet
      /\ next' = l.n /\ previous' = l.p /\ registered' = registered \ {a}
      /\ UNCHANGED <<_alt_tick_rate, _alt_nticks, time, rollover, alarm_pc, alarm, remaining, ret>>
  BY DEF Alarm!Stop, Alarm!clock, Alarm!Set
<1>2. l = Alarm!Removed([n |-> next, p |-> previous], a)
  BY DEF Alarm!Here
<1> HIDE DEF l
<1>3. IsList(next', previous', registered')
  <2>1. CASE a \in registered
    BY <1>1, <1>2, <2>1, RemovedIsList
  <2>2. CASE a \notin registered
    <3>1. next' = next /\ previous' = previous
      BY <1>1, <1>2, <2>2, RemovedTwice
    <3>2. registered' = registered
      BY <1>1, <2>2
    <3> QED
      BY <3>1, <3>2
  <2> QED
    BY <2>1, <2>2
<1>4. Alarm!TypeOK'
  BY <1>1, <1>3 DEF Alarm!TypeOK, IsList, Links
<1>5. ASSUME NEW b \in registered PROVE Waiting(b)'
  <2>1. Waiting(b)
    BY <1>1 DEF AlarmInv
  <2> QED
    BY <1>1, <2>1, StillWaits
<1> QED
  BY <1>1, <1>3, <1>4, <1>5 DEF AlarmInv

\* The counter moves on: every alarm is a tick closer, and unseen.
LEMMA TickKeeps ==
  ASSUME AlarmInv, Alarm!Tick
  PROVE  AlarmInv'
<1> USE AlarmTypes
<1>1. /\ alarm_pc = "idle" /\ _alt_nticks' = (_alt_nticks + 1) % AlarmWrap
      /\ remaining' = [a \in Alarms |-> IF a \in registered THEN remaining[a] - 1 ELSE 0]
      /\ alarm_pc' = "tick" /\ alarm' = next[ListHead]
      /\ UNCHANGED <<_alt_tick_rate, next, previous, time, rollover, registered, ret>>
  BY DEF Alarm!Tick, Alarm!links, ListHead
<1>2. /\ _alt_nticks' \in 0..AlarmWrap - 1
      /\ _alt_nticks' = IF _alt_nticks + 1 = AlarmWrap THEN 0 ELSE _alt_nticks + 1
  <2>1. 1 \in 0..AlarmWrap - 1 /\ _alt_nticks \in 0..AlarmWrap - 1 /\ AlarmWrap \in Nat
    BY AlarmConstants
  <2>2. /\ (_alt_nticks + 1) % AlarmWrap \in 0..AlarmWrap - 1
        /\ _alt_nticks + 1 < AlarmWrap => (_alt_nticks + 1) % AlarmWrap = _alt_nticks + 1
        /\ _alt_nticks + 1 >= AlarmWrap =>
             (_alt_nticks + 1) % AlarmWrap = _alt_nticks + 1 - AlarmWrap
    BY <2>1, RoundTheCounter
  <2>3. (_alt_nticks + 1) % AlarmWrap =
          IF _alt_nticks + 1 = AlarmWrap THEN 0 ELSE _alt_nticks + 1
    BY <2>1, <2>2
  <2> QED
    BY <1>1, <2>2, <2>3
<1>3. ASSUME NEW a \in registered
      PROVE  Unseen(a)' /\ remaining'[a] \in 0..AlarmWrap - 2
  <2>1. Waiting(a)
    BY <1>1 DEF AlarmInv
  <2> DEFINE k == remaining[a]
             now == _alt_nticks
  <2>2. /\ k \in 1..AlarmWrap - 1 /\ now \in 0..AlarmWrap - 1
        /\ k \in 0..AlarmWrap - 1 /\ k - 1 \in 0..AlarmWrap - 2 /\ AlarmWrap \in Nat
        /\ k - 1 \in 0..AlarmWrap - 1
    BY <2>1, AlarmConstants DEF Waiting
  <2>3. remaining'[a] = k - 1 /\ time'[a] = (now + k) % AlarmWrap
    BY <1>1, <2>1 DEF Waiting
  <2>4. rollover'[a] <=> now + k >= AlarmWrap
    BY <1>1, <2>1 DEF Waiting
  <2> HIDE DEF k, now
  <2>5. _alt_nticks' = IF now + 1 = AlarmWrap THEN 0 ELSE now + 1
    BY <1>2 DEF now
  <2>6. Alarm!StillRolled(a)' <=> _alt_nticks' + (k - 1) >= AlarmWrap
    <3>1. Alarm!StillRolled(a)' <=> now + k >= AlarmWrap /\ _alt_nticks' # 0
      BY <2>4 DEF Alarm!StillRolled
    <3> QED
      BY <2>2, <2>5, <3>1
  <2>7. (now + k) % AlarmWrap = (_alt_nticks' + (k - 1)) % AlarmWrap
    <3>1. CASE now + 1 # AlarmWrap
      <4>1. _alt_nticks' + (k - 1) = now + k
        BY <2>2, <2>5, <3>1
      <4> QED
        BY <4>1
    <3>2. CASE now + 1 = AlarmWrap
      <4>1. (now + k) % AlarmWrap = now + k - AlarmWrap
        <5>1. now + k >= AlarmWrap
          BY <2>2, <3>2
        <5> QED
          BY <2>2, <5>1, RoundTheCounter
      <4>2. 0 \in 0..AlarmWrap - 1 /\ 0 + (k - 1) < AlarmWrap
        BY <2>2
      <4>3. (0 + (k - 1)) % AlarmWrap = 0 + (k - 1)
        BY <2>2, <4>2, RoundTheCounter
      <4>4. now + k - AlarmWrap = 0 + (k - 1) /\ _alt_nticks' = 0
        BY <2>2, <2>5, <3>2
      <4> QED
        BY <4>1, <4>3, <4>4
    <3> QED
      BY <3>1, <3>2
  <2> QED
    BY <2>2, <2>3, <2>6, <2>7 DEF Unseen
<1>4. Alarm!TypeOK'
  <2>1. remaining' \in [Alarms -> 0..AlarmWrap]
    <3>1. ASSUME NEW a \in registered PROVE remaining[a] - 1 \in 0..AlarmWrap
      <4>1. remaining'[a] = remaining[a] - 1
        BY <1>1
      <4> QED
        BY <1>3, <4>1, AlarmConstants
    <3>2. 0 \in 0..AlarmWrap
      BY AlarmConstants
    <3> QED
      BY <1>1, <3>1, <3>2
  <2>2. alarm' \in Alarm!Nodes
    BY <1>1, AlarmConstants DEF IsList
  <2> QED
    BY <1>1, <1>2, <2>1, <2>2 DEF Alarm!TypeOK
<1>5. Ahead(next, previous, registered, registered, next[ListHead])
  BY AheadFirst
<1>6. Ahead(next', previous', registered', registered', alarm')
  BY <1>1, <1>5
<1>7. \A a \in registered' : Unseen(a)'
  BY <1>1, <1>3
<1>8. IsList(next', previous', registered')
  BY <1>1
<1> QED
  BY <1>1, <1>4, <1>6, <1>7, <1>8 DEF AlarmInv

\* In a tick: what is ahead, from the alarm that the loop looks at.
LEMMA TickSplits ==
  ASSUME AlarmInv, alarm_pc = "tick", alarm # ListHead
  PROVE  \E U \in SUBSET registered :
           /\ alarm \in U /\ alarm \in Alarms /\ alarm \in registered
           /\ Unseen(alarm) /\ (Alarm!Expired(alarm) <=> remaining[alarm] = 0)
           /\ Ahead(next, previous, registered, U \ {alarm}, next[alarm])
           /\ \A a \in U : Unseen(a)
           /\ \A a \in registered \ U : Waiting(a)
<1>1. PICK U \in SUBSET registered :
        /\ Ahead(next, previous, registered, U, alarm)
        /\ \A a \in U : Unseen(a)
        /\ \A a \in registered \ U : Waiting(a)
  BY DEF AlarmInv
<1>2. alarm \in U /\ alarm \in Alarms /\ alarm \in registered
  BY <1>1, AlarmTypes DEF Ahead
<1>3. Unseen(alarm) /\ (Alarm!Expired(alarm) <=> remaining[alarm] = 0)
  BY <1>1, <1>2, AlarmTypes, ExpiredIs
<1>4. Ahead(next, previous, registered, U \ {alarm}, next[alarm])
  BY <1>1, AlarmTypes, AheadMoves
<1> QED
  BY <1>1, <1>2, <1>3, <1>4

LEMMA SkipKeeps ==
  ASSUME AlarmInv, Alarm!Skip
  PROVE  AlarmInv'
<1> USE AlarmTypes
<1>1. /\ alarm_pc = "tick" /\ alarm # ListHead /\ ~Alarm!Expired(alarm)
      /\ rollover' = [rollover EXCEPT ![alarm] = Alarm!StillRolled(alarm)]
      /\ alarm' = next[alarm]
      /\ UNCHANGED <<_alt_tick_rate, _alt_nticks, next, previous, time, alarm_pc, registered,
                     remaining, ret>>
  BY DEF Alarm!Skip, Alarm!clock, Alarm!links, ListHead
<1>2. PICK U \in SUBSET registered :
        /\ alarm \in U /\ alarm \in Alarms /\ alarm \in registered
        /\ Unseen(alarm) /\ (Alarm!Expired(alarm) <=> remaining[alarm] = 0)
        /\ Ahead(next, previous, registered, U \ {alarm}, next[alarm])
        /\ \A a \in U : Unseen(a)
        /\ \A a \in registered \ U : Waiting(a)
  BY <1>1, TickSplits
<1>7. PICK c \in registered : c = alarm
  BY <1>2
<1>3. Waiting(c)'
  <2>1. remaining[c] \in 1..AlarmWrap - 1 /\ Unseen(c)
    BY <1>1, <1>2, <1>7, AlarmConstants DEF Unseen
  <2>2. rollover'[c] <=> _alt_nticks + remaining[c] >= AlarmWrap
    BY <1>1, <1>7, <2>1 DEF Unseen
  <2> QED
    BY <1>1, <2>1, <2>2 DEF Unseen, Waiting
<1>4. ASSUME NEW a \in registered, a # c
      PROVE  (Waiting(a) => Waiting(a)') /\ (Unseen(a) => Unseen(a)')
  BY <1>1, <1>7, <1>4, StillWaits
<1>5. Alarm!TypeOK'
  <2>1. rollover' \in [Alarms -> BOOLEAN]
    BY <1>1 DEF Alarm!StillRolled
  <2>2. alarm' \in Alarm!Nodes
    BY <1>1, <1>2 DEF IsList
  <2> QED
    BY <1>1, <2>1, <2>2 DEF Alarm!TypeOK
<1>6. /\ U \ {c} \in SUBSET registered'
      /\ Ahead(next', previous', registered', U \ {c}, alarm')
      /\ \A a \in U \ {c} : Unseen(a)'
      /\ \A a \in registered' \ (U \ {c}) : Waiting(a)'
  BY <1>1, <1>2, <1>7, <1>3, <1>4
<1> QED
  BY <1>1, <1>5, <1>6 DEF AlarmInv

LEMMA TickEndsKeeps ==
  ASSUME AlarmInv, Alarm!TickEnds
  PROVE  AlarmInv'
<1> USE AlarmTypes
<1>1. /\ alarm_pc = "tick" /\ alarm = ListHead /\ alarm_pc' = "idle"
      /\ UNCHANGED <<_alt_tick_rate, _alt_nticks, next, previous, time, rollover, alarm,
                     registered, remaining, ret>>
  BY DEF Alarm!TickEnds, Alarm!clock, Alarm!links, ListHead
<1>2. \A a \in registered : Waiting(a)
  BY <1>1 DEF AlarmInv, Ahead
<1>3. Alarm!TypeOK' /\ IsList(next', previous', registered')
  BY <1>1 DEF Alarm!TypeOK
<1>4. \A a \in registered' : Waiting(a)'
  BY <1>1, <1>2, StillWaits
<1> QED
  BY <1>1, <1>3, <1>4 DEF AlarmInv

\* A callback of a leaves the links m and the alarms Q: it started s, or no alarm, and
\* returned k.
Leaves(n, p, R, a, s, k, l, m, Q) ==
  /\ l = IF s = ListHead THEN [n |-> n, p |-> p] ELSE Alarm!Inserted([n |-> n, p |-> p], s)
  /\ m = IF k = 0 THEN Alarm!Removed(l, a) ELSE l
  /\ Q = (R \cup ({s} \cap Alarms)) \ (IF k = 0 THEN {a} ELSE {})

LEMMA CallBackLinks ==
  ASSUME NEW n, NEW p, NEW R, IsList(n, p, R), NEW U, NEW c, Ahead(n, p, R, U, c),
         NEW a \in R, a \notin U, NEW s, s = ListHead \/ s \in Alarms \ R, NEW k,
         NEW l, NEW m, NEW Q, Leaves(n, p, R, a, s, k, l, m, Q)
  PROVE  IsList(m.n, m.p, Q) /\ Ahead(m.n, m.p, Q, U, c)
<1> USE DEF Leaves
<1> DEFINE P == R \cup ({s} \cap Alarms)
<1>1. IsList(l.n, l.p, P) /\ Ahead(l.n, l.p, P, U, c) /\ l = [n |-> l.n, p |-> l.p]
  <2>1. CASE s = ListHead
    <3>1. P = R /\ l.n = n /\ l.p = p
      BY <2>1, AlarmConstants
    <3> QED
      BY <2>1, <3>1
  <2>2. CASE s \in Alarms \ R
    <3>1. P = R \cup {s} /\ s # ListHead
      BY <2>2, AlarmConstants
    <3>2. l = Alarm!Inserted([n |-> n, p |-> p], s)
      BY <3>1
    <3>3. IsList(l.n, l.p, R \cup {s})
      BY <2>2, <3>2, InsertedIsList
    <3>4. Ahead(l.n, l.p, R \cup {s}, U, c)
      BY <2>2, <3>2, AheadInserted
    <3>5. l = [n |-> l.n, p |-> l.p]
      BY <3>2 DEF Alarm!Inserted
    <3> QED
      BY <3>1, <3>3, <3>4, <3>5
  <2> QED
    BY <2>1, <2>2
<1> HIDE DEF P
<1>2. a \in P /\ Q = IF k = 0 THEN P \ {a} ELSE P
  BY DEF P
<1>3. CASE k = 0
  <2> DEFINE ln == l.n
             lp == l.p
  <2>1. IsList(ln, lp, P) /\ Ahead(ln, lp, P, U, c) /\ m = Alarm!Removed([n |-> ln, p |-> lp], a)
    BY <1>1, <1>3
  <2> HIDE DEF ln, lp
  <2>2. IsList(m.n, m.p, P \ {a})
    BY <1>2, <2>1, RemovedIsList
  <2>3. a \in P \ U
    BY <1>2
  <2>4. Ahead(m.n, m.p, P \ {a}, U, c)
    BY <2>1, <2>3, AheadRemoved
  <2> QED
    BY <1>2, <1>3, <2>2, <2>4
<1>4. CASE k # 0
  BY <1>1, <1>2, <1>4
<1> QED
  BY <1>3, <1>4

\* One turn with a callback, in which no other alarm is stopped.
LEMMA CallBackKeeps ==
  ASSUME AlarmInv, NEW k \in Periods, NEW delay \in Nticks,
         NEW s \in {ListHead} \cup (Alarms \ (registered \cup {alarm})),
         Alarm!CallBack(k, ListHead, s, delay)
  PROVE  AlarmInv'
<1> USE AlarmTypes
<1>1. /\ alarm_pc = "tick" /\ alarm # ListHead /\ Alarm!Expired(alarm) /\ alarm' = next[alarm]
      /\ UNCHANGED <<_alt_tick_rate, _alt_nticks, alarm_pc, ret>>
  BY DEF Alarm!CallBack, Alarm!clock, ListHead
<1>2. PICK U \in SUBSET registered :
        /\ alarm \in U /\ alarm \in Alarms /\ alarm \in registered
        /\ Unseen(alarm) /\ (Alarm!Expired(alarm) <=> remaining[alarm] = 0)
        /\ Ahead(next, previous, registered, U \ {alarm}, next[alarm])
        /\ \A a \in U : Unseen(a)
        /\ \A a \in registered \ U : Waiting(a)
  BY <1>1, TickSplits
<1>3. PICK c \in registered : c = alarm
  BY <1>2
<1> DEFINE t == (time[alarm] + k) % AlarmWrap
           l == IF s = ListHead THEN [n |-> next, p |-> previous]
                ELSE Alarm!Inserted([n |-> next, p |-> previous], s)
           m == IF k = 0 THEN Alarm!Removed(l, alarm) ELSE l
<1>4. next' = m.n /\ previous' = m.p
  BY DEF Alarm!CallBack, Alarm!Set, Alarm!Here, ListHead
<1>5. /\ time' = [a \in Alarms |-> IF a = s THEN Alarm!Due(delay)
                                   ELSE IF a = alarm /\ k # 0 THEN t ELSE time[a]]
      /\ rollover' = [a \in Alarms |->
           IF a = s THEN Alarm!Wrapped(Alarm!Due(delay), _alt_nticks)
           ELSE IF a = alarm THEN k # 0 /\ Alarm!Wrapped(t, _alt_nticks) ELSE rollover[a]]
      /\ remaining' = [a \in Alarms |->
           IF a = s THEN delay + 1 ELSE IF a = alarm THEN k ELSE remaining[a]]
  BY DEF Alarm!CallBack
<1>6. registered' = (registered \cup ({s} \cap Alarms)) \ (IF k = 0 THEN {alarm} ELSE {})
  <2>1. registered' = ((registered \ {ListHead}) \cup ({s} \cap Alarms))
                        \ (IF k = 0 THEN {alarm} ELSE {})
    BY DEF Alarm!CallBack
  <2>2. registered \ {ListHead} = registered
    BY AlarmConstants
  <2> QED
    BY <2>1, <2>2
<1>7. s = ListHead \/ s \in Alarms \ registered
  OBVIOUS
<1>8. /\ IsList(next', previous', registered')
      /\ Ahead(next', previous', registered', U \ {alarm}, alarm')
  <2> HIDE DEF l, m
  <2>1. Leaves(next, previous, registered, alarm, s, k, l, m, registered')
    BY <1>6 DEF l, m, Leaves
  <2>2. alarm \in registered /\ alarm \notin U \ {alarm}
    BY <1>2
  <2>3. IsList(m.n, m.p, registered') /\ Ahead(m.n, m.p, registered', U \ {alarm}, next[alarm])
    BY <1>2, <1>7, <2>1, <2>2, CallBackLinks
  <2> QED
    BY <1>1, <1>4, <2>3
<1> HIDE DEF l, m
<1>9. s \in Alarms => Waiting(s)' /\ Alarm!Due(delay) \in 0..AlarmWrap - 1
  BY <1>1, <1>5, StartedWaits
<1>10. ASSUME NEW a \in registered, a # c
       PROVE  (Waiting(a) => Waiting(a)') /\ (Unseen(a) => Unseen(a)')
  <2>1. a # s /\ a # alarm /\ a \in Alarms
    BY <1>3, <1>7, <1>10, AlarmConstants
  <2>2. remaining'[a] = remaining[a] /\ time'[a] = time[a] /\ rollover'[a] = rollover[a]
    BY <1>5, <2>1
  <2> QED
    BY <1>1, <2>2, StillWaits
<1>11. k \in 0..AlarmWrap - 1 /\ AlarmWrap \in Nat /\ AlarmWrap > 1 /\ delay + 1 \in 0..AlarmWrap
  BY AlarmConstants
<1>12. t \in 0..AlarmWrap - 1 /\ t = (_alt_nticks + k) % AlarmWrap
       /\ (t < _alt_nticks <=> _alt_nticks + k >= AlarmWrap)
  <2>1. time[c] = (_alt_nticks + 0) % AlarmWrap
    BY <1>1, <1>2, <1>3 DEF Unseen
  <2>2. 0 \in 0..AlarmWrap - 1 /\ _alt_nticks + 0 < AlarmWrap /\ _alt_nticks + 0 = _alt_nticks
    BY <1>11
  <2>3. time[alarm] = _alt_nticks
    BY <1>3, <2>1, <2>2, RoundTheCounter
  <2> QED
    BY <1>11, <2>3, RoundTheCounter
<1> HIDE DEF t
<1>13. ASSUME k # 0 PROVE Waiting(c)'
  <2>1. c # s /\ c = alarm /\ c \in Alarms
    BY <1>3, <1>7, AlarmConstants
  <2>2. remaining'[c] = k /\ time'[c] = t /\ rollover'[c] = Alarm!Wrapped(t, _alt_nticks)
    BY <1>5, <1>13, <2>1 DEF Alarm!Wrapped
  <2>3. rollover'[c] <=> _alt_nticks + k >= AlarmWrap
    BY <1>12, <2>2 DEF Alarm!Wrapped
  <2>4. k \in 1..AlarmWrap - 1
    BY <1>11, <1>13
  <2> QED
    BY <1>1, <1>12, <2>2, <2>3, <2>4 DEF Waiting
<1>14. Alarm!TypeOK'
  <2>1. time' \in [Alarms -> 0..AlarmWrap - 1]
    BY <1>5, <1>9, <1>12
  <2>2. rollover' \in [Alarms -> BOOLEAN]
    <3>1. \A a \in Alarms : rollover[a] \in BOOLEAN
      OBVIOUS
    <3>2. \A x : Alarm!Wrapped(x, _alt_nticks) \in BOOLEAN
      BY DEF Alarm!Wrapped
    <3> QED
      BY <1>5, <3>1, <3>2, Zenon
  <2>3. remaining' \in [Alarms -> 0..AlarmWrap]
    BY <1>5, <1>11
  <2>4. /\ next' \in [Alarm!Nodes -> Links] /\ previous' \in [Alarm!Nodes -> Links]
        /\ registered' \subseteq Alarms
    BY <1>8 DEF IsList
  <2>5. alarm' \in Alarm!Nodes
    BY <1>1, <1>2 DEF IsList
  <2> QED
    BY <1>1, <2>1, <2>2, <2>3, <2>4, <2>5 DEF Alarm!TypeOK, Links
<1>15. /\ U \ {c} \in SUBSET registered'
       /\ Ahead(next', previous', registered', U \ {c}, alarm')
       /\ \A a \in U \ {c} : Unseen(a)'
       /\ \A a \in registered' \ (U \ {c}) : Waiting(a)'
  <2>1. ASSUME NEW a \in registered' \ (U \ {c}) PROVE Waiting(a)'
    <3>1. CASE a = c
      <4>1. k # 0
        BY <1>3, <1>6, <3>1
      <4> QED
        BY <1>13, <3>1, <4>1
    <3>2. CASE a = s /\ a \in Alarms
      BY <1>9, <3>2
    <3>3. CASE a \in registered /\ a # c
      BY <1>2, <1>10, <3>3
    <3> QED
      BY <1>6, <3>1, <3>2, <3>3
  <2>2. \A a \in U \ {c} : Unseen(a)'
    BY <1>2, <1>10
  <2>3. U \ {c} \in SUBSET registered'
    BY <1>3, <1>6
  <2> QED
    BY <1>3, <1>8, <2>1, <2>2, <2>3
<1> QED
  BY <1>1, <1>8, <1>14, <1>15 DEF AlarmInv

LEMMA AlarmStep ==
  ASSUME AlarmInv, Alarm!Next \/ UNCHANGED alarms
  PROVE  AlarmInv'
<1>1. CASE Alarm!SysclkInit
  BY <1>1, SysclkKeeps
<1>2. CASE Alarm!Tick
  BY <1>2, TickKeeps
<1>3. CASE Alarm!Skip
  BY <1>3, SkipKeeps
<1>4. CASE Alarm!CallBacks
  <2>1. PICK k \in Periods, delay \in Nticks, stopped \in {ListHead},
             s \in {ListHead} \cup (Alarms \ (registered \cup {alarm})) :
          Alarm!CallBack(k, stopped, s, delay)
    BY <1>4, AlarmConstants DEF Alarm!CallBacks, ListHead
  <2> QED
    BY <2>1, CallBackKeeps
<1>5. CASE Alarm!TickEnds
  BY <1>5, TickEndsKeeps
<1>6. ASSUME NEW a \in Alarms, Alarm!Stop(a) PROVE AlarmInv'
  BY <1>6, StopKeeps
<1>7. ASSUME NEW a \in Alarms, NEW delay \in Nticks, Alarm!Start(a, delay) PROVE AlarmInv'
  BY <1>7, StartKeeps
<1>8. CASE UNCHANGED alarms
  <2>1. UNCHANGED <<_alt_tick_rate, _alt_nticks, next, previous, time, rollover, alarm_pc, alarm,
                    registered, remaining, ret>>
    BY <1>8 DEF alarms
  <2> QED
    BY <2>1 DEF AlarmInv, Alarm!TypeOK, Waiting, Unseen, Alarm!StillRolled
<1> QED
  BY <1>1, <1>2, <1>3, <1>4, <1>5, <1>6, <1>7, <1>8 DEF Alarm!Next, Alarm!InTick

LEMMA AlarmStart == Alarm!Init => AlarmInv
<1> SUFFICES ASSUME Alarm!Init PROVE AlarmInv
  OBVIOUS
<1>1. /\ next = [x \in Alarm!Nodes |-> IF x = ListHead THEN ListHead ELSE Alarm!NotYet]
      /\ previous = next /\ registered = {} /\ alarm_pc = "idle" /\ alarm = ListHead
      /\ _alt_tick_rate = 0 /\ _alt_nticks = 0 /\ ret = 0
      /\ time = [a \in Alarms |-> 0] /\ rollover = [a \in Alarms |-> FALSE]
      /\ remaining = [a \in Alarms |-> 0]
  BY DEF Alarm!Init, ListHead
<1>2. IsList(next, previous, registered)
  BY <1>1, AlarmConstants DEF IsList, Links
<1>3. Alarm!TypeOK
  <2>1. 0 \in 0..AlarmWrap - 1 /\ 0 \in 0..AlarmWrap
    BY AlarmConstants
  <2>2. next \in [Alarm!Nodes -> Links] /\ previous \in [Alarm!Nodes -> Links]
    BY <1>2 DEF IsList
  <2>3. alarm \in Alarm!Nodes
    BY <1>1, AlarmConstants
  <2> QED
    BY <1>1, <2>1, <2>2, <2>3 DEF Alarm!TypeOK, Links
<1> QED
  BY <1>1, <1>2, <1>3 DEF AlarmInv

\* Every state of the list is sound, and its alarms are on time.
LEMMA AlarmsFine == AlarmInv => AlarmsOnTime
<1> SUFFICES ASSUME AlarmInv PROVE AlarmsOnTime
  OBVIOUS
<1>1. Alarm!TypeOK /\ Alarm!ListIsSound
  BY AlarmTypes, ListSound
<1>2. alarm_pc = "tick" /\ alarm # ListHead
        => (Alarm!Expired(alarm) <=> remaining[alarm] = 0)
  BY TickSplits
<1>3. alarm_pc = "idle" => \A a \in registered : remaining[a] > 0
  BY AlarmConstants DEF AlarmInv, Waiting
<1> QED
  BY <1>1, <1>2, <1>3 DEF AlarmsOnTime, Alarm!OnTime, ListHead

\* Alarms are called back in the tick at which they are due, from a list that holds
\* those started and not stopped, in both directions, whatever callbacks start or drop.
THEOREM AlarmsCorrect == KernelSpec => []AlarmsOnTime
<1>1. KernelInit => AlarmInv
  BY AlarmStart DEF KernelInit
<1>2. AlarmInv /\ [KernelNext]_kernel => AlarmInv'
  <2> SUFFICES ASSUME AlarmInv, [KernelNext]_kernel PROVE AlarmInv'
    OBVIOUS
  <2>1. Alarm!Next \/ UNCHANGED alarms
    BY DEF KernelNext, kernel
  <2> QED
    BY <2>1, AlarmStep
<1> QED
  BY <1>1, <1>2, AlarmsFine, PTL DEF KernelSpec

-----------------------------------------------------------------------------
(* Products, quotients and remainders. *)

\* Products are ordered as their first factors are.
LEMMA ProductGrows ==
  ASSUME NEW a \in Nat, NEW b \in Nat, NEW c \in Nat, a <= b
  PROVE  a * c <= b * c /\ a * c \in Nat
<1>1. b - a \in Nat /\ b = a + (b - a)
  OBVIOUS
<1>2. (b - a) * c \in Nat /\ b * c = a * c + (b - a) * c /\ a * c \in Nat
  BY <1>1
<1> QED
  BY <1>2

\* Quotient and remainder, of negative numbers too.
LEMMA Division ==
  ASSUME NEW n \in Int, NEW d \in Nat \ {0}
  PROVE  n \div d \in Int /\ n % d \in 0..d - 1 /\ n = d * (n \div d) + (n % d)
<1>1. n \div d \in Int
  OBVIOUS
<1>2. n % d \in 0..d - 1
  OBVIOUS
<1>3. n = d * (n \div d) + (n % d)
  OBVIOUS
<1> QED
  BY <1>1, <1>2, <1>3

\* A product of a divisor is known by the quotient.
LEMMA QuotientOrder ==
  ASSUME NEW p \in Int, NEW q \in Int, NEW d \in Nat \ {0}, p < q
  PROVE  p * d + d <= q * d
<1>1. q - p - 1 \in Nat
  OBVIOUS
<1>2. (q - p - 1) * d \in Nat /\ q * d = p * d + d + (q - p - 1) * d
  BY <1>1
<1> QED
  BY <1>2

LEMMA DivisionUnique ==
  ASSUME NEW m \in Int, NEW d \in Nat \ {0}, NEW r \in 0..d - 1, NEW n \in Int, n = m * d + r
  PROVE  n \div d = m /\ n % d = r
<1> DEFINE q == n \div d
           s == n % d
<1>1. q \in Int /\ s \in 0..d - 1 /\ n = d * q + s
  BY Division
<1> HIDE DEF q, s
<1>2. n = q * d + s /\ m * d \in Int /\ q * d \in Int
  BY <1>1
<1>3. ~(q < m)
  <2>1. q < m => q * d + d <= m * d
    BY <1>1, QuotientOrder
  <2> QED
    BY <1>1, <1>2, <2>1
<1>4. ~(m < q)
  <2>1. m < q => m * d + d <= q * d
    BY <1>1, QuotientOrder
  <2> QED
    BY <1>1, <1>2, <2>1
<1>5. q = m
  BY <1>1, <1>3, <1>4
<1>6. s = r
  BY <1>1, <1>2, <1>5
<1> QED
  BY <1>5, <1>6 DEF q, s

\* The same in one word: n is m times d, and r more.
IsDivision(n, d, m, r) ==
  m \in Int /\ d \in Nat \ {0} /\ n \in Int /\ r \in 0..d - 1 /\ n = m * d + r

LEMMA DivisionIs ==
  ASSUME NEW n, NEW d, NEW m, NEW r, IsDivision(n, d, m, r)
  PROVE  n \div d = m /\ n % d = r
BY DivisionUnique DEF IsDivision

-----------------------------------------------------------------------------
(* The time of day. *)

\* Microseconds in a tick, at a rate.
Us(r) == ALT_US \div r

LEMMA ClockConstants ==
  /\ TimeWrap \in Nat \ {0} /\ ALT_US \in Nat \ {0} /\ MaxTicks \in Nat
  /\ ALT_US <= TimeWrap \div 2 /\ TimeWrap \div 2 \in Nat
  /\ Settings \subseteq [sec : Nat, usec : 0..TimeWrap \div 2 - 1]
<1>1. TimeWrap \in Nat \ {0} /\ ALT_US \in 1..TimeWrap \div 2 /\ MaxTicks \in 0..TimeWrap - 1
  BY KernelAssumption DEF Time!TimeAssumption
<1>2. TimeWrap \div 2 \in Nat
  BY <1>1
<1>3. Settings \subseteq [sec : Nat, usec : 0..TimeWrap \div 2 - 1]
  BY KernelAssumption DEF Time!TimeAssumption
<1> QED
  BY <1>1, <1>2, <1>3

\* A tick is a whole number of microseconds.
LEMMA TickLength ==
  ASSUME NEW r \in Rates
  PROVE  r \in Nat \ {0} /\ Us(r) \in Nat \ {0} /\ ALT_US = r * Us(r)
<1>1. r \in 1..ALT_US /\ ALT_US % r = 0
  BY KernelAssumption DEF Time!TimeAssumption
<1>2. r \in Nat \ {0} /\ ALT_US \in Nat \ {0}
  BY <1>1, ClockConstants
<1>3. ALT_US \div r \in Int /\ ALT_US = r * (ALT_US \div r) + (ALT_US % r)
  BY <1>2, Division
<1>4. ALT_US = r * Us(r) /\ Us(r) \in Int
  BY <1>1, <1>2, <1>3 DEF Us
<1>5. Us(r) \in Nat \ {0}
  <2>1. Us(r) <= 0 => r * Us(r) <= 0
    <3>1. ASSUME Us(r) <= 0 PROVE r * Us(r) <= 0
      <4>1. -Us(r) \in Nat /\ r * (-Us(r)) = -(r * Us(r))
        BY <1>2, <1>4, <3>1
      <4>2. r * (-Us(r)) \in Nat
        BY <1>2, <4>1
      <4> QED
        BY <1>2, <1>4, <4>1, <4>2
    <3> QED
      BY <3>1
  <2> QED
    BY <1>2, <1>4, <2>1
<1> QED
  BY <1>1, <1>2, <1>4, <1>5 DEF Us

\* Seconds and microseconds of n ticks, computed apart, are together the length of
\* n ticks: the remainders reach round at the same tick.
LEMMA TicksSplit ==
  ASSUME NEW r \in Rates, NEW n \in 0..MaxTicks
  PROVE  /\ n * Us(r) \in Nat
         /\ n \div r \in Int /\ (n * Us(r)) % ALT_US \in 0..ALT_US - 1
         /\ (n \div r) * ALT_US + ((n * Us(r)) % ALT_US) = n * Us(r)
<1> DEFINE u == Us(r)
           a == n \div r
           b == n % r
<1>1. /\ r \in Nat \ {0} /\ u \in Nat \ {0} /\ ALT_US = r * u
      /\ MaxTicks \in Nat /\ ALT_US \in Nat \ {0}
  BY TickLength, ClockConstants
<1>2. n \in Nat /\ n <= MaxTicks
  BY <1>1
<1>3. a \in Int /\ b \in 0..r - 1 /\ n = r * a + b
  <2>1. n \in Int
    BY <1>2
  <2>2. \A d \in Nat \ {0} : n \div d \in Int /\ n % d \in 0..d - 1 /\ n = d * (n \div d) + (n % d)
    BY <2>1, Division
  <2> QED
    BY <1>1, <2>2
<1> HIDE DEF u, a, b
<1>4. n * u \in Nat
  BY <1>1, <1>2
<1>5. n * u = a * (r * u) + b * u
  BY <1>1, <1>2, <1>3
<1>6. b * u \in 0..ALT_US - 1
  <2>1. b * u + u <= r * u /\ b * u \in Nat
    BY <1>1, <1>3, QuotientOrder
  <2> QED
    BY <1>1, <2>1
<1>7. n * u = a * ALT_US + b * u /\ n * u \in Int
  BY <1>1, <1>4, <1>5
<1>8. (n * u) % ALT_US = b * u
  <2>1. IsDivision(n * u, ALT_US, a, b * u)
    BY <1>1, <1>3, <1>6, <1>7 DEF IsDivision
  <2> QED
    BY <2>1, DivisionIs
<1>9. /\ n * u \in Nat /\ a \in Int
      /\ (n * u) % ALT_US \in 0..ALT_US - 1 /\ a * ALT_US + ((n * u) % ALT_US) = n * u
  <2>1. a * ALT_US + ((n * u) % ALT_US) = n * u
    BY <1>1, <1>4, <1>7, <1>8
  <2>2. (n * u) % ALT_US \in 0..ALT_US - 1
    BY <1>6, <1>8
  <2> QED
    BY <1>3, <1>4, <2>1, <2>2
<1> QED
  BY <1>9 DEF u, a

LEMMA TotalIs ==
  ASSUME NEW s \in Int, NEW v \in Int
  PROVE  Time!Total([sec |-> s, usec |-> v]) = s * ALT_US + v /\ s * ALT_US + v \in Int
<1>1. s * ALT_US + v \in Int
  BY ClockConstants
<1>2. Time!Total([sec |-> s, usec |-> v]) = s * ALT_US + v
  BY DEF Time!Total
<1> QED
  BY <1>1, <1>2

\* Normalising keeps a time, but where borrowing gives up at zero.
LEMMA NormalisedIs ==
  ASSUME NEW s \in Int, NEW v \in Int
  PROVE  \/ Time!Total(Time!Normalised([sec |-> s, usec |-> v])) = s * ALT_US + v
         \/ /\ s * ALT_US + v < 0
            /\ Time!Total(Time!Normalised([sec |-> s, usec |-> v])) = 0
<1> DEFINE k == v \div ALT_US
           m == v % ALT_US
           t == [sec |-> s, usec |-> v]
<1>1. ALT_US \in Nat \ {0}
  BY ClockConstants
<1>2. k \in Int /\ m \in 0..ALT_US - 1 /\ v = ALT_US * k + m
  BY <1>1, Division
<1>3. t.sec = s /\ t.usec = v
  OBVIOUS
<1>4. Time!Normalised(t) = IF v >= 0 \/ s >= -k
                           THEN [sec |-> s - (-k), usec |-> m] ELSE [sec |-> 0, usec |-> 0]
  BY <1>3 DEF Time!Normalised
<1> HIDE DEF k, m, t
<1>5. (s + k) * ALT_US = s * ALT_US + ALT_US * k /\ s * ALT_US \in Int /\ ALT_US * k \in Int
  BY <1>1, <1>2
<1>6. CASE v >= 0 \/ s >= -k
  <2>1. Time!Total([sec |-> s - (-k), usec |-> m]) = (s - (-k)) * ALT_US + m
    BY DEF Time!Total
  <2>2. (s - (-k)) * ALT_US + m = s * ALT_US + v
    BY <1>1, <1>2
  <2> QED
    BY <1>4, <1>6, <2>1, <2>2 DEF t
<1>7. CASE ~(v >= 0 \/ s >= -k)
  <2>1. Time!Total([sec |-> 0, usec |-> 0]) = 0
    BY <1>1, TotalIs
  <2>2. s + k < 0
    BY <1>2, <1>7
  <2>3. (s + k) * ALT_US + ALT_US <= 0 * ALT_US
    BY <1>1, <1>2, <2>2, QuotientOrder
  <2>4. 0 * ALT_US = 0
    BY <1>1
  <2>5. s * ALT_US + v < 0
    BY <1>1, <1>2, <1>5, <2>3, <2>4
  <2> QED
    BY <1>4, <1>7, <2>1, <2>5 DEF t
<1> QED
  BY <1>6, <1>7

\* What is stored, with the ticks counted, is the time set last with the ticks since,
\* but for a drift of less than a second, which is nothing when the product of
\* settimeofday was a word: the invariant that the time of day rests on.
Drift(offset, n, from, elapsed, r) == Time!Total(offset) + n * Us(r) - (from + elapsed * Us(r))
Kept(offset, n, from, elapsed, r, ok) ==
  /\ Drift(offset, n, from, elapsed, r) \in -(ALT_US - 1)..ALT_US - 1
  /\ ok => Drift(offset, n, from, elapsed, r) = 0
ClockInv ==
  /\ tick_rate \in Rates \cup {0} /\ nticks \in 0..MaxTicks /\ since \in 0..nticks
  /\ alt_resettime \in [sec : Int, usec : -(TimeWrap \div 2)..TimeWrap \div 2 - 1]
  /\ base \in Nat /\ exact \in BOOLEAN /\ time_ret \in -1..MaxTicks
  /\ tick_rate = 0 => nticks = 0 /\ since = 0 /\ Time!Total(alt_resettime) = base
  /\ tick_rate # 0 => Kept(alt_resettime, nticks, base, since, tick_rate, exact)

LEMMA ClockStarts == Time!Init => ClockInv
<1> SUFFICES ASSUME Time!Init PROVE ClockInv
  OBVIOUS
<1>1. /\ tick_rate = 0 /\ nticks = 0 /\ alt_resettime = [sec |-> 0, usec |-> 0]
      /\ base = 0 /\ since = 0 /\ exact = TRUE /\ time_ret = 0
  BY DEF Time!Init
<1>2. Time!Total(alt_resettime) = 0
  BY <1>1, TotalIs, ClockConstants
<1>3. alt_resettime \in [sec : Int, usec : -(TimeWrap \div 2)..TimeWrap \div 2 - 1]
  <2>1. 0 \in -(TimeWrap \div 2)..TimeWrap \div 2 - 1
    BY ClockConstants
  <2> QED
    BY <1>1, <2>1
<1> QED
  BY <1>1, <1>2, <1>3, ClockConstants DEF ClockInv

\* Before the clock starts no time has passed, whatever its rate will be.
LEMMA SysclkInitKeeps ==
  ASSUME ClockInv, NEW rate \in Rates, Time!SysclkInit(rate)
  PROVE  ClockInv'
<1>1. /\ tick_rate = 0 /\ tick_rate' = rate
      /\ UNCHANGED <<nticks, alt_resettime, base, since, exact, time_ret>>
  BY DEF Time!SysclkInit
<1>2. nticks = 0 /\ since = 0 /\ Time!Total(alt_resettime) = base /\ base \in Nat
  BY <1>1 DEF ClockInv
<1>3. Us(rate) \in Nat /\ rate # 0
  BY TickLength
<1>4. Kept(alt_resettime, 0, base, 0, rate, exact)
  <2>1. Drift(alt_resettime, 0, base, 0, rate) = 0
    BY <1>2, <1>3 DEF Drift
  <2> QED
    BY <2>1, ClockConstants DEF Kept
<1> QED
  BY <1>1, <1>2, <1>3, <1>4 DEF ClockInv

LEMMA ClockTicks ==
  ASSUME ClockInv, Time!Tick
  PROVE  ClockInv'
<1>1. /\ tick_rate # 0 /\ nticks < MaxTicks /\ nticks' = nticks + 1 /\ since' = since + 1
      /\ UNCHANGED <<tick_rate, alt_resettime, base, exact, time_ret>>
  BY DEF Time!Tick
<1>2. tick_rate \in Rates /\ nticks \in Nat /\ since \in 0..nticks /\ base \in Nat
  BY <1>1, ClockConstants DEF ClockInv
<1>3. Us(tick_rate) \in Nat
  BY <1>2, TickLength
<1>4. Time!Total(alt_resettime) \in Int
  <2>1. alt_resettime.sec \in Int /\ alt_resettime.usec \in Int
    BY ClockConstants DEF ClockInv
  <2> QED
    BY <2>1, ClockConstants DEF Time!Total
<1>5. Drift(alt_resettime, nticks + 1, base, since + 1, tick_rate)
        = Drift(alt_resettime, nticks, base, since, tick_rate)
  <2> DEFINE total == Time!Total(alt_resettime)
             u == Us(tick_rate)
  <2>1. total \in Int /\ u \in Int /\ nticks \in Int /\ since \in Int /\ base \in Int
    BY <1>2, <1>3, <1>4
  <2> HIDE DEF total, u
  <2>2. total + (nticks + 1) * u - (base + (since + 1) * u) = total + nticks * u - (base + since * u)
    BY <2>1
  <2> QED
    BY <2>2 DEF Drift, total, u
<1>6. Kept(alt_resettime, nticks, base, since, tick_rate, exact)
  BY <1>1 DEF ClockInv
<1>7. Kept(alt_resettime', nticks', base', since', tick_rate', exact')
  BY <1>1, <1>5, <1>6 DEF Kept
<1>8. nticks' \in 0..MaxTicks /\ since' \in 0..nticks'
  BY <1>1, <1>2, ClockConstants
<1> QED
  BY <1>1, <1>7, <1>8 DEF ClockInv

\* settimeofday notes how far the time set is ahead of the ticks.
LEMMA SettodKeeps ==
  ASSUME ClockInv, NEW t \in Settings, Time!Settod(t)
  PROVE  ClockInv'
<1>1. UNCHANGED <<tick_rate, nticks>>
  BY DEF Time!Settod
<1>2. CASE tick_rate = 0
  <2>1. time_ret' = -1 /\ UNCHANGED <<alt_resettime, base, since, exact>>
    BY <1>2 DEF Time!Settod
  <2> QED
    BY <1>1, <1>2, <2>1, ClockConstants DEF ClockInv
<1>3. CASE tick_rate # 0
  <2> DEFINE q == nticks \div tick_rate
             w == nticks * Us(tick_rate)
             m == w % ALT_US
             stored == (w % TimeWrap) % ALT_US
  <2>1. /\ time_ret' = 0 /\ alt_resettime' = Time!Difference(t) /\ base' = Time!Total(t) /\ since' = 0
        /\ exact' = (w < TimeWrap)
    BY <1>3 DEF Time!Settod, Time!TickUs, Us
  <2>2. tick_rate \in Rates /\ nticks \in 0..MaxTicks
    BY <1>3 DEF ClockInv
  <2>3. w \in Nat /\ q \in Int /\ m \in 0..ALT_US - 1 /\ q * ALT_US + m = w
    BY <2>2, TicksSplit
  <2>4. stored \in 0..ALT_US - 1 /\ (w < TimeWrap => stored = m)
    <3>1. \A k \in Nat : k % TimeWrap \in Nat /\ (k < TimeWrap => k % TimeWrap = k)
      BY ClockConstants
    <3>2. \A k \in Nat : k % ALT_US \in 0..ALT_US - 1
      BY ClockConstants
    <3> HIDE DEF w
    <3> QED
      BY <2>3, <3>1, <3>2
  <2>5. Time!Difference(t) = [sec |-> t.sec - q, usec |-> t.usec - stored]
    BY DEF Time!Difference, Time!TickUs, Us
  <2>6. t.sec \in Nat /\ t.usec \in 0..TimeWrap \div 2 - 1
    BY ClockConstants
  <2> HIDE DEF q, w, m, stored
  <2>7. Time!Total(alt_resettime') = (t.sec - q) * ALT_US + (t.usec - stored)
    BY <2>1, <2>3, <2>4, <2>5, <2>6, ClockConstants, TotalIs
  <2>8. Time!Total(t) = t.sec * ALT_US + t.usec /\ Time!Total(t) \in Nat
    BY <2>6, ClockConstants DEF Time!Total
  <2>9. Time!Total(alt_resettime') + w - Time!Total(t) = m - stored
    <3>1. (t.sec - q) * ALT_US = t.sec * ALT_US - q * ALT_US
      BY <2>3, <2>6, ClockConstants
    <3>2. t.sec * ALT_US \in Int /\ q * ALT_US \in Int
      BY <2>3, <2>6, ClockConstants
    <3> QED
      BY <2>3, <2>4, <2>6, <2>7, <2>8, <3>1, <3>2
  <2>10. Us(tick_rate) \in Nat
    BY <2>2, TickLength
  <2>11. Kept(alt_resettime', nticks', base', since', tick_rate', exact')
    <3>1. base' + since' * Us(tick_rate) = Time!Total(t)
      BY <2>1, <2>8, <2>10
    <3>2. Drift(alt_resettime', nticks', base', since', tick_rate') = m - stored
      BY <1>1, <2>9, <3>1 DEF Drift, w
    <3>3. m - stored \in -(ALT_US - 1)..ALT_US - 1
      BY <2>3, <2>4, ClockConstants
    <3>4. exact' => m - stored = 0
      <4>1. exact' => stored = m
        BY <2>1, <2>4
      <4> QED
        BY <2>3, <4>1
    <3> QED
      BY <3>2, <3>3, <3>4 DEF Kept
  <2>12. alt_resettime' \in [sec : Int, usec : -(TimeWrap \div 2)..TimeWrap \div 2 - 1]
    <3>1. t.sec - q \in Int
      BY <2>3, <2>6
    <3>2. t.usec - stored \in -(TimeWrap \div 2)..TimeWrap \div 2 - 1
      BY <2>4, <2>6, ClockConstants
    <3> QED
      BY <2>1, <2>5, <3>1, <3>2
  <2>13. since' \in 0..nticks' /\ time_ret' \in -1..MaxTicks /\ base' \in Nat /\ exact' \in BOOLEAN
    BY <1>1, <2>1, <2>2, <2>8, ClockConstants
  <2> QED
    BY <1>1, <1>3, <2>2, <2>11, <2>12, <2>13 DEF ClockInv
<1> QED
  BY <1>2, <1>3

LEMMA ClockStep ==
  ASSUME ClockInv, Time!ClockNext \/ UNCHANGED clock
  PROVE  ClockInv'
<1>1. ASSUME Time!Times PROVE ClockInv'
  <2>1. /\ UNCHANGED <<tick_rate, nticks, alt_resettime, base, since, exact>>
        /\ time_ret' = IF tick_rate = 0 THEN 0 ELSE nticks
    BY <1>1 DEF Time!Times
  <2>2. time_ret' \in -1..MaxTicks
    BY <2>1, ClockConstants DEF ClockInv
  <2> QED
    BY <2>1, <2>2 DEF ClockInv
<1>2. ASSUME UNCHANGED clock PROVE ClockInv'
  BY <1>2 DEF ClockInv, clock
<1> QED
  BY <1>1, <1>2, SysclkInitKeeps, ClockTicks, SettodKeeps DEF Time!ClockNext

\* What gettimeofday returns is the time set and the length of the ticks since, but
\* for the drift.
LEMMA ReadsDrift ==
  ASSUME ClockInv, tick_rate # 0
  PROVE  LET error == Time!Total(Time!Gettod) - (base + since * Us(tick_rate)) IN
         /\ Time!Total(Time!Gettod) \in Int
         /\ error \in -(ALT_US - 1)..ALT_US - 1 /\ (exact => error = 0)
<1> DEFINE q == nticks \div tick_rate
           w == nticks * Us(tick_rate)
           m == w % ALT_US
           sec == alt_resettime.sec
           usec == alt_resettime.usec
           due == base + since * Us(tick_rate)
           drift == Drift(alt_resettime, nticks, base, since, tick_rate)
           read == Time!Total(Time!Gettod)
<1>1. tick_rate \in Rates /\ nticks \in 0..MaxTicks /\ since \in Nat /\ base \in Nat
  BY ClockConstants DEF ClockInv
<1>2. w \in Nat /\ q \in Int /\ m \in 0..ALT_US - 1 /\ q * ALT_US + m = w
  BY <1>1, TicksSplit
<1>3. Time!Gettod = Time!Normalised([sec |-> sec + q, usec |-> usec + m])
  BY DEF Time!Gettod, Time!TickUs, Us
<1>4. sec \in Int /\ usec \in Int
  BY ClockConstants DEF ClockInv
<1>5. drift = sec * ALT_US + usec + w - due
  BY DEF Drift, Time!Total
<1>6. drift \in -(ALT_US - 1)..ALT_US - 1 /\ (exact => drift = 0)
  BY DEF ClockInv, Kept
<1>7. Us(tick_rate) \in Nat /\ ALT_US \in Nat \ {0}
  BY <1>1, TickLength, ClockConstants
<1>8. due \in Nat
  BY <1>1, <1>7
<1> HIDE DEF q, w, m, sec, usec, due, drift, read
<1>9. (sec + q) * ALT_US + (usec + m) = due + drift
  <2>1. (sec + q) * ALT_US = sec * ALT_US + q * ALT_US /\ sec * ALT_US \in Int
        /\ q * ALT_US \in Int
    BY <1>2, <1>4, <1>7
  <2> QED
    BY <1>2, <1>4, <1>5, <1>6, <1>7, <1>8, <2>1
<1>10. sec + q \in Int /\ usec + m \in Int
  BY <1>2, <1>4, <1>7
<1>11. read = due + drift \/ (due + drift < 0 /\ read = 0)
  BY <1>3, <1>9, <1>10, NormalisedIs DEF read
<1>12. read \in Int /\ read - due \in -(ALT_US - 1)..ALT_US - 1 /\ (exact => read - due = 0)
  BY <1>6, <1>7, <1>8, <1>11
<1> QED
  BY <1>12 DEF read, due

LEMMA ClockRight == ClockInv => Time!TypeOK /\ Time!OnTheWallClock
<1> SUFFICES ASSUME ClockInv PROVE Time!TypeOK /\ Time!OnTheWallClock
  OBVIOUS
<1>1. Time!TypeOK
  BY ClockConstants DEF ClockInv, Time!TypeOK
<1> DEFINE read == Time!Total(Time!Gettod)
           u == Us(tick_rate)
           error == tick_rate * (read - base) - since * ALT_US
           off == read - (base + since * u)
<1>2. ASSUME tick_rate # 0
      PROVE  /\ exact => error = 0
             /\ -(tick_rate * ALT_US) < error /\ error < tick_rate * ALT_US
  <2>1. tick_rate \in Rates /\ since \in Nat /\ base \in Nat
    BY <1>2, ClockConstants DEF ClockInv
  <2>2. u \in Nat /\ ALT_US = tick_rate * u /\ tick_rate \in Nat \ {0} /\ ALT_US \in Nat \ {0}
    BY <2>1, TickLength, ClockConstants
  <2>3. read \in Int /\ off \in -(ALT_US - 1)..ALT_US - 1 /\ (exact => off = 0)
    BY <1>2, ReadsDrift
  <2> DEFINE r == tick_rate
             s == since
             b == base
  <2>4. r \in Nat \ {0} /\ s \in Nat /\ b \in Nat /\ ALT_US = r * u
    BY <2>1, <2>2
  <2>5. error = r * (read - b) - s * ALT_US /\ off = read - (b + s * u)
    OBVIOUS
  <2> HIDE DEF read, u, off, error, r, s, b
  <2>6. r * (read - b) - s * (r * u) = (read - (b + s * u)) * r
    BY <2>2, <2>3, <2>4
  <2>7. error = off * r
    BY <2>4, <2>5, <2>6
  <2>8. off * r + r <= ALT_US * r /\ (-ALT_US) * r + r <= off * r
    <3>1. off \in Int /\ -ALT_US \in Int /\ off < ALT_US /\ -ALT_US < off
      BY <2>2, <2>3
    <3> QED
      BY <2>2, <2>4, <3>1, QuotientOrder
  <2>9. ALT_US * r = r * ALT_US /\ (-ALT_US) * r = -(r * ALT_US) /\ r * ALT_US \in Int
        /\ off * r \in Int /\ 0 * r = 0
    BY <2>2, <2>3, <2>4
  <2>10. r * ALT_US = tick_rate * ALT_US
    BY DEF r
  <2> QED
    BY <2>3, <2>4, <2>7, <2>8, <2>9, <2>10
<1> QED
  BY <1>1, <1>2 DEF Time!OnTheWallClock

-----------------------------------------------------------------------------
(* Delays. *)

LEMMA LoopConstants ==
  /\ Time!PerUs \in Nat \ {0} /\ Time!PerBigLoop \in Nat \ {0} /\ Time!INT_MAX \in Nat
  /\ Time!INT_MAX < SleepWord /\ SleepWord \in Nat \ {0} /\ Longest \in Nat
  /\ Time!PerBigLoop * Time!PerUs <= Time!INT_MAX
  /\ Time!INT_MAX < Time!PerBigLoop * Time!PerUs + Time!PerUs
<1> DEFINE p == Time!PerUs
           b == Time!PerBigLoop
           max == Time!INT_MAX
<1>1. /\ SleepWord \in Nat /\ FreqMHz \in Nat /\ Cycles \in Nat \ {0} /\ Longest \in 0..SleepWord - 1
      /\ FreqMHz >= Cycles /\ SleepWord > 4 * FreqMHz
  BY KernelAssumption DEF Time!SleepAssumption
<1>2. p \in Int /\ FreqMHz % Cycles \in 0..Cycles - 1 /\ FreqMHz = Cycles * p + (FreqMHz % Cycles)
  BY <1>1, Division DEF Time!PerUs
<1>3. max \in Nat /\ max < SleepWord /\ max >= FreqMHz
  BY <1>1 DEF Time!INT_MAX
<1> HIDE DEF p, max
<1>4. p \in Nat \ {0}
  <2>1. p < 1 => p * Cycles + Cycles <= 1 * Cycles
    BY <1>1, <1>2, QuotientOrder
  <2>2. p * Cycles = Cycles * p /\ 1 * Cycles = Cycles /\ Cycles * p \in Int
    BY <1>1, <1>2
  <2> QED
    BY <1>1, <1>2, <2>1, <2>2
<1>5. p <= FreqMHz
  <2>1. 1 * p <= Cycles * p /\ 1 * p = p
    BY <1>1, <1>4, ProductGrows
  <2> QED
    BY <1>1, <1>2, <1>4, <2>1
<1>6. b \in Int /\ max % p \in 0..p - 1 /\ max = p * b + (max % p)
  BY <1>3, <1>4, Division DEF Time!PerBigLoop, p, max
<1> HIDE DEF b
<1>7. p * b = b * p /\ b * p \in Int
  BY <1>4, <1>6
<1>8. b \in Nat \ {0}
  <2>1. b < 1 => b * p + p <= 1 * p
    BY <1>4, <1>6, QuotientOrder
  <2>2. 1 * p = p
    BY <1>4
  <2> QED
    BY <1>1, <1>3, <1>4, <1>5, <1>6, <1>7, <2>1, <2>2
<1>9. b * p <= max /\ max < b * p + p
  BY <1>3, <1>4, <1>6, <1>7
<1> QED
  BY <1>1, <1>3, <1>4, <1>8, <1>9 DEF p, b, max

\* The turns of a delay: the big loops and the rest, in which no product overflows.
LEMMA TurnsAre ==
  ASSUME NEW d \in Nat
  PROVE  LET big == d \div Time!PerBigLoop
             rest == d % Time!PerBigLoop
         IN /\ big \in Nat /\ rest \in Nat /\ rest * Time!PerUs \in Nat
            /\ d * Time!PerUs = big * (Time!PerBigLoop * Time!PerUs) + rest * Time!PerUs
            /\ rest # 0 => rest * Time!PerUs > 0
            /\ big * Time!INT_MAX \in Nat
            /\ Time!Turns(d) = big * Time!INT_MAX +
                 (IF rest * Time!PerUs # 0 THEN rest * Time!PerUs
                  ELSE IF big > 0 THEN SleepWord ELSE 1)
<1> DEFINE p == Time!PerUs
           b == Time!PerBigLoop
           max == Time!INT_MAX
           big == d \div b
           rest == d % b
<1>1. /\ p \in Nat \ {0} /\ b \in Nat \ {0} /\ max \in Nat /\ max < SleepWord /\ SleepWord \in Nat \ {0}
      /\ b * p <= max
  BY LoopConstants
<1>2. big \in Int /\ rest \in 0..b - 1 /\ d = b * big + rest
  BY <1>1, Division
<1>3. Time!Turns(d) = IF big > 0 THEN big * max + Time!TurnsNe(((d - big * b) * p) % SleepWord)
                       ELSE Time!TurnsGt((d * p) % SleepWord)
  BY DEF Time!Turns
<1> HIDE DEF p, b, max, big, rest
<1>4. big \in Nat
  <2>1. big < 0 => big * b + b <= 0 * b
    BY <1>1, <1>2, QuotientOrder
  <2>2. big * b = b * big /\ 0 * b = 0 /\ b * big \in Int
    BY <1>1, <1>2
  <2> QED
    BY <1>1, <1>2, <2>1, <2>2
<1>5. rest \in Nat /\ rest * p \in Nat /\ rest * p < SleepWord /\ rest * p <= max
  <2>1. rest * p + p <= b * p /\ rest * p \in Nat /\ b * p \in Nat
    BY <1>1, <1>2, QuotientOrder
  <2> QED
    BY <1>1, <1>2, <2>1
<1>6. d - big * b = rest /\ d * p = big * (b * p) + rest * p
  BY <1>1, <1>2
<1>7. (rest * p) % SleepWord = rest * p
  <2>1. \A k \in Nat : k < SleepWord => k % SleepWord = k
    BY <1>1
  <2> QED
    BY <1>5, <2>1
<1>8. rest # 0 => rest * p > 0
  <2>1. 0 < rest => 0 * p + p <= rest * p
    BY <1>1, <1>5, QuotientOrder
  <2> QED
    BY <1>1, <1>5, <2>1
<1>9. big * max \in Nat
  BY <1>1, <1>4
<1>10. Time!Turns(d) = big * max + (IF rest * p # 0 THEN rest * p ELSE IF big > 0 THEN SleepWord ELSE 1)
  <2>1. CASE big > 0
    <3>1. Time!Turns(d) = big * max + Time!TurnsNe(rest * p)
      BY <1>3, <1>6, <1>7, <2>1
    <3>2. Time!TurnsNe(rest * p) = IF rest * p # 0 THEN rest * p ELSE SleepWord
      BY DEF Time!TurnsNe
    <3> QED
      BY <2>1, <3>1, <3>2
  <2>2. CASE big = 0
    <3>1. big * max = 0 /\ big * (b * p) = 0
      BY <1>1, <2>2
    <3>2. d * p = rest * p
      BY <1>5, <1>6, <3>1
    <3>3. Time!Turns(d) = Time!TurnsGt(rest * p)
      BY <1>3, <1>7, <2>2, <3>2
    <3>4. Time!TurnsGt(rest * p) = IF rest * p \in 1..max THEN rest * p ELSE 1
      BY DEF Time!TurnsGt, max
    <3>5. rest * p # 0 => rest * p \in 1..max
      BY <1>1, <1>5
    <3>6. rest * p \in 1..max => rest * p # 0
      BY <1>1
    <3>7. Time!Turns(d) = IF rest * p # 0 THEN rest * p ELSE 1
      BY <3>3, <3>4, <3>5, <3>6
    <3> QED
      BY <1>5, <2>2, <3>1, <3>7
  <2> QED
    BY <1>4, <2>1, <2>2
<1> QED
  BY <1>4, <1>5, <1>6, <1>8, <1>9, <1>10 DEF p, b, max, big, rest

\* A delay takes the cycles asked for but for rounding, for every frequency and
\* width of a word, and the word of turns of a multiple of the big loop.
LEMMA DelayRight == us \in Nat => Time!SleepsEnough /\ Time!SleepIsClose
<1> SUFFICES ASSUME us \in Nat PROVE Time!SleepsEnough /\ Time!SleepIsClose
  OBVIOUS
<1> DEFINE p == Time!PerUs
           b == Time!PerBigLoop
           max == Time!INT_MAX
           big == us \div b
           rest == us % b
           F == FreqMHz
           C == Cycles
           lost == F % C
           more == IF rest # 0 THEN 0 ELSE IF us = 0 THEN 1 ELSE SleepWord
           turns == IF rest * p # 0 THEN rest * p ELSE IF big > 0 THEN SleepWord ELSE 1
           taken == Time!Turns(us)
<1>1. /\ p \in Nat \ {0} /\ b \in Nat \ {0} /\ max \in Nat /\ SleepWord \in Nat
      /\ b * p <= max /\ max < b * p + p
  BY LoopConstants
<1>2. /\ big \in Nat /\ rest \in Nat /\ rest * p \in Nat /\ big * max \in Nat
      /\ us * p = big * (b * p) + rest * p /\ (rest # 0 => rest * p > 0)
      /\ taken = big * max + turns
  BY TurnsAre
<1>3. C \in Nat \ {0} /\ F \in Nat /\ lost \in 0..C - 1 /\ F = C * p + lost
  <2>1. FreqMHz \in Nat /\ Cycles \in Nat \ {0}
    BY KernelAssumption DEF Time!SleepAssumption
  <2> QED
    BY <2>1, Division DEF Time!PerUs
<1>4. us = b * big + rest
  BY <1>1, Division
<1>5. turns = rest * p + more
  <2> HIDE DEF p, b, max, big, rest
  <2>1. CASE rest # 0
    BY <1>2, <2>1
  <2>2. CASE rest = 0
    <3>1. rest * p = 0
      BY <1>1, <2>2
    <3>2. big = 0 <=> us = 0
      <4>1. big = 0 => us = 0
        BY <1>1, <1>4, <2>2
      <4>2. big # 0 => 0 * b + b <= big * b
        BY <1>1, <1>2, QuotientOrder
      <4>3. big * b = b * big /\ 0 * b = 0 /\ b * big \in Int
        BY <1>1, <1>2
      <4> QED
        BY <1>1, <1>2, <1>4, <2>2, <4>1, <4>2, <4>3
    <3> QED
      BY <1>1, <1>2, <2>2, <3>1, <3>2
  <2> QED
    BY <2>1, <2>2
<1>6. more \in Nat
  BY <1>1
<1>7. Time!Extra(us) = more * C /\ Time!Taken(us) = taken * C /\ Time!Asked(us) = us * F
  <2>1. Time!Extra(us) = IF rest # 0 THEN 0 ELSE IF us = 0 THEN C ELSE SleepWord * C
    BY DEF Time!Extra
  <2>2. Time!Taken(us) = taken * C /\ Time!Asked(us) = us * F
    BY DEF Time!Taken, Time!Asked
  <2>3. 0 * C = 0 /\ 1 * C = C
    BY <1>3
  <2> QED
    BY <2>1, <2>2, <2>3
<1> HIDE DEF p, b, max, big, rest, turns, more, F, C, lost, taken
<1>8. b * p \in Nat /\ big * (b * p) \in Nat /\ p * big \in Nat /\ us * p \in Nat
  BY <1>1, <1>2
<1>9. big * (b * p) <= big * max
  <2>1. (b * p) * big <= max * big
    BY <1>1, <1>2, <1>8, ProductGrows
  <2> QED
    BY <1>1, <1>2, <1>8, <2>1
<1>10. big * max <= big * (b * p) + p * big
  <2>1. max * big <= (b * p + p) * big
    BY <1>1, <1>2, <1>8, ProductGrows
  <2>2. (b * p + p) * big = big * (b * p) + p * big /\ max * big = big * max
    BY <1>1, <1>2, <1>8
  <2> QED
    BY <2>1, <2>2
<1>11. us * p + more <= taken /\ taken <= us * p + p * big + more /\ taken \in Nat
  BY <1>2, <1>5, <1>6, <1>8, <1>9, <1>10
<1>12. (us * p + more) * C <= taken * C /\ taken * C <= (us * p + p * big + more) * C
  <2>1. us * p + more \in Nat /\ us * p + p * big + more \in Nat
    BY <1>6, <1>8
  <2> QED
    BY <1>3, <1>11, <2>1, ProductGrows
<1> DEFINE x == us * F
           y == us * lost
           z == big * F
           e == more * C
           g == big * lost
<1>13. /\ (us * p + more) * C = us * (C * p) + more * C
       /\ (us * p + p * big + more) * C = us * (C * p) + big * (C * p) + more * C
  BY <1>1, <1>2, <1>3, <1>6
<1>14. us * (C * p + lost) = us * (C * p) + us * lost
       /\ big * (C * p + lost) = big * (C * p) + big * lost
  BY <1>1, <1>2, <1>3
<1>15. /\ x \in Nat /\ y \in Nat /\ z \in Nat /\ e \in Nat /\ g \in Nat
       /\ us * (C * p) \in Nat /\ big * (C * p) \in Nat /\ taken * C \in Nat
  BY <1>1, <1>2, <1>3, <1>6, <1>11
<1>16. us * (C * p) = x - y /\ big * (C * p) = z - g
  BY <1>3, <1>14, <1>15
<1> HIDE DEF x, y, z, e, g
<1>17. x - y + e <= taken * C
  BY <1>12, <1>13, <1>15, <1>16 DEF e
<1>18. taken * C <= x + z + e
  BY <1>12, <1>13, <1>15, <1>16 DEF e
<1>19. Time!SleepsEnough
  BY <1>7, <1>15, <1>17 DEF Time!SleepsEnough, x, y, e, lost, F, C
<1>20. Time!SleepIsClose
  BY <1>7, <1>15, <1>18 DEF Time!SleepIsClose, x, z, e, big, b, F
<1> QED
  BY <1>19, <1>20

LEMMA DelaysStep == us \in Nat /\ (Time!DelayNext \/ UNCHANGED us) => us' \in Nat
<1> SUFFICES ASSUME us \in Nat, Time!DelayNext PROVE us' \in Nat
  OBVIOUS
<1>1. us' = (us + 1) % (Longest + 1)
  BY DEF Time!DelayNext
<1>2. us + 1 \in Int /\ Longest + 1 \in Nat \ {0}
  BY LoopConstants
<1>3. \A n \in Int, d \in Nat \ {0} : n % d \in Nat
  OBVIOUS
<1> QED
  BY <1>1, <1>2, <1>3

TimeInv == ClockInv /\ us \in Nat

\* The time of day is the time set and what has passed since, to the microsecond, or
\* less than a second off once the product of settimeofday has wrapped round; a delay
\* takes the cycles asked for, but for the rounding of the loops in a microsecond and
\* of each big loop, and a word of turns more if it is a multiple of the big loop: for
\* every width of a word, every rate that divides a second and every frequency
\* (alt_gettod.c, alt_settod.c, alt_busy_sleep.c).
THEOREM TimeKept == KernelSpec => []TimeIsKept
<1>1. KernelInit => TimeInv
  BY ClockStarts DEF KernelInit, Time!Init, TimeInv
<1>2. TimeInv /\ [KernelNext]_kernel => TimeInv'
  <2> SUFFICES ASSUME TimeInv, [KernelNext]_kernel PROVE TimeInv'
    OBVIOUS
  <2>1. (Time!ClockNext \/ UNCHANGED clock) /\ (Time!DelayNext \/ UNCHANGED us)
    BY DEF KernelNext, kernel
  <2> QED
    BY <2>1, ClockStep, DelaysStep DEF TimeInv
<1>3. TimeInv => TimeIsKept
  BY ClockRight, DelayRight DEF TimeIsKept, TimeInv
<1> QED
  BY <1>1, <1>2, <1>3, PTL DEF KernelSpec

-----------------------------------------------------------------------------
(* Emulation: the powers of two, and the loops over the bits. *)

\* Quotient and remainder are the only ones, stated for every number at once.
LEMMA Remainders ==
  \A d \in Nat \ {0}, m \in Int, n \in Int : \A r \in 0..d - 1 :
    n = m * d + r => n \div d = m /\ n % d = r
BY DivisionUnique

\* A loop of any number of turns has a state after each.
IsLoop(f, start, turn, n) == f[0] = start /\ \A k \in 1..n : f[k] = turn[f[k - 1]]

LEMMA LoopExists ==
  ASSUME NEW S, NEW start \in S, NEW turn \in [S -> S]
  PROVE  \A n \in Nat : \E f \in [0..n -> S] : IsLoop(f, start, turn, n)
<1> USE DEF IsLoop
<1> DEFINE Turns(f, n) == IsLoop(f, start, turn, n)
           T == {n \in Nat : \E f \in [0..n -> S] : Turns(f, n)}
<1>1. 0 \in T
  <2> DEFINE f == [k \in 0..0 |-> start]
  <2>1. f \in [0..0 -> S] /\ Turns(f, 0)
    OBVIOUS
  <2> QED
    BY <2>1
<1>2. ASSUME NEW n \in Nat, n \in T
      PROVE  n + 1 \in T
  <2>1. PICK f \in [0..n -> S] : Turns(f, n)
    BY <1>2
  <2> DEFINE g == [k \in 0..n + 1 |-> IF k = n + 1 THEN turn[f[n]] ELSE f[k]]
  <2>2. f[n] \in S
    BY <2>1
  <2>3. turn[f[n]] \in S
    BY <2>2
  <2>4. \A k \in 0..n + 1 : k # n + 1 => k \in 0..n
    OBVIOUS
  <2>5. g \in [0..n + 1 -> S]
    BY <2>1, <2>3, <2>4
  <2>6. g[0] = start
    BY <2>1
  <2>7. \A k \in 1..n + 1 : g[k] = turn[g[k - 1]]
    <3> SUFFICES ASSUME NEW k \in 1..n + 1 PROVE g[k] = turn[g[k - 1]]
      OBVIOUS
    <3>1. CASE k = n + 1
      BY <3>1
    <3>2. CASE k \in 1..n
      BY <2>1, <3>2
    <3> QED
      BY <3>1, <3>2
  <2> QED
    BY <2>5, <2>6, <2>7
<1> HIDE DEF T
<1>3. Nat \subseteq T
  BY <1>1, <1>2, SetInduction
<1> QED
  BY <1>3 DEF T

LEMMA WidthIs == W \in Nat \ {0}
BY KernelAssumption DEF Muldiv!WidthAssumption

\* Two to the k; it is a function by recursion, which has to be shown to exist.
Two(k) == Muldiv!Pow2[k]

LEMMA Powers ==
  /\ Two(0) = 1
  /\ \A k \in 0..W : Two(k) \in Nat \ {0}
  /\ \A k \in 1..W : Two(k) = 2 * Two(k - 1)
<1> DEFINE Doubled == [x \in Nat \ {0} |-> 2 * x]
<1>1. Doubled \in [Nat \ {0} -> Nat \ {0}]
  OBVIOUS
<1>2. W \in Nat
  BY WidthIs
<1>3. PICK f \in [0..W -> Nat \ {0}] : f[0] = 1 /\ \A k \in 1..W : f[k] = Doubled[f[k - 1]]
  <2> DEFINE N == Nat \ {0}
  <2>1. 1 \in N /\ Doubled \in [N -> N]
    BY <1>1
  <2> HIDE DEF Doubled, N
  <2>2. \A n \in Nat : \E f \in [0..n -> N] : IsLoop(f, 1, Doubled, n)
    BY <2>1, LoopExists
  <2> QED
    BY <1>2, <2>2 DEF N, IsLoop
<1>4. \A k \in 1..W : k - 1 \in 0..W
  BY <1>2
<1>5. \A k \in 1..W : f[k] = 2 * f[k - 1]
  BY <1>3, <1>4
<1>6. f = [k \in 0..W |-> IF k = 0 THEN 1 ELSE 2 * f[k - 1]]
  <2>1. \A k \in 0..W : f[k] = IF k = 0 THEN 1 ELSE 2 * f[k - 1]
    BY <1>2, <1>3, <1>5
  <2> QED
    BY <2>1
<1>7. Muldiv!Pow2 = [k \in 0..W |-> IF k = 0 THEN 1 ELSE 2 * Muldiv!Pow2[k - 1]]
  BY <1>6 DEF Muldiv!Pow2
<1> DEFINE g == Muldiv!Pow2
           T == {n \in Nat : n <= W => g[n] \in Nat \ {0}}
<1>8. g[0] = 1 /\ \A k \in 1..W : g[k] = 2 * g[k - 1]
  BY <1>2, <1>7
<1> HIDE DEF g
<1>9. 0 \in T
  BY <1>8
<1>10. ASSUME NEW n \in Nat, n \in T PROVE n + 1 \in T
  <2> SUFFICES ASSUME n + 1 <= W PROVE g[n + 1] \in Nat \ {0}
    OBVIOUS
  <2>1. n + 1 \in 1..W /\ (n + 1) - 1 = n /\ n <= W
    BY <1>2
  <2>2. g[n + 1] = 2 * g[n]
    BY <1>8, <2>1
  <2>3. g[n] \in Nat \ {0}
    BY <1>10, <2>1
  <2> QED
    BY <2>2, <2>3
<1> HIDE DEF T
<1>11. Nat \subseteq T
  BY <1>9, <1>10, SetInduction
<1>12. \A k \in 0..W : g[k] \in Nat \ {0}
  BY <1>2, <1>11 DEF T
<1> QED
  BY <1>8, <1>12 DEF g, Two

\* The bits done and those left are all the bits.
LEMMA PowersMeet == \A n \in Nat : n <= W => Two(n) * Two(W - n) = Two(W)
<1> DEFINE T == {n \in Nat : n <= W => Two(n) * Two(W - n) = Two(W)}
<1>0. W \in Nat
  BY WidthIs
<1>1. 0 \in T
  <2>1. Two(0) = 1 /\ W - 0 = W /\ Two(W) \in Nat
    BY <1>0, Powers
  <2> QED
    BY <2>1
<1>2. ASSUME NEW n \in Nat, n \in T PROVE n + 1 \in T
  <2> SUFFICES ASSUME n + 1 <= W PROVE Two(n + 1) * Two(W - (n + 1)) = Two(W)
    OBVIOUS
  <2> DEFINE a == Two(n)
             c == Two(W - (n + 1))
  <2>1. /\ n \in 0..W /\ W - (n + 1) \in 0..W /\ n + 1 \in 1..W /\ W - n \in 1..W
        /\ (n + 1) - 1 = n /\ (W - n) - 1 = W - (n + 1)
    BY <1>0
  <2>2. Two(n + 1) = 2 * a /\ Two(W - n) = 2 * c
    BY <2>1, Powers
  <2>3. a \in Nat /\ c \in Nat
    BY <2>1, Powers
  <2>4. a * Two(W - n) = Two(W)
    BY <1>2, <2>1
  <2> HIDE DEF a, c
  <2>5. (2 * a) * c = a * (2 * c)
    BY <2>3
  <2>6. Two(n + 1) * c = Two(W)
    BY <2>2, <2>4, <2>5
  <2> QED
    BY <2>6 DEF c
<1> HIDE DEF T
<1>3. Nat \subseteq T
  BY <1>1, <1>2, SetInduction
<1> QED
  BY <1>3 DEF T

\* The sizes at a turn: a for the bits done, c for those left after it, and the two
\* halves of the range of a word.
LEMMA TurnSizes ==
  ASSUME NEW n \in Nat, n + 1 <= W
  PROVE  /\ Two(n) \in Nat \ {0} /\ Two(W - (n + 1)) \in Nat \ {0}
         /\ Two(n + 1) = 2 * Two(n) /\ Two(W - n) = 2 * Two(W - (n + 1))
         /\ Two(W - 1) = Two(n) * Two(W - (n + 1)) /\ Two(W) = 2 * Two(W - 1)
<1>0. W \in Nat \ {0}
  BY WidthIs
<1> DEFINE a == Two(n)
           c == Two(W - (n + 1))
<1>1. /\ n \in 0..W /\ W - (n + 1) \in 0..W /\ n + 1 \in 1..W /\ W - n \in 1..W
      /\ (n + 1) - 1 = n /\ (W - n) - 1 = W - (n + 1) /\ W - 1 \in 0..W /\ W \in 1..W
  BY <1>0
<1>2. Two(n + 1) = 2 * a /\ Two(W - n) = 2 * c /\ Two(W) = 2 * Two(W - 1)
  BY <1>1, Powers
<1>3. a \in Nat \ {0} /\ c \in Nat \ {0} /\ Two(W - 1) \in Nat
  BY <1>1, Powers
<1>4. a * Two(W - n) = Two(W)
  BY <1>1, PowersMeet
<1> HIDE DEF a, c
<1>5. a * (2 * c) = 2 * (a * c) /\ a * c \in Nat
  BY <1>3
<1>6. Two(W - 1) = a * c
  <2>1. 2 * (a * c) = 2 * Two(W - 1)
    BY <1>2, <1>4, <1>5
  <2> QED
    BY <1>3, <1>5, <2>1
<1> QED
  BY <1>2, <1>3, <1>6 DEF a, c

\* A word, and its two halves.
LEMMA WordIs ==
  /\ Two(W) \in Nat \ {0} /\ Two(W - 1) \in Nat \ {0} /\ Two(W) = 2 * Two(W - 1)
  /\ Muldiv!Word = 0..Two(W) - 1
<1>1. W \in 1..W /\ W \in 0..W /\ W - 1 \in 0..W
  BY WidthIs
<1>2. Two(W) \in Nat \ {0} /\ Two(W - 1) \in Nat \ {0} /\ Two(W) = 2 * Two(W - 1)
  BY <1>1, Powers
<1>3. Muldiv!Word = 0..Two(W) - 1
  BY DEF Muldiv!Word, Two
<1> QED
  BY <1>2, <1>3

\* Cutting to a word, and the most significant bit.
LEMMA WrapIs == \A x : Muldiv!Wrap(x) = x % Two(W)
BY DEF Muldiv!Wrap, Two

LEMMA MsbIs == \A x : Muldiv!Msb(x) = x \div Two(W - 1)
BY DEF Muldiv!Msb, Two

LEMMA WordTypes ==
  ASSUME NEW x \in Int
  PROVE  Muldiv!Wrap(x) \in Muldiv!Word /\ Muldiv!Wrap(x) \in Int /\ Muldiv!Msb(x) \in Int
<1>1. Two(W) \in Nat \ {0} /\ Two(W - 1) \in Nat \ {0}
  BY WordIs
<1>2. x % Two(W) \in 0..Two(W) - 1 /\ x \div Two(W - 1) \in Int
  BY <1>1, Division
<1> QED
  BY <1>1, <1>2, WordIs, WrapIs, MsbIs

\* A word is what it is cut to.
LEMMA WordWrapped ==
  ASSUME NEW x \in Nat, x < Two(W)
  PROVE  Muldiv!Wrap(x) = x
<1>1. Two(W) \in Nat \ {0}
  BY WordIs
<1>2. x % Two(W) = x
  BY <1>1
<1> QED
  BY <1>2, WrapIs

-----------------------------------------------------------------------------
(* Emulation: the division. *)

\* What r13 and r3 hold.
DivideState == [r13 : Int, r3 : Int]

LEMMA DivideTurnType ==
  ASSUME NEW s \in DivideState, NEW d \in Int
  PROVE  Muldiv!DivideTurn(s, d) \in DivideState
<1> DEFINE remainder == Muldiv!Wrap(2 * s.r13 + Muldiv!Msb(s.r3))
           shifted == Muldiv!Wrap(2 * s.r3)
<1>1. s.r13 \in Int /\ s.r3 \in Int
  BY DEF DivideState
<1>2. 2 * s.r13 + Muldiv!Msb(s.r3) \in Int /\ 2 * s.r3 \in Int
  <2>1. Muldiv!Msb(s.r3) \in Int
    BY <1>1, WordTypes
  <2> QED
    BY <1>1, <2>1
<1>3. remainder \in Int /\ shifted \in Int
  BY <1>2, WordTypes
<1>4. Muldiv!DivideTurn(s, d) = IF Muldiv!Fits(remainder, d)
                                THEN [r13 |-> remainder - d, r3 |-> shifted + 1]
                                ELSE [r13 |-> remainder, r3 |-> shifted]
  BY DEF Muldiv!DivideTurn
<1> HIDE DEF remainder, shifted
<1> QED
  BY <1>3, <1>4 DEF DivideState

\* The recursive function of the loop exists.
LEMMA DivideLoopIs ==
  ASSUME NEW D \in Int, NEW d \in Int
  PROVE  /\ Muldiv!DivideLoop(D, d)[0] = [r13 |-> 0, r3 |-> D]
         /\ \A k \in 1..W :
              /\ Muldiv!DivideLoop(D, d)[k] = Muldiv!DivideTurn(Muldiv!DivideLoop(D, d)[k - 1], d)
              /\ Muldiv!DivideLoop(D, d)[k - 1] \in DivideState
<1> DEFINE start == [r13 |-> 0, r3 |-> D]
           turn == [s \in DivideState |-> Muldiv!DivideTurn(s, d)]
           F == Muldiv!DivideLoop(D, d)
<1>0. W \in Nat
  BY WidthIs
<1>1. start \in DivideState
  BY DEF DivideState
<1>2. turn \in [DivideState -> DivideState]
  BY DivideTurnType
<1>3. PICK f \in [0..W -> DivideState] : IsLoop(f, start, turn, W)
  <2> HIDE DEF start, turn
  <2> QED
    BY <1>0, <1>1, <1>2, LoopExists
<1>4. \A k \in 1..W : k - 1 \in 0..W
  BY <1>0
<1>5. \A k \in 1..W : f[k] = Muldiv!DivideTurn(f[k - 1], d) /\ f[k - 1] \in DivideState
  BY <1>3, <1>4 DEF IsLoop
<1>6. f = [k \in 0..W |-> IF k = 0 THEN start ELSE Muldiv!DivideTurn(f[k - 1], d)]
  <2>1. \A k \in 0..W : f[k] = IF k = 0 THEN start ELSE Muldiv!DivideTurn(f[k - 1], d)
    BY <1>0, <1>3, <1>5 DEF IsLoop
  <2> QED
    BY <2>1
<1>7. F = [k \in 0..W |-> IF k = 0 THEN start ELSE Muldiv!DivideTurn(F[k - 1], d)]
  BY <1>6 DEF Muldiv!DivideLoop
<1> HIDE DEF F, start
<1>8. F[0] = start /\ \A k \in 1..W : F[k] = Muldiv!DivideTurn(F[k - 1], d)
  BY <1>0, <1>7
<1> DEFINE T == {n \in Nat : n <= W => F[n] \in DivideState}
<1>9. 0 \in T
  BY <1>1, <1>8
<1>10. ASSUME NEW n \in Nat, n \in T PROVE n + 1 \in T
  <2> SUFFICES ASSUME n + 1 <= W PROVE F[n + 1] \in DivideState
    OBVIOUS
  <2>1. n + 1 \in 1..W /\ (n + 1) - 1 = n /\ n <= W
    BY <1>0
  <2>2. F[n] \in DivideState /\ F[n + 1] = Muldiv!DivideTurn(F[n], d)
    BY <1>8, <1>10, <2>1
  <2> QED
    BY <2>2, DivideTurnType
<1> HIDE DEF T
<1>11. Nat \subseteq T
  BY <1>9, <1>10, SetInduction
<1>12. \A k \in 1..W : F[k - 1] \in DivideState
  BY <1>0, <1>11 DEF T
<1> QED
  BY <1>8, <1>12 DEF F, start

\* Twice a word keeps its last bit free when it is cut to a word.
LEMMA TwiceWrapped ==
  ASSUME NEW x \in Int
  PROVE  Muldiv!Wrap(2 * x) = 2 * (x % Two(W - 1))
<1> DEFINE h == Two(W - 1)
           m == x \div h
           r == x % h
<1>1. h \in Nat \ {0} /\ Two(W) = 2 * h
  BY WordIs
<1>2. m \in Int /\ r \in 0..h - 1 /\ x = h * m + r
  BY <1>1, Division
<1>3. Muldiv!Wrap(2 * x) = (2 * x) % Two(W)
  BY WrapIs
<1> HIDE DEF h, m, r
<1>4. 2 * x = m * (2 * h) + 2 * r
  BY <1>1, <1>2
<1>5. 2 * r \in 0..(2 * h) - 1 /\ 2 * x \in Int /\ 2 * h \in Nat \ {0}
  BY <1>1, <1>2
<1>6. (2 * x) % (2 * h) = 2 * r
  <2> DEFINE n == 2 * x
             d == 2 * h
             z == 2 * r
  <2>1. n = m * d + z /\ z \in 0..d - 1 /\ n \in Int /\ d \in Nat \ {0} /\ m \in Int
    BY <1>2, <1>4, <1>5
  <2> HIDE DEF n, d, z
  <2>2. n % d = z
    BY <2>1, Remainders
  <2> QED
    BY <2>2 DEF n, d, z
<1> QED
  BY <1>1, <1>3, <1>6 DEF h, r

\* Whatever the divisor, zero included, the quotient is a word.
LEMMA QuotientIsWord ==
  ASSUME NEW D \in Int, NEW d \in Int
  PROVE  Muldiv!Quotient(D, d) \in Muldiv!Word
<1> DEFINE s == Muldiv!DivideLoop(D, d)[W - 1]
           remainder == Muldiv!Wrap(2 * s.r13 + Muldiv!Msb(s.r3))
           shifted == Muldiv!Wrap(2 * s.r3)
<1>1. Muldiv!Quotient(D, d) = Muldiv!DivideTurn(s, d).r3 /\ s \in DivideState
  <2>1. W \in 1..W
    BY WidthIs
  <2>2. /\ Muldiv!DivideLoop(D, d)[W] = Muldiv!DivideTurn(s, d)
        /\ s \in DivideState
    BY <2>1, DivideLoopIs
  <2>3. Muldiv!Quotient(D, d) = Muldiv!DivideLoop(D, d)[W].r3
    BY DEF Muldiv!Quotient
  <2> HIDE DEF s
  <2> QED
    BY <2>2, <2>3
<1>2. Muldiv!DivideTurn(s, d) = IF Muldiv!Fits(remainder, d)
                                THEN [r13 |-> remainder - d, r3 |-> shifted + 1]
                                ELSE [r13 |-> remainder, r3 |-> shifted]
  BY DEF Muldiv!DivideTurn
<1>3. s.r3 \in Int
  BY <1>1 DEF DivideState
<1> DEFINE h == Two(W - 1)
           rest == s.r3 % h
<1>4. h \in Nat \ {0} /\ Muldiv!Word = 0..(2 * h) - 1 /\ shifted = 2 * rest /\ rest \in 0..h - 1
  BY <1>3, TwiceWrapped, WordIs, Division
<1> HIDE DEF s, remainder, shifted, rest, h
<1>5. shifted \in Muldiv!Word /\ shifted + 1 \in Muldiv!Word
  BY <1>4
<1>6. Muldiv!DivideTurn(s, d).r3 \in {shifted, shifted + 1}
  BY <1>2
<1> QED
  BY <1>1, <1>5, <1>6

\* After the turns for the first bits of the dividend D, top: r13 is its remainder by d,
\* and r3 has the bits left, low, above the quotient q. There are a numbers of the
\* first bits and b of those left.
Dividing(s, D, d, a, b, q, top, low) ==
  /\ q \in 0..a - 1 /\ top \in 0..a - 1 /\ low \in 0..b - 1
  /\ D = top * b + low /\ top = q * d + s.r13 /\ s.r13 \in 0..d - 1
  /\ s.r3 = low * a + q

\* One bit further.
LEMMA DivideStep ==
  ASSUME NEW D \in Int, NEW d \in Nat \ {0}, NEW s \in DivideState,
         NEW a \in Nat \ {0}, NEW c \in Nat \ {0}, Two(W - 1) = a * c,
         NEW q \in Int, NEW top \in Int, NEW low \in Int,
         Dividing(s, D, d, a, 2 * c, q, top, low)
  PROVE  \E nq, ntop, nlow \in Int :
           Dividing(Muldiv!DivideTurn(s, d), D, d, 2 * a, c, nq, ntop, nlow)
<1> DEFINE m == low \div c
           rest == low % c
           r == s.r13
           remainder == Muldiv!Wrap(2 * r + Muldiv!Msb(s.r3))
           shifted == Muldiv!Wrap(2 * s.r3)
           h == Two(W - 1)
           below == rest * a + q
<1>1. /\ q \in 0..a - 1 /\ top \in 0..a - 1 /\ low \in 0..(2 * c) - 1
      /\ D = top * (2 * c) + low /\ top = q * d + r /\ r \in 0..d - 1 /\ s.r3 = low * a + q
  BY DEF Dividing
<1>2. m \in Int /\ rest \in 0..c - 1 /\ low = c * m + rest
  BY Division
<1>3. Muldiv!DivideTurn(s, d) = IF remainder >= d
                                THEN [r13 |-> remainder - d, r3 |-> shifted + 1]
                                ELSE [r13 |-> remainder, r3 |-> shifted]
  BY DEF Muldiv!DivideTurn, Muldiv!Fits
<1>4. h \in Nat \ {0} /\ h = a * c /\ Two(W) = 2 * h
  BY WordIs
<1>5. m \in 0..1
  <2> HIDE DEF m, rest
  <2>1. ~(1 < m)
    <3>1. 1 < m => 1 * c + c <= m * c
      BY <1>2, QuotientOrder
    <3>2. m * c = c * m /\ c * m \in Int
      BY <1>2
    <3> QED
      BY <1>1, <1>2, <3>1, <3>2
  <2>2. ~(m < 0)
    <3>1. m < 0 => m * c + c <= 0 * c
      BY <1>2, QuotientOrder
    <3>2. m * c = c * m /\ c * m \in Int /\ 0 * c = 0
      BY <1>2
    <3> QED
      BY <1>1, <1>2, <3>1, <3>2
  <2> QED
    BY <1>2, <2>1, <2>2
<1> HIDE DEF m, rest
<1>6. below \in 0..h - 1
  <2>1. rest * a + a <= c * a /\ rest * a \in Nat
    BY <1>2, QuotientOrder
  <2>2. c * a = h
    BY <1>4
  <2> QED
    BY <1>1, <1>4, <2>1, <2>2
<1>7. s.r3 = m * h + below /\ s.r3 \in Int
  <2>1. low * a = m * (a * c) + rest * a
    BY <1>1, <1>2
  <2> QED
    BY <1>1, <1>2, <1>4, <2>1 DEF DivideState
<1> HIDE DEF h, below
<1> DEFINE x == s.r3
<1>a. x \div h = m /\ x % h = below
  <2>1. m \in Int /\ x \in Int /\ x = m * h + below
    BY <1>5, <1>7
  <2> HIDE DEF x
  <2>2. h \in Nat \ {0} /\ below \in 0..h - 1
    BY <1>4, <1>6
  <2>3. IsDivision(x, h, m, below)
    BY <2>1, <2>2 DEF IsDivision
  <2> QED
    BY <2>3, DivisionIs
<1>8. Muldiv!Msb(s.r3) = m
  BY <1>a, MsbIs DEF h
<1>9. shifted = 2 * below
  BY <1>7, <1>a, TwiceWrapped DEF h
<1>10. remainder = 2 * r + m /\ 2 * r + m \in Nat
  <2>1. r <= top
    <3>1. q * d \in Nat
      BY <1>1
    <3> QED
      BY <1>1, <3>1
  <2>2. 2 * r + m \in Nat /\ 2 * r + m <= 2 * a - 1
    BY <1>1, <1>5, <2>1
  <2>3. a <= h
    <3>1. 1 * a <= c * a /\ c * a = a * c
      BY ProductGrows
    <3> QED
      BY <1>4, <3>1
  <2>4. 2 * r + m < Two(W)
    BY <1>4, <2>2, <2>3
  <2>5. remainder = Muldiv!Wrap(2 * r + m)
    BY <1>8
  <2> QED
    BY <2>2, <2>4, <2>5, WordWrapped
<1> DEFINE ntop == 2 * top + m
<1>11. ntop \in 0..(2 * a) - 1 /\ D = ntop * c + rest /\ ntop = (2 * q) * d + (2 * r + m)
  <2>1. top * (2 * c) = (2 * top) * c /\ (2 * q) * d = 2 * (q * d) /\ q * d \in Int
    BY <1>1
  <2>2. ntop * c = (2 * top) * c + c * m
    BY <1>1, <1>2
  <2>3. ntop \in 0..(2 * a) - 1
    BY <1>1, <1>5
  <2>4. (2 * top) * c \in Int /\ c * m \in Int
    BY <1>1, <1>2
  <2>5. D = ntop * c + rest
    BY <1>1, <1>2, <2>1, <2>2, <2>4
  <2>6. ntop = (2 * q) * d + (2 * r + m)
    BY <1>1, <1>5, <2>1
  <2> QED
    BY <2>3, <2>5, <2>6
<1>12. 2 * below = rest * (2 * a) + 2 * q
  BY <1>1, <1>2 DEF below
<1> HIDE DEF ntop, remainder, shifted
<1>13. CASE remainder >= d
  <2> DEFINE t == Muldiv!DivideTurn(s, d)
             nq == 2 * q + 1
  <2>1. t.r13 = remainder - d /\ t.r3 = shifted + 1
    BY <1>3, <1>13
  <2> HIDE DEF t
  <2>2. nq \in 0..(2 * a) - 1 /\ nq \in Int
    BY <1>1
  <2>3. t.r13 = 2 * r + m - d /\ t.r13 \in 0..d - 1
    BY <1>1, <1>5, <1>10, <1>13, <2>1
  <2>4. ntop = nq * d + t.r13
    <3>1. nq * d = (2 * q) * d + d /\ (2 * q) * d \in Int
      BY <1>1
    <3> QED
      BY <1>1, <1>5, <1>11, <2>3, <3>1
  <2>5. t.r3 = rest * (2 * a) + nq
    <3>1. rest * (2 * a) \in Int
      BY <1>2
    <3> QED
      BY <1>1, <1>9, <1>12, <2>1, <3>1
  <2> HIDE DEF nq
  <2>6. Dividing(t, D, d, 2 * a, c, nq, ntop, rest)
    BY <1>2, <1>11, <2>2, <2>3, <2>4, <2>5 DEF Dividing
  <2>7. ntop \in Int /\ rest \in Int /\ nq \in Int
    BY <1>2, <1>11, <2>2
  <2> QED
    BY <2>6, <2>7 DEF t
<1>14. CASE ~(remainder >= d)
  <2> DEFINE t == Muldiv!DivideTurn(s, d)
             nq == 2 * q
  <2>1. t.r13 = remainder /\ t.r3 = shifted
    BY <1>3, <1>14
  <2> HIDE DEF t
  <2>2. nq \in 0..(2 * a) - 1 /\ nq \in Int
    BY <1>1
  <2>3. t.r13 = 2 * r + m /\ t.r13 \in 0..d - 1
    BY <1>1, <1>5, <1>10, <1>14, <2>1
  <2>4. ntop = nq * d + t.r13
    BY <1>11, <2>3
  <2>5. t.r3 = rest * (2 * a) + nq
    BY <1>9, <1>12, <2>1
  <2> HIDE DEF nq
  <2>6. Dividing(t, D, d, 2 * a, c, nq, ntop, rest)
    BY <1>2, <1>11, <2>2, <2>3, <2>4, <2>5 DEF Dividing
  <2>7. ntop \in Int /\ rest \in Int /\ nq \in Int
    BY <1>2, <1>11, <2>2
  <2> QED
    BY <2>6, <2>7 DEF t
<1> QED
  BY <1>13, <1>14

\* The loop divides.
LEMMA QuotientIs ==
  ASSUME NEW D \in Muldiv!Word, NEW d \in Muldiv!Word \ {0}
  PROVE  Muldiv!Quotient(D, d) = D \div d
<1> DEFINE F == Muldiv!DivideLoop(D, d)
           Going(n) == \E q, top, low \in Int :
                         Dividing(F[n], D, d, Two(n), Two(W - n), q, top, low)
           T == {n \in Nat : n <= W => Going(n)}
<1>0. W \in Nat /\ D \in 0..Two(W) - 1 /\ d \in Nat \ {0} /\ D \in Int /\ d \in Int
  BY WordIs, WidthIs
<1>1. /\ F[0] = [r13 |-> 0, r3 |-> D]
      /\ \A k \in 1..W : F[k] = Muldiv!DivideTurn(F[k - 1], d) /\ F[k - 1] \in DivideState
  BY <1>0, DivideLoopIs
<1> HIDE DEF F
<1>2. 0 \in T
  <2>1. Two(0) = 1 /\ W - 0 = W /\ Two(W) \in Nat
    BY <1>0, Powers
  <2>2. F[0].r13 = 0 /\ F[0].r3 = D
    BY <1>1
  <2>3. Dividing(F[0], D, d, 1, Two(W), 0, 0, D)
    BY <1>0, <2>1, <2>2 DEF Dividing
  <2>4. Going(0)
    BY <1>0, <2>1, <2>3
  <2> HIDE DEF Going
  <2> QED
    BY <2>4
<1>3. ASSUME NEW n \in Nat, n \in T PROVE n + 1 \in T
  <2> SUFFICES ASSUME n + 1 <= W PROVE Going(n + 1)
    OBVIOUS
  <2>1. n + 1 \in 1..W /\ (n + 1) - 1 = n /\ n <= W
    BY <1>0
  <2>2. F[n + 1] = Muldiv!DivideTurn(F[n], d) /\ F[n] \in DivideState
    BY <1>1, <2>1
  <2>3. PICK q \in Int, top \in Int, low \in Int :
          Dividing(F[n], D, d, Two(n), Two(W - n), q, top, low)
    BY <1>3, <2>1
  <2> DEFINE a == Two(n)
             c == Two(W - (n + 1))
  <2>4. /\ a \in Nat \ {0} /\ c \in Nat \ {0} /\ Two(n + 1) = 2 * a /\ Two(W - n) = 2 * c
        /\ Two(W - 1) = a * c
    BY TurnSizes
  <2> HIDE DEF a, c
  <2>5. Dividing(F[n], D, d, a, 2 * c, q, top, low)
    BY <2>3, <2>4 DEF a
  <2>6. \E nq, ntop, nlow \in Int :
          Dividing(Muldiv!DivideTurn(F[n], d), D, d, 2 * a, c, nq, ntop, nlow)
    BY <1>0, <2>2, <2>4, <2>5, DivideStep
  <2> QED
    BY <2>2, <2>4, <2>6 DEF c
<1> HIDE DEF T
<1>4. Nat \subseteq T
  BY <1>2, <1>3, SetInduction
<1>5. PICK q \in Int, top \in Int, low \in Int :
        Dividing(F[W], D, d, Two(W), Two(W - W), q, top, low)
  BY <1>0, <1>4 DEF T
<1>6. Two(W - W) = 1 /\ Two(W) \in Nat \ {0}
  BY <1>0, Powers
<1> DEFINE r == F[W].r13
<1>7. D = q * d + r /\ r \in 0..d - 1 /\ F[W].r3 = q
  <2>1. /\ top \in 0..Two(W) - 1 /\ low \in 0..1 - 1 /\ D = top * 1 + low
        /\ top = q * d + r /\ r \in 0..d - 1 /\ F[W].r3 = low * Two(W) + q
    BY <1>5, <1>6 DEF Dividing
  <2>2. low = 0 /\ low * Two(W) = 0
    BY <1>6, <2>1
  <2>3. D = top
    BY <1>6, <2>1, <2>2
  <2> QED
    BY <2>1, <2>2, <2>3
<1> HIDE DEF r
<1>8. D \div d = q
  BY <1>0, <1>7, Remainders
<1> QED
  BY <1>7, <1>8 DEF F, Muldiv!Quotient

-----------------------------------------------------------------------------
(* Emulation: the multiplication. *)

\* What r9, r10, r6 and r12 hold.
MultiplyState == [r9 : Int, r10 : Int, r6 : Int, r12 : Int]

\* Halves of a number.
LEMMA HalfOf ==
  ASSUME NEW x \in Int
  PROVE  x \div 2 \in Int /\ x % 2 \in 0..1 /\ x = 2 * (x \div 2) + (x % 2)
BY Division

LEMMA MultiplyTurnIs ==
  ASSUME NEW s \in MultiplyState, NEW x \in Int
  PROVE  LET t == Muldiv!MultiplyTurn(s, x)
         IN /\ t \in MultiplyState
            /\ t.r9 = Muldiv!Wrap(2 * s.r9 + Muldiv!Msb(s.r6) * x)
            /\ t.r10 = (s.r10 + (s.r12 % 2) * x) \div 2
            /\ t.r6 = Muldiv!Wrap(2 * s.r6)
            /\ t.r12 = s.r12 \div 2
<1> DEFINE p == 2 * s.r9 + Muldiv!Msb(s.r6) * x
           u == s.r10 + (s.r12 % 2) * x
           l == 2 * s.r6
<1>1. s.r9 \in Int /\ s.r10 \in Int /\ s.r6 \in Int /\ s.r12 \in Int
  BY DEF MultiplyState
<1>2. Muldiv!Msb(s.r6) \in Int
  BY <1>1, WordTypes
<1>3. Muldiv!Msb(s.r6) * x \in Int
  BY <1>2
<1>4. s.r12 % 2 \in Int /\ s.r12 \div 2 \in Int
  BY <1>1, HalfOf
<1>5. (s.r12 % 2) * x \in Int
  BY <1>4
<1>6. p \in Int /\ u \in Int /\ l \in Int
  BY <1>1, <1>3, <1>5
<1>7. Muldiv!MultiplyTurn(s, x) = [r9 |-> Muldiv!Wrap(p), r10 |-> u \div 2,
                                   r6 |-> Muldiv!Wrap(l), r12 |-> s.r12 \div 2]
  BY DEF Muldiv!MultiplyTurn
<1> HIDE DEF p, u, l
<1>8. Muldiv!Wrap(p) \in Int /\ Muldiv!Wrap(l) \in Int /\ u \div 2 \in Int
  BY <1>6, WordTypes, HalfOf
<1>9. Muldiv!MultiplyTurn(s, x) \in MultiplyState
  BY <1>4, <1>7, <1>8 DEF MultiplyState
<1> QED
  BY <1>7, <1>9 DEF p, u, l

\* The recursive function of the loop exists.
LEMMA MultiplyLoopIs ==
  ASSUME NEW x \in Int, NEW y \in Int
  PROVE  LET F == Muldiv!MultiplyLoop(x, y)
         IN /\ F[0] = [r9 |-> 0, r10 |-> 0, r6 |-> y, r12 |-> y]
            /\ \A k \in 1..W :
                 F[k] = Muldiv!MultiplyTurn(F[k - 1], x) /\ F[k - 1] \in MultiplyState
            /\ F[W] \in MultiplyState
<1> DEFINE start == [r9 |-> 0, r10 |-> 0, r6 |-> y, r12 |-> y]
           turn == [s \in MultiplyState |-> Muldiv!MultiplyTurn(s, x)]
           F == Muldiv!MultiplyLoop(x, y)
<1>0. W \in Nat
  BY WidthIs
<1>1. start \in MultiplyState
  BY DEF MultiplyState
<1>2. turn \in [MultiplyState -> MultiplyState]
  <2>1. \A s \in MultiplyState : Muldiv!MultiplyTurn(s, x) \in MultiplyState
    BY MultiplyTurnIs
  <2> QED
    BY <2>1
<1>3. PICK f \in [0..W -> MultiplyState] : IsLoop(f, start, turn, W)
  <2> HIDE DEF start, turn
  <2> QED
    BY <1>0, <1>1, <1>2, LoopExists
<1>4. \A k \in 1..W : k - 1 \in 0..W
  BY <1>0
<1>5. \A k \in 1..W : f[k] = Muldiv!MultiplyTurn(f[k - 1], x) /\ f[k - 1] \in MultiplyState
  BY <1>3, <1>4 DEF IsLoop
<1>6. f = [k \in 0..W |-> IF k = 0 THEN start ELSE Muldiv!MultiplyTurn(f[k - 1], x)]
  <2>1. \A k \in 0..W : f[k] = IF k = 0 THEN start ELSE Muldiv!MultiplyTurn(f[k - 1], x)
    BY <1>0, <1>3, <1>5 DEF IsLoop
  <2> QED
    BY <2>1
<1>7. F = [k \in 0..W |-> IF k = 0 THEN start ELSE Muldiv!MultiplyTurn(F[k - 1], x)]
  BY <1>6 DEF Muldiv!MultiplyLoop
<1> HIDE DEF F, start
<1>8. F[0] = start /\ \A k \in 1..W : F[k] = Muldiv!MultiplyTurn(F[k - 1], x)
  BY <1>0, <1>7
<1> DEFINE T == {n \in Nat : n <= W => F[n] \in MultiplyState}
<1>9. 0 \in T
  BY <1>1, <1>8
<1>10. ASSUME NEW n \in Nat, n \in T PROVE n + 1 \in T
  <2> SUFFICES ASSUME n + 1 <= W PROVE F[n + 1] \in MultiplyState
    OBVIOUS
  <2>1. n + 1 \in 1..W /\ (n + 1) - 1 = n /\ n <= W
    BY <1>0
  <2>2. F[n] \in MultiplyState /\ F[n + 1] = Muldiv!MultiplyTurn(F[n], x)
    BY <1>8, <1>10, <2>1
  <2> QED
    BY <2>2, MultiplyTurnIs
<1> HIDE DEF T
<1>11. Nat \subseteq T
  BY <1>9, <1>10, SetInduction
<1>12. (\A k \in 1..W : F[k - 1] \in MultiplyState) /\ F[W] \in MultiplyState
  BY <1>0, <1>11 DEF T
<1> QED
  BY <1>8, <1>12 DEF F, start

\* Doubling and adding goes through a remainder.
LEMMA TwiceModulo ==
  ASSUME NEW u \in Int, NEW v \in Int, NEW p \in Nat \ {0}
  PROVE  (2 * (u % p) + v) % p = (2 * u + v) % p
<1> DEFINE r == u % p
           k == u \div p
           e == 2 * r + v
           z == e % p
           j == e \div p
           n == 2 * u + v
<1>1. k \in Int /\ r \in 0..p - 1 /\ u = p * k + r
  BY Division
<1>2. e \in Int /\ n \in Int
  BY <1>1
<1>3. j \in Int /\ z \in 0..p - 1 /\ e = p * j + z
  BY <1>2, Division
<1> HIDE DEF r, k, z, j
<1>4. n = (2 * k + j) * p + z /\ 2 * k + j \in Int
  <2>1. (2 * k + j) * p = 2 * (p * k) + p * j /\ p * k \in Int /\ p * j \in Int
    BY <1>1, <1>3
  <2> QED
    BY <1>1, <1>3, <2>1
<1> HIDE DEF e, n
<1>5. n % p = z
  <2> DEFINE m == 2 * k + j
  <2>1. m \in Int /\ n = m * p + z
    BY <1>4
  <2> HIDE DEF m
  <2>2. IsDivision(n, p, m, z)
    BY <1>2, <1>3, <2>1 DEF IsDivision
  <2> QED
    BY <2>2, DivisionIs
<1> QED
  BY <1>5 DEF z, e, n, r

\* The quotient halved.
LEMMA HalvedQuotient ==
  ASSUME NEW u \in Int, NEW v \in Int, NEW a \in Nat \ {0}
  PROVE  ((u \div a) + v) \div 2 = (u + v * a) \div (2 * a)
<1> DEFINE g == u \div a
           h == u % a
           e == (g + v) \div 2
           f == (g + v) % 2
           n == u + v * a
           d == 2 * a
           z == f * a + h
<1>1. g \in Int /\ h \in 0..a - 1 /\ u = a * g + h
  BY Division
<1>2. g + v \in Int
  BY <1>1
<1>3. e \in Int /\ f \in 0..1 /\ g + v = 2 * e + f
  BY <1>2, HalfOf
<1> HIDE DEF g, h, e, f
<1>4. n = e * d + z
  <2>1. n = a * (g + v) + h /\ a * (g + v) \in Int
    BY <1>1, <1>2
  <2>2. a * (2 * e + f) = e * (2 * a) + f * a
    BY <1>3
  <2>3. a * (g + v) = a * (2 * e + f) /\ e * (2 * a) \in Int /\ f * a \in Int
    BY <1>3
  <2> QED
    BY <1>1, <2>1, <2>2, <2>3
<1>5. z \in 0..d - 1
  <2>1. f * a \in {0, a}
    BY <1>3
  <2> QED
    BY <1>1, <2>1
<1>6. n \in Int /\ d \in Nat \ {0}
  BY <1>1
<1> HIDE DEF n, d, z
<1>7. n \div d = e
  <2>1. IsDivision(n, d, e, z)
    BY <1>3, <1>4, <1>5, <1>6 DEF IsDivision
  <2> QED
    BY <2>1, DivisionIs
<1> QED
  BY <1>7 DEF n, d, e, g

\* After the turns for the first bits of y, top, and as many of its last, end: r9 is the
\* product with top, cut to a word, and r6 has the bits left, low, at its upper end;
\* r10 is the product with end, without as many bits, and r12 the bits left, start.
UpperDone(s, x, y, a, b, top, low) ==
  /\ top \in 0..a - 1 /\ low \in 0..b - 1 /\ y = top * b + low
  /\ s.r9 = (x * top) % Two(W) /\ s.r6 = low * a
LowerDone(s, x, y, a, b, start, end) ==
  /\ start \in 0..b - 1 /\ end \in 0..a - 1 /\ y = start * a + end
  /\ s.r10 = (x * end) \div a /\ s.r12 = start

LEMMA UpperStep ==
  ASSUME NEW x \in Int, NEW y \in Int, NEW s \in MultiplyState,
         NEW a \in Nat \ {0}, NEW c \in Nat \ {0}, Two(W - 1) = a * c,
         NEW top \in Int, NEW low \in Int, UpperDone(s, x, y, a, 2 * c, top, low)
  PROVE  \E ntop, nlow \in Int :
           UpperDone(Muldiv!MultiplyTurn(s, x), x, y, 2 * a, c, ntop, nlow)
<1> DEFINE m == low \div c
           rest == low % c
           h == Two(W - 1)
           below == rest * a
           t == Muldiv!MultiplyTurn(s, x)
<1>1. /\ top \in 0..a - 1 /\ low \in 0..(2 * c) - 1 /\ y = top * (2 * c) + low
      /\ s.r9 = (x * top) % Two(W) /\ s.r6 = low * a
  BY DEF UpperDone
<1>2. m \in Int /\ rest \in 0..c - 1 /\ low = c * m + rest
  BY Division
<1>3. h \in Nat \ {0} /\ h = a * c /\ Two(W) \in Nat \ {0}
  BY WordIs
<1>4. t.r9 = Muldiv!Wrap(2 * s.r9 + Muldiv!Msb(s.r6) * x) /\ t.r6 = Muldiv!Wrap(2 * s.r6)
  BY MultiplyTurnIs
<1> HIDE DEF m, rest, t
<1>5. m \in 0..1
  <2>1. ~(1 < m)
    <3>1. 1 < m => 1 * c + c <= m * c
      BY <1>2, QuotientOrder
    <3>2. m * c = c * m /\ c * m \in Int
      BY <1>2
    <3> QED
      BY <1>1, <1>2, <3>1, <3>2
  <2>2. ~(m < 0)
    <3>1. m < 0 => m * c + c <= 0 * c
      BY <1>2, QuotientOrder
    <3>2. m * c = c * m /\ c * m \in Int /\ 0 * c = 0
      BY <1>2
    <3> QED
      BY <1>1, <1>2, <3>1, <3>2
  <2> QED
    BY <1>2, <2>1, <2>2
<1>6. below \in 0..h - 1
  <2>1. rest * a + a <= c * a /\ rest * a \in Nat
    BY <1>2, QuotientOrder
  <2>2. c * a = h
    BY <1>3
  <2> QED
    BY <1>3, <2>1, <2>2
<1>7. s.r6 = m * h + below /\ s.r6 \in Int
  <2>1. low * a = m * (a * c) + rest * a
    BY <1>1, <1>2
  <2> QED
    BY <1>1, <1>2, <1>3, <2>1 DEF MultiplyState
<1>8. t.r6 = rest * (2 * a)
  <2>1. rest * (2 * a) = 2 * below
    BY <1>2
  <2> HIDE DEF h, below
  <2>2. s.r6 % h = below
    <3> DEFINE v == s.r6
    <3>0. m \in Int /\ h \in Nat \ {0}
      BY <1>2, <1>3
    <3>1. v \in Int /\ v = m * h + below
      BY <1>7
    <3> HIDE DEF v
    <3>2. IsDivision(v, h, m, below)
      BY <1>6, <3>0, <3>1 DEF IsDivision
    <3>3. v % h = below
      BY <3>2, DivisionIs
    <3> QED
      BY <3>3 DEF v
  <2> QED
    BY <1>4, <1>7, <2>1, <2>2, TwiceWrapped DEF h
<1>9. Muldiv!Msb(s.r6) = m
  <2> HIDE DEF h, below
  <2>1. s.r6 \div h = m
    <3> DEFINE v == s.r6
    <3>0. m \in Int /\ h \in Nat \ {0}
      BY <1>2, <1>3
    <3>1. v \in Int /\ v = m * h + below
      BY <1>7
    <3> HIDE DEF v
    <3>2. IsDivision(v, h, m, below)
      BY <1>6, <3>0, <3>1 DEF IsDivision
    <3>3. v \div h = m
      BY <3>2, DivisionIs
    <3> QED
      BY <3>3 DEF v
  <2> QED
    BY <2>1, MsbIs DEF h
<1> DEFINE ntop == 2 * top + m
<1>10. ntop \in 0..(2 * a) - 1 /\ y = ntop * c + rest
  <2>1. top * (2 * c) = (2 * top) * c
    BY <1>1
  <2>2. ntop * c = (2 * top) * c + c * m /\ (2 * top) * c \in Int /\ c * m \in Int
    BY <1>1, <1>2
  <2>3. ntop \in 0..(2 * a) - 1
    BY <1>1, <1>5
  <2> QED
    BY <1>1, <1>2, <2>1, <2>2, <2>3
<1>11. t.r9 = (x * ntop) % Two(W)
  <2> DEFINE u == x * top
             v == m * x
             p == Two(W)
  <2>1. u \in Int /\ v \in Int /\ p \in Nat \ {0}
    BY <1>1, <1>3, <1>5
  <2>2. x * ntop = 2 * u + v
    BY <1>1, <1>2
  <2>3. t.r9 = (2 * (u % p) + v) % p
    BY <1>1, <1>4, <1>9, WrapIs
  <2> HIDE DEF u, v, p
  <2>4. t.r9 = (2 * u + v) % p
    BY <2>1, <2>3, TwiceModulo
  <2> QED
    BY <2>2, <2>4 DEF p
<1>12. ntop \in Int /\ rest \in Int
  BY <1>2, <1>10
<1> HIDE DEF ntop
<1>13. UpperDone(t, x, y, 2 * a, c, ntop, rest)
  BY <1>2, <1>8, <1>10, <1>11 DEF UpperDone
<1> QED
  BY <1>12, <1>13 DEF t

LEMMA LowerStep ==
  ASSUME NEW x \in Int, NEW y \in Int, NEW s \in MultiplyState,
         NEW a \in Nat \ {0}, NEW c \in Nat \ {0},
         NEW start \in Int, NEW end \in Int, LowerDone(s, x, y, a, 2 * c, start, end)
  PROVE  \E nstart, nend \in Int :
           LowerDone(Muldiv!MultiplyTurn(s, x), x, y, 2 * a, c, nstart, nend)
<1> DEFINE m == start % 2
           nstart == start \div 2
           nend == m * a + end
           t == Muldiv!MultiplyTurn(s, x)
<1>1. /\ start \in 0..(2 * c) - 1 /\ end \in 0..a - 1 /\ y = start * a + end
      /\ s.r10 = (x * end) \div a /\ s.r12 = start
  BY DEF LowerDone
<1>2. nstart \in Int /\ m \in 0..1 /\ start = 2 * nstart + m
  BY HalfOf
<1>3. t.r10 = (s.r10 + m * x) \div 2 /\ t.r12 = nstart
  BY <1>1, MultiplyTurnIs
<1> HIDE DEF m, nstart, t
<1>4. nstart \in 0..c - 1
  BY <1>1, <1>2
<1>5. nend \in 0..(2 * a) - 1
  <2>1. m * a \in {0, a}
    BY <1>2
  <2> QED
    BY <1>1, <2>1
<1>6. y = nstart * (2 * a) + nend
  <2>1. (2 * nstart + m) * a = nstart * (2 * a) + m * a
    BY <1>2
  <2>2. start * a = (2 * nstart + m) * a /\ nstart * (2 * a) \in Int /\ m * a \in Int
    BY <1>2
  <2>3. y = start * a + end /\ end \in Int
    BY <1>1
  <2>4. start * a = nstart * (2 * a) + m * a
    BY <2>1, <2>2
  <2> QED
    BY <2>2, <2>3, <2>4
<1>7. t.r10 = (x * nend) \div (2 * a)
  <2> DEFINE u == x * end
             v == m * x
  <2>1. u \in Int /\ v \in Int
    BY <1>1, <1>2
  <2>2. x * nend = u + v * a
    BY <1>1, <1>2
  <2>3. t.r10 = ((u \div a) + v) \div 2
    BY <1>1, <1>3
  <2> HIDE DEF u, v
  <2>4. t.r10 = (u + v * a) \div (2 * a)
    BY <2>1, <2>3, HalvedQuotient
  <2> QED
    BY <2>2, <2>4
<1>8. nend \in Int
  BY <1>5
<1> HIDE DEF nend
<1>9. LowerDone(t, x, y, 2 * a, c, nstart, nend)
  BY <1>3, <1>4, <1>5, <1>6, <1>7 DEF LowerDone
<1> QED
  BY <1>2, <1>8, <1>9 DEF t

\* The loop multiplies: both halves of the product.
LEMMA ProductIs ==
  ASSUME NEW x \in Int, NEW y \in Muldiv!Word
  PROVE  /\ Muldiv!Product(x, y).r9 = (x * y) % Two(W)
         /\ Muldiv!Product(x, y).r10 = (x * y) \div Two(W)
<1> DEFINE F == Muldiv!MultiplyLoop(x, y)
           Upper(n) == \E top, low \in Int : UpperDone(F[n], x, y, Two(n), Two(W - n), top, low)
           Lower(n) == \E start, end \in Int :
                         LowerDone(F[n], x, y, Two(n), Two(W - n), start, end)
           T == {n \in Nat : n <= W => Upper(n) /\ Lower(n)}
<1>0. W \in Nat /\ y \in 0..Two(W) - 1 /\ y \in Int /\ Two(W) \in Nat \ {0}
  BY WordIs, WidthIs
<1>1. /\ F[0] = [r9 |-> 0, r10 |-> 0, r6 |-> y, r12 |-> y]
      /\ \A k \in 1..W : F[k] = Muldiv!MultiplyTurn(F[k - 1], x) /\ F[k - 1] \in MultiplyState
  BY <1>0, MultiplyLoopIs
<1> HIDE DEF F
<1>2. 0 \in T
  <2>1. Two(0) = 1 /\ W - 0 = W
    BY <1>0, Powers
  <2>2. F[0].r9 = 0 /\ F[0].r10 = 0 /\ F[0].r6 = y /\ F[0].r12 = y
    BY <1>1
  <2>3. x * 0 = 0 /\ 0 % Two(W) = 0 /\ 0 \div 1 = 0
    BY <1>0
  <2>4. UpperDone(F[0], x, y, 1, Two(W), 0, y)
    BY <1>0, <2>2, <2>3 DEF UpperDone
  <2>5. LowerDone(F[0], x, y, 1, Two(W), y, 0)
    BY <1>0, <2>2, <2>3 DEF LowerDone
  <2>6. Upper(0) /\ Lower(0)
    BY <1>0, <2>1, <2>4, <2>5
  <2> HIDE DEF Upper, Lower
  <2> QED
    BY <2>6
<1>3. ASSUME NEW n \in Nat, n \in T PROVE n + 1 \in T
  <2> SUFFICES ASSUME n + 1 <= W PROVE Upper(n + 1) /\ Lower(n + 1)
    OBVIOUS
  <2>1. n + 1 \in 1..W /\ (n + 1) - 1 = n /\ n <= W
    BY <1>0
  <2>2. F[n + 1] = Muldiv!MultiplyTurn(F[n], x) /\ F[n] \in MultiplyState
    BY <1>1, <2>1
  <2>3. PICK top \in Int, low \in Int : UpperDone(F[n], x, y, Two(n), Two(W - n), top, low)
    BY <1>3, <2>1
  <2>4. PICK start \in Int, end \in Int : LowerDone(F[n], x, y, Two(n), Two(W - n), start, end)
    BY <1>3, <2>1
  <2> DEFINE a == Two(n)
             c == Two(W - (n + 1))
  <2>5. /\ a \in Nat \ {0} /\ c \in Nat \ {0} /\ Two(n + 1) = 2 * a /\ Two(W - n) = 2 * c
        /\ Two(W - 1) = a * c
    BY TurnSizes
  <2> HIDE DEF a, c
  <2>6. UpperDone(F[n], x, y, a, 2 * c, top, low) /\ LowerDone(F[n], x, y, a, 2 * c, start, end)
    BY <2>3, <2>4, <2>5 DEF a
  <2>7. \E ntop, nlow \in Int :
          UpperDone(Muldiv!MultiplyTurn(F[n], x), x, y, 2 * a, c, ntop, nlow)
    BY <1>0, <2>2, <2>5, <2>6, UpperStep
  <2>8. \E nstart, nend \in Int :
          LowerDone(Muldiv!MultiplyTurn(F[n], x), x, y, 2 * a, c, nstart, nend)
    BY <1>0, <2>2, <2>5, <2>6, LowerStep
  <2> QED
    BY <2>2, <2>5, <2>7, <2>8 DEF c
<1> HIDE DEF T
<1>4. Nat \subseteq T
  BY <1>2, <1>3, SetInduction
<1>5. Upper(W) /\ Lower(W)
  BY <1>0, <1>4 DEF T
<1>6. Two(W - W) = 1
  BY <1>0, Powers
<1>7. F[W].r9 = (x * y) % Two(W)
  <2>1. PICK top \in Int, low \in Int : UpperDone(F[W], x, y, Two(W), 1, top, low)
    BY <1>5, <1>6
  <2>2. low \in 0..1 - 1 /\ y = top * 1 + low /\ F[W].r9 = (x * top) % Two(W)
    BY <2>1 DEF UpperDone
  <2>3. y = top
    BY <1>0, <2>2
  <2> QED
    BY <2>2, <2>3
<1>8. F[W].r10 = (x * y) \div Two(W)
  <2>1. PICK start \in Int, end \in Int : LowerDone(F[W], x, y, Two(W), 1, start, end)
    BY <1>5, <1>6
  <2>2. start \in 0..1 - 1 /\ y = start * Two(W) + end /\ F[W].r10 = (x * end) \div Two(W)
    BY <2>1 DEF LowerDone
  <2>3. start = 0 /\ 0 * Two(W) = 0
    BY <1>0, <2>2
  <2>4. y = end
    BY <1>0, <2>2, <2>3
  <2> QED
    BY <2>2, <2>4
<1> QED
  BY <1>7, <1>8 DEF F, Muldiv!Product

-----------------------------------------------------------------------------
(* Emulation: the results, and the registers. *)

LEMMA NegativeIs == \A x : Muldiv!Negative(x) <=> x >= Two(W - 1)
BY DEF Muldiv!Negative, Two

LEMMA SignedIs ==
  \A x : Muldiv!Signed(x) = IF Muldiv!Negative(x) THEN x - Two(W) ELSE x
BY DEF Muldiv!Signed, Two

LEMMA WordInt ==
  ASSUME NEW x \in Muldiv!Word
  PROVE  x \in Nat /\ x < Two(W)
BY WordIs

\* A multiple of the divisor goes through a quotient, and one of the range of a word
\* is lost when a number is cut to a word.
LEMMA ShiftedQuotient ==
  ASSUME NEW n \in Int, NEW k \in Int, NEW p \in Nat \ {0}
  PROVE  (n + k * p) \div p = (n \div p) + k /\ (n + k * p) % p = n % p
<1> DEFINE q == n \div p
           r == n % p
           u == n + k * p
           m == q + k
<1>1. q \in Int /\ r \in 0..p - 1 /\ n = p * q + r
  BY Division
<1> HIDE DEF q, r
<1>2. u = m * p + r
  BY <1>1
<1>3. u \in Int /\ m \in Int
  BY <1>1
<1> HIDE DEF u, m
<1>4. IsDivision(u, p, m, r)
  BY <1>1, <1>2, <1>3 DEF IsDivision
<1>5. u \div p = m /\ u % p = r
  BY <1>4, DivisionIs
<1> QED
  BY <1>5 DEF u, m, q, r

LEMMA WrapShifted ==
  ASSUME NEW n \in Int
  PROVE  Muldiv!Wrap(n + Two(W)) = Muldiv!Wrap(n)
<1>1. Two(W) \in Nat \ {0} /\ 1 * Two(W) = Two(W)
  BY WordIs
<1>2. (n + 1 * Two(W)) % Two(W) = n % Two(W)
  BY <1>1, ShiftedQuotient
<1> QED
  BY <1>1, <1>2, WrapIs

\* The upper half of an unsigned product is a word.
LEMMA UpperHalf ==
  ASSUME NEW a \in Muldiv!Word, NEW b \in Muldiv!Word
  PROVE  (a * b) \div Two(W) \in Nat /\ (a * b) \div Two(W) < Two(W) /\ a * b \in Nat
<1> DEFINE p == Two(W)
           q == (a * b) \div p
           r == (a * b) % p
<1>1. p \in Nat \ {0} /\ a \in Nat /\ b \in Nat /\ a < p /\ b < p
  BY WordInt, WordIs
<1> HIDE DEF p
<1>2. a * b \in Nat
  BY <1>1
<1>3. q \in Int /\ r \in 0..p - 1 /\ a * b = p * q + r
  BY <1>1, <1>2, Division
<1> HIDE DEF q, r
<1>4. p * q = q * p /\ q * p \in Int
  BY <1>1, <1>3
<1>5. a * b <= p * p
  <2>1. a * b <= p * b
    BY <1>1, ProductGrows
  <2>2. b * p <= p * p /\ b * p = p * b
    BY <1>1, ProductGrows
  <2>3. p * b \in Int /\ p * p \in Int
    BY <1>1
  <2> QED
    BY <1>2, <2>1, <2>2, <2>3
<1>6. ~(q < 0)
  <2>1. q < 0 => q * p + p <= 0 * p
    BY <1>1, <1>3, QuotientOrder
  <2>2. 0 * p = 0
    BY <1>1
  <2> QED
    BY <1>1, <1>2, <1>3, <1>4, <2>1, <2>2
<1>7. ~(p <= q)
  <2>1. ASSUME p <= q PROVE FALSE
    <3>1. q \in Nat
      BY <1>1, <1>3, <2>1
    <3>2. p * p <= q * p
      BY <1>1, <2>1, <3>1, ProductGrows
    <3>3. a * b < p * p
      <4>1. a * b <= p * b
        BY <1>1, ProductGrows
      <4>2. b * p + p <= p * p
        BY <1>1, QuotientOrder
      <4>3. b * p = p * b /\ p * b \in Int /\ p * p \in Int
        BY <1>1
      <4> QED
        BY <1>1, <1>2, <4>1, <4>2, <4>3
    <3>4. p * p \in Int
      BY <1>1
    <3> QED
      BY <1>1, <1>2, <1>3, <1>4, <3>2, <3>3, <3>4
  <2> QED
    BY <2>1
<1> QED
  BY <1>1, <1>2, <1>3, <1>6, <1>7 DEF q, p

\* What the loop leaves in r10 is corrected for the signs.
LEMMA SignedProduct ==
  ASSUME NEW a \in Muldiv!Word, NEW b \in Muldiv!Word
  PROVE  LET q == (a * b) \div Two(W)
         IN /\ (Muldiv!Signed(a) * b) \div Two(W)
                 = q - (IF Muldiv!Negative(a) THEN b ELSE 0)
            /\ Muldiv!Wrap((Muldiv!Signed(a) * Muldiv!Signed(b)) \div Two(W))
                 = Muldiv!Wrap(q - (IF Muldiv!Negative(a) THEN b ELSE 0)
                                 - (IF Muldiv!Negative(b) THEN a ELSE 0))
<1> DEFINE p == Two(W)
           n == a * b
           q == n \div p
<1>1. p \in Nat \ {0} /\ a \in Int /\ b \in Int
  BY WordInt, WordIs
<1>2. n \in Int
  BY <1>1
<1>3. q \in Int
  BY <1>1, <1>2, Division
<1>4. \A k \in Int : (n + k * p) \div p = q + k
  <2> HIDE DEF p, n
  <2> QED
    BY <1>1, <1>2, ShiftedQuotient
<1>5. \A k \in Int : Muldiv!Wrap(k + p) = Muldiv!Wrap(k)
  BY WrapShifted
<1>6. /\ Muldiv!Signed(a) = IF Muldiv!Negative(a) THEN a - p ELSE a
      /\ Muldiv!Signed(b) = IF Muldiv!Negative(b) THEN b - p ELSE b
  BY SignedIs
<1> HIDE DEF p
<1>7. /\ (a - p) * b = n + (-b) * p
      /\ a * (b - p) = n + (-a) * p
      /\ (a - p) * (b - p) = n + (p - a - b) * p
  BY <1>1
<1> HIDE DEF n, q
<1>8. /\ ((a - p) * b) \div p = q - b
      /\ (a * (b - p)) \div p = q - a
      /\ ((a - p) * (b - p)) \div p = (q - b - a) + p
  <2>1. -b \in Int /\ -a \in Int /\ p - a - b \in Int
    BY <1>1
  <2>2. q + (-b) = q - b /\ q + (-a) = q - a /\ q + (p - a - b) = (q - b - a) + p
    BY <1>1, <1>3
  <2>3. (n + (-b) * p) \div p = q + (-b)
    BY <1>4, <2>1
  <2>4. (n + (-a) * p) \div p = q + (-a)
    BY <1>4, <2>1
  <2>5. (n + (p - a - b) * p) \div p = q + (p - a - b)
    BY <1>4, <2>1
  <2> QED
    BY <1>7, <2>2, <2>3, <2>4, <2>5
<1>9. (Muldiv!Signed(a) * b) \div p = q - (IF Muldiv!Negative(a) THEN b ELSE 0)
  <2>1. CASE Muldiv!Negative(a)
    BY <1>6, <1>8, <2>1
  <2>2. CASE ~Muldiv!Negative(a)
    <3>1. (a * b) \div p = q /\ q - 0 = q
      BY <1>3 DEF q, n
    <3> QED
      BY <1>6, <2>2, <3>1
  <2> QED
    BY <2>1, <2>2
<1>10. Muldiv!Wrap((Muldiv!Signed(a) * Muldiv!Signed(b)) \div p)
         = Muldiv!Wrap(q - (IF Muldiv!Negative(a) THEN b ELSE 0)
                         - (IF Muldiv!Negative(b) THEN a ELSE 0))
  <2>0. q - b - 0 = q - b /\ q - 0 - a = q - a /\ q - 0 - 0 = q /\ q - b - a \in Int
    BY <1>1, <1>3
  <2>1. CASE Muldiv!Negative(a) /\ Muldiv!Negative(b)
    <3>1. Muldiv!Wrap((q - b - a) + p) = Muldiv!Wrap(q - b - a)
      BY <1>5, <2>0
    <3> QED
      BY <1>6, <1>8, <2>1, <3>1
  <2>2. CASE Muldiv!Negative(a) /\ ~Muldiv!Negative(b)
    BY <1>6, <1>8, <2>0, <2>2
  <2>3. CASE ~Muldiv!Negative(a) /\ Muldiv!Negative(b)
    BY <1>6, <1>8, <2>0, <2>3
  <2>4. CASE ~Muldiv!Negative(a) /\ ~Muldiv!Negative(b)
    <3>1. (a * b) \div p = q
      BY DEF q, n
    <3> QED
      BY <1>6, <2>0, <2>4, <3>1
  <2> QED
    BY <2>1, <2>2, <2>3, <2>4
<1> QED
  BY <1>9, <1>10 DEF p, q, n

\* Every multiplication gives its product, or the upper half.
LEMMA MultiplyRight ==
  ASSUME NEW a \in Muldiv!Word, NEW b \in Muldiv!Word, NEW op \in Muldiv!MulOps
  PROVE  /\ Muldiv!Result(op, a, b) \in Muldiv!Defined(op, a, b)
         /\ Muldiv!Result(op, a, b) \in Muldiv!Word
         /\ Muldiv!Result("mul", a, b) \in Muldiv!Defined("muli", a, b)
<1> DEFINE q == (a * b) \div Two(W)
<1>0. a \in Int /\ b \in Int /\ Two(W) \in Nat \ {0} /\ Two(W) = Muldiv!Pow2[W]
  BY WordInt, WordIs DEF Two
<1>1. a * b \in Int /\ q \in Nat /\ q < Two(W)
  BY UpperHalf
<1>2. Muldiv!Product(a, b).r9 = Muldiv!Wrap(a * b) /\ Muldiv!Product(a, b).r10 = q
  BY <1>0, ProductIs, WrapIs
<1>3. /\ Muldiv!Result("mul", a, b) = Muldiv!Wrap(a * b)
      /\ Muldiv!Defined("mul", a, b) = {Muldiv!Wrap(a * b)}
      /\ Muldiv!Defined("muli", a, b) = {Muldiv!Wrap(a * b)}
  BY <1>2 DEF Muldiv!Result, Muldiv!DivOps, Muldiv!Defined
<1>4. /\ Muldiv!Result("mulxuu", a, b) = Muldiv!Wrap(q - 0 - 0)
      /\ Muldiv!Result("mulxsu", a, b)
           = Muldiv!Wrap(q - (IF Muldiv!Negative(a) THEN b ELSE 0) - 0)
      /\ Muldiv!Result("mulxss", a, b)
           = Muldiv!Wrap(q - (IF Muldiv!Negative(a) THEN b ELSE 0)
                           - (IF Muldiv!Negative(b) THEN a ELSE 0))
  BY <1>2 DEF Muldiv!Result, Muldiv!Upper, Muldiv!DivOps
<1>5. /\ Muldiv!Defined("mulxuu", a, b) = {q}
      /\ Muldiv!Defined("mulxsu", a, b) = {Muldiv!Wrap((Muldiv!Signed(a) * b) \div Two(W))}
      /\ Muldiv!Defined("mulxss", a, b)
           = {Muldiv!Wrap((Muldiv!Signed(a) * Muldiv!Signed(b)) \div Two(W))}
  BY <1>0 DEF Muldiv!Defined
<1>6. Muldiv!Wrap(q - 0 - 0) = q
  <2>1. q - 0 - 0 = q
    BY <1>1
  <2> QED
    BY <1>1, <2>1, WordWrapped
<1> DEFINE e == q - (IF Muldiv!Negative(a) THEN b ELSE 0)
           f == e - (IF Muldiv!Negative(b) THEN a ELSE 0)
<1>7. e - 0 = e /\ e \in Int /\ f \in Int
  BY <1>0, <1>1
<1>8. /\ (Muldiv!Signed(a) * b) \div Two(W) = e
      /\ Muldiv!Wrap((Muldiv!Signed(a) * Muldiv!Signed(b)) \div Two(W)) = Muldiv!Wrap(f)
  BY SignedProduct
<1>9. /\ Muldiv!Result("mulxsu", a, b) = Muldiv!Wrap(e)
      /\ Muldiv!Result("mulxss", a, b) = Muldiv!Wrap(f)
  BY <1>4, <1>7
<1> HIDE DEF e, f
<1>10. q \in Muldiv!Word /\ Muldiv!Wrap(a * b) \in Muldiv!Word
       /\ Muldiv!Wrap(e) \in Muldiv!Word /\ Muldiv!Wrap(f) \in Muldiv!Word
  <2>1. q \in Muldiv!Word
    BY <1>1, WordIs
  <2> QED
    BY <1>1, <1>7, <2>1, WordTypes
<1>11. op \in {"mul", "mulxuu", "mulxsu", "mulxss"}
  BY DEF Muldiv!MulOps
<1> HIDE DEF q
<1> QED
  BY <1>3, <1>4, <1>5, <1>6, <1>8, <1>9, <1>10, <1>11

\* The amount of a word, read with its sign.
LEMMA AbsIs ==
  ASSUME NEW x \in Muldiv!Word
  PROVE  /\ Muldiv!Abs(x) \in 0..Two(W - 1) /\ Muldiv!Abs(x) \in Muldiv!Word
         /\ Muldiv!Abs(x) = IF Muldiv!Signed(x) < 0 THEN -Muldiv!Signed(x) ELSE Muldiv!Signed(x)
         /\ Muldiv!Negative(x) <=> Muldiv!Signed(x) < 0
         /\ Muldiv!Abs(x) = 0 => x = 0
         /\ x = 0 => Muldiv!Abs(x) = 0
<1> DEFINE p == Two(W)
           h == Two(W - 1)
<1>1. p \in Nat \ {0} /\ h \in Nat \ {0} /\ p = 2 * h /\ Muldiv!Word = 0..p - 1
  BY WordIs
<1>2. x \in Nat /\ x < p
  BY WordInt
<1>3. /\ Muldiv!Negative(x) <=> x >= h
      /\ Muldiv!Signed(x) = IF Muldiv!Negative(x) THEN x - p ELSE x
  BY NegativeIs, SignedIs
<1>4. Muldiv!Abs(x) = IF Muldiv!Negative(x) THEN Muldiv!Wrap(-x) ELSE x
  BY DEF Muldiv!Abs
<1>5. ASSUME x >= h PROVE Muldiv!Wrap(-x) = p - x
  <2>1. p - x \in Nat /\ p - x < p /\ -x \in Int /\ -x + p = p - x
    BY <1>1, <1>2, <1>5
  <2>2. Muldiv!Wrap(p - x) = p - x
    BY <2>1, WordWrapped
  <2>3. Muldiv!Wrap(-x + Two(W)) = Muldiv!Wrap(-x)
    BY <2>1, WrapShifted
  <2> QED
    BY <2>1, <2>2, <2>3
<1> HIDE DEF p, h
<1>6. CASE x >= h
  <2>1. Muldiv!Abs(x) = p - x /\ Muldiv!Signed(x) = x - p /\ Muldiv!Negative(x)
    BY <1>3, <1>4, <1>5, <1>6
  <2>2. p - x \in 0..h /\ p - x \in 0..p - 1 /\ -(x - p) = p - x /\ x - p < 0 /\ x # 0 /\ p - x # 0
    BY <1>1, <1>2, <1>6
  <2> QED
    BY <1>1, <2>1, <2>2 DEF h
<1>7. CASE ~(x >= h)
  <2>1. Muldiv!Abs(x) = x /\ Muldiv!Signed(x) = x /\ ~Muldiv!Negative(x)
    BY <1>3, <1>4, <1>7
  <2>2. x \in 0..h /\ x \in 0..p - 1 /\ ~(x < 0)
    BY <1>1, <1>2, <1>7
  <2> QED
    BY <1>1, <2>1, <2>2 DEF h
<1> QED
  BY <1>6, <1>7

\* A quotient is no more than its dividend.
LEMMA QuotientBelow ==
  ASSUME NEW n \in Nat, NEW d \in Nat \ {0}
  PROVE  n \div d \in Nat /\ n \div d <= n
<1> DEFINE q == n \div d
           r == n % d
<1>1. q \in Int /\ r \in 0..d - 1 /\ n = d * q + r
  BY Division
<1> HIDE DEF q, r
<1>2. d * q = q * d /\ q * d \in Int
  BY <1>1
<1>3. ~(q < 0)
  <2>1. q < 0 => q * d + d <= 0 * d
    BY <1>1, QuotientOrder
  <2>2. 0 * d = 0
    OBVIOUS
  <2> QED
    BY <1>1, <1>2, <2>1, <2>2
<1>4. q <= q * d
  <2>1. q \in Nat /\ 1 <= d
    BY <1>1, <1>3
  <2>2. 1 * q <= d * q /\ 1 * q = q
    BY <2>1, ProductGrows
  <2> QED
    BY <1>2, <2>2
<1> QED
  BY <1>1, <1>2, <1>3, <1>4 DEF q

\* Every division gives its quotient, rounded to zero, and by zero some word.
LEMMA DivideRight ==
  ASSUME NEW a \in Muldiv!Word, NEW b \in Muldiv!Word, NEW op \in Muldiv!DivOps
  PROVE  /\ Muldiv!Result(op, a, b) \in Muldiv!Defined(op, a, b)
         /\ Muldiv!Result(op, a, b) \in Muldiv!Word
<1>0. a \in Nat /\ b \in Nat
  BY WordInt
<1>1. Muldiv!Result(op, a, b) = Muldiv!Divided(op, a, b)
  BY DEF Muldiv!Result
<1>2. CASE op = "divu"
  <2>1. Muldiv!Result(op, a, b) = Muldiv!Quotient(a, b)
    BY <1>1, <1>2 DEF Muldiv!Divided
  <2>2. Muldiv!Defined(op, a, b) = IF b = 0 THEN Muldiv!Word ELSE {a \div b}
    BY <1>2 DEF Muldiv!Defined
  <2>3. Muldiv!Quotient(a, b) \in Muldiv!Word
    BY <1>0, QuotientIsWord
  <2>4. b # 0 => Muldiv!Quotient(a, b) = a \div b
    BY QuotientIs
  <2> QED
    BY <2>1, <2>2, <2>3, <2>4
<1>3. CASE op = "div"
  <2> DEFINE q == Muldiv!Quotient(Muldiv!Abs(a), Muldiv!Abs(b))
             sa == Muldiv!Signed(a)
             sb == Muldiv!Signed(b)
             opposite == Muldiv!Negative(a) # Muldiv!Negative(b)
  <2>1. Muldiv!Result(op, a, b) = IF opposite THEN Muldiv!Wrap(-q) ELSE q
    BY <1>1, <1>3 DEF Muldiv!Divided
  <2>2. Muldiv!Defined(op, a, b)
          = IF b = 0 THEN Muldiv!Word ELSE {Muldiv!Wrap(Muldiv!Truncated(sa, sb))}
    BY <1>3 DEF Muldiv!Defined
  <2>3. /\ Muldiv!Abs(a) \in 0..Two(W - 1) /\ Muldiv!Abs(b) \in Nat
        /\ Muldiv!Abs(a) \in Muldiv!Word /\ Muldiv!Abs(b) \in Muldiv!Word
        /\ b # 0 => Muldiv!Abs(b) # 0
    BY AbsIs, WordInt
  <2>4. q \in Muldiv!Word /\ q \in Int
    <3>1. Muldiv!Abs(a) \in Int /\ Muldiv!Abs(b) \in Int
      BY <2>3, WordIs
    <3>2. q \in Muldiv!Word
      BY <3>1, QuotientIsWord
    <3> QED
      BY <3>2, WordInt
  <2>5. Muldiv!Result(op, a, b) \in Muldiv!Word
    <3>1. -q \in Int
      BY <2>4
    <3>2. Muldiv!Wrap(-q) \in Muldiv!Word
      BY <3>1, WordTypes
    <3> QED
      BY <2>1, <2>4, <3>2
  <2>6. ASSUME b # 0 PROVE Muldiv!Result(op, a, b) = Muldiv!Wrap(Muldiv!Truncated(sa, sb))
    <3>1. q = Muldiv!Abs(a) \div Muldiv!Abs(b)
      BY <2>3, <2>6, QuotientIs
    <3>2. q \in Nat /\ q < Two(W)
      BY <2>4, WordInt
    <3>3. /\ Muldiv!Abs(a) = IF sa < 0 THEN -sa ELSE sa
          /\ Muldiv!Abs(b) = IF sb < 0 THEN -sb ELSE sb
          /\ Muldiv!Negative(a) <=> sa < 0
          /\ Muldiv!Negative(b) <=> sb < 0
      BY AbsIs
    <3>4. opposite <=> (sa < 0) # (sb < 0)
      BY <3>3 DEF Muldiv!Negative
    <3> HIDE DEF q, sa, sb, opposite
    <3>5. Muldiv!Truncated(sa, sb)
            = IF (sa < 0) # (sb < 0)
              THEN -(Muldiv!Abs(a) \div Muldiv!Abs(b)) ELSE Muldiv!Abs(a) \div Muldiv!Abs(b)
      BY <3>3 DEF Muldiv!Truncated
    <3>6. Muldiv!Truncated(sa, sb) = IF opposite THEN -q ELSE q
      BY <3>1, <3>4, <3>5
    <3>7. Muldiv!Wrap(q) = q
      BY <3>2, WordWrapped
    <3> QED
      BY <2>1, <3>6, <3>7
  <2> QED
    BY <2>2, <2>5, <2>6
<1> QED
  BY <1>2, <1>3 DEF Muldiv!DivOps

\* Registers hold words, and r0 is zero.
RegistersInv == reg \in [Muldiv!Register -> Muldiv!Word] /\ reg["r0"] = 0

\* The registers after an instruction: its destination has one of some values.
GetsOneOf(C, values) ==
  \E x \in values : reg' = [r \in Muldiv!Register |-> IF r = C /\ r # "r0" THEN x ELSE reg[r]]

LEMMA EmulationConstants ==
  /\ Sources \subseteq Muldiv!Register \ {"sp"}
  /\ Destinations \subseteq Muldiv!Register \ {"sp", "gp"}
  /\ Immediates \subseteq Muldiv!Word
<1>1. Sources \subseteq Muldiv!Register /\ Destinations \subseteq Muldiv!Register
  BY KernelAssumption DEF Muldiv!RegisterAssumption
<1>2. "sp" \notin Sources /\ {"sp", "gp"} \cap Destinations = {}
  BY KernelAssumption
<1>3. Immediates \subseteq Muldiv!Word
  BY KernelAssumption DEF Muldiv!WidthAssumption
<1> QED
  BY <1>1, <1>2, <1>3

\* An operand is taken from the stack as the program has it in the register.
LEMMA OperandIs ==
  ASSUME RegistersInv, NEW A \in Sources
  PROVE  Muldiv!OnStack[A] = reg[A] /\ reg[A] \in Muldiv!Word
<1>1. A \in Muldiv!Register /\ A # "sp"
  BY EmulationConstants
<1>2. reg \in [Muldiv!Register -> Muldiv!Word] /\ reg["r0"] = 0
  BY DEF RegistersInv
<1>3. Muldiv!OnStack[A] = IF A = "r0" THEN 0 ELSE reg[A]
  BY <1>1, <1>2 DEF Muldiv!OnStack
<1> QED
  BY <1>1, <1>2, <1>3

\* The result comes into the register, and into no other.
LEMMA StoreIs ==
  ASSUME RegistersInv, NEW C \in Destinations, NEW x
  PROVE  Muldiv!Store(C, x)
           = [r \in Muldiv!Register |-> IF r = C /\ r # "r0" THEN x ELSE reg[r]]
<1>1. C \in Muldiv!Register \ {"sp", "gp"}
  BY EmulationConstants
<1>2. ASSUME NEW r \in Muldiv!Register
      PROVE  r \in Muldiv!Reloaded /\ r = C <=> r = C /\ r # "r0"
  BY <1>1 DEF Muldiv!Register, Muldiv!Reloaded, Muldiv!CallerSaved, Muldiv!Restored
<1> QED
  BY <1>2 DEF Muldiv!Store

LEMMA OneOfKeeps ==
  ASSUME RegistersInv, NEW C, NEW x \in Muldiv!Word,
         reg' = [r \in Muldiv!Register |-> IF r = C /\ r # "r0" THEN x ELSE reg[r]]
  PROVE  RegistersInv'
<1>1. "r0" \in Muldiv!Register
  BY DEF Muldiv!Register
<1>2. reg' \in [Muldiv!Register -> Muldiv!Word]
  BY DEF RegistersInv
<1>3. reg'["r0"] = 0
  BY <1>1 DEF RegistersInv
<1> QED
  BY <1>2, <1>3 DEF RegistersInv, Muldiv!Word

\* What an emulated instruction does.
Matches ==
  instruction'.op # "none" =>
    LET last == instruction'
        b == IF last.op = "muli" THEN last.IMM ELSE reg[last.B]
    IN  GetsOneOf(last.C, Muldiv!Defined(last.op, reg[last.A], b))

LEMMA MuliRight ==
  ASSUME RegistersInv, Muldiv!Muli
  PROVE  Matches /\ RegistersInv'
<1>1. PICK A \in Sources, B \in Destinations, IMM \in Immediates :
        /\ reg' = Muldiv!Store(B, Muldiv!Result("mul", Muldiv!OnStack[A], IMM))
        /\ instruction' = [op |-> "muli", A |-> A, B |-> B, C |-> B, IMM |-> IMM]
  BY DEF Muldiv!Muli
<1>2. Muldiv!OnStack[A] = reg[A] /\ reg[A] \in Muldiv!Word /\ IMM \in Muldiv!Word
  BY OperandIs, EmulationConstants
<1> DEFINE x == Muldiv!Result("mul", reg[A], IMM)
<1>3. x \in Muldiv!Defined("muli", reg[A], IMM) /\ x \in Muldiv!Word
  <2>1. "mul" \in Muldiv!MulOps
    BY DEF Muldiv!MulOps
  <2> QED
    BY <1>2, <2>1, MultiplyRight
<1>4. reg' = Muldiv!Store(B, x)
  BY <1>1, <1>2
<1> HIDE DEF x
<1>5. reg' = [r \in Muldiv!Register |-> IF r = B /\ r # "r0" THEN x ELSE reg[r]]
  BY <1>4, StoreIs
<1>6. GetsOneOf(B, Muldiv!Defined("muli", reg[A], IMM))
  BY <1>3, <1>5 DEF GetsOneOf
<1>7. instruction'.op = "muli" /\ instruction'.A = A /\ instruction'.C = B /\ instruction'.IMM = IMM
  BY <1>1
<1>8. Matches
  BY <1>6, <1>7 DEF Matches
<1>9. RegistersInv'
  BY <1>3, <1>5, OneOfKeeps
<1> QED
  BY <1>8, <1>9

LEMMA RTypeRight ==
  ASSUME RegistersInv, Muldiv!RType
  PROVE  Matches /\ RegistersInv'
<1>1. PICK op \in Muldiv!MulOps \cup Muldiv!DivOps, A \in Sources, B \in Sources,
           C \in Destinations :
        /\ reg' = Muldiv!Store(C, Muldiv!Result(op, Muldiv!OnStack[A], Muldiv!OnStack[B]))
        /\ instruction' = [op |-> op, A |-> A, B |-> B, C |-> C, IMM |-> 0]
  BY DEF Muldiv!RType
<1>2. /\ Muldiv!OnStack[A] = reg[A] /\ reg[A] \in Muldiv!Word
      /\ Muldiv!OnStack[B] = reg[B] /\ reg[B] \in Muldiv!Word
  BY OperandIs
<1> DEFINE x == Muldiv!Result(op, reg[A], reg[B])
<1>3. x \in Muldiv!Defined(op, reg[A], reg[B]) /\ x \in Muldiv!Word
  <2>1. CASE op \in Muldiv!MulOps
    BY <1>2, <2>1, MultiplyRight
  <2>2. CASE op \in Muldiv!DivOps
    BY <1>2, <2>2, DivideRight
  <2> QED
    BY <2>1, <2>2
<1>4. reg' = Muldiv!Store(C, x)
  BY <1>1, <1>2
<1> HIDE DEF x
<1>5. reg' = [r \in Muldiv!Register |-> IF r = C /\ r # "r0" THEN x ELSE reg[r]]
  BY <1>4, StoreIs
<1>6. GetsOneOf(C, Muldiv!Defined(op, reg[A], reg[B]))
  BY <1>3, <1>5 DEF GetsOneOf
<1>7. /\ instruction'.op = op /\ instruction'.A = A /\ instruction'.B = B /\ instruction'.C = C
      /\ op # "muli"
  BY <1>1 DEF Muldiv!MulOps, Muldiv!DivOps
<1>8. Matches
  BY <1>6, <1>7 DEF Matches
<1>9. RegistersInv'
  BY <1>3, <1>5, OneOfKeeps
<1> QED
  BY <1>8, <1>9

LEMMA LoadRight ==
  ASSUME RegistersInv, Muldiv!Load
  PROVE  Matches /\ RegistersInv'
<1>1. PICK r \in Sources \ {"r0"}, x \in Muldiv!Word :
        reg' = [reg EXCEPT ![r] = x] /\ instruction' = Muldiv!None
  BY DEF Muldiv!Load
<1>2. Matches
  BY <1>1 DEF Matches, Muldiv!None
<1>3. RegistersInv'
  <2>1. "r0" \in Muldiv!Register /\ r # "r0"
    BY DEF Muldiv!Register
  <2>2. reg' \in [Muldiv!Register -> Muldiv!Word] /\ reg'["r0"] = 0
    BY <1>1, <2>1 DEF RegistersInv
  <2> QED
    BY <2>2 DEF RegistersInv, Muldiv!Word
<1> QED
  BY <1>2, <1>3

LEMMA RegistersStart == Muldiv!Init => RegistersInv
<1> SUFFICES ASSUME Muldiv!Init PROVE RegistersInv
  OBVIOUS
<1>1. reg = [r \in Muldiv!Register |-> 0]
  BY DEF Muldiv!Init
<1>2. 0 \in Muldiv!Word /\ "r0" \in Muldiv!Register
  BY WordIs DEF Muldiv!Register
<1> QED
  BY <1>1, <1>2 DEF RegistersInv

LEMMA RegistersStep ==
  ASSUME RegistersInv, [KernelNext]_kernel
  PROVE  RegistersInv' /\ [Matches]_(Muldiv!vars)
<1>1. Muldiv!Next \/ UNCHANGED Muldiv!vars
  BY DEF KernelNext, kernel, muldiv, Muldiv!vars
<1>2. CASE Muldiv!Next
  BY <1>2, MuliRight, RTypeRight, LoadRight DEF Muldiv!Next
<1>3. CASE UNCHANGED Muldiv!vars
  BY <1>3 DEF RegistersInv, Muldiv!vars, Muldiv!Word
<1> QED
  BY <1>1, <1>2, <1>3

\* alt_exception_muldiv.S:60, "The emulations match the instructions": for every width
\* of a word, all operands and all registers but sp and gp.
THEOREM EmulationRight == KernelSpec => MatchesInstruction
<1>1. KernelInit => RegistersInv
  BY RegistersStart DEF KernelInit
<1>2. RegistersInv /\ [KernelNext]_kernel => RegistersInv'
  BY RegistersStep
<1>3. RegistersInv /\ [KernelNext]_kernel => [Matches]_(Muldiv!vars)
  BY RegistersStep
<1>4. MatchesInstruction <=> [][Matches]_(Muldiv!vars)
  BY DEF MatchesInstruction, Muldiv!MatchesInstruction, Matches, GetsOneOf
<1> QED
  BY <1>1, <1>2, <1>3, <1>4, PTL DEF KernelSpec
=============================================================================
