----------------------------- MODULE MC_Library -----------------------------
(***************************************************************************)
(* The parts of the board support package that a program calls and that    *)
(* keep no state in common: one of them runs in every behaviour, and the   *)
(* others stay as they start.  All sizes are parameters, and the theorems  *)
(* hold for all of them; the list gives those of the configuration.        *)
(*   heap     HAL_HEAP, on an unaligned heap of six words                  *)
(*   files    HAL_FILES: two free descriptors beside the standard three,   *)
(*            the polled JTAG UART, a device whose driver may refuse, a    *)
(*            file system, and the names of all of them and of nothing     *)
(*   names    its search for names: all names of up to four characters     *)
(*            against two entries of up to three, with any byte behind     *)
(*   printf   HAL_PRINTF: all formats of four characters, words of 8 bits  *)
(*   log      HAL_LOG: all texts a little longer than what is echoed       *)
(*   records  HAL_PROFILE: two functions and an interrupt routine          *)
(*   slabs    HAL_SLAB, the memory behind it                               *)
(*   caches   HAL_CACHE: three lines, of which two share a place, used     *)
(*            through the cache and around it, or for code that is         *)
(*            written, published and executed                              *)
(***************************************************************************)
EXTENDS HAL_HEAP, SequencesExt

CONSTANTS
  ALT_MAX_FD, Devices, Stdio, Names, OpenModes, OpenFlags, Settable,  \* of HAL_FILES
  Characters, MaxEntry, MaxName,  \* what names are made of, and how long they get
  Nibbles, Alphabet, Numbers, MaxLen,  \* of HAL_PRINTF
  Memory, LINE_SIZE, CACHE_SIZE,  \* of HAL_CACHE
  Functions, MaxCalls,            \* of HAL_PROFILE
  INCREMENT, BYTES_PER_BUCKET, Records, TextSizes,  \* of HAL_SLAB
  Rates, EchoLen, Divisor, Texts  \* of HAL_LOG

VARIABLES part,
  alt_dev_list, alt_fs_list, alt_fd_list, alt_max_fd, phase, held, last,
  name, list, garbage,
  fmt, number, log, alt, field, common,
  level, log_rate, alt_log_sys_clk_count, due, log_started, printed, log_written, quiet, interval,
  entries, chain, arcs, pcsample_need_init, tick_rate, started, mcount_irq_off, at, regs, calls, made,
  brk, owned, mcount_slab_ptr, mcount_slab_size, etext, written,
  mem, dcache, icache, uncached, code, pending, flushda, uses

Files == INSTANCE HAL_FILES WITH Flags <- OpenFlags

Printf == INSTANCE HAL_PRINTF

Log == INSTANCE HAL_LOG WITH
  rate <- log_rate, started <- log_started, written <- log_written

Profile == INSTANCE HAL_PROFILE WITH rate <- tick_rate, irq_off <- mcount_irq_off

Slab == INSTANCE HAL_SLAB WITH Texts <- TextSizes

Cache == INSTANCE HAL_CACHE WITH Size <- Memory, WholeLines <- TRUE

ASSUME LibraryAssumption ==
  /\ Files!FilesAssumption /\ Printf!PrintfAssumption /\ Log!LogAssumption
  /\ Profile!ProfileAssumption /\ Slab!SlabAssumption /\ Cache!CacheAssumption
  /\ Files!NUL \notin Characters /\ MaxEntry \in Nat /\ MaxName \in Nat

-----------------------------------------------------------------------------
\* The configuration: devices and names of the program.
Uart == [name |-> <<"u">>, fs |-> FALSE, ops |-> {"read", "write"}]
Lcd == [name |-> <<"l">>, fs |-> FALSE, ops |-> {"open", "close", "write", "ioctl", "lseek"}]
Rom == [name |-> <<"r">>, fs |-> TRUE, ops |-> {"open", "read", "fstat"}]
MCDevices == {Uart, Lcd, Rom}
MCNames == {<<"u">>, <<"l">>, <<"r", "/", "u">>, <<"x">>}
MCStdio == <<"u">>
MCTexts == BoundedSeq({"a", "^D", "0"}, 4)

-----------------------------------------------------------------------------
\* The variables of the parts.
files == <<alt_dev_list, alt_fs_list, alt_fd_list, alt_max_fd, phase, held, last>>
names == <<name, list, garbage>>
console == <<fmt, number, log, alt, field, common>>
logging == <<level, log_rate, alt_log_sys_clk_count, due, log_started, printed, log_written,
             quiet, interval>>
records == <<entries, chain, arcs, pcsample_need_init, tick_rate, started, mcount_irq_off,
             at, regs, calls, made>>
slabs == <<brk, owned, mcount_slab_ptr, mcount_slab_size, etext, written>>
caches == <<mem, dcache, icache, uncached, code, pending, flushda, uses>>
library == <<part, vars, files, names, console, logging, records, slabs, caches>>

Strings(n) == UNION {[1..k -> Characters] : k \in 1..n}
NamesInit ==
  /\ name = <<>> /\ garbage \in Characters \cup {Files!NUL}
  /\ \E a, b \in Strings(MaxEntry) : list = <<[name |-> a], [name |-> b]>>
Longer ==
  /\ Len(name) < MaxName /\ \E c \in Characters : name' = Append(name, c)
  /\ UNCHANGED <<list, garbage>>

\* The parts that do not run have one initial state.
LibraryInit ==
  /\ part \in {"heap", "files", "names", "printf", "log", "records", "slabs", "caches"}
  /\ Init /\ Files!Init /\ Profile!Init
  /\ IF part = "names" THEN NamesInit ELSE name = <<>> /\ list = <<>> /\ garbage = Files!NUL
  /\ Printf!Init /\ (part # "printf" => number = CHOOSE n \in Numbers : TRUE)
  /\ Log!Init /\ (part # "log" => level = 0 /\ log_rate = 0)
  /\ Slab!Init /\ (part # "slabs" => etext = CHOOSE n \in TextSizes : TRUE)
  /\ Cache!Init /\ (part # "caches" => flushda /\ uses = "alias")

LibraryNext ==
  /\ UNCHANGED part
  /\ IF part = "heap" THEN Next ELSE UNCHANGED vars
  /\ IF part = "files" THEN Files!Next ELSE UNCHANGED files
  /\ IF part = "names" THEN Longer ELSE UNCHANGED names
  /\ IF part = "printf" THEN Printf!Next ELSE UNCHANGED console
  /\ IF part = "log" THEN Log!Next ELSE UNCHANGED logging
  /\ IF part = "records" THEN Profile!Next ELSE UNCHANGED records
  /\ IF part = "slabs" THEN Slab!Next ELSE UNCHANGED slabs
  /\ IF part = "caches" THEN Cache!Next ELSE UNCHANGED caches

LibrarySpec == LibraryInit /\ [][LibraryNext]_library

-----------------------------------------------------------------------------
\* The pool of descriptors stays in order through every sequence of calls and
\* failures, those of start-up included: above the standard three exactly what
\* the program holds is allocated, the standard three always have a device, and
\* the high-water mark by which alt_file_locked searches is above all of them.
PoolIsSound ==
  part = "files" =>
    Files!TypeOK /\ Files!NoLeak /\ Files!StandardUsable /\ Files!BelowHighWater

\* While a descriptor is locked no other is opened for its device, and between
\* open and close a descriptor keeps its device and its access mode.
LocksAndModesKept == Files!LockKeepsOut /\ Files!ModeIsKept

\* alt_find_dev finds exactly the name, and alt_find_file the mount point, with
\* or without a slash at its end, that is the name or continued in it by a slash:
\* never just the same beginning, and never by what lies behind a shorter name.
NamesAreExact ==
  LET first(Test(_)) == Files!FirstMatch(list, Test)
      Stem(mount) == SubSeq(mount, 1, Files!MountLength(mount))
  IN part = "names" =>
       /\ Files!FindDev(name, list, garbage) = first(LAMBDA d : d.name = name)
       /\ Files!FindFile(name, list, garbage) =
            first(LAMBDA d : IsPrefix(Stem(d.name) \o <<"/">>, name \o <<"/">>))

\* What the console prints for a number reads back as that number, in a field as
\* wide as asked for, and both printing functions agree where they can.
PrintedIsMeant ==
  part = "printf" =>
    Printf!TypeOK /\ Printf!NumbersReadBack /\ Printf!FieldsKeepWidth /\ Printf!BothAgree

\* The log prints what its level lets it, its reports do not stop and the clock's
\* come at their interval and a tick, and of what a program writes the beginning is
\* echoed, but for one character, with every Ctrl-D escaped.
LogIsSound ==
  part = "log" =>
    /\ Log!TypeOK /\ Log!LevelsGrow /\ Log!ReportsGoOn
    /\ Log!ClockReports /\ Log!EchoIsExact

\* Profiling loses no record and counts no arc too often, with mcount interrupting
\* itself anywhere; its pieces of memory are its own; and its samples stay in the
\* histogram, but for the last two bytes of a text that is no whole number of buckets.
ProfileIsSound ==
  /\ part = "records" => Profile!TypeOK /\ Profile!NothingUnlinked /\ Profile!ArcsAreKnown
  /\ part = "slabs" => Slab!PiecesApart /\ Slab!SamplesInBuffer

\* Data read back as they were last written, through the cache or around it, and
\* published code is executed as it was written.
CachesAreCoherent == part = "caches" => Cache!ReadsLatest /\ Cache!FetchesLatest
=============================================================================
