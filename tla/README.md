# A TLA+ model of the DES accelerator and its board support package

The repository is a DES encryption core in Verilog, pipelined over its 16
rounds, wrapped as an Avalon-MM peripheral of a Nios II system on a DE2 board,
with a C program that drives it and the board support package (the HAL) that
the program runs on. This directory holds their specification: one module per
component, the configurations TLC checks, and proofs for TLAPS.

    tlc -config MC_Core.cfg MC_Core          # model checking
    tlapm DES_SYSTEM_proofs.tla              # proofs

## 1. Inventory

### The accelerator

| component | source | state | operations |
|---|---|---|---|
| combinational blocks | `IP.v`, `IP_1.v`, `PC_1.v`, `PC_2.v`, `SHIFT_LEFT_*.v`, `E_MATRIX.v`, `E_XOR_KEY.v`, `S_BOX.v`, `P_MATRIX.v`, `F_FUNCTION.v` | none | functions of words |
| pipelined core | `DES_ALGORITHM.v` | 17 stages of `L_reg`, `R_reg`, `C_reg`, `D_reg`, `Valid_reg` | clock edge, asynchronous reset |
| register file | `DES_AVALON_WRAPPER.v` | `plaintext_reg`, `key_reg`, `start_reg`, `done_reg`, the core | write to one of 8 addresses, cycle without a write, read, reset |
| program | `software/DES/source.c` | where `main` is, what it has read | four stores of operands, the store of Start, the polling loop, two loads, the comparison |
| system | `system.qsys`, `DES_hw.tcl`, generated interconnect | resets, a read in progress | board reset, debug reset, bus cycles |
| round controller | `DES_CONTROL.v` | `Pre_state`, `Counter` | clock edge, reset (no longer instantiated) |
| legacy iterative datapath | `ROUND_KEY.v`, `REGISTER_*.v`, `MUX2_1*.v`, `XOR_FUNCTION.v`, `*.bak` | - | cannot be elaborated |
| top level, constraints, scripts | `DE2_TOP.v`, `TIMING.sdc`, `*.py` | - | - |

How they interact. The program stores the operands in four writes, writes Start,
polls Done and reads the ciphertext in two loads. Each access is a bus cycle of
the register file (a write takes one cycle, a read two: `writeWaitTime 0`,
`readWaitTime 1` in `DES_hw.tcl`). At every clock edge the core samples the
operand registers and Start and moves all stages on. The core's Done is a pulse
of one cycle, which the register file is to keep for the program. The clock and
the board's reset reach everything; the debug module's reset (used to load and
restart a program) reaches the processor but not the accelerator
(`system.qsys:306-316` against line 380, and `system/synthesis/system.v:409-411`).

What is hard here:

* up to 17 blocks are in flight, each with a key of its own, and there is no
  stall: data, key halves and the valid bit must move together;
* operands are written in halves into registers that the pipeline samples all
  the time, and the ciphertext is not latched: whatever is in the operand
  registers comes out 17 edges later;
* Done is a pulse, caught only in a cycle without a bus write; Start is cleared
  only in a cycle without a bus write;
* the processor may restart while the accelerator works on;
* the program waits without a timeout;
* more than 800 table entries are typed in by hand, in a bit numbering that runs
  against that of the standard.

What makes the components correct:

* blocks: the tables satisfy what the standard's design implies (section 4);
* core: each block comes out once, 16 edges after the stage-0 edge, enciphered
  under its own key and marked by Done, and nothing else is marked;
* register file: under the protocol of the program, one request gives one
  answer, and the answer stays readable;
* system: `main` ends, with the verdict that its own constants deserve, wherever
  the resets strike;
* round controller: sixteen rounds an operation, each with its own rotation.

### The board support package

Sources are below `software/DES_bsp`; `HAL/src` and `HAL/inc` unless another
directory is named.

| component | source | state | operations | what makes it correct |
|---|---|---|---|---|
| JTAG UART driver | `drivers/src/altera_avalon_jtag_uart_*.c`, the device `system_jtag_uart_0.v` | FIFOs and control register; two rings, enables, timeout | write, read, close, ioctl; interrupt routine; alarm | two lossless streams; no wake-up is lost; calls come back |
| files and descriptors | `alt_open.c`, `alt_close.c`, `alt_get_fd.c`, `alt_fd_lock.c`, `alt_dev.c`, `alt_find_*.c`, ... | pool, high-water mark, locks, lists of devices | every call on descriptors; registration, redirection | no descriptor leaks or is shared; names are exact |
| alarms | `alt_alarm_start.c`, `alt_tick.c`, `alt_llist.h` | linked list, ticks | start, stop, tick with callbacks | called back in the right tick across wraps |
| time and delays | `alt_gettod.c`, `alt_settod.c`, `alt_times.c`, `alt_busy_sleep.c` | offset, ticks | set and get the time; `usleep` | the time is the one set and what has passed, a delay as long as asked for |
| interrupts | `alt_irq_handler.c`, `alt_iic*.c`, `alt_legacy_irq.h`, `alt_irq.h` | handler table, masks, processor registers | register, enable, disable, dispatch, nest | no half-registered handler, nothing shut off for good |
| exceptions | `alt_exception_entry.S`, `alt_irq_entry.S`, `alt_exception_muldiv.S`, `alt_instruction_exception_entry.c` | exception stack, `ea`, `estatus` | entry, branches, emulation, return | every instruction once, in order, with its result |
| start-up and exit | `crt0.S`, `alt_load.c`, `alt_main.c`, `alt_do_*tors.c`, `alt_exit.c` | sections of memory | from reset to the spin of `_exit` | the data is fresh whenever a reset came, also where start-up itself writes it |
| heap | `alt_sbrk.c` | end of the heap | `sbrk` | blocks are disjoint and in the heap's region |
| profiling | `alt_gmon.c`, `alt_mcount.S` | records, slabs, histogram | `mcount`, the sampler | interruptible by itself |
| output and log | `alt_printf.c`, `alt_log_printf.c`, `alt_log_printf.h` | format state | print, echo, the clock's message | numbers read back; the echo is the text's |
| caches | `alt_dcache_flush*.c`, `alt_icache_flush.c`, `alt_remap_*.c`, `alt_uncached_*.c` | lines | flush, discard, remap | memory is coherent |
| DMA, flash, process stubs | `alt_dma_*.c`, `alt_flash_dev.c`, `alt_fork.c`, ... | - | - | not used on this board |

How they interact. `main` prints with `printf`, which ends in `write` on a descriptor;
the descriptor leads to the JTAG UART driver, the driver to the device, and the
host's debugger takes the bytes. `alt_main` registers the device and redirects the
three standard streams to it before `main`. The interrupt-driven driver registers
its routine with the interrupt code and its alarm with the alarm code; `alt_tick`
calls the alarms from the timer's interrupt; the exception entry leads to
`alt_irq_handler`. Profiling, where compiled in, allocates from `sbrk` behind the
program's back, at interrupt level too.

This build (`settings.bsp`, `system.h`, `Makefile`, `public.mk`) has a Nios II without
caches at 50 MHz, no system clock timer, the small (polled) JTAG UART driver, 32
descriptors, no operating system, no log, no profiling and no emulation of
instructions. What it leaves out is in the same files and is modelled as another
build would run it: the interrupt-driven driver, alarms and time, nesting,
emulation, profiling, log and caches. Each module says so.

What is hard here: rings shared with an interrupt routine without a lock; enables
that both sides change; counters that wrap; calls that shut interrupts off inside
one another; lists walked by callbacks that change them; failures in the middle
of `open`; resets that leave memory as it was; and code that runs between any two
instructions of other code.

## 2. Plan

Done, in the order the modules were written, with what composes what:

1. `DES_DATAPATH`, `DES_STANDARD`, `DES_ALGORITHM` (the core), then `DES_CORE` (the
   core with an environment) with its abstract specification `DES_ENGINE`; proved.
2. `DES_AVALON_WRAPPER` (extends the core), `DES_SESSION` (the register file under
   the program's protocol) with its abstract specification `DES_SERVICE`; proved.
3. `DES_SYSTEM` (program, bus timing, two resets); proved.
4. `DES_CONTROL`: the state machine, its 4-bit counter and the shift selection,
   against the number of rounds and the key schedule; proved.
5. `JTAG_UART` (the device), extended by `JTAG_UART_SMALL` and `JTAG_UART_FAST` (the two
   drivers), which both implement `JTAG_LINK`; proved, for every size of rings and FIFOs.
6. The rest of the HAL, one module for each row of the table above; proved.

Left:

1. The statement that the accesses of `main` between two debug resets follow the
   protocol of `DES_SESSION`.
2. The slave translator and the reset synchroniser of the generated
   interconnect, as far as the slave can tell, to replace the timing that
   `DES_SYSTEM` takes from `DES_hw.tcl`.

## 3. The modules and the code

**`DES_DATAPATH`** - one operator per combinational Verilog module, with the
module's name. A w-bit word is the set of the indices of its one bits, in the
Verilog numbering, so `^` is the symmetric difference, a concatenation of input
bits is `Concat(table, in)` and the table is read off the Verilog left to right.
A case table of `S_BOX.v` is a sequence of 64 numbers.

**`DES_STANDARD`** - the reference: a Feistel network over the same tables and
`F`, with round keys obtained from the key in one rotation (`TotalShift`), no
registers, and decryption with the round keys in reverse.

**`DES_ALGORITHM`** - the core. A stage is an index of the register arrays.
`Posedge(in)` is all always blocks at one rising edge, with the inputs `in`;
`Reset` the falling edge of `Reset_n`, at any time. `C_next`, `D_next`, `SubKey`,
`f_result` are the wires of round i, the 16 copies of them written once. `Rounds`
is 16 in the code; the parameter lets TLC interleave over short pipelines, and
the theorems hold for 1 to 16. History variable `block`: the inputs that a stage
holds, so that properties can say which block a result belongs to. It is never
read by the actions.

**`DES_CORE`** - the core on its own, with any of a set `Inputs` on its ports at
every edge.

**`DES_ENGINE`** - the core as its user sees it: a set of pending blocks with
their ages. `DES_CORE` implements it with the valid stages as the pending
blocks (`EngineSpec`).

**`DES_AVALON_WRAPPER`** - the register file; it extends `DES_ALGORITHM`, so that the
lemmas about the core apply to it. One step is one clock edge: `Write(address, d)` or
`NoWrite`, each together with `des_inst`, for the core samples the registers as they
were before the edge. `Readdata` is the combinational read multiplexer. History variable
`quiet`: edges since the last write to an operand register.

**`DES_SESSION`** - the same register file under the protocol of `source.c`:
`LoadOperand` (lines 49-53), `StartOperation` (58), `Poll` (63), any number of edges
in between (`SElsewhere`), repeated for ever, and resets. The master may run at any
pace. `request` remembers the operands Start was written with.

**`DES_SERVICE`** - what the protocol gives: ask, answer, withdraw, reset.

**`DES_SYSTEM`** - `main` access by access. `Stores` is its sequence of stores,
`ReadWait` and `PollStatus`/`ReadLow`/`ReadHigh` the two cycles of a load, `Verify`
line 76. `BoardReset` clears everything but the memory; `DebugReset` restarts the
processor with another program (another build of `main`) while the accelerator
keeps running. `Boot` is the time from a reset to the first store.

**`DES_CONTROL`** - the round controller, with one half of the key register that its
outputs steer: loaded, rotated by one or by two, or left alone.

**`JTAG_UART`** - the device as its two registers show it: FIFOs of numbered bytes,
the interrupt enables, the pause timer of the receive side, the sticky activity
bit, and a host that sends and takes bytes at any moment. `HostActs` is the
environment. A read of DATA takes two clocks: RVALID is latched at the first
(`system_jtag_uart_0.v:506`), RAVAIL is on the bus at the second (`:515`), and the host may
send a byte in between (`ReadData(late)`), so that RVALID may be 0 with RAVAIL above 0.

**`JTAG_UART_SMALL`** - the polled driver this board runs: one turn of a loop is a
step, or two where a register is read and then acted upon. Blocking reads and
writes, and `O_NONBLOCK` for reads.

**`JTAG_UART_FAST`** - the interrupt-driven driver: `pc` is the program inside `write`,
`read`, `close` or `ioctl`, `isr` the interrupt routine, and each step touches the
shared indices, enables and timeout once. Copying and publishing an index are
separate steps; a section with interrupts off is one step. `Timeout` is the alarm.
`IsrReceive` reads DATA with or without a late byte.

**`JTAG_LINK`** - what both promise: two bounded streams of numbered bytes.

**`HAL_FILES`** - the pool of descriptors and everything that goes through it, from the
registration of devices and the redirection before `main` on. A system call is one
step, for the HAL is single-threaded here and routines hold no descriptors; what a
driver's callback returns is any value it may return. `FindDev` and `FindFile` compare
bytes as `memcmp` does, past the end of the shorter string too.

**`HAL_ALARM`** - the list, with its links as two functions, `alt_alarm_start` and `stop`,
and `alt_tick` one alarm at a time, so that what a callback does to the list meets
the `next` that was read before. History: `registered`, `remaining`.

**`HAL_TIME`** - the arithmetic of `gettimeofday` and `settimeofday`, with words that wrap and
the product of `settimeofday` cut to one, and of the counted loops of `usleep`, with
their two end conditions, in clock cycles. History: `base` and `since`, the time set last
and the ticks since, and `exact`, whether the product was whole when it was set.

**`HAL_INTERRUPTS`** - `threads` is the stack of activations, the program at the bottom;
registration writes handler and context in two steps with interrupts off, through
calls that shut interrupts off themselves; `alt_irq_handler` reads the pending
lines again after each routine; routines let higher lines interrupt them.

**`HAL_EXCEPTIONS`**, **`HAL_MULDIV`** - the exception entry with its branches: interrupt,
emulation, handler of instruction exceptions, break; and the bit loops of the
emulated multiplications and divisions, with the slots of the stack frame from which
operands come and to which results go.

**`HAL_STARTUP`** - `crt0` and `alt_load` word by word, `alt_main` call by call, exit. A
word of the initialised data has its linked value, or is `Prepared` (what start-up
itself has written to it), `Changed` (by the program, which may change any) or `Stale`
(what a reset makes of that). `SysInit` writes the words of `DeviceWords` (the list of
devices and the links in their structures, through `alt_dev_reg`), `Redirect` those of
`FileWords` (the descriptors and `alt_max_fd`); whichever words those are, the theorem
holds.

**`HAL_HEAP`** - `sbrk` of the program step by step; that of a routine in one step.

**`HAL_PROFILE`**, **`HAL_SLAB`** - `mcount` and `__mcount_record` step by step, in the program
and in a routine that interrupts it; the memory behind them and the histogram, with
texts of any size.

**`HAL_PRINTF`**, **`HAL_LOG`** - the two formatting state machines, fed one character
at a time; the levels of the log, the echo of writes, the clock's message, the report.
History of `HAL_LOG`: `quiet` and `interval`, the ticks since the clock's last message
and between its last two.

**`HAL_CACHE`** - a direct-mapped cache that writes back, and an instruction cache. Of a
byte's copy it is kept only whether it is what was written last. A program either uses
memory around the data cache or writes code and executes it (`uses`).

Operators whose comment says "Slip" are deliberate mistakes, one per property:
put in place of the definition they stand by, they break that property. Nothing
uses them.

## 4. What the runs check

| run | instance | properties |
|---|---|---|
| `MC_Core` | 3 rounds; a block and its complement, a key and its complement, Start or not; resets at any edge | `KeyTravelsWithBlock`, `HalvesOfBlock`, `DoneDeliversEncryption`, `OutputDeciphers`, `ComplementsFollow`, `EngineSpec` |
| `MC_Accelerator` | *stream*: 16 rounds, 130 blocks in a row, no two neighbours with the same key, bubbles, a reset in mid-stream; *registers*: 2 rounds, any master, two values of each half; *boxes*, *words*: all 8 x 64 inputs of the S-boxes, words of at most two bits; *control*: the round controller with eight key halves | `StreamIsRight`, `TestbenchVector`, `QuietOperandsGiveResult`, `BoxesMeetCriteria`, `PermutationsFit`, `ScheduleFollowed`, `SixteenRounds` |
| `MC_Session` (module `DES_SESSION`) | 2 rounds; two values of each half; operations without end | `OneOperationAtATime`, `DoneMeansResult`, `RunEnds`, `ServiceSpec` |
| `MC_System` | 5 rounds; two programs, the second expecting the ciphertext of the first; two resets of either kind at any edge, any pace | `VerdictIsRight`, `ResultIsOwn`, `Ends` |
| `MC_Firmware` (module `MC_System`) | 16 rounds; the constants of `source.c`; two resets at any edge, no pauses | `NeverFails`, `Passes` |
| `MC_Console` | the polled driver and, in three settings, the interrupt-driven one | `BytesInOrder`, `LinkIsKept`, `CallsComeBack` |
| `MC_Kernel` | alarms, time, sleep, interrupts, exceptions, emulation, start-up | `AlarmsOnTime`, `TimeIsKept`, `InterruptsOrderly`, `ExceptionsInOrder`, `MatchesInstruction`, `StartsAfresh`, `FirstIsServed` |
| `MC_Library` | heap, files, names, printing, log, profiling, caches | `HeapIsSound`, `PoolIsSound`, `LocksAndModesKept`, `NamesAreExact`, `PrintedIsMeant`, `LogIsSound`, `ProfileIsSound`, `CachesAreCoherent` |

`MC_Accelerator`, `MC_Console`, `MC_Kernel` and `MC_Library` gather several subjects in one
run. A variable (`part`, `subject`) names the one that runs in a behaviour, and the
others stay as they start: as these parts are modelled they share no state, so that
nothing is lost by exploring them one at a time. Where they do meet, the effect of one
on another is in its module (an alarm in `JTAG_UART_FAST`, an allocating routine in
`HAL_HEAP`, a reset in `HAL_STARTUP`).

What they show:

* *Core.* A stage always holds its own block after that many rounds, under its
  own key. With three rounds every interleaving of two blocks, two keys, bubbles
  and resets is covered, both rotation amounts occur (rounds 1 and 2 by one,
  round 3 by two), and a pipeline of four stages holds every order of blocks that
  neighbours can have; longer pipelines repeat it. The single rotations at 9 and
  16 and the real depth are in the stream (`StreamIsRight`), which also meets the vector
  of `DES_TESTBENCH.v`. In both, two properties of DES that do not depend on a
  reference implementation are checked: what comes out can be deciphered, and
  complements come out as complements (which says nothing of the S-boxes' contents).
* *Register file.* Whatever the master does, the ciphertext registers show the
  encryption of the operand registers once these have been left alone for
  Rounds+1 edges, and nothing is promised before.
* *Protocol.* Under the protocol one block at most is marked at a time, Done never
  belongs to an earlier Start, the result can be read in two accesses until the
  next operand is written, and the polling loop ends.
* *System.* Nothing is left over from an interrupted run if the restarted one needs
  at least Rounds-4 cycles to its first store; a real start-up takes thousands.

* *Tables.* Each S-box has a permutation in every row and flips two output bits at
  least for one input bit, within its own nibble; the permutations undo or spread as
  the standard wants; every key bit takes part in 12 to 15 rounds. Since the
  permutations and the key schedule are linear, words of at most two bits determine
  them. The controller makes sixteen rounds although its counter wraps on the edge
  on which it stops.
* *Console.* With either driver the two streams are lossless and in order. In the
  interrupt-driven one `tx_in`, `tx_out`, `rx_in` and `rx_out` are shared without a lock:
  one slot stays free, an index is published after its bytes, and a kick follows
  each publication, so that the routine, which turns its own interrupt off when it
  finds the ring empty, never sleeps with bytes in it. Receive interrupts may be off with
  room in the ring, where a byte came too late for RVALID (`MC_Receive`), but only while
  the ring holds something to read, or a read that took some has not come to its end,
  which turns them on: a read that waits is never left alone. A blocking write comes
  back short only when the ring is full and the host has been silent.
* *Kernel.* Alarms are called in the tick in which they are due although the counter
  wraps and callbacks start alarms and drop their own; a handler is never called
  with half of its entry; sections stay closed under calls that shut interrupts off
  themselves; the line of the highest priority is served; each instruction is
  executed once whatever exceptions strike. The time of day is exact until the ticks in
  microseconds outgrow a word, and less than a second off after that; a delay is as
  long as asked for but for the rounding of the turns in a microsecond, and longer by what the
  big loops add. After a reset at any moment `alt_main` starts with the data as it was linked,
  the first constructor finds only what start-up has written itself changed, and nothing of
  an earlier run is ever found again. Callbacks that stop other alarms, the longest delay
  and routines that enable lines are left out of these statements (section 6).
* *Library.* Every sequence of calls on a pool that fills up, with drivers that refuse,
  leaves exactly the descriptors that the program holds; names never match by their
  beginning; numbers read back; what is echoed is, character by character, the beginning
  of the text; the clock's message comes every `rate + 1` ticks; profiling survives its
  own interruption, but for counts that are lost; the sampler keeps to its histogram
  where a text is a whole number of buckets, and goes two bytes past it where it is not.
  `HeapIsSound` speaks of the region of the heap, into which the stack grows from its
  end (`linker.x:375`, `:385`): that the two stay apart nothing in the code ensures.
  `CachesAreCoherent` speaks of blocks of whole lines. `LocksAndModesKept` is about what
  happens after a lock has been granted; that it is granted beside another descriptor
  (`alt_fd_lock.c:61`) is in section 6.

Four runs look for disagreements between comments and code and find them:

* `MC_Wrapper_DoneCaught`: `DES_AVALON_WRAPPER.v:45` says the Done pulse is caught.
  A write in that very cycle, to any address, loses it.
* `MC_Wrapper_StartClears`: `source.c:56` (and `DES_AVALON_WRAPPER.v:43`) say Start
  is cleared on the next clock. A write in the next cycle keeps it up, and the
  core accepts a second block.
* `MC_Receive` (module `JTAG_UART_FAST`): `altera_avalon_jtag_uart_init.c:158` says that
  bytes left in the FIFO mean a full ring. One that arrives while DATA is being read is
  left there with room in the ring, and receive interrupts are turned off.
* `MC_Alarm` (module `HAL_ALARM`, with `StopsOthers`): `alt_tick.c:61` says that a
  stopped alarm is off the list. If a callback stops the alarm that `alt_tick` has noted
  as the next (`:102`), the walk goes on to it, and round it, for it is linked to
  itself.

`source.c` on this processor meets neither of the first two: it writes nothing after
Start, and its accesses are several cycles apart. A driver that prepares the next block
while one runs, or a DMA master, would meet both. The others are met by builds with the
interrupt-driven driver, or with a system clock.

Another disagreement is static and has no run: `README.md:25-26` names
`DES_CONTROL.v` as the machine that manages the rounds, but no module of the
present design instantiates it.

### Bounds

* `Rounds` below 16 in `MC_Core`, the registers of `MC_Accelerator`, `MC_Session`, `MC_System`: the stages
  are alike but for the rotation amount, and the theorems of section 5 hold for
  every number of rounds. The interleavings of master and pipeline depend on
  the order of pulses, not on their distance.
* Two values per operand half are enough to tell a mixed operand from either
  of its origins.
* `BootCycles` is Rounds-4 in `MC_System` and `MC_Firmware`, the least that
  `BootAssumption` allows: with the four stores and the write of Start, an
  interrupted block has left the pipeline by the edge that clears its Done. With
  one cycle less `VerdictIsRight` fails, for a debug reset can hand the Done of the
  interrupted run to the next. Longer start-ups are covered in `MC_System` by its
  pauses. In the real system the C runtime and the `printf` of `source.c:48` take
  thousands of cycles, so the assumption holds with room to spare.
* `MaxResets` bounds the resets of one behaviour, for `Ends` and `Passes` need them
  to end. The theorems hold for every bound.
* `MC_Console`: FIFOs of one or two and rings of three, so that they fill up and their
  indices come round several times within three or four bytes; the threshold is one
  or none. One slot of the ring is never used, so a ring of three is the smallest in
  which two bytes wait. A byte more than ring and FIFO hold makes a write wait.
  The settings share the module and differ in how many bytes each side may send:
  both directions for the polled driver; for the other one the transmit side with
  `ioctl`, the receive side, and a silent host with timeouts. The timeout counts to 5 in place
  of `INT_MAX`: what matters is that a timeout is below, at or above it.
* `MC_Kernel`: two alarms on a counter of 6, in which a delay of 4 and a period of 5
  reach round and the flag for a wrap is set in every position; a clock with a
  second of 10 us and rates that divide it, in words of 6 bits, which the ticks in microseconds
  (up to 16 ticks of 2 or 5 us) pass, and times set on either side of a second, so that the
  difference of `settimeofday` is negative as often as positive; `usleep` with the
  board's frequency and words of 10 bits, of which the delays take several big loops,
  their multiples among them; three
  interrupt lines, for two can nest while a third is registered; an emulated and a
  failing instruction next to each other, three interrupts; multiplication and
  division for all operands of 3 bits, in `r0`, a register that the entry saves
  and one that the emulation saves; three words of data, one that neither part of start-up
  writes and one for each, two of bss, two constructors, two resets.
* `MC_Library`: a heap of six words that starts off a word; two descriptors beside the
  standard three, enough for one lock and one full pool; all names of up to four
  characters against two entries of up to three; formats of four characters, in
  which a field, its width and what follows fit, in words of 8 bits; two functions, four
  calls and a routine that may interrupt anywhere; slabs that hold two records of one size and
  waste a word on the other; text sections of two, of two and a half and of four
  buckets; texts to echo on either side of the echo length of three, up to four characters, with a
  Ctrl-D or a NUL in each place; clocks that are off, slower than the divisor of the
  log, and faster; caches of two lines on memory of three, in which
  two lines share a place and the last is cut short (five bytes), with either
  instruction for flushing.

### Fairness

The core and the register file are clocked and need none for their safety
properties. `RunEnds` needs that the program polls again and again: weak fairness
of `Poll`, justified by the loop of `source.c:63`, which does nothing else. `Ends` and
`Passes` need that the processor goes on until the verdict: weak fairness of its steps,
for it has no other task and no interrupt of its own. Both are stated with a
parity bit (`polls`, `steps`) that only those steps change, so that TLC need not
evaluate whether the step, with a DES round in it, is enabled; the step is possible
whenever the fairness formula asks for it. Done itself needs no fairness: each of
these steps is also a clock edge.

In the HAL only the parts whose liveness is stated have fairness:

* *Console.* The processor goes on in the driver and in the routine: weak fairness of
  `Driver` and `Isr`. A polled write needs a host that takes bytes, for it has no timeout,
  and so does a blocking write in the setting without silence: weak fairness of
  `HostTakes`, only there. With a host that may be away the alarm must go off again
  and again (`Timeout`, weak), and calls come back unless the host keeps showing signs of
  life: its activity bit resets the count.
* *Interrupts.* A processor looks for interrupts after every instruction, hence strong
  fairness of `Take`, since the program may shut interrupts off now and then. Routines end: weak
  fairness of their steps, strong of the last, `Acknowledge`, since a routine may open
  itself to others first. The program leaves its sections: strong, for it may make
  calls in them.

## 5. What is proved

`tlapm` on each module `*_proofs` checks the following, for every value of the
constants that their named assumptions allow; none fixes a size.

* Accelerator: `RoundsAssumption` (1 to 16 rounds), with the datapath as it is in the
  Verilog; `InputsAssumption` and `WriteDataAssumption` (what is driven and written are words of
  the right width), `ProgramsAssumption` (so are the constants of a program),
  `BootAssumption` (`BootCycles + 4 >= Rounds`, see the bounds above),
  `HalvesAssumption` (the key halves are 28 bits wide).
* Console: `ConsoleAssumption`, which joins those of the device and the drivers: a FIFO has
  a place, a ring two slots, and the default timeout is less than an infinite one.
* Kernel: `KernelAssumption`, which joins those of the modules and says what section 6
  is about: no routine enables lines itself, as in this build (`~NestingCalls`); no
  callback stops another alarm (`~StopsOthers`); no delay takes the tick counter all the
  way round; the handler of exceptions causes none itself (`ExceptionsAssumption`); tick
  rates divide a second and the count of ticks does not come round (`TimeAssumption`); a
  microsecond is a turn of the loop at least, and far less than a big loop
  (`SleepAssumption`); and no emulated instruction reads `sp`, or leaves its result in
  `sp` or `gp`.
* Library: `HeapAssumption` (the heap starts no later than it ends) and
  `LibraryAssumption`, which joins those of the other modules: names consist of
  characters other than NUL, there are more than the three standard descriptors, and a
  device is or is not a file system (`FilesAssumption`); sizes of texts are numbers
  (`SlabAssumption`); a cache is a whole number of lines; the numbers printed fit a word
  (`PrintfAssumption`). Blocks that a program remaps or discards are whole lines
  (`WholeLines`; section 6).

| module | theorem | statement |
|---|---|---|
| `DES_CORE_proofs` | `TypeCorrect` | `Spec => []CoreTypeOK` |
| | `KeysCorrect` | `Spec => []KeyTravelsWithBlock` |
| | `HalvesCorrect` | `Spec => []HalvesOfBlock` |
| | `DoneCorrect` | `Spec => []DoneDeliversEncryption` |
| | `DecipherCorrect` | `Spec => []OutputDeciphers` |
| | `ComplementsCorrect` | `Spec => []ComplementsFollow` |
| | `EngineCorrect` | `Spec => EngineSpec`: the core implements `DES_ENGINE` |
| `DES_SYSTEM_proofs` | `WrapperTypeCorrect` | `Spec => []TypeOK`, of the register file |
| | `QuietCorrect` | `Spec => []QuietOperandsGiveResult` |
| | `OneOperationCorrect` | `SSpec => []OneOperationAtATime` |
| | `ResultCorrect` | `SSpec => []DoneMeansResult` |
| | `ServiceCorrect` | `SSpec => ServiceSpec`: the protocol implements `DES_SERVICE` |
| | `VerdictCorrect` | `SysSpec => []VerdictIsRight` |
| | `OwnCorrect` | `SysSpec => []ResultIsOwn` |
| | `PassCorrect` | if every program expects the right ciphertext, `SysSpec => []NeverFails` |
| `DES_CONTROL_proofs` | `ControlTypeCorrect` | `Spec => []TypeOK` |
| | `ScheduleCorrect` | `Spec => []ScheduleFollowed` |
| | `RoundsCorrect` | `Spec => SixteenRounds` |
| `JTAG_UART_proofs` | `FastDriverSafe` | `Spec => []FastSafe`: order, wake-ups in both directions and the infinite timeout of the interrupt-driven driver |
| | `FastDriverLinks` | it implements `JTAG_LINK`, and comes back short only with a full ring |
| | `ConsoleBytes` | `ConsoleSpec => []BytesInOrder`, for both drivers |
| | `ConsoleLink` | `ConsoleSpec => LinkIsKept`: both implement `JTAG_LINK` |
| `HAL_KERNEL_proofs` | `AlarmsCorrect` | `KernelSpec => []AlarmsOnTime` |
| | `OrderlyInterrupts` | `KernelSpec => []InterruptsOrderly` |
| | `ProgramInOrder` | `KernelSpec => []ExceptionsInOrder` |
| | `FreshStart` | `KernelSpec => []StartsAfresh` |
| | `TimeKept` | `KernelSpec => []TimeIsKept` |
| | `EmulationRight` | `KernelSpec => MatchesInstruction` |
| `HAL_LIBRARY_proofs` | `HeapTypeCorrect` | `Spec => []TypeOK`, of the heap |
| | `HeapSound` | `Spec => []HeapIsSound`, which `MC_Library` checks as a part |
| | `PoolSound` | `LibrarySpec => []PoolIsSound` |
| | `LocksKept` | `LibrarySpec => LocksAndModesKept` |
| | `NamesExact` | `LibrarySpec => []NamesAreExact` |
| | `CachesCoherent` | `LibrarySpec => []CachesAreCoherent` |
| | `ProfileSound` | `LibrarySpec => []ProfileIsSound` |
| | `LogSound` | `LibrarySpec => []LogIsSound` |
| | `PrintedRight` | `LibrarySpec => []PrintedIsMeant` |

*Core.* The inductive invariant `StageInv` (`DES_ALGORITHM_proofs`) says that a valid
stage holds a block, and that a stage that holds one has that block's key halves and
data halves for its own round. None of the parts is inductive alone: the halves of
stage i need the round key of stage i-1, and Done needs that a valid stage holds a
block. The step of `Posedge` from stage i-1 to i rests on two lemmas of
`DES_STANDARD_proofs`: rotating by the amounts of the Verilog, round by round, gives
the rotation of the closed form (`RotateFurther`, with the table `TotalShift`
evaluated), and the recursive function `Halves` satisfies its defining equations
(`HalvesDef`). Its existence is proved by induction over the naturals for sets
(`SetInduction`), since the library's induction theorems take an operator as a
parameter. For the refinement the pending blocks of a clock edge are shown to be
the older ones, one cycle older, and the accepted one.

*Register file.* `WrapperInv` adds to `StageInv` that every stage younger than the
last operand write holds what the operand registers hold (`QuietStages`). When the
last stage is that young, its contents are the encryption of the registers.
`RunInv` is what holds from a write of Start on while nothing is written: one
block at most is on its way, it is no older than the operands' last write, and
once Done is up the pipeline is empty of valid blocks and the operands have been
left alone for its whole length. `RunStarts` establishes it when only the last stage
may still be valid (its Done is lost at the very edge that clears the flag),
`RunContinues` keeps it. This is why the program may read an output that is not
latched.

*Protocol.* `SessionInv`: nothing is on its way while operands are loaded, `RunInv`
holds from Start on, and the request is what the operand registers still hold. For
the refinement, `ServiceState` gives the state of the service in each case; a wait is
an answer exactly when the Done flag rises, and a stutter otherwise.

*System.* `SystemInv`: until Start is written, the blocks of an interrupted run are at
a stage no younger than the cycles since the restart (`OldBlocksLeave`, where the
assumption on `BootCycles` comes in), and what main has stored and read so far is
its own.

*Round controller.* Type invariant and `ScheduleFollowed` together are inductive: in
`S_PROCESS` the counter is the number of rotations done, and the half is the loaded one
rotated by the closed form of the schedule. The wrap of the counter falls on
the edge into `S_DONE`, where the schedule is complete. `SixteenRounds` is an action
property and follows from the invariant.

*Heap.* Disjointness is not inductive: a new block is apart from the old ones only
because all of these end where the heap ends. `HeapInv` says that blocks are handed out in
ascending order, all below the end of the heap (below its old end while the program
has noted it), and that with interrupts off, from the first step of the program's call
to its last, nobody else moves the end.

*Deciphering and complements.* `OutputDeciphers` follows from `DoneCorrect`'s argument and a fact
about the network alone (`DecryptUndoesEncrypt` in `DES_STANDARD_proofs`): `IP` and `IP_1` undo
one another, entry by entry; and a round with the same key takes a round back when the
halves are swapped, whatever `F` is, so that by induction over the rounds deciphering passes
through the same halves in the other direction. For complements, `F` is the same of a half
and a key that are both complemented, for the two meet in an exclusive or; every round
then complements its result.

*Console.* `FastInv` says where each byte is: `TxOrder` and `RxOrder` number the slots of a ring
by their distance from the index that leaves first. `TxWriter` and `RxReader` are about the copies
under way, where the routine may move its own index but not past what is published.
`Enables` says that what the driver has noted is what the device has enabled and that a sleeping
side has someone to wake it. `Patience` bounds the count of idle alarms. The remainders of the
indices are taken out once (`FollowingCases`, `StepCases`). `PolledInv` needs only that the room
seen is still there at the write, since nobody else fills the FIFO. In both the link's
step is the publication of a byte, and every other step a stutter.

*Alarms.* `AlarmInv` has two parts. The list: the links hold the registered alarms in a
ring (`IsList`), which is said without counting, as: no part of it that holds the head
is closed. Insertion and removal keep that (`InsertedIsList`, `RemovedIsList`), a second
removal changes nothing, and a walk as long as there are nodes meets all of it
(`ListSound`). The times: outside a tick every alarm is `Waiting`, its due time is now
and what remains, modulo the counter, and its flag tells whether that passes the wrap.
Within a tick there is a set of alarms still ahead of the loop (`Ahead`), which have
come a tick closer and are `Unseen`: their flag is yet to be cleared if the counter has
just wrapped. A callback may insert behind the loop or remove its own alarm, and both
leave the alarms ahead as they were.

*Interrupts.* `InterruptsInv`: the stack of activations has the program at the bottom and routines
above (`StackInv`); each routine has shut off what is not above its line, so that the levels rise
(`MaskInv`, `NestsByPriority`); interrupts are off wherever the entry of a line is half written
(`PieInv`, `TableInv`), which is why a routine never gets another's context.

*Exceptions.* `ExceptionsInv` gives, for each phase, what the exception stack holds,
where `ea` points and how many instructions are done. The three routes agree on when
`ea` counts the instruction, and that is the theorem.

*Start-up.* `StartupInv`: the words before the pointer of the clearing or copying loop
are in place and a reset puts the pointer back (`MemoryInv`); a word that is not stale
stays so, whoever writes it, until a reset; what has been called is a beginning of the
lists of constructors and destructors, whose length shows in the phase.

*Time.* `ClockInv`: what `settimeofday` has stored, together with the ticks, differs
from the time set and the ticks since (`Drift`) by nothing if the product was exact, and
otherwise by less than a second, for both remainders are below one; a tick moves both
sides alike, so that it stays so (`Kept`). Seconds and microseconds, which are computed
from the ticks apart, together are as long as the ticks are (`TicksSplit`); it fails for
a rate that does not divide a second. `NormalisedIs`: borrowing and carrying leave the
time as it is, and where `gettimeofday` gives up at second zero the time was below zero,
by less than the drift allows (`ReadsDrift`).
*Delays.* No invariant, since a delay is a function of its argument: no product of a
loop's turns overflows (`TurnsAre`), after which the two end conditions are compared,
zero being a word of turns for one of them, and turns become cycles.

*Emulation.* The loops over the bits have invariants of their own, by the number of
turns: after n turns of the division the remainder and the quotient are those of the
upper n bits of the dividend (`DivideStep`), and the remainder is below the divisor, so
that it does not outgrow its register when it is shifted. The two halves of the product
have one each: the lower one is the product with the upper n bits of the multiplier,
modulo the width (`LowerStep`), the upper one that with the lower n bits, of which n
bits have been shifted out (`UpperStep`), the carry being put back each time. The
corrections for the signs are `SignedProduct` and `AbsIs`: a number read with its sign
differs by the range of a word, which takes the other operand off the upper half.
`RegistersInv` is only that registers hold words and `r0` zero. The loops, and the
powers of two, are recursive functions, whose existence is proved from a set that is
closed under a turn (`LoopExists`).

*Files.* `FilesInv` is about the pool (`PoolOK`): only entries of devices are locked,
the standard streams always have a device, and above them an entry is in use exactly
when the program holds it, at or below the high-water mark. The last is what makes a
search up to the mark enough. A call is taken apart into four outcomes for the pool
(refused, freed again, taken, released) that keep it. `LocksAndModesKept` follows step
by step.
*Names.* A string ends at its NUL, which no name contains; a comparison of as many bytes
as one name has, and one more, therefore decides equality, whatever lies behind the
shorter one.

*Caches.* That a byte reads back as it was written is not inductive: what matters is
what a later write-back does to the rest of its line. `DataInv` says of every byte
(`Current`): if its line is held, no byte of the line is used around the cache, the copy
is as last written, and memory is too unless the line is dirty; otherwise memory has it.
`CodeInv` adds that code is in memory, and fresh where it has been fetched. A flush must
therefore find every line of its block. `WalkFindsLines` shows that it does, the one
more that it takes after an unaligned start being the one left over; `WalkFindsPlaces`,
that a walk as long as the cache finds every place, which is why a length may be trimmed
where flushes go by place and not where they go by address. Remapping and discarding
keep the invariant because their blocks are whole lines (`WholeIsWhole`,
`WalkStaysInside`), which the code does not see to (section 6) and the theorem presumes.
`Division`, `DivisionUnique` and `ProductGrows` are the arithmetic of it.

*Profiling.* A count can be lost, so that what is proved is a bound, and the bound is
not inductive alone: a call in `mcount` has been made and not yet counted. `ProfileInv`
(`CountOK`) says that the counts of a pair of functions and the calls of it still under
way make no more than its calls, and that a call that is over has left its arc. It needs
to know what each thread holds (`Knows`): an entry of its function, an arc of that
entry, a count that has since not become less, and, where the insertion has begun, the
chain as it still is, because interrupts are off and the routine is not in `mcount`
(`Alone`). The routine, which nothing interrupts, even holds the count as it is. Arcs
are of one function each (`Recorded`) and entries are chained newest first (`Chained`),
from which it follows that none is lost (`NothingIsUnlinked`). The counts are finite
sets and their sums are cardinalities, since a sum over all pairs would be a recursion
(`CountBelow`, `GrowsBy`).
*Slabs.* `SlabInv`: pieces are apart from each other and from what is left of the slab,
and the histogram has two bytes for each whole bucket: the bucket of a sample is one of
these, or the one behind them where the text is longer than they are.

*Log.* `LogInv`: the alarm of the report is set only where the level has it (`Timing`),
so that silence needs no look at the time; it is never due now, for it is called in the
tick that finds it so. The clock's count is what `quiet` is, so that it reaches the rate
and goes one past it. An echo ends at its first NUL (`UpToNulIs`), and before that its
characters are those of the text, with a D for a Ctrl-D, up to the line feed in the last
place.

*Formats.* `PrintInv` says of the number printed last only from which specification and
letter it came; the rest is arithmetic. The powers of a base exist as a function
(`PowersAre`) and outgrow every number (`PowerAbove`), so that a number has a last place
(`PlacesAre`), whose digit is no zero unless the number is one digit (`TopDigit`). A field
is blanks or zeros, a sign and digits (`NumberIs`). Each character moves what has been read
one place up and adds the next digit, which is the quotient by the next smaller power:
a quotient by a quotient is one by the product (`QuotientTwice`), and so the recursion that
reads the field back arrives at the number (`HornerIs`, `ReadsBack`). The place from
which `alt_printf` prints `%x` is the last place to base 16 (`TopNibble`), hence both
functions agree.

What is only model-checked, and why:

* `BoxesMeetCriteria`, `PermutationsFit`, `TestbenchVector`:
  evaluations of constants, for which TLC is the right tool.
* `RunEnds`, `Ends`, `Passes`, `CallsComeBack`, `FirstIsServed`: liveness.

## 6. Comments that the code contradicts

Met while modelling, each in a line that the map names. Four have runs that show them
(`MC_Wrapper_DoneCaught`, `MC_Wrapper_StartClears`, `MC_Receive`, `MC_Alarm`). Those marked *stated* are in a property as the code has them,
so that it says how far the code strays from the comment. In the others the models keep
to what the code does, and the constants of the runs, or the properties' premises, keep
clear of the case: no property would catch it. Paths are below `software/DES_bsp/HAL/src` unless
another is given.

* `DES_AVALON_WRAPPER.v:46` and `:44`: see section 4.
* `drivers/src/altera_avalon_jtag_uart_init.c:156`: what RAVAIL shows may have come
  after RVALID was latched, and the ring is not full (line 158: "the buffer is full").
  `MC_Receive`.
* `drivers/src/altera_avalon_jtag_uart_write.c:214`: a blocking write of no bytes returns
  `-EIO`, "Host not connected", with the host connected.
* `alt_fd_lock.c:61` stops before `alt_max_fd`, which is the highest index in use: the
  last descriptor is not looked at, and a lock is granted although it refers to
  the same device (line 43: "no other open file descriptors").
* `alt_dev.c:131`: the null device's descriptors carry no access mode beyond
  `O_RDONLY` at the start, so that before redirection writes are refused with `EACCES`
  (lines 72 and 84: "discards all data", "safe but inefectual").
* `alt_ioctl.c:167` returns the negated error, not -1 (line 43: "identical to the
  standard posix ioctl() function").
* `alt_settod.c:84` computes a product in 32 bits that `alt_gettod.c:93` computes in 64:
  after 2^32 us of ticks the time read back is not the time set (`alt_settod.c:61-63`: "an immediate call to gettimeofday() would return the value specified"). *Stated* in `TimeIsKept`:
  it is off by less than a second.
* `alt_gettod.c:93`: for a rate that does not divide a second, microseconds jump back
  when the seconds of `nticks/tick_rate` step (`alt_settod.c:58`: "the elapsed wall clock time").
* `alt_busy_sleep.c:107`: with nothing left after the big loops the counter starts at
  zero and runs through 2^32 turns (line 36). *Stated* in `TimeIsKept`.
* `alt_busy_sleep.c:129` and `:112`: turns per microsecond are rounded down, on this board 5 for
  5.6: a delay is a tenth too short. *Stated* in `TimeIsKept`.
* `alt_tick.c:102` notes the next alarm before a callback that may stop just that one
  (line 61 allows stopping): the walk goes on in an entry that is no longer in the list.
  `MC_Alarm`.
* `alt_alarm_start.c:82` and `:89`: the longest delay executes at the next tick, since its
  due time is the present one (line 45: "time to elapse").
* `alt_legacy_irq.h:94` enables a line past the priority mask of the routine that called
  it (line 103: only "higer priority interrupts").
* `alt_log_printf.c:449` overwrites the last echoed character (line 437: "the first
  ALT_LOG_WRITE_ECHO_LEN characters"). *Stated* in `LogIsSound`.
* `alt_log_printf.c:471` compares with `>`: the clock's message is a tick late (line
  465). *Stated* in `LogIsSound`.
* `alt_sbrk.c:88` does check bounds (lines 46-48: "does not perform any bounds checking.
  Memory will be allocated, even if the request region collides with the stack"): a
  request past the limit of the heap is refused. *Stated* in `HeapIsSound`. But the
  stack starts at that limit (`linker.x:375`, `:385`), so that a collision with it is
  indeed not seen.
* `alt_mcount.S:120` counts in three instructions with interrupts on: counts are lost
  (`alt_gmon.c:52`, "the number of times this arc is executed").
* `alt_gmon.c:167`: a routine that interrupts between the test and the answer starts the
  sampler a second time, on the same alarm (line 153: "able to cope with reentrancy").
* `alt_gmon.c:226`: a text section that is no multiple of a bucket has its last bucket
  beyond the histogram (line 260: "within the profilable range"). *Stated* in
  `ProfileIsSound`: two bytes.
* `alt_gmon.c:139` takes the -1 of a refused `sbrk` for a slab.
* `alt_uncached_malloc.c:52`: a block shares its first and last cache line with others, whose
  cached writes come back over it (line 43: "uncached memory").
* `alt_dcache_flush_no_writeback.c:82` drops a line that the region does not touch when only
  the start is unaligned (line 56: "a memory region of length len").
* `alt_exception_entry.S:233` takes `ea` again after the handler; after an emulated
  instruction in the handler it is another (line 230: "the instruction that caused the
  exception"). Line 224 says that 0 means skip, and the code, like the header, reissues
  on 0.
* `alt_exception_muldiv.S:154` and `:565`: an operand `sp` is read as 136 bytes lower than the
  program's, and a result for `gp` is not put back (line 60 lists the limitations,
  without these).

A static one: `README.md:25-26` names `DES_CONTROL.v` as the machine that manages the
rounds, but no module of the present design instantiates it.

## 7. What is not modelled, and why

* The legacy iterative datapath: `ROUND_KEY.v` instantiates a `STATE_MACHINE` that
  the repository does not have, so there is nothing to run.
* The generated interconnect, the Nios II itself and memory: vendor code. What the
  accelerator sees of them (one access at a time, two-cycle reads, one-cycle
  writes, the resets) is in `DES_SYSTEM`.
* Propagation delays, metastability and timing constraints: the model is
  synchronous. The reset synchroniser releases reset in step with the clock, so a
  reset is one step here.
* `DE2_TOP.v`, scripts: no behaviour of their own that the design depends on.
* DMA, flash and process stubs of the HAL: no such device is on the board, and the
  stubs only return an error.

Inside the modules of the HAL:

* `JTAG_UART`: the FIFO flags of the device lag a clock behind its contents; no access
  of the processor is that close to another, and what the host does between the clocks of one
  access is in the module. The option that throws bytes away on a
  timeout (`ALTERA_AVALON_JTAG_UART_IGNORE_FIFO_FULL_ERROR`) is not set here.
* `HAL_FILES`: calls with a number that was never opened, which the code follows through
  a null pointer; a file system with an empty name. Which errno a driver's failure sets
  is any of its errors.
* `HAL_TIME`: `settimeofday` without a time zone, which the code follows; the wrap of the tick
  counter inside `gettimeofday`, and rates that do not divide a second (section 6).
* `HAL_ALARM`: a callback that stops another alarm is in the module (`StopsOthers`) and
  in the run `MC_Alarm`, not in `AlarmsOnTime`, which does not hold with it.
* `HAL_INTERRUPTS`: line numbers of 2^31 and more; an interruptible routine that
  enables lines (`NestingCalls`; section 6).
* `HAL_EXCEPTIONS`: the handler's own instructions need no emulation (section 6); an interrupt
  routine is one step there, since `HAL_INTERRUPTS` has its steps.
* `HAL_MULDIV`: what a division by zero gives, which the architecture leaves undefined;
  operands and results in `sp` and `gp` are in the module and left out of its instance
  (section 6).
* `HAL_HEAP`: negative increments, and the check against the stack (`ALT_STACK_CHECK`, not
  set here).
* `HAL_PRINTF`: arguments differ in type only; every number of a format is the same. A width
  of ten digits or more, which does not fit in an `int`.
* `HAL_PROFILE`, `HAL_SLAB`: writing `gmon.out`; a heap that runs out; alignment of what
  `sbrk` returns (it is in `HAL_HEAP`).
* `HAL_CACHE`: blocks that are no whole lines (`WholeLines`; section 6).
