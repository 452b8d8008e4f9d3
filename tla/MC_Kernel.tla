------------------------------ MODULE MC_Kernel ------------------------------
(***************************************************************************)
(* The parts of the board support package that run the processor, which    *)
(* keep no state in common in this build: one of them runs in every        *)
(* behaviour, and the others stay as they start.  The sizes are parameters *)
(* (theorems hold for all); the list gives those of the configuration.     *)
(*   alarms      HAL_ALARM: two alarms on a counter that wraps at 6        *)
(*   time        HAL_TIME, the clock: rates that divide the second of      *)
(*               10 us, and ticks whose length outgrows the word of 64 us  *)
(*   sleep       HAL_TIME, delays: words of 10 bits, the board's frequency *)
(*   interrupts  HAL_INTERRUPTS: three lines, nested routines              *)
(*   exceptions  HAL_EXCEPTIONS: four instructions, one that is emulated   *)
(*               and one that raises an exception, and up to 3 interrupts  *)
(*   muldiv      HAL_MULDIV: words of 3 bits, a register of each kind      *)
(*   startup     HAL_STARTUP: three words of data, of which start-up       *)
(*               changes two, and two of bss, two constructors, resets at  *)
(*               any two moments                                           *)
(***************************************************************************)
EXTENDS HAL_INTERRUPTS

CONSTANTS
  Alarms, AlarmWrap, Nticks, Periods, StopsOthers,                  \* of HAL_ALARM
  TimeWrap, ALT_US, Rates, Settings, MaxTicks,                      \* of HAL_TIME
  SleepWord, FreqMHz, Cycles, Longest,
  W, FrameSize, Immediates, Sources, Destinations,                  \* of HAL_MULDIV
  Emulated, Odd, ProgramLength, HandlerLength, MaxLines, Spurious,  \* of HAL_EXCEPTIONS
  DataWords, BssWords, DeviceWords, FileWords, Ctors, ExitCodes,    \* of HAL_STARTUP
  MaxResets

VARIABLES part,
  _alt_tick_rate, _alt_nticks, next, previous, time, rollover, alarm_pc, alarm, registered,
  remaining, ret,
  tick_rate, nticks, alt_resettime, base, since, exact, time_ret,
  us,
  at, pc, ea, running_pie, estatus, stack, line, lines, alt_instruction_exception_handler, r2,
  removed, done,
  reg, instruction,
  startup_pc, i, rwdata, bss, irq, ran, atexit, exit_code, sim, resets

Alarm == INSTANCE HAL_ALARM WITH Wrap <- AlarmWrap, pc <- alarm_pc
Time == INSTANCE HAL_TIME WITH
  Wrap <- TimeWrap, Word <- SleepWord,
  _alt_tick_rate <- tick_rate, _alt_nticks <- nticks, ret <- time_ret
Exceptions == INSTANCE HAL_EXCEPTIONS WITH pie <- running_pie
Muldiv == INSTANCE HAL_MULDIV WITH Frame <- FrameSize
Startup == INSTANCE HAL_STARTUP WITH pc <- startup_pc

ASSUME KernelAssumption ==
  /\ Alarm!AlarmAssumption /\ Time!TimeAssumption /\ Time!SleepAssumption
  /\ Muldiv!WidthAssumption /\ Muldiv!RegisterAssumption
  /\ InterruptsAssumption /\ Exceptions!ExceptionsAssumption /\ Startup!StartupAssumption
  \* No routine of this build enables a line, no callback stops another alarm,
  \* no delay of an alarm takes the counter all the way round, and no instruction that is
  \* emulated takes its operand from sp or leaves its result in sp or gp.
  /\ ~NestingCalls /\ ~StopsOthers /\ AlarmWrap - 1 \notin Nticks
  /\ "sp" \notin Sources /\ {"sp", "gp"} \cap Destinations = {}

\* The times that the configuration sets.
MCSettings == [sec : {0, 7}, usec : {0, 3, 9, 25}]

-----------------------------------------------------------------------------
\* The variables of the parts.
alarms == <<_alt_tick_rate, _alt_nticks, next, previous, time, rollover, alarm_pc, alarm,
            registered, remaining, ret>>
clock == <<tick_rate, nticks, alt_resettime, base, since, exact, time_ret>>
exceptions == <<at, pc, ea, running_pie, estatus, stack, line, lines,
                alt_instruction_exception_handler, r2, removed, done>>
muldiv == <<reg, instruction>>
startup == <<startup_pc, i, rwdata, bss, irq, ran, atexit, exit_code, sim, resets>>
kernel == <<part, alarms, clock, us, vars, exceptions, muldiv, startup>>

KernelInit ==
  /\ part \in {"alarms", "time", "sleep", "interrupts", "exceptions", "muldiv", "startup"}
  /\ Alarm!Init /\ Time!Init /\ Init /\ Exceptions!Init /\ Muldiv!Init
  /\ Startup!Init

KernelNext ==
  /\ UNCHANGED part
  /\ IF part = "alarms" THEN Alarm!Next ELSE UNCHANGED alarms
  /\ IF part = "time" THEN Time!ClockNext ELSE UNCHANGED clock
  /\ IF part = "sleep" THEN Time!DelayNext ELSE UNCHANGED us
  /\ IF part = "interrupts" THEN Next ELSE UNCHANGED vars
  /\ IF part = "exceptions" THEN Exceptions!Next ELSE UNCHANGED exceptions
  /\ IF part = "muldiv" THEN Muldiv!Next ELSE UNCHANGED muldiv
  /\ IF part = "startup" THEN Startup!Next ELSE UNCHANGED startup

\* The fairness of HAL_INTERRUPTS.
Fairness ==
  /\ SF_vars(part = "interrupts" /\ Take)
  /\ WF_vars(part = "interrupts" /\ Look)
  /\ WF_vars(part = "interrupts" /\ Leave)
  /\ WF_vars(part = "interrupts" /\ Dispatch)
  /\ SF_vars(part = "interrupts" /\ Acknowledge)
  /\ WF_vars(part = "interrupts" /\ NonInterruptible)
  /\ WF_vars(part = "interrupts" /\ Registering)
  /\ SF_vars(part = "interrupts" /\ LeaveSection)
KernelSpec == KernelInit /\ [][KernelNext]_kernel /\ Fairness

-----------------------------------------------------------------------------
\* Alarms are called back in the tick at which they are due, neither before nor
\* after, from a list that holds the registered ones and no others, where the
\* counter and the due times wrap round, the program starts and stops alarms and
\* callbacks start others and drop their own.  Of callbacks that stop other alarms
\* (MC_Alarm.cfg) and of the longest delay, which is over at once
\* (alt_alarm_start.c:89), it says nothing.
AlarmsOnTime == Alarm!TypeOK /\ Alarm!ListIsSound /\ Alarm!OnTime

\* The time of day is the time set and what has passed since, to the microsecond;
\* once the product of settimeofday has wrapped round it is less than a second off.
\* A delay takes the cycles asked for, less at most what the loops in a microsecond
\* are rounded down by, and more by at most a microsecond for each big loop, and a
\* word of turns if it is a multiple of the big loop.
TimeIsKept ==
  Time!TypeOK /\ Time!OnTheWallClock /\ Time!SleepsEnough /\ Time!SleepIsClose

\* A handler is called with its own context and not after its removal; sections
\* with interrupts shut off stay closed although the calls in them shut off and
\* restore too, the program is open outside them, and routines are interrupted
\* by lines of higher priority only.
InterruptsOrderly ==
  /\ TypeOK /\ HandlerIsWhole /\ SectionIsClosed
  /\ ProgramIsOpen /\ NestsByPriority

\* Every instruction of the program is executed, or skipped because a handler
\* says so, once and in order, and runs on an empty exception stack with the
\* program's own interrupt enable, whatever exceptions came between.
ExceptionsInOrder == Exceptions!InOrder /\ Exceptions!Balanced

\* Emulated multiplications and divisions leave the registers as the
\* instructions of the processor's architecture would.
MatchesInstruction == Muldiv!MatchesInstruction

\* After a reset at any moment start-up begins with the data as it was linked,
\* the first constructor finds nothing but what start-up has set up changed, no
\* code of the program finds a word of an earlier run, and main starts with
\* everything constructed once.
StartsAfresh == Startup!TypeOK /\ Startup!StartsAfresh /\ Startup!ConstructedOnce
=============================================================================
