------------------------------ MODULE HAL_LOG -------------------------------
(***************************************************************************)
(* The log of the HAL: what each level of ALT_LOG_FLAGS lets through, the  *)
(* echo of writes, the heartbeat of the system clock, and the alarm that   *)
(* reports the state of the JTAG UART.  Each step shows what it prints.    *)
(***************************************************************************)
EXTENDS Integers, SequencesExt

CONSTANTS
  Rates,     \* the tick rates of the system clock; 0 without one
  EchoLen,   \* ALT_LOG_WRITE_ECHO_LEN, 15; scaled down for checking
  Divisor,   \* ALT_LOG_JTAG_UART_TICKS_DIVISOR, 10; scaled down too
  Texts      \* what the program writes, sequences of characters

LogAssumption ==
  /\ Rates \subseteq Nat /\ EchoLen \in Nat \ {0} /\ Divisor \in Nat \ {0}
  /\ Texts \subseteq Seq(UNION {Range(text) : text \in Texts})

NUL == "0"
CtrlD == "^D"
Levels == -1..3

VARIABLES
  level,    \* ALT_LOG_FLAGS
  rate,     \* alt_ticks_per_second()
  alt_log_sys_clk_count,
  due,      \* the ticks until the alarm of the JTAG UART is called back, or -1
  started,  \* the driver of the JTAG UART has been initialised
  printed,  \* what the last step printed
  written,  \* what it wrote
  quiet,    \* history: the ticks since the clock's last message, or its start
  interval  \* history: the ticks between its last two messages, 0 before
vars == <<level, rate, alt_log_sys_clk_count, due, started, printed, written, quiet, interval>>

\* The flags that are on at a level.
Flags(l) ==
  (IF l = -1 THEN {} ELSE {"boot"}) \cup (IF l >= 1 THEN {"sys_clk", "startup_info"} ELSE {})
  \cup (IF l >= 2 THEN {"write", "alarm"} ELSE {}) \cup (IF l = 3 THEN {"isr"} ELSE {})
On(flag) == flag \in Flags(level)
Interval == rate
Ticks == rate \div Divisor

TypeOK ==
  /\ level \in Levels /\ rate \in Rates /\ alt_log_sys_clk_count \in 0..rate
  /\ due \in -1..rate + 1 /\ started \in BOOLEAN /\ quiet \in Nat /\ interval \in Nat

Init ==
  /\ level \in Levels /\ rate \in Rates
  /\ alt_log_sys_clk_count = 0 /\ due = -1 /\ started = FALSE
  /\ printed = <<>> /\ written = <<>> /\ quiet = 0 /\ interval = 0

Prints(flag, message) == IF On(flag) THEN message ELSE <<>>
Clock == <<alt_log_sys_clk_count, quiet, interval>>
Nothing == UNCHANGED <<level, rate, due, started, Clock>>

-----------------------------------------------------------------------------
Boot == printed' = Prints("boot", <<"Boot">>) /\ written' = <<>> /\ Nothing

\* ALT_LOG_JTAG_UART_ALARM_REGISTER.
StartUart ==
  /\ ~started /\ started' = TRUE
  /\ due' = IF On("alarm") /\ rate # 0 THEN Ticks + 1 ELSE -1
  /\ printed' = Prints("startup_info", <<"JTAG Startup Info">>) /\ written' = <<>>
  /\ UNCHANGED <<level, rate, Clock>>

Isr == started /\ printed' = Prints("isr", <<"JTAG IRQ">>) /\ written' = <<>> /\ Nothing

\* altera_avalon_jtag_uart_report_log: when to call it again, or never.
Report == IF On("alarm") /\ Ticks # 0 THEN Ticks ELSE -1

\* alt_log_system_clock.
Beats == On("sys_clk") /\ alt_log_sys_clk_count + 1 > Interval
Count == IF ~On("sys_clk") THEN alt_log_sys_clk_count
         ELSE IF Beats THEN 0 ELSE alt_log_sys_clk_count + 1

Tick ==
  /\ rate # 0 /\ alt_log_sys_clk_count' = Count
  /\ due' = IF due = 1 THEN Report ELSE IF due > 1 THEN due - 1 ELSE due
  /\ printed' = (IF due = 1 THEN <<"JTAG Alarm">> ELSE <<>>)
                  \o (IF Beats THEN <<"System Clock On">> ELSE <<>>)
  /\ written' = <<>>
  /\ quiet' = (IF Beats \/ ~On("sys_clk") THEN 0 ELSE quiet + 1)
  /\ interval' = (IF Beats THEN quiet + 1 ELSE interval)
  /\ UNCHANGED <<level, rate, started>>

\* The characters of a string, up to its end.
UpToNul(s) == SubSeq(s, 1, SelectInSeq(s \o <<NUL>>, LAMBDA c : c = NUL) - 1)
\* Slip: the last character copied is not looked at.
Escaped_ButOne(s) == [k \in 1..Len(s) |-> IF k + 2 <= Len(s) /\ s[k] = CtrlD THEN "D" ELSE s[k]]
Escaped(s) == [k \in 1..Len(s) |-> IF s[k] = CtrlD THEN "D" ELSE s[k]]

\* What alt_log_write leaves in its buffer: the last of the characters copied is
\* overwritten with a line feed.
Echo(text) ==
  LET length == IF EchoLen > Len(text) THEN Len(text) ELSE EchoLen
      copied == UpToNul(SubSeq(text, 1, length))
      buffer == [k \in 1..length |-> IF k = length THEN "\n"
                                     ELSE IF k <= Len(copied) THEN copied[k] ELSE NUL]
  IN IF length < 2 THEN <<>> ELSE UpToNul(Escaped(buffer) \o <<"\r">>)

Write(text) == printed' = Prints("write", Echo(text)) /\ written' = text /\ Nothing

Next == Boot \/ StartUart \/ Isr \/ Tick \/ \E text \in Texts : Write(text)
Spec == Init /\ [][Next]_vars

-----------------------------------------------------------------------------
\* In silent mode nothing is printed, by whatever part of the HAL; and each
\* level prints all that the lower ones print (alt_log_printf.h:125).
LevelsGrow ==
  /\ level = -1 => printed = <<>>
  /\ \A l \in Levels : Flags(level) \subseteq Flags(l) \/ l < level

\* Once the driver has started the report comes again and again, unless the clock
\* is slower than the divisor: then it comes once.
ReportsGoOn == started /\ On("alarm") /\ rate >= Divisor => due > 0

\* The clock's message comes again and again, while it is on: a tick later than the
\* interval of alt_log_printf.c:465, for the count goes past it (:471).
ClockReports == On("sys_clk") => quiet <= rate /\ interval \in {0, rate + 1}

\* What is echoed of a text, exactly: its first characters, up to a NUL, with a D for
\* each Ctrl-D wherever it stands; but one fewer than alt_log_printf.c:437 says, since
\* the line feed overwrites the last (:449).  A NUL takes the end of the line with it,
\* and of a text of one character nothing is echoed.
EchoIsExact ==
  LET n == IF Len(written) < EchoLen THEN Len(written) ELSE EchoLen IN
    written # <<>> =>
      IF ~On("write") \/ n < 2 THEN printed = <<>>
      ELSE \E kept \in 0..n - 1 :
             /\ \A k \in 1..kept :
                  /\ written[k] # NUL
                  /\ printed[k] = IF written[k] = CtrlD THEN "D" ELSE written[k]
             /\ IF kept < n - 1 THEN written[kept + 1] = NUL /\ Len(printed) = kept
                ELSE printed[n] = "\n" /\ printed[n + 1] = "\r" /\ Len(printed) = n + 1
=============================================================================
