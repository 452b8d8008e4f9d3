------------------------------ MODULE HAL_TIME ------------------------------
(***************************************************************************)
(* The two calls of the HAL that count time themselves.                    *)
(*                                                                         *)
(* The time of day is counted in ticks of the system clock from the time   *)
(* set last: settimeofday stores a difference computed in words, and       *)
(* gettimeofday adds the ticks to it and normalises.                       *)
(*                                                                         *)
(* usleep is a counted loop, which takes a register down; a long delay is  *)
(* cut into loops of the largest signed number.                            *)
(***************************************************************************)
EXTENDS Integers

CONSTANTS
  Wrap,      \* one more than the largest alt_u32; scaled down for checking
  ALT_US,    \* microseconds in a second; scaled down too
  Rates,     \* the tick rates a clock driver may start with
  Settings,  \* the times that are set, [sec, usec] records
  MaxTicks,  \* bound on the ticks counted
  Word,      \* one more than the largest unsigned int; scaled down for checking
  FreqMHz,   \* of the processor: 50 on this board
  Cycles,    \* cycles_per_loop: 9 for the "tiny" processor
  Longest    \* bound on the delays

\* A rate divides the second, without which neither call keeps the time (both cut
\* the length of a tick to microseconds); seconds and settings are in range of a
\* long, and the count of ticks does not come round.
TimeAssumption ==
  /\ Wrap \in Nat \ {0} /\ ALT_US \in 1..Wrap \div 2 /\ MaxTicks \in 0..Wrap - 1
  /\ Rates \subseteq 1..ALT_US /\ \A r \in Rates : ALT_US % r = 0
  /\ Settings \subseteq [sec : Nat, usec : 0..Wrap \div 2 - 1]

\* A microsecond is a turn of the loop at least, and far less than a big loop.
SleepAssumption ==
  /\ Word \in Nat /\ FreqMHz \in Nat /\ Cycles \in Nat \ {0} /\ Longest \in 0..Word - 1
  /\ FreqMHz >= Cycles /\ Word > 4 * FreqMHz

VARIABLES
  _alt_tick_rate, _alt_nticks,
  alt_resettime,
  base, since,   \* the time set last in microseconds, and the ticks since
  exact,         \* history: when it was set, the ticks in microseconds were one word
  ret,           \* what the last settimeofday or times returned
  us             \* the delay asked for; the module steps through the arguments

clock == <<_alt_tick_rate, _alt_nticks, alt_resettime, base, since, exact, ret>>
vars == <<clock, us>>

Total(t) == t.sec * ALT_US + t.usec

TypeOK ==
  /\ _alt_tick_rate \in Rates \cup {0} /\ _alt_nticks \in 0..MaxTicks
  /\ alt_resettime.sec \in Int /\ alt_resettime.usec \in -(Wrap \div 2)..Wrap \div 2 - 1
  /\ base \in Nat /\ since \in 0..MaxTicks /\ exact \in BOOLEAN /\ ret \in -1..MaxTicks

Init ==
  /\ _alt_tick_rate = 0 /\ _alt_nticks = 0 /\ alt_resettime = [sec |-> 0, usec |-> 0]
  /\ base = 0 /\ since = 0 /\ exact = TRUE /\ ret = 0 /\ us = 0

-----------------------------------------------------------------------------
\* Microseconds in a tick, rounded down.
TickUs == ALT_US \div _alt_tick_rate

\* The two loops of gettimeofday: borrow seconds, or give up at zero; carry.
Normalised(t) ==
  LET k == -(t.usec \div ALT_US) IN
    IF t.usec >= 0 \/ t.sec >= k
    THEN [sec |-> t.sec - k, usec |-> t.usec % ALT_US]
    ELSE [sec |-> 0, usec |-> 0]

\* Slip: the microseconds of the ticks are not cut to a second.
Gettod_NoRemainder ==
  Normalised([sec |-> alt_resettime.sec + _alt_nticks \div _alt_tick_rate,
              usec |-> alt_resettime.usec + _alt_nticks * TickUs])
\* gettimeofday, while there is a clock; its product has twice the width.
Gettod ==
  Normalised([sec |-> alt_resettime.sec + _alt_nticks \div _alt_tick_rate,
              usec |-> alt_resettime.usec + ((_alt_nticks * TickUs) % ALT_US)])

SysclkInit(rate) ==
  /\ _alt_tick_rate = 0 /\ _alt_tick_rate' = rate
  /\ UNCHANGED <<_alt_nticks, alt_resettime, base, since, exact, ret>>

Tick ==
  /\ _alt_tick_rate # 0 /\ _alt_nticks < MaxTicks
  /\ _alt_nticks' = _alt_nticks + 1 /\ since' = since + 1
  /\ UNCHANGED <<_alt_tick_rate, alt_resettime, base, exact, ret>>

\* What settimeofday stores; its product is one of words.
Difference(t) ==
  [sec |-> t.sec - _alt_nticks \div _alt_tick_rate,
   usec |-> t.usec - (((_alt_nticks * TickUs) % Wrap) % ALT_US)]

Settod(t) ==
  /\ IF _alt_tick_rate = 0
     THEN ret' = -1 /\ UNCHANGED <<alt_resettime, base, since, exact>>
     ELSE /\ ret' = 0 /\ alt_resettime' = Difference(t) /\ base' = Total(t) /\ since' = 0
          /\ exact' = (_alt_nticks * TickUs < Wrap)
  /\ UNCHANGED <<_alt_tick_rate, _alt_nticks>>

\* times(): the ticks since reset.
Times ==
  /\ ret' = IF _alt_tick_rate = 0 THEN 0 ELSE _alt_nticks
  /\ UNCHANGED <<_alt_tick_rate, _alt_nticks, alt_resettime, base, since, exact>>

ClockNext ==
  \/ \E rate \in Rates : SysclkInit(rate)
  \/ Tick \/ Times
  \/ \E t \in Settings : Settod(t)

-----------------------------------------------------------------------------
INT_MAX == Word \div 2 - 1
PerUs == FreqMHz \div Cycles  \* loops in a microsecond

\* The microseconds in a big loop.
PerBigLoop == INT_MAX \div PerUs

\* The turns of a loop closed by bne, or by bgt, that starts with v.
TurnsNe(v) == IF v = 0 THEN Word ELSE v
TurnsGt(v) == IF v \in 1..INT_MAX THEN v ELSE 1

\* alt_busy_sleep.
Turns(d) ==
  LET big == d \div PerBigLoop
      rest == d - big * PerBigLoop
  IN IF big > 0 THEN big * INT_MAX + TurnsNe((rest * PerUs) % Word)
     ELSE TurnsGt((d * PerUs) % Word)

DelayNext == us' = (us + 1) % (Longest + 1)

Next == (ClockNext /\ UNCHANGED us) \/ (DelayNext /\ UNCHANGED clock)
Spec == Init /\ [][Next]_vars

-----------------------------------------------------------------------------
\* The time read is the time set and what has passed since, to the microsecond: the
\* seconds and the microseconds are computed apart, from remainders that come round
\* at different ticks.  Where the product of settimeofday wrapped (alt_settod.c:84,
\* after 71 minutes on a board) the time read is wrong from then on, although :61-63
\* says that it is the time set, but by less than a second, whatever is set and
\* however long it runs.
OnTheWallClock ==
  _alt_tick_rate # 0 =>
    LET error == _alt_tick_rate * (Total(Gettod) - base) - since * ALT_US IN
      /\ exact => error = 0
      /\ -(_alt_tick_rate * ALT_US) < error /\ error < _alt_tick_rate * ALT_US

\* The delay asked for and the one the loops take, in clock cycles.
Asked(d) == d * FreqMHz
Taken(d) == Turns(d) * Cycles

\* What the exit conditions add: nothing left over is one turn of the loop closed by
\* bgt, and a whole word of turns of the one closed by bne (alt_busy_sleep.c:107).
Extra(d) == IF d % PerBigLoop # 0 THEN 0 ELSE IF d = 0 THEN Cycles ELSE Word * Cycles

\* A delay falls short of what is asked for by the loops in a microsecond being
\* rounded down (:129, 5 for 5.6 on this board), and by nothing else: not by how it
\* is cut, nor by a product that overflows.
SleepsEnough == Taken(us) >= Asked(us) - us * (FreqMHz % Cycles) + Extra(us)

\* It is longer by at most a microsecond for each big loop; but a multiple of the
\* big loop waits a word of turns more.
SleepIsClose == Taken(us) <= Asked(us) + (us \div PerBigLoop) * FreqMHz + Extra(us)
=============================================================================
