----------------------------- MODULE HAL_ALARM -----------------------------
(***************************************************************************)
(* The alarms of the HAL: a doubly linked list that the program changes    *)
(* with interrupts off and that alt_tick walks in the timer interrupt,     *)
(* calling back what is due.  Ticks are counted in words that wrap round;  *)
(* a flag tells alarms that are due after the next wrap from others.       *)
(***************************************************************************)
EXTENDS Integers, FiniteSets

CONSTANTS
  Alarms,
  Wrap,         \* one more than the largest alt_u32; scaled down for checking
  Nticks,       \* the delays that alarms are started with
  Periods,      \* what callbacks return
  StopsOthers   \* whether a callback may stop another alarm than its own

AlarmAssumption ==
  /\ IsFiniteSet(Alarms) /\ Alarms \cap {"alt_alarm_list", "null"} = {}
  /\ Wrap \in Nat \ {0, 1} /\ Nticks \subseteq 0..Wrap - 1 /\ Periods \subseteq 0..Wrap - 1
  /\ StopsOthers \in BOOLEAN

ENOTSUP == 134
Head == "alt_alarm_list"
Nodes == Alarms \cup {Head}
NotYet == "null"   \* the links of an alarm that was never inserted

VARIABLES
  _alt_tick_rate,  \* 0 until the driver of the system clock has started
  _alt_nticks,
  next, previous,  \* the links of the list
  time, rollover,  \* of each alarm
  pc,              \* "idle", or "tick" inside alt_tick
  alarm,           \* the alarm that alt_tick looks at
  registered,      \* the alarms started and not stopped
  remaining,       \* the ticks left until each is due
  ret              \* what the last alt_alarm_start returned

links == <<next, previous>>
clock == <<_alt_tick_rate, _alt_nticks>>
vars == <<clock, links, time, rollover, pc, alarm, registered, remaining, ret>>

TypeOK ==
  /\ _alt_tick_rate \in {0, 1} /\ _alt_nticks \in 0..Wrap - 1
  /\ next \in [Nodes -> Nodes \cup {NotYet}] /\ previous \in [Nodes -> Nodes \cup {NotYet}]
  /\ time \in [Alarms -> 0..Wrap - 1] /\ rollover \in [Alarms -> BOOLEAN]
  /\ pc \in {"idle", "tick"} /\ alarm \in Nodes
  /\ registered \subseteq Alarms /\ remaining \in [Alarms -> 0..Wrap]
  /\ ret \in {0, -ENOTSUP}

Init ==
  /\ _alt_tick_rate = 0 /\ _alt_nticks = 0
  /\ next = [x \in Nodes |-> IF x = Head THEN Head ELSE NotYet] /\ previous = next
  /\ time = [a \in Alarms |-> 0] /\ rollover = [a \in Alarms |-> FALSE]
  /\ pc = "idle" /\ alarm = Head
  /\ registered = {} /\ remaining = [a \in Alarms |-> 0] /\ ret = 0

-----------------------------------------------------------------------------
\* The links after an insertion at the head, or a removal: [n, p] records.
Here == [n |-> next, p |-> previous]
Inserted(l, a) ==
  [n |-> [l.n EXCEPT ![a] = l.n[Head], ![Head] = a],
   p |-> [l.p EXCEPT ![a] = Head, ![l.n[Head]] = a]]
\* The entry points to itself, so that another removal is harmless.
Removed(l, a) ==
  LET out == [n |-> [l.n EXCEPT ![l.p[a]] = l.n[a]], p |-> [l.p EXCEPT ![l.n[a]] = l.p[a]]]
  IN [n |-> [out.n EXCEPT ![a] = a], p |-> [out.p EXCEPT ![a] = a]]
Set(l) == next' = l.n /\ previous' = l.p

\* Slip: no look at the roll-over.
Wrapped_Never(t, n) == FALSE
\* The roll-over test.
Wrapped(t, n) == t < n
Due(nticks) == (nticks + _alt_nticks + 1) % Wrap

SysclkInit ==
  /\ _alt_tick_rate = 0 /\ _alt_tick_rate' = 1
  /\ UNCHANGED <<_alt_nticks, links, time, rollover, pc, alarm, registered, remaining, ret>>

\* By the program, with interrupts off.
Start(a, nticks) ==
  /\ pc = "idle" /\ a \notin registered
  /\ IF _alt_tick_rate = 0
     THEN ret' = -ENOTSUP /\ UNCHANGED <<links, time, rollover, registered, remaining>>
     ELSE /\ time' = [time EXCEPT ![a] = Due(nticks)]
          /\ rollover' = [rollover EXCEPT ![a] = Wrapped(Due(nticks), _alt_nticks)]
          /\ Set(Inserted(Here, a)) /\ ret' = 0
          /\ registered' = registered \cup {a}
          /\ remaining' = [remaining EXCEPT ![a] = nticks + 1]
  /\ UNCHANGED <<clock, pc, alarm>>

Stop(a) ==
  /\ pc = "idle" /\ next[a] # NotYet
  /\ Set(Removed(Here, a)) /\ registered' = registered \ {a}
  /\ UNCHANGED <<clock, time, rollover, pc, alarm, remaining, ret>>

\* alt_tick, called by the timer interrupt.
Tick ==
  /\ pc = "idle" /\ _alt_tick_rate # 0
  /\ _alt_nticks' = (_alt_nticks + 1) % Wrap
  /\ remaining' = [a \in Alarms |-> IF a \in registered THEN remaining[a] - 1 ELSE 0]
  /\ pc' = "tick" /\ alarm' = next[Head]
  /\ UNCHANGED <<_alt_tick_rate, links, time, rollover, registered, ret>>

StillRolled(a) == rollover[a] /\ _alt_nticks # 0
Expired(a) == time[a] <= _alt_nticks /\ ~StillRolled(a)

\* One turn of the loop for an alarm that is not due.
Skip ==
  /\ pc = "tick" /\ alarm # Head /\ ~Expired(alarm)
  /\ rollover' = [rollover EXCEPT ![alarm] = StillRolled(alarm)]
  /\ alarm' = next[alarm]
  /\ UNCHANGED <<clock, links, time, pc, registered, remaining, ret>>

\* One turn with a callback, which returns k and may stop or start another
\* alarm on the way.  The following alarm was noted before the call.
CallBack(k, stopped, started, nticks) ==
  LET l1 == IF stopped = Head THEN Here ELSE Removed(Here, stopped)
      l2 == IF started = Head THEN l1 ELSE Inserted(l1, started)
      l3 == IF k = 0 THEN Removed(l2, alarm) ELSE l2
      t == (time[alarm] + k) % Wrap
  IN /\ pc = "tick" /\ alarm # Head /\ Expired(alarm)
     /\ Set(l3) /\ alarm' = next[alarm]
     /\ time' = [a \in Alarms |-> IF a = started THEN Due(nticks)
                                  ELSE IF a = alarm /\ k # 0 THEN t ELSE time[a]]
     /\ rollover' = [a \in Alarms |->
          IF a = started THEN Wrapped(Due(nticks), _alt_nticks)
          ELSE IF a = alarm THEN k # 0 /\ Wrapped(t, _alt_nticks) ELSE rollover[a]]
     /\ registered' = ((registered \ {stopped}) \cup ({started} \cap Alarms))
                        \ (IF k = 0 THEN {alarm} ELSE {})
     /\ remaining' = [a \in Alarms |->
          IF a = started THEN nticks + 1 ELSE IF a = alarm THEN k ELSE remaining[a]]
     /\ UNCHANGED <<clock, pc, ret>>

CallBacks ==
  \E k \in Periods, nticks \in Nticks,
     stopped \in {Head} \cup (IF StopsOthers THEN registered \ {alarm} ELSE {}),
     started \in {Head} \cup (Alarms \ (registered \cup {alarm})) :
    CallBack(k, stopped, started, nticks)

TickEnds ==
  /\ pc = "tick" /\ alarm = Head /\ pc' = "idle"
  /\ UNCHANGED <<clock, links, time, rollover, alarm, registered, remaining, ret>>

InTick == Skip \/ CallBacks \/ TickEnds
Next ==
  \/ SysclkInit \/ Tick \/ InTick
  \/ \E a \in Alarms : Stop(a) \/ \E nticks \in Nticks : Start(a, nticks)

Spec == Init /\ [][Next]_vars

-----------------------------------------------------------------------------
\* The nodes that a walk from the head meets, step by step.
Walk[k \in 0..Cardinality(Nodes)] ==
  IF k = 0 THEN {Head} ELSE Walk[k - 1] \cup {next[x] : x \in Walk[k - 1]}
Reached == Walk[Cardinality(Nodes)]

\* The list holds the registered alarms and no others, in both directions,
\* whatever the program and the callbacks add and remove, in whatever order.
ListIsSound ==
  /\ Reached = registered \cup {Head}
  /\ \A x \in Reached : previous[next[x]] = x

\* An alarm is called back in the tick at which its delay is over, neither
\* before nor after, although the counter and the due times wrap round.
OnTime ==
  /\ pc = "tick" /\ alarm # Head => (Expired(alarm) <=> remaining[alarm] = 0)
  /\ pc = "idle" => \A a \in registered : remaining[a] > 0

\* What alt_tick.c:61 says: alt_alarm_stop removes an alarm from the list of the
\* registered ones; so alt_tick looks at registered alarms only.
StoppedIsGone == pc = "tick" /\ alarm # Head => alarm \in registered
=============================================================================
