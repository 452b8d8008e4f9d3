---------------------------- MODULE HAL_PROFILE -----------------------------
(***************************************************************************)
(* Profiling: every instrumented function calls mcount, which looks an arc *)
(* up in chains that interrupt routines, instrumented too, may be adding   *)
(* to, and which starts the sampler as soon as there is a clock.  The      *)
(* chains of the hash table are one here, and memory is there when sbrk    *)
(* is asked (HAL_HEAP).                                                    *)
(***************************************************************************)
EXTENDS Integers, Sequences, FiniteSets

CONSTANTS
  Functions,  \* the addresses of functions and of their callers
  MaxCalls    \* bound on the calls made

ProfileAssumption == MaxCalls \in Nat

Threads == {"program", "isr"}  \* an interrupt routine runs to its end
None == 0

VARIABLES
  entries,   \* the function entries allocated: [self, arcs], arcs head first
  chain,     \* the list of their numbers, head first
  arcs,      \* the arcs allocated: [from, count]
  pcsample_need_init,
  rate,      \* alt_ticks_per_second()
  started,   \* how often the sampler's alarm has been started
  irq_off,   \* interrupts are off
  at,        \* where each thread is in mcount
  regs,      \* its arguments and registers
  calls,     \* the calls made, [self, from] to a number
  made       \* and how many they are together

data == <<entries, chain, arcs>>
sampler == <<pcsample_need_init, rate, started>>
vars == <<data, sampler, irq_off, at, regs, calls, made>>

Pairs == [self : Functions, from : Functions]
NoRegs == [self |-> None, from |-> None, entry |-> None, arc |-> None, count |-> 0, head |-> <<>>]
Places == {"idle", "entry", "arc", "store", "test", "clear", "init", "link", "push"}

TypeOK ==
  /\ \A e \in 1..Len(entries) : /\ entries[e].self \in Functions
                                /\ entries[e].arcs \in Seq(1..Len(arcs))
  /\ chain \in Seq(1..Len(entries))
  /\ \A a \in 1..Len(arcs) : arcs[a].from \in Functions /\ arcs[a].count \in 1..MaxCalls
  /\ pcsample_need_init \in {0, 1} /\ rate \in {0, 1} /\ started \in Nat /\ irq_off \in BOOLEAN
  /\ at \in [Threads -> Places] /\ calls \in [Pairs -> 0..MaxCalls] /\ made \in 0..MaxCalls

Init ==
  /\ entries = <<>> /\ chain = <<>> /\ arcs = <<>>
  /\ pcsample_need_init = 1 /\ rate = 0 /\ started = 0 /\ irq_off = FALSE
  /\ at = [t \in Threads |-> "idle"] /\ regs = [t \in Threads |-> NoRegs]
  /\ calls = [p \in Pairs |-> 0] /\ made = 0

-----------------------------------------------------------------------------
\* The thread that runs: the routine, if there is one.
Running(t) == t = "isr" \/ at["isr"] = "idle"
Goes(t, from, to) == Running(t) /\ at[t] = from /\ at' = [at EXCEPT ![t] = to]

\* A function is entered: mcount(ra, r8).  Routines interrupt where they may.
Mcount(t, self, from) ==
  /\ made < MaxCalls /\ (t = "isr" => ~irq_off) /\ Goes(t, "idle", "entry")
  /\ regs' = [regs EXCEPT ![t] = [NoRegs EXCEPT !.self = self, !.from = from]]
  /\ calls' = [calls EXCEPT ![[self |-> self, from |-> from]] = @ + 1] /\ made' = made + 1
  /\ UNCHANGED <<data, sampler, irq_off>>

First(s, Is(_)) == LET k == {j \in 1..Len(s) : Is(s[j])} IN
  IF k = {} THEN None ELSE s[CHOOSE j \in k : \A i \in k : j <= i]

\* Entries and arcs are only ever added at the head, so that a search sees the
\* chain as it was when it read the head.
FindEntry(t) ==
  LET e == First(chain, LAMBDA n : entries[n].self = regs[t].self) IN
    /\ Goes(t, "entry", IF e = None THEN "test" ELSE "arc")
    /\ regs' = [regs EXCEPT ![t].entry = e]
    /\ UNCHANGED <<data, sampler, irq_off, calls, made>>

SameArc(t, a) == arcs[a].from = regs[t].from

\* The fast case reads the count of the arc.
FindArc(t) ==
  LET a == First(entries[regs[t].entry].arcs, LAMBDA n : SameArc(t, n)) IN
    /\ Goes(t, "arc", IF a = None THEN "test" ELSE "store")
    /\ regs' = [regs EXCEPT ![t].arc = a, ![t].count = IF a = None THEN 0 ELSE arcs[a].count]
    /\ UNCHANGED <<data, sampler, irq_off, calls, made>>

Store(t) ==
  /\ Goes(t, "store", "idle")
  /\ arcs' = [arcs EXCEPT ![regs[t].arc].count = regs[t].count + 1]
  /\ regs' = [regs EXCEPT ![t] = NoRegs]
  /\ UNCHANGED <<entries, chain, sampler, irq_off, calls, made>>

\* __mcount_record: the sampler first.
Test(t) ==
  /\ Goes(t, "test", IF pcsample_need_init = 1 THEN "clear" ELSE "link")
  /\ UNCHANGED <<data, sampler, irq_off, regs, calls, made>>
Clear(t) ==
  /\ Goes(t, "clear", "init") /\ pcsample_need_init' = 0
  /\ UNCHANGED <<data, rate, started, irq_off, regs, calls, made>>
\* nios2_pcsample_init.
InitSampler(t) ==
  /\ Goes(t, "init", "link")
  /\ pcsample_need_init' = (IF rate = 0 THEN 1 ELSE 0) /\ started' = started + rate
  /\ UNCHANGED <<data, rate, irq_off, regs, calls, made>>

\* Slip: interrupts stay on.
Link_On(t) ==
  /\ Goes(t, "link", "push") /\ UNCHANGED irq_off
  /\ regs' = [regs EXCEPT ![t].head = chain]
  /\ UNCHANGED <<data, sampler, calls, made>>
\* Then, with interrupts off, the entry, if there was none, and the arc.
Link(t) ==
  /\ Goes(t, "link", "push") /\ irq_off' = (IF t = "isr" THEN irq_off ELSE TRUE)
  /\ regs' = [regs EXCEPT ![t].head = chain]
  /\ UNCHANGED <<data, sampler, calls, made>>

Fresh(from) == [from |-> from, count |-> 1]

Push(t) ==
  LET new == regs[t].entry = None
      e == IF new THEN Len(entries) + 1 ELSE regs[t].entry
      a == Len(arcs) + 1
  IN /\ Goes(t, "push", "idle") /\ irq_off' = (IF t = "isr" THEN irq_off ELSE FALSE)
     /\ arcs' = Append(arcs, Fresh(regs[t].from))
     /\ entries' = IF new THEN Append(entries, [self |-> regs[t].self, arcs |-> <<a>>])
                   ELSE [entries EXCEPT ![e].arcs = <<a>> \o @]
     /\ chain' = IF new THEN <<e>> \o regs[t].head ELSE chain
     /\ regs' = [regs EXCEPT ![t] = NoRegs]
     /\ UNCHANGED <<sampler, calls, made>>

\* The driver of the system clock starts.
SysclkInit ==
  /\ rate = 0 /\ rate' = 1 /\ at["isr"] = "idle"
  /\ UNCHANGED <<data, pcsample_need_init, started, irq_off, at, regs, calls, made>>

InMcount(t) ==
  \/ FindEntry(t) \/ FindArc(t) \/ Store(t)
  \/ Test(t) \/ Clear(t) \/ InitSampler(t) \/ Link(t) \/ Push(t)
Next ==
  \/ SysclkInit
  \/ \E t \in Threads : InMcount(t) \/ \E self, from \in Functions : Mcount(t, self, from)

Spec == Init /\ [][Next]_vars

-----------------------------------------------------------------------------
\* The arcs that gmon.out will show: [self, from] of each arc on a list.
Shown == UNION {{[self |-> entries[chain[k]].self, arc |-> a] :
                   a \in {entries[chain[k]].arcs[j] : j \in 1..Len(entries[chain[k]].arcs)}} :
                k \in 1..Len(chain)}
Quiet == \A t \in Threads : at[t] = "idle"
ArcsOf(p) == {s \in Shown : s.self = p.self /\ arcs[s.arc].from = p.from}

\* Nothing allocated is lost: every entry and every arc is on its list once,
\* although routines insert while the program searches or inserts.
NothingUnlinked ==
  /\ {chain[k] : k \in 1..Len(chain)} = 1..Len(entries) /\ Len(chain) = Len(entries)
  /\ Cardinality(Shown) = Len(arcs)

\* Every arc that has been followed is shown, and never more often than it was
\* followed, duplicates included.
ArcsAreKnown ==
  \A p \in Pairs :
    LET n == {x \in ArcsOf(p) \X (1..MaxCalls) : x[2] <= arcs[x[1].arc].count} IN
      /\ Cardinality(n) <= calls[p]
      /\ Quiet /\ calls[p] > 0 => ArcsOf(p) # {}
=============================================================================
