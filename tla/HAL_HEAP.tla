------------------------------ MODULE HAL_HEAP ------------------------------
(***************************************************************************)
(* sbrk: the end of the heap moves up, with interrupts off, because the    *)
(* program and interrupt routines (profiling) both allocate.  The          *)
(* program's call is taken apart; one of an interrupt routine runs through *)
(* between two steps of it, whenever interrupts are on.                    *)
(***************************************************************************)
EXTENDS Integers, Sequences

CONSTANTS
  alt_heap_start, alt_heap_limit,  \* from the linker
  Sizes,                           \* what is asked for
  MaxBlocks                        \* bound on the blocks allocated

ASSUME HeapAssumption ==
  /\ alt_heap_start \in Nat /\ alt_heap_limit \in Nat /\ alt_heap_start <= alt_heap_limit
  /\ Sizes \subseteq Nat

VARIABLES
  heap_end,
  blocks,         \* the blocks handed out, one after the other
  irq_off,        \* alt_irq_disable_all() is in force
  pc,             \* where the program is in sbrk
  incr,           \* its argument
  prev_heap_end,
  refused         \* the last call returned -1
vars == <<heap_end, blocks, irq_off, pc, incr, prev_heap_end, refused>>

TypeOK ==
  /\ heap_end \in alt_heap_start..alt_heap_limit + 3 /\ blocks \in Seq([at : Nat, size : Sizes])
  /\ irq_off \in BOOLEAN /\ pc \in {"idle", "test", "extend", "return"} /\ incr \in Sizes \cup {0}
  /\ prev_heap_end \in Nat /\ refused \in BOOLEAN

Init ==
  /\ heap_end = alt_heap_start /\ blocks = <<>>
  /\ irq_off = FALSE /\ pc = "idle" /\ incr = 0 /\ prev_heap_end = alt_heap_start /\ refused = FALSE

-----------------------------------------------------------------------------
\* Up to the next word.
Aligned(p) == p + ((4 - (p % 4)) % 4)

Fits(p, n) == p + n <= alt_heap_limit

\* Slip: interrupts stay on.
Sbrk_On(n) ==
  /\ pc = "idle" /\ Len(blocks) < MaxBlocks
  /\ UNCHANGED irq_off /\ incr' = n /\ heap_end' = Aligned(heap_end) /\ pc' = "test"
  /\ UNCHANGED <<blocks, prev_heap_end, refused>>
\* sbrk called by the program: interrupts off and align; test the limit; note
\* the old end and extend; interrupts back on.
Sbrk(n) ==
  /\ pc = "idle" /\ Len(blocks) < MaxBlocks
  /\ irq_off' = TRUE /\ incr' = n /\ heap_end' = Aligned(heap_end) /\ pc' = "test"
  /\ UNCHANGED <<blocks, prev_heap_end, refused>>
Refuse ==
  /\ pc = "test" /\ ~Fits(heap_end, incr)
  /\ irq_off' = FALSE /\ pc' = "idle" /\ refused' = TRUE
  /\ UNCHANGED <<heap_end, blocks, incr, prev_heap_end>>
Note ==
  /\ pc = "test" /\ Fits(heap_end, incr)
  /\ prev_heap_end' = heap_end /\ pc' = "extend"
  /\ UNCHANGED <<heap_end, blocks, irq_off, incr, refused>>
Extend ==
  /\ pc = "extend" /\ heap_end' = heap_end + incr /\ pc' = "return"
  /\ UNCHANGED <<blocks, irq_off, incr, prev_heap_end, refused>>
Return ==
  /\ pc = "return" /\ blocks' = Append(blocks, [at |-> prev_heap_end, size |-> incr])
  /\ irq_off' = FALSE /\ pc' = "idle" /\ refused' = FALSE
  /\ UNCHANGED <<heap_end, incr, prev_heap_end>>

\* sbrk called by an interrupt routine.
IsrSbrk(n) ==
  /\ ~irq_off /\ Len(blocks) < MaxBlocks
  /\ IF Fits(Aligned(heap_end), n)
     THEN /\ heap_end' = Aligned(heap_end) + n /\ refused' = FALSE
          /\ blocks' = Append(blocks, [at |-> Aligned(heap_end), size |-> n])
     ELSE heap_end' = Aligned(heap_end) /\ refused' = TRUE /\ UNCHANGED blocks
  /\ UNCHANGED <<irq_off, pc, incr, prev_heap_end>>

Next ==
  \/ \E n \in Sizes : Sbrk(n) \/ IsrSbrk(n)
  \/ Refuse \/ Note \/ Extend \/ Return

Spec == Init /\ [][Next]_vars

-----------------------------------------------------------------------------
\* No two blocks share a byte, whoever asked for them and whoever was
\* interrupted by whom.
Disjoint ==
  \A i \in 1..Len(blocks), j \in 1..Len(blocks) : i < j =>
    blocks[i].at + blocks[i].size <= blocks[j].at \/ blocks[j].at + blocks[j].size <= blocks[i].at

\* A block starts on a word and lies in the region of the heap: a request that goes
\* past its end is refused (alt_sbrk.c:88), although :46-48 says that nothing is
\* checked.  The stack starts at that end and grows down into the same region
\* (linker.x:375 and 385), and nothing here keeps the two apart.
InHeap ==
  \A i \in 1..Len(blocks) :
    /\ blocks[i].at % 4 = 0 /\ blocks[i].at >= alt_heap_start
    /\ blocks[i].at + blocks[i].size <= alt_heap_limit

\* What the program holds is no one else's that calls sbrk, and lies in the region.
HeapIsSound == Disjoint /\ InHeap
=============================================================================
