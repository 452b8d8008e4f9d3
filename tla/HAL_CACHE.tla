------------------------------ MODULE HAL_CACHE ------------------------------
(***************************************************************************)
(* The cache functions, on direct-mapped caches, as a processor with       *)
(* caches would use them (this one has none): memory that is accessed      *)
(* around the data cache, and code that is written and then executed.  Of  *)
(* a copy of a byte only one thing is kept: is it what was last written?   *)
(***************************************************************************)
EXTENDS Integers

CONSTANTS
  Size,                    \* bytes of memory
  LINE_SIZE, CACHE_SIZE,   \* of either cache, in bytes
  WholeLines               \* are blocks remapped and discarded whole lines?

CacheAssumption ==
  /\ Size \in Nat /\ LINE_SIZE \in Nat \ {0} /\ WholeLines \in BOOLEAN
  /\ CACHE_SIZE \in Nat \ {0} /\ CACHE_SIZE % LINE_SIZE = 0

Addr == 0..Size - 1
Line(a) == a \div LINE_SIZE
Index(a) == Line(a) % (CACHE_SIZE \div LINE_SIZE)
Indices == 0..(CACHE_SIZE \div LINE_SIZE) - 1
None == -1
Empty == [line |-> None, dirty |-> FALSE, fresh |-> {}]

VARIABLES
  mem,        \* the addresses whose byte in memory is the last written
  dcache,     \* each index: the line, has it been written, its fresh bytes
  icache,
  uncached,   \* the addresses the program uses around the data cache
  code,       \* the addresses the program may execute
  pending,    \* code for which only the data cache has been flushed
  flushda,    \* is there an instruction that flushes by address?
  uses        \* "alias", memory around the cache, or "code"
config == <<flushda, uses>>
vars == <<mem, dcache, icache, uncached, code, pending, config>>

Init ==
  /\ mem = Addr /\ dcache = [i \in Indices |-> Empty] /\ icache = [i \in Indices |-> Empty]
  /\ uncached = {} /\ code = {} /\ pending = {} /\ flushda \in BOOLEAN
  /\ uses \in {"alias", "code"}

Holds(cache, a) == cache[Index(a)].line = Line(a)
Fresh(cache, a) == IF Holds(cache, a) THEN a \in cache[Index(a)].fresh ELSE a \in mem
Region(start, len) == start..start + len - 1
Whole(start, len) == WholeLines => start % LINE_SIZE = 0 /\ len % LINE_SIZE = 0

-----------------------------------------------------------------------------
\* Memory when the lines at the indices are written back.
WrittenBack(indices) ==
  {a \in Addr : IF Index(a) \in indices /\ Holds(dcache, a) /\ dcache[Index(a)].dirty
                THEN a \in dcache[Index(a)].fresh ELSE a \in mem}

\* The line of an address as it is read from memory.
Filled(m, a) == [line |-> Line(a), dirty |-> FALSE, fresh |-> {b \in m : Line(b) = Line(a)}]

Access(a, l) ==
  /\ dcache' = [dcache EXCEPT ![Index(a)] = l]
  /\ UNCHANGED <<icache, uncached, pending, config>>

\* The program reads and writes; what it wrote it does not execute until the
\* caches have been flushed.
Read(a) ==
  /\ a \notin uncached /\ ~Holds(dcache, a) /\ pending = {}
  /\ mem' = WrittenBack({Index(a)}) /\ Access(a, Filled(mem', a)) /\ UNCHANGED code
Write(a) ==
  /\ a \notin uncached /\ pending = {} /\ code' = code \ {a}
  /\ LET m == IF Holds(dcache, a) THEN mem ELSE WrittenBack({Index(a)})
         l == IF Holds(dcache, a) THEN dcache[Index(a)] ELSE Filled(m, a)
     IN /\ Access(a, [l EXCEPT !.dirty = TRUE, !.fresh = @ \cup {a}])
        /\ mem' = m \ {a}
WriteUncached(a) ==
  /\ a \in uncached /\ pending = {} /\ code' = code \ {a} /\ mem' = mem \cup {a}
  /\ Access(a, IF Holds(dcache, a) THEN [dcache[Index(a)] EXCEPT !.fresh = @ \ {a}]
               ELSE dcache[Index(a)])

\* The processor fetches instructions, whatever it is doing.
Fetch(a) ==
  /\ uses = "code" /\ ~Holds(icache, a)
  /\ icache' = [icache EXCEPT ![Index(a)] = Filled(mem, a)]
  /\ UNCHANGED <<mem, dcache, uncached, code, pending, config>>

-----------------------------------------------------------------------------
Trimmed(len) == IF len > CACHE_SIZE /\ ~flushda THEN CACHE_SIZE ELSE len

\* Slip: without the line that an unaligned start leaves over.
Walk_Aligned(start, len) ==
  {start + k * LINE_SIZE : k \in {k \in 0..Size : k * LINE_SIZE < len}}
\* The addresses the flush loops touch: from start in steps of a line, and one
\* more after an unaligned start.
Walk(start, len) ==
  LET more == IF start % LINE_SIZE = 0 THEN 0 ELSE LINE_SIZE
  IN {start + k * LINE_SIZE : k \in {k \in 0..Size : k * LINE_SIZE < len + more}}

\* The indices at which a walk finds a line: by address, or whatever is there.
Found(walk, byAddress) ==
  {Index(i) : i \in {i \in walk : byAddress => Holds(dcache, i)}}
Dropped(cache, indices) == [i \in Indices |-> IF i \in indices THEN Empty ELSE cache[i]]

FlushData(start, len) ==
  LET indices == Found(Walk(start, Trimmed(len)), flushda) IN
    /\ mem' = WrittenBack(indices) /\ dcache' = Dropped(dcache, indices)

\* alt_dcache_flush.
Flush(start, len) ==
  /\ pending = {} /\ FlushData(start, len) /\ UNCHANGED <<icache, uncached, code, pending, config>>

\* alt_dcache_flush_no_writeback: what has been written to the block is given up.
FlushNoWriteback(start, len) ==
  /\ Whole(start, len) /\ pending = {} /\ Region(start, len) \cap uncached = {}
  /\ dcache' = Dropped(dcache, Found(Walk(start, len), TRUE))
  /\ mem' = mem \cup Region(start, len) /\ code' = code \ Region(start, len)
  /\ UNCHANGED <<icache, uncached, pending, config>>

\* A block is used around the cache, and through it again.
RemapUncached(start, len) ==
  /\ uses = "alias" /\ Whole(start, len) /\ FlushData(start, len)
  /\ uncached' = uncached \cup Region(start, len) /\ UNCHANGED <<icache, code, pending, config>>
RemapCached(start, len) ==
  /\ Whole(start, len) /\ Region(start, len) \subseteq uncached
  /\ uncached' = uncached \ Region(start, len) /\ UNCHANGED <<mem, dcache, icache, code, pending, config>>
\* malloc gives out memory that is used as such.
UncachedMalloc(start, len) == Region(start, len) \cap uncached = {} /\ RemapUncached(start, len)
UncachedFree(start, len) == len > 0 /\ RemapCached(start, len)

\* Code is published: first alt_dcache_flush, or alt_dcache_flush_all, ...
Publish(start, len) ==
  /\ uses = "code" /\ pending = {} /\ FlushData(start, len) /\ pending' = Region(start, len)
  /\ UNCHANGED <<icache, uncached, code, config>>
PublishAll ==
  /\ uses = "code" /\ pending = {} /\ mem' = WrittenBack(Indices) /\ dcache' = Dropped(dcache, Indices)
  /\ pending' = Addr /\ UNCHANGED <<icache, uncached, code, config>>
\* ... then alt_icache_flush, which flushes by index, or alt_icache_flush_all.
FlushInstructions(start, len) ==
  /\ pending # {} /\ code' = code \cup pending /\ pending' = {}
  /\ icache' = Dropped(icache, {Index(i) : i \in Walk(start, IF len > CACHE_SIZE THEN CACHE_SIZE ELSE len)})
  /\ UNCHANGED <<mem, dcache, uncached, config>>
FlushAllInstructions == pending = Addr /\ FlushInstructions(0, CACHE_SIZE)

Next ==
  \/ \E a \in Addr : Read(a) \/ Write(a) \/ WriteUncached(a) \/ Fetch(a)
  \/ \E start \in Addr, len \in 0..Size :
       /\ start + len <= Size
       /\ \/ Flush(start, len) \/ FlushNoWriteback(start, len)
          \/ RemapUncached(start, len) \/ RemapCached(start, len)
          \/ UncachedMalloc(start, len) \/ UncachedFree(start, len)
          \/ Publish(start, len) \/ (pending = Region(start, len) /\ FlushInstructions(start, len))
  \/ PublishAll \/ FlushAllInstructions

Spec == Init /\ [][Next]_vars

-----------------------------------------------------------------------------
\* A byte reads back as it was last written, through the alias in use: no flush
\* or remap leaves a stale copy in the way, or writes one over it later.
ReadsLatest == \A a \in Addr : IF a \in uncached THEN a \in mem ELSE Fresh(dcache, a)

\* Code that has been published is executed as it was written, whatever the
\* processor fetched meanwhile.
FetchesLatest == \A a \in code \ uncached : Fresh(icache, a)
=============================================================================
