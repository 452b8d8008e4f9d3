------------------------------ MODULE HAL_SLAB ------------------------------
(***************************************************************************)
(* The memory of profiling: slabs, from which the records of mcount are    *)
(* cut, and the histogram of the sampler, all from the sbrk that the       *)
(* program uses too (HAL_HEAP; memory does not run out here).              *)
(***************************************************************************)
EXTENDS Integers, FiniteSets

CONSTANTS
  INCREMENT, BYTES_PER_BUCKET,  \* MCOUNT_SLAB_INCREMENT, PCSAMPLE_BYTES_PER_BUCKET
  Records,                      \* the sizes of the records
  Texts,                        \* the sizes the text section may have, from address 0
  MaxBlocks                     \* bound on the pieces of memory in use

\* A slab has room for a record; the linker places the end of the text anywhere.
SlabAssumption ==
  /\ INCREMENT \in Nat /\ BYTES_PER_BUCKET \in Nat \ {0} /\ Records \subseteq 1..INCREMENT
  /\ Texts \subseteq Nat

VARIABLES
  brk,                \* the end of the heap
  owned,              \* the pieces in use: [at, size, of]
  mcount_slab_ptr, mcount_slab_size,
  etext,              \* the end of the text section
  written             \* the bytes the sampler has written
vars == <<brk, owned, mcount_slab_ptr, mcount_slab_size, etext, written>>

Piece(p, n, who) == [at |-> p, size |-> n, of |-> who]
Bytes(b) == b.at..b.at + b.size - 1
Buffer == {b \in owned : b.of = "sampler"}
Room == Cardinality(owned) < MaxBlocks

Init ==
  /\ brk = 0 /\ owned = {} /\ mcount_slab_ptr = 0 /\ mcount_slab_size = 0
  /\ etext \in Texts /\ written = {}

\* The program extends the heap.
Sbrk(n) ==
  /\ Room /\ owned' = owned \cup {Piece(brk, n, "program")} /\ brk' = brk + n
  /\ UNCHANGED <<mcount_slab_ptr, mcount_slab_size, etext, written>>

Fits(size) == size <= mcount_slab_size

\* mcount_allocate: what is left of a slab too small for the record is lost.
Allocate(size) ==
  /\ Room
  /\ LET ptr == IF Fits(size) THEN mcount_slab_ptr ELSE brk IN
       /\ owned' = owned \cup {Piece(ptr, size, "mcount")} /\ mcount_slab_ptr' = ptr + size
       /\ mcount_slab_size' = (IF Fits(size) THEN mcount_slab_size ELSE INCREMENT) - size
  /\ brk' = IF Fits(size) THEN brk ELSE brk + INCREMENT
  /\ UNCHANGED <<etext, written>>

\* nios2_pcsample_init: two bytes for each whole bucket.
InitSampler ==
  LET n == 2 * (etext \div BYTES_PER_BUCKET) IN
    /\ Buffer = {} /\ Room
    /\ owned' = owned \cup {Piece(brk, n, "sampler")} /\ brk' = brk + n
    /\ UNCHANGED <<mcount_slab_ptr, mcount_slab_size, etext, written>>

Bucket(pc) == 2 * (pc \div BYTES_PER_BUCKET)

\* nios2_pcsample, at a program counter in the text section.
Sample(pc) ==
  /\ pc < etext
  /\ \E b \in Buffer : written' = written \cup {b.at + Bucket(pc), b.at + Bucket(pc) + 1}
  /\ UNCHANGED <<brk, owned, mcount_slab_ptr, mcount_slab_size, etext>>

Next ==
  \/ \E n \in Records : Sbrk(n) \/ Allocate(n)
  \/ InitSampler
  \/ \E pc \in 0..etext - 1 : Sample(pc)

Spec == Init /\ [][Next]_vars

-----------------------------------------------------------------------------
\* Records, histogram and the blocks of the program share no byte, and all of
\* them lie in memory that sbrk has given out.
PiecesApart ==
  /\ \A b \in owned, c \in owned : b # c => Bytes(b) \cap Bytes(c) = {}
  /\ \A b \in owned : Bytes(b) \subseteq 0..brk - 1

\* The sampler writes to its histogram, if the text section is so many whole buckets.
\* Otherwise samples at the end of the text go behind it (alt_gmon.c:226 rounds down,
\* :260 tests the address only): by one count of two bytes, and no further.
SamplesInBuffer ==
  LET beyond == IF etext % BYTES_PER_BUCKET = 0 THEN 0 ELSE 2 IN
    \A b \in Buffer : written \subseteq b.at..b.at + b.size + beyond - 1
=============================================================================
