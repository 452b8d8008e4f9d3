------------------------- MODULE HAL_LIBRARY_proofs -------------------------
(***************************************************************************)
(* Parts of the library, for every heap, every pool of descriptors, all    *)
(* devices, names, texts and formats, caches of every size, any functions. *)
(*   heap   Blocks are handed out in ascending order, all below the end of *)
(*          the heap (below its old end, while the program holds it), and  *)
(*          nobody else moves the end while the program is in sbrk.        *)
(*   files  Only descriptors of devices are locked, and up to the mark, so *)
(*          that the search for a lock sees all of them; every call takes, *)
(*          frees or edits one entry, and what the program holds follows.  *)
(*   names  A string ends where its NUL is, so that two that agree up to   *)
(*          and with the NUL of one of them are the same.                  *)
(*   caches A line that is held has its bytes as last written, and memory  *)
(*          too unless the line will be written back; a walk over a block  *)
(*          finds all its lines, or every place there is.                  *)
(*   log    The alarm is only set where its level is on, and then again and*)
(*          again; a string ends where its NUL is, and so does an echo.    *)
(*   slabs  Pieces handed out, and what is left of the slab, lie apart.    *)
(*   records  Every arc is on lists of one function; a thread in mcount has*)
(*          read what still holds, and its call has not been counted yet.  *)
(*   printf Digits are remainders to a power, added up they are the number;*)
(*          a field is blanks or zeros, a sign and digits.                 *)
(***************************************************************************)
EXTENDS MC_Library, SequenceTheorems, FiniteSetTheorems, WellFoundedInduction,
        NaturalsInduction, TLAPS

-----------------------------------------------------------------------------
(* The heap. *)

Block == [at : Nat, size : Sizes]
End(b) == b.at + b.size

\* Every block ends at e or before.
Below(e) == \A i \in 1..Len(blocks) : End(blocks[i]) <= e
Ordered ==
  \A i \in 1..Len(blocks), j \in 1..Len(blocks) : i < j => End(blocks[i]) <= blocks[j].at

\* What the program knows at each step of its call.
Program ==
  /\ pc # "idle" => irq_off /\ incr \in Sizes
  /\ pc = "test" => heap_end % 4 = 0
  /\ pc = "extend" => /\ prev_heap_end = heap_end /\ heap_end % 4 = 0
                      /\ heap_end + incr <= alt_heap_limit
  /\ pc = "return" => /\ heap_end = prev_heap_end + incr /\ prev_heap_end % 4 = 0
                      /\ prev_heap_end >= alt_heap_start
                      /\ heap_end <= alt_heap_limit /\ Below(prev_heap_end)

\* Only an end that is aligned passes the limit.
Rounded == heap_end <= alt_heap_limit \/ heap_end % 4 = 0

HeapInv == TypeOK /\ Ordered /\ InHeap /\ Below(heap_end) /\ Rounded /\ Program

\* The next word is at most three bytes up.
LEMMA AlignedFacts ==
  ASSUME NEW p \in Nat
  PROVE  /\ Aligned(p) \in Nat /\ p <= Aligned(p) /\ Aligned(p) <= p + 3
         /\ Aligned(p) % 4 = 0
         /\ p % 4 = 0 => Aligned(p) = p
<1>1. PICK q \in Nat, r \in 0..3 : p = 4 * q + r
  <2>1. p = 4 * (p \div 4) + (p % 4) /\ p \div 4 \in Nat /\ p % 4 \in 0..3
    OBVIOUS
  <2> QED
    BY <2>1
<1>2. p % 4 = r
  BY <1>1
<1> QED
  BY <1>1, <1>2 DEF Aligned

\* Aligning keeps the end of the heap in its range.
LEMMA AlignedEnd ==
  ASSUME TypeOK, Rounded
  PROVE  /\ heap_end \in Nat /\ heap_end <= Aligned(heap_end)
         /\ Aligned(heap_end) % 4 = 0
         /\ Aligned(heap_end) \in alt_heap_start..alt_heap_limit + 3
         /\ alt_heap_start <= Aligned(heap_end) /\ Aligned(heap_end) \in Nat
<1>1. heap_end \in Nat /\ alt_heap_start <= heap_end /\ heap_end <= alt_heap_limit + 3
  BY HeapAssumption DEF TypeOK
<1>2. /\ Aligned(heap_end) \in Nat /\ heap_end <= Aligned(heap_end)
      /\ Aligned(heap_end) <= heap_end + 3 /\ Aligned(heap_end) % 4 = 0
      /\ heap_end % 4 = 0 => Aligned(heap_end) = heap_end
  BY <1>1, AlignedFacts
<1>3. Aligned(heap_end) <= alt_heap_limit + 3
  BY <1>1, <1>2, HeapAssumption DEF Rounded
<1> QED
  BY <1>1, <1>2, <1>3, HeapAssumption

LEMMA BlockTypes ==
  ASSUME TypeOK, NEW i \in 1..Len(blocks)
  PROVE  blocks[i].at \in Nat /\ blocks[i].size \in Nat /\ End(blocks[i]) \in Nat
<1>1. blocks \in Seq(Block)
  BY DEF TypeOK, Block
<1>2. blocks[i] \in Block
  BY <1>1
<1>3. blocks[i].at \in Nat /\ blocks[i].size \in Nat
  BY <1>2, HeapAssumption DEF Block
<1> QED
  BY <1>3 DEF End

\* A block at the end of all others keeps them apart and in the heap.
LEMMA BlockAppended ==
  ASSUME TypeOK, Ordered, InHeap,
         NEW place \in Nat, NEW size \in Sizes, Below(place),
         place % 4 = 0, place >= alt_heap_start, place + size <= alt_heap_limit,
         blocks' = Append(blocks, [at |-> place, size |-> size])
  PROVE  /\ blocks' \in Seq(Block) /\ Ordered' /\ InHeap'
         /\ \A i \in 1..Len(blocks') : End(blocks'[i]) <= place + size
<1> DEFINE b == [at |-> place, size |-> size]
           n == Len(blocks)
<1>1. size \in Nat /\ b \in Block /\ End(b) = place + size
  BY HeapAssumption DEF Block, End
<1>2. blocks \in Seq(Block) /\ n \in Nat
  BY DEF TypeOK, Block
<1>3. /\ blocks' \in Seq(Block) /\ Len(blocks') = n + 1
      /\ \A i \in 1..n : blocks'[i] = blocks[i] /\ blocks[i] \in Block
      /\ blocks'[n + 1] = b
  BY <1>1, <1>2
<1>4. \A i \in 1..n : End(blocks[i]) <= place /\ End(blocks[i]) \in Nat
  BY BlockTypes DEF Below
<1>5. Ordered'
  <2> SUFFICES ASSUME NEW i \in 1..n + 1, NEW j \in 1..n + 1, i < j
               PROVE  End(blocks'[i]) <= blocks'[j].at
    BY <1>3 DEF Ordered
  <2>1. i \in 1..n
    BY <1>2
  <2>2. CASE j = n + 1
    BY <2>1, <2>2, <1>3, <1>4
  <2>3. CASE j # n + 1
    <3>0. \A m \in Nat : \A k \in 1..m + 1 : k # m + 1 => k \in 1..m
      OBVIOUS
    <3>1. j \in 1..n
      BY <2>3, <1>2, <3>0
    <3>2. End(blocks[i]) <= blocks[j].at
      BY <2>1, <3>1 DEF Ordered
    <3> QED
      BY <2>1, <3>1, <3>2, <1>3
  <2> QED
    BY <2>2, <2>3
<1>6. InHeap'
  <2> SUFFICES ASSUME NEW i \in 1..n + 1
               PROVE  /\ blocks'[i].at % 4 = 0 /\ blocks'[i].at >= alt_heap_start
                      /\ blocks'[i].at + blocks'[i].size <= alt_heap_limit
    BY <1>3 DEF InHeap
  <2>1. CASE i = n + 1
    BY <2>1, <1>3
  <2>2. CASE i # n + 1
    BY <2>2, <1>2, <1>3 DEF InHeap
  <2> QED
    BY <2>1, <2>2
<1>7. ASSUME NEW i \in 1..n + 1 PROVE End(blocks'[i]) <= place + size
  <2>1. CASE i = n + 1
    BY <2>1, <1>1, <1>3
  <2>2. CASE i # n + 1
    <3>1. i \in 1..n /\ blocks'[i] = blocks[i]
      BY <2>2, <1>2, <1>3
    <3>2. End(blocks[i]) <= place /\ End(blocks[i]) \in Nat
      BY <3>1, <1>4
    <3> QED
      BY <3>1, <3>2, <1>1
  <2> QED
    BY <2>1, <2>2
<1> QED
  BY <1>3, <1>5, <1>6, <1>7

\* Blocks below an end are below every higher one.
LEMMA BelowHigher ==
  ASSUME TypeOK, NEW e \in Nat, NEW f \in Nat, e <= f, Below(e)
  PROVE  Below(f)
<1> SUFFICES ASSUME NEW i \in 1..Len(blocks) PROVE End(blocks[i]) <= f
  BY DEF Below
<1>1. End(blocks[i]) \in Nat /\ End(blocks[i]) <= e
  BY BlockTypes DEF Below
<1> QED
  BY <1>1

LEMMA InitHeapInv == Init => HeapInv
<1> SUFFICES ASSUME Init PROVE HeapInv
  OBVIOUS
<1>1. blocks = <<>> /\ Len(blocks) = 0 /\ 1..Len(blocks) = {}
  BY DEF Init
<1>2. TypeOK
  <2>1. blocks \in Seq([at : Nat, size : Sizes])
    BY <1>1
  <2>2. heap_end \in alt_heap_start..alt_heap_limit + 3 /\ prev_heap_end \in Nat
    BY HeapAssumption DEF Init
  <2> QED
    BY <2>1, <2>2 DEF Init, TypeOK
<1>3. Ordered /\ InHeap /\ Below(heap_end)
  BY <1>1 DEF Ordered, InHeap, Below
<1>4. Rounded /\ Program
  BY HeapAssumption DEF Init, Rounded, Program
<1> QED
  BY <1>2, <1>3, <1>4 DEF HeapInv

\* Without a new block only the bounds of the old ones have to be looked at.
LEMMA SameBlocks ==
  ASSUME HeapInv, UNCHANGED blocks
  PROVE  /\ Ordered' /\ InHeap' /\ blocks' \in Seq([at : Nat, size : Sizes])
         /\ \A e \in Nat : heap_end <= e => \A i \in 1..Len(blocks') : End(blocks'[i]) <= e
<1>1. Ordered' /\ InHeap' /\ blocks' \in Seq([at : Nat, size : Sizes])
  BY DEF HeapInv, TypeOK, Ordered, InHeap, End
<1>2. heap_end \in Nat
  BY AlignedEnd DEF HeapInv
<1> QED
  BY <1>1, <1>2, BelowHigher DEF HeapInv, Below

LEMMA SbrkInv ==
  ASSUME HeapInv, NEW n \in Sizes, Sbrk(n)
  PROVE  HeapInv'
<1>1. /\ UNCHANGED <<blocks, prev_heap_end, refused>>
      /\ irq_off' = TRUE /\ incr' = n /\ pc' = "test" /\ heap_end' = Aligned(heap_end)
  BY DEF Sbrk
<1>2. /\ heap_end \in Nat /\ heap_end <= heap_end' /\ heap_end' % 4 = 0 /\ heap_end' \in Nat
      /\ heap_end' \in alt_heap_start..alt_heap_limit + 3
  BY <1>1, AlignedEnd DEF HeapInv
<1>3. Ordered' /\ InHeap' /\ Below(heap_end)'
  BY <1>1, <1>2, SameBlocks DEF Below
<1>4. TypeOK'
  BY <1>1, <1>2, SameBlocks DEF HeapInv, TypeOK
<1>5. Rounded' /\ Program'
  BY <1>1, <1>2 DEF Rounded, Program
<1> QED
  BY <1>3, <1>4, <1>5 DEF HeapInv

LEMMA RefuseInv ==
  ASSUME HeapInv, Refuse
  PROVE  HeapInv'
<1>1. /\ UNCHANGED <<heap_end, blocks, incr, prev_heap_end>>
      /\ irq_off' = FALSE /\ pc' = "idle" /\ refused' = TRUE
  BY DEF Refuse
<1>2. Ordered' /\ InHeap' /\ Below(heap_end)'
  BY <1>1, SameBlocks DEF HeapInv, Below
<1> QED
  BY <1>1, <1>2 DEF HeapInv, TypeOK, Rounded, Program

LEMMA NoteInv ==
  ASSUME HeapInv, Note
  PROVE  HeapInv'
<1>1. /\ UNCHANGED <<heap_end, blocks, irq_off, incr, refused>> /\ pc = "test"
      /\ prev_heap_end' = heap_end /\ pc' = "extend" /\ heap_end + incr <= alt_heap_limit
  BY DEF Note, Fits
<1>2. Ordered' /\ InHeap' /\ Below(heap_end)' /\ heap_end \in Nat
  BY <1>1, SameBlocks, AlignedEnd DEF HeapInv, Below
<1> QED
  BY <1>1, <1>2 DEF HeapInv, TypeOK, Rounded, Program

\* The end moves up to the end of the block, which all others stay below.
LEMMA ExtendInv ==
  ASSUME HeapInv, Extend
  PROVE  HeapInv'
<1>1. /\ UNCHANGED <<blocks, irq_off, incr, prev_heap_end, refused>> /\ pc = "extend"
      /\ heap_end' = heap_end + incr /\ pc' = "return"
  BY DEF Extend
<1>2. /\ incr \in Sizes /\ incr \in Nat /\ irq_off
      /\ prev_heap_end = heap_end /\ heap_end % 4 = 0 /\ heap_end + incr <= alt_heap_limit
  BY <1>1, HeapAssumption DEF HeapInv, Program
<1>3. heap_end \in Nat /\ alt_heap_start <= heap_end
  BY HeapAssumption DEF HeapInv, TypeOK
<1>4. heap_end' \in Nat /\ heap_end <= heap_end' /\ heap_end' <= alt_heap_limit
  BY <1>1, <1>2, <1>3
<1>5. Ordered' /\ InHeap' /\ Below(heap_end)' /\ Below(prev_heap_end)'
  <2>1. UNCHANGED blocks /\ prev_heap_end' = heap_end
    BY <1>1, <1>2
  <2>2. /\ Ordered' /\ InHeap'
        /\ \A e \in Nat : heap_end <= e => \A i \in 1..Len(blocks') : End(blocks'[i]) <= e
    BY <2>1, SameBlocks
  <2>3. heap_end <= heap_end
    BY <1>3
  <2> QED
    BY <1>3, <1>4, <2>1, <2>2, <2>3 DEF Below
<1>6. heap_end' \in alt_heap_start..alt_heap_limit + 3
  BY <1>3, <1>4, HeapAssumption
<1>7. TypeOK'
  BY <1>1, <1>6, SameBlocks DEF HeapInv, TypeOK
<1>8. Rounded' /\ Program'
  BY <1>1, <1>2, <1>3, <1>4, <1>5 DEF Rounded, Program
<1> QED
  BY <1>5, <1>7, <1>8 DEF HeapInv

LEMMA ReturnInv ==
  ASSUME HeapInv, Return
  PROVE  HeapInv'
<1>1. /\ UNCHANGED <<heap_end, incr, prev_heap_end>> /\ pc = "return"
      /\ blocks' = Append(blocks, [at |-> prev_heap_end, size |-> incr])
      /\ irq_off' = FALSE /\ pc' = "idle" /\ refused' = FALSE
  BY DEF Return
<1>2. /\ incr \in Sizes /\ prev_heap_end \in Nat /\ prev_heap_end % 4 = 0
      /\ heap_end = prev_heap_end + incr /\ prev_heap_end >= alt_heap_start
      /\ heap_end <= alt_heap_limit /\ Below(prev_heap_end)
  BY <1>1 DEF HeapInv, Program, TypeOK
<1>3. blocks' \in Seq(Block) /\ Ordered' /\ InHeap' /\ Below(heap_end)'
  BY <1>1, <1>2, BlockAppended DEF HeapInv, Below
<1>4. TypeOK'
  BY <1>1, <1>3 DEF HeapInv, TypeOK, Block
<1> QED
  BY <1>1, <1>3, <1>4 DEF HeapInv, Rounded, Program

\* Interrupts are on only while the program is not in sbrk.
LEMMA IsrSbrkInv ==
  ASSUME HeapInv, NEW n \in Sizes, IsrSbrk(n)
  PROVE  HeapInv'
<1>1. /\ ~irq_off /\ UNCHANGED <<irq_off, pc, incr, prev_heap_end>> /\ refused' \in BOOLEAN
      /\ \/ /\ Aligned(heap_end) + n <= alt_heap_limit /\ heap_end' = Aligned(heap_end) + n
            /\ blocks' = Append(blocks, [at |-> Aligned(heap_end), size |-> n])
         \/ heap_end' = Aligned(heap_end) /\ UNCHANGED blocks
  BY DEF IsrSbrk, Fits
<1>2. /\ heap_end \in Nat /\ heap_end <= Aligned(heap_end) /\ Aligned(heap_end) % 4 = 0
      /\ Aligned(heap_end) \in alt_heap_start..alt_heap_limit + 3
      /\ alt_heap_start <= Aligned(heap_end) /\ Aligned(heap_end) \in Nat
  BY AlignedEnd DEF HeapInv
<1>3. pc = "idle" /\ Program'
  BY <1>1 DEF HeapInv, Program, TypeOK
<1>4. CASE heap_end' = Aligned(heap_end) /\ UNCHANGED blocks
  <2>1. Ordered' /\ InHeap' /\ Below(heap_end)'
    BY <1>2, <1>4, SameBlocks DEF Below
  <2>2. TypeOK'
    BY <1>1, <1>2, <1>4, SameBlocks DEF HeapInv, TypeOK
  <2> QED
    BY <1>2, <1>3, <1>4, <2>1, <2>2 DEF HeapInv, Rounded
<1>5. CASE /\ Aligned(heap_end) + n <= alt_heap_limit /\ heap_end' = Aligned(heap_end) + n
           /\ blocks' = Append(blocks, [at |-> Aligned(heap_end), size |-> n])
  <2>1. n \in Nat /\ Below(Aligned(heap_end))
    BY <1>2, BelowHigher, HeapAssumption DEF HeapInv
  <2>2. blocks' \in Seq(Block) /\ Ordered' /\ InHeap' /\ Below(heap_end)'
    BY <1>2, <1>5, <2>1, BlockAppended DEF HeapInv, Below
  <2>3. heap_end' \in alt_heap_start..alt_heap_limit + 3 /\ heap_end' <= alt_heap_limit
    BY <1>2, <1>5, <2>1, HeapAssumption
  <2>4. TypeOK'
    BY <1>1, <2>2, <2>3 DEF HeapInv, TypeOK, Block
  <2> QED
    BY <1>3, <2>2, <2>3, <2>4 DEF HeapInv, Rounded
<1> QED
  BY <1>1, <1>4, <1>5

LEMMA StutterInv == HeapInv /\ UNCHANGED vars => HeapInv'
<1> SUFFICES ASSUME HeapInv, UNCHANGED vars PROVE HeapInv'
  OBVIOUS
<1>1. UNCHANGED <<heap_end, blocks, irq_off, pc, incr, prev_heap_end, refused>>
  BY DEF vars
<1>2. TypeOK'
  BY <1>1 DEF HeapInv, TypeOK
<1>3. Ordered' /\ InHeap'
  BY <1>1 DEF HeapInv, Ordered, InHeap
<1>4. Below(heap_end)' /\ Rounded'
  BY <1>1 DEF HeapInv, Below, Rounded
<1>5. Program'
  BY <1>1 DEF HeapInv, Program, Below
<1> QED
  BY <1>2, <1>3, <1>4, <1>5 DEF HeapInv

LEMMA HeapStep == HeapInv /\ [Next]_vars => HeapInv'
<1> SUFFICES ASSUME HeapInv, [Next]_vars PROVE HeapInv'
  OBVIOUS
<1>1. ASSUME NEW n \in Sizes, Sbrk(n) PROVE HeapInv'
  BY <1>1, SbrkInv
<1>2. ASSUME NEW n \in Sizes, IsrSbrk(n) PROVE HeapInv'
  BY <1>2, IsrSbrkInv
<1>3. CASE Refuse
  BY <1>3, RefuseInv
<1>4. CASE Note
  BY <1>4, NoteInv
<1>5. CASE Extend
  BY <1>5, ExtendInv
<1>6. CASE Return
  BY <1>6, ReturnInv
<1>7. CASE UNCHANGED vars
  BY <1>7, StutterInv
<1> QED
  BY <1>1, <1>2, <1>3, <1>4, <1>5, <1>6, <1>7 DEF Next

LEMMA HeapInvariant == Spec => []HeapInv
<1> QED
  BY InitHeapInv, HeapStep, PTL DEF Spec

\* The end of the heap passes the limit by at most the three bytes of the
\* alignment, and every variable keeps its type.
THEOREM HeapTypeCorrect == Spec => []TypeOK
<1>1. HeapInv => TypeOK
  BY DEF HeapInv
<1> QED
  BY <1>1, HeapInvariant, PTL

\* No two blocks overlap, whoever allocates and whoever is interrupted, and
\* every block starts on a word and lies between the start and the limit.
THEOREM HeapSound == Spec => []HeapIsSound
<1>1. HeapInv => Disjoint
  BY DEF HeapInv, Ordered, Disjoint, End
<1>2. HeapInv => InHeap
  BY DEF HeapInv
<1>3. HeapInv => HeapIsSound
  BY <1>1, <1>2 DEF HeapIsSound
<1> QED
  BY <1>3, HeapInvariant, PTL

-----------------------------------------------------------------------------
(* Files and names: the searches of alt_find_dev and alt_find_file. *)

LEMMA LeastElement ==
  ASSUME NEW T \in SUBSET Nat, T # {}
  PROVE  \E m \in T : \A k \in T : ~(k < m)
<1>1. IsWellFoundedOn(OpToRel(<, Nat), Nat)
  BY NatLessThanWellFounded
<1>2. PICK m \in T : \A k \in T : ~(<<k, m>> \in OpToRel(<, Nat))
  BY <1>1, WFMin
<1> QED
  BY <1>2 DEF OpToRel

LEMMA MinIsLeast ==
  ASSUME NEW S \in SUBSET Nat, S # {}
  PROVE  Files!Min(S) \in S /\ \A k \in S : Files!Min(S) <= k
<1>1. PICK m \in S : \A y \in S : ~(y < m)
  BY LeastElement
<1>2. m \in Nat /\ \A y \in S : y \in Nat /\ m <= y
  BY <1>1
<1> QED
  BY <1>2 DEF Files!Min

\* The entry at the first of some places, if there is one.
At(s, places) == IF places # {} THEN s[Files!Min(places)] ELSE Files!None

LEMMA AtPlace ==
  ASSUME NEW S, NEW s \in Seq(S), NEW places \in SUBSET (1..Len(s))
  PROVE  At(s, places) \in S \cup {Files!None}
<1>1. CASE places = {}
  BY <1>1 DEF At
<1>2. CASE places # {}
  <2>1. Files!Min(places) \in places
    BY <1>2, MinIsLeast
  <2>2. s[Files!Min(places)] \in S
    BY <2>1, ElementOfSeq
  <2> QED
    BY <1>2, <2>2 DEF At
<1> QED
  BY <1>1, <1>2

\* As the search of the community modules says it.
LEMMA AtIf ==
  ASSUME NEW s, NEW places \in SUBSET (1..Len(s))
  PROVE  (IF (IF places # {} THEN Files!Min(places) ELSE 0) = 0 THEN Files!None
          ELSE s[IF places # {} THEN Files!Min(places) ELSE 0]) = At(s, places)
<1>1. places # {} => Files!Min(places) # 0
  BY MinIsLeast
<1> QED
  BY <1>1 DEF At

\* The places that the two searches choose from.
DevPlaces(n, s, g) == {i \in 1..Len(s) : Files!SameBytes(s[i].name, n, Len(n) + 1, g)}
FilePlaces(n, s, g) ==
  {i \in 1..Len(s) :
     /\ Files!Byte(n, Files!MountLength(s[i].name), g) \in {"/", Files!NUL}
     /\ Files!SameBytes(s[i].name, n, Files!MountLength(s[i].name), g)}

LEMMA SearchPlaces ==
  ASSUME NEW S, NEW s \in Seq(S), NEW n, NEW g
  PROVE  /\ Files!FindDev(n, s, g) = At(s, DevPlaces(n, s, g))
         /\ Files!FindFile(n, s, g) = At(s, FilePlaces(n, s, g))
<1> DEFINE D == DevPlaces(n, s, g)
           M == FilePlaces(n, s, g)
<1>1. Files!FindDev(n, s, g) =
        IF (IF D # {} THEN Files!Min(D) ELSE 0) = 0 THEN Files!None
        ELSE s[IF D # {} THEN Files!Min(D) ELSE 0]
  BY DEF Files!FindDev, Files!FirstMatch, Files!SelectInSeq, D, DevPlaces
<1>2. Files!FindFile(n, s, g) =
        IF (IF M # {} THEN Files!Min(M) ELSE 0) = 0 THEN Files!None
        ELSE s[IF M # {} THEN Files!Min(M) ELSE 0]
  BY DEF Files!FindFile, Files!FirstMatch, Files!SelectInSeq, M, FilePlaces
<1>3. D \in SUBSET (1..Len(s)) /\ M \in SUBSET (1..Len(s))
  BY DEF DevPlaces, FilePlaces
<1> HIDE DEF D, M
<1>4. Files!FindDev(n, s, g) = At(s, D) /\ Files!FindFile(n, s, g) = At(s, M)
  BY AtIf, <1>1, <1>2, <1>3
<1> QED
  BY <1>4 DEF D, M

\* A search returns an entry of the list or nothing.
LEMMA SearchesList ==
  ASSUME NEW S, NEW s \in Seq(S), NEW n, NEW g
  PROVE  /\ Files!FindDev(n, s, g) \in S \cup {Files!None}
         /\ Files!FindFile(n, s, g) \in S \cup {Files!None}
<1>1. \A I \in SUBSET (1..Len(s)) : At(s, I) \in S \cup {Files!None}
  BY AtPlace
<1>2. /\ Files!FindDev(n, s, g) = At(s, DevPlaces(n, s, g))
      /\ Files!FindFile(n, s, g) = At(s, FilePlaces(n, s, g))
  BY SearchPlaces
<1>3. DevPlaces(n, s, g) \in SUBSET (1..Len(s)) /\ FilePlaces(n, s, g) \in SUBSET (1..Len(s))
  BY DEF DevPlaces, FilePlaces
<1> QED
  BY <1>1, <1>2, <1>3

-----------------------------------------------------------------------------
(* The pool of descriptors. *)

\* What an entry of the pool may hold.
Descriptor ==
  [dev : Files!AnyDevice \cup {Files!None}, mode : Files!Modes,
   flags : SUBSET (Files!FCNTL_FLAGS \cup OpenFlags), isdev : BOOLEAN, excl : BOOLEAN]

\* Only entries of devices, never of file systems, are locked.
LockedIsDevice(fd) == (fd.isdev => ~fd.dev.fs) /\ (fd.excl => fd.isdev)

\* A pool, its mark and what the program holds fit together.
PoolOK(fds, max, h) ==
  /\ fds \in [Files!Fds -> Descriptor] /\ max \in -1..ALT_MAX_FD - 1 /\ h \subseteq Files!Fds
  /\ \A i \in Files!Fds :
       /\ LockedIsDevice(fds[i])
       /\ i \in Files!Standard => fds[i].dev # Files!None
       /\ i \notin Files!Standard =>
            (fds[i].dev # Files!None <=> i \in h) /\ (i \in h => i <= max)

\* The inductive invariant.
FilesInv ==
  /\ alt_dev_list \in Seq(Files!AnyDevice) /\ alt_fs_list \in Seq(Devices)
  /\ phase \in Files!Phases /\ last.rc \in Int
  /\ PoolOK(alt_fd_list, alt_max_fd, held)

LEMMA FdsFacts ==
  /\ ALT_MAX_FD \in Nat /\ ALT_MAX_FD > 2 /\ Files!Fds \subseteq Nat
  /\ Files!Standard \subseteq Files!Fds
BY LibraryAssumption DEF Files!FilesAssumption, Files!Fds, Files!Standard

LEMMA FilesInvImplies ==
  FilesInv => Files!TypeOK /\ Files!NoLeak /\ Files!StandardUsable /\ Files!BelowHighWater
<1> SUFFICES ASSUME FilesInv
             PROVE  Files!TypeOK /\ Files!NoLeak /\ Files!StandardUsable /\ Files!BelowHighWater
  OBVIOUS
<1>1. PoolOK(alt_fd_list, alt_max_fd, held)
  BY DEF FilesInv
<1>2. Files!TypeOK
  BY DEF FilesInv, PoolOK, Files!TypeOK, Descriptor
<1>3. Files!NoLeak
  BY <1>1 DEF PoolOK, Files!NoLeak, Files!Allocated
<1>4. Files!StandardUsable
  BY <1>1, FdsFacts DEF PoolOK, Files!StandardUsable, Files!Allocated
<1>5. Files!BelowHighWater
  BY <1>1 DEF PoolOK, Files!BelowHighWater, Files!Allocated
<1> QED
  BY <1>2, <1>3, <1>4, <1>5

LEMMA FreeType ==
  Files!Free \in Descriptor /\ LockedIsDevice(Files!Free) /\ Files!Free.dev = Files!None
BY DEF Files!Free, Descriptor, LockedIsDevice, Files!Modes

\* One entry replaced.
LEMMA ReplaceOK ==
  ASSUME NEW fds, NEW max, NEW h, PoolOK(fds, max, h),
         NEW i \in Files!Fds, NEW fd \in Descriptor, LockedIsDevice(fd),
         NEW max2 \in -1..ALT_MAX_FD - 1, max <= max2,
         NEW h2 \in SUBSET Files!Fds, h2 \ {i} = h \ {i},
         i \in Files!Standard => fd.dev # Files!None,
         i \notin Files!Standard =>
           (fd.dev # Files!None <=> i \in h2) /\ (i \in h2 => i <= max2)
  PROVE  PoolOK([fds EXCEPT ![i] = fd], max2, h2)
<1> DEFINE new == [fds EXCEPT ![i] = fd]
<1>0. fds \in [Files!Fds -> Descriptor] /\ max \in Int /\ Files!Fds \subseteq Int
  BY FdsFacts DEF PoolOK
<1>1. /\ new \in [Files!Fds -> Descriptor] /\ new[i] = fd
      /\ \A j \in Files!Fds : j # i => new[j] = fds[j]
  BY <1>0
<1> HIDE DEF new
<1>2. ASSUME NEW j \in Files!Fds
      PROVE  /\ LockedIsDevice(new[j])
             /\ j \in Files!Standard => new[j].dev # Files!None
             /\ j \notin Files!Standard =>
                  (new[j].dev # Files!None <=> j \in h2) /\ (j \in h2 => j <= max2)
  <2>1. CASE j = i
    BY <1>1, <2>1
  <2>2. CASE j # i
    <3>1. /\ LockedIsDevice(fds[j])
          /\ j \in Files!Standard => fds[j].dev # Files!None
          /\ j \notin Files!Standard =>
               (fds[j].dev # Files!None <=> j \in h) /\ (j \in h => j <= max)
      BY DEF PoolOK
    <3>2. (j \in h2 <=> j \in h) /\ (j <= max => j <= max2)
      BY <1>0, <2>2
    <3> QED
      BY <1>1, <2>2, <3>1, <3>2
  <2> QED
    BY <2>1, <2>2
<1>3. PoolOK(new, max2, h2)
  BY <1>1, <1>2 DEF PoolOK
<1> QED
  BY <1>3 DEF new

-----------------------------------------------------------------------------
(* open(). *)

LEMMA LookupType ==
  ASSUME FilesInv, NEW n
  PROVE  Files!Lookup(n) \in Files!AnyDevice \cup {Files!None}
<1>1. Files!FindDev(n, alt_dev_list, Files!NUL) \in Files!AnyDevice \cup {Files!None}
  BY SearchesList DEF FilesInv
<1>2. Files!FindFile(n, alt_fs_list, Files!NUL) \in Devices \cup {Files!None}
  BY SearchesList DEF FilesInv
<1> QED
  BY <1>1, <1>2 DEF Files!Lookup, Files!AnyDevice

LEMMA FirstFree ==
  ASSUME Files!Fds \ Files!Allocated # {}
  PROVE  Files!Min(Files!Fds \ Files!Allocated) \in Files!Fds \ Files!Allocated
BY MinIsLeast, FdsFacts

\* The entry that open makes.
Opened(dev, mode, flags) ==
  [dev |-> dev, mode |-> mode, flags |-> flags, isdev |-> ~dev.fs, excl |-> FALSE]

\* What open makes of the pool: nothing; an entry taken and freed again; or an entry taken,
\* unless a device is locked.
FreeFds == Files!Fds \ (Files!Allocated \cup Files!Standard)
Refuses(o) == o.rc \in Int /\ o.rc < 0 /\ o.fds = alt_fd_list /\ o.max = alt_max_fd
FreesAgain(o, i) ==
  /\ o.rc \in Int /\ o.rc < 0
  /\ o.fds = [alt_fd_list EXCEPT ![i] = Files!Free] /\ o.max = Files!Marked(i)
Takes(o, i, dev, mode, flags) ==
  /\ o.rc = i /\ dev # Files!None
  /\ o.fds = [alt_fd_list EXCEPT ![i] = Opened(dev, mode, flags)] /\ o.max = Files!Marked(i)
  /\ ~dev.fs => ~Files!Locked(dev, Files!Marked(i))

LEMMA FreeFdsFacts ==
  ASSUME NEW i \in FreeFds
  PROVE  i \in Files!Fds /\ i \in Nat /\ i > 2 /\ ~(i < 0)
<1>1. i \in Files!Fds /\ i \in Nat /\ i \notin 0..2
  BY FdsFacts DEF FreeFds, Files!Standard
<1> QED
  BY <1>1

LEMMA AllocFdCases ==
  ASSUME FilesInv, NEW dev, NEW mode, NEW flags, NEW status \in {0, -Files!EIO},
         NEW o, o = Files!AllocFd(dev, mode, flags, status)
  PROVE  \/ Refuses(o)
         \/ \E i \in FreeFds : FreesAgain(o, i) \/ Takes(o, i, dev, mode, flags)
<1> DEFINE free == Files!Fds \ Files!Allocated
           i == Files!Min(free)
           fds == [alt_fd_list EXCEPT ![i] = Opened(dev, mode, flags)]
           rc == IF ~dev.fs /\ Files!Locked(dev, Files!Marked(i)) THEN -Files!EACCES ELSE status
<1>1. o = IF dev = Files!None
          THEN [rc |-> -Files!ENODEV, fds |-> alt_fd_list, max |-> alt_max_fd]
          ELSE IF free = {} THEN [rc |-> -Files!EMFILE, fds |-> alt_fd_list, max |-> alt_max_fd]
          ELSE IF rc < 0 THEN [rc |-> rc, fds |-> Files!Released(fds, i), max |-> Files!Marked(i)]
          ELSE [rc |-> i, fds |-> fds, max |-> Files!Marked(i)]
  BY DEF Files!AllocFd, Opened
<1>2. CASE dev = Files!None
  BY <1>1, <1>2 DEF Files!ENODEV, Refuses
<1>3. CASE dev # Files!None /\ free = {}
  BY <1>1, <1>3 DEF Files!EMFILE, Refuses
<1>4. CASE dev # Files!None /\ free # {}
  <2>1. i \in Files!Fds /\ i \notin Files!Allocated
    BY <1>4, FirstFree
  <2>2. i \notin Files!Standard
    BY <2>1, FdsFacts DEF FilesInv, PoolOK, Files!Allocated
  <2>3. rc \in Int /\ (~(rc < 0) => (~dev.fs => ~Files!Locked(dev, Files!Marked(i))))
    BY DEF Files!EACCES, Files!EIO
  <2>4. Files!Released(fds, i) = [alt_fd_list EXCEPT ![i] = Files!Free]
    <3> HIDE DEF i
    <3>1. i \in Nat /\ i > 2
      BY <2>1, <2>2, FdsFacts DEF Files!Standard
    <3>2. alt_fd_list \in [Files!Fds -> Descriptor]
      BY DEF FilesInv, PoolOK
    <3> QED
      BY <3>1, <3>2 DEF Files!Released
  <2>5. o = IF rc < 0 THEN [rc |-> rc, fds |-> Files!Released(fds, i), max |-> Files!Marked(i)]
            ELSE [rc |-> i, fds |-> fds, max |-> Files!Marked(i)]
    BY <1>1, <1>4
  <2> HIDE DEF rc
  <2>6. CASE rc < 0
    <3>1. o.rc = rc /\ o.fds = [alt_fd_list EXCEPT ![i] = Files!Free] /\ o.max = Files!Marked(i)
      BY <2>4, <2>5, <2>6
    <3> HIDE DEF i, free
    <3> QED
      BY <2>1, <2>2, <2>3, <2>6, <3>1 DEF FreeFds, FreesAgain
  <2>7. CASE ~(rc < 0)
    <3>1. o.rc = i /\ o.fds = fds /\ o.max = Files!Marked(i)
      BY <2>5, <2>7
    <3> HIDE DEF i, free
    <3> QED
      BY <1>4, <2>1, <2>2, <2>3, <2>7, <3>1 DEF FreeFds, Takes
  <2> QED
    BY <2>6, <2>7
<1> QED
  BY <1>2, <1>3, <1>4

\* The mark does not come down.
LEMMA MarkedType ==
  ASSUME FilesInv, NEW i \in Files!Fds
  PROVE  /\ Files!Marked(i) \in -1..ALT_MAX_FD - 1
         /\ alt_max_fd <= Files!Marked(i) /\ i <= Files!Marked(i)
<1>1. alt_max_fd \in -1..ALT_MAX_FD - 1 /\ i \in 0..ALT_MAX_FD - 1 /\ ALT_MAX_FD \in Nat
  BY FdsFacts DEF FilesInv, PoolOK, Files!Fds
<1> QED
  BY <1>1 DEF Files!Marked

LEMMA OpenedType ==
  ASSUME NEW dev \in Files!AnyDevice, NEW mode \in Files!Modes,
         NEW flags \in SUBSET (Files!FCNTL_FLAGS \cup OpenFlags)
  PROVE  Opened(dev, mode, flags) \in Descriptor /\ LockedIsDevice(Opened(dev, mode, flags))
BY DEF Opened, Descriptor, LockedIsDevice

\* An entry that was free is taken, or has been taken and freed again.
LEMMA TakeOK ==
  ASSUME FilesInv, NEW i \in FreeFds
  PROVE  /\ PoolOK([alt_fd_list EXCEPT ![i] = Files!Free], Files!Marked(i), held)
         /\ \A dev \in Files!AnyDevice, mode \in Files!Modes,
               flags \in SUBSET (Files!FCNTL_FLAGS \cup OpenFlags) :
               dev # Files!None =>
                 PoolOK([alt_fd_list EXCEPT ![i] = Opened(dev, mode, flags)],
                        Files!Marked(i), held \cup {i})
<1> USE DEF FreeFds
<1>1. /\ PoolOK(alt_fd_list, alt_max_fd, held) /\ i \notin held /\ held \in SUBSET Files!Fds
      /\ held \cup {i} \in SUBSET Files!Fds
  BY DEF FilesInv, PoolOK, Files!Allocated
<1>2. PoolOK([alt_fd_list EXCEPT ![i] = Files!Free], Files!Marked(i), held)
  BY <1>1, FreeType, MarkedType, ReplaceOK
<1>3. ASSUME NEW dev \in Files!AnyDevice, NEW mode \in Files!Modes,
             NEW flags \in SUBSET (Files!FCNTL_FLAGS \cup OpenFlags), dev # Files!None
      PROVE  PoolOK([alt_fd_list EXCEPT ![i] = Opened(dev, mode, flags)],
                    Files!Marked(i), held \cup {i})
  <2>1. Opened(dev, mode, flags).dev = dev
    BY DEF Opened
  <2> QED
    BY <1>1, <1>3, <2>1, OpenedType, MarkedType, ReplaceOK
<1> QED
  BY <1>2, <1>3

-----------------------------------------------------------------------------
(* What a step may do to entries: the two action properties. *)

KeepsOut ==
  \A i \in Files!Fds : (i \notin Files!Allocated /\ i \in Files!Allocated') =>
    \A j \in Files!Allocated : alt_fd_list[j].excl => alt_fd_list'[i].dev # alt_fd_list[j].dev
KeepsMode ==
  phase = "main" => \A i \in Files!Allocated : i \in Files!Allocated' =>
    /\ alt_fd_list'[i].dev = alt_fd_list[i].dev
    /\ alt_fd_list'[i].mode = alt_fd_list[i].mode

StepKeeps == FilesInv' /\ KeepsOut /\ KeepsMode

\* Entries that stay as they are, or are freed.
LEMMA SameOrFreed ==
  ASSUME \A j \in Files!Fds :
           \/ alt_fd_list'[j].dev = Files!None
           \/ /\ alt_fd_list'[j].dev = alt_fd_list[j].dev
              /\ alt_fd_list'[j].mode = alt_fd_list[j].mode
  PROVE  KeepsOut /\ KeepsMode
BY DEF KeepsOut, KeepsMode, Files!Allocated

LEMMA IdleKeeps ==
  ASSUME FilesInv, UNCHANGED <<alt_dev_list, alt_fs_list, alt_fd_list, alt_max_fd, held>>,
         phase' \in Files!Phases, last'.rc \in Int
  PROVE  StepKeeps
<1>1. FilesInv'
  BY DEF FilesInv, PoolOK, LockedIsDevice
<1>2. KeepsOut /\ KeepsMode
  BY SameOrFreed
<1> QED
  BY <1>1, <1>2 DEF StepKeeps

\* An entry taken and freed again.
LEMMA FreedKeeps ==
  ASSUME FilesInv, NEW i \in FreeFds,
         alt_fd_list' = [alt_fd_list EXCEPT ![i] = Files!Free], alt_max_fd' = Files!Marked(i),
         UNCHANGED <<alt_dev_list, alt_fs_list, held>>, phase' \in Files!Phases, last'.rc \in Int
  PROVE  StepKeeps
<1> USE DEF FreeFds
<1>1. PoolOK(alt_fd_list, alt_max_fd, held)'
  BY TakeOK
<1>2. alt_fd_list \in [Files!Fds -> Descriptor]
  BY DEF FilesInv, PoolOK
<1>3. KeepsOut /\ KeepsMode
  BY <1>2, FreeType, SameOrFreed
<1> QED
  BY <1>1, <1>3 DEF StepKeeps, FilesInv

\* An entry taken: no device is locked up to the mark, nor above it.
LEMMA TakenKeeps ==
  ASSUME FilesInv, NEW i \in FreeFds,
         NEW dev \in Files!AnyDevice, dev # Files!None, NEW mode \in Files!Modes,
         NEW flags \in SUBSET (Files!FCNTL_FLAGS \cup OpenFlags),
         ~dev.fs => ~Files!Locked(dev, Files!Marked(i)),
         alt_fd_list' = [alt_fd_list EXCEPT ![i] = Opened(dev, mode, flags)],
         alt_max_fd' = Files!Marked(i), held' = held \cup {i},
         UNCHANGED <<alt_dev_list, alt_fs_list, phase>>, last'.rc \in Int
  PROVE  StepKeeps
<1> USE DEF FreeFds
<1>1. PoolOK(alt_fd_list, alt_max_fd, held)'
  BY TakeOK
<1>2. FilesInv'
  BY <1>1 DEF FilesInv
<1>3. /\ alt_fd_list \in [Files!Fds -> Descriptor]
      /\ alt_fd_list'[i] = Opened(dev, mode, flags) /\ alt_fd_list'[i].dev = dev
      /\ \A j \in Files!Fds : j # i => alt_fd_list'[j] = alt_fd_list[j]
  BY DEF FilesInv, PoolOK, Opened
<1>4. ASSUME NEW j \in Files!Allocated, alt_fd_list[j].excl
      PROVE  dev # alt_fd_list[j].dev
  <2>1. j \in Files!Fds /\ LockedIsDevice(alt_fd_list[j])
    BY DEF FilesInv, PoolOK, Files!Allocated
  <2>2. ~alt_fd_list[j].dev.fs
    BY <1>4, <2>1 DEF LockedIsDevice
  <2>3. j <= Files!Marked(i)
    <3>1. /\ i \in Nat /\ j \in Nat /\ alt_max_fd \in Int /\ Files!Marked(i) \in Int
          /\ alt_max_fd <= Files!Marked(i) /\ i <= Files!Marked(i)
      BY <2>1, MarkedType, FdsFacts DEF FilesInv, PoolOK
    <3>2. i \notin 0..2 /\ (j \notin 0..2 => j <= alt_max_fd)
      BY <2>1 DEF FilesInv, PoolOK, Files!Standard, Files!Allocated
    <3> QED
      BY <3>1, <3>2
  <2> QED
    BY <1>4, <2>1, <2>2, <2>3 DEF Files!Locked
<1>5. KeepsOut
  <2>1. \A k \in Files!Fds : k \notin Files!Allocated /\ k \in Files!Allocated' => k = i
    BY <1>3 DEF Files!Allocated
  <2> QED
    BY <1>3, <1>4, <2>1 DEF KeepsOut
<1>6. KeepsMode
  <2>1. \A k \in Files!Allocated : k \in Files!Fds /\ k # i
    BY DEF Files!Allocated
  <2> QED
    BY <1>3, <2>1 DEF KeepsMode
<1> QED
  BY <1>2, <1>5, <1>6 DEF StepKeeps

\* A standard stream redirected: an entry taken, moved to the stream's own and freed.
LEMMA MovedKeeps ==
  ASSUME FilesInv, phase # "main", NEW i \in FreeFds,
         NEW dev \in Files!AnyDevice, dev # Files!None, NEW mode \in Files!Modes,
         NEW fd \in Files!Standard, NEW fds,
         fds = [alt_fd_list EXCEPT ![i] = Opened(dev, mode, {})],
         alt_fd_list' = [[fds EXCEPT ![fd] = fds[i]] EXCEPT ![i] = Files!Free],
         alt_max_fd' = Files!Marked(i),
         UNCHANGED <<alt_dev_list, alt_fs_list, held, last>>, phase' \in Files!Phases
  PROVE  StepKeeps
<1> USE DEF FreeFds
<1> DEFINE freed == [alt_fd_list EXCEPT ![i] = Files!Free]
           moved == [freed EXCEPT ![fd] = Opened(dev, mode, {})]
<1>1. alt_fd_list \in [Files!Fds -> Descriptor] /\ fd \in Files!Fds /\ fd # i
  BY FdsFacts DEF FilesInv, PoolOK
<1>2. alt_fd_list' = moved
  <2>1. fds[i] = Opened(dev, mode, {})
    BY <1>1
  <2> QED
    BY <1>1, <2>1
<1>3. PoolOK(freed, Files!Marked(i), held)
  BY TakeOK
<1>4. held \in SUBSET Files!Fds /\ held \ {fd} = held \ {fd}
  BY DEF FilesInv, PoolOK
<1>5. PoolOK(moved, Files!Marked(i), held)
  <2>1. Opened(dev, mode, {}).dev = dev
    BY DEF Opened
  <2>2. Opened(dev, mode, {}) \in Descriptor /\ LockedIsDevice(Opened(dev, mode, {}))
    BY OpenedType
  <2>3. Files!Marked(i) \in -1..ALT_MAX_FD - 1 /\ Files!Marked(i) <= Files!Marked(i)
    BY MarkedType
  <2> HIDE DEF freed
  <2> QED
    BY <1>1, <1>3, <1>4, <2>1, <2>2, <2>3, ReplaceOK
<1>6. FilesInv'
  <2> HIDE DEF moved
  <2>1. PoolOK(alt_fd_list, alt_max_fd, held)'
    BY <1>2, <1>5
  <2> QED
    BY <2>1 DEF FilesInv
<1>7. KeepsOut
  <2>1. moved[fd].dev = dev /\ moved[i].dev = Files!None
        /\ \A j \in Files!Fds : j # i /\ j # fd => moved[j] = alt_fd_list[j]
    BY <1>1, FreeType DEF Opened
  <2>2. fd \in Files!Allocated
    BY <1>1 DEF FilesInv, PoolOK, Files!Allocated
  <2> QED
    BY <1>2, <2>1, <2>2 DEF KeepsOut, Files!Allocated
<1>8. KeepsMode
  BY DEF KeepsMode
<1> QED
  BY <1>6, <1>7, <1>8 DEF StepKeeps

-----------------------------------------------------------------------------
(* The steps. *)

LEMMA ReturnsInt ==
  ASSUME NEW call, NEW rc \in Int, Files!Returns(call, rc)
  PROVE  last'.rc \in Int
BY DEF Files!Returns

LEMMA CallbackInt ==
  ASSUME NEW dev, NEW op, NEW missing \in Int, NEW rc \in Files!Callback(dev, op, missing)
  PROVE  rc \in Int
BY DEF Files!Callback, Files!EIO

\* A call that changes neither the pool nor the lists.
LEMMA OnlyKeeps ==
  ASSUME FilesInv, UNCHANGED <<alt_dev_list, alt_fs_list, phase>>,
         NEW call, NEW rc \in Int, Files!Only(call, rc)
  PROVE  StepKeeps
<1>1. last'.rc \in Int
  BY ReturnsInt DEF Files!Only
<1> QED
  BY <1>1, IdleKeeps DEF Files!Only, Files!pool, FilesInv

LEMMA OpenKeeps ==
  ASSUME FilesInv, NEW n, NEW mode \in OpenModes, NEW flags \in SUBSET OpenFlags,
         Files!Open(n, mode, flags)
  PROVE  StepKeeps
<1> DEFINE dev == Files!Lookup(n)
<1>1. PICK o :
        /\ \E status \in {0, -Files!EIO} : o = Files!AllocFd(dev, mode, flags, status)
        /\ alt_fd_list' = o.fds /\ alt_max_fd' = o.max
        /\ held' = (IF o.rc < 0 THEN held ELSE held \cup {o.rc})
        /\ Files!Returns("open", o.rc)
        /\ UNCHANGED <<alt_dev_list, alt_fs_list, phase>>
  BY DEF Files!Open, Files!Running, Files!lists
<1>2. /\ dev \in Files!AnyDevice \cup {Files!None} /\ mode \in Files!Modes
      /\ flags \in SUBSET (Files!FCNTL_FLAGS \cup OpenFlags) /\ phase' \in Files!Phases
  BY <1>1, LookupType, LibraryAssumption DEF Files!FilesAssumption, FilesInv
<1> HIDE DEF dev
<1>3. CASE Refuses(o)
  BY <1>1, <1>2, <1>3, ReturnsInt, IdleKeeps DEF Refuses
<1>4. ASSUME NEW i \in FreeFds, FreesAgain(o, i)
      PROVE  StepKeeps
  BY <1>1, <1>2, <1>4, ReturnsInt, FreedKeeps DEF FreesAgain
<1>5. ASSUME NEW i \in FreeFds, Takes(o, i, dev, mode, flags)
      PROVE  StepKeeps
  <2>1. o.rc = i /\ ~(o.rc < 0) /\ o.rc \in Int
    BY <1>5, FreeFdsFacts DEF Takes
  <2>2. last'.rc \in Int
    BY <1>1, <2>1, ReturnsInt
  <2>3. held' = held \cup {i}
    BY <1>1, <2>1
  <2>4. /\ dev \in Files!AnyDevice /\ dev # Files!None
        /\ ~dev.fs => ~Files!Locked(dev, Files!Marked(i))
        /\ alt_fd_list' = [alt_fd_list EXCEPT ![i] = Opened(dev, mode, flags)]
        /\ alt_max_fd' = Files!Marked(i)
    BY <1>1, <1>2, <1>5 DEF Takes
  <2> QED
    BY <1>1, <1>2, <2>2, <2>3, <2>4, TakenKeeps
<1> QED
  BY <1>1, <1>3, <1>4, <1>5, AllocFdCases

LEMMA StatKeeps ==
  ASSUME FilesInv, NEW n, Files!Stat(n)
  PROVE  StepKeeps
<1> DEFINE dev == Files!Lookup(n)
<1>1. PICK o :
        /\ \E status \in {0, -Files!EIO} : o = Files!AllocFd(dev, "O_RDONLY", {}, status)
        /\ alt_fd_list' = (IF o.rc < 0 THEN o.fds ELSE Files!Released(o.fds, o.rc))
        /\ alt_max_fd' = o.max
        /\ IF o.rc < 0 THEN Files!Returns("stat", -Files!EBADFD)
           ELSE \E rc \in Files!Callback(dev, "fstat", 0) : last' = [call |-> "stat", rc |-> rc]
        /\ UNCHANGED <<held, alt_dev_list, alt_fs_list, phase>>
  BY DEF Files!Stat, Files!Running, Files!lists
<1>2. phase' \in Files!Phases
  BY <1>1 DEF FilesInv
<1>3. last'.rc \in Int
  BY <1>1, ReturnsInt, CallbackInt DEF Files!EBADFD
<1> HIDE DEF dev
<1>4. CASE Refuses(o)
  BY <1>1, <1>2, <1>3, <1>4, IdleKeeps DEF Refuses
<1>5. ASSUME NEW i \in FreeFds, FreesAgain(o, i)
      PROVE  StepKeeps
  BY <1>1, <1>2, <1>3, <1>5, FreedKeeps DEF FreesAgain
<1>6. ASSUME NEW i \in FreeFds, Takes(o, i, dev, "O_RDONLY", {})
      PROVE  StepKeeps
  <2>1. o.rc = i /\ ~(o.rc < 0) /\ i > 2
    BY <1>6, FreeFdsFacts DEF Takes
  <2>2. alt_fd_list \in [Files!Fds -> Descriptor]
    BY DEF FilesInv, PoolOK
  <2>3. Files!Released(o.fds, i) = [alt_fd_list EXCEPT ![i] = Files!Free]
    BY <1>6, <2>1, <2>2, FreeFdsFacts DEF Files!Released, Takes
  <2> QED
    BY <1>1, <1>2, <1>3, <1>6, <2>1, <2>3, FreedKeeps DEF Takes
<1> QED
  BY <1>1, <1>4, <1>5, <1>6, AllocFdCases

LEMMA RedirectKeeps ==
  ASSUME FilesInv, NEW stream, stream # "main", NEW mode \in Files!Modes, NEW next \in Files!Phases,
         Files!Redirect(stream, mode, next)
  PROVE  StepKeeps
<1> DEFINE dev == Files!Lookup(Stdio)
           fd == CASE stream = "stdout" -> 1 [] stream = "stdin" -> 0 [] OTHER -> 2
<1>1. PICK o :
        /\ \E status \in {0, -Files!EIO} : o = Files!AllocFd(dev, mode, {}, status) /\ phase = stream
        /\ alt_fd_list' = IF o.rc < 0 THEN o.fds
                          ELSE Files!Released([o.fds EXCEPT ![fd] = o.fds[o.rc]], o.rc)
        /\ alt_max_fd' = o.max /\ phase' = next
        /\ UNCHANGED <<alt_dev_list, alt_fs_list, held, last>>
  BY DEF Files!Redirect, Files!lists
<1>2. fd \in Files!Standard
  BY DEF Files!Standard
<1>3. /\ dev \in Files!AnyDevice \cup {Files!None} /\ phase' \in Files!Phases
      /\ last'.rc \in Int /\ phase # "main"
  BY <1>1, LookupType DEF FilesInv
<1> HIDE DEF dev, fd
<1>4. CASE Refuses(o)
  BY <1>1, <1>3, <1>4, IdleKeeps DEF Refuses
<1>5. ASSUME NEW i \in FreeFds, FreesAgain(o, i)
      PROVE  StepKeeps
  BY <1>1, <1>3, <1>5, FreedKeeps DEF FreesAgain
<1>6. ASSUME NEW i \in FreeFds, Takes(o, i, dev, mode, {})
      PROVE  StepKeeps
  <2>1. o.rc = i /\ ~(o.rc < 0) /\ i > 2
    BY <1>6, FreeFdsFacts DEF Takes
  <2>2. alt_fd_list' = [[o.fds EXCEPT ![fd] = o.fds[i]] EXCEPT ![i] = Files!Free]
    BY <1>1, <2>1 DEF Files!Released
  <2> QED
    BY <1>1, <1>2, <1>3, <1>6, <2>2, MovedKeeps DEF Takes
<1> QED
  BY <1>1, <1>4, <1>5, <1>6, AllocFdCases

\* An entry that keeps its device and its mode.
LEMMA EditKeeps ==
  ASSUME FilesInv, NEW i \in Files!Allocated, NEW fd \in Descriptor, LockedIsDevice(fd),
         fd.dev = alt_fd_list[i].dev, fd.mode = alt_fd_list[i].mode,
         alt_fd_list' = [alt_fd_list EXCEPT ![i] = fd],
         UNCHANGED <<alt_dev_list, alt_fs_list, alt_max_fd, held, phase>>, last'.rc \in Int
  PROVE  StepKeeps
<1>1. /\ PoolOK(alt_fd_list, alt_max_fd, held) /\ i \in Files!Fds /\ held \in SUBSET Files!Fds
      /\ alt_max_fd \in -1..ALT_MAX_FD - 1 /\ alt_max_fd <= alt_max_fd
      /\ alt_fd_list \in [Files!Fds -> Descriptor]
  BY DEF FilesInv, PoolOK, Files!Allocated
<1>2. /\ i \in Files!Standard => fd.dev # Files!None
      /\ i \notin Files!Standard =>
           (fd.dev # Files!None <=> i \in held) /\ (i \in held => i <= alt_max_fd)
  BY <1>1 DEF PoolOK
<1>3. PoolOK([alt_fd_list EXCEPT ![i] = fd], alt_max_fd, held)
  BY <1>1, <1>2, ReplaceOK
<1>4. FilesInv'
  BY <1>3 DEF FilesInv
<1>5. \A j \in Files!Fds : /\ alt_fd_list'[j].dev = alt_fd_list[j].dev
                           /\ alt_fd_list'[j].mode = alt_fd_list[j].mode
  BY <1>1
<1> QED
  BY <1>4, <1>5, SameOrFreed DEF StepKeeps

LEMMA EntryType ==
  ASSUME FilesInv, NEW i \in Files!Allocated
  PROVE  /\ i \in Files!Fds /\ alt_fd_list \in [Files!Fds -> Descriptor]
         /\ alt_fd_list[i] \in Descriptor /\ LockedIsDevice(alt_fd_list[i])
BY DEF FilesInv, PoolOK, Files!Allocated

LEMMA FlagsKeep ==
  ASSUME FilesInv, NEW i \in Files!Allocated, NEW flags \in SUBSET OpenFlags,
         Files!SetFlags(i, flags)
  PROVE  StepKeeps
<1> DEFINE fd == [alt_fd_list[i] EXCEPT !.flags =
                    (@ \ Files!FCNTL_FLAGS) \cup (flags \cap Files!FCNTL_FLAGS)]
<1>1. fd \in Descriptor /\ LockedIsDevice(fd)
  BY EntryType DEF Descriptor, LockedIsDevice
<1>2. fd.dev = alt_fd_list[i].dev /\ fd.mode = alt_fd_list[i].mode
  BY EntryType DEF Descriptor
<1>3. alt_fd_list' = [alt_fd_list EXCEPT ![i] = fd]
  BY EntryType DEF Files!SetFlags
<1>4. /\ UNCHANGED <<alt_dev_list, alt_fs_list, alt_max_fd, held, phase>>
      /\ last'.rc \in Int
  BY ReturnsInt DEF Files!SetFlags, Files!Running, Files!lists
<1> HIDE DEF fd
<1> QED
  BY <1>1, <1>2, <1>3, <1>4, EditKeeps

\* ioctl's two: the entry of a device locked or unlocked.
LEMMA LockKeeps ==
  ASSUME FilesInv, NEW i \in Files!Allocated, Files!Lock(i) \/ Files!Unlock(i)
  PROVE  StepKeeps
<1> DEFINE fd(excl) == [alt_fd_list[i] EXCEPT !.excl = excl]
<1> USE DEF Files!Running, Files!lists, Files!Ioctl, Files!EACCES
<1>1. /\ alt_fd_list[i].isdev
      /\ UNCHANGED <<alt_dev_list, alt_fs_list, alt_max_fd, held, phase>>
  BY DEF Files!Lock, Files!Unlock
<1>2. last'.rc \in Int
  <2>1. \E rc \in {0, -13} : last' = [call |-> "ioctl", rc |-> rc]
    BY DEF Files!Lock, Files!Unlock
  <2> QED
    BY <2>1
<1>3. \/ alt_fd_list' = [alt_fd_list EXCEPT ![i].excl = TRUE]
      \/ alt_fd_list' = [alt_fd_list EXCEPT ![i].excl = FALSE]
      \/ UNCHANGED alt_fd_list
  BY DEF Files!Lock, Files!Unlock
<1>4. ASSUME NEW excl \in BOOLEAN, alt_fd_list' = [alt_fd_list EXCEPT ![i].excl = excl]
      PROVE  StepKeeps
  <2>1. fd(excl) \in Descriptor
    BY EntryType DEF Descriptor
  <2>2. LockedIsDevice(fd(excl))
    BY <1>1, EntryType DEF Descriptor, LockedIsDevice
  <2>3. fd(excl).dev = alt_fd_list[i].dev /\ fd(excl).mode = alt_fd_list[i].mode
    BY EntryType DEF Descriptor
  <2>4. alt_fd_list' = [alt_fd_list EXCEPT ![i] = fd(excl)]
    BY <1>4, EntryType
  <2> HIDE DEF fd
  <2> QED
    BY <1>1, <1>2, <2>1, <2>2, <2>3, <2>4, EditKeeps
<1>5. CASE UNCHANGED alt_fd_list
  BY <1>1, <1>5, <1>2, IdleKeeps DEF FilesInv
<1> QED
  BY <1>4, <1>5, <1>3

LEMMA CloseKeeps ==
  ASSUME FilesInv, NEW i \in Files!Allocated, Files!Close(i)
  PROVE  StepKeeps
<1>1. /\ alt_fd_list' = Files!Released(alt_fd_list, i) /\ held' = held \ {i}
      /\ UNCHANGED <<alt_dev_list, alt_fs_list, alt_max_fd, phase>>
  BY DEF Files!Close, Files!Running, Files!lists
<1>2. last'.rc \in Int
  BY CallbackInt, ReturnsInt DEF Files!Close
<1>3. /\ PoolOK(alt_fd_list, alt_max_fd, held) /\ held \in SUBSET Files!Fds
      /\ alt_max_fd \in -1..ALT_MAX_FD - 1 /\ alt_max_fd <= alt_max_fd
  BY DEF FilesInv, PoolOK
<1>4. CASE i > 2
  <2>1. i \notin Files!Standard
    BY <1>4 DEF Files!Standard
  <2>2. alt_fd_list' = [alt_fd_list EXCEPT ![i] = Files!Free]
    BY <1>1, <1>4 DEF Files!Released
  <2>3. held \ {i} \in SUBSET Files!Fds /\ (held \ {i}) \ {i} = held \ {i} /\ i \notin held \ {i}
    BY <1>3
  <2>4. PoolOK([alt_fd_list EXCEPT ![i] = Files!Free], alt_max_fd, held \ {i})
    BY <1>3, <2>1, <2>3, EntryType, FreeType, ReplaceOK
  <2>5. FilesInv'
    BY <1>1, <1>2, <2>2, <2>4 DEF FilesInv
  <2>6. KeepsOut /\ KeepsMode
    BY <2>2, EntryType, FreeType, SameOrFreed
  <2> QED
    BY <2>5, <2>6 DEF StepKeeps
<1>5. CASE ~(i > 2)
  <2>1. i \in Files!Standard
    BY <1>5, EntryType DEF Files!Standard, Files!Fds
  <2>2. UNCHANGED alt_fd_list
    BY <1>1, <1>5 DEF Files!Released
  <2>3. PoolOK(alt_fd_list, alt_max_fd, held \ {i})
    BY <1>3, <2>1 DEF PoolOK
  <2>4. FilesInv'
    BY <1>1, <1>2, <2>2, <2>3 DEF FilesInv
  <2>5. KeepsOut /\ KeepsMode
    BY <2>2, SameOrFreed
  <2> QED
    BY <2>4, <2>5 DEF StepKeeps
<1> QED
  BY <1>4, <1>5

\* The calls that ask a driver and keep the pool.
LEMMA CallsKeep ==
  ASSUME FilesInv, NEW i \in Files!Allocated,
         \/ Files!Read(i) \/ Files!Write(i) \/ Files!Lseek(i) \/ Files!Fstat(i) \/ Files!Isatty(i)
         \/ Files!OtherFcntl(i) \/ Files!DriverIoctl(i)
  PROVE  StepKeeps
<1> USE DEF Files!Running, Files!lists, Files!EACCES, Files!ENOTSUP, Files!EINVAL, Files!ENOTTY
<1> DEFINE Here == UNCHANGED <<alt_dev_list, alt_fs_list, phase>>
<1>1. CASE \/ Files!Read(i) \/ Files!Write(i) \/ Files!Lseek(i) \/ Files!Isatty(i)
           \/ Files!OtherFcntl(i)
  <2>1. CASE Files!Read(i)
    <3>1. PICK rc \in IF alt_fd_list[i].mode # "O_WRONLY"
                     THEN Files!Callback(alt_fd_list[i].dev, "read", -13) ELSE {-13} :
            Files!Only("read", rc) /\ Here
      BY <2>1 DEF Files!Read
    <3>2. rc \in Int
      BY CallbackInt
    <3> QED
      BY <3>1, <3>2, OnlyKeeps
  <2>2. CASE Files!Write(i)
    <3>1. PICK rc \in IF alt_fd_list[i].mode = "O_RDONLY" THEN {-13}
                     ELSE IF alt_fd_list[i].dev = Files!alt_dev_null THEN {0}
                     ELSE Files!Callback(alt_fd_list[i].dev, "write", -13) :
            Files!Only("write", rc) /\ Here
      BY <2>2 DEF Files!Write
    <3>2. rc \in Int
      BY CallbackInt
    <3> QED
      BY <3>1, <3>2, OnlyKeeps
  <2>3. CASE Files!Lseek(i)
    <3>1. PICK rc \in Files!Callback(alt_fd_list[i].dev, "lseek", -134) :
            Files!Only("lseek", rc) /\ Here
      BY <2>3 DEF Files!Lseek
    <3>2. rc \in Int
      BY CallbackInt
    <3> QED
      BY <3>1, <3>2, OnlyKeeps
  <2>4. CASE Files!Isatty(i)
    <3>1. PICK rc \in {0, 1} : Files!Only("isatty", rc) /\ Here
      BY <2>4 DEF Files!Isatty
    <3> QED
      BY <3>1, OnlyKeeps
  <2>5. CASE Files!OtherFcntl(i)
    BY <2>5, OnlyKeeps DEF Files!OtherFcntl
  <2> QED
    BY <1>1, <2>1, <2>2, <2>3, <2>4, <2>5
<1>2. CASE Files!Fstat(i) \/ Files!DriverIoctl(i)
  <2>1. UNCHANGED <<alt_dev_list, alt_fs_list, alt_fd_list, alt_max_fd, held, phase>>
    BY <1>2 DEF Files!Fstat, Files!DriverIoctl, Files!pool
  <2>2. last'.rc \in Int
    BY <1>2, CallbackInt DEF Files!Fstat, Files!DriverIoctl, Files!Ioctl
  <2> QED
    BY <2>1, <2>2, IdleKeeps DEF FilesInv
<1> QED
  BY <1>1, <1>2

LEMMA BadFdKeeps ==
  ASSUME FilesInv, NEW call, Files!BadFd(call)
  PROVE  StepKeeps
<1>1. PICK rc \in Int : Files!Only(call, rc) /\ UNCHANGED <<alt_dev_list, alt_fs_list, phase>>
  BY DEF Files!BadFd, Files!Running, Files!lists, Files!EBADFD
<1> QED
  BY <1>1, OnlyKeeps

LEMMA RegisterKeeps ==
  ASSUME FilesInv, NEW d \in Devices, Files!Register(d)
  PROVE  StepKeeps
<1>1. /\ UNCHANGED <<alt_fd_list, alt_max_fd, held, phase, last>>
      /\ \/ alt_fs_list' = Files!Registered(alt_fs_list, d) /\ UNCHANGED alt_dev_list
         \/ alt_dev_list' = Files!Registered(alt_dev_list, d) /\ UNCHANGED alt_fs_list
  BY DEF Files!Register, Files!pool
<1>2. alt_dev_list \in Seq(Files!AnyDevice) /\ alt_fs_list \in Seq(Devices)
  BY DEF FilesInv
<1>3. /\ Files!Registered(alt_fs_list, d) \in Seq(Devices)
      /\ Files!Registered(alt_dev_list, d) \in Seq(Files!AnyDevice)
  <2>1. <<d>> \in Seq(Devices) /\ <<d>> \in Seq(Files!AnyDevice)
    BY DEF Files!AnyDevice
  <2>2. /\ <<d>> \o alt_fs_list \in Seq(Devices)
        /\ <<d>> \o alt_dev_list \in Seq(Files!AnyDevice)
    BY <1>2, <2>1, ConcatProperties
  <2> QED
    BY <1>2, <2>2 DEF Files!Registered
<1>4. FilesInv'
  BY <1>1, <1>2, <1>3 DEF FilesInv, PoolOK, LockedIsDevice
<1>5. KeepsOut /\ KeepsMode
  BY <1>1, SameOrFreed
<1> QED
  BY <1>4, <1>5 DEF StepKeeps

LEMMA StartUpKeeps ==
  ASSUME FilesInv, Files!StartUp
  PROVE  StepKeeps
<1>1. CASE Files!RegisterEnds
  BY <1>1, IdleKeeps DEF Files!RegisterEnds, Files!lists, Files!pool, Files!Phases, FilesInv
<1>2. CASE Files!Redirect("stdout", "O_WRONLY", "stdin")
  BY <1>2, RedirectKeeps DEF Files!Modes, Files!Phases
<1>3. CASE Files!Redirect("stdin", "O_RDONLY", "stderr")
  BY <1>3, RedirectKeeps DEF Files!Modes, Files!Phases
<1>4. CASE Files!Redirect("stderr", "O_WRONLY", "main")
  BY <1>4, RedirectKeeps DEF Files!Modes, Files!Phases
<1> QED
  BY <1>1, <1>2, <1>3, <1>4, RegisterKeeps DEF Files!StartUp

LEMMA OnDescriptorKeeps ==
  ASSUME FilesInv, NEW i \in Files!Allocated, Files!OnDescriptor(i)
  PROVE  StepKeeps
BY CloseKeeps, CallsKeep, FlagsKeep, LockKeeps DEF Files!OnDescriptor

LEMMA FilesStep == FilesInv /\ Files!Next => StepKeeps
<1> SUFFICES ASSUME FilesInv, Files!Next PROVE StepKeeps
  OBVIOUS
<1>1. CASE Files!StartUp
  BY <1>1, StartUpKeeps
<1>2. CASE \E n \in Names : Files!Stat(n)
  BY <1>2, StatKeeps
<1>3. CASE \E n \in Names, mode \in OpenModes, flags \in SUBSET OpenFlags :
             Files!Open(n, mode, flags)
  BY <1>3, OpenKeeps
<1>4. CASE \E i \in Files!Allocated : Files!OnDescriptor(i)
  BY <1>4, OnDescriptorKeeps
<1>5. CASE \E call : Files!BadFd(call)
  BY <1>5, BadFdKeeps
<1> QED
  BY <1>1, <1>2, <1>3, <1>4, <1>5 DEF Files!Next

LEMMA FilesInitially == Files!Init => FilesInv
<1> SUFFICES ASSUME Files!Init PROVE FilesInv
  OBVIOUS
<1>1. Files!alt_dev_null # Files!None /\ Files!alt_dev_null.fs = FALSE
  BY DEF Files!alt_dev_null, Files!None
<1>2. alt_dev_list \in Seq(Files!AnyDevice) /\ alt_fs_list \in Seq(Devices)
  BY DEF Files!Init, Files!AnyDevice
<1>3. phase \in Files!Phases /\ last.rc \in Int
  BY DEF Files!Init, Files!Phases
<1> DEFINE std == [Files!Free EXCEPT !.dev = Files!alt_dev_null]
<1>4. std \in Descriptor /\ LockedIsDevice(std) /\ std.dev = Files!alt_dev_null
  BY <1>1 DEF Descriptor, LockedIsDevice, Files!Free, Files!AnyDevice, Files!Modes
<1>5. alt_fd_list = [i \in Files!Fds |-> IF i \in Files!Standard THEN std ELSE Files!Free]
  BY DEF Files!Init
<1> HIDE DEF std
<1>6. /\ alt_fd_list \in [Files!Fds -> Descriptor] /\ alt_max_fd \in -1..ALT_MAX_FD - 1 /\ held = {}
  BY <1>4, <1>5, FreeType, FdsFacts DEF Files!Init
<1>7. PoolOK(alt_fd_list, alt_max_fd, held)
  BY <1>1, <1>4, <1>5, <1>6, FreeType DEF PoolOK
<1> QED
  BY <1>2, <1>3, <1>7 DEF FilesInv

LEMMA FilesOutside == FilesInv /\ UNCHANGED files => FilesInv'
BY DEF FilesInv, PoolOK, LockedIsDevice, files

LEMMA FilesInvariant == LibrarySpec => []FilesInv
<1>1. LibraryInit => FilesInv
  BY FilesInitially DEF LibraryInit
<1>2. FilesInv /\ [LibraryNext]_library => FilesInv'
  BY FilesStep, FilesOutside DEF LibraryNext, library, StepKeeps
<1> QED
  BY <1>1, <1>2, PTL DEF LibrarySpec

\* The pool of descriptors stays in order through every sequence of calls and failures.
THEOREM PoolSound == LibrarySpec => []PoolIsSound
<1>1. FilesInv => PoolIsSound
  BY FilesInvImplies DEF PoolIsSound
<1> QED
  BY <1>1, FilesInvariant, PTL

\* A locked device is opened by nobody else, and an open descriptor keeps device and mode.
THEOREM LocksKept == LibrarySpec => LocksAndModesKept
<1>1. FilesInv /\ [LibraryNext]_library => (StepKeeps \/ UNCHANGED files)
  BY FilesStep DEF LibraryNext, library
<1>2. UNCHANGED files => UNCHANGED Files!vars
  BY DEF files, Files!vars, Files!lists, Files!pool
<1>3. FilesInv /\ [LibraryNext]_library =>
        /\ [KeepsOut]_(Files!vars)
        /\ [KeepsMode]_(Files!vars)
  BY <1>1, <1>2 DEF StepKeeps
<1> QED
  BY <1>3, FilesInvariant, PTL DEF LibrarySpec, LocksAndModesKept, Files!LockKeepsOut,
     Files!ModeIsKept, KeepsOut, KeepsMode

-----------------------------------------------------------------------------
(* The names. *)

Text == {s \in Seq(Characters) : Len(s) > 0}

NamesInv ==
  part = "names" => name \in Seq(Characters) /\ list \in Seq([name : Text])

LEMMA NoNul == Files!NUL \notin Characters
BY LibraryAssumption

\* A string is its characters, then NUL.
LEMMA ByteOf ==
  ASSUME NEW s \in Seq(Characters), NEW g
  PROVE  /\ Len(s) \in Nat /\ \A k \in 1..Len(s) : s[k] \in Characters /\ s[k] # Files!NUL
         /\ \A i \in Nat : i < Len(s) => Files!Byte(s, i, g) = s[i + 1]
         /\ Files!Byte(s, Len(s), g) = Files!NUL
<1>1. Len(s) \in Nat /\ \A k \in 1..Len(s) : s[k] \in Characters
  BY ElementOfSeq, LenProperties
<1> QED
  BY <1>1, NoNul DEF Files!Byte

\* If a string agrees with len characters of another then it has as many.
LEMMA LongEnough ==
  ASSUME NEW a \in Seq(Characters), NEW b \in Seq(Characters), NEW g,
         NEW len \in 0..Len(a), Files!SameBytes(a, b, len, g)
  PROVE  /\ len <= Len(b) /\ \A k \in 1..len : a[k] = b[k]
<1>1. len \in Nat /\ Len(a) \in Nat /\ Len(b) \in Nat /\ len <= Len(a)
  BY LenProperties
<1>2. len <= Len(b)
  <2> SUFFICES ASSUME Len(b) < len PROVE FALSE
    BY <1>1
  <2>1. Len(b) \in 0..len - 1 /\ Len(b) < Len(a) /\ Len(b) + 1 \in 1..Len(a)
    BY <1>1
  <2>2. Files!Byte(a, Len(b), g) = Files!Byte(b, Len(b), g)
    BY <2>1 DEF Files!SameBytes
  <2>3. Files!Byte(b, Len(b), g) = Files!NUL
    BY ByteOf
  <2>4. Files!Byte(a, Len(b), g) = a[Len(b) + 1]
    BY <1>1, <2>1, ByteOf
  <2> QED
    BY <2>1, <2>2, <2>3, <2>4, ByteOf
<1>3. ASSUME NEW k \in 1..len PROVE a[k] = b[k]
  <2>1. k - 1 \in 0..len - 1 /\ k - 1 \in Nat /\ k - 1 < Len(a) /\ k - 1 < Len(b) /\ (k - 1) + 1 = k
    BY <1>1, <1>2
  <2>2. Files!Byte(a, k - 1, g) = Files!Byte(b, k - 1, g)
    BY <2>1 DEF Files!SameBytes
  <2>3. Files!Byte(a, k - 1, g) = a[(k - 1) + 1]
    BY <2>1, ByteOf
  <2>4. Files!Byte(b, k - 1, g) = b[(k - 1) + 1]
    BY <2>1, ByteOf
  <2> QED
    BY <2>1, <2>2, <2>3, <2>4
<1> QED
  BY <1>2, <1>3

LEMMA SameIfAgree ==
  ASSUME NEW a \in Seq(Characters), NEW b \in Seq(Characters), NEW g,
         NEW len \in Nat, len <= Len(a), len <= Len(b), \A k \in 1..len : a[k] = b[k]
  PROVE  Files!SameBytes(a, b, len, g)
<1> SUFFICES ASSUME NEW i \in 0..len - 1
             PROVE  Files!Byte(a, i, g) = Files!Byte(b, i, g)
  BY DEF Files!SameBytes
<1>1. Len(a) \in Nat /\ Len(b) \in Nat
  BY LenProperties
<1>2. i \in Nat /\ i < Len(a) /\ i < Len(b) /\ i + 1 \in 1..len
  BY <1>1
<1>3. Files!Byte(a, i, g) = a[i + 1]
  BY <1>2, ByteOf
<1>4. Files!Byte(b, i, g) = b[i + 1]
  BY <1>2, ByteOf
<1> QED
  BY <1>2, <1>3, <1>4

\* alt_find_dev compares with the NUL of the name sought: the names are equal.
LEMMA SameName ==
  ASSUME NEW d \in Seq(Characters), NEW n \in Seq(Characters), NEW g
  PROVE  Files!SameBytes(d, n, Len(n) + 1, g) <=> d = n
<1>1. Len(d) \in Nat /\ Len(n) \in Nat
  BY LenProperties
<1>2. ASSUME Files!SameBytes(d, n, Len(n) + 1, g) PROVE d = n
  <2>1. Files!SameBytes(n, d, Len(n), g)
    BY <1>1, <1>2 DEF Files!SameBytes
  <2>2. Len(n) <= Len(d) /\ \A k \in 1..Len(n) : n[k] = d[k]
    BY <1>1, <2>1, LongEnough
  <2>3. Len(d) <= Len(n)
    <3> SUFFICES ASSUME Len(n) < Len(d) PROVE FALSE
      BY <1>1
    <3>1. Files!Byte(d, Len(n), g) = Files!Byte(n, Len(n), g)
      BY <1>1, <1>2 DEF Files!SameBytes
    <3>2. Files!Byte(d, Len(n), g) = d[Len(n) + 1]
      BY <1>1, ByteOf
    <3>3. Len(n) + 1 \in 1..Len(d)
      BY <1>1
    <3> QED
      BY <3>1, <3>2, <3>3, ByteOf
  <2> QED
    BY <1>1, <2>2, <2>3, SeqEqual
<1>3. ASSUME d = n PROVE Files!SameBytes(d, n, Len(n) + 1, g)
  BY <1>3 DEF Files!SameBytes
<1> QED
  BY <1>2, <1>3

\* The mount point, without a slash at its end.
Stem(mount) == SubSeq(mount, 1, Files!MountLength(mount))

LEMMA StemProperties ==
  ASSUME NEW d \in Text
  PROVE  /\ Files!MountLength(d) \in 0..Len(d) /\ Stem(d) \in Seq(Characters)
         /\ Len(Stem(d)) = Files!MountLength(d)
         /\ \A k \in 1..Files!MountLength(d) : Stem(d)[k] = d[k]
<1>1. Len(d) \in Nat /\ Len(d) > 0 /\ d \in Seq(Characters)
  BY LenProperties DEF Text
<1>2. Files!MountLength(d) \in 0..Len(d)
  BY <1>1 DEF Files!MountLength
<1> HIDE DEF Text
<1> QED
  BY <1>1, <1>2, SubSeqProperties DEF Stem

\* With a slash behind it.
Slashed(s) == s \o <<"/">>

LEMMA SlashedProperties ==
  ASSUME NEW s \in Seq(Characters)
  PROVE  /\ Slashed(s) \in Seq(Characters \cup {"/"}) /\ Len(Slashed(s)) = Len(s) + 1
         /\ \A k \in 1..Len(s) : Slashed(s)[k] = s[k]
         /\ Slashed(s)[Len(s) + 1] = "/"
<1>1. s \in Seq(Characters \cup {"/"}) /\ <<"/">> \in Seq(Characters \cup {"/"}) /\ Len(s) \in Nat
  BY LenProperties
<1>2. /\ s \o <<"/">> \in Seq(Characters \cup {"/"}) /\ Len(s \o <<"/">>) = Len(s) + Len(<<"/">>)
      /\ \A i \in 1..Len(s) + Len(<<"/">>) :
           (s \o <<"/">>)[i] = IF i <= Len(s) THEN s[i] ELSE <<"/">>[i - Len(s)]
  BY <1>1, ConcatProperties
<1>3. Len(<<"/">>) = 1 /\ <<"/">>[(Len(s) + 1) - Len(s)] = "/"
  BY <1>1
<1> QED
  BY <1>1, <1>2, <1>3 DEF Slashed

LEMMA PrefixIs ==
  ASSUME NEW S, NEW s \in Seq(S), NEW t \in Seq(S)
  PROVE  IsPrefix(s, t) <=> Len(s) <= Len(t) /\ \A k \in 1..Len(s) : s[k] = t[k]
<1>1. Len(s) \in Nat /\ Len(t) \in Nat
  BY LenProperties
<1>2. CASE Len(s) <= Len(t)
  <2> DEFINE a == SubSeq(s, 1, Len(s))
             b == SubSeq(t, 1, Len(s))
  <2>1. /\ a \in Seq(S) /\ Len(a) = Len(s) /\ \A k \in 1..Len(s) : a[k] = s[k]
        /\ b \in Seq(S) /\ Len(b) = Len(s) /\ \A k \in 1..Len(s) : b[k] = t[k]
    BY <1>1, <1>2, SubSeqProperties
  <2> HIDE DEF a, b
  <2>2. a = b <=> \A k \in 1..Len(s) : s[k] = t[k]
    BY <2>1, SeqEqual
  <2> QED
    BY <1>2, <2>2 DEF IsPrefix, a, b
<1> QED
  BY <1>2 DEF IsPrefix

\* alt_find_file: the name is the mount point or continues it by a slash.
LEMMA SameMount ==
  ASSUME NEW d \in Text, NEW n \in Seq(Characters), NEW g
  PROVE  (/\ Files!Byte(n, Files!MountLength(d), g) \in {"/", Files!NUL}
          /\ Files!SameBytes(d, n, Files!MountLength(d), g))
         <=> IsPrefix(Slashed(Stem(d)), Slashed(n))
<1> DEFINE len == Files!MountLength(d)
           s == Slashed(Stem(d))
           t == Slashed(n)
           Agree == \A k \in 1..len : d[k] = n[k]
<1>1. /\ len \in Nat /\ len \in 0..Len(d) /\ len <= Len(d)
      /\ Len(n) \in Nat /\ d \in Seq(Characters)
  BY StemProperties, LenProperties DEF Text
<1>2. /\ s \in Seq(Characters \cup {"/"}) /\ Len(s) = len + 1
      /\ \A k \in 1..len : s[k] = d[k]
      /\ s[len + 1] = "/"
  BY StemProperties, SlashedProperties
<1>3. /\ t \in Seq(Characters \cup {"/"}) /\ Len(t) = Len(n) + 1
      /\ \A k \in 1..Len(n) : t[k] = n[k]
      /\ t[Len(n) + 1] = "/"
  BY SlashedProperties
<1>4. IsPrefix(s, t) <=> Len(s) <= Len(t) /\ \A k \in 1..Len(s) : s[k] = t[k]
  BY <1>2, <1>3, PrefixIs
<1>5. Files!SameBytes(d, n, len, g) <=> len <= Len(n) /\ Agree
  BY <1>1, LongEnough, SameIfAgree
<1>6. ASSUME len <= Len(n)
      PROVE  (Files!Byte(n, len, g) \in {"/", Files!NUL}) <=> t[len + 1] = "/"
  <2>1. CASE len = Len(n)
    BY <1>3, <2>1, ByteOf
  <2>2. CASE len < Len(n)
    <3>1. len + 1 \in 1..Len(n)
      BY <1>1, <2>2
    <3>2. Files!Byte(n, len, g) = n[len + 1] /\ n[len + 1] # Files!NUL
      BY <1>1, <2>2, <3>1, ByteOf
    <3> QED
      BY <1>3, <3>1, <3>2
  <2> QED
    BY <1>1, <1>6, <2>1, <2>2
<1> HIDE DEF len, s, t
<1>7. ASSUME len <= Len(n)
      PROVE  (\A k \in 1..len + 1 : s[k] = t[k]) <=> Agree /\ t[len + 1] = "/"
  <2>1. \A k \in 1..len : k \in 1..Len(n)
    BY <1>1, <1>7
  <2>2. \A k \in 1..len + 1 : k \in 1..len \/ k = len + 1
    BY <1>1
  <2>3. (1..len) \subseteq 1..len + 1 /\ len + 1 \in 1..len + 1
    BY <1>1
  <2> QED
    BY <1>2, <1>3, <2>1, <2>2, <2>3
<1>8. Len(s) <= Len(t) <=> len <= Len(n)
  BY <1>1, <1>2, <1>3
<1>9. IsPrefix(s, t) <=> len <= Len(n) /\ Agree /\ t[len + 1] = "/"
  BY <1>2, <1>4, <1>7, <1>8
<1> HIDE DEF Agree
<1>10. /\ Files!Byte(n, len, g) \in {"/", Files!NUL} /\ Files!SameBytes(d, n, len, g)
       <=> IsPrefix(s, t)
  BY <1>5, <1>6, <1>9
<1> QED
  BY <1>10 DEF len, s, t

\* Both searches, as they should be.
LEMMA SearchesMeant ==
  ASSUME NEW s \in Seq([name : Text]), NEW n \in Seq(Characters), NEW g
  PROVE  /\ Files!FindDev(n, s, g) = At(s, {i \in 1..Len(s) : s[i].name = n})
         /\ Files!FindFile(n, s, g) =
              At(s, {i \in 1..Len(s) : IsPrefix(Slashed(Stem(s[i].name)), Slashed(n))})
<1>1. ASSUME NEW i \in 1..Len(s)
      PROVE  s[i].name \in Text /\ s[i].name \in Seq(Characters)
  <2>1. s[i] \in [name : Text]
    BY ElementOfSeq
  <2> QED
    BY <2>1 DEF Text
<1>2. DevPlaces(n, s, g) = {i \in 1..Len(s) : s[i].name = n}
  BY <1>1, SameName DEF DevPlaces
<1>3. FilePlaces(n, s, g)
        = {i \in 1..Len(s) : IsPrefix(Slashed(Stem(s[i].name)), Slashed(n))}
  BY <1>1, SameMount DEF FilePlaces
<1>4. /\ Files!FindDev(n, s, g) = At(s, DevPlaces(n, s, g))
      /\ Files!FindFile(n, s, g) = At(s, FilePlaces(n, s, g))
  BY SearchPlaces
<1> QED
  BY <1>2, <1>3, <1>4

LEMMA NamesInvariant == LibrarySpec => []NamesInv
<1>1. LibraryInit => NamesInv
  <2> SUFFICES ASSUME LibraryInit, part = "names" PROVE NamesInv
    BY DEF NamesInv
  <2>1. name = <<>> /\ \E a, b \in Strings(MaxEntry) : list = <<[name |-> a], [name |-> b]>>
    BY DEF LibraryInit, NamesInit
  <2>2. \A a \in Strings(MaxEntry) : a \in Text
    BY LibraryAssumption DEF Strings, Text
  <2> HIDE DEF Text
  <2>3. name \in Seq(Characters) /\ list \in Seq([name : Text])
    BY <2>1, <2>2
  <2> QED
    BY <2>3 DEF NamesInv
<1>2. NamesInv /\ [LibraryNext]_library => NamesInv'
  <2> SUFFICES ASSUME NamesInv, [LibraryNext]_library, part = "names" PROVE NamesInv'
    BY DEF NamesInv, LibraryNext, library, names
  <2>1. Longer \/ UNCHANGED names
    BY DEF LibraryNext, library
  <2>2. name \in Seq(Characters) /\ list \in Seq([name : Text])
    BY DEF NamesInv
  <2>3. name' \in Seq(Characters) /\ list' = list
    BY <2>1, <2>2 DEF Longer, names
  <2> QED
    BY <2>2, <2>3 DEF NamesInv
<1> QED
  BY <1>1, <1>2, PTL DEF LibrarySpec

\* The searches find exactly the names and mount points they are meant to find.
THEOREM NamesExact == LibrarySpec => []NamesAreExact
<1>1. NamesInv => NamesAreExact
  <2> SUFFICES ASSUME part = "names", name \in Seq(Characters), list \in Seq([name : Text])
               PROVE  NamesAreExact
    BY DEF NamesInv, NamesAreExact
  <2> DEFINE D == {i \in 1..Len(list) : list[i].name = name}
             M == {i \in 1..Len(list) : IsPrefix(Slashed(Stem(list[i].name)), Slashed(name))}
  <2>1. Files!FindDev(name, list, garbage) = At(list, D)
    BY SearchesMeant
  <2>2. Files!FindFile(name, list, garbage) = At(list, M)
    BY SearchesMeant
  <2>3. Files!FirstMatch(list, LAMBDA d : d.name = name)
          = IF (IF D # {} THEN Files!Min(D) ELSE 0) = 0 THEN Files!None
            ELSE list[IF D # {} THEN Files!Min(D) ELSE 0]
    BY DEF Files!FirstMatch, Files!SelectInSeq
  <2>4. Files!FirstMatch(list, LAMBDA d :
          IsPrefix(SubSeq(d.name, 1, Files!MountLength(d.name)) \o <<"/">>, name \o <<"/">>))
          = IF (IF M # {} THEN Files!Min(M) ELSE 0) = 0 THEN Files!None
            ELSE list[IF M # {} THEN Files!Min(M) ELSE 0]
    BY DEF Files!FirstMatch, Files!SelectInSeq, Stem, Slashed
  <2>5. D \in SUBSET (1..Len(list)) /\ M \in SUBSET (1..Len(list))
    OBVIOUS
  <2> HIDE DEF D, M
  <2>6. /\ Files!FirstMatch(list, LAMBDA d : d.name = name) = At(list, D)
        /\ Files!FirstMatch(list, LAMBDA d :
              IsPrefix(SubSeq(d.name, 1, Files!MountLength(d.name)) \o <<"/">>, name \o <<"/">>))
              = At(list, M)
    BY <2>3, <2>4, <2>5, AtIf
  <2> QED
    BY <2>1, <2>2, <2>6 DEF NamesAreExact
<1> QED
  BY <1>1, NamesInvariant, PTL

-----------------------------------------------------------------------------
(* The caches: lines and their places. *)

\* Products are ordered as their first factors are.
LEMMA ProductGrows ==
  ASSUME NEW a \in Nat, NEW b \in Nat, NEW c \in Nat, a <= b
  PROVE  a * c <= b * c /\ a * c \in Nat
<1>1. b - a \in Nat /\ b = a + (b - a)
  OBVIOUS
<1>2. (b - a) * c \in Nat /\ b * c = a * c + (b - a) * c /\ a * c \in Nat
  BY <1>1
<1> QED
  BY <1>2

\* Quotient and remainder.
LEMMA Division ==
  ASSUME NEW n \in Nat, NEW d \in Nat \ {0}
  PROVE  n \div d \in Nat /\ n % d \in 0..d - 1 /\ n = d * (n \div d) + (n % d)
<1>1. n \div d \in Nat
  OBVIOUS
<1>2. n % d \in 0..d - 1
  OBVIOUS
<1>3. n = d * (n \div d) + (n % d)
  OBVIOUS
<1> QED
  BY <1>1, <1>2, <1>3

LEMMA DivisionUnique ==
  ASSUME NEW m \in Nat, NEW d \in Nat \ {0}, NEW r \in 0..d - 1, NEW n \in Nat, n = m * d + r
  PROVE  n \div d = m /\ n % d = r
<1> DEFINE q == n \div d
           s == n % d
<1>1. q \in Nat /\ s \in 0..d - 1 /\ n = d * q + s
  BY Division
<1> HIDE DEF q, s
<1>2. n = q * d + s /\ m * d \in Nat
  BY <1>1
<1>3. ASSUME q + 1 <= m PROVE FALSE
  <2>1. (q + 1) * d <= m * d /\ (q + 1) * d = q * d + d
    BY <1>1, <1>3, ProductGrows
  <2> QED
    BY <1>1, <1>2, <2>1
<1>4. ASSUME m + 1 <= q PROVE FALSE
  <2>1. (m + 1) * d <= q * d /\ (m + 1) * d = m * d + d
    BY <1>1, <1>4, ProductGrows
  <2> QED
    BY <1>1, <1>2, <2>1
<1>5. q = m
  BY <1>1, <1>3, <1>4
<1>6. s = r
  BY <1>1, <1>2, <1>5
<1> QED
  BY <1>5, <1>6 DEF q, s

\* The addresses of a cache: Spots is the number of its places.
Spots == CACHE_SIZE \div LINE_SIZE

LEMMA CacheConstants ==
  /\ Memory \in Nat /\ LINE_SIZE \in Nat \ {0} /\ CACHE_SIZE \in Nat \ {0}
  /\ Spots \in Nat \ {0} /\ CACHE_SIZE = Spots * LINE_SIZE
<1>1. /\ Memory \in Nat /\ LINE_SIZE \in Nat \ {0} /\ CACHE_SIZE \in Nat \ {0}
      /\ CACHE_SIZE % LINE_SIZE = 0
  BY LibraryAssumption DEF Cache!CacheAssumption
<1>2. Spots \in Nat /\ CACHE_SIZE = LINE_SIZE * Spots + 0
  BY <1>1, Division DEF Spots
<1>3. Spots # 0
  BY <1>1, <1>2
<1>4. CACHE_SIZE = Spots * LINE_SIZE
  BY <1>1, <1>2
<1> QED
  BY <1>1, <1>2, <1>3, <1>4

\* Every address has a line, and the line a place.
LEMMA LineAndPlace ==
  ASSUME NEW a \in Nat
  PROVE  Cache!Line(a) \in Nat /\ Cache!Index(a) \in Cache!Indices
         /\ Cache!Line(a) # Cache!None
<1>1. Cache!Line(a) \in Nat
  BY CacheConstants, Division DEF Cache!Line
<1>2. Cache!Line(a) % Spots \in 0..Spots - 1
  BY <1>1, CacheConstants, Division
<1> QED
  BY <1>1, <1>2 DEF Cache!Index, Cache!Indices, Cache!None, Spots

\* k lines further.
LEMMA LinesFurther ==
  ASSUME NEW a \in Nat, NEW k \in Nat
  PROVE  /\ k * LINE_SIZE \in Nat /\ a + k * LINE_SIZE \in Nat
         /\ Cache!Line(a + k * LINE_SIZE) = Cache!Line(a) + k
         /\ (a + k * LINE_SIZE) % LINE_SIZE = a % LINE_SIZE
<1> DEFINE q == a \div LINE_SIZE
           r == a % LINE_SIZE
<1>1. /\ q \in Nat /\ r \in 0..LINE_SIZE - 1 /\ a = LINE_SIZE * q + r
      /\ LINE_SIZE \in Nat \ {0}
  BY CacheConstants, Division
<1> HIDE DEF q, r
<1>2. k * LINE_SIZE \in Nat /\ a + k * LINE_SIZE \in Nat /\ q + k \in Nat
  BY <1>1
<1>3. a + k * LINE_SIZE = (q + k) * LINE_SIZE + r
  BY <1>1
<1>4. (a + k * LINE_SIZE) \div LINE_SIZE = q + k /\ (a + k * LINE_SIZE) % LINE_SIZE = r
  BY <1>1, <1>2, <1>3, DivisionUnique
<1> QED
  BY <1>2, <1>4 DEF Cache!Line, q, r

\* The addresses below the start of a line.
LEMMA BelowLine ==
  ASSUME NEW a \in Nat, NEW s \in Nat
  PROVE  (a < s * LINE_SIZE <=> Cache!Line(a) < s) /\ s * LINE_SIZE \in Nat
<1> DEFINE q == a \div LINE_SIZE
           r == a % LINE_SIZE
<1>1. /\ q \in Nat /\ r \in 0..LINE_SIZE - 1 /\ a = LINE_SIZE * q + r
      /\ LINE_SIZE \in Nat \ {0}
  BY CacheConstants, Division
<1> HIDE DEF q, r
<1>2. s * LINE_SIZE \in Nat /\ q * LINE_SIZE \in Nat /\ a = q * LINE_SIZE + r
  BY <1>1
<1>3. ASSUME q < s PROVE a < s * LINE_SIZE
  <2>1. (q + 1) * LINE_SIZE <= s * LINE_SIZE /\ (q + 1) * LINE_SIZE = q * LINE_SIZE + LINE_SIZE
    BY <1>1, <1>3, ProductGrows
  <2> QED
    BY <1>1, <1>2, <2>1
<1>4. ASSUME s <= q PROVE s * LINE_SIZE <= a
  <2>1. s * LINE_SIZE <= q * LINE_SIZE
    BY <1>1, <1>4, ProductGrows
  <2> QED
    BY <1>1, <1>2, <2>1
<1>5. a < s * LINE_SIZE <=> q < s
  BY <1>1, <1>2, <1>3, <1>4
<1> QED
  BY <1>2, <1>5 DEF Cache!Line, q

\* A block of whole lines has all addresses of its lines.
LEMMA WholeIsWhole ==
  ASSUME NEW start \in Nat, NEW len \in Nat, Cache!Whole(start, len),
         NEW a \in Cache!Region(start, len), NEW b \in Nat, Cache!Line(b) = Cache!Line(a)
  PROVE  b \in Cache!Region(start, len)
<1> DEFINE s == start \div LINE_SIZE
           m == len \div LINE_SIZE
<1>1. LINE_SIZE \in Nat \ {0} /\ start % LINE_SIZE = 0 /\ len % LINE_SIZE = 0
  BY CacheConstants DEF Cache!Whole
<1>2. s \in Nat /\ m \in Nat /\ start = LINE_SIZE * s + 0 /\ len = LINE_SIZE * m + 0
  BY <1>1, Division
<1> HIDE DEF s, m
<1>3. start = s * LINE_SIZE /\ start + len = (s + m) * LINE_SIZE
  BY <1>1, <1>2
<1>4. a \in Nat /\ start <= a /\ a < start + len
  BY DEF Cache!Region
<1>5. (a < s * LINE_SIZE <=> Cache!Line(a) < s)
      /\ (b < s * LINE_SIZE <=> Cache!Line(b) < s)
  BY <1>2, <1>4, BelowLine
<1>6. s + m \in Nat
  BY <1>2
<1>7. (a < (s + m) * LINE_SIZE <=> Cache!Line(a) < s + m)
      /\ (b < (s + m) * LINE_SIZE <=> Cache!Line(b) < s + m)
  BY <1>6, <1>4, BelowLine
<1>8. start <= b /\ b < start + len
  BY <1>3, <1>4, <1>5, <1>7
<1> QED
  BY <1>8 DEF Cache!Region

\* A walk over a block finds the line of each of its addresses: after an
\* unaligned start the one more that it takes is the one left over.
LEMMA WalkFindsLines ==
  ASSUME NEW start \in Nat, NEW len \in Nat, NEW a \in Cache!Addr,
         a \in Cache!Region(start, len)
  PROVE  \E i \in Cache!Walk(start, len) : i \in Nat /\ Cache!Line(i) = Cache!Line(a)
<1> DEFINE p == Cache!Line(start)
           q == Cache!Line(a)
           k == q - p
           r == start % LINE_SIZE
           more == IF r = 0 THEN 0 ELSE LINE_SIZE
<1>1. /\ LINE_SIZE \in Nat \ {0} /\ Memory \in Nat /\ a \in Nat /\ a < Memory
      /\ start <= a /\ a < start + len
  BY CacheConstants DEF Cache!Addr, Cache!Region
<1>2. p \in Nat /\ q \in Nat
  BY <1>1, LineAndPlace
<1>3. r \in 0..LINE_SIZE - 1 /\ start = LINE_SIZE * p + r
  BY <1>1, Division DEF Cache!Line
<1>4. LINE_SIZE * p = p * LINE_SIZE /\ p * LINE_SIZE \in Nat /\ q * LINE_SIZE \in Nat
  BY <1>1, <1>2
<1>5. q * LINE_SIZE <= a
  BY <1>1, <1>2, <1>4, BelowLine
<1>6. p * LINE_SIZE <= start
  BY <1>1, <1>3, <1>4
<1>7. ~(q < p)
  BY <1>1, <1>2, <1>4, <1>6, BelowLine
<1>8. k \in Nat /\ q = p + k
  BY <1>2, <1>7
<1>9. k * LINE_SIZE \in Nat /\ q * LINE_SIZE = p * LINE_SIZE + k * LINE_SIZE
  BY <1>1, <1>2, <1>8
<1>10. start + k * LINE_SIZE \in Nat /\ Cache!Line(start + k * LINE_SIZE) = q
  BY <1>8, LinesFurther
<1>11. k \in 0..Memory
  <2>1. q * 1 <= q * LINE_SIZE
    BY <1>1, <1>2
  <2> QED
    BY <1>1, <1>2, <1>4, <1>5, <1>8, <2>1
<1>12. k * LINE_SIZE < len + more
  <2>1. CASE r = 0
    BY <1>1, <1>3, <1>4, <1>5, <1>9, <2>1
  <2>2. CASE r # 0
    BY <1>1, <1>3, <1>4, <1>5, <1>9, <2>2
  <2> QED
    BY <2>1, <2>2
<1>13. start + k * LINE_SIZE \in Cache!Walk(start, len)
  <2> HIDE DEF k
  <2> QED
    BY <1>11, <1>12 DEF Cache!Walk
<1> QED
  BY <1>10, <1>13

\* A walk over as much as the cache holds finds every place.
LEMMA WalkFindsPlaces ==
  ASSUME NEW start \in Nat, NEW a \in Nat, CACHE_SIZE < Memory
  PROVE  \E i \in Cache!Walk(start, CACHE_SIZE) : Cache!Index(i) = Cache!Index(a)
<1> DEFINE p == Cache!Line(start)
           t == Cache!Line(a) % Spots
           u == p % Spots
           m == p \div Spots
           k == IF u <= t THEN t - u ELSE t - u + Spots
           w == IF u <= t THEN m ELSE m + 1
<1>1. /\ Memory \in Nat /\ LINE_SIZE \in Nat \ {0} /\ CACHE_SIZE \in Nat
      /\ Spots \in Nat \ {0} /\ CACHE_SIZE = Spots * LINE_SIZE
  BY CacheConstants
<1>2. p \in Nat /\ Cache!Line(a) \in Nat
  BY LineAndPlace
<1>3. t \in 0..Spots - 1 /\ u \in 0..Spots - 1 /\ m \in Nat /\ p = Spots * m + u
  BY <1>1, <1>2, Division
<1> HIDE DEF p, t, u, m
<1>4. k \in 0..Spots - 1 /\ w \in Nat
  BY <1>1, <1>3
<1>5. p + k = w * Spots + t
  <2>1. CASE u <= t
    BY <1>1, <1>3, <2>1
  <2>2. CASE ~(u <= t)
    <3>1. (m + 1) * Spots = Spots * m + Spots
      BY <1>1, <1>3
    <3> QED
      BY <1>1, <1>3, <2>2, <3>1
  <2> QED
    BY <2>1, <2>2
<1> HIDE DEF k, w
<1>6. p + k \in Nat /\ (p + k) % Spots = t
  <2>1. p + k \in Nat
    BY <1>1, <1>2, <1>4
  <2> QED
    BY <2>1, <1>1, <1>3, <1>4, <1>5, DivisionUnique
<1>7. start + k * LINE_SIZE \in Nat /\ Cache!Line(start + k * LINE_SIZE) = p + k
  <2>1. k \in Nat
    BY <1>1, <1>4
  <2> QED
    BY <2>1, LinesFurther DEF p
<1>8. Cache!Index(start + k * LINE_SIZE) = Cache!Index(a)
  BY <1>6, <1>7 DEF Cache!Index, Spots, t
<1>9. k * LINE_SIZE < CACHE_SIZE
  <2>1. (k + 1) * LINE_SIZE <= Spots * LINE_SIZE /\ (k + 1) * LINE_SIZE = k * LINE_SIZE + LINE_SIZE
        /\ k * LINE_SIZE \in Nat
    BY <1>1, <1>4, ProductGrows
  <2> QED
    BY <1>1, <2>1
<1>10. k \in 0..Memory
  <2>1. k * 1 <= k * LINE_SIZE /\ k * LINE_SIZE \in Nat
    BY <1>1, <1>4
  <2> QED
    BY <1>1, <1>4, <1>9, <2>1
<1>11. start + k * LINE_SIZE \in Cache!Walk(start, CACHE_SIZE)
  <2> DEFINE more == IF start % LINE_SIZE = 0 THEN 0 ELSE LINE_SIZE
  <2>1. k * LINE_SIZE < CACHE_SIZE + more
    <3>1. k * LINE_SIZE \in Nat
      BY <1>1, <1>4
    <3> QED
      BY <1>1, <1>9, <3>1
  <2> QED
    BY <1>10, <2>1 DEF Cache!Walk
<1> QED
  BY <1>8, <1>11

\* A walk over whole lines stays in its block.
LEMMA WalkStaysInside ==
  ASSUME NEW start \in Nat, NEW len \in Nat, Cache!Whole(start, len)
  PROVE  Cache!Walk(start, len) \subseteq Cache!Region(start, len)
<1> SUFFICES ASSUME NEW i \in Cache!Walk(start, len)
             PROVE  i \in Cache!Region(start, len)
  OBVIOUS
<1>1. LINE_SIZE \in Nat \ {0} /\ start % LINE_SIZE = 0
  BY CacheConstants DEF Cache!Whole
<1>2. PICK k \in 0..Memory : i = start + k * LINE_SIZE /\ k * LINE_SIZE < len
  <2>1. Cache!Walk(start, len)
          = {start + k * LINE_SIZE : k \in {k \in 0..Memory : k * LINE_SIZE < len + 0}}
    BY <1>1 DEF Cache!Walk
  <2> QED
    BY <2>1
<1>3. k * LINE_SIZE \in Nat
  BY <1>1
<1> QED
  BY <1>2, <1>3 DEF Cache!Region

-----------------------------------------------------------------------------
(* The caches: what they keep. *)

CacheLine == [line : Int, dirty : BOOLEAN, fresh : SUBSET Cache!Addr]

\* With memory m, data cache d and u used around it, the byte is as last written
\* where it is read: in its line, which is then not used around the cache, and if
\* that will not be written back in memory too; or in memory alone.
Current(m, d, u, a) ==
  IF Cache!Holds(d, a)
  THEN /\ a \notin u /\ a \in d[Cache!Index(a)].fresh
       /\ d[Cache!Index(a)].dirty \/ a \in m
  ELSE a \in m

DataInv(m, d, u) ==
  /\ m \subseteq Cache!Addr /\ d \in [Cache!Indices -> CacheLine]
  /\ \A a \in Cache!Addr : Current(m, d, u, a)
  /\ \A a, b \in Cache!Addr : a \in u /\ Cache!Line(b) = Cache!Line(a) => b \in u

\* Code is in memory as it was written, and where the processor fetched it.
CodeInv(m, i, c, p) ==
  /\ c \cup p \subseteq m /\ i \in [Cache!Indices -> CacheLine]
  /\ \A a \in c : Cache!Holds(i, a) => a \in i[Cache!Index(a)].fresh

CacheOK ==
  /\ DataInv(mem, dcache, uncached) /\ CodeInv(mem, icache, code, pending)
  /\ IF uses = "alias" THEN code = {} /\ pending = {} ELSE uncached = {}
CacheInv == part = "caches" => CacheOK

LEMMA AddrNat == Cache!Addr \subseteq Nat
  BY CacheConstants DEF Cache!Addr

LEMMA EmptyIs ==
  /\ Cache!Empty \in CacheLine /\ \A a \in Cache!Addr : Cache!Empty.line # Cache!Line(a)
<1>1. Cache!Empty \in CacheLine
  BY DEF Cache!Empty, CacheLine, Cache!None
<1>2. Cache!Empty.line = Cache!None
  BY DEF Cache!Empty
<1> QED
  BY <1>1, <1>2, AddrNat, LineAndPlace

LEMMA FilledIs ==
  ASSUME NEW m \in SUBSET Cache!Addr, NEW a \in Cache!Addr
  PROVE  /\ Cache!Filled(m, a) \in CacheLine /\ Cache!Filled(m, a).line = Cache!Line(a)
         /\ Cache!Filled(m, a).fresh = {b \in m : Cache!Line(b) = Cache!Line(a)}
<1>1. Cache!Line(a) \in Int
  BY AddrNat, LineAndPlace
<1> QED
  BY <1>1 DEF Cache!Filled, CacheLine

LEMMA WrittenIs ==
  ASSUME NEW l \in CacheLine, NEW a \in Cache!Addr
  PROVE  /\ [l EXCEPT !.dirty = TRUE, !.fresh = @ \cup {a}] \in CacheLine
         /\ [l EXCEPT !.dirty = TRUE, !.fresh = @ \cup {a}].line = l.line
         /\ [l EXCEPT !.dirty = TRUE, !.fresh = @ \cup {a}].dirty
         /\ [l EXCEPT !.dirty = TRUE, !.fresh = @ \cup {a}].fresh = l.fresh \cup {a}
  BY DEF CacheLine

\* A line put into a cache.
LEMMA PutIs ==
  ASSUME NEW d \in [Cache!Indices -> CacheLine], NEW l \in CacheLine, NEW a \in Cache!Addr
  PROVE  /\ [d EXCEPT ![Cache!Index(a)] = l] \in [Cache!Indices -> CacheLine]
         /\ \A b \in Cache!Addr :
              [d EXCEPT ![Cache!Index(a)] = l][Cache!Index(b)]
                = IF Cache!Index(b) = Cache!Index(a) THEN l ELSE d[Cache!Index(b)]
<1>1. \A b \in Cache!Addr : Cache!Index(b) \in Cache!Indices
  BY AddrNat, LineAndPlace
<1> QED
  BY <1>1

LEMMA DroppedIs ==
  ASSUME NEW d \in [Cache!Indices -> CacheLine], NEW s
  PROVE  /\ Cache!Dropped(d, s) \in [Cache!Indices -> CacheLine]
         /\ \A b \in Cache!Addr :
              Cache!Dropped(d, s)[Cache!Index(b)]
                = IF Cache!Index(b) \in s THEN Cache!Empty ELSE d[Cache!Index(b)]
<1>1. \A b \in Cache!Addr : Cache!Index(b) \in Cache!Indices
  BY AddrNat, LineAndPlace
<1> QED
  BY <1>1, EmptyIs DEF Cache!Dropped

\* Bytes of a line share its place.
LEMMA SameLine ==
  ASSUME NEW a, NEW b, Cache!Line(a) = Cache!Line(b)
  PROVE  Cache!Index(a) = Cache!Index(b)
  BY DEF Cache!Index

\* Writing lines back leaves no byte of memory older than it was, and with them
\* dropped nothing is lost.
LEMMA WrittenBackIs ==
  ASSUME DataInv(mem, dcache, uncached), NEW s
  PROVE  /\ mem \subseteq Cache!WrittenBack(s) /\ Cache!WrittenBack(s) \subseteq Cache!Addr
         /\ \A a \in Cache!Addr :
              /\ ~Cache!Holds(dcache, a) => a \in Cache!WrittenBack(s)
              /\ Cache!Index(a) \in s => a \in Cache!WrittenBack(s)
<1>1. /\ mem \subseteq Cache!Addr
      /\ \A a \in Cache!Addr : Current(mem, dcache, uncached, a)
  BY DEF DataInv
<1>2. ASSUME NEW a \in Cache!Addr
      PROVE  a \in Cache!WrittenBack(s)
               <=> IF Cache!Index(a) \in s /\ Cache!Holds(dcache, a) /\ dcache[Cache!Index(a)].dirty
                   THEN a \in dcache[Cache!Index(a)].fresh ELSE a \in mem
  BY DEF Cache!WrittenBack
<1>3. ASSUME NEW a \in Cache!Addr
      PROVE  /\ a \in mem => a \in Cache!WrittenBack(s)
             /\ ~Cache!Holds(dcache, a) => a \in Cache!WrittenBack(s)
             /\ Cache!Index(a) \in s => a \in Cache!WrittenBack(s)
  <2>1. Current(mem, dcache, uncached, a)
    BY <1>1
  <2> QED
    BY <1>2, <2>1 DEF Current
<1>4. Cache!WrittenBack(s) \subseteq Cache!Addr
  BY DEF Cache!WrittenBack
<1> QED
  BY <1>1, <1>3, <1>4

LEMMA FlushKeeps ==
  ASSUME DataInv(mem, dcache, uncached), NEW s
  PROVE  DataInv(Cache!WrittenBack(s), Cache!Dropped(dcache, s), uncached)
<1> DEFINE m == Cache!WrittenBack(s)
           d == Cache!Dropped(dcache, s)
<1>1. /\ mem \subseteq Cache!Addr /\ dcache \in [Cache!Indices -> CacheLine]
      /\ \A a \in Cache!Addr : Current(mem, dcache, uncached, a)
      /\ \A a, b \in Cache!Addr :
           a \in uncached /\ Cache!Line(b) = Cache!Line(a) => b \in uncached
  BY DEF DataInv
<1>2. /\ mem \subseteq m /\ m \subseteq Cache!Addr
      /\ \A a \in Cache!Addr :
           (~Cache!Holds(dcache, a) => a \in m) /\ (Cache!Index(a) \in s => a \in m)
  BY WrittenBackIs
<1>3. /\ d \in [Cache!Indices -> CacheLine]
      /\ \A b \in Cache!Addr :
           d[Cache!Index(b)] = IF Cache!Index(b) \in s THEN Cache!Empty ELSE dcache[Cache!Index(b)]
  BY <1>1, DroppedIs
<1> HIDE DEF m, d
<1>4. ASSUME NEW a \in Cache!Addr PROVE Current(m, d, uncached, a)
  <2>1. CASE Cache!Index(a) \in s
    <3>1. ~Cache!Holds(d, a)
      BY <1>3, <2>1, EmptyIs DEF Cache!Holds
    <3> QED
      BY <1>2, <2>1, <3>1 DEF Current
  <2>2. CASE Cache!Index(a) \notin s
    <3>1. d[Cache!Index(a)] = dcache[Cache!Index(a)]
      BY <1>3, <2>2
    <3>2. Current(mem, dcache, uncached, a)
      BY <1>1
    <3> QED
      BY <1>2, <3>1, <3>2 DEF Current, Cache!Holds
  <2> QED
    BY <2>1, <2>2
<1>5. DataInv(m, d, uncached)
  BY <1>1, <1>2, <1>3, <1>4 DEF DataInv
<1> QED
  BY <1>5 DEF m, d

\* A line that is filled replaces one that has been written back.
LEMMA LoadKeeps ==
  ASSUME DataInv(mem, dcache, uncached), NEW a \in Cache!Addr,
         a \notin uncached, ~Cache!Holds(dcache, a),
         NEW m, m = Cache!WrittenBack({Cache!Index(a)}),
         NEW d, d = [dcache EXCEPT ![Cache!Index(a)] = Cache!Filled(m, a)]
  PROVE  DataInv(m, d, uncached) /\ d[Cache!Index(a)] = Cache!Filled(m, a) /\ mem \subseteq m
         /\ Cache!Holds(d, a)
<1>1. /\ mem \subseteq Cache!Addr /\ dcache \in [Cache!Indices -> CacheLine]
      /\ \A b \in Cache!Addr : Current(mem, dcache, uncached, b)
      /\ \A b, c \in Cache!Addr :
           b \in uncached /\ Cache!Line(c) = Cache!Line(b) => c \in uncached
  BY DEF DataInv
<1>2. /\ mem \subseteq m /\ m \subseteq Cache!Addr
      /\ \A b \in Cache!Addr :
           /\ ~Cache!Holds(dcache, b) => b \in m
           /\ Cache!Index(b) = Cache!Index(a) => b \in m
  BY WrittenBackIs
<1>3. /\ Cache!Filled(m, a) \in CacheLine /\ Cache!Filled(m, a).line = Cache!Line(a)
      /\ Cache!Filled(m, a).fresh = {b \in m : Cache!Line(b) = Cache!Line(a)}
  BY <1>2, FilledIs
<1>4. /\ d \in [Cache!Indices -> CacheLine]
      /\ \A b \in Cache!Addr :
           d[Cache!Index(b)] = IF Cache!Index(b) = Cache!Index(a) THEN Cache!Filled(m, a)
                               ELSE dcache[Cache!Index(b)]
  BY <1>1, <1>3, PutIs
<1>5. ASSUME NEW b \in Cache!Addr PROVE Current(m, d, uncached, b)
  <2>1. CASE Cache!Index(b) = Cache!Index(a)
    <3>1. d[Cache!Index(b)] = Cache!Filled(m, a) /\ b \in m
      BY <1>2, <1>4, <2>1
    <3>2. Cache!Holds(d, b) => b \in Cache!Filled(m, a).fresh /\ b \notin uncached
      BY <1>1, <1>3, <3>1 DEF Cache!Holds
    <3> QED
      BY <3>1, <3>2 DEF Current
  <2>2. CASE Cache!Index(b) # Cache!Index(a)
    <3>1. d[Cache!Index(b)] = dcache[Cache!Index(b)]
      BY <1>4, <2>2
    <3>2. Current(mem, dcache, uncached, b)
      BY <1>1
    <3> QED
      BY <1>2, <3>1, <3>2 DEF Current, Cache!Holds
  <2> QED
    BY <2>1, <2>2
<1>6. DataInv(m, d, uncached)
  BY <1>1, <1>2, <1>4, <1>5 DEF DataInv
<1> QED
  BY <1>2, <1>3, <1>4, <1>6 DEF Cache!Holds

\* A byte written to a line that is held.
LEMMA WriteKeeps ==
  ASSUME NEW m, NEW d, DataInv(m, d, uncached), NEW a \in Cache!Addr, Cache!Holds(d, a),
         NEW e, e = [d EXCEPT ![Cache!Index(a)] =
                       [d[Cache!Index(a)] EXCEPT !.dirty = TRUE, !.fresh = @ \cup {a}]]
  PROVE  DataInv(m \ {a}, e, uncached)
<1> DEFINE l == d[Cache!Index(a)]
           w == [l EXCEPT !.dirty = TRUE, !.fresh = @ \cup {a}]
<1>1. /\ m \subseteq Cache!Addr /\ d \in [Cache!Indices -> CacheLine]
      /\ \A b \in Cache!Addr : Current(m, d, uncached, b)
      /\ \A b, c \in Cache!Addr :
           b \in uncached /\ Cache!Line(c) = Cache!Line(b) => c \in uncached
  BY DEF DataInv
<1>2. l \in CacheLine
  BY <1>1, AddrNat, LineAndPlace
<1>3. w \in CacheLine /\ w.line = l.line /\ w.dirty /\ w.fresh = l.fresh \cup {a}
  BY <1>2, WrittenIs
<1>4. e = [d EXCEPT ![Cache!Index(a)] = w]
  OBVIOUS
<1> HIDE DEF w
<1>5. /\ e \in [Cache!Indices -> CacheLine]
      /\ \A b \in Cache!Addr :
           e[Cache!Index(b)] = IF Cache!Index(b) = Cache!Index(a) THEN w ELSE d[Cache!Index(b)]
  BY <1>1, <1>3, <1>4, PutIs
<1>6. ASSUME NEW b \in Cache!Addr PROVE Current(m \ {a}, e, uncached, b)
  <2>1. Current(m, d, uncached, b)
    BY <1>1
  <2>2. CASE Cache!Index(b) = Cache!Index(a)
    <3>1. e[Cache!Index(b)] = w /\ d[Cache!Index(b)] = l
      BY <1>5, <2>2
    <3>2. Cache!Holds(e, b) <=> Cache!Holds(d, b)
      BY <1>3, <3>1 DEF Cache!Holds
    <3> QED
      BY <1>3, <2>1, <3>1, <3>2 DEF Current
  <2>3. CASE Cache!Index(b) # Cache!Index(a)
    <3>1. e[Cache!Index(b)] = d[Cache!Index(b)] /\ b # a
      BY <1>5, <2>3
    <3> QED
      BY <2>1, <3>1 DEF Current, Cache!Holds
  <2> QED
    BY <2>2, <2>3
<1> QED
  BY <1>1, <1>5, <1>6 DEF DataInv

\* A walk over a part of the memory, trimmed to what a cache holds or not, finds
\* the places of all its bytes, and one that is not trimmed their lines.
LEMMA WalkFindsAll ==
  ASSUME NEW start \in Nat, NEW len \in Nat, start + len <= Memory,
         NEW a \in Cache!Region(start, len)
  PROVE  /\ a \in Cache!Addr
         /\ \E i \in Cache!Walk(start, len) :
              Cache!Line(i) = Cache!Line(a) /\ Cache!Index(i) = Cache!Index(a)
         /\ len > CACHE_SIZE =>
              \E i \in Cache!Walk(start, CACHE_SIZE) : Cache!Index(i) = Cache!Index(a)
<1>1. /\ Memory \in Nat /\ CACHE_SIZE \in Nat /\ a \in Nat /\ a < Memory
      /\ (len > CACHE_SIZE => CACHE_SIZE < Memory)
  BY CacheConstants DEF Cache!Region
<1>2. a \in Cache!Addr
  BY <1>1 DEF Cache!Addr
<1>3. PICK i \in Cache!Walk(start, len) : Cache!Line(i) = Cache!Line(a)
  BY <1>2, WalkFindsLines
<1>4. Cache!Index(i) = Cache!Index(a)
  BY <1>3, SameLine
<1>5. len > CACHE_SIZE =>
        \E j \in Cache!Walk(start, CACHE_SIZE) : Cache!Index(j) = Cache!Index(a)
  BY <1>1, WalkFindsPlaces
<1> QED
  BY <1>2, <1>3, <1>4, <1>5

\* A block whose data have been flushed is in memory, and not in the cache.
LEMMA FlushedBlock ==
  ASSUME DataInv(mem, dcache, uncached), NEW start \in Cache!Addr, NEW len \in 0..Memory,
         start + len <= Memory, Cache!FlushData(start, len)
  PROVE  /\ DataInv(mem', dcache', uncached) /\ mem \subseteq mem'
         /\ \A a \in Cache!Region(start, len) :
              a \in Cache!Addr /\ a \in mem' /\ ~Cache!Holds(dcache', a)
<1> DEFINE s == Cache!Found(Cache!Walk(start, Cache!Trimmed(len)), flushda)
<1>1. mem' = Cache!WrittenBack(s) /\ dcache' = Cache!Dropped(dcache, s)
  BY DEF Cache!FlushData
<1> HIDE DEF s
<1>2. DataInv(mem', dcache', uncached) /\ mem \subseteq mem'
  BY <1>1, FlushKeeps, WrittenBackIs
<1>3. start \in Nat /\ len \in Nat
  BY AddrNat
<1>4. dcache \in [Cache!Indices -> CacheLine]
  BY DEF DataInv
<1>5. ASSUME NEW a \in Cache!Region(start, len)
      PROVE  a \in Cache!Addr /\ a \in mem' /\ ~Cache!Holds(dcache', a)
  <2>1. /\ a \in Cache!Addr
        /\ \E i \in Cache!Walk(start, len) :
             Cache!Line(i) = Cache!Line(a) /\ Cache!Index(i) = Cache!Index(a)
        /\ len > CACHE_SIZE =>
             \E i \in Cache!Walk(start, CACHE_SIZE) : Cache!Index(i) = Cache!Index(a)
    BY <1>3, WalkFindsAll
  <2>2. ASSUME Cache!Holds(dcache, a) PROVE Cache!Index(a) \in s
    <3>1. CASE len > CACHE_SIZE /\ ~flushda
      <4>1. Cache!Trimmed(len) = CACHE_SIZE
        BY <3>1 DEF Cache!Trimmed
      <4>2. PICK i \in Cache!Walk(start, CACHE_SIZE) : Cache!Index(i) = Cache!Index(a)
        BY <2>1, <3>1
      <4> QED
        BY <3>1, <4>1, <4>2 DEF s, Cache!Found
    <3>2. CASE ~(len > CACHE_SIZE /\ ~flushda)
      <4>1. Cache!Trimmed(len) = len
        BY <3>2 DEF Cache!Trimmed
      <4>2. PICK i \in Cache!Walk(start, len) :
              Cache!Line(i) = Cache!Line(a) /\ Cache!Index(i) = Cache!Index(a)
        BY <2>1
      <4>3. Cache!Holds(dcache, i)
        BY <2>2, <4>2 DEF Cache!Holds
      <4> QED
        BY <4>1, <4>2, <4>3 DEF s, Cache!Found
    <3> QED
      BY <3>1, <3>2
  <2>3. dcache'[Cache!Index(a)]
          = IF Cache!Index(a) \in s THEN Cache!Empty ELSE dcache[Cache!Index(a)]
    BY <1>1, <1>4, <2>1, DroppedIs
  <2>4. ~Cache!Holds(dcache', a)
    BY <2>1, <2>2, <2>3, EmptyIs DEF Cache!Holds
  <2>5. Current(mem', dcache', uncached, a)
    BY <1>2, <2>1 DEF DataInv
  <2> QED
    BY <2>1, <2>4, <2>5 DEF Current
<1> QED
  BY <1>2, <1>5

-----------------------------------------------------------------------------
(* The steps of the caches. *)

LEMMA ReadKeeps ==
  ASSUME CacheOK, NEW a \in Cache!Addr, Cache!Read(a)
  PROVE  CacheOK'
<1>1. /\ DataInv(mem, dcache, uncached) /\ CodeInv(mem, icache, code, pending)
      /\ IF uses = "alias" THEN code = {} /\ pending = {} ELSE uncached = {}
  BY DEF CacheOK
<1>2. /\ a \notin uncached /\ ~Cache!Holds(dcache, a)
      /\ mem' = Cache!WrittenBack({Cache!Index(a)})
      /\ dcache' = [dcache EXCEPT ![Cache!Index(a)] = Cache!Filled(mem', a)]
      /\ icache' = icache /\ uncached' = uncached /\ code' = code /\ pending' = pending
      /\ uses' = uses
  BY DEF Cache!Read, Cache!Access, Cache!config
<1>3. DataInv(mem', dcache', uncached) /\ mem \subseteq mem'
  BY <1>1, <1>2, LoadKeeps
<1>4. CodeInv(mem', icache, code, pending)
  BY <1>1, <1>3 DEF CodeInv
<1> QED
  BY <1>1, <1>2, <1>3, <1>4 DEF CacheOK

LEMMA WriteStep ==
  ASSUME CacheOK, NEW a \in Cache!Addr, Cache!Write(a)
  PROVE  CacheOK'
<1>1. /\ DataInv(mem, dcache, uncached) /\ CodeInv(mem, icache, code, pending)
      /\ IF uses = "alias" THEN code = {} /\ pending = {} ELSE uncached = {}
  BY DEF CacheOK
<1> DEFINE m == IF Cache!Holds(dcache, a) THEN mem ELSE Cache!WrittenBack({Cache!Index(a)})
           l == IF Cache!Holds(dcache, a) THEN dcache[Cache!Index(a)] ELSE Cache!Filled(m, a)
           d == IF Cache!Holds(dcache, a) THEN dcache
                ELSE [dcache EXCEPT ![Cache!Index(a)] = Cache!Filled(m, a)]
           w == [l EXCEPT !.dirty = TRUE, !.fresh = @ \cup {a}]
<1>2. /\ a \notin uncached /\ pending = {} /\ code' = code \ {a} /\ mem' = m \ {a}
      /\ dcache' = [dcache EXCEPT ![Cache!Index(a)] = w]
      /\ icache' = icache /\ uncached' = uncached /\ pending' = pending /\ uses' = uses
  BY DEF Cache!Write, Cache!Access, Cache!config
<1>3. DataInv(m, d, uncached) /\ d[Cache!Index(a)] = l /\ mem \subseteq m /\ Cache!Holds(d, a)
  <2>1. CASE Cache!Holds(dcache, a)
    BY <1>1, <2>1
  <2>2. CASE ~Cache!Holds(dcache, a)
    <3>1. m = Cache!WrittenBack({Cache!Index(a)}) /\ l = Cache!Filled(m, a)
          /\ d = [dcache EXCEPT ![Cache!Index(a)] = Cache!Filled(m, a)]
      BY <2>2
    <3> HIDE DEF m, d, l
    <3> QED
      BY <1>1, <1>2, <2>2, <3>1, LoadKeeps
  <2> QED
    BY <2>1, <2>2
<1>4. dcache' = [d EXCEPT ![Cache!Index(a)] = w]
  <2> HIDE DEF w, m
  <2>1. CASE Cache!Holds(dcache, a)
    BY <1>2, <2>1
  <2>2. CASE ~Cache!Holds(dcache, a)
    BY <1>1, <1>2, <2>2 DEF DataInv
  <2> QED
    BY <2>1, <2>2
<1> HIDE DEF m, d, l
<1>5. DataInv(mem', dcache', uncached)
  BY <1>2, <1>3, <1>4, WriteKeeps
<1>6. CodeInv(mem', icache, code', pending)
  BY <1>1, <1>2, <1>3 DEF CodeInv
<1> QED
  BY <1>1, <1>2, <1>5, <1>6 DEF CacheOK

LEMMA WriteUncachedKeeps ==
  ASSUME CacheOK, NEW a \in Cache!Addr, Cache!WriteUncached(a)
  PROVE  CacheOK'
<1>1. /\ DataInv(mem, dcache, uncached) /\ CodeInv(mem, icache, code, pending)
      /\ IF uses = "alias" THEN code = {} /\ pending = {} ELSE uncached = {}
  BY DEF CacheOK
<1>2. Current(mem, dcache, uncached, a) /\ dcache \in [Cache!Indices -> CacheLine]
  BY <1>1 DEF DataInv
<1>3. a \in uncached /\ pending = {} /\ code' = code \ {a} /\ mem' = mem \cup {a}
      /\ icache' = icache /\ uncached' = uncached /\ pending' = pending /\ uses' = uses
  BY DEF Cache!WriteUncached, Cache!Access, Cache!config
<1>4. a \in mem /\ ~Cache!Holds(dcache, a)
  BY <1>2, <1>3 DEF Current
<1>5. mem' = mem
  BY <1>3, <1>4
<1>6. dcache' = dcache
  <2>1. dcache' = [dcache EXCEPT ![Cache!Index(a)] = dcache[Cache!Index(a)]]
    BY <1>4 DEF Cache!WriteUncached, Cache!Access
  <2> QED
    BY <1>2, <2>1
<1>7. CodeInv(mem, icache, code', pending)
  BY <1>1, <1>3 DEF CodeInv
<1> QED
  BY <1>1, <1>3, <1>5, <1>6, <1>7 DEF CacheOK

LEMMA FetchKeeps ==
  ASSUME CacheOK, NEW a \in Cache!Addr, Cache!Fetch(a)
  PROVE  CacheOK'
<1>1. /\ DataInv(mem, dcache, uncached) /\ CodeInv(mem, icache, code, pending)
      /\ IF uses = "alias" THEN code = {} /\ pending = {} ELSE uncached = {}
  BY DEF CacheOK
<1>2. /\ icache' = [icache EXCEPT ![Cache!Index(a)] = Cache!Filled(mem, a)]
      /\ mem' = mem /\ dcache' = dcache /\ uncached' = uncached /\ code' = code
      /\ pending' = pending /\ uses' = uses
  BY DEF Cache!Fetch, Cache!config
<1>3. mem \subseteq Cache!Addr /\ code \subseteq mem /\ icache \in [Cache!Indices -> CacheLine]
  BY <1>1 DEF DataInv, CodeInv
<1>4. /\ Cache!Filled(mem, a) \in CacheLine
      /\ Cache!Filled(mem, a).line = Cache!Line(a)
      /\ Cache!Filled(mem, a).fresh = {b \in mem : Cache!Line(b) = Cache!Line(a)}
  BY <1>3, FilledIs
<1>5. /\ icache' \in [Cache!Indices -> CacheLine]
      /\ \A b \in Cache!Addr :
           icache'[Cache!Index(b)] = IF Cache!Index(b) = Cache!Index(a)
                                     THEN Cache!Filled(mem, a) ELSE icache[Cache!Index(b)]
  BY <1>2, <1>3, <1>4, PutIs
<1>6. ASSUME NEW b \in code, Cache!Holds(icache', b) PROVE b \in icache'[Cache!Index(b)].fresh
  <2>1. b \in Cache!Addr /\ b \in mem
    BY <1>3
  <2>2. CASE Cache!Index(b) = Cache!Index(a)
    BY <1>4, <1>5, <1>6, <2>1, <2>2 DEF Cache!Holds
  <2>3. CASE Cache!Index(b) # Cache!Index(a)
    <3>1. icache'[Cache!Index(b)] = icache[Cache!Index(b)]
      BY <1>5, <2>1, <2>3
    <3> QED
      BY <1>1, <1>6, <3>1 DEF CodeInv, Cache!Holds
  <2> QED
    BY <2>2, <2>3
<1>7. CodeInv(mem, icache', code, pending)
  BY <1>1, <1>5, <1>6 DEF CodeInv
<1> QED
  BY <1>1, <1>2, <1>7 DEF CacheOK

\* A block of memory, as the program passes it.
BlockOf(start, len) == start \in Cache!Addr /\ len \in 0..Memory /\ start + len <= Memory

LEMMA FlushStep ==
  ASSUME CacheOK, NEW start, NEW len, BlockOf(start, len), Cache!Flush(start, len)
  PROVE  CacheOK'
<1>1. /\ DataInv(mem, dcache, uncached) /\ CodeInv(mem, icache, code, pending)
      /\ IF uses = "alias" THEN code = {} /\ pending = {} ELSE uncached = {}
  BY DEF CacheOK
<1>2. /\ Cache!FlushData(start, len) /\ icache' = icache /\ uncached' = uncached
      /\ code' = code /\ pending' = pending /\ uses' = uses
  BY DEF Cache!Flush, Cache!config
<1>3. DataInv(mem', dcache', uncached) /\ mem \subseteq mem'
  BY <1>1, <1>2, FlushedBlock DEF BlockOf
<1>4. CodeInv(mem', icache, code, pending)
  BY <1>1, <1>3 DEF CodeInv
<1> QED
  BY <1>1, <1>2, <1>3, <1>4 DEF CacheOK

\* What is given up is what memory holds.  No byte of another line goes with it.
LEMMA DiscardKeeps ==
  ASSUME CacheOK, NEW start, NEW len, BlockOf(start, len), Cache!FlushNoWriteback(start, len)
  PROVE  CacheOK'
<1> DEFINE r == Cache!Region(start, len)
           s == Cache!Found(Cache!Walk(start, len), TRUE)
<1>1. /\ DataInv(mem, dcache, uncached) /\ CodeInv(mem, icache, code, pending)
      /\ IF uses = "alias" THEN code = {} /\ pending = {} ELSE uncached = {}
  BY DEF CacheOK
<1>2. /\ Cache!Whole(start, len) /\ r \cap uncached = {}
      /\ dcache' = Cache!Dropped(dcache, s) /\ mem' = mem \cup r /\ code' = code \ r
      /\ pending = {} /\ icache' = icache /\ uncached' = uncached
      /\ pending' = pending /\ uses' = uses
  BY DEF Cache!FlushNoWriteback, Cache!config
<1>3. start \in Nat /\ len \in Nat
  BY AddrNat DEF BlockOf
<1>4. /\ mem \subseteq Cache!Addr /\ dcache \in [Cache!Indices -> CacheLine]
      /\ \A a \in Cache!Addr : Current(mem, dcache, uncached, a)
      /\ \A a, b \in Cache!Addr :
           a \in uncached /\ Cache!Line(b) = Cache!Line(a) => b \in uncached
  BY <1>1 DEF DataInv
<1>5. r \subseteq Cache!Addr
  BY <1>3, WalkFindsAll DEF BlockOf
<1>6. /\ dcache' \in [Cache!Indices -> CacheLine]
      /\ \A a \in Cache!Addr :
           dcache'[Cache!Index(a)]
             = IF Cache!Index(a) \in s THEN Cache!Empty ELSE dcache[Cache!Index(a)]
  <2> HIDE DEF r, s
  <2> QED
    BY <1>2, <1>4, DroppedIs
<1>7. ASSUME NEW a \in r, Cache!Holds(dcache, a) PROVE Cache!Index(a) \in s
  <2>1. PICK i \in Cache!Walk(start, len) :
          Cache!Line(i) = Cache!Line(a) /\ Cache!Index(i) = Cache!Index(a)
    BY <1>3, WalkFindsAll DEF BlockOf
  <2>2. Cache!Holds(dcache, i)
    BY <1>7, <2>1 DEF Cache!Holds
  <2> QED
    BY <2>1, <2>2 DEF Cache!Found
<1>8. ASSUME NEW a \in Cache!Addr, a \notin r, Cache!Holds(dcache, a)
      PROVE  Cache!Index(a) \notin s
  <2> SUFFICES ASSUME Cache!Index(a) \in s PROVE FALSE
    OBVIOUS
  <2>1. PICK i \in Cache!Walk(start, len) :
          Cache!Holds(dcache, i) /\ Cache!Index(a) = Cache!Index(i)
    BY DEF Cache!Found
  <2>2. i \in r
    BY <1>2, <1>3, WalkStaysInside
  <2>3. Cache!Line(a) = Cache!Line(i)
    BY <1>8, <2>1 DEF Cache!Holds
  <2>4. a \in Nat
    BY AddrNat
  <2> QED
    BY <1>2, <1>3, <1>8, <2>2, <2>3, <2>4, WholeIsWhole
<1> HIDE DEF r, s
<1>9. ASSUME NEW a \in Cache!Addr PROVE Current(mem', dcache', uncached, a)
  <2>1. Current(mem, dcache, uncached, a)
    BY <1>4
  <2>2. CASE Cache!Index(a) \in s
    <3>1. ~Cache!Holds(dcache', a)
      BY <1>6, <2>2, EmptyIs DEF Cache!Holds
    <3>2. a \in mem'
      BY <1>2, <1>8, <2>1, <2>2 DEF Current
    <3> QED
      BY <3>1, <3>2 DEF Current
  <2>3. CASE Cache!Index(a) \notin s
    <3>1. dcache'[Cache!Index(a)] = dcache[Cache!Index(a)]
      BY <1>6, <2>3
    <3> QED
      BY <1>2, <2>1, <3>1 DEF Current, Cache!Holds
  <2> QED
    BY <2>2, <2>3
<1>10. DataInv(mem', dcache', uncached)
  BY <1>2, <1>4, <1>5, <1>6, <1>9 DEF DataInv
<1>11. CodeInv(mem', icache, code', pending)
  BY <1>1, <1>2 DEF CodeInv
<1> QED
  BY <1>1, <1>2, <1>10, <1>11 DEF CacheOK

LEMMA RemapUncachedKeeps ==
  ASSUME CacheOK, NEW start, NEW len, BlockOf(start, len), Cache!RemapUncached(start, len)
  PROVE  CacheOK'
<1> DEFINE r == Cache!Region(start, len)
<1>1. /\ DataInv(mem, dcache, uncached) /\ CodeInv(mem, icache, code, pending)
      /\ IF uses = "alias" THEN code = {} /\ pending = {} ELSE uncached = {}
  BY DEF CacheOK
<1>2. /\ uses = "alias" /\ Cache!Whole(start, len) /\ Cache!FlushData(start, len)
      /\ uncached' = uncached \cup r /\ icache' = icache /\ code' = code
      /\ pending' = pending /\ uses' = uses
  BY DEF Cache!RemapUncached, Cache!config
<1>3. /\ DataInv(mem', dcache', uncached) /\ mem \subseteq mem'
      /\ \A a \in r : a \in Cache!Addr /\ a \in mem' /\ ~Cache!Holds(dcache', a)
  BY <1>1, <1>2, FlushedBlock DEF BlockOf
<1>4. \A a \in r, b \in Cache!Addr : Cache!Line(b) = Cache!Line(a) => b \in r
  <2>1. start \in Nat /\ len \in Nat
    BY AddrNat DEF BlockOf
  <2> QED
    BY <1>2, <2>1, AddrNat, WholeIsWhole
<1> HIDE DEF r
<1>5. ASSUME NEW a \in Cache!Addr PROVE Current(mem', dcache', uncached', a)
  <2>1. Current(mem', dcache', uncached, a)
    BY <1>3 DEF DataInv
  <2> QED
    BY <1>2, <1>3, <2>1 DEF Current
<1>6. ASSUME NEW a \in Cache!Addr, NEW b \in Cache!Addr, a \in uncached',
             Cache!Line(b) = Cache!Line(a)
      PROVE  b \in uncached'
  <2>1. CASE a \in r
    BY <1>2, <1>4, <1>6, <2>1
  <2>2. CASE a \in uncached
    BY <1>1, <1>2, <1>6, <2>2 DEF DataInv
  <2> QED
    BY <1>2, <1>6, <2>1, <2>2
<1>7. DataInv(mem', dcache', uncached')
  BY <1>3, <1>5, <1>6 DEF DataInv
<1>8. CodeInv(mem', icache, code, pending)
  BY <1>1, <1>3 DEF CodeInv
<1> QED
  BY <1>1, <1>2, <1>7, <1>8 DEF CacheOK

LEMMA RemapCachedKeeps ==
  ASSUME CacheOK, NEW start, NEW len, BlockOf(start, len), Cache!RemapCached(start, len)
  PROVE  CacheOK'
<1> DEFINE r == Cache!Region(start, len)
<1>1. /\ DataInv(mem, dcache, uncached) /\ CodeInv(mem, icache, code, pending)
      /\ IF uses = "alias" THEN code = {} /\ pending = {} ELSE uncached = {}
  BY DEF CacheOK
<1>2. /\ Cache!Whole(start, len) /\ uncached' = uncached \ r
      /\ mem' = mem /\ dcache' = dcache /\ icache' = icache /\ code' = code
      /\ pending' = pending /\ uses' = uses
  BY DEF Cache!RemapCached, Cache!config
<1>3. /\ mem \subseteq Cache!Addr /\ dcache \in [Cache!Indices -> CacheLine]
      /\ \A a \in Cache!Addr : Current(mem, dcache, uncached, a)
      /\ \A a, b \in Cache!Addr :
           a \in uncached /\ Cache!Line(b) = Cache!Line(a) => b \in uncached
  BY <1>1 DEF DataInv
<1>4. \A a \in Cache!Addr, b \in r : Cache!Line(b) = Cache!Line(a) => a \in r
  <2>1. start \in Nat /\ len \in Nat
    BY AddrNat DEF BlockOf
  <2> QED
    BY <1>2, <2>1, AddrNat, WholeIsWhole
<1> HIDE DEF r
<1>5. ASSUME NEW a \in Cache!Addr PROVE Current(mem, dcache, uncached', a)
  <2>1. Current(mem, dcache, uncached, a)
    BY <1>3
  <2> QED
    BY <1>2, <2>1 DEF Current
<1>6. \A a, b \in Cache!Addr :
        a \in uncached' /\ Cache!Line(b) = Cache!Line(a) => b \in uncached'
  BY <1>2, <1>3, <1>4
<1>7. DataInv(mem, dcache, uncached')
  BY <1>3, <1>5, <1>6 DEF DataInv
<1> QED
  BY <1>1, <1>2, <1>7 DEF CacheOK

-----------------------------------------------------------------------------
(* Code is published. *)

LEMMA PublishKeeps ==
  ASSUME CacheOK, NEW start, NEW len, BlockOf(start, len), Cache!Publish(start, len)
  PROVE  CacheOK'
<1>1. /\ DataInv(mem, dcache, uncached) /\ CodeInv(mem, icache, code, pending)
      /\ IF uses = "alias" THEN code = {} /\ pending = {} ELSE uncached = {}
  BY DEF CacheOK
<1>2. /\ uses = "code" /\ Cache!FlushData(start, len) /\ pending' = Cache!Region(start, len)
      /\ icache' = icache /\ uncached' = uncached /\ code' = code /\ uses' = uses
  BY DEF Cache!Publish, Cache!config
<1>3. /\ DataInv(mem', dcache', uncached) /\ mem \subseteq mem'
      /\ \A a \in Cache!Region(start, len) : a \in mem'
  BY <1>1, <1>2, FlushedBlock DEF BlockOf
<1>4. CodeInv(mem', icache, code, pending')
  BY <1>1, <1>2, <1>3 DEF CodeInv
<1> QED
  BY <1>1, <1>2, <1>3, <1>4 DEF CacheOK

LEMMA PublishAllKeeps == CacheOK /\ Cache!PublishAll => CacheOK'
<1> SUFFICES ASSUME CacheOK, Cache!PublishAll PROVE CacheOK'
  OBVIOUS
<1>1. /\ DataInv(mem, dcache, uncached) /\ CodeInv(mem, icache, code, pending)
      /\ IF uses = "alias" THEN code = {} /\ pending = {} ELSE uncached = {}
  BY DEF CacheOK
<1>2. /\ uses = "code" /\ mem' = Cache!WrittenBack(Cache!Indices)
      /\ dcache' = Cache!Dropped(dcache, Cache!Indices) /\ pending' = Cache!Addr
      /\ icache' = icache /\ uncached' = uncached /\ code' = code /\ uses' = uses
  BY DEF Cache!PublishAll, Cache!config
<1>3. DataInv(mem', dcache', uncached)
  BY <1>1, <1>2, FlushKeeps
<1>4. mem \subseteq mem' /\ Cache!Addr \subseteq mem'
  <2>1. \A a \in Cache!Addr : Cache!Index(a) \in Cache!Indices
    BY AddrNat, LineAndPlace
  <2> QED
    BY <1>1, <1>2, <2>1, WrittenBackIs
<1>5. CodeInv(mem', icache, code, pending')
  BY <1>1, <1>2, <1>4 DEF CodeInv
<1> QED
  BY <1>1, <1>2, <1>3, <1>5 DEF CacheOK

\* A walk that finds the places of all code that is pending.
LEMMA FlushInstructionsKeeps ==
  ASSUME CacheOK, NEW start, NEW len, Cache!FlushInstructions(start, len),
         \A a \in pending :
           \E i \in Cache!Walk(start, IF len > CACHE_SIZE THEN CACHE_SIZE ELSE len) :
             Cache!Index(i) = Cache!Index(a)
  PROVE  CacheOK'
<1> DEFINE s == {Cache!Index(i) :
                 i \in Cache!Walk(start, IF len > CACHE_SIZE THEN CACHE_SIZE ELSE len)}
<1>1. /\ DataInv(mem, dcache, uncached) /\ CodeInv(mem, icache, code, pending)
      /\ IF uses = "alias" THEN code = {} /\ pending = {} ELSE uncached = {}
  BY DEF CacheOK
<1>2. /\ pending # {} /\ code' = code \cup pending /\ pending' = {}
      /\ icache' = Cache!Dropped(icache, s) /\ mem' = mem /\ dcache' = dcache
      /\ uncached' = uncached /\ uses' = uses
  BY DEF Cache!FlushInstructions, Cache!config
<1>3. \A a \in pending : Cache!Index(a) \in s
  OBVIOUS
<1> HIDE DEF s
<1>4. /\ code \cup pending \subseteq mem /\ mem \subseteq Cache!Addr
      /\ icache \in [Cache!Indices -> CacheLine]
      /\ \A a \in code : Cache!Holds(icache, a) => a \in icache[Cache!Index(a)].fresh
  BY <1>1 DEF CodeInv, DataInv
<1>5. /\ icache' \in [Cache!Indices -> CacheLine]
      /\ \A a \in Cache!Addr :
           icache'[Cache!Index(a)]
             = IF Cache!Index(a) \in s THEN Cache!Empty ELSE icache[Cache!Index(a)]
  BY <1>2, <1>4, DroppedIs
<1>6. ASSUME NEW a \in code', Cache!Holds(icache', a) PROVE a \in icache'[Cache!Index(a)].fresh
  <2>1. a \in Cache!Addr
    BY <1>2, <1>4
  <2>2. Cache!Index(a) \notin s
    BY <1>5, <1>6, <2>1, EmptyIs DEF Cache!Holds
  <2>3. a \in code /\ icache'[Cache!Index(a)] = icache[Cache!Index(a)]
    BY <1>2, <1>3, <1>5, <2>1, <2>2
  <2> QED
    BY <1>4, <1>6, <2>3 DEF Cache!Holds
<1>7. CodeInv(mem, icache', code', pending')
  BY <1>2, <1>4, <1>5, <1>6 DEF CodeInv
<1> QED
  BY <1>1, <1>2, <1>7 DEF CacheOK

LEMMA FlushBlockKeeps ==
  ASSUME CacheOK, NEW start, NEW len, BlockOf(start, len),
         pending = Cache!Region(start, len), Cache!FlushInstructions(start, len)
  PROVE  CacheOK'
<1>1. start \in Nat /\ len \in Nat /\ start + len <= Memory
  BY AddrNat DEF BlockOf
<1>2. ASSUME NEW a \in pending
      PROVE  \E i \in Cache!Walk(start, IF len > CACHE_SIZE THEN CACHE_SIZE ELSE len) :
               Cache!Index(i) = Cache!Index(a)
  BY <1>1, WalkFindsAll
<1> QED
  BY <1>2, FlushInstructionsKeeps

LEMMA FlushAllKeeps == CacheOK /\ Cache!FlushAllInstructions => CacheOK'
<1> SUFFICES ASSUME CacheOK, pending = Cache!Addr, Cache!FlushInstructions(0, CACHE_SIZE)
             PROVE  CacheOK'
  BY DEF Cache!FlushAllInstructions
<1>1. CACHE_SIZE \in Nat /\ Memory \in Nat
  BY CacheConstants
<1>2. ASSUME NEW a \in Cache!Addr
      PROVE  \E i \in Cache!Walk(0, CACHE_SIZE) : Cache!Index(i) = Cache!Index(a)
  <2>1. CASE CACHE_SIZE < Memory
    BY <1>1, <2>1, AddrNat, WalkFindsPlaces
  <2>2. CASE ~(CACHE_SIZE < Memory)
    <3>1. a \in Cache!Region(0, CACHE_SIZE)
      BY <1>1, <2>2 DEF Cache!Addr, Cache!Region
    <3>2. PICK i \in Cache!Walk(0, CACHE_SIZE) : Cache!Line(i) = Cache!Line(a)
      BY <1>1, <3>1, WalkFindsLines
    <3> QED
      BY <3>2, SameLine
  <2> QED
    BY <2>1, <2>2
<1>3. (IF CACHE_SIZE > CACHE_SIZE THEN CACHE_SIZE ELSE CACHE_SIZE) = CACHE_SIZE
  OBVIOUS
<1> QED
  BY <1>2, <1>3, FlushInstructionsKeeps

-----------------------------------------------------------------------------
(* All of them. *)

LEMMA CacheStep == CacheOK /\ Cache!Next => CacheOK'
<1> SUFFICES ASSUME CacheOK, Cache!Next PROVE CacheOK'
  OBVIOUS
<1>1. ASSUME NEW a \in Cache!Addr,
             Cache!Read(a) \/ Cache!Write(a) \/ Cache!WriteUncached(a) \/ Cache!Fetch(a)
      PROVE  CacheOK'
  BY <1>1, ReadKeeps, WriteStep, WriteUncachedKeeps, FetchKeeps
<1>2. ASSUME NEW start \in Cache!Addr, NEW len \in 0..Memory, start + len <= Memory,
             \/ Cache!Flush(start, len) \/ Cache!FlushNoWriteback(start, len)
             \/ Cache!RemapUncached(start, len) \/ Cache!RemapCached(start, len)
             \/ Cache!UncachedMalloc(start, len) \/ Cache!UncachedFree(start, len)
             \/ Cache!Publish(start, len)
             \/ (pending = Cache!Region(start, len) /\ Cache!FlushInstructions(start, len))
      PROVE  CacheOK'
  <2>1. BlockOf(start, len)
    BY <1>2 DEF BlockOf
  <2>2. CASE Cache!Flush(start, len)
    BY <2>1, <2>2, FlushStep
  <2>3. CASE Cache!FlushNoWriteback(start, len)
    BY <2>1, <2>3, DiscardKeeps
  <2>4. CASE Cache!RemapUncached(start, len) \/ Cache!UncachedMalloc(start, len)
    BY <2>1, <2>4, RemapUncachedKeeps DEF Cache!UncachedMalloc
  <2>5. CASE Cache!RemapCached(start, len) \/ Cache!UncachedFree(start, len)
    BY <2>1, <2>5, RemapCachedKeeps DEF Cache!UncachedFree
  <2>6. CASE Cache!Publish(start, len)
    BY <2>1, <2>6, PublishKeeps
  <2>7. CASE pending = Cache!Region(start, len) /\ Cache!FlushInstructions(start, len)
    BY <2>1, <2>7, FlushBlockKeeps
  <2> QED
    BY <1>2, <2>2, <2>3, <2>4, <2>5, <2>6, <2>7
<1> QED
  BY <1>1, <1>2, PublishAllKeeps, FlushAllKeeps DEF Cache!Next

LEMMA CacheInitially == Cache!Init => CacheOK
<1> SUFFICES ASSUME Cache!Init PROVE CacheOK
  OBVIOUS
<1>1. /\ mem = Cache!Addr /\ dcache = [i \in Cache!Indices |-> Cache!Empty]
      /\ icache = [i \in Cache!Indices |-> Cache!Empty]
      /\ uncached = {} /\ code = {} /\ pending = {}
  BY DEF Cache!Init
<1>2. dcache \in [Cache!Indices -> CacheLine] /\ icache \in [Cache!Indices -> CacheLine]
  BY <1>1, EmptyIs
<1>3. ASSUME NEW a \in Cache!Addr PROVE Current(mem, dcache, uncached, a)
  <2>1. dcache[Cache!Index(a)] = Cache!Empty
    BY <1>1, AddrNat, LineAndPlace
  <2> QED
    BY <1>1, <2>1, EmptyIs DEF Current, Cache!Holds
<1>4. DataInv(mem, dcache, uncached) /\ CodeInv(mem, icache, code, pending)
  BY <1>1, <1>2, <1>3 DEF DataInv, CodeInv
<1> QED
  BY <1>1, <1>4 DEF CacheOK

LEMMA CachesInvariant == LibrarySpec => []CacheInv
<1>1. LibraryInit => CacheInv
  BY CacheInitially DEF LibraryInit, CacheInv
<1>2. CacheInv /\ [LibraryNext]_library => CacheInv'
  <2> SUFFICES ASSUME CacheInv, [LibraryNext]_library, part' = "caches" PROVE CacheOK'
    BY DEF CacheInv
  <2>1. part = "caches" /\ (Cache!Next \/ UNCHANGED caches)
    BY DEF LibraryNext, library
  <2>2. CacheOK
    BY <2>1 DEF CacheInv
  <2>3. CASE Cache!Next
    BY <2>2, <2>3, CacheStep
  <2>4. CASE UNCHANGED caches
    BY <2>2, <2>4 DEF caches, CacheOK
  <2> QED
    BY <2>1, <2>3, <2>4
<1> QED
  BY <1>1, <1>2, PTL DEF LibrarySpec

\* Through the cache and around it a byte reads back as it was last written, and
\* published code is executed as it was written, whatever the processor fetched
\* in between: for every size of memory, line and cache.
THEOREM CachesCoherent == LibrarySpec => []CachesAreCoherent
<1>1. CacheOK => Cache!ReadsLatest /\ Cache!FetchesLatest
  <2> SUFFICES ASSUME CacheOK PROVE Cache!ReadsLatest /\ Cache!FetchesLatest
    OBVIOUS
  <2>1. /\ \A a \in Cache!Addr : Current(mem, dcache, uncached, a)
        /\ code \subseteq mem
        /\ \A a \in code : Cache!Holds(icache, a) => a \in icache[Cache!Index(a)].fresh
    BY DEF CacheOK, DataInv, CodeInv
  <2>2. Cache!ReadsLatest
    BY <2>1 DEF Current, Cache!ReadsLatest, Cache!Fresh
  <2>3. Cache!FetchesLatest
    BY <2>1 DEF Cache!FetchesLatest, Cache!Fresh
  <2> QED
    BY <2>2, <2>3
<1>2. CacheInv => CachesAreCoherent
  BY <1>1 DEF CacheInv, CachesAreCoherent
<1> QED
  BY <1>2, CachesInvariant, PTL

-----------------------------------------------------------------------------
(* The log. *)

LEMMA LogConstants ==
  /\ Rates \subseteq Nat /\ EchoLen \in Nat \ {0} /\ Divisor \in Nat \ {0}
  /\ Texts \subseteq Seq(UNION {Log!Range(text) : text \in Texts})
  BY LibraryAssumption DEF Log!LogAssumption

\* A level that is on goes with the levels below.
LEMMA FlagsOf ==
  ASSUME level \in Log!Levels
  PROVE  /\ level = -1 => \A f : ~Log!On(f)
         /\ \A l \in Log!Levels : Log!Flags(level) \subseteq Log!Flags(l) \/ l < level
<1>1. level = -1 => \A f : ~Log!On(f)
  BY DEF Log!On, Log!Flags
<1>2. ASSUME NEW l \in Log!Levels, ~(l < level) PROVE Log!Flags(level) \subseteq Log!Flags(l)
  <2>1. level <= l /\ level \in Int /\ l \in Int /\ l \in -1..3 /\ level \in -1..3
    BY <1>2 DEF Log!Levels
  <2>2. /\ level # -1 => l # -1
        /\ level >= 1 => l >= 1
        /\ level >= 2 => l >= 2
        /\ level = 3 => l = 3
    BY <2>1
  <2> QED
    BY <2>2 DEF Log!Flags
<1> QED
  BY <1>1, <1>2

LEMMA TicksOf ==
  ASSUME log_rate \in Rates
  PROVE  /\ log_rate \in Nat /\ Log!Ticks \in 0..log_rate
         /\ log_rate >= Divisor => Log!Ticks > 0
<1> DEFINE q == log_rate \div Divisor
           r == log_rate % Divisor
<1>1. log_rate \in Nat /\ Divisor \in Nat \ {0}
  BY LogConstants
<1>2. q \in Nat /\ r \in 0..Divisor - 1 /\ log_rate = Divisor * q + r
  BY <1>1, Division
<1> HIDE DEF q, r
<1>3. q <= log_rate
  <2>1. 1 * q <= Divisor * q /\ Divisor * q \in Nat
    BY <1>1, <1>2, ProductGrows
  <2> QED
    BY <1>1, <1>2, <2>1
<1>4. q = 0 => log_rate < Divisor
  BY <1>1, <1>2
<1>5. q \in 0..log_rate /\ (log_rate >= Divisor => q > 0)
  BY <1>1, <1>2, <1>3, <1>4
<1> QED
  BY <1>1, <1>5 DEF Log!Ticks, q

\* A string up to its end: its first characters, none of them the end, which follows.
LEMMA UpToNulIs ==
  ASSUME NEW X, NEW s \in Seq(X)
  PROVE  /\ Len(Log!UpToNul(s)) \in 0..Len(s)
         /\ \A k \in 1..Len(Log!UpToNul(s)) : Log!UpToNul(s)[k] = s[k] /\ s[k] # Log!NUL
         /\ Len(Log!UpToNul(s)) < Len(s) => s[Len(Log!UpToNul(s)) + 1] = Log!NUL
<1> DEFINE t == s \o <<Log!NUL>>
           I == {k \in 1..Len(t) : t[k] = Log!NUL}
           m == Log!Min(I)
<1>1. Len(s) \in Nat /\ Len(t) = Len(s) + 1 /\ \A k \in 1..Len(s) : t[k] = s[k]
  <2>1. s \in Seq(X \cup {Log!NUL}) /\ <<Log!NUL>> \in Seq(X \cup {Log!NUL})
    OBVIOUS
  <2>2. Len(<<Log!NUL>>) = 1
    OBVIOUS
  <2>3. /\ Len(t) = Len(s) + Len(<<Log!NUL>>)
        /\ \A k \in 1..Len(s) + Len(<<Log!NUL>>) :
             t[k] = IF k <= Len(s) THEN s[k] ELSE <<Log!NUL>>[k - Len(s)]
    BY <2>1, ConcatProperties
  <2>4. Len(s) \in Nat
    BY LenProperties
  <2> QED
    BY <2>2, <2>3, <2>4
<1>2. t[Len(s) + 1] = Log!NUL
  OBVIOUS
<1>3. Log!UpToNul(s) = SubSeq(s, 1, (IF I # {} THEN Log!Min(I) ELSE 0) - 1)
  BY DEF Log!UpToNul, Log!SelectInSeq, I, t
<1> HIDE DEF t
<1>4. I \in SUBSET Nat /\ I # {} /\ \A k \in I : k \in 1..Len(s) + 1
  BY <1>1, <1>2
<1>5. m \in I /\ \A k \in I : m <= k
  <2>1. Files!Min(I) \in I /\ \A k \in I : Files!Min(I) <= k
    BY <1>4, MinIsLeast
  <2>2. Log!Min(I) = Files!Min(I)
    BY DEF Log!Min, Files!Min
  <2> QED
    BY <2>1, <2>2 DEF m
<1>6. m \in 1..Len(s) + 1 /\ \A k \in 1..m - 1 : k \in 1..Len(s) /\ s[k] # Log!NUL
  <2>1. m \in 1..Len(s) + 1
    BY <1>4, <1>5
  <2>2. ASSUME NEW k \in 1..m - 1 PROVE k \in 1..Len(s) /\ s[k] # Log!NUL
    <3>1. k \in 1..Len(s) /\ k < m /\ k \in 1..Len(t)
      BY <1>1, <2>1
    <3>2. k \notin I
      BY <1>5, <2>1, <3>1
    <3> QED
      BY <1>1, <3>1, <3>2
  <2> QED
    BY <2>1, <2>2
<1>7. Log!UpToNul(s) = SubSeq(s, 1, m - 1)
  BY <1>3, <1>4
<1>10. m - 1 < Len(s) => s[m] = Log!NUL
  <2>1. t[m] = Log!NUL
    BY <1>5
  <2>2. m - 1 < Len(s) => m \in 1..Len(s)
    BY <1>1, <1>6
  <2> QED
    BY <1>1, <2>1, <2>2
<1> HIDE DEF m
<1>8. /\ Len(SubSeq(s, 1, m - 1)) = (IF 1 <= m - 1 THEN m - 1 - 1 + 1 ELSE 0)
      /\ \A k \in 1..m - 1 - 1 + 1 : SubSeq(s, 1, m - 1)[k] = s[1 + k - 1]
  <2>1. m - 1 \in Int /\ \A k \in 1..m - 1 : s[k] \in X
    BY <1>6, ElementOfSeq
  <2> QED
    BY <2>1, SubSeqProperties
<1>9. Len(SubSeq(s, 1, m - 1)) = m - 1 /\ \A k \in 1..m - 1 : SubSeq(s, 1, m - 1)[k] = s[k]
  BY <1>6, <1>8
<1> QED
  BY <1>1, <1>6, <1>7, <1>9, <1>10

\* What is echoed of the first n characters of a text: those before the last, up to
\* a NUL, and a line end if there is none.
Shown(e, text, n) ==
  \E kept \in 0..n - 1 :
    /\ \A k \in 1..kept :
         /\ text[k] # Log!NUL
         /\ e[k] = IF text[k] = Log!CtrlD THEN "D" ELSE text[k]
    /\ IF kept < n - 1 THEN text[kept + 1] = Log!NUL /\ Len(e) = kept
       ELSE e[n] = "\n" /\ e[n + 1] = "\r" /\ Len(e) = n + 1
Copied(text) == IF Len(text) < EchoLen THEN Len(text) ELSE EchoLen

LEMMA EchoShown ==
  ASSUME NEW X, NEW text \in Seq(X)
  PROVE  IF Copied(text) < 2 THEN Log!Echo(text) = <<>>
         ELSE Shown(Log!Echo(text), text, Copied(text))
<1> DEFINE length == IF EchoLen > Len(text) THEN Len(text) ELSE EchoLen
           front == SubSeq(text, 1, length)
           copied == Log!UpToNul(front)
           buffer == [k \in 1..length |-> IF k = length THEN "\n"
                                          ELSE IF k <= Len(copied) THEN copied[k] ELSE Log!NUL]
           escaped == Log!Escaped(buffer)
           whole == escaped \o <<"\r">>
<1>1. Log!Echo(text) = IF length < 2 THEN <<>> ELSE Log!UpToNul(whole)
  BY DEF Log!Echo, length, front, copied, buffer, escaped, whole
<1>2. /\ Len(text) \in Nat /\ length \in Nat /\ length <= Len(text) /\ length <= EchoLen
      /\ EchoLen \in Nat /\ length = Copied(text)
  BY LogConstants, LenProperties DEF Copied
<1> HIDE DEF length
<1>3. CASE length < 2
  BY <1>1, <1>2, <1>3
<1>4. CASE ~(length < 2)
  <2>1. /\ front \in Seq(X) /\ Len(front) = length
        /\ \A k \in 1..length : front[k] = text[k]
    <3>1. \A k \in 1..length : text[k] \in X
      BY <1>2, ElementOfSeq
    <3>2. /\ front \in Seq(X) /\ Len(front) = (IF 1 <= length THEN length - 1 + 1 ELSE 0)
          /\ \A k \in 1..length - 1 + 1 : front[k] = text[1 + k - 1]
      BY <1>2, <3>1, SubSeqProperties
    <3> QED
      BY <1>2, <3>2
  <2> HIDE DEF front
  <2>2. /\ Len(copied) \in 0..length
        /\ \A k \in 1..Len(copied) : copied[k] = front[k] /\ front[k] # Log!NUL
        /\ Len(copied) < length => front[Len(copied) + 1] = Log!NUL
    BY <2>1, UpToNulIs
  <2> DEFINE c == Len(copied)
  <2>3. /\ c \in 0..length
        /\ \A k \in 1..c : copied[k] = text[k] /\ text[k] # Log!NUL
        /\ c < length => text[c + 1] = Log!NUL
    BY <1>2, <2>1, <2>2
  <2> DEFINE B == X \cup {"\n", "\r", "D", Log!NUL}
  <2>4. /\ buffer \in Seq(B) /\ Len(buffer) = length /\ buffer[length] = "\n"
        /\ \A k \in 1..length - 1 : buffer[k] = IF k <= c THEN text[k] ELSE Log!NUL
    <3> HIDE DEF copied
    <3>1. \A k \in 1..length : k <= c => copied[k] = text[k] /\ text[k] \in X
      BY <1>2, <2>3, ElementOfSeq
    <3>2. \A k \in 1..length : buffer[k] = IF k = length THEN "\n"
                                           ELSE IF k <= c THEN text[k] ELSE Log!NUL
      BY <3>1
    <3>3. buffer \in [1..length -> B]
      BY <3>1
    <3>4. length \in 1..length /\ \A k \in 1..length - 1 : k \in 1..length /\ k # length
      BY <1>2, <1>4
    <3> QED
      BY <1>2, <3>2, <3>3, <3>4
  <2> HIDE DEF buffer, copied, c
  <2>5. /\ escaped \in Seq(B) /\ Len(escaped) = length
        /\ \A k \in 1..length :
             escaped[k] = IF buffer[k] = Log!CtrlD THEN "D" ELSE buffer[k]
    <3>1. escaped = [k \in 1..length |-> IF buffer[k] = Log!CtrlD THEN "D" ELSE buffer[k]]
      BY <2>4 DEF Log!Escaped
    <3>2. \A k \in 1..length : buffer[k] \in B
      BY <2>4, ElementOfSeq
    <3>3. escaped \in [1..length -> B]
      BY <3>1, <3>2
    <3> QED
      BY <1>2, <3>1, <3>3
  <2> HIDE DEF escaped
  <2>6. /\ whole \in Seq(B) /\ Len(whole) = length + 1
        /\ \A k \in 1..length : whole[k] = escaped[k]
        /\ whole[length + 1] = "\r"
    <3>1. <<"\r">> \in Seq(B) /\ Len(<<"\r">>) = 1 /\ <<"\r">>[1] = "\r"
      OBVIOUS
    <3>2. /\ whole \in Seq(B) /\ Len(whole) = Len(escaped) + Len(<<"\r">>)
          /\ \A k \in 1..Len(escaped) + Len(<<"\r">>) :
               whole[k] = IF k <= Len(escaped) THEN escaped[k] ELSE <<"\r">>[k - Len(escaped)]
      BY <2>5, <3>1, ConcatProperties
    <3> QED
      BY <1>2, <2>5, <3>1, <3>2
  <2> HIDE DEF whole
  <2> DEFINE e == Log!UpToNul(whole)
             l == Len(e)
  <2>7. /\ l \in 0..length + 1
        /\ \A k \in 1..l : e[k] = whole[k] /\ whole[k] # Log!NUL
        /\ l < length + 1 => whole[l + 1] = Log!NUL
    BY <2>6, UpToNulIs
  <2> HIDE DEF e, l, B
  <2>8. whole[length] = "\n" /\ whole[length + 1] = "\r"
    <3>1. length \in 1..length
      BY <1>2, <1>4
    <3>2. whole[length] = "\n"
      BY <2>4, <2>5, <2>6, <3>1 DEF Log!CtrlD
    <3> QED
      BY <2>6, <3>2
  <2>9. \A k \in 1..length - 1 :
          whole[k] = IF k <= c THEN (IF text[k] = Log!CtrlD THEN "D" ELSE text[k]) ELSE Log!NUL
    <3> SUFFICES ASSUME NEW k \in 1..length - 1
                 PROVE  whole[k] = IF k <= c THEN (IF text[k] = Log!CtrlD THEN "D" ELSE text[k])
                                   ELSE Log!NUL
      OBVIOUS
    <3>1. k \in 1..length
      BY <1>2
    <3>2. whole[k] = IF buffer[k] = Log!CtrlD THEN "D" ELSE buffer[k]
      BY <2>5, <2>6, <3>1
    <3> QED
      BY <2>4, <3>2 DEF Log!CtrlD, Log!NUL
  <2>10. l = length + 1 \/ l < length - 1
    <3>1. whole[length] # Log!NUL /\ whole[length + 1] # Log!NUL
      BY <2>8 DEF Log!NUL
    <3>2. l # length /\ l # length - 1
      <4>1. l = length => whole[l + 1] = whole[length + 1] /\ l < length + 1
        BY <1>2
      <4>2. l = length - 1 => whole[l + 1] = whole[length] /\ l < length + 1
        <5>1. l = length - 1 => l + 1 = length
          BY <1>2
        <5> QED
          BY <1>2, <5>1
      <4> QED
        BY <2>7, <3>1, <4>1, <4>2
    <3> QED
      BY <1>2, <2>7, <3>2
  <2>11. \A k \in 1..length - 1 :
           k <= l => k <= c /\ text[k] # Log!NUL
                     /\ e[k] = IF text[k] = Log!CtrlD THEN "D" ELSE text[k]
    <3> SUFFICES ASSUME NEW k \in 1..length - 1, k <= l
                 PROVE  k <= c /\ text[k] # Log!NUL
                        /\ e[k] = IF text[k] = Log!CtrlD THEN "D" ELSE text[k]
      OBVIOUS
    <3>1. k \in 1..l /\ e[k] = whole[k] /\ whole[k] # Log!NUL
      BY <1>2, <2>7
    <3>2. k <= c
      BY <2>9, <3>1
    <3>3. k \in 1..c /\ text[k] # Log!NUL
      BY <1>2, <2>3, <3>2
    <3> QED
      BY <2>9, <3>1, <3>2, <3>3
  <2>12. Shown(e, text, length)
    <3>1. CASE l = length + 1
      <4>1. length - 1 \in 0..length - 1 /\ ~(length - 1 < length - 1)
        BY <1>2, <1>4
      <4>2. \A k \in 1..length - 1 : k <= l
        BY <1>2, <3>1
      <4>3. e[length] = "\n" /\ e[length + 1] = "\r" /\ Len(e) = length + 1
        <5>1. length \in 1..l /\ length + 1 \in 1..l
          BY <1>2, <1>4, <3>1
        <5> QED
          BY <2>7, <2>8, <3>1, <5>1 DEF l
      <4> QED
        BY <2>11, <4>1, <4>2, <4>3 DEF Shown
    <3>2. CASE l < length - 1
      <4>1. l \in 0..length - 1 /\ l + 1 \in 1..length - 1 /\ l < length + 1
        BY <1>2, <2>7, <3>2
      <4>2. \A k \in 1..l : k \in 1..length - 1 /\ k <= l
        BY <1>2, <3>2, <4>1
      <4>3. l <= c
        <5>1. CASE l = 0
          BY <1>2, <2>3, <5>1
        <5>2. CASE l # 0
          <6>1. l \in 1..l
            BY <4>1, <5>2
          <6> QED
            BY <2>11, <4>2, <6>1
        <5> QED
          BY <5>1, <5>2
      <4>4. text[l + 1] = Log!NUL
        <5>1. whole[l + 1] = Log!NUL
          BY <2>7, <4>1
        <5>2. CASE l + 1 <= c
          <6>1. l + 1 \in 1..c /\ text[l + 1] # Log!NUL
            BY <1>2, <2>3, <4>1, <5>2
          <6>2. whole[l + 1] = IF text[l + 1] = Log!CtrlD THEN "D" ELSE text[l + 1]
            BY <2>9, <4>1, <5>2
          <6> QED
            BY <5>1, <6>1, <6>2 DEF Log!NUL
        <5>3. CASE ~(l + 1 <= c)
          <6>1. c = l /\ c < length
            BY <1>2, <2>3, <4>1, <4>3, <5>3
          <6> QED
            BY <2>3, <6>1
        <5> QED
          BY <5>2, <5>3
      <4>5. Len(e) = l
        BY DEF l
      <4> QED
        BY <2>11, <3>2, <4>1, <4>2, <4>4, <4>5 DEF Shown
    <3> QED
      BY <2>10, <3>1, <3>2
  <2>13. Log!Echo(text) = e
    BY <1>1, <1>4 DEF e
  <2> QED
    BY <1>2, <1>4, <2>12, <2>13
<1> QED
  BY <1>3, <1>4

\* So is printed what a program writes, whether the level is on or off.
Exact(on, p, text) ==
  IF ~on \/ Copied(text) < 2 THEN p = <<>> ELSE Shown(p, text, Copied(text))

LEMMA EchoedExactly ==
  ASSUME NEW text \in Texts
  PROVE  Exact(Log!On("write"), Log!Prints("write", Log!Echo(text)), text)
<1>1. text \in Seq(UNION {Log!Range(t) : t \in Texts})
  BY LogConstants
<1>2. IF Copied(text) < 2 THEN Log!Echo(text) = <<>>
      ELSE Shown(Log!Echo(text), text, Copied(text))
  BY <1>1, EchoShown
<1>3. Log!Prints("write", Log!Echo(text)) = IF Log!On("write") THEN Log!Echo(text) ELSE <<>>
  BY DEF Log!Prints
<1> QED
  BY <1>2, <1>3 DEF Exact

\* What holds of the log: its variables, the count of ticks and the alarm, which
\* is set only where its level is on and, after start-up, unless the clock is slow;
\* the count is that of the ticks since the clock's last message.
Alarmed(l) == "alarm" \in Log!Flags(l)
Timing(l, r, count, d, up) ==
  /\ l \in Log!Levels /\ r \in Rates /\ count \in 0..r /\ d \in -1..r + 1 /\ up \in BOOLEAN
  /\ d # 0 /\ (d > 0 => Alarmed(l))
  /\ up /\ Alarmed(l) /\ r >= Divisor => d > 0
Counting(l, r, count, since_last, between) ==
  /\ since_last \in Nat /\ between \in Nat
  /\ "sys_clk" \in Log!Flags(l) => since_last = count /\ between \in {0, r + 1}
LogOK ==
  /\ Timing(level, log_rate, alt_log_sys_clk_count, due, log_started)
  /\ Counting(level, log_rate, alt_log_sys_clk_count, quiet, interval)
  /\ level = -1 => printed = <<>>
  /\ log_written # <<>> => Exact(Log!On("write"), printed, log_written)
LogInv == part = "log" => LogOK

LEMMA Silent ==
  ASSUME LogOK, level = -1
  PROVE  /\ \A f : ~Log!On(f)
         /\ \A f, m : Log!Prints(f, m) = <<>>
         /\ due = -1 /\ ~Log!Beats
<1>1. \A f : ~Log!On(f)
  BY FlagsOf DEF LogOK, Timing
<1>2. due = -1
  BY <1>1, LogConstants DEF LogOK, Timing, Alarmed, Log!On
<1> QED
  BY <1>1, <1>2 DEF Log!Prints, Log!Beats

LEMMA LogStarts ==
  ASSUME Log!Init
  PROVE  LogOK
<1>1. log_rate \in Nat
  BY LogConstants DEF Log!Init
<1>2. /\ level \in Log!Levels /\ log_rate \in Rates /\ alt_log_sys_clk_count = 0
      /\ due = -1 /\ log_started = FALSE
  BY DEF Log!Init
<1>3. -1 \in -1..log_rate + 1 /\ 0 \in 0..log_rate
  BY <1>1
<1>4. Timing(level, log_rate, 0, -1, FALSE)
  BY <1>2, <1>3 DEF Timing
<1>5. Timing(level, log_rate, alt_log_sys_clk_count, due, log_started)
  BY <1>2, <1>4
<1>6. Counting(level, log_rate, alt_log_sys_clk_count, quiet, interval)
  BY DEF Log!Init, Counting
<1> QED
  BY <1>5, <1>6 DEF Log!Init, LogOK

LEMMA PrintsOnly ==
  ASSUME LogOK, Log!Nothing, NEW f, NEW m, printed' = Log!Prints(f, m), log_written' = <<>>
  PROVE  LogOK'
<1>1. /\ Timing(level, log_rate, alt_log_sys_clk_count, due, log_started)'
      /\ Counting(level, log_rate, alt_log_sys_clk_count, quiet, interval)'
  BY DEF LogOK, Log!Nothing, Log!Clock
<1>2. level' = -1 => printed' = <<>>
  BY Silent DEF Log!Nothing
<1> QED
  BY <1>1, <1>2 DEF LogOK

LEMMA LogStartUart ==
  ASSUME LogOK, Log!StartUart
  PROVE  LogOK'
<1>1. /\ level' = level /\ log_rate' = log_rate
      /\ alt_log_sys_clk_count' = alt_log_sys_clk_count
      /\ log_started' = TRUE /\ log_written' = <<>>
      /\ due' = IF Log!On("alarm") /\ log_rate # 0 THEN Log!Ticks + 1 ELSE -1
      /\ printed' = Log!Prints("startup_info", <<"JTAG Startup Info">>)
      /\ quiet' = quiet /\ interval' = interval
  BY DEF Log!StartUart, Log!Clock
<1>2. /\ level \in Log!Levels /\ log_rate \in Rates /\ log_rate \in Nat
      /\ alt_log_sys_clk_count \in 0..log_rate
      /\ Log!Ticks \in 0..log_rate /\ Divisor \in Nat \ {0}
  BY TicksOf, LogConstants DEF LogOK, Timing
<1>3. Timing(level, log_rate, alt_log_sys_clk_count, due', TRUE)
  <2>1. due' = IF Alarmed(level) /\ log_rate # 0 THEN Log!Ticks + 1 ELSE -1
    BY <1>1 DEF Log!On, Alarmed
  <2>2. /\ due' \in -1..log_rate + 1 /\ due' # 0 /\ (due' > 0 => Alarmed(level))
        /\ Alarmed(level) /\ log_rate >= Divisor => due' > 0
    BY <1>2, <2>1
  <2> QED
    BY <1>2, <2>2 DEF Timing
<1>4. level' = -1 => printed' = <<>>
  BY <1>1, Silent
<1>5. Counting(level, log_rate, alt_log_sys_clk_count, quiet, interval)
  BY DEF LogOK
<1> QED
  BY <1>1, <1>3, <1>4, <1>5 DEF LogOK

LEMMA LogTick ==
  ASSUME LogOK, Log!Tick
  PROVE  LogOK'
<1>1. /\ level' = level /\ log_rate' = log_rate /\ log_rate # 0
      /\ log_started' = log_started /\ log_written' = <<>>
      /\ alt_log_sys_clk_count' = Log!Count
      /\ due' = IF due = 1 THEN Log!Report ELSE IF due > 1 THEN due - 1 ELSE due
      /\ printed' = (IF due = 1 THEN <<"JTAG Alarm">> ELSE <<>>)
                       \o (IF Log!Beats THEN <<"System Clock On">> ELSE <<>>)
      /\ quiet' = (IF Log!Beats \/ ~Log!On("sys_clk") THEN 0 ELSE quiet + 1)
      /\ interval' = (IF Log!Beats THEN quiet + 1 ELSE interval)
  BY DEF Log!Tick
<1>2. Timing(level, log_rate, alt_log_sys_clk_count, due, log_started)
  BY DEF LogOK
<1>3. /\ log_rate \in Nat /\ Log!Ticks \in 0..log_rate
      /\ log_rate >= Divisor => Log!Ticks > 0
  BY <1>2, TicksOf DEF Timing
<1>4. alt_log_sys_clk_count' \in 0..log_rate
  <2>1. alt_log_sys_clk_count \in 0..log_rate
    BY <1>2 DEF Timing
  <2>2. /\ \/ alt_log_sys_clk_count' = alt_log_sys_clk_count
           \/ alt_log_sys_clk_count' = 0
           \/ /\ ~(alt_log_sys_clk_count + 1 > log_rate)
              /\ alt_log_sys_clk_count' = alt_log_sys_clk_count + 1
    BY <1>1 DEF Log!Count, Log!Beats, Log!Interval
  <2> QED
    BY <1>3, <2>1, <2>2
<1>5. /\ due \in -1..log_rate + 1 /\ due # 0 /\ (due > 0 => Alarmed(level))
      /\ log_started /\ Alarmed(level) /\ log_rate >= Divisor => due > 0
  BY <1>2 DEF Timing
<1>6. Timing(level, log_rate, alt_log_sys_clk_count', due', log_started)
  <2>1. due = 1 => Alarmed(level) /\ due' = IF Log!Ticks # 0 THEN Log!Ticks ELSE -1
    <3>1. Log!On("alarm") <=> Alarmed(level)
      BY DEF Alarmed, Log!On
    <3>2. Log!Report = IF Log!On("alarm") /\ Log!Ticks # 0 THEN Log!Ticks ELSE -1
      BY DEF Log!Report
    <3>3. due = 1 => Alarmed(level)
      <4>1. due = 1 => due > 0
        OBVIOUS
      <4> QED
        BY <1>5, <4>1
    <3>4. due = 1 => due' = Log!Report
      BY <1>1
    <3> QED
      BY <3>1, <3>2, <3>3, <3>4
  <2>2. due' = IF due = 1 THEN (IF Log!Ticks # 0 THEN Log!Ticks ELSE -1)
               ELSE IF due > 1 THEN due - 1 ELSE due
    BY <1>1, <2>1
  <2>3. /\ due' \in -1..log_rate + 1 /\ due' # 0 /\ (due' > 0 => due > 0)
        /\ due > 0 /\ log_rate >= Divisor => due' > 0
    BY <1>3, <1>5, <2>2
  <2> QED
    BY <1>2, <1>4, <1>5, <2>3 DEF Timing
<1>7. level' = -1 => printed' = <<>>
  <2>1. <<>> \o <<>> = <<>>
    OBVIOUS
  <2>2. level = -1 => due = -1 /\ ~Log!Beats
    BY Silent
  <2> QED
    BY <1>1, <2>1, <2>2
<1>8. Counting(level, log_rate, alt_log_sys_clk_count', quiet', interval')
  <2>1. /\ quiet \in Nat /\ interval \in Nat
        /\ Log!On("sys_clk") => quiet = alt_log_sys_clk_count /\ interval \in {0, log_rate + 1}
    BY DEF LogOK, Counting, Log!On
  <2>2. quiet' \in Nat /\ interval' \in Nat
    <3>1. quiet' \in {0, quiet + 1} /\ interval' \in {interval, quiet + 1}
      BY <1>1
    <3>2. quiet \in Nat /\ interval \in Nat
      BY <2>1
    <3> QED
      BY <3>1, <3>2
  <2>3. ASSUME Log!On("sys_clk")
        PROVE  quiet' = alt_log_sys_clk_count' /\ interval' \in {0, log_rate + 1}
    <3>1. alt_log_sys_clk_count \in 0..log_rate
      BY <1>2 DEF Timing
    <3>2. Log!Beats <=> alt_log_sys_clk_count + 1 > log_rate
      BY <2>3 DEF Log!Beats, Log!Interval
    <3>3. Log!Count = IF Log!Beats THEN 0 ELSE alt_log_sys_clk_count + 1
      BY <2>3 DEF Log!Count
    <3>4. Log!Beats => alt_log_sys_clk_count = log_rate
      BY <1>3, <3>1, <3>2
    <3>5. CASE Log!Beats
      BY <1>1, <2>1, <2>3, <3>3, <3>4, <3>5
    <3>6. CASE ~Log!Beats
      BY <1>1, <2>1, <2>3, <3>3, <3>6
    <3> QED
      BY <3>5, <3>6
  <2> QED
    BY <2>2, <2>3 DEF Counting, Log!On
<1> QED
  BY <1>1, <1>6, <1>7, <1>8 DEF LogOK

LEMMA LogWrites ==
  ASSUME LogOK, NEW text \in Texts, Log!Write(text)
  PROVE  LogOK'
<1>1. printed' = Log!Prints("write", Log!Echo(text)) /\ log_written' = text /\ Log!Nothing
  BY DEF Log!Write
<1>2. /\ Timing(level, log_rate, alt_log_sys_clk_count, due, log_started)'
      /\ Counting(level, log_rate, alt_log_sys_clk_count, quiet, interval)'
      /\ level' = level
  BY <1>1 DEF LogOK, Log!Nothing, Log!Clock
<1>3. level' = -1 => printed' = <<>>
  BY <1>1, <1>2, Silent
<1>4. Exact(Log!On("write"), printed', text)
  BY <1>1, EchoedExactly
<1>5. Log!On("write")' <=> Log!On("write")
  BY <1>2 DEF Log!On
<1>6. Exact(Log!On("write"), printed, log_written)'
  BY <1>1, <1>4, <1>5 DEF Exact
<1> QED
  BY <1>2, <1>3, <1>6 DEF LogOK

LEMMA LogInvariant == LibrarySpec => []LogInv
<1>1. LibraryInit => LogInv
  BY LogStarts DEF LibraryInit, LogInv
<1>2. LogInv /\ [LibraryNext]_library => LogInv'
  <2> SUFFICES ASSUME LogInv, [LibraryNext]_library, part' = "log" PROVE LogOK'
    BY DEF LogInv
  <2>1. part = "log" /\ (Log!Next \/ UNCHANGED logging)
    BY DEF LibraryNext, library
  <2>2. LogOK
    BY <2>1 DEF LogInv
  <2>3. CASE Log!Boot \/ Log!Isr
    BY <2>2, <2>3, PrintsOnly DEF Log!Boot, Log!Isr
  <2>4. CASE Log!StartUart
    BY <2>2, <2>4, LogStartUart
  <2>5. CASE Log!Tick
    BY <2>2, <2>5, LogTick
  <2>6. ASSUME NEW text \in Texts, Log!Write(text) PROVE LogOK'
    BY <2>2, <2>6, LogWrites
  <2>7. CASE UNCHANGED logging
    <3>1. /\ level' = level /\ log_rate' = log_rate
          /\ alt_log_sys_clk_count' = alt_log_sys_clk_count /\ due' = due
          /\ log_started' = log_started /\ printed' = printed /\ log_written' = log_written
          /\ quiet' = quiet /\ interval' = interval
      BY <2>7 DEF logging
    <3> QED
      BY <2>2, <3>1 DEF LogOK, Log!On
  <2> QED
    BY <2>1, <2>3, <2>4, <2>5, <2>6, <2>7 DEF Log!Next
<1> QED
  BY <1>1, <1>2, PTL DEF LibrarySpec

\* Whatever the rate of the clock, the length of the echo and the texts that are
\* written: silent is silent, the report of the JTAG UART comes again and again, the
\* clock's message a tick after its interval, and the echo is the beginning of the
\* text less a character, with a D for each Ctrl-D (alt_log_printf.c).
THEOREM LogSound == LibrarySpec => []LogIsSound
<1>1. LogOK => /\ Log!TypeOK /\ Log!LevelsGrow /\ Log!ReportsGoOn
               /\ Log!ClockReports /\ Log!EchoIsExact
  <2> SUFFICES ASSUME LogOK
               PROVE  /\ Log!TypeOK /\ Log!LevelsGrow /\ Log!ReportsGoOn
                      /\ Log!ClockReports /\ Log!EchoIsExact
    OBVIOUS
  <2>1. Log!TypeOK /\ Log!ReportsGoOn
    BY DEF LogOK, Timing, Counting, Alarmed, Log!TypeOK, Log!ReportsGoOn, Log!On
  <2>2. Log!LevelsGrow
    BY FlagsOf DEF LogOK, Timing, Log!LevelsGrow
  <2>3. Log!ClockReports
    <3>1. log_rate \in Nat /\ alt_log_sys_clk_count \in 0..log_rate
      BY LogConstants DEF LogOK, Timing
    <3> QED
      BY <3>1 DEF LogOK, Counting, Log!ClockReports, Log!On
  <2>4. Log!EchoIsExact
    BY DEF LogOK, Exact, Shown, Copied, Log!EchoIsExact
  <2> QED
    BY <2>1, <2>2, <2>3, <2>4
<1>2. LogInv => LogIsSound
  BY <1>1 DEF LogInv, LogIsSound
<1> QED
  BY <1>2, LogInvariant, PTL

-----------------------------------------------------------------------------
(* The memory of profiling. *)

PieceEnd(b) == b.at + b.size
Before(b, c) == PieceEnd(b) <= c.at

\* Pieces and what is left of the slab: in the heap, and apart.
SlabOK ==
  /\ brk \in Nat /\ mcount_slab_ptr \in Nat /\ mcount_slab_size \in Nat
  /\ mcount_slab_ptr + mcount_slab_size <= brk
  /\ \A b \in owned : b.at \in Nat /\ b.size \in Nat /\ PieceEnd(b) <= brk
  /\ \A b \in owned : \/ PieceEnd(b) <= mcount_slab_ptr
                      \/ mcount_slab_ptr + mcount_slab_size <= b.at
  /\ \A b, c \in owned : b # c => Before(b, c) \/ Before(c, b)

\* What samples of a text of n bytes write behind the histogram.
Beyond(n) == IF n % BYTES_PER_BUCKET = 0 THEN 0 ELSE 2

\* One histogram, with two bytes for each whole bucket of the text section.
SamplerOK ==
  /\ etext \in Nat
  /\ \A b \in Slab!Buffer :
       /\ b.size = 2 * (etext \div BYTES_PER_BUCKET)
       /\ written \subseteq b.at..b.at + b.size + Beyond(etext) - 1
  /\ \A b, c \in Slab!Buffer : b = c
  /\ Slab!Buffer = {} => written = {}

SlabInv == part = "slabs" => SlabOK /\ SamplerOK

LEMMA SlabConstants ==
  /\ INCREMENT \in Nat /\ BYTES_PER_BUCKET \in Nat \ {0} /\ Records \subseteq 1..INCREMENT
  /\ TextSizes \subseteq Nat
  BY LibraryAssumption DEF Slab!SlabAssumption

LEMMA PieceIs ==
  ASSUME NEW p, NEW n, NEW who
  PROVE  /\ Slab!Piece(p, n, who).at = p /\ Slab!Piece(p, n, who).size = n
         /\ Slab!Piece(p, n, who).of = who
  BY DEF Slab!Piece

\* A piece at p that is apart from the others, and the slab moved to s.
LEMMA PieceAdded ==
  ASSUME SlabOK, NEW p \in Nat, NEW n \in Nat, NEW who,
         owned' = owned \cup {Slab!Piece(p, n, who)},
         brk' \in Nat, brk <= brk', p + n <= brk',
         mcount_slab_ptr' \in Nat, mcount_slab_size' \in Nat,
         mcount_slab_ptr' + mcount_slab_size' <= brk',
         p + n <= mcount_slab_ptr' \/ mcount_slab_ptr' + mcount_slab_size' <= p,
         \A b \in owned : /\ PieceEnd(b) <= p \/ p + n <= b.at
                          /\ \/ PieceEnd(b) <= mcount_slab_ptr'
                             \/ mcount_slab_ptr' + mcount_slab_size' <= b.at
  PROVE  SlabOK'
<1> DEFINE c == Slab!Piece(p, n, who)
<1>1. c.at = p /\ c.size = n /\ PieceEnd(c) = p + n
  BY PieceIs DEF PieceEnd
<1>2. /\ brk \in Nat
      /\ \A b \in owned : b.at \in Nat /\ b.size \in Nat /\ PieceEnd(b) <= brk
      /\ \A b, d \in owned : b # d => Before(b, d) \/ Before(d, b)
  BY DEF SlabOK
<1> HIDE DEF c
<1>3. ASSUME NEW b \in owned'
      PROVE  /\ b.at \in Nat /\ b.size \in Nat /\ PieceEnd(b) <= brk'
             /\ \/ PieceEnd(b) <= mcount_slab_ptr'
                \/ mcount_slab_ptr' + mcount_slab_size' <= b.at
  <2>1. CASE b \in owned
    <3>1. PieceEnd(b) \in Nat
      BY <1>2, <2>1 DEF PieceEnd
    <3> QED
      BY <1>2, <2>1, <3>1
  <2>2. CASE b = c
    BY <1>1, <2>2
  <2> QED
    BY <2>1, <2>2 DEF c
<1>4. ASSUME NEW b \in owned', NEW d \in owned', b # d
      PROVE  Before(b, d) \/ Before(d, b)
  <2>1. CASE b \in owned /\ d \in owned
    BY <1>2, <1>4, <2>1
  <2>2. CASE b \in owned /\ d = c
    BY <1>1, <2>2 DEF Before
  <2>3. CASE b = c /\ d \in owned
    BY <1>1, <2>3 DEF Before
  <2> QED
    BY <1>4, <2>1, <2>2, <2>3 DEF c
<1> QED
  BY <1>3, <1>4 DEF SlabOK, PieceEnd, Before

LEMMA BufferKept ==
  ASSUME SamplerOK, NEW p, NEW n, NEW who, who # "sampler",
         owned' = owned \cup {Slab!Piece(p, n, who)}, etext' = etext, written' = written
  PROVE  SamplerOK'
<1>1. Slab!Buffer' = Slab!Buffer
  BY PieceIs DEF Slab!Buffer
<1> QED
  BY <1>1 DEF SamplerOK

LEMMA SbrkKeeps ==
  ASSUME SlabOK, SamplerOK, NEW n \in Records, Slab!Sbrk(n)
  PROVE  SlabOK' /\ SamplerOK'
<1>1. /\ owned' = owned \cup {Slab!Piece(brk, n, "program")} /\ brk' = brk + n
      /\ mcount_slab_ptr' = mcount_slab_ptr /\ mcount_slab_size' = mcount_slab_size
      /\ etext' = etext /\ written' = written
  BY DEF Slab!Sbrk
<1>2. n \in Nat
  BY SlabConstants
<1>3. SlabOK'
  BY <1>1, <1>2, PieceAdded DEF SlabOK
<1> QED
  BY <1>1, <1>3, BufferKept

LEMMA AllocateKeeps ==
  ASSUME SlabOK, SamplerOK, NEW n \in Records, Slab!Allocate(n)
  PROVE  SlabOK' /\ SamplerOK'
<1> DEFINE ptr == IF Slab!Fits(n) THEN mcount_slab_ptr ELSE brk
<1>1. /\ owned' = owned \cup {Slab!Piece(ptr, n, "mcount")} /\ mcount_slab_ptr' = ptr + n
      /\ mcount_slab_size' = (IF Slab!Fits(n) THEN mcount_slab_size ELSE INCREMENT) - n
      /\ brk' = IF Slab!Fits(n) THEN brk ELSE brk + INCREMENT
      /\ etext' = etext /\ written' = written
  BY DEF Slab!Allocate
<1>2. n \in Nat /\ INCREMENT \in Nat /\ n <= INCREMENT
  BY SlabConstants
<1>3. /\ brk \in Nat /\ mcount_slab_ptr \in Nat /\ mcount_slab_size \in Nat
      /\ mcount_slab_ptr + mcount_slab_size <= brk
      /\ \A b \in owned : b.at \in Nat /\ b.size \in Nat /\ PieceEnd(b) <= brk
      /\ \A b \in owned : \/ PieceEnd(b) <= mcount_slab_ptr
                          \/ mcount_slab_ptr + mcount_slab_size <= b.at
      /\ \A b \in owned : PieceEnd(b) \in Nat
  BY DEF SlabOK, PieceEnd
<1>4. SlabOK'
  <2>1. CASE Slab!Fits(n)
    <3>1. n <= mcount_slab_size /\ ptr = mcount_slab_ptr
      BY <2>1 DEF Slab!Fits
    <3>2. /\ mcount_slab_ptr' = mcount_slab_ptr + n /\ mcount_slab_size' = mcount_slab_size - n
          /\ brk' = brk
      BY <1>1, <2>1, <3>1
    <3>3. \A b \in owned : /\ PieceEnd(b) <= ptr \/ ptr + n <= b.at
                           /\ \/ PieceEnd(b) <= mcount_slab_ptr'
                              \/ mcount_slab_ptr' + mcount_slab_size' <= b.at
      BY <1>2, <1>3, <3>1, <3>2
    <3>4. /\ ptr \in Nat /\ ptr + n <= brk' /\ brk' \in Nat /\ brk <= brk'
          /\ mcount_slab_ptr' \in Nat /\ mcount_slab_size' \in Nat
          /\ mcount_slab_ptr' + mcount_slab_size' <= brk' /\ ptr + n <= mcount_slab_ptr'
      BY <1>2, <1>3, <3>1, <3>2
    <3> HIDE DEF ptr
    <3> QED
      BY <1>1, <1>2, <3>3, <3>4, PieceAdded
  <2>2. CASE ~Slab!Fits(n)
    <3>1. /\ ptr = brk /\ mcount_slab_ptr' = brk + n /\ mcount_slab_size' = INCREMENT - n
          /\ brk' = brk + INCREMENT
      BY <1>1, <2>2
    <3>2. \A b \in owned : /\ PieceEnd(b) <= ptr \/ ptr + n <= b.at
                           /\ \/ PieceEnd(b) <= mcount_slab_ptr'
                              \/ mcount_slab_ptr' + mcount_slab_size' <= b.at
      BY <1>2, <1>3, <3>1
    <3>3. /\ ptr \in Nat /\ ptr + n <= brk' /\ brk' \in Nat /\ brk <= brk'
          /\ mcount_slab_ptr' \in Nat /\ mcount_slab_size' \in Nat
          /\ mcount_slab_ptr' + mcount_slab_size' <= brk' /\ ptr + n <= mcount_slab_ptr'
      BY <1>2, <1>3, <3>1
    <3> HIDE DEF ptr
    <3> QED
      BY <1>1, <1>2, <3>2, <3>3, PieceAdded
  <2> QED
    BY <2>1, <2>2
<1> HIDE DEF ptr
<1> QED
  BY <1>1, <1>4, BufferKept

LEMMA BucketsOf ==
  ASSUME NEW n \in Nat
  PROVE  /\ n \div BYTES_PER_BUCKET \in Nat
         /\ \A k \in 0..n - 1 :
              /\ Slab!Bucket(k) \in Nat
              /\ Slab!Bucket(k) + 2 <= 2 * (n \div BYTES_PER_BUCKET) + Beyond(n)
<1> DEFINE m == n \div BYTES_PER_BUCKET
           s == n % BYTES_PER_BUCKET
           top == IF s = 0 THEN m ELSE m + 1
<1>1. /\ BYTES_PER_BUCKET \in Nat \ {0} /\ m \in Nat /\ s \in 0..BYTES_PER_BUCKET - 1
      /\ n = BYTES_PER_BUCKET * m + s
  BY SlabConstants, Division
<1>2. Beyond(n) = IF s = 0 THEN 0 ELSE 2
  BY DEF Beyond
<1> HIDE DEF m, s
<1>3. top \in Nat /\ n <= top * BYTES_PER_BUCKET /\ 2 * top = 2 * m + Beyond(n)
  <2>1. CASE s = 0
    <3>1. m * BYTES_PER_BUCKET = BYTES_PER_BUCKET * m
      BY <1>1
    <3> QED
      BY <1>1, <1>2, <2>1, <3>1
  <2>2. CASE s # 0
    <3>1. /\ (m + 1) * BYTES_PER_BUCKET = BYTES_PER_BUCKET * m + BYTES_PER_BUCKET
          /\ BYTES_PER_BUCKET * m \in Nat
      BY <1>1
    <3> QED
      BY <1>1, <1>2, <2>2, <3>1
  <2> QED
    BY <2>1, <2>2
<1> HIDE DEF top
<1>4. ASSUME NEW k \in 0..n - 1
      PROVE  Slab!Bucket(k) \in Nat /\ Slab!Bucket(k) + 2 <= 2 * m + Beyond(n)
  <2> DEFINE q == k \div BYTES_PER_BUCKET
             r == k % BYTES_PER_BUCKET
  <2>1. k \in Nat /\ k < n
    OBVIOUS
  <2>2. q \in Nat /\ r \in 0..BYTES_PER_BUCKET - 1 /\ k = BYTES_PER_BUCKET * q + r
    BY <1>1, <2>1, Division
  <2>3. Slab!Bucket(k) = 2 * q
    BY DEF Slab!Bucket
  <2> HIDE DEF q, r
  <2>4. ASSUME top <= q PROVE FALSE
    <3>1. top * BYTES_PER_BUCKET <= q * BYTES_PER_BUCKET /\ top * BYTES_PER_BUCKET \in Nat
      BY <1>1, <1>3, <2>2, <2>4, ProductGrows
    <3>2. q * BYTES_PER_BUCKET \in Nat /\ k = q * BYTES_PER_BUCKET + r
      BY <1>1, <2>2
    <3> QED
      BY <1>1, <1>3, <2>1, <2>2, <3>1, <3>2
  <2> QED
    BY <1>3, <2>2, <2>3, <2>4
<1> QED
  BY <1>1, <1>4 DEF m

LEMMA SamplerKeeps ==
  ASSUME SlabOK, SamplerOK, Slab!InitSampler
  PROVE  SlabOK' /\ SamplerOK'
<1> DEFINE n == 2 * (etext \div BYTES_PER_BUCKET)
<1>1. /\ Slab!Buffer = {} /\ owned' = owned \cup {Slab!Piece(brk, n, "sampler")}
      /\ brk' = brk + n /\ mcount_slab_ptr' = mcount_slab_ptr
      /\ mcount_slab_size' = mcount_slab_size /\ etext' = etext /\ written' = written
  BY DEF Slab!InitSampler
<1>2. n \in Nat
  BY BucketsOf DEF SamplerOK
<1>3. SlabOK'
  <2> HIDE DEF n
  <2> QED
    BY <1>1, <1>2, PieceAdded DEF SlabOK
<1>4. Slab!Buffer' = {Slab!Piece(brk, n, "sampler")} /\ Slab!Piece(brk, n, "sampler").size = n
  BY <1>1, PieceIs DEF Slab!Buffer
<1>5. written' = {}
  BY <1>1 DEF SamplerOK
<1> QED
  BY <1>1, <1>3, <1>4, <1>5 DEF SamplerOK

LEMMA SampleKeeps ==
  ASSUME SlabOK, SamplerOK, NEW k \in 0..etext - 1, Slab!Sample(k)
  PROVE  SlabOK' /\ SamplerOK'
<1>1. /\ brk' = brk /\ owned' = owned /\ mcount_slab_ptr' = mcount_slab_ptr
      /\ mcount_slab_size' = mcount_slab_size /\ etext' = etext
  BY DEF Slab!Sample
<1>2. PICK b \in Slab!Buffer :
        written' = written \cup {b.at + Slab!Bucket(k), b.at + Slab!Bucket(k) + 1}
  BY DEF Slab!Sample
<1>3. b \in owned /\ b.at \in Nat
  BY DEF Slab!Buffer, SlabOK
<1> DEFINE last_byte == b.at + b.size + Beyond(etext) - 1
<1>4. b.size = 2 * (etext \div BYTES_PER_BUCKET) /\ written \subseteq b.at..last_byte
  BY DEF SamplerOK
<1>5. /\ Slab!Bucket(k) \in Nat /\ Slab!Bucket(k) + 2 <= b.size + Beyond(etext) /\ b.size \in Nat
      /\ Beyond(etext) \in Nat
  BY <1>4, BucketsOf DEF SamplerOK, Beyond
<1>6. written' \subseteq b.at..last_byte
  <2>1. b.at + Slab!Bucket(k) \in b.at..last_byte /\ b.at + Slab!Bucket(k) + 1 \in b.at..last_byte
    BY <1>3, <1>5
  <2> QED
    BY <1>2, <1>4, <2>1
<1>7. Slab!Buffer' = Slab!Buffer
  BY <1>1 DEF Slab!Buffer
<1>8. SlabOK'
  BY <1>1 DEF SlabOK
<1>9. SamplerOK'
  BY <1>1, <1>4, <1>6, <1>7 DEF SamplerOK
<1> QED
  BY <1>8, <1>9

LEMMA SlabInvariant == LibrarySpec => []SlabInv
<1>1. LibraryInit => SlabInv
  <2> SUFFICES ASSUME LibraryInit, part = "slabs" PROVE SlabOK /\ SamplerOK
    BY DEF SlabInv
  <2>1. /\ brk = 0 /\ owned = {} /\ mcount_slab_ptr = 0 /\ mcount_slab_size = 0
        /\ etext \in TextSizes /\ written = {}
    BY DEF LibraryInit, Slab!Init
  <2> QED
    BY <2>1, SlabConstants DEF SlabOK, SamplerOK, Slab!Buffer
<1>2. SlabInv /\ [LibraryNext]_library => SlabInv'
  <2> SUFFICES ASSUME SlabInv, [LibraryNext]_library, part' = "slabs"
               PROVE  SlabOK' /\ SamplerOK'
    BY DEF SlabInv
  <2>1. part = "slabs" /\ (Slab!Next \/ UNCHANGED slabs)
    BY DEF LibraryNext, library
  <2>2. SlabOK /\ SamplerOK
    BY <2>1 DEF SlabInv
  <2>3. CASE Slab!Next
    BY <2>2, <2>3, SbrkKeeps, AllocateKeeps, SamplerKeeps, SampleKeeps DEF Slab!Next
  <2>4. CASE UNCHANGED slabs
    BY <2>2, <2>4 DEF slabs, SlabOK, SamplerOK, Slab!Buffer
  <2> QED
    BY <2>1, <2>3, <2>4
<1> QED
  BY <1>1, <1>2, PTL DEF LibrarySpec

LEMMA SlabsFine == SlabInv /\ part = "slabs" => Slab!PiecesApart /\ Slab!SamplesInBuffer
<1> SUFFICES ASSUME SlabOK, SamplerOK PROVE Slab!PiecesApart /\ Slab!SamplesInBuffer
  BY DEF SlabInv
<1>1. /\ brk \in Nat
      /\ \A b \in owned : b.at \in Nat /\ b.size \in Nat /\ b.at + b.size <= brk
      /\ \A b, c \in owned : b # c => b.at + b.size <= c.at \/ c.at + c.size <= b.at
  BY DEF SlabOK, PieceEnd, Before
<1>2. Slab!PiecesApart
  BY <1>1 DEF Slab!PiecesApart, Slab!Bytes
<1>3. Slab!SamplesInBuffer
  BY DEF SamplerOK, Slab!SamplesInBuffer, Beyond
<1> QED
  BY <1>2, <1>3

-----------------------------------------------------------------------------
(* The records of profiling, over entries es, chain ch and arcs ar. *)

\* Arc a is on the list of an entry, and of an entry of function f.
Listed(entry, a) == \E j \in 1..Len(entry.arcs) : entry.arcs[j] = a
Owner(es, a, f) == \E e \in 1..Len(es) : es[e].self = f /\ Listed(es[e], a)

\* The chain holds all entries, the newest first.
Chained(es, ch) ==
  /\ ch \in Seq(Nat) /\ Len(ch) = Len(es)
  /\ \A k \in 1..Len(ch) : ch[k] = Len(es) + 1 - k

\* Every arc is on lists of one function.
Recorded(es, ar) ==
  /\ ar \in Seq([from : Functions, count : 1..MaxCalls])
  /\ es \in Seq([self : Functions, arcs : Seq(1..Len(ar))])
  /\ \A a \in 1..Len(ar) : \E f \in Functions : Owner(es, a, f)
  /\ \A a \in 1..Len(ar) : \A f, g \in Functions : Owner(es, a, f) /\ Owner(es, a, g) => f = g

\* What a thread at w in mcount has in its registers r.
Knows(w, r, es, ar, ch) ==
  w # "idle" =>
    /\ r.self \in Functions /\ r.from \in Functions
    /\ r.entry \in 0..Len(es) /\ (r.entry # 0 => es[r.entry].self = r.self)
    /\ w = "arc" => r.entry # 0
    /\ w = "store" => /\ r.arc \in 1..Len(ar) /\ Owner(es, r.arc, r.self)
                      /\ ar[r.arc].from = r.from /\ r.count \in Nat
                      /\ r.count <= ar[r.arc].count
    /\ w = "push" => r.head = ch

\* The calls of p that have been counted, and those still to be.
Counts(es, ar, p) ==
  {x \in (1..Len(ar)) \X (1..MaxCalls) :
     /\ Owner(es, x[1], p.self) /\ ar[x[1]].from = p.from
     /\ x[2] <= ar[x[1]].count}
One(w, r, p) == IF w # "idle" /\ r.self = p.self /\ r.from = p.from THEN 1 ELSE 0
Known(es, ar, p) == \E a \in 1..Len(ar) : Owner(es, a, p.self) /\ ar[a].from = p.from
CountOK(es, ar, n, c, p) ==
  /\ Cardinality(Counts(es, ar, p)) + n <= c
  /\ c > 0 => Known(es, ar, p) \/ n > 0
Open(a, r, p) == One(a["program"], r["program"], p) + One(a["isr"], r["isr"], p)

\* Only the program, and only while it is alone, has interrupts off; and what a
\* routine has read of an arc is what the arc holds.
Alone ==
  /\ mcount_irq_off <=> at["program"] = "push"
  /\ at["program"] = "push" => at["isr"] = "idle"
  /\ at["isr"] = "store" => regs["isr"].count = arcs[regs["isr"].arc].count

Registers == [self : Functions \cup {0}, from : Functions \cup {0}, entry : Nat, arc : Nat,
              count : Nat, head : Seq(Nat)]
Scalars ==
  /\ pcsample_need_init \in {0, 1} /\ tick_rate \in {0, 1} /\ started \in Nat
  /\ mcount_irq_off \in BOOLEAN /\ made \in 0..MaxCalls
Threading == at \in [Profile!Threads -> Profile!Places] /\ regs \in [Profile!Threads -> Registers]

ProfileOK ==
  /\ Scalars /\ Threading /\ Alone
  /\ Recorded(entries, arcs) /\ Chained(entries, chain)
  /\ \A t \in Profile!Threads : Knows(at[t], regs[t], entries, arcs, chain)
  /\ calls \in [Profile!Pairs -> Nat] /\ (\A p \in Profile!Pairs : calls[p] <= made)
  /\ \A p \in Profile!Pairs : CountOK(entries, arcs, Open(at, regs, p), calls[p], p)
ProfileInv == part = "records" => ProfileOK

\* The element at the first of some places, as Profile!First says it.
Foremost(s, k) == IF k = {} THEN 0 ELSE s[CHOOSE j \in k : \A i \in k : j <= i]

LEMMA ForemostIs ==
  ASSUME NEW s, Len(s) \in Nat, NEW k \in SUBSET (1..Len(s))
  PROVE  Foremost(s, k) = 0 \/ \E j \in k : Foremost(s, k) = s[j]
<1>1. CASE k = {}
  BY <1>1 DEF Foremost
<1>2. CASE k # {}
  <2>1. Files!Min(k) \in k
    BY <1>2, MinIsLeast
  <2>2. Files!Min(k) = CHOOSE j \in k : \A i \in k : j <= i
    BY DEF Files!Min
  <2>3. Foremost(s, k) = s[Files!Min(k)]
    BY <1>2, <2>2 DEF Foremost
  <2> QED
    BY <2>1, <2>3
<1> QED
  BY <1>1, <1>2

\* The types of entries and arcs.
LEMMA RecordTypes ==
  ASSUME NEW es, NEW ar, Recorded(es, ar)
  PROVE  /\ Len(es) \in Nat /\ Len(ar) \in Nat
         /\ \A e \in 1..Len(es) :
              es[e].self \in Functions /\ es[e].arcs \in Seq(1..Len(ar))
              /\ Len(es[e].arcs) \in Nat
              /\ \A j \in 1..Len(es[e].arcs) : es[e].arcs[j] \in 1..Len(ar)
         /\ \A a \in 1..Len(ar) : ar[a].from \in Functions /\ ar[a].count \in 1..MaxCalls
<1> DEFINE R == [self : Functions, arcs : Seq(1..Len(ar))]
           A == [from : Functions, count : 1..MaxCalls]
<1>1. es \in Seq(R) /\ ar \in Seq(A)
  BY DEF Recorded
<1>2. Len(es) \in Nat /\ Len(ar) \in Nat
  BY <1>1, LenProperties
<1>3. ASSUME NEW e \in 1..Len(es)
      PROVE  /\ es[e].self \in Functions /\ es[e].arcs \in Seq(1..Len(ar))
             /\ Len(es[e].arcs) \in Nat
             /\ \A j \in 1..Len(es[e].arcs) : es[e].arcs[j] \in 1..Len(ar)
  <2>1. es[e] \in R
    BY <1>1, ElementOfSeq
  <2>2. es[e].self \in Functions /\ es[e].arcs \in Seq(1..Len(ar))
    BY <2>1
  <2> QED
    BY <2>2, LenProperties, ElementOfSeq
<1>4. ASSUME NEW a \in 1..Len(ar)
      PROVE  ar[a].from \in Functions /\ ar[a].count \in 1..MaxCalls
  <2>1. ar[a] \in A
    BY <1>1, ElementOfSeq
  <2> QED
    BY <2>1
<1> QED
  BY <1>2, <1>3, <1>4

LEMMA ChainTypes ==
  ASSUME NEW es, Len(es) \in Nat, NEW ch, Chained(es, ch)
  PROVE  /\ Len(ch) = Len(es)
         /\ \A k \in 1..Len(ch) : ch[k] \in 1..Len(es)
         /\ \A e \in 1..Len(es) : \E k \in 1..Len(ch) : ch[k] = e
<1>1. Len(ch) = Len(es) /\ \A k \in 1..Len(ch) : ch[k] = Len(es) + 1 - k
  BY DEF Chained
<1>2. ASSUME NEW e \in 1..Len(es) PROVE \E k \in 1..Len(ch) : ch[k] = e
  <2>1. Len(es) + 1 - e \in 1..Len(ch) /\ Len(es) + 1 - (Len(es) + 1 - e) = e
    BY <1>1
  <2> QED
    BY <1>1, <2>1
<1>3. ASSUME NEW k \in 1..Len(ch) PROVE ch[k] \in 1..Len(es)
  <2>1. Len(es) + 1 - k \in 1..Len(es) /\ ch[k] = Len(es) + 1 - k
    BY <1>1
  <2> QED
    BY <2>1
<1> QED
  BY <1>1, <1>2, <1>3

\* A search of the chain ends at an entry of the function, or nowhere.
LEMMA EntryFound ==
  ASSUME ProfileOK, NEW t \in Profile!Threads
  PROVE  LET e == Profile!First(chain, LAMBDA n : entries[n].self = regs[t].self)
         IN e \in 0..Len(entries) /\ (e # 0 => entries[e].self = regs[t].self)
<1> DEFINE k == {j \in 1..Len(chain) : entries[chain[j]].self = regs[t].self}
<1>1. Profile!First(chain, LAMBDA n : entries[n].self = regs[t].self) = Foremost(chain, k)
  BY DEF Profile!First, Profile!None, Foremost, k
<1>2. Len(entries) \in Nat
  BY RecordTypes DEF ProfileOK
<1>3. Len(chain) = Len(entries) /\ \A j \in 1..Len(chain) : chain[j] \in 1..Len(entries)
  BY <1>2, ChainTypes DEF ProfileOK
<1>4. k \in SUBSET (1..Len(chain)) /\ \A j \in k : entries[chain[j]].self = regs[t].self
  OBVIOUS
<1> HIDE DEF k
<1>5. Foremost(chain, k) = 0 \/ \E j \in k : Foremost(chain, k) = chain[j]
  BY <1>2, <1>3, <1>4, ForemostIs
<1>6. /\ Foremost(chain, k) \in 0..Len(entries)
      /\ Foremost(chain, k) # 0 => entries[Foremost(chain, k)].self = regs[t].self
  BY <1>2, <1>3, <1>4, <1>5
<1> QED
  BY <1>1, <1>6

\* A search of an entry's list ends at an arc of the pair, or nowhere.
LEMMA ArcFound ==
  ASSUME ProfileOK, NEW t \in Profile!Threads, at[t] = "arc"
  PROVE  LET a == Profile!First(entries[regs[t].entry].arcs,
                                LAMBDA n : Profile!SameArc(t, n))
         IN a # 0 => /\ a \in 1..Len(arcs) /\ Owner(entries, a, regs[t].self)
                     /\ arcs[a].from = regs[t].from
<1> DEFINE e == regs[t].entry
           s == entries[e].arcs
           k == {j \in 1..Len(s) : Profile!SameArc(t, s[j])}
<1>1. Profile!First(s, LAMBDA n : Profile!SameArc(t, n)) = Foremost(s, k)
  BY DEF Profile!First, Profile!None, Foremost, k
<1>2. e \in 1..Len(entries) /\ entries[e].self = regs[t].self
  <2>1. Len(entries) \in Nat
    BY RecordTypes DEF ProfileOK
  <2>2. e \in 0..Len(entries) /\ e # 0 /\ (e # 0 => entries[e].self = regs[t].self)
    BY DEF ProfileOK, Knows
  <2> QED
    BY <2>1, <2>2
<1>3. Len(s) \in Nat /\ \A j \in 1..Len(s) : s[j] \in 1..Len(arcs)
  BY <1>2, RecordTypes DEF ProfileOK
<1>4. k \in SUBSET (1..Len(s)) /\ \A j \in k : arcs[s[j]].from = regs[t].from
  BY DEF Profile!SameArc
<1>5. \A j \in k : Owner(entries, s[j], regs[t].self)
  BY <1>2 DEF Owner, Listed
<1> HIDE DEF k, s, e
<1>6. Foremost(s, k) = 0 \/ \E j \in k : Foremost(s, k) = s[j]
  BY <1>3, <1>4, ForemostIs
<1>7. Foremost(s, k) # 0 =>
        /\ Foremost(s, k) \in 1..Len(arcs) /\ Owner(entries, Foremost(s, k), regs[t].self)
        /\ arcs[Foremost(s, k)].from = regs[t].from
  BY <1>3, <1>4, <1>5, <1>6
<1> QED
  BY <1>1, <1>7 DEF s, e, k

\* A thread goes on to w, with r in its registers, and touches no record.
Stays(t, w, r) ==
  /\ at[t] # "idle" /\ w \in Profile!Places /\ w # "idle" /\ r \in Registers
  /\ r.self = regs[t].self /\ r.from = regs[t].from
  /\ at' = [at EXCEPT ![t] = w] /\ regs' = [regs EXCEPT ![t] = r]
  /\ entries' = entries /\ chain' = chain /\ arcs' = arcs /\ calls' = calls /\ made' = made

\* So it goes on to w with r, whatever it does to the records.
Moves(t, w, r) ==
  /\ Threading /\ t \in Profile!Threads /\ w \in Profile!Places /\ r \in Registers
  /\ at' = [at EXCEPT ![t] = w] /\ regs' = [regs EXCEPT ![t] = r]

LEMMA Moved ==
  ASSUME NEW t, NEW w, NEW r, Moves(t, w, r)
  PROVE  /\ Threading'
         /\ at'[t] = w /\ regs'[t] = r
         /\ \A u \in Profile!Threads : u # t => at'[u] = at[u] /\ regs'[u] = regs[u]
BY DEF Threading, Moves

LEMMA StaysMoves ==
  ASSUME ProfileOK, NEW t \in Profile!Threads, NEW w, NEW r, Stays(t, w, r)
  PROVE  Moves(t, w, r)
BY DEF ProfileOK, Stays, Moves

LEMMA TheThreads ==
  /\ Profile!Threads = {"program", "isr"} /\ "program" # "isr"
  BY DEF Profile!Threads

LEMMA InsideKeeps ==
  ASSUME ProfileOK, NEW t \in Profile!Threads, NEW w, NEW r, Stays(t, w, r),
         Knows(w, r, entries, arcs, chain), Scalars', Alone'
  PROVE  ProfileOK'
<1>1. /\ Threading' /\ at'[t] = w /\ regs'[t] = r
      /\ \A u \in Profile!Threads : u # t => at'[u] = at[u] /\ regs'[u] = regs[u]
  BY StaysMoves, Moved
<1>2. /\ entries' = entries /\ chain' = chain /\ arcs' = arcs /\ calls' = calls /\ made' = made
      /\ w # "idle" /\ at[t] # "idle" /\ r.self = regs[t].self /\ r.from = regs[t].from
  BY DEF Stays
<1>3. \A u \in Profile!Threads : Knows(at'[u], regs'[u], entries, arcs, chain)
  BY <1>1 DEF ProfileOK
<1>4. \A u \in Profile!Threads, p \in Profile!Pairs :
        One(at'[u], regs'[u], p) = One(at[u], regs[u], p)
  BY <1>1, <1>2 DEF One
<1>5. \A p \in Profile!Pairs : Open(at', regs', p) = Open(at, regs, p)
  BY <1>4, TheThreads DEF Open
<1>6. \A p \in Profile!Pairs : CountOK(entries, arcs, Open(at', regs', p), calls[p], p)
  BY <1>5 DEF ProfileOK
<1>7. /\ Recorded(entries', arcs') /\ Chained(entries', chain')
      /\ calls' \in [Profile!Pairs -> Nat] /\ \A p \in Profile!Pairs : calls'[p] <= made'
  BY <1>2 DEF ProfileOK
<1> QED
  BY <1>1, <1>2, <1>3, <1>6, <1>7 DEF ProfileOK

LEMMA AloneStays ==
  ASSUME ProfileOK, NEW t \in Profile!Threads, NEW w, NEW r, Stays(t, w, r),
         Profile!Running(t), at[t] # "push", w # "push", mcount_irq_off' = mcount_irq_off,
         t = "isr" /\ w = "store" => r.count = arcs[r.arc].count
  PROVE  Alone'
<1>1. /\ at'[t] = w /\ regs'[t] = r /\ arcs' = arcs
      /\ \A u \in Profile!Threads : u # t => at'[u] = at[u] /\ regs'[u] = regs[u]
  <2>1. arcs' = arcs
    BY DEF Stays
  <2>2. Moves(t, w, r)
    BY StaysMoves
  <2> QED
    BY <2>1, <2>2, Moved
<1>2. /\ mcount_irq_off <=> at["program"] = "push"
      /\ at["program"] = "push" => at["isr"] = "idle"
      /\ at["isr"] = "store" => regs["isr"].count = arcs[regs["isr"].arc].count
  BY DEF ProfileOK, Alone
<1>3. at[t] # "idle"
  BY DEF Stays
<1>4. CASE t = "program"
  <2>1. at'["isr"] = at["isr"] /\ regs'["isr"] = regs["isr"] /\ at'["program"] = w
    BY <1>1, <1>4, TheThreads
  <2> QED
    BY <1>1, <1>2, <1>4, <2>1 DEF Alone
<1>5. CASE t = "isr"
  <2>1. at'["program"] = at["program"] /\ at'["isr"] = w /\ regs'["isr"] = r
    BY <1>1, <1>5, TheThreads
  <2>2. at["program"] # "push"
    BY <1>2, <1>3, <1>5
  <2> QED
    BY <1>1, <1>2, <1>5, <2>1, <2>2 DEF Alone
<1> QED
  BY <1>4, <1>5, TheThreads

LEMMA FindEntryKeeps ==
  ASSUME ProfileOK, NEW t \in Profile!Threads, Profile!FindEntry(t)
  PROVE  ProfileOK'
<1> DEFINE e == Profile!First(chain, LAMBDA n : entries[n].self = regs[t].self)
           w == IF e = 0 THEN "test" ELSE "arc"
           r == [regs[t] EXCEPT !.entry = e]
<1>1. /\ Profile!Running(t) /\ at[t] = "entry" /\ at' = [at EXCEPT ![t] = w]
      /\ regs' = [regs EXCEPT ![t].entry = e]
      /\ entries' = entries /\ chain' = chain /\ arcs' = arcs /\ calls' = calls /\ made' = made
      /\ pcsample_need_init' = pcsample_need_init /\ tick_rate' = tick_rate
      /\ started' = started /\ mcount_irq_off' = mcount_irq_off
  BY DEF Profile!FindEntry, Profile!Goes, Profile!data, Profile!sampler, Profile!None
<1>2. e \in 0..Len(entries) /\ (e # 0 => entries[e].self = regs[t].self)
  BY EntryFound
<1>3. Len(entries) \in Nat /\ regs[t] \in Registers /\ regs \in [Profile!Threads -> Registers]
  BY RecordTypes DEF ProfileOK, Threading
<1> HIDE DEF e
<1>4. r \in Registers /\ r.self = regs[t].self /\ r.from = regs[t].from /\ r.entry = e
  <2>1. e \in Nat
    BY <1>2, <1>3
  <2> QED
    BY <1>3, <2>1 DEF Registers
<1>5. regs' = [regs EXCEPT ![t] = r]
  BY <1>1, <1>3
<1>6. Knows(at[t], regs[t], entries, arcs, chain)
  BY DEF ProfileOK
<1> HIDE DEF r
<1>7. Stays(t, w, r)
  BY <1>1, <1>4, <1>5 DEF Stays, Profile!Places
<1>8. Knows(w, r, entries, arcs, chain)
  BY <1>1, <1>2, <1>4, <1>6 DEF Knows
<1>9. Alone'
  <2>1. at[t] # "push" /\ w # "push" /\ w # "store"
    BY <1>1
  <2> QED
    BY <1>1, <1>7, <2>1, AloneStays
<1>10. Scalars'
  BY <1>1 DEF ProfileOK, Scalars
<1> QED
  BY <1>7, <1>8, <1>9, <1>10, InsideKeeps

LEMMA FindArcKeeps ==
  ASSUME ProfileOK, NEW t \in Profile!Threads, Profile!FindArc(t)
  PROVE  ProfileOK'
<1> DEFINE a == Profile!First(entries[regs[t].entry].arcs, LAMBDA n : Profile!SameArc(t, n))
           w == IF a = 0 THEN "test" ELSE "store"
           c == IF a = 0 THEN 0 ELSE arcs[a].count
           r == [regs[t] EXCEPT !.arc = a, !.count = c]
<1>1. /\ Profile!Running(t) /\ at[t] = "arc" /\ at' = [at EXCEPT ![t] = w]
      /\ regs' = [regs EXCEPT ![t].arc = a, ![t].count = c]
      /\ entries' = entries /\ chain' = chain /\ arcs' = arcs /\ calls' = calls /\ made' = made
      /\ pcsample_need_init' = pcsample_need_init /\ tick_rate' = tick_rate
      /\ started' = started /\ mcount_irq_off' = mcount_irq_off
  BY DEF Profile!FindArc, Profile!Goes, Profile!data, Profile!sampler, Profile!None
<1>2. a # 0 => /\ a \in 1..Len(arcs) /\ Owner(entries, a, regs[t].self)
               /\ arcs[a].from = regs[t].from
  BY <1>1, ArcFound
<1>3. Len(arcs) \in Nat /\ regs[t] \in Registers /\ regs \in [Profile!Threads -> Registers]
  BY RecordTypes DEF ProfileOK, Threading
<1> HIDE DEF a
<1>4. a \in Nat /\ c \in Nat
  <2>1. a # 0 => arcs[a].count \in 1..MaxCalls
    BY <1>2, RecordTypes DEF ProfileOK
  <2> QED
    BY <1>2, <1>3, <2>1
<1> HIDE DEF c
<1>5. /\ r \in Registers /\ r.self = regs[t].self /\ r.from = regs[t].from
      /\ r.entry = regs[t].entry /\ r.arc = a /\ r.count = c
  BY <1>3, <1>4 DEF Registers
<1>6. regs' = [regs EXCEPT ![t] = r]
  BY <1>1, <1>3
<1>7. Knows(at[t], regs[t], entries, arcs, chain)
  BY DEF ProfileOK
<1> HIDE DEF r
<1>8. Stays(t, w, r)
  BY <1>1, <1>5, <1>6 DEF Stays, Profile!Places
<1>9. a # 0 => c = arcs[a].count
  BY DEF c
<1>10. Knows(w, r, entries, arcs, chain)
  BY <1>1, <1>2, <1>4, <1>5, <1>7, <1>9 DEF Knows
<1>11. Alone'
  <2>1. at[t] # "push" /\ w # "push" /\ (w = "store" => r.count = arcs[r.arc].count)
    BY <1>1, <1>5, <1>9
  <2> QED
    BY <1>1, <1>8, <2>1, AloneStays
<1>12. Scalars'
  BY <1>1 DEF ProfileOK, Scalars
<1> QED
  BY <1>8, <1>10, <1>11, <1>12, InsideKeeps

\* The sampler's steps change where the thread is, and the sampler.
LEMMA SamplesKeep ==
  ASSUME ProfileOK, NEW t \in Profile!Threads,
         Profile!Test(t) \/ Profile!Clear(t) \/ Profile!InitSampler(t)
  PROVE  ProfileOK'
<1>1. PICK w \in {"clear", "init", "link"} :
        /\ Profile!Running(t) /\ at[t] \in {"test", "clear", "init"}
        /\ at' = [at EXCEPT ![t] = w]
  BY DEF Profile!Test, Profile!Clear, Profile!InitSampler, Profile!Goes
<1>2. /\ entries' = entries /\ chain' = chain /\ arcs' = arcs /\ calls' = calls /\ made' = made
      /\ regs' = regs /\ tick_rate' = tick_rate /\ mcount_irq_off' = mcount_irq_off
      /\ pcsample_need_init' \in {0, 1, pcsample_need_init}
      /\ started' \in {started, started + tick_rate}
  BY DEF Profile!Test, Profile!Clear, Profile!InitSampler, Profile!data, Profile!sampler
<1>3. regs \in [Profile!Threads -> Registers] /\ regs[t] \in Registers
  BY DEF ProfileOK, Threading
<1>4. regs' = [regs EXCEPT ![t] = regs[t]]
  BY <1>2, <1>3
<1>5. Stays(t, w, regs[t])
  BY <1>1, <1>2, <1>3, <1>4 DEF Stays, Profile!Places
<1>6. Knows(w, regs[t], entries, arcs, chain)
  <2>1. Knows(at[t], regs[t], entries, arcs, chain)
    BY DEF ProfileOK
  <2> QED
    BY <1>1, <2>1 DEF Knows
<1>7. Alone'
  <2>1. at[t] # "push" /\ w # "push" /\ w # "store"
    BY <1>1
  <2> QED
    BY <1>1, <1>2, <1>5, <2>1, AloneStays
<1>8. Scalars'
  BY <1>2 DEF ProfileOK, Scalars
<1> QED
  BY <1>5, <1>6, <1>7, <1>8, InsideKeeps

LEMMA LinkKeeps ==
  ASSUME ProfileOK, NEW t \in Profile!Threads, Profile!Link(t)
  PROVE  ProfileOK'
<1> DEFINE r == [regs[t] EXCEPT !.head = chain]
<1>1. /\ Profile!Running(t) /\ at[t] = "link" /\ at' = [at EXCEPT ![t] = "push"]
      /\ regs' = [regs EXCEPT ![t].head = chain]
      /\ mcount_irq_off' = (IF t = "isr" THEN mcount_irq_off ELSE TRUE)
      /\ entries' = entries /\ chain' = chain /\ arcs' = arcs /\ calls' = calls /\ made' = made
      /\ pcsample_need_init' = pcsample_need_init /\ tick_rate' = tick_rate
      /\ started' = started
  BY DEF Profile!Link, Profile!Goes, Profile!data, Profile!sampler
<1>2. /\ regs[t] \in Registers /\ regs \in [Profile!Threads -> Registers]
      /\ chain \in Seq(Nat)
  BY DEF ProfileOK, Threading, Chained
<1>3. /\ r \in Registers /\ r.self = regs[t].self /\ r.from = regs[t].from
      /\ r.entry = regs[t].entry /\ r.head = chain
  BY <1>2 DEF Registers
<1>4. regs' = [regs EXCEPT ![t] = r]
  BY <1>1, <1>2
<1>5. Knows(at[t], regs[t], entries, arcs, chain)
  BY DEF ProfileOK
<1> HIDE DEF r
<1>6. Stays(t, "push", r)
  BY <1>1, <1>3, <1>4 DEF Stays, Profile!Places
<1>7. Knows("push", r, entries, arcs, chain)
  BY <1>1, <1>3, <1>5 DEF Knows
<1>8. /\ at'[t] = "push" /\ arcs' = arcs
      /\ \A u \in Profile!Threads : u # t => at'[u] = at[u] /\ regs'[u] = regs[u]
  <2>1. Moves(t, "push", r)
    BY <1>6, StaysMoves
  <2> QED
    BY <1>1, <2>1, Moved
<1>9. /\ mcount_irq_off <=> at["program"] = "push"
      /\ at["program"] = "push" => at["isr"] = "idle"
  BY DEF ProfileOK, Alone
<1>10. Alone'
  <2>1. CASE t = "program"
    <3>1. at["isr"] = "idle"
      BY <1>1, <2>1, TheThreads DEF Profile!Running
    <3>2. at'["program"] = "push" /\ at'["isr"] = "idle" /\ mcount_irq_off' = TRUE
      BY <1>1, <1>8, <2>1, <3>1, TheThreads
    <3> QED
      BY <3>2 DEF Alone
  <2>2. CASE t = "isr"
    <3>1. at["program"] # "push"
      BY <1>1, <1>9, <2>2
    <3>2. /\ at'["program"] = at["program"] /\ at'["isr"] = "push"
          /\ mcount_irq_off' = mcount_irq_off
      BY <1>1, <1>8, <2>2, TheThreads
    <3> QED
      BY <1>9, <3>1, <3>2 DEF Alone
  <2> QED
    BY <2>1, <2>2, TheThreads
<1>11. Scalars'
  BY <1>1 DEF ProfileOK, Scalars
<1> QED
  BY <1>6, <1>7, <1>10, <1>11, InsideKeeps

LEMMA ClockKeeps ==
  ASSUME ProfileOK, Profile!SysclkInit
  PROVE  ProfileOK'
<1>1. /\ entries' = entries /\ chain' = chain /\ arcs' = arcs /\ calls' = calls /\ made' = made
      /\ regs' = regs /\ at' = at /\ tick_rate' = 1 /\ mcount_irq_off' = mcount_irq_off
      /\ pcsample_need_init' = pcsample_need_init /\ started' = started
  BY DEF Profile!SysclkInit, Profile!data
<1>2. Scalars'
  BY <1>1 DEF ProfileOK, Scalars
<1>3. Alone'
  BY <1>1 DEF ProfileOK, Alone
<1>4. Threading'
  BY <1>1 DEF ProfileOK, Threading
<1> QED
  BY <1>1, <1>2, <1>3, <1>4 DEF ProfileOK

LEMMA ProfileCardinality == \A S : Profile!Cardinality(S) = Cardinality(S)
  BY Zenon DEF Profile!Cardinality, Cardinality

LEMMA MaxCallsNat == MaxCalls \in Nat
  BY LibraryAssumption DEF Profile!ProfileAssumption

LEMMA UpTo ==
  ASSUME NEW m \in Nat
  PROVE  IsFiniteSet(1..m) /\ Cardinality(1..m) = m
<1>1. 1 \in Int /\ m \in Int
  OBVIOUS
<1>2. IsFiniteSet(1..m) /\ Cardinality(1..m) = IF 1 > m THEN 0 ELSE m - 1 + 1
  BY <1>1, FS_Interval
<1> QED
  BY <1>2

LEMMA CountsFinite ==
  ASSUME NEW es, NEW ar, Len(ar) \in Nat, NEW p
  PROVE  IsFiniteSet(Counts(es, ar, p)) /\ Cardinality(Counts(es, ar, p)) \in Nat
<1> DEFINE S == (1..Len(ar)) \X (1..MaxCalls)
<1>1. IsFiniteSet(1..Len(ar)) /\ IsFiniteSet(1..MaxCalls)
  BY FS_Interval, MaxCallsNat
<1>2. IsFiniteSet(S)
  BY <1>1, FS_Product
<1>3. Counts(es, ar, p) \in SUBSET S
  BY DEF Counts
<1>4. IsFiniteSet(Counts(es, ar, p))
  BY <1>2, <1>3, FS_Subset
<1> QED
  BY <1>4, FS_CardinalityType

\* An arc's count is among those counted for its pair.
LEMMA CountBelow ==
  ASSUME NEW es, NEW ar, Recorded(es, ar), NEW a \in 1..Len(ar), NEW p,
         Owner(es, a, p.self), ar[a].from = p.from
  PROVE  ar[a].count <= Cardinality(Counts(es, ar, p))
<1> DEFINE c == ar[a].count
           S == Counts(es, ar, p)
           f == [k \in 1..c |-> <<a, k>>]
<1>1. c \in 1..MaxCalls /\ Len(ar) \in Nat
  BY RecordTypes
<1>2. c \in Nat /\ IsFiniteSet(1..c) /\ Cardinality(1..c) = c
  <2> HIDE DEF c
  <2>1. c \in Nat
    BY <1>1, MaxCallsNat
  <2> QED
    BY <2>1, UpTo
<1>3. \A k \in 1..c : <<a, k>> \in S
  <2>1. \A k \in 1..c : k \in 1..MaxCalls /\ k <= c
    BY <1>1, MaxCallsNat
  <2> QED
    BY <2>1 DEF Counts
<1>4. IsFiniteSet(S) /\ Cardinality(S) \in Nat
  BY <1>1, CountsFinite
<1> HIDE DEF S, c
<1>5. f \in Injection(1..c, S)
  <2>1. f \in [1..c -> S]
    BY <1>3
  <2>2. \A k, l \in 1..c : f[k] = f[l] => k = l
    OBVIOUS
  <2> HIDE DEF f
  <2> QED
    BY <2>1, <2>2 DEF Injection, IsInjective
<1> HIDE DEF f
<1>6. Cardinality(1..c) <= Cardinality(S)
  BY <1>4, <1>5, FS_Injection
<1> QED
  BY <1>2, <1>6 DEF S, c

\* What a record of f called from g may change: one more is counted for that pair.
Grown(es, ar, nes, nar, f, g) ==
  \A p \in Profile!Pairs :
    /\ Cardinality(Counts(nes, nar, p)) <=
         Cardinality(Counts(es, ar, p)) + (IF p.self = f /\ p.from = g THEN 1 ELSE 0)
    /\ Known(es, ar, p) \/ (p.self = f /\ p.from = g) => Known(nes, nar, p)

LEMMA GrowsBy ==
  ASSUME NEW es, NEW ar, Len(ar) \in Nat, NEW nes, NEW nar, Len(nar) \in Nat, NEW p, NEW x,
         Counts(nes, nar, p) \subseteq Counts(es, ar, p) \cup {x}
  PROVE  Cardinality(Counts(nes, nar, p)) <= Cardinality(Counts(es, ar, p)) + 1
<1> DEFINE S == Counts(es, ar, p)
           T == Counts(nes, nar, p)
<1>1. IsFiniteSet(S) /\ Cardinality(S) \in Nat /\ Cardinality(T) \in Nat
  BY CountsFinite
<1>2. T \in SUBSET (S \cup {x})
  OBVIOUS
<1> HIDE DEF S, T
<1>3. /\ IsFiniteSet(S \cup {x})
      /\ Cardinality(S \cup {x}) = IF x \in S THEN Cardinality(S) ELSE Cardinality(S) + 1
  BY <1>1, FS_AddElement
<1>4. Cardinality(T) <= Cardinality(S \cup {x})
  BY <1>2, <1>3, FS_Subset
<1>5. Cardinality(T) <= Cardinality(S) + 1
  BY <1>1, <1>3, <1>4
<1> QED
  BY <1>5 DEF S, T

LEMMA GrowsNot ==
  ASSUME NEW es, NEW ar, Len(ar) \in Nat, NEW nes, NEW nar, Len(nar) \in Nat, NEW p,
         Counts(nes, nar, p) \subseteq Counts(es, ar, p)
  PROVE  Cardinality(Counts(nes, nar, p)) <= Cardinality(Counts(es, ar, p)) + 0
<1> DEFINE S == Counts(es, ar, p)
           T == Counts(nes, nar, p)
<1>1. IsFiniteSet(S) /\ Cardinality(S) \in Nat /\ Cardinality(T) \in Nat
  BY CountsFinite
<1>2. T \in SUBSET S
  OBVIOUS
<1> HIDE DEF S, T
<1>3. Cardinality(T) <= Cardinality(S)
  BY <1>1, <1>2, FS_Subset
<1>4. Cardinality(T) <= Cardinality(S) + 0
  BY <1>1, <1>3
<1> QED
  BY <1>4 DEF S, T

\* A count is stored: the next one, or one that others have passed already.
StoreIs(es, ar, a, f, c, nar) ==
  /\ Recorded(es, ar) /\ a \in 1..Len(ar) /\ f \in Functions /\ Owner(es, a, f)
  /\ c \in Nat /\ c <= ar[a].count /\ c + 1 <= MaxCalls
  /\ nar = [ar EXCEPT ![a].count = c + 1]

LEMMA StoredArc ==
  ASSUME NEW es, NEW ar, NEW a, NEW f, NEW c, NEW nar, StoreIs(es, ar, a, f, c, nar)
  PROVE  /\ Recorded(es, nar) /\ Len(nar) = Len(ar)
         /\ \A b \in 1..Len(ar) : /\ nar[b].from = ar[b].from
                                  /\ b # a => nar[b].count = ar[b].count
         /\ nar[a].count = c + 1
         /\ Grown(es, ar, es, nar, f, ar[a].from)
<1> DEFINE A == [from : Functions, count : 1..MaxCalls]
           q == [from |-> ar[a].from, count |-> c + 1]
<1> USE DEF StoreIs
<1>1. /\ Len(es) \in Nat /\ Len(ar) \in Nat /\ ar \in Seq(A) /\ ar[a] \in A
      /\ \A b \in 1..Len(ar) : ar[b].count \in 1..MaxCalls /\ ar[b].from \in Functions
  <2>1. ar \in Seq(A)
    BY DEF Recorded
  <2> QED
    BY <2>1, ElementOfSeq, RecordTypes
<1>2. c + 1 \in 1..MaxCalls
  BY MaxCallsNat
<1>3. q \in A /\ q.from = ar[a].from /\ q.count = c + 1
  BY <1>1, <1>2
<1>4. nar = [ar EXCEPT ![a] = q]
  <2>1. ar \in [1..Len(ar) -> A]
    BY <1>1, LenProperties
  <2>2. \A r \in A : [r EXCEPT !.count = c + 1] = [from |-> r.from, count |-> c + 1]
    OBVIOUS
  <2>3. nar = [ar EXCEPT ![a] = [ar[a] EXCEPT !.count = c + 1]]
    BY <2>1
  <2> QED
    BY <1>1, <2>2, <2>3
<1> HIDE DEF q
<1>5. /\ nar \in Seq(A) /\ Len(nar) = Len(ar) /\ nar[a] = q
      /\ \A b \in 1..Len(ar) : b # a => nar[b] = ar[b]
  <2>1. ar \in [1..Len(ar) -> A]
    BY <1>1, LenProperties
  <2>2. nar[a] = q /\ \A b \in 1..Len(ar) : b # a => nar[b] = ar[b]
    BY <1>4, <2>1
  <2>3. nar \in Seq(A) /\ Len(nar) = Len(ar)
    <3>1. q \in A
      BY <1>3
    <3> HIDE DEF A
    <3>2. [ar EXCEPT ![a] = q] \in Seq(A) /\ Len([ar EXCEPT ![a] = q]) = Len(ar)
      BY <1>1, <3>1, ExceptSeq
    <3> QED
      BY <1>4, <3>2
  <2> QED
    BY <2>2, <2>3
<1>6. /\ \A b \in 1..Len(ar) : /\ nar[b].from = ar[b].from
                               /\ b # a => nar[b].count = ar[b].count
      /\ nar[a].count = c + 1
  BY <1>3, <1>5
<1>7. Recorded(es, nar)
  <2>1. /\ es \in Seq([self : Functions, arcs : Seq(1..Len(ar))])
        /\ \A b \in 1..Len(ar) : \E h \in Functions : Owner(es, b, h)
        /\ \A b \in 1..Len(ar) : \A h, g \in Functions :
             Owner(es, b, h) /\ Owner(es, b, g) => h = g
    BY DEF Recorded
  <2> QED
    BY <1>5, <2>1 DEF Recorded
<1>8. \A p : Known(es, nar, p) <=> Known(es, ar, p)
  BY <1>5, <1>6 DEF Known
<1>9. ASSUME NEW p \in Profile!Pairs, p.self = f, p.from = ar[a].from
      PROVE  Cardinality(Counts(es, nar, p)) <= Cardinality(Counts(es, ar, p)) + 1
  <2>1. ASSUME NEW x \in Counts(es, nar, p) PROVE x \in Counts(es, ar, p) \cup {<<a, c + 1>>}
    <3>1. /\ x \in (1..Len(ar)) \X (1..MaxCalls) /\ x[1] \in 1..Len(ar) /\ x[2] \in 1..MaxCalls
          /\ Owner(es, x[1], p.self) /\ ar[x[1]].from = p.from
          /\ x[2] <= nar[x[1]].count /\ x = <<x[1], x[2]>>
      BY <1>5, <1>6, <2>1 DEF Counts
    <3>2. CASE x[1] # a \/ x[2] # c + 1
      <4>1. x[2] <= ar[x[1]].count
        BY <1>1, <1>2, <1>6, <3>1, <3>2, MaxCallsNat
      <4> QED
        BY <3>1, <4>1 DEF Counts
    <3>3. CASE x[1] = a /\ x[2] = c + 1
      BY <3>1, <3>3
    <3> QED
      BY <3>2, <3>3
  <2> QED
    BY <1>1, <1>5, <2>1, GrowsBy
<1>10. ASSUME NEW p \in Profile!Pairs, ~(p.self = f /\ p.from = ar[a].from)
       PROVE  Cardinality(Counts(es, nar, p)) <= Cardinality(Counts(es, ar, p)) + 0
  <2>1. ASSUME NEW x \in Counts(es, nar, p) PROVE x \in Counts(es, ar, p)
    <3>1. /\ x \in (1..Len(ar)) \X (1..MaxCalls) /\ x[1] \in 1..Len(ar)
          /\ Owner(es, x[1], p.self) /\ ar[x[1]].from = p.from
          /\ x[2] <= nar[x[1]].count
      BY <1>5, <1>6, <2>1 DEF Counts
    <3>2. p.self \in Functions
      BY DEF Profile!Pairs
    <3>3. x[1] # a
      BY <1>10, <3>1, <3>2 DEF Recorded
    <3> QED
      BY <1>6, <3>1, <3>3 DEF Counts
  <2> QED
    BY <1>1, <1>5, <2>1, GrowsNot
<1>11. ASSUME NEW p, p.self = f, p.from = ar[a].from PROVE Known(es, ar, p)
  BY <1>11 DEF Known
<1>12. Grown(es, ar, es, nar, f, ar[a].from)
  BY <1>8, <1>9, <1>10, <1>11 DEF Grown
<1> QED
  BY <1>5, <1>6, <1>7, <1>12

\* Longer lists of arcs.
LEMMA ListsWiden ==
  ASSUME NEW n \in Nat, NEW s \in Seq(1..n)
  PROVE  s \in Seq(1..n + 1)
<1>1. s \in [1..Len(s) -> 1..n] /\ Len(s) \in Nat
  BY LenProperties
<1>2. \A k \in 1..Len(s) : s[k] \in 1..n + 1
  BY <1>1
<1>3. s \in [1..Len(s) -> 1..n + 1]
  BY <1>1, <1>2
<1> QED
  BY <1>1, <1>3

\* An entry of f that lists a new arc n + 1 and those in s.
IsEntry(q, n, f, s) ==
  /\ q \in [self : Functions, arcs : Seq(1..n + 1)] /\ q.self = f
  /\ \A b : Listed(q, b) <=> b = n + 1 \/ \E j \in 1..Len(s) : s[j] = b
IsNewEntry(q, n, f) ==
  /\ q \in [self : Functions, arcs : Seq(1..n + 1)] /\ q.self = f
  /\ \A b : Listed(q, b) <=> b = n + 1

\* The entry made for a new arc, and the one that it is put at the head of.
LEMMA PutFirst ==
  ASSUME NEW n \in Nat, NEW f \in Functions, NEW s \in Seq(1..n)
  PROVE  /\ IsEntry([self |-> f, arcs |-> <<n + 1>> \o s], n, f, s)
         /\ IsNewEntry([self |-> f, arcs |-> <<n + 1>>], n, f)
<1> DEFINE q == [self |-> f, arcs |-> <<n + 1>> \o s]
           new == [self |-> f, arcs |-> <<n + 1>>]
           one == <<n + 1>>
<1>1. one \in Seq(1..n + 1) /\ Len(one) = 1 /\ one[1] = n + 1
  OBVIOUS
<1>2. s \in Seq(1..n + 1) /\ Len(s) \in Nat
  BY ListsWiden, LenProperties
<1>3. q.arcs = one \o s /\ new.arcs = one /\ q.self = f /\ new.self = f
  OBVIOUS
<1> HIDE DEF one
<1>4. /\ one \o s \in Seq(1..n + 1) /\ Len(one \o s) = Len(one) + Len(s)
      /\ \A k \in 1..Len(one) + Len(s) :
           (one \o s)[k] = IF k <= Len(one) THEN one[k] ELSE s[k - Len(one)]
  BY <1>1, <1>2, ConcatProperties
<1>5. /\ Len(one \o s) = Len(s) + 1 /\ (one \o s)[1] = n + 1
      /\ \A k \in 1..Len(s) : (one \o s)[k + 1] = s[k]
      /\ \A k \in 1..Len(s) + 1 : k = 1 \/ (k - 1 \in 1..Len(s) /\ (one \o s)[k] = s[k - 1])
  <2>1. \A k \in 1..Len(s) + 1 : (one \o s)[k] = IF k <= 1 THEN one[k] ELSE s[k - 1]
    BY <1>1, <1>2, <1>4
  <2>2. 1 \in 1..Len(s) + 1 /\ \A k \in 1..Len(s) : k + 1 \in 1..Len(s) + 1 /\ k + 1 - 1 = k
    BY <1>2
  <2>3. \A k \in 1..Len(s) + 1 : k = 1 \/ (k - 1 \in 1..Len(s) /\ ~(k <= 1))
    BY <1>2
  <2>4. \A k \in 1..Len(s) : ~(k + 1 <= 1)
    BY <1>2
  <2>5. Len(one \o s) = Len(s) + 1 /\ 1 <= 1
    BY <1>1, <1>2, <1>4
  <2>6. (one \o s)[1] = n + 1
    BY <1>1, <2>1, <2>2, <2>5
  <2>7. \A k \in 1..Len(s) : (one \o s)[k + 1] = s[k]
    <3> SUFFICES ASSUME NEW k \in 1..Len(s) PROVE (one \o s)[k + 1] = s[k]
      OBVIOUS
    <3>1. PICK m \in 1..Len(s) + 1 : m = k + 1
      BY <2>2
    <3>2. m - 1 = k /\ ~(m <= 1)
      BY <2>2, <2>4, <3>1
    <3>3. (one \o s)[m] = s[m - 1]
      BY <2>1, <3>2
    <3>4. (one \o s)[m] = s[k]
      BY <3>2, <3>3
    <3> QED
      BY <3>1, <3>4
  <2>8. \A k \in 1..Len(s) + 1 : k = 1 \/ (k - 1 \in 1..Len(s) /\ (one \o s)[k] = s[k - 1])
    BY <2>1, <2>3
  <2> QED
    BY <2>5, <2>6, <2>7, <2>8
<1>6. ASSUME NEW b PROVE Listed(q, b) <=> b = n + 1 \/ \E j \in 1..Len(s) : s[j] = b
  <2>1. Listed(q, b) <=> \E j \in 1..Len(s) + 1 : (one \o s)[j] = b
    BY <1>3, <1>5 DEF Listed
  <2>2. (\E j \in 1..Len(s) + 1 : (one \o s)[j] = b)
          => b = n + 1 \/ \E j \in 1..Len(s) : s[j] = b
    BY <1>5
  <2>3. 1 \in 1..Len(s) + 1 /\ \A j \in 1..Len(s) : j + 1 \in 1..Len(s) + 1
    BY <1>2
  <2>4. (b = n + 1 \/ \E j \in 1..Len(s) : s[j] = b)
          => \E j \in 1..Len(s) + 1 : (one \o s)[j] = b
    BY <1>5, <2>3
  <2> QED
    BY <2>1, <2>2, <2>4
<1>7. ASSUME NEW b PROVE Listed(new, b) <=> b = n + 1
  BY <1>1, <1>3 DEF Listed
<1>8. /\ q \in [self : Functions, arcs : Seq(1..n + 1)]
      /\ new \in [self : Functions, arcs : Seq(1..n + 1)]
  BY <1>1, <1>4 DEF one
<1> HIDE DEF q, new
<1>9. IsEntry(q, n, f, s) /\ IsNewEntry(new, n, f)
  BY <1>3, <1>6, <1>7, <1>8 DEF IsEntry, IsNewEntry
<1> QED
  BY <1>9 DEF q, new, one

\* The entries with a new arc of function f: at the head of entry e, or of one more.
Entries(es, a, f, e) ==
  IF e = 0 THEN Append(es, [self |-> f, arcs |-> <<a>>])
  ELSE [es EXCEPT ![e].arcs = <<a>> \o @]

Extended(es, n, f, e, nes) ==
  /\ nes \in Seq([self : Functions, arcs : Seq(1..n + 1)])
  /\ Len(nes) = IF e = 0 THEN Len(es) + 1 ELSE Len(es)
  /\ \A d \in 1..Len(es) : nes[d].self = es[d].self
  /\ \A b, h : Owner(nes, b, h) <=> Owner(es, b, h) \/ (b = n + 1 /\ h = f)

LEMMA EntriesOf ==
  ASSUME NEW n \in Nat, NEW es \in Seq([self : Functions, arcs : Seq(1..n)]),
         NEW f \in Functions, NEW e \in 0..Len(es), e # 0 => es[e].self = f
  PROVE  Extended(es, n, f, e, Entries(es, n + 1, f, e))
<1> DEFINE nes == Entries(es, n + 1, f, e)
           R == [self : Functions, arcs : Seq(1..n)]
           S == [self : Functions, arcs : Seq(1..n + 1)]
<1>1. Len(es) \in Nat /\ \A d \in 1..Len(es) : es[d] \in R
  BY LenProperties, ElementOfSeq
<1>2. es \in Seq(S)
  <2>1. ASSUME NEW d \in 1..Len(es) PROVE es[d] \in S
    <3>1. es[d] \in R /\ es[d].arcs \in Seq(1..n)
      BY <1>1
    <3>2. es[d].arcs \in Seq(1..n + 1)
      BY <3>1, ListsWiden
    <3> QED
      BY <3>1, <3>2
  <2>2. es \in [1..Len(es) -> R]
    BY LenProperties
  <2> HIDE DEF S
  <2>3. es \in [1..Len(es) -> S]
    BY <2>1, <2>2
  <2> QED
    BY <1>1, <2>3
<1>3. CASE e = 0
  <2> DEFINE new == [self |-> f, arcs |-> <<n + 1>>]
  <2>1. new \in S /\ new.self = f /\ \A b : Listed(new, b) <=> b = n + 1
    <3>1. <<>> \in Seq(1..n)
      OBVIOUS
    <3>2. IsNewEntry(new, n, f)
      BY <3>1, PutFirst
    <3> HIDE DEF new
    <3> QED
      BY <3>2 DEF IsNewEntry
  <2>2. nes = Append(es, new)
    BY <1>3 DEF Entries
  <2> HIDE DEF S, new, nes
  <2>3. /\ nes \in Seq(S) /\ Len(nes) = Len(es) + 1
        /\ \A d \in 1..Len(es) : nes[d] = es[d]
        /\ nes[Len(es) + 1] = new
    BY <1>2, <2>1, <2>2, AppendProperties
  <2>4. ASSUME NEW b, NEW h
        PROVE  Owner(nes, b, h) <=> Owner(es, b, h) \/ (b = n + 1 /\ h = f)
    <3>1. \A d \in 1..Len(es) + 1 : d \in 1..Len(es) \/ d = Len(es) + 1
      BY <1>1
    <3>2. Len(es) + 1 \in 1..Len(es) + 1 /\ \A d \in 1..Len(es) : d \in 1..Len(es) + 1
      BY <1>1
    <3> QED
      BY <2>1, <2>3, <3>1, <3>2 DEF Owner
  <2>5. \A d \in 1..Len(es) : nes[d].self = es[d].self
    BY <2>3
  <2> QED
    BY <1>3, <2>3, <2>4, <2>5 DEF Extended, nes, S
<1>4. CASE e # 0
  <2> DEFINE q == [self |-> f, arcs |-> <<n + 1>> \o es[e].arcs]
  <2>1. e \in 1..Len(es) /\ es[e] \in R /\ es[e].self = f /\ es[e].arcs \in Seq(1..n)
    <3>1. e \in 1..Len(es) /\ es[e].self = f
      BY <1>1, <1>4
    <3>2. es[e] \in R
      BY <1>1, <3>1
    <3> QED
      BY <3>1, <3>2
  <2>2. /\ q \in S /\ q.self = f
        /\ \A b : Listed(q, b) <=> b = n + 1 \/ \E j \in 1..Len(es[e].arcs) : es[e].arcs[j] = b
    <3>1. \A s \in Seq(1..n) : IsEntry([self |-> f, arcs |-> <<n + 1>> \o s], n, f, s)
      BY PutFirst
    <3>2. IsEntry(q, n, f, es[e].arcs)
      BY <2>1, <3>1
    <3> HIDE DEF q
    <3> QED
      BY <3>2 DEF IsEntry
  <2>3. nes = [es EXCEPT ![e] = q]
    <3>1. nes = [es EXCEPT ![e].arcs = <<n + 1>> \o @]
      BY <1>4 DEF Entries
    <3>2. es \in [1..Len(es) -> R]
      BY LenProperties
    <3>3. nes = [es EXCEPT ![e] = [es[e] EXCEPT !.arcs = <<n + 1>> \o es[e].arcs]]
      BY <2>1, <3>1, <3>2
    <3>4. \A r \in R : \A v : [r EXCEPT !.arcs = v] = [self |-> r.self, arcs |-> v]
      OBVIOUS
    <3>5. [es[e] EXCEPT !.arcs = <<n + 1>> \o es[e].arcs] = q
      BY <2>1, <3>4
    <3> QED
      BY <3>3, <3>5
  <2> HIDE DEF q, nes
  <2>4. /\ nes \in Seq(S) /\ Len(nes) = Len(es)
        /\ nes[e] = q /\ \A d \in 1..Len(es) : d # e => nes[d] = es[d]
    <3>1. es \in [1..Len(es) -> R]
      BY LenProperties
    <3>2. nes[e] = q /\ \A d \in 1..Len(es) : d # e => nes[d] = es[d]
      BY <2>1, <2>3, <3>1
    <3> HIDE DEF S
    <3>3. [es EXCEPT ![e] = q] \in Seq(S) /\ Len([es EXCEPT ![e] = q]) = Len(es)
      BY <1>2, <2>1, <2>2, ExceptSeq
    <3> QED
      BY <2>3, <3>2, <3>3
  <2>5. \A b : Listed(q, b) <=> b = n + 1 \/ Listed(es[e], b)
    BY <2>2 DEF Listed
  <2>6. ASSUME NEW b, NEW h
        PROVE  Owner(nes, b, h) <=> Owner(es, b, h) \/ (b = n + 1 /\ h = f)
    <3>1. Owner(nes, b, h) => Owner(es, b, h) \/ (b = n + 1 /\ h = f)
      BY <2>1, <2>2, <2>4, <2>5 DEF Owner
    <3>2. Owner(es, b, h) => Owner(nes, b, h)
      BY <2>1, <2>2, <2>4, <2>5 DEF Owner
    <3>3. b = n + 1 /\ h = f => Owner(nes, b, h)
      BY <2>1, <2>2, <2>4, <2>5 DEF Owner
    <3> QED
      BY <3>1, <3>2, <3>3
  <2>7. \A d \in 1..Len(es) : nes[d].self = es[d].self
    BY <2>1, <2>2, <2>4
  <2> QED
    BY <1>4, <2>4, <2>6, <2>7 DEF Extended, nes, S
<1> QED
  BY <1>3, <1>4 DEF nes

LEMMA ChainGrows ==
  ASSUME NEW es, Len(es) \in Nat, NEW ch, Chained(es, ch), NEW nes, Len(nes) = Len(es) + 1
  PROVE  Chained(nes, <<Len(es) + 1>> \o ch)
<1> DEFINE one == <<Len(es) + 1>>
           nch == one \o ch
<1>1. ch \in Seq(Nat) /\ Len(ch) = Len(es) /\ \A k \in 1..Len(ch) : ch[k] = Len(es) + 1 - k
  BY DEF Chained
<1>2. one \in Seq(Nat) /\ Len(one) = 1 /\ one[1] = Len(es) + 1
  OBVIOUS
<1> HIDE DEF one
<1>3. /\ nch \in Seq(Nat) /\ Len(nch) = Len(one) + Len(ch)
      /\ \A k \in 1..Len(one) + Len(ch) :
           nch[k] = IF k <= Len(one) THEN one[k] ELSE ch[k - Len(one)]
  <2>1. one \in Seq(Nat) /\ ch \in Seq(Nat)
    BY <1>1, <1>2
  <2> QED
    BY <2>1, ConcatProperties
<1> HIDE DEF nch
<1>4. Len(nch) = Len(nes) /\ Len(nch) = Len(es) + 1
  BY <1>1, <1>2, <1>3
<1>5. ASSUME NEW k \in 1..Len(nch) PROVE nch[k] = Len(nes) + 1 - k
  <2>1. nch[k] = IF k <= 1 THEN one[k] ELSE ch[k - 1]
    BY <1>1, <1>2, <1>3
  <2>2. CASE k = 1
    BY <1>2, <2>1, <2>2
  <2>3. CASE k # 1
    <3>1. k - 1 \in 1..Len(ch) /\ ~(k <= 1)
      BY <1>1, <1>4, <2>3
    <3>2. nch[k] = Len(es) + 1 - (k - 1)
      BY <1>1, <2>1, <3>1
    <3> QED
      BY <1>4, <3>2
  <2> QED
    BY <2>2, <2>3
<1>6. Chained(nes, nch)
  BY <1>3, <1>4, <1>5 DEF Chained
<1> QED
  BY <1>6 DEF nch, one

\* A new arc of f called from g.
PushIs(es, ar, f, g, e, nes, nar) ==
  /\ Recorded(es, ar) /\ f \in Functions /\ g \in Functions
  /\ e \in 0..Len(es) /\ (e # 0 => es[e].self = f) /\ MaxCalls > 0
  /\ nes = Entries(es, Len(ar) + 1, f, e)
  /\ nar = Append(ar, [from |-> g, count |-> 1])

LEMMA PushedArc ==
  ASSUME NEW es, NEW ar, NEW f, NEW g, NEW e, NEW nes, NEW nar,
         PushIs(es, ar, f, g, e, nes, nar)
  PROVE  /\ Recorded(nes, nar)
         /\ Len(nes) = IF e = 0 THEN Len(es) + 1 ELSE Len(es)
         /\ \A d \in 1..Len(es) : nes[d].self = es[d].self
         /\ Len(nar) = Len(ar) + 1 /\ \A b \in 1..Len(ar) : nar[b] = ar[b]
         /\ \A b, h : Owner(es, b, h) => Owner(nes, b, h)
         /\ Grown(es, ar, nes, nar, f, g)
<1> DEFINE n == Len(ar)
           A == [from : Functions, count : 1..MaxCalls]
           new == [from |-> g, count |-> 1]
<1> USE DEF PushIs
<1>1. /\ n \in Nat /\ Len(es) \in Nat
      /\ ar \in Seq(A) /\ es \in Seq([self : Functions, arcs : Seq(1..n)])
  BY RecordTypes DEF Recorded
<1>2. /\ nes \in Seq([self : Functions, arcs : Seq(1..n + 1)])
      /\ Len(nes) = IF e = 0 THEN Len(es) + 1 ELSE Len(es)
      /\ \A d \in 1..Len(es) : nes[d].self = es[d].self
      /\ \A b, h : Owner(nes, b, h) <=> Owner(es, b, h) \/ (b = n + 1 /\ h = f)
  <2> HIDE DEF n
  <2>1. Extended(es, n, f, e, Entries(es, n + 1, f, e))
    BY <1>1, EntriesOf
  <2>2. Extended(es, n, f, e, nes)
    BY <2>1 DEF n
  <2> QED
    BY <2>2 DEF Extended
<1>3. new \in A /\ new.from = g /\ new.count = 1
  BY MaxCallsNat
<1>4. /\ nar \in Seq(A) /\ Len(nar) = n + 1
      /\ \A b \in 1..n : nar[b] = ar[b]
      /\ nar[n + 1] = new
  <2> HIDE DEF new, A
  <2> QED
    BY <1>1, <1>3, AppendProperties DEF new
<1> HIDE DEF new
<1>5. \A b \in 1..n + 1 : b \in 1..n \/ (b = n + 1 /\ b \notin 1..n)
  BY <1>1
<1>6. \A h : ~Owner(es, n + 1, h)
  <2>1. \A d \in 1..Len(es) : \A j \in 1..Len(es[d].arcs) : es[d].arcs[j] \in 1..n
    BY RecordTypes
  <2>2. n + 1 \notin 1..n
    BY <1>1
  <2> QED
    BY <2>1, <2>2 DEF Owner, Listed
<1>7. Recorded(nes, nar)
  <2>1. /\ \A b \in 1..n : \E h \in Functions : Owner(es, b, h)
        /\ \A b \in 1..n : \A h, k \in Functions : Owner(es, b, h) /\ Owner(es, b, k) => h = k
    BY DEF Recorded
  <2>2. \A b \in 1..n + 1 : \E h \in Functions : Owner(nes, b, h)
    BY <1>2, <1>5, <2>1
  <2>3. ASSUME NEW b \in 1..n + 1, NEW h \in Functions, NEW k \in Functions,
               Owner(nes, b, h), Owner(nes, b, k)
        PROVE  h = k
    <3>1. CASE b \in 1..n
      <4>1. b # n + 1
        BY <1>5, <3>1
      <4>2. Owner(es, b, h) /\ Owner(es, b, k)
        BY <1>2, <2>3, <4>1
      <4> QED
        BY <2>1, <3>1, <4>2
    <3>2. CASE b = n + 1
      <4>1. Owner(nes, n + 1, h) /\ Owner(nes, n + 1, k)
        BY <2>3, <3>2
      <4>2. h = f /\ k = f
        BY <1>2, <1>6, <4>1
      <4> QED
        BY <4>2
    <3> QED
      BY <1>5, <3>1, <3>2
  <2> QED
    BY <1>2, <1>4, <2>2, <2>3 DEF Recorded
<1>8. ASSUME NEW p, NEW x \in Counts(nes, nar, p)
      PROVE  \/ x \in Counts(es, ar, p)
             \/ x = <<n + 1, 1>> /\ p.self = f /\ p.from = g
  <2>1. /\ x \in (1..n + 1) \X (1..MaxCalls) /\ x[1] \in 1..n + 1 /\ x[2] \in 1..MaxCalls
        /\ Owner(nes, x[1], p.self) /\ nar[x[1]].from = p.from
        /\ x[2] <= nar[x[1]].count /\ x = <<x[1], x[2]>>
    BY <1>4 DEF Counts
  <2>2. CASE x[1] \in 1..n
    <3>1. Owner(es, x[1], p.self)
      BY <1>2, <1>5, <2>1, <2>2
    <3>2. x \in (1..n) \X (1..MaxCalls)
      BY <2>1, <2>2
    <3> QED
      BY <1>4, <2>1, <2>2, <3>1, <3>2 DEF Counts
  <2>3. CASE x[1] = n + 1
    <3>1. p.self = f
      BY <1>2, <1>6, <2>1, <2>3
    <3>2. p.from = g /\ x[2] <= 1
      BY <1>3, <1>4, <2>1, <2>3
    <3>3. x[2] = 1
      BY <2>1, <3>2, MaxCallsNat
    <3> QED
      BY <2>1, <2>3, <3>1, <3>2, <3>3
  <2> QED
    BY <1>5, <2>1, <2>2, <2>3
<1>9. ASSUME NEW p \in Profile!Pairs
      PROVE  Cardinality(Counts(nes, nar, p)) <=
               Cardinality(Counts(es, ar, p)) + (IF p.self = f /\ p.from = g THEN 1 ELSE 0)
  <2>1. Len(nar) \in Nat
    BY <1>1, <1>4
  <2>2. CASE p.self = f /\ p.from = g
    <3>1. Counts(nes, nar, p) \subseteq Counts(es, ar, p) \cup {<<n + 1, 1>>}
      BY <1>8
    <3>2. Cardinality(Counts(nes, nar, p)) <= Cardinality(Counts(es, ar, p)) + 1
      BY <1>1, <2>1, <3>1, GrowsBy
    <3> QED
      BY <2>2, <3>2
  <2>3. CASE ~(p.self = f /\ p.from = g)
    <3>1. Counts(nes, nar, p) \subseteq Counts(es, ar, p)
      BY <1>8, <2>3
    <3>2. Cardinality(Counts(nes, nar, p)) <= Cardinality(Counts(es, ar, p)) + 0
      BY <1>1, <2>1, <3>1, GrowsNot
    <3> QED
      BY <2>3, <3>2
  <2> QED
    BY <2>2, <2>3
<1>10. ASSUME NEW p, Known(es, ar, p) \/ (p.self = f /\ p.from = g) PROVE Known(nes, nar, p)
  <2>1. CASE Known(es, ar, p)
    <3>1. PICK b \in 1..n : Owner(es, b, p.self) /\ ar[b].from = p.from
      BY <2>1 DEF Known
    <3>2. b \in 1..n + 1 /\ Owner(nes, b, p.self) /\ nar[b].from = p.from
      BY <1>1, <1>2, <1>4, <3>1
    <3> QED
      BY <1>4, <3>2 DEF Known
  <2>2. CASE p.self = f /\ p.from = g
    <3>1. n + 1 \in 1..n + 1 /\ Owner(nes, n + 1, p.self) /\ nar[n + 1].from = p.from
      BY <1>1, <1>2, <1>3, <1>4, <2>2
    <3> QED
      BY <1>4, <3>1 DEF Known
  <2> QED
    BY <1>10, <2>1, <2>2
<1>11. Grown(es, ar, nes, nar, f, g)
  BY <1>9, <1>10 DEF Grown
<1> QED
  BY <1>2, <1>4, <1>7, <1>11

\* The thread that runs is the routine, or the program has no routine to wait for.
LEMMA Others ==
  ASSUME ProfileOK, NEW t \in Profile!Threads, Profile!Running(t), at[t] # "idle",
         NEW u \in Profile!Threads, u # t, at[u] # "idle"
  PROVE  t = "isr" /\ u = "program" /\ at[u] # "push"
<1>1. t = "isr" /\ u = "program"
  BY TheThreads DEF Profile!Running
<1> QED
  BY <1>1 DEF ProfileOK, Alone

LEMMA AloneLeaves ==
  ASSUME ProfileOK, NEW t \in Profile!Threads, Profile!Running(t), at[t] # "idle",
         at' = [at EXCEPT ![t] = "idle"],
         mcount_irq_off' = (IF t = "isr" \/ at[t] # "push" THEN mcount_irq_off ELSE FALSE)
  PROVE  Alone'
<1>1. at \in [Profile!Threads -> Profile!Places]
  BY DEF ProfileOK, Threading
<1>2. /\ mcount_irq_off <=> at["program"] = "push"
      /\ at["program"] = "push" => at["isr"] = "idle"
  BY DEF ProfileOK, Alone
<1>3. CASE t = "program"
  <2>1. at'["program"] = "idle" /\ at'["isr"] = at["isr"] /\ at["isr"] = "idle"
    BY <1>1, <1>3, TheThreads DEF Profile!Running
  <2>2. ~mcount_irq_off'
    BY <1>2, <1>3, TheThreads
  <2> QED
    BY <2>1, <2>2 DEF Alone
<1>4. CASE t = "isr"
  <2>1. at'["program"] = at["program"] /\ at'["isr"] = "idle"
    BY <1>1, <1>4, TheThreads
  <2>2. at["program"] # "push"
    BY <1>2, <1>4
  <2>3. ~mcount_irq_off'
    BY <1>2, <1>4, <2>2
  <2> QED
    BY <2>1, <2>2, <2>3 DEF Alone
<1> QED
  BY <1>3, <1>4, TheThreads

LEMMA OneIs ==
  ASSUME NEW w, NEW r, NEW p
  PROVE  /\ One(w, r, p) \in {0, 1}
         /\ w = "idle" => One(w, r, p) = 0
         /\ w # "idle" => One(w, r, p) = IF p.self = r.self /\ p.from = r.from THEN 1 ELSE 0
  BY DEF One

\* The threads in mcount for p, when only t has moved.
Alike(a, r, b, s, t) == \A u \in Profile!Threads : u # t => b[u] = a[u] /\ s[u] = r[u]

LEMMA OpenBut ==
  ASSUME NEW t \in Profile!Threads, NEW a, NEW r, NEW b, NEW s, Alike(a, r, b, s, t), NEW p
  PROVE  /\ Open(a, r, p) \in 0..2 /\ Open(b, s, p) \in 0..2
         /\ Open(a, r, p) >= One(a[t], r[t], p)
         /\ Open(b, s, p) = Open(a, r, p) - One(a[t], r[t], p) + One(b[t], s[t], p)
<1>1. /\ One(a["program"], r["program"], p) \in {0, 1} /\ One(a["isr"], r["isr"], p) \in {0, 1}
      /\ One(b["program"], s["program"], p) \in {0, 1} /\ One(b["isr"], s["isr"], p) \in {0, 1}
  BY OneIs
<1>2. CASE t = "program"
  <2>1. One(b["isr"], s["isr"], p) = One(a["isr"], r["isr"], p)
    BY <1>2, TheThreads DEF Alike
  <2> QED
    BY <1>1, <1>2, <2>1 DEF Open
<1>3. CASE t = "isr"
  <2>1. One(b["program"], s["program"], p) = One(a["program"], r["program"], p)
    BY <1>3, TheThreads DEF Alike
  <2> QED
    BY <1>1, <1>3, <2>1 DEF Open
<1> QED
  BY <1>2, <1>3, TheThreads

\* What leaving mcount takes: the call is no longer open, and it is counted.
LEMMA LeaveKeeps ==
  ASSUME ProfileOK, NEW t \in Profile!Threads, at[t] # "idle",
         at' = [at EXCEPT ![t] = "idle"], regs' = [regs EXCEPT ![t] = Profile!NoRegs],
         calls' = calls, made' = made,
         Recorded(entries', arcs'), Chained(entries', chain'),
         \A u \in Profile!Threads : u # t => Knows(at[u], regs[u], entries', arcs', chain'),
         Grown(entries, arcs, entries', arcs', regs[t].self, regs[t].from),
         Alone', Scalars'
  PROVE  ProfileOK'
<1>1. Profile!NoRegs \in Registers
  BY DEF Profile!NoRegs, Profile!None, Registers
<1>2. /\ Threading' /\ at'[t] = "idle" /\ regs'[t] = Profile!NoRegs
      /\ \A u \in Profile!Threads : u # t => at'[u] = at[u] /\ regs'[u] = regs[u]
  <2>1. Moves(t, "idle", Profile!NoRegs)
    BY <1>1 DEF ProfileOK, Profile!Places, Moves
  <2> QED
    BY <2>1, Moved
<1>3. \A u \in Profile!Threads : Knows(at'[u], regs'[u], entries', arcs', chain')
  BY <1>2 DEF Knows
<1>4. ASSUME NEW p \in Profile!Pairs
      PROVE  CountOK(entries', arcs', Open(at', regs', p), calls[p], p)
  <2> DEFINE m == Open(at, regs, p)
             n == Open(at', regs', p)
             k == IF p.self = regs[t].self /\ p.from = regs[t].from THEN 1 ELSE 0
             C == Cardinality(Counts(entries, arcs, p))
             D == Cardinality(Counts(entries', arcs', p))
  <2>1. m \in 0..2 /\ n \in 0..2 /\ n = m - k /\ m >= k /\ k \in {0, 1}
    <3>1. Alike(at, regs, at', regs', t)
      BY <1>2 DEF Alike
    <3>2. /\ Open(at, regs, p) \in 0..2 /\ Open(at', regs', p) \in 0..2
          /\ Open(at, regs, p) >= One(at[t], regs[t], p)
          /\ Open(at', regs', p) =
               Open(at, regs, p) - One(at[t], regs[t], p) + One(at'[t], regs'[t], p)
      <4>1. \A b, s : Alike(at, regs, b, s, t) =>
              /\ Open(at, regs, p) \in 0..2 /\ Open(b, s, p) \in 0..2
              /\ Open(at, regs, p) >= One(at[t], regs[t], p)
              /\ Open(b, s, p) = Open(at, regs, p) - One(at[t], regs[t], p) + One(b[t], s[t], p)
        BY OpenBut
      <4> QED
        BY <3>1, <4>1
    <3>3. One(at'[t], regs'[t], p) = 0 /\ One(at[t], regs[t], p) = k
      BY <1>2, OneIs
    <3> QED
      BY <3>2, <3>3
  <2>2. C \in Nat /\ D \in Nat
    BY RecordTypes, CountsFinite DEF ProfileOK
  <2>3. calls[p] \in Nat /\ C + m <= calls[p] /\ (calls[p] > 0 => Known(entries, arcs, p) \/ m > 0)
    BY DEF ProfileOK, CountOK
  <2>4. D <= C + k
    BY DEF Grown
  <2>5. Known(entries, arcs, p) \/ k = 1 => Known(entries', arcs', p)
    BY DEF Grown
  <2> HIDE DEF m, n, k, C, D
  <2>6. D + n <= calls[p]
    BY <2>1, <2>2, <2>3, <2>4
  <2>7. calls[p] > 0 => Known(entries', arcs', p) \/ n > 0
    <3>1. m > 0 => k = 1 \/ n > 0
      BY <2>1
    <3> QED
      BY <2>3, <2>5, <3>1
  <2> QED
    BY <2>6, <2>7 DEF CountOK, D, n
<1>5. calls \in [Profile!Pairs -> Nat] /\ \A p \in Profile!Pairs : calls[p] <= made
  BY DEF ProfileOK
<1> QED
  BY <1>2, <1>3, <1>4, <1>5 DEF ProfileOK

\* A call that is open has not been counted, so that there is room for it.
LEMMA RoomFor ==
  ASSUME ProfileOK, NEW t \in Profile!Threads, at[t] # "idle"
  PROVE  /\ MaxCalls > 0
         /\ at[t] = "store" => regs[t].count + 1 <= MaxCalls
<1> DEFINE p == [self |-> regs[t].self, from |-> regs[t].from]
           C == Cardinality(Counts(entries, arcs, p))
<1>1. Knows(at[t], regs[t], entries, arcs, chain)
  BY DEF ProfileOK
<1>2. p \in Profile!Pairs /\ p.self = regs[t].self /\ p.from = regs[t].from
  BY <1>1 DEF Knows, Profile!Pairs
<1> HIDE DEF p
<1>3. Open(at, regs, p) \in 0..2 /\ Open(at, regs, p) >= 1
  <2>1. Open(at, regs, p) \in 0..2 /\ Open(at, regs, p) >= One(at[t], regs[t], p)
    <3>1. Alike(at, regs, at, regs, t)
      BY DEF Alike
    <3> QED
      BY <3>1, OpenBut
  <2>2. One(at[t], regs[t], p) = 1
    BY <1>2, OneIs
  <2> QED
    BY <2>1, <2>2
<1>4. C \in Nat
  BY RecordTypes, CountsFinite DEF ProfileOK
<1>5. C + Open(at, regs, p) <= calls[p] /\ calls[p] \in Nat /\ calls[p] <= made
  BY <1>2 DEF ProfileOK, CountOK
<1>6. made \in Nat /\ made <= MaxCalls /\ MaxCalls \in Nat
  BY MaxCallsNat DEF ProfileOK, Scalars
<1>7. at[t] = "store" => regs[t].count \in Nat /\ regs[t].count <= C
  <2> SUFFICES ASSUME at[t] = "store" PROVE regs[t].count \in Nat /\ regs[t].count <= C
    OBVIOUS
  <2>1. /\ regs[t].arc \in 1..Len(arcs) /\ Owner(entries, regs[t].arc, p.self)
        /\ arcs[regs[t].arc].from = p.from /\ regs[t].count \in Nat
        /\ regs[t].count <= arcs[regs[t].arc].count
    BY <1>1, <1>2 DEF Knows
  <2>2. arcs[regs[t].arc].count <= C
    BY <2>1, CountBelow DEF ProfileOK
  <2>3. arcs[regs[t].arc].count \in 1..MaxCalls
    BY <2>1, RecordTypes DEF ProfileOK
  <2> HIDE DEF C
  <2> QED
    BY <1>4, <1>6, <2>1, <2>2, <2>3
<1> HIDE DEF C
<1>8. C + 1 <= MaxCalls
  BY <1>3, <1>4, <1>5, <1>6
<1> QED
  BY <1>4, <1>6, <1>7, <1>8

LEMMA StoreKeeps ==
  ASSUME ProfileOK, NEW t \in Profile!Threads, Profile!Store(t)
  PROVE  ProfileOK'
<1> DEFINE a == regs[t].arc
           c == regs[t].count
<1>1. /\ Profile!Running(t) /\ at[t] = "store" /\ at' = [at EXCEPT ![t] = "idle"]
      /\ regs' = [regs EXCEPT ![t] = Profile!NoRegs]
      /\ arcs' = [arcs EXCEPT ![a].count = c + 1]
      /\ entries' = entries /\ chain' = chain /\ calls' = calls /\ made' = made
      /\ pcsample_need_init' = pcsample_need_init /\ tick_rate' = tick_rate
      /\ started' = started /\ mcount_irq_off' = mcount_irq_off
  BY DEF Profile!Store, Profile!Goes, Profile!sampler
<1>2. /\ regs[t].self \in Functions /\ a \in 1..Len(arcs)
      /\ Owner(entries, a, regs[t].self) /\ arcs[a].from = regs[t].from
      /\ c \in Nat /\ c <= arcs[a].count
  BY <1>1 DEF ProfileOK, Knows
<1>3. c + 1 <= MaxCalls
  BY <1>1, RoomFor
<1>4. Recorded(entries, arcs) /\ Chained(entries, chain)
  BY DEF ProfileOK
<1>5. /\ Recorded(entries, arcs') /\ Len(arcs') = Len(arcs)
      /\ \A b \in 1..Len(arcs) : /\ arcs'[b].from = arcs[b].from
                                 /\ b # a => arcs'[b].count = arcs[b].count
      /\ arcs'[a].count = c + 1
      /\ Grown(entries, arcs, entries, arcs', regs[t].self, arcs[a].from)
  <2> HIDE DEF a, c
  <2>1. StoreIs(entries, arcs, a, regs[t].self, c, arcs')
    BY <1>1, <1>2, <1>3, <1>4 DEF StoreIs
  <2> QED
    BY <2>1, StoredArc
<1>6. Alone'
  BY <1>1, AloneLeaves
<1>7. ASSUME NEW u \in Profile!Threads, u # t
      PROVE  Knows(at[u], regs[u], entries', arcs', chain')
  <2>1. CASE at[u] = "idle"
    BY <2>1 DEF Knows
  <2>2. CASE at[u] # "idle"
    <3>1. t = "isr" /\ u = "program" /\ at[u] # "push"
      BY <1>1, <1>7, <2>2, Others
    <3>2. c = arcs[a].count
      BY <1>1, <3>1 DEF ProfileOK, Alone
    <3>3. Knows(at[u], regs[u], entries, arcs, chain)
      BY DEF ProfileOK
    <3>4. at[u] = "store" => /\ regs[u].arc \in 1..Len(arcs)
                             /\ regs[u].count \in Nat
                             /\ regs[u].count <= arcs[regs[u].arc].count
      BY <3>3 DEF Knows
    <3> HIDE DEF a, c
    <3>5. at[u] = "store" => regs[u].count <= arcs'[regs[u].arc].count
      BY <1>2, <1>5, <3>2, <3>4
    <3> QED
      BY <1>1, <1>5, <3>1, <3>3, <3>5 DEF Knows
  <2> QED
    BY <2>1, <2>2
<1>8. Scalars'
  BY <1>1 DEF ProfileOK, Scalars
<1> HIDE DEF a, c
<1>9. /\ Recorded(entries', arcs') /\ Chained(entries', chain')
      /\ Grown(entries, arcs, entries', arcs', regs[t].self, regs[t].from)
  BY <1>1, <1>2, <1>4, <1>5
<1> QED
  BY <1>1, <1>6, <1>7, <1>8, <1>9, LeaveKeeps

LEMMA PushKeeps ==
  ASSUME ProfileOK, NEW t \in Profile!Threads, Profile!Push(t)
  PROVE  ProfileOK'
<1> DEFINE e == regs[t].entry
           f == regs[t].self
           g == regs[t].from
<1>1. /\ Profile!Running(t) /\ at[t] = "push" /\ at' = [at EXCEPT ![t] = "idle"]
      /\ regs' = [regs EXCEPT ![t] = Profile!NoRegs]
      /\ arcs' = Append(arcs, [from |-> g, count |-> 1])
      /\ entries' = Entries(entries, Len(arcs) + 1, f, e)
      /\ chain' = IF e = 0 THEN <<Len(entries) + 1>> \o regs[t].head ELSE chain
      /\ calls' = calls /\ made' = made
      /\ pcsample_need_init' = pcsample_need_init /\ tick_rate' = tick_rate
      /\ started' = started
      /\ mcount_irq_off' = (IF t = "isr" THEN mcount_irq_off ELSE FALSE)
  BY DEF Profile!Push, Profile!Goes, Profile!sampler, Profile!None, Profile!Fresh, Entries
<1>2. /\ f \in Functions /\ g \in Functions /\ e \in 0..Len(entries)
      /\ e # 0 => entries[e].self = f
      /\ regs[t].head = chain
  BY <1>1 DEF ProfileOK, Knows
<1>3. MaxCalls > 0
  BY <1>1, RoomFor
<1>4. Recorded(entries, arcs) /\ Chained(entries, chain) /\ Len(entries) \in Nat
  BY RecordTypes DEF ProfileOK
<1>5. /\ Recorded(entries', arcs')
      /\ Len(entries') = IF e = 0 THEN Len(entries) + 1 ELSE Len(entries)
      /\ \A d \in 1..Len(entries) : entries'[d].self = entries[d].self
      /\ Len(arcs') = Len(arcs) + 1 /\ \A b \in 1..Len(arcs) : arcs'[b] = arcs[b]
      /\ \A b, h : Owner(entries, b, h) => Owner(entries', b, h)
      /\ Grown(entries, arcs, entries', arcs', f, g)
  <2> HIDE DEF e, f, g
  <2>1. PushIs(entries, arcs, f, g, e, entries', arcs')
    BY <1>1, <1>2, <1>3, <1>4 DEF PushIs
  <2> QED
    BY <2>1, PushedArc
<1>6. Chained(entries', chain')
  <2>1. CASE e = 0
    <3>1. chain' = <<Len(entries) + 1>> \o chain /\ Len(entries') = Len(entries) + 1
      BY <1>1, <1>2, <1>5, <2>1
    <3> QED
      BY <1>4, <3>1, ChainGrows
  <2>2. CASE e # 0
    BY <1>1, <1>4, <1>5, <2>2 DEF Chained
  <2> QED
    BY <2>1, <2>2
<1>7. Alone'
  BY <1>1, AloneLeaves
<1>8. ASSUME NEW u \in Profile!Threads, u # t
      PROVE  Knows(at[u], regs[u], entries', arcs', chain')
  <2>1. CASE at[u] = "idle"
    BY <2>1 DEF Knows
  <2>2. CASE at[u] # "idle"
    <3>1. at[u] # "push"
      BY <1>1, <1>8, <2>2, Others
    <3>2. Knows(at[u], regs[u], entries, arcs, chain)
      BY DEF ProfileOK
    <3>3. /\ regs[u].self \in Functions /\ regs[u].from \in Functions
          /\ regs[u].entry \in 0..Len(entries)
          /\ regs[u].entry # 0 => entries[regs[u].entry].self = regs[u].self
          /\ at[u] = "arc" => regs[u].entry # 0
          /\ at[u] = "store" => /\ regs[u].arc \in 1..Len(arcs)
                                /\ Owner(entries, regs[u].arc, regs[u].self)
                                /\ arcs[regs[u].arc].from = regs[u].from
                                /\ regs[u].count \in Nat
                                /\ regs[u].count <= arcs[regs[u].arc].count
      BY <2>2, <3>2 DEF Knows
    <3>4. Len(arcs) \in Nat /\ (Len(entries') = Len(entries) \/ Len(entries') = Len(entries) + 1)
      BY <1>4, <1>5, RecordTypes
    <3>5. /\ regs[u].entry \in 0..Len(entries')
          /\ regs[u].entry # 0 => entries'[regs[u].entry].self = regs[u].self
      <4>1. regs[u].entry \in 0..Len(entries')
        BY <1>4, <3>3, <3>4
      <4>2. regs[u].entry # 0 => regs[u].entry \in 1..Len(entries)
        BY <1>4, <3>3
      <4> QED
        BY <1>5, <3>3, <4>1, <4>2
    <3>6. at[u] = "store" => /\ regs[u].arc \in 1..Len(arcs')
                             /\ Owner(entries', regs[u].arc, regs[u].self)
                             /\ arcs'[regs[u].arc] = arcs[regs[u].arc]
      BY <1>5, <3>3, <3>4
    <3> HIDE DEF e, f, g
    <3> QED
      BY <3>1, <3>3, <3>5, <3>6 DEF Knows
  <2> QED
    BY <2>1, <2>2
<1>9. Scalars'
  BY <1>1 DEF ProfileOK, Scalars
<1> QED
  BY <1>1, <1>5, <1>6, <1>7, <1>8, <1>9, LeaveKeeps

LEMMA McountKeeps ==
  ASSUME ProfileOK, NEW t \in Profile!Threads, NEW f \in Functions, NEW g \in Functions,
         Profile!Mcount(t, f, g)
  PROVE  ProfileOK'
<1> DEFINE r == [Profile!NoRegs EXCEPT !.self = f, !.from = g]
           q == [self |-> f, from |-> g]
<1>1. /\ Profile!Running(t) /\ at[t] = "idle" /\ at' = [at EXCEPT ![t] = "entry"]
      /\ regs' = [regs EXCEPT ![t] = r] /\ calls' = [calls EXCEPT ![q] = @ + 1]
      /\ made < MaxCalls /\ made' = made + 1 /\ (t = "isr" => ~mcount_irq_off)
      /\ entries' = entries /\ chain' = chain /\ arcs' = arcs
      /\ pcsample_need_init' = pcsample_need_init /\ tick_rate' = tick_rate
      /\ started' = started /\ mcount_irq_off' = mcount_irq_off
  BY DEF Profile!Mcount, Profile!Goes, Profile!data, Profile!sampler
<1>2. /\ r \in Registers /\ r.self = f /\ r.from = g /\ r.entry = 0
  <2>1. Profile!NoRegs \in Registers /\ Profile!NoRegs.entry = 0
    BY DEF Profile!NoRegs, Profile!None, Registers
  <2>2. \A x \in Registers : LET y == [x EXCEPT !.self = f, !.from = g]
                            IN y \in Registers /\ y.self = f /\ y.from = g /\ y.entry = x.entry
    BY DEF Registers
  <2> QED
    BY <2>1, <2>2
<1>3. q \in Profile!Pairs /\ q.self = f /\ q.from = g
  BY DEF Profile!Pairs
<1> HIDE DEF r, q
<1>4. /\ Threading' /\ at'[t] = "entry" /\ regs'[t] = r
      /\ \A u \in Profile!Threads : u # t => at'[u] = at[u] /\ regs'[u] = regs[u]
  <2>1. Moves(t, "entry", r)
    BY <1>1, <1>2 DEF ProfileOK, Profile!Places, Moves
  <2> QED
    BY <2>1, Moved
<1>5. Recorded(entries, arcs) /\ Chained(entries, chain) /\ Len(entries) \in Nat
  BY RecordTypes DEF ProfileOK
<1>6. \A u \in Profile!Threads : Knows(at'[u], regs'[u], entries, arcs, chain)
  <2>1. Knows("entry", r, entries, arcs, chain)
    BY <1>2, <1>5 DEF Knows
  <2> QED
    BY <1>4, <2>1 DEF ProfileOK
<1>7. Alone'
  <2>1. /\ mcount_irq_off <=> at["program"] = "push"
        /\ at["program"] = "push" => at["isr"] = "idle"
        /\ at["isr"] = "store" => regs["isr"].count = arcs[regs["isr"].arc].count
    BY DEF ProfileOK, Alone
  <2>2. CASE t = "program"
    <3>1. at'["program"] = "entry" /\ at'["isr"] = at["isr"] /\ regs'["isr"] = regs["isr"]
      BY <1>4, <2>2, TheThreads
    <3>2. at["program"] # "push"
      BY <1>1, <2>2
    <3> QED
      BY <1>1, <2>1, <3>1, <3>2 DEF Alone
  <2>3. CASE t = "isr"
    <3>1. at'["program"] = at["program"] /\ at'["isr"] = "entry"
      BY <1>4, <2>3, TheThreads
    <3>2. at["program"] # "push"
      BY <1>1, <2>1, <2>3
    <3> QED
      BY <1>1, <2>1, <3>1, <3>2 DEF Alone
  <2> QED
    BY <2>2, <2>3, TheThreads
<1>8. Scalars' /\ made \in Nat
  BY <1>1, MaxCallsNat DEF ProfileOK, Scalars
<1>9. /\ calls \in [Profile!Pairs -> Nat] /\ \A p \in Profile!Pairs : calls[p] <= made
  BY DEF ProfileOK
<1>10. \A p \in Profile!Pairs : calls'[p] = calls[p] + (IF p = q THEN 1 ELSE 0)
  BY <1>1, <1>3, <1>9
<1>11. calls' \in [Profile!Pairs -> Nat]
  BY <1>1, <1>3, <1>9
<1>12. \A p \in Profile!Pairs : calls'[p] <= made'
  BY <1>1, <1>8, <1>9, <1>10
<1>13. ASSUME NEW p \in Profile!Pairs
       PROVE  CountOK(entries, arcs, Open(at', regs', p), calls'[p], p)
  <2> DEFINE m == Open(at, regs, p)
             n == Open(at', regs', p)
             k == IF p = q THEN 1 ELSE 0
             C == Cardinality(Counts(entries, arcs, p))
  <2>1. m \in 0..2 /\ n \in 0..2 /\ n = m + k /\ k \in {0, 1}
    <3>1. Alike(at, regs, at', regs', t)
      BY <1>4 DEF Alike
    <3>2. /\ Open(at, regs, p) \in 0..2 /\ Open(at', regs', p) \in 0..2
          /\ Open(at, regs, p) >= One(at[t], regs[t], p)
          /\ Open(at', regs', p) =
               Open(at, regs, p) - One(at[t], regs[t], p) + One(at'[t], regs'[t], p)
      BY <3>1, OpenBut
    <3>3. p = q <=> p.self = f /\ p.from = g
      BY DEF q, Profile!Pairs
    <3>4. One(at[t], regs[t], p) = 0 /\ One(at'[t], regs'[t], p) = k
      BY <1>1, <1>2, <1>4, <3>3, OneIs
    <3> QED
      BY <3>2, <3>4
  <2>2. C \in Nat
    BY <1>5, RecordTypes, CountsFinite
  <2>3. calls[p] \in Nat /\ C + m <= calls[p] /\ (calls[p] > 0 => Known(entries, arcs, p) \/ m > 0)
    BY DEF ProfileOK, CountOK
  <2>4. calls'[p] = calls[p] + k
    BY <1>10
  <2> HIDE DEF m, n, k, C
  <2>5. C + n <= calls'[p]
    BY <2>1, <2>2, <2>3, <2>4
  <2>6. calls'[p] > 0 => Known(entries, arcs, p) \/ n > 0
    <3>1. calls'[p] > 0 => calls[p] > 0 \/ n > 0
      BY <2>1, <2>3, <2>4
    <3>2. m > 0 => n > 0
      BY <2>1
    <3> QED
      BY <2>3, <3>1, <3>2
  <2> QED
    BY <2>5, <2>6 DEF CountOK, C, n
<1> QED
  BY <1>1, <1>4, <1>5, <1>6, <1>7, <1>8, <1>11, <1>12, <1>13 DEF ProfileOK

LEMMA ProfileStarts ==
  ASSUME Profile!Init
  PROVE  ProfileOK
<1>1. /\ entries = <<>> /\ chain = <<>> /\ arcs = <<>>
      /\ pcsample_need_init = 1 /\ tick_rate = 0 /\ started = 0 /\ mcount_irq_off = FALSE
      /\ at = [t \in Profile!Threads |-> "idle"]
      /\ regs = [t \in Profile!Threads |-> Profile!NoRegs]
      /\ calls = [p \in Profile!Pairs |-> 0] /\ made = 0
  BY DEF Profile!Init
<1>2. Scalars
  <2>1. mcount_irq_off \in BOOLEAN
    BY <1>1
  <2>2. made \in 0..MaxCalls
    BY <1>1, MaxCallsNat
  <2> QED
    BY <1>1, <2>1, <2>2 DEF Scalars
<1>3. \A t \in Profile!Threads : at[t] = "idle"
  BY <1>1
<1>4. Threading
  <2>1. Profile!NoRegs \in Registers
    BY DEF Profile!NoRegs, Profile!None, Registers
  <2>2. "idle" \in Profile!Places
    BY DEF Profile!Places
  <2> QED
    BY <1>1, <2>1, <2>2 DEF Threading
<1>5. Alone
  BY <1>1, <1>3, TheThreads DEF Alone
<1>6. Recorded(entries, arcs)
  <2>1. <<>> \in Seq([from : Functions, count : 1..MaxCalls]) /\ Len(<<>>) = 0
    OBVIOUS
  <2>2. <<>> \in Seq([self : Functions, arcs : Seq(1..0)])
    OBVIOUS
  <2>3. 1..0 = {}
    OBVIOUS
  <2> QED
    BY <1>1, <2>1, <2>2, <2>3 DEF Recorded
<1>7. Chained(entries, chain)
  BY <1>1 DEF Chained
<1>8. \A t \in Profile!Threads : Knows(at[t], regs[t], entries, arcs, chain)
  BY <1>3 DEF Knows
<1>9. calls \in [Profile!Pairs -> Nat] /\ \A p \in Profile!Pairs : calls[p] <= made
  BY <1>1
<1>10. ASSUME NEW p \in Profile!Pairs
       PROVE  CountOK(entries, arcs, Open(at, regs, p), calls[p], p)
  <2>1. Open(at, regs, p) = 0
    BY <1>3, OneIs, TheThreads DEF Open
  <2>2. Counts(entries, arcs, p) = {}
    BY <1>1 DEF Counts
  <2>3. Cardinality({}) = 0
    BY FS_EmptySet
  <2>4. calls[p] = 0
    BY <1>1
  <2> QED
    BY <2>1, <2>2, <2>3, <2>4 DEF CountOK
<1> QED
  BY <1>2, <1>4, <1>5, <1>6, <1>7, <1>8, <1>9, <1>10 DEF ProfileOK

LEMMA ProfileInvariant == LibrarySpec => []ProfileInv
<1>1. LibraryInit => ProfileInv
  BY ProfileStarts DEF LibraryInit, ProfileInv
<1>2. ProfileInv /\ [LibraryNext]_library => ProfileInv'
  <2> SUFFICES ASSUME ProfileInv, [LibraryNext]_library, part' = "records" PROVE ProfileOK'
    BY DEF ProfileInv
  <2>1. part = "records" /\ (Profile!Next \/ UNCHANGED records)
    BY DEF LibraryNext, library
  <2>2. ProfileOK
    BY <2>1 DEF ProfileInv
  <2>3. CASE Profile!SysclkInit
    BY <2>2, <2>3, ClockKeeps
  <2>4. ASSUME NEW t \in Profile!Threads, Profile!InMcount(t) PROVE ProfileOK'
    BY <2>2, <2>4, FindEntryKeeps, FindArcKeeps, StoreKeeps, SamplesKeep, LinkKeeps, PushKeeps
       DEF Profile!InMcount
  <2>5. ASSUME NEW t \in Profile!Threads, NEW f \in Functions, NEW g \in Functions,
               Profile!Mcount(t, f, g)
        PROVE  ProfileOK'
    BY <2>2, <2>5, McountKeeps
  <2>6. CASE UNCHANGED records
    <3>1. /\ Scalars' = Scalars /\ Threading' = Threading /\ Alone' = Alone
      BY <2>6 DEF records, Scalars, Threading, Alone
    <3> QED
      BY <2>2, <2>6, <3>1 DEF records, ProfileOK
  <2> QED
    BY <2>1, <2>3, <2>4, <2>5, <2>6 DEF Profile!Next
<1> QED
  BY <1>1, <1>2, PTL DEF LibrarySpec

\* What gmon.out will show.
LEMMA ShownIs ==
  ASSUME ProfileOK, NEW s
  PROVE  s \in Profile!Shown <=>
           \E a \in 1..Len(arcs), f \in Functions :
             Owner(entries, a, f) /\ s = [self |-> f, arc |-> a]
<1>1. s \in Profile!Shown <=>
        \E k \in 1..Len(chain) : \E j \in 1..Len(entries[chain[k]].arcs) :
          s = [self |-> entries[chain[k]].self, arc |-> entries[chain[k]].arcs[j]]
  BY DEF Profile!Shown
<1>2. /\ Len(entries) \in Nat
      /\ \A e \in 1..Len(entries) :
           /\ entries[e].self \in Functions
           /\ \A j \in 1..Len(entries[e].arcs) : entries[e].arcs[j] \in 1..Len(arcs)
  BY RecordTypes DEF ProfileOK
<1>3. /\ \A k \in 1..Len(chain) : chain[k] \in 1..Len(entries)
      /\ \A e \in 1..Len(entries) : \E k \in 1..Len(chain) : chain[k] = e
  BY <1>2, ChainTypes DEF ProfileOK
<1>4. s \in Profile!Shown <=>
        \E e \in 1..Len(entries) : \E j \in 1..Len(entries[e].arcs) :
          s = [self |-> entries[e].self, arc |-> entries[e].arcs[j]]
  BY <1>1, <1>3
<1>5. ASSUME NEW e \in 1..Len(entries), NEW j \in 1..Len(entries[e].arcs),
             s = [self |-> entries[e].self, arc |-> entries[e].arcs[j]]
      PROVE  \E a \in 1..Len(arcs), f \in Functions :
               Owner(entries, a, f) /\ s = [self |-> f, arc |-> a]
  <2>1. Owner(entries, entries[e].arcs[j], entries[e].self)
    BY DEF Owner, Listed
  <2> QED
    BY <1>2, <1>5, <2>1
<1>6. ASSUME NEW a \in 1..Len(arcs), NEW f \in Functions, Owner(entries, a, f),
             s = [self |-> f, arc |-> a]
      PROVE  \E e \in 1..Len(entries) : \E j \in 1..Len(entries[e].arcs) :
               s = [self |-> entries[e].self, arc |-> entries[e].arcs[j]]
  BY <1>6 DEF Owner, Listed
<1> QED
  BY <1>4, <1>5, <1>6

LEMMA NothingIsUnlinked ==
  ASSUME ProfileOK
  PROVE  Profile!NothingUnlinked
<1>1. /\ Recorded(entries, arcs) /\ Len(entries) \in Nat /\ Len(arcs) \in Nat
  BY RecordTypes DEF ProfileOK
<1>2. /\ Len(chain) = Len(entries)
      /\ \A k \in 1..Len(chain) : chain[k] \in 1..Len(entries)
      /\ \A e \in 1..Len(entries) : \E k \in 1..Len(chain) : chain[k] = e
  BY <1>1, ChainTypes DEF ProfileOK
<1>3. {chain[k] : k \in 1..Len(chain)} = 1..Len(entries)
  BY <1>2
<1> DEFINE N == 1..Len(arcs)
           S == Profile!Shown
           own(a) == CHOOSE f \in Functions : Owner(entries, a, f)
           g == [a \in N |-> [self |-> own(a), arc |-> a]]
<1>4. \A a \in N : own(a) \in Functions /\ Owner(entries, a, own(a))
  BY <1>1 DEF Recorded
<1>5. \A a \in N : \A f \in Functions : Owner(entries, a, f) => f = own(a)
  BY <1>1, <1>4 DEF Recorded
<1> HIDE DEF own
<1>6. \A a \in N : g[a].arc = a /\ g[a] = [self |-> own(a), arc |-> a]
  OBVIOUS
<1>7. \A a \in N : g[a] \in S
  BY <1>4, <1>6, ShownIs
<1>8. \A s \in S : \E a \in N : g[a] = s
  <2>1. ASSUME NEW s \in S PROVE \E a \in N : g[a] = s
    <3>1. PICK a \in N, f \in Functions : Owner(entries, a, f) /\ s = [self |-> f, arc |-> a]
      BY ShownIs
    <3> QED
      BY <1>5, <1>6, <3>1
  <2> QED
    BY <2>1
<1>9. g \in [N -> S]
  BY <1>7
<1>10. \A a, b \in N : g[a] = g[b] => a = b
  BY <1>6
<1>11. IsFiniteSet(N) /\ Cardinality(N) = Len(arcs)
  BY <1>1, UpTo
<1> HIDE DEF N, S, g
<1>12. ExistsBijection(N, S)
  <2>1. g \in Injection(N, S)
    BY <1>9, <1>10 DEF Injection, IsInjective
  <2>2. g \in Surjection(N, S)
    BY <1>8, <1>9 DEF Surjection
  <2> QED
    BY <2>1, <2>2 DEF ExistsBijection, Bijection
<1>13. Cardinality(S) = Len(arcs)
  BY <1>11, <1>12, FS_Bijection
<1>14. Profile!Cardinality(Profile!Shown) = Len(arcs)
  BY <1>13, ProfileCardinality DEF S
<1> QED
  BY <1>2, <1>3, <1>14 DEF Profile!NothingUnlinked

LEMMA ArcsKnown ==
  ASSUME ProfileOK
  PROVE  Profile!ArcsAreKnown
<1> SUFFICES ASSUME NEW p \in Profile!Pairs
             PROVE  LET n == {x \in Profile!ArcsOf(p) \X (1..MaxCalls) :
                                x[2] <= arcs[x[1].arc].count}
                    IN /\ Profile!Cardinality(n) <= calls[p]
                       /\ Profile!Quiet /\ calls[p] > 0 => Profile!ArcsOf(p) # {}
  BY DEF Profile!ArcsAreKnown
<1> DEFINE n == {x \in Profile!ArcsOf(p) \X (1..MaxCalls) : x[2] <= arcs[x[1].arc].count}
           C == Counts(entries, arcs, p)
           g == [x \in n |-> <<x[1].arc, x[2]>>]
<1>1. Len(arcs) \in Nat
  BY RecordTypes DEF ProfileOK
<1>2. /\ Cardinality(C) + Open(at, regs, p) <= calls[p]
      /\ calls[p] > 0 => Known(entries, arcs, p) \/ Open(at, regs, p) > 0
      /\ calls[p] \in Nat
  BY DEF ProfileOK, CountOK
<1>3. ASSUME NEW s \in Profile!ArcsOf(p)
      PROVE  /\ s.arc \in 1..Len(arcs) /\ Owner(entries, s.arc, p.self)
             /\ arcs[s.arc].from = p.from /\ s = [self |-> p.self, arc |-> s.arc]
  <2>1. s \in Profile!Shown /\ s.self = p.self /\ arcs[s.arc].from = p.from
    BY DEF Profile!ArcsOf
  <2>2. PICK a \in 1..Len(arcs), f \in Functions :
          Owner(entries, a, f) /\ s = [self |-> f, arc |-> a]
    BY <2>1, ShownIs
  <2> QED
    BY <2>1, <2>2
<1>4. ASSUME NEW x \in n PROVE g[x] \in C /\ g[x] = <<x[1].arc, x[2]>>
  <2>1. x[1] \in Profile!ArcsOf(p) /\ x[2] \in 1..MaxCalls /\ x[2] <= arcs[x[1].arc].count
    OBVIOUS
  <2>2. <<x[1].arc, x[2]>> \in C
    BY <1>3, <2>1 DEF Counts
  <2> QED
    BY <2>2
<1>5. ASSUME NEW x \in n, NEW y \in n, g[x] = g[y] PROVE x = y
  <2>1. x[1].arc = y[1].arc /\ x[2] = y[2]
    BY <1>4, <1>5
  <2>2. x[1] \in Profile!ArcsOf(p) /\ y[1] \in Profile!ArcsOf(p)
    OBVIOUS
  <2>3. x[1] = y[1]
    BY <1>3, <2>1, <2>2
  <2>4. x = <<x[1], x[2]>> /\ y = <<y[1], y[2]>>
    OBVIOUS
  <2> QED
    BY <2>1, <2>3, <2>4
<1>6. g \in [n -> C]
  BY <1>4
<1>7. IsFiniteSet(C) /\ Cardinality(C) \in Nat
  BY <1>1, CountsFinite
<1> HIDE DEF n, C, g
<1>8. g \in Injection(n, C)
  BY <1>5, <1>6 DEF Injection, IsInjective
<1>9. Cardinality(n) <= Cardinality(C) /\ Cardinality(n) \in Nat
  <2>1. IsFiniteSet(n) /\ Cardinality(n) <= Cardinality(C)
    BY <1>7, <1>8, FS_Injection
  <2> QED
    BY <2>1, FS_CardinalityType
<1>10. Alike(at, regs, at, regs, "isr")
  BY DEF Alike
<1>11. Open(at, regs, p) \in 0..2
  BY <1>10, OpenBut, TheThreads
<1>12. Profile!Cardinality(n) <= calls[p]
  <2>1. Cardinality(n) <= calls[p]
    BY <1>2, <1>7, <1>9, <1>11
  <2> QED
    BY <2>1, ProfileCardinality
<1>13. Profile!Quiet => Open(at, regs, p) = 0
  BY OneIs, TheThreads DEF Open, Profile!Quiet
<1>14. Known(entries, arcs, p) => Profile!ArcsOf(p) # {}
  <2> SUFFICES ASSUME Known(entries, arcs, p) PROVE Profile!ArcsOf(p) # {}
    OBVIOUS
  <2>1. PICK a \in 1..Len(arcs) : Owner(entries, a, p.self) /\ arcs[a].from = p.from
    BY DEF Known
  <2>2. p.self \in Functions
    BY DEF Profile!Pairs
  <2>3. [self |-> p.self, arc |-> a] \in Profile!Shown
    BY <2>1, <2>2, ShownIs
  <2>4. [self |-> p.self, arc |-> a] \in Profile!ArcsOf(p)
    BY <2>1, <2>3 DEF Profile!ArcsOf
  <2> QED
    BY <2>4
<1>15. Profile!Quiet /\ calls[p] > 0 => Profile!ArcsOf(p) # {}
  BY <1>2, <1>13, <1>14
<1> QED
  BY <1>12, <1>15 DEF n

LEMMA ProfileTypes ==
  ASSUME ProfileOK
  PROVE  Profile!TypeOK
<1>1. /\ Len(entries) \in Nat
      /\ \A e \in 1..Len(entries) :
           entries[e].self \in Functions /\ entries[e].arcs \in Seq(1..Len(arcs))
      /\ \A a \in 1..Len(arcs) : arcs[a].from \in Functions /\ arcs[a].count \in 1..MaxCalls
  BY RecordTypes DEF ProfileOK
<1>2. chain \in Seq(1..Len(entries))
  <2>1. \A k \in 1..Len(chain) : chain[k] \in 1..Len(entries)
    BY <1>1, ChainTypes DEF ProfileOK
  <2>2. chain \in Seq(Nat)
    BY DEF ProfileOK, Chained
  <2>3. chain \in [1..Len(chain) -> 1..Len(entries)] /\ Len(chain) \in Nat
    BY <2>1, <2>2, LenProperties
  <2> QED
    BY <2>3
<1>3. calls \in [Profile!Pairs -> 0..MaxCalls]
  <2>1. calls \in [Profile!Pairs -> Nat] /\ \A p \in Profile!Pairs : calls[p] <= made
    BY DEF ProfileOK
  <2>2. made \in 0..MaxCalls /\ MaxCalls \in Nat
    BY MaxCallsNat DEF ProfileOK, Scalars
  <2>3. \A p \in Profile!Pairs : calls[p] \in 0..MaxCalls
    <3>1. \A m \in Nat : m <= made => m \in 0..MaxCalls
      BY <2>2
    <3> QED
      BY <2>1, <3>1
  <2> QED
    BY <2>1, <2>3
<1>4. /\ pcsample_need_init \in {0, 1} /\ tick_rate \in {0, 1} /\ started \in Nat
      /\ mcount_irq_off \in BOOLEAN /\ at \in [Profile!Threads -> Profile!Places]
      /\ made \in 0..MaxCalls
  BY DEF ProfileOK, Scalars, Threading
<1> QED
  BY <1>1, <1>2, <1>3, <1>4 DEF Profile!TypeOK

\* For any number of functions and calls, with mcount interrupted anywhere by a
\* routine that calls it too: no entry and no arc is lost, no arc is counted more
\* often than it was followed, and no followed arc is missing.  And the memory for
\* them: its pieces never overlap, and for any end of the text section the samples
\* stay in their histogram, or go two bytes beyond it if that end cuts a bucket.
THEOREM ProfileSound == LibrarySpec => []ProfileIsSound
<1>1. ProfileOK => Profile!TypeOK /\ Profile!NothingUnlinked /\ Profile!ArcsAreKnown
  BY ProfileTypes, NothingIsUnlinked, ArcsKnown
<1>2. ProfileInv => (part = "records" =>
        Profile!TypeOK /\ Profile!NothingUnlinked /\ Profile!ArcsAreKnown)
  BY <1>1 DEF ProfileInv
<1>3. ProfileInv /\ SlabInv => ProfileIsSound
  BY <1>2, SlabsFine DEF ProfileIsSound
<1> QED
  BY <1>3, ProfileInvariant, SlabInvariant, PTL

-----------------------------------------------------------------------------
(* Printing: the powers of a base. *)

LEMMA SetInduction ==
  ASSUME NEW S, 0 \in S, \A n \in Nat : n \in S => n+1 \in S
  PROVE  Nat \subseteq S
<1> SUFFICES ASSUME Nat \ S # {}
             PROVE  FALSE
  OBVIOUS
<1>1. PICK m \in Nat \ S : \A k \in Nat \ S : ~(k < m)
  BY LeastElement
<1>2. m # 0 /\ m-1 \in Nat /\ m-1 < m
  BY <1>1
<1>3. m-1 \in S
  BY <1>1, <1>2
<1> QED
  BY <1>1, <1>2, <1>3

\* The powers of a base, as far as the nth.
ArePowers(f, b, n) == f[0] = 1 /\ \A k \in 1..n : f[k] = b * f[k - 1]

LEMMA PowersUpTo ==
  ASSUME NEW b \in Nat \ {0}
  PROVE  \A n \in Nat : \E f \in [0..n -> Nat \ {0}] : ArePowers(f, b, n)
<1> DEFINE T == {n \in Nat : \E f \in [0..n -> Nat \ {0}] : ArePowers(f, b, n)}
<1>1. 0 \in T
  <2> DEFINE f == [k \in 0..0 |-> 1]
  <2>1. f \in [0..0 -> Nat \ {0}] /\ ArePowers(f, b, 0)
    BY DEF ArePowers
  <2> QED
    BY <2>1
<1>2. ASSUME NEW n \in Nat, n \in T
      PROVE  n + 1 \in T
  <2>1. PICK f \in [0..n -> Nat \ {0}] : ArePowers(f, b, n)
    BY <1>2
  <2> DEFINE g == [k \in 0..n + 1 |-> IF k = n + 1 THEN b * f[n] ELSE f[k]]
  <2>2. b * f[n] \in Nat \ {0}
    <3>1. f[n] \in Nat \ {0}
      BY <2>1
    <3> QED
      BY <3>1
  <2>3. \A k \in 0..n + 1 : k # n + 1 => k \in 0..n
    OBVIOUS
  <2>4. g \in [0..n + 1 -> Nat \ {0}]
    BY <2>1, <2>2, <2>3
  <2>5. g[0] = 1
    BY <2>1 DEF ArePowers
  <2>6. ASSUME NEW k \in 1..n + 1 PROVE g[k] = b * g[k - 1]
    <3>1. CASE k = n + 1
      BY <3>1
    <3>2. CASE k \in 1..n
      BY <2>1, <3>2 DEF ArePowers
    <3> QED
      BY <3>1, <3>2
  <2>7. ArePowers(g, b, n + 1)
    BY <2>5, <2>6 DEF ArePowers
  <2> QED
    BY <2>4, <2>7
<1> HIDE DEF T
<1>3. Nat \subseteq T
  BY <1>1, <1>2, SetInduction
<1> QED
  BY <1>3 DEF T

LEMMA PowersAgree ==
  ASSUME NEW b \in Nat \ {0}, NEW f, NEW g, NEW n \in Nat, NEW m \in Nat,
         ArePowers(f, b, n), ArePowers(g, b, m)
  PROVE  \A k \in Nat : k <= n /\ k <= m => f[k] = g[k]
<1> DEFINE T == {k \in Nat : k <= n /\ k <= m => f[k] = g[k]}
<1>1. 0 \in T
  BY DEF ArePowers
<1>2. ASSUME NEW k \in Nat, k \in T
      PROVE  k + 1 \in T
  <2> SUFFICES ASSUME k + 1 <= n, k + 1 <= m
               PROVE  f[k + 1] = g[k + 1]
    OBVIOUS
  <2>1. f[k] = g[k]
    BY <1>2
  <2>2. k + 1 \in 1..n /\ k + 1 \in 1..m /\ (k + 1) - 1 = k
    OBVIOUS
  <2>3. f[k + 1] = b * f[k] /\ g[k + 1] = b * g[k]
    BY <2>2 DEF ArePowers
  <2> QED
    BY <2>1, <2>3
<1> HIDE DEF T
<1>3. Nat \subseteq T
  BY <1>1, <1>2, SetInduction
<1> QED
  BY <1>3 DEF T

\* The recursive function of the powers exists and satisfies its equation.
LEMMA PowersAre ==
  ASSUME NEW b \in Nat \ {0}
  PROVE  /\ Printf!Powers(b)[0] = 1
         /\ \A k \in Nat : Printf!Powers(b)[k] \in Nat \ {0}
         /\ \A k \in Nat : Printf!Powers(b)[k + 1] = b * Printf!Powers(b)[k]
<1> DEFINE upto(n) == CHOOSE f \in [0..n -> Nat \ {0}] : ArePowers(f, b, n)
           g == [k \in Nat |-> upto(k)[k]]
<1>1. \A n \in Nat : upto(n) \in [0..n -> Nat \ {0}] /\ ArePowers(upto(n), b, n)
  BY PowersUpTo
<1> HIDE DEF upto
<1>2. \A k \in Nat : g[k] = upto(k)[k] /\ g[k] \in Nat \ {0}
  <2> SUFFICES ASSUME NEW k \in Nat PROVE upto(k)[k] \in Nat \ {0}
    OBVIOUS
  <2>1. k \in 0..k
    OBVIOUS
  <2> QED
    BY <1>1, <2>1
<1>3. g[0] = 1
  BY <1>1, <1>2 DEF ArePowers
<1>4. ASSUME NEW k \in Nat PROVE g[k + 1] = b * g[k]
  <2>1. k + 1 \in Nat /\ k + 1 \in 1..k + 1 /\ (k + 1) - 1 = k /\ k <= k + 1 /\ k <= k
    OBVIOUS
  <2>2. upto(k + 1)[k + 1] = b * upto(k + 1)[k]
    BY <1>1, <2>1 DEF ArePowers
  <2>3. ArePowers(upto(k), b, k) /\ ArePowers(upto(k + 1), b, k + 1)
    BY <1>1, <2>1
  <2>4. upto(k + 1)[k] = upto(k)[k]
    BY <2>1, <2>3, PowersAgree
  <2> QED
    BY <1>2, <2>1, <2>2, <2>4
<1>5. g = [k \in Nat |-> IF k = 0 THEN 1 ELSE b * g[k - 1]]
  <2>1. ASSUME NEW k \in Nat PROVE g[k] = IF k = 0 THEN 1 ELSE b * g[k - 1]
    <3>1. CASE k = 0
      BY <1>3, <3>1
    <3>2. CASE k # 0
      <4>1. k - 1 \in Nat /\ (k - 1) + 1 = k
        BY <3>2
      <4>2. g[(k - 1) + 1] = b * g[k - 1]
        BY <1>4, <4>1
      <4> QED
        BY <3>2, <4>1, <4>2
    <3> QED
      BY <3>1, <3>2
  <2> QED
    BY <2>1
<1> DEFINE h == CHOOSE f : f = [k \in Nat |-> IF k = 0 THEN 1 ELSE b * f[k - 1]]
<1>6. h = [k \in Nat |-> IF k = 0 THEN 1 ELSE b * h[k - 1]]
  <2> HIDE DEF g
  <2> QED
    BY <1>5
<1>7. Printf!Powers(b) = h
  BY DEF Printf!Powers
<1> HIDE DEF h, g
<1>8. h[0] = 1 /\ \A k \in Nat : h[k + 1] = b * h[k]
  <2>1. h[0] = 1
    BY <1>6
  <2>2. ASSUME NEW k \in Nat PROVE h[k + 1] = b * h[k]
    <3>1. k + 1 \in Nat /\ k + 1 # 0 /\ (k + 1) - 1 = k
      OBVIOUS
    <3>2. h[k + 1] = b * h[(k + 1) - 1]
      BY <1>6, <3>1
    <3> QED
      BY <3>1, <3>2
  <2> QED
    BY <2>1, <2>2
<1>9. \A k \in Nat : h[k] \in Nat \ {0}
  <2> DEFINE T == {k \in Nat : h[k] \in Nat \ {0}}
  <2>1. 0 \in T
    BY <1>8
  <2>2. ASSUME NEW k \in Nat, k \in T PROVE k + 1 \in T
    <3>1. h[k] \in Nat \ {0} /\ h[k + 1] = b * h[k]
      BY <1>8, <2>2
    <3>2. h[k + 1] \in Nat \ {0}
      BY <3>1
    <3> QED
      BY <3>2
  <2> HIDE DEF T
  <2>3. Nat \subseteq T
    BY <2>1, <2>2, SetInduction
  <2> QED
    BY <2>3 DEF T
<1> QED
  BY <1>7, <1>8, <1>9

\* Powers are more than their exponents, and grow with them.
LEMMA PowerAbove ==
  ASSUME NEW b \in Nat, b >= 2
  PROVE  \A k \in Nat : Printf!Powers(b)[k] > k
<1> DEFINE p(k) == Printf!Powers(b)[k]
           T == {k \in Nat : p(k) > k}
<1>1. p(0) = 1 /\ \A k \in Nat : p(k) \in Nat \ {0} /\ p(k + 1) = b * p(k)
  BY PowersAre
<1> HIDE DEF p
<1>2. 0 \in T
  BY <1>1
<1>3. ASSUME NEW k \in Nat, k \in T PROVE k + 1 \in T
  <2>1. p(k) \in Nat /\ p(k) >= k + 1 /\ p(k + 1) = b * p(k)
    BY <1>1, <1>3
  <2>2. 2 * p(k) <= b * p(k)
    BY <2>1, ProductGrows
  <2>3. b * p(k) \in Nat
    BY <2>1
  <2> QED
    BY <2>1, <2>2, <2>3
<1> HIDE DEF T
<1>4. Nat \subseteq T
  BY <1>2, <1>3, SetInduction
<1> QED
  BY <1>4 DEF T, p

LEMMA PowersGrow ==
  ASSUME NEW b \in Nat \ {0}
  PROVE  \A k \in Nat, j \in Nat : k <= j => Printf!Powers(b)[k] <= Printf!Powers(b)[j]
<1> SUFFICES ASSUME NEW k \in Nat
             PROVE  \A j \in Nat : k <= j => Printf!Powers(b)[k] <= Printf!Powers(b)[j]
  OBVIOUS
<1> DEFINE p(m) == Printf!Powers(b)[m]
           T == {j \in Nat : p(k) <= p(k + j)}
<1>1. \A m \in Nat : p(m) \in Nat \ {0} /\ p(m + 1) = b * p(m)
  BY PowersAre
<1> HIDE DEF p
<1>2. 0 \in T
  <2>1. k + 0 = k /\ p(k) \in Nat
    BY <1>1
  <2> QED
    BY <2>1
<1>3. ASSUME NEW j \in Nat, j \in T PROVE j + 1 \in T
  <2>1. k + j \in Nat /\ (k + j) + 1 = k + (j + 1)
    OBVIOUS
  <2>2. p(k + j) \in Nat /\ p(k + (j + 1)) = b * p(k + j) /\ p(k) \in Nat /\ p(k) <= p(k + j)
    BY <1>1, <1>3, <2>1
  <2>3. 1 * p(k + j) <= b * p(k + j) /\ 1 * p(k + j) = p(k + j)
    BY <2>2, ProductGrows
  <2>4. b * p(k + j) \in Nat
    BY <2>2
  <2> QED
    BY <2>2, <2>3, <2>4
<1> HIDE DEF T
<1>4. Nat \subseteq T
  BY <1>2, <1>3, SetInduction
<1>5. ASSUME NEW j \in Nat, k <= j PROVE p(k) <= p(j)
  <2>1. j - k \in Nat /\ k + (j - k) = j
    BY <1>5
  <2> QED
    BY <1>4, <2>1 DEF T
<1> QED
  BY <1>5 DEF p

LEMMA PrintfConstants ==
  /\ Nibbles \in Nat \ {0} /\ MaxLen \in Nat /\ Numbers \subseteq 0..Printf!Word - 1
  /\ Printf!Word \in Nat \ {0} /\ Printf!Word = Printf!Powers(16)[Nibbles]
<1>1. Nibbles \in Nat \ {0} /\ MaxLen \in Nat /\ Numbers \subseteq 0..Printf!Word - 1
  BY LibraryAssumption DEF Printf!PrintfAssumption
<1>2. Printf!Word = Printf!Powers(16)[Nibbles]
  BY DEF Printf!Word
<1>3. Printf!Word \in Nat \ {0}
  BY <1>1, <1>2, PowersAre
<1> QED
  BY <1>1, <1>2, <1>3

-----------------------------------------------------------------------------
(* Printing: the digits of a number. *)

\* n places to the base b are what v needs.
Places(v, b, n) ==
  Printf!Powers(b)[n] > v /\ (n = 1 \/ Printf!Powers(b)[n - 1] <= v)

LEMMA PlacesExist ==
  ASSUME NEW v \in Nat, v < Printf!Word, NEW b \in Nat, b >= 2
  PROVE  \E n \in 1..Printf!Word : Places(v, b, n)
<1> DEFINE p(k) == Printf!Powers(b)[k]
           T == {k \in Nat \ {0} : p(k) > v}
<1>1. p(v + 1) > v + 1 /\ \A k \in Nat : p(k) \in Nat
  BY PowerAbove, PowersAre
<1> HIDE DEF p
<1>2. v + 1 \in T
  BY <1>1
<1>3. PICK n \in T : \A k \in T : ~(k < n)
  <2> HIDE DEF T
  <2>1. T \in SUBSET Nat
    BY DEF T
  <2> QED
    BY <1>2, <2>1, LeastElement
<1>4. n \in 1..Printf!Word /\ p(n) > v
  BY <1>2, <1>3, PrintfConstants
<1>5. n = 1 \/ p(n - 1) <= v
  <2> SUFFICES ASSUME n # 1, ~(p(n - 1) <= v) PROVE FALSE
    OBVIOUS
  <2>1. n - 1 \in Nat \ {0} /\ n - 1 < n
    BY <1>3
  <2>2. p(n - 1) > v
    BY <1>1, <2>1
  <2> QED
    BY <1>3, <2>1, <2>2
<1> QED
  BY <1>4, <1>5 DEF Places, p

\* The digits of v, from the largest on: each a digit of the base, and the first of
\* several no zero.
LEMMA PlacesAre ==
  ASSUME NEW v \in Nat, v < Printf!Word, NEW b \in Nat, b >= 2
  PROVE  \E n \in 1..Printf!Word :
           /\ Places(v, b, n)
           /\ Printf!PlacesIn(v, b) = [k \in 1..n |-> (v \div Printf!Powers(b)[n - k]) % b]
<1> DEFINE n == CHOOSE k \in 1..Printf!Word : Places(v, b, k)
<1>1. n \in 1..Printf!Word /\ Places(v, b, n)
  BY PlacesExist
<1>2. Printf!PlacesIn(v, b) = [k \in 1..n |-> (v \div Printf!Powers(b)[n - k]) % b]
  BY DEF Printf!PlacesIn, Places
<1> QED
  BY <1>1, <1>2

\* A quotient by a product is one quotient after the other.
LEMMA QuotientTwice ==
  ASSUME NEW v \in Nat, NEW b \in Nat \ {0}, NEW q \in Nat \ {0}
  PROVE  (v \div q) \div b = v \div (b * q)
<1> DEFINE m == v \div q
           r == v % q
           x == m \div b
           y == m % b
           d == b * q
           low == y * q + r
<1>1. m \in Nat /\ r \in 0..q - 1 /\ v = q * m + r
  BY Division
<1> HIDE DEF m, r
<1>2. x \in Nat /\ y \in 0..b - 1 /\ m = b * x + y
  BY <1>1, Division
<1> HIDE DEF x, y
<1>3. d \in Nat \ {0}
  BY DEF d
<1>4. low \in 0..d - 1
  <2>1. (y + 1) * q <= b * q
    BY <1>2, ProductGrows
  <2>2. (y + 1) * q = y * q + q /\ y * q \in Nat
    BY <1>2
  <2> QED
    BY <1>1, <2>1, <2>2, <1>3
<1>5. v = x * d + low
  <2>1. q * (b * x + y) = x * (b * q) + y * q
    BY <1>1, <1>2
  <2>2. x * (b * q) \in Nat /\ y * q \in Nat
    BY <1>1, <1>2
  <2> QED
    BY <1>1, <1>2, <2>1, <2>2
<1> HIDE DEF d, low
<1>6. v \div d = x
  BY <1>2, <1>3, <1>4, <1>5, DivisionUnique
<1> QED
  BY <1>6 DEF x, m, d

-----------------------------------------------------------------------------
(* Printing: digits read back. *)

DigitOf(d, c) == c = Printf!Digits[d + 1] \/ c = Printf!Capital[d + 1]

LEMMA DigitsAre ==
  ASSUME NEW d \in 0..15, NEW c, DigitOf(d, c)
  PROVE  \/ d = 0 /\ c = "0"
         \/ d = 1 /\ c = "1"
         \/ d = 2 /\ c = "2"
         \/ d = 3 /\ c = "3"
         \/ d = 4 /\ c = "4"
         \/ d = 5 /\ c = "5"
         \/ d = 6 /\ c = "6"
         \/ d = 7 /\ c = "7"
         \/ d = 8 /\ c = "8"
         \/ d = 9 /\ c = "9"
         \/ d = 10 /\ c \in {"a", "A"}
         \/ d = 11 /\ c \in {"b", "B"}
         \/ d = 12 /\ c \in {"c", "C"}
         \/ d = 13 /\ c \in {"d", "D"}
         \/ d = 14 /\ c \in {"e", "E"}
         \/ d = 15 /\ c \in {"f", "F"}
BY DEF DigitOf, Printf!Digits, Printf!Capital

LEMMA DigitsDiffer ==
  ASSUME NEW d \in 0..15, NEW e \in 0..15, NEW c, DigitOf(d, c), DigitOf(e, c)
  PROVE  d = e
BY DigitsAre

\* What the characters of a number stand for.
LEMMA DigitValue ==
  ASSUME NEW d \in 0..15, NEW c, DigitOf(d, c)
  PROVE  /\ Printf!ValueOf(c) = d /\ c \notin {"blank", "-"}
         /\ c = "0" <=> d = 0
<1> DEFINE e == CHOOSE k \in 0..15 : DigitOf(k, c)
<1>1. e \in 0..15 /\ DigitOf(e, c)
  OBVIOUS
<1>2. Printf!ValueOf(c) = e
  BY DEF Printf!ValueOf, DigitOf
<1>3. e = d
  BY <1>1, DigitsDiffer
<1> HIDE DEF e
<1>4. \/ d \in 0..7 /\ c \in {"0", "1", "2", "3", "4", "5", "6", "7"}
      \/ d \in 8..15 /\ c \in {"8", "9", "a", "b", "c", "d", "e", "f", "A", "B", "C", "D", "E", "F"}
  BY DigitsAre
<1>5. c # "blank" /\ c # "-"
  BY <1>4
<1>6. c = "0" <=> d = 0
  BY DigitsAre
<1> QED
  BY <1>2, <1>3, <1>5, <1>6

\* What is added up, character by character, is what the recursion computes.
AddsUp(w, s, b) ==
  /\ w = [k \in 0..Len(s) |-> w[k]] /\ w[0] = 0
  /\ \A k \in 1..Len(s) : w[k] = w[k - 1] * b + Printf!ValueOf(s[k])

LEMMA HornerIs ==
  ASSUME NEW s, Len(s) \in Nat, NEW b, NEW w, AddsUp(w, s, b)
  PROVE  Printf!Horner(s, b) = w[Len(s)]
<1> USE DEF AddsUp
<1> DEFINE n == Len(s)
           step(x, k) == x * b + Printf!ValueOf(s[k])
           h == CHOOSE f : f = [k \in 0..n |-> IF k = 0 THEN 0 ELSE step(f[k - 1], k)]
<1>0. n \in Nat
  OBVIOUS
<1>1. Printf!Horner(s, b) = h[n]
  BY DEF Printf!Horner
<1>2. \A k \in 1..n : w[k] = step(w[k - 1], k)
  OBVIOUS
<1> HIDE DEF step
<1>3. w = [k \in 0..n |-> IF k = 0 THEN 0 ELSE step(w[k - 1], k)]
  <2>0. w[0] = 0 /\ \A k \in 0..n : k = 0 \/ k \in 1..n
    BY <1>0
  <2>1. ASSUME NEW k \in 0..n PROVE w[k] = IF k = 0 THEN 0 ELSE step(w[k - 1], k)
    <3>1. CASE k = 0
      BY <2>0, <3>1
    <3>2. CASE k # 0
      BY <2>0, <3>2, <1>2
    <3> QED
      BY <3>1, <3>2
  <2> QED
    BY <2>1
<1>4. h = [k \in 0..n |-> IF k = 0 THEN 0 ELSE step(h[k - 1], k)]
  BY <1>3
<1> HIDE DEF h, n
<1> DEFINE T == {k \in Nat : k <= n => h[k] = w[k]}
<1>5. 0 \in T
  BY <1>0, <1>4
<1>6. ASSUME NEW k \in Nat, k \in T PROVE k + 1 \in T
  <2> SUFFICES ASSUME k + 1 <= n PROVE h[k + 1] = w[k + 1]
    OBVIOUS
  <2>1. k + 1 \in 1..n /\ k + 1 \in 0..n /\ k + 1 # 0 /\ (k + 1) - 1 = k /\ k <= n
    BY <1>0
  <2>2. h[k + 1] = step(h[(k + 1) - 1], k + 1)
    BY <1>4, <2>1
  <2>3. w[k + 1] = step(w[(k + 1) - 1], k + 1)
    BY <1>2, <2>1
  <2>4. h[k] = w[k]
    BY <1>6, <2>1
  <2> QED
    BY <2>1, <2>2, <2>3, <2>4
<1> HIDE DEF T
<1>7. Nat \subseteq T
  BY <1>5, <1>6, SetInduction
<1>8. h[n] = w[n]
  BY <1>0, <1>7 DEF T
<1> QED
  BY <1>1, <1>8 DEF n

\* The characters of a number, after any zeros, read back as the number.
ReadsAs(s, v, b, m, n) ==
  /\ Len(s) = m + n
  /\ \A k \in 1..m : Printf!ValueOf(s[k]) = 0
  /\ \A k \in 1..n : Printf!ValueOf(s[m + k]) = (v \div Printf!Powers(b)[n - k]) % b

LEMMA ReadsBack ==
  ASSUME NEW v \in Nat, NEW b \in Nat, b >= 2, NEW n \in Nat \ {0}, Places(v, b, n),
         NEW m \in Nat, NEW s, ReadsAs(s, v, b, m, n)
  PROVE  Printf!Horner(s, b) = v
<1> DEFINE p(k) == Printf!Powers(b)[k]
           up(k) == v \div p(n - k)
           w == [k \in 0..m + n |-> IF k <= m THEN 0 ELSE up(k - m)]
<1> USE DEF ReadsAs
<1>0. b \in Nat \ {0}
  OBVIOUS
<1>1. p(0) = 1 /\ \A k \in Nat : p(k) \in Nat \ {0} /\ p(k + 1) = b * p(k)
  BY <1>0, PowersAre
<1>2. p(n) > v
  BY DEF Places
<1>3. \A k \in 1..n : Printf!ValueOf(s[m + k]) = up(k) % b
  OBVIOUS
<1> HIDE DEF p
<1>4. up(0) = 0 /\ up(n) = v
  <2>1. n - 0 = n /\ n - n = 0 /\ p(n) \in Nat \ {0}
    BY <1>1
  <2>2. v = 0 * p(n) + v /\ v \in 0..p(n) - 1
    BY <1>2, <2>1
  <2>3. v \div p(n) = 0
    BY <2>1, <2>2, DivisionUnique
  <2>4. v = v * 1 + 0 /\ 0 \in 0..1 - 1
    OBVIOUS
  <2>5. v \div 1 = v
    BY <2>4, DivisionUnique
  <2> QED
    BY <1>1, <2>1, <2>3, <2>5
<1>5. ASSUME NEW k \in 1..n
      PROVE  up(k) = up(k - 1) * b + (up(k) % b) /\ up(k) \in Nat /\ up(k - 1) \in Nat
  <2> DEFINE q == p(n - k)
             x == v \div q
  <2>1. n - k \in Nat /\ n - (k - 1) = (n - k) + 1
    OBVIOUS
  <2>2. q \in Nat \ {0} /\ p(n - (k - 1)) = b * q
    BY <1>1, <2>1
  <2>3. up(k) = x /\ up(k - 1) = v \div (b * q)
    BY <2>2
  <2> HIDE DEF q, up
  <2>4. x \div b = v \div (b * q)
    BY <1>0, <2>2, QuotientTwice
  <2>5. x \in Nat
    BY <2>2, Division
  <2> HIDE DEF x
  <2>6. x \div b \in Nat /\ x % b \in 0..b - 1 /\ x = b * (x \div b) + (x % b)
    BY <1>0, <2>5, Division
  <2>7. b * (x \div b) = (x \div b) * b
    BY <2>6
  <2> QED
    BY <2>3, <2>4, <2>5, <2>6, <2>7
<1> HIDE DEF up
<1>6. \A k \in 1..m + n : w[k] = w[k - 1] * b + Printf!ValueOf(s[k])
  <2> SUFFICES ASSUME NEW k \in 1..m + n PROVE w[k] = w[k - 1] * b + Printf!ValueOf(s[k])
    OBVIOUS
  <2>0. k \in 0..m + n /\ k - 1 \in 0..m + n
    OBVIOUS
  <2>1. CASE k <= m
    <3>1. w[k] = 0 /\ w[k - 1] = 0 /\ Printf!ValueOf(s[k]) = 0
      BY <2>0, <2>1
    <3> QED
      BY <3>1
  <2>2. CASE k = m + 1
    <3>1. w[k] = up(1) /\ w[k - 1] = 0 /\ up(1 - 1) = 0 /\ 1 \in 1..n
      BY <1>4, <2>0, <2>2
    <3>2. up(1) = up(1 - 1) * b + (up(1) % b) /\ up(1) \in Nat
      BY <1>5, <3>1
    <3>3. Printf!ValueOf(s[k]) = up(1) % b
      BY <1>3, <2>2, <3>1
    <3> QED
      BY <3>1, <3>2, <3>3
  <2>3. CASE k > m + 1
    <3> DEFINE j == k - m
    <3>1. j \in 1..n /\ m + j = k /\ (k - 1) - m = j - 1 /\ ~(k <= m) /\ ~(k - 1 <= m)
      BY <2>3
    <3>2. w[k] = up(j) /\ w[k - 1] = up(j - 1)
      BY <2>0, <3>1
    <3> HIDE DEF j, w
    <3>3. Printf!ValueOf(s[k]) = up(j) % b
      BY <1>3, <3>1
    <3> QED
      BY <1>5, <3>1, <3>2, <3>3
  <2> QED
    BY <2>1, <2>2, <2>3
<1>7. Printf!Horner(s, b) = w[m + n]
  <2>1. w = [k \in 0..Len(s) |-> w[k]] /\ w[0] = 0 /\ Len(s) \in Nat
    OBVIOUS
  <2>2. AddsUp(w, s, b)
    BY <1>6, <2>1 DEF AddsUp
  <2> HIDE DEF w
  <2>3. Printf!Horner(s, b) = w[Len(s)]
    BY <2>1, <2>2, HornerIs
  <2> QED
    BY <2>3
<1>8. w[m + n] = v
  BY <1>4
<1> QED
  BY <1>7, <1>8

-----------------------------------------------------------------------------
(* Printing: a number in its field. *)

\* The first digit of several is no zero.
LEMMA TopDigit ==
  ASSUME NEW v \in Nat, NEW b \in Nat, b >= 2, NEW n \in Nat, n > 1, Places(v, b, n)
  PROVE  (v \div Printf!Powers(b)[n - 1]) % b \in Nat \ {0}
<1> DEFINE q == Printf!Powers(b)[n - 1]
           x == v \div q
           r == v % q
<1>1. q \in Nat \ {0} /\ Printf!Powers(b)[n] = b * q
  <2>1. n - 1 \in Nat /\ (n - 1) + 1 = n /\ b \in Nat \ {0}
    OBVIOUS
  <2>2. /\ \A k \in Nat : Printf!Powers(b)[k] \in Nat \ {0}
        /\ \A k \in Nat : Printf!Powers(b)[k + 1] = b * Printf!Powers(b)[k]
    BY <2>1, PowersAre
  <2>3. Printf!Powers(b)[(n - 1) + 1] = b * Printf!Powers(b)[n - 1]
    BY <2>1, <2>2
  <2> QED
    BY <2>1, <2>2, <2>3
<1>2. q <= v /\ v < b * q
  BY <1>1 DEF Places
<1> HIDE DEF q
<1>3. x \in Nat /\ r \in 0..q - 1 /\ v = q * x + r
  BY <1>1, Division
<1> HIDE DEF x, r
<1>4. x # 0
  BY <1>1, <1>2, <1>3
<1>5. x < b
  <2>1. b <= x => b * q <= x * q
    BY <1>1, <1>3, ProductGrows
  <2>2. x * q = q * x /\ q * x \in Nat /\ b * q \in Nat
    BY <1>1, <1>3
  <2> QED
    BY <1>1, <1>2, <1>3, <2>1, <2>2
<1>6. x % b = x
  <2>1. x = 0 * b + x /\ x \in 0..b - 1 /\ b \in Nat \ {0} /\ 0 \in Nat
    BY <1>3, <1>5
  <2> QED
    BY <1>3, <2>1, DivisionUnique
<1> QED
  BY <1>3, <1>4, <1>6 DEF x, q

Letters == {"d", "i", "u", "o", "x", "X"}
Symbols == {Printf!Digits[d + 1] : d \in 0..15} \cup {Printf!Capital[d + 1] : d \in 0..15}
             \cup {"blank", "-", "0"}

Repeated(s, c, m) == Len(s) = m /\ \A k \in 1..m : s[k] = c

LEMMA RepeatIs ==
  ASSUME NEW S, NEW c \in S, NEW n \in Int
  PROVE  /\ Printf!Repeat(c, n) \in Seq(S)
         /\ Repeated(Printf!Repeat(c, n), c, IF n < 0 THEN 0 ELSE n)
<1> DEFINE m == IF n < 0 THEN 0 ELSE n
<1>1. m \in Nat /\ 1..n = 1..m
  OBVIOUS
<1>2. Printf!Repeat(c, n) = [k \in 1..m |-> c]
  BY <1>1 DEF Printf!Repeat
<1> HIDE DEF m
<1>3. [k \in 1..m |-> c] \in Seq(S) /\ Len([k \in 1..m |-> c]) = m
  BY <1>1
<1>4. Repeated([k \in 1..m |-> c], c, m)
  BY <1>3 DEF Repeated
<1> QED
  BY <1>2, <1>3, <1>4 DEF m

\* The elements of pieces put together.
Joined(s, a, b) ==
  /\ Len(s) = Len(a) + Len(b)
  /\ \A k \in 1..Len(s) : s[k] = IF k <= Len(a) THEN a[k] ELSE b[k - Len(a)]

LEMMA TwoPieces ==
  ASSUME NEW S, NEW a \in Seq(S), NEW b \in Seq(S)
  PROVE  a \o b \in Seq(S) /\ Joined(a \o b, a, b)
BY DEF Joined

Pieces(s, a, b, c) ==
  /\ Len(s) = Len(a) + Len(b) + Len(c)
  /\ \A k \in 1..Len(a) : s[k] = a[k]
  /\ \A k \in 1..Len(b) : s[Len(a) + k] = b[k]
  /\ \A k \in 1..Len(c) : s[Len(a) + Len(b) + k] = c[k]

LEMMA ThreePieces ==
  ASSUME NEW S, NEW a \in Seq(S), NEW b \in Seq(S), NEW c \in Seq(S)
  PROVE  (a \o b) \o c \in Seq(S) /\ Pieces((a \o b) \o c, a, b, c)
<1> DEFINE d == a \o b
           e == d \o c
<1>0. Len(a) \in Nat /\ Len(b) \in Nat /\ Len(c) \in Nat
  OBVIOUS
<1>1. d \in Seq(S) /\ Joined(d, a, b)
  BY TwoPieces
<1> HIDE DEF d
<1>2. e \in Seq(S) /\ Joined(e, d, c)
  BY <1>1, TwoPieces
<1> HIDE DEF e
<1>3. Len(d) = Len(a) + Len(b) /\ Len(e) = Len(d) + Len(c)
  BY <1>1, <1>2 DEF Joined
<1>4. ASSUME NEW k \in 1..Len(a) PROVE e[k] = a[k]
  <2>1. k \in 1..Len(e) /\ k <= Len(d) /\ k \in 1..Len(d) /\ k <= Len(a)
    BY <1>0, <1>3
  <2>2. e[k] = d[k] /\ d[k] = a[k]
    BY <1>1, <1>2, <2>1 DEF Joined
  <2> QED
    BY <2>2
<1>5. ASSUME NEW k \in 1..Len(b) PROVE e[Len(a) + k] = b[k]
  <2> DEFINE j == Len(a) + k
  <2>1. j \in 1..Len(e) /\ j <= Len(d) /\ j \in 1..Len(d) /\ ~(j <= Len(a)) /\ j - Len(a) = k
    BY <1>0, <1>3
  <2> HIDE DEF j
  <2>2. e[j] = d[j] /\ d[j] = b[j - Len(a)]
    BY <1>1, <1>2, <2>1 DEF Joined
  <2> QED
    BY <2>1, <2>2 DEF j
<1>6. ASSUME NEW k \in 1..Len(c) PROVE e[Len(a) + Len(b) + k] = c[k]
  <2> DEFINE j == Len(a) + Len(b) + k
  <2>1. j \in 1..Len(e) /\ ~(j <= Len(d)) /\ j - Len(d) = k
    BY <1>0, <1>3
  <2> HIDE DEF j
  <2>2. e[j] = c[j - Len(d)]
    BY <1>2, <2>1 DEF Joined
  <2> QED
    BY <2>1, <2>2 DEF j
<1>7. Len(e) = Len(a) + Len(b) + Len(c)
  BY <1>0, <1>3
<1>8. Pieces(e, a, b, c)
  BY <1>4, <1>5, <1>6, <1>7 DEF Pieces
<1> QED
  BY <1>2, <1>8 DEF e, d

\* What is printed of the number, and whether a sign is.
Amount(c) == IF Printf!IsSigned(c) /\ Printf!Negative(number) THEN Printf!Word - number ELSE number
Minus(c) == IF Printf!IsSigned(c) /\ Printf!Negative(number) THEN 1 ELSE 0

LEMMA AmountIs ==
  ASSUME number \in Numbers, NEW c
  PROVE  /\ Amount(c) \in Nat /\ Amount(c) < Printf!Word /\ Minus(c) \in 0..1
         /\ Minus(c) = 1 => Amount(c) # 0
<1>1. /\ number \in 0..Printf!Word - 1 /\ Printf!Word \in Nat \ {0} /\ Nibbles \in Nat \ {0}
      /\ Printf!Word = Printf!Powers(16)[Nibbles]
  BY PrintfConstants
<1>2. Printf!Word > 1
  BY <1>1, PowerAbove
<1>3. Printf!Negative(number) => number # 0
  BY <1>1, <1>2 DEF Printf!Negative
<1> QED
  BY <1>1, <1>3 DEF Amount, Minus

LEMMA BaseIs == ASSUME NEW c PROVE Printf!Base(c) \in {8, 10, 16}
BY DEF Printf!Base

\* m blanks or zeros, a sign, and n digits.
IsField(s, spec, c, m, n) ==
  LET v == Amount(c)
      b == Printf!Base(c)
      g == Minus(c)
  IN  /\ n \in Nat \ {0} /\ m = IF spec.before - n - g < 0 THEN 0 ELSE spec.before - n - g
      /\ Places(v, b, n)
      /\ s \in Seq(Symbols) /\ Len(s) = m + g + n
      /\ spec.zero => \A k \in 1..m : s[g + k] = "0"
      /\ ~spec.zero => \A k \in 1..m : s[k] = "blank"
      /\ g = 1 => s[IF spec.zero THEN 1 ELSE m + 1] = "-"
      /\ \A k \in 1..n : DigitOf((v \div Printf!Powers(b)[n - k]) % b, s[m + g + k])

LEMMA NumberIs ==
  ASSUME number \in Numbers, NEW c \in Letters,
         NEW spec \in [zero : BOOLEAN, before : Int, after : Int]
  PROVE  \E m \in Nat, n \in Nat \ {0} : IsField(Printf!Number(spec, c), spec, c, m, n)
<1>0. \A x \in Seq(Symbols), y \in Seq(Symbols), z \in Seq(Symbols) :
        (x \o y) \o z \in Seq(Symbols) /\ Pieces((x \o y) \o z, x, y, z)
  BY ThreePieces
<1> DEFINE v == Amount(c)
           b == Printf!Base(c)
           g == Minus(c)
           places == Printf!PlacesIn(v, b)
           sign == IF g = 1 THEN <<"-">> ELSE <<>>
           table == IF c = "X" THEN Printf!Capital ELSE Printf!Digits
           chars == [k \in 1..Len(places) |-> table[places[k] + 1]]
           fill == Printf!Width(spec, Len(places), sign)
           s == Printf!Number(spec, c)
<1>1. v \in Nat /\ v < Printf!Word /\ g \in 0..1 /\ b \in {8, 10, 16}
  BY AmountIs, BaseIs
<1>2. s = (IF spec.zero THEN sign \o Printf!Repeat("0", fill)
           ELSE Printf!Repeat("blank", fill) \o sign) \o chars
  <2>1. g = 1 <=> Printf!IsSigned(c) /\ Printf!Negative(number)
    BY DEF Minus
  <2> QED
    BY <2>1 DEF Printf!Number, Printf!Blank, Amount
<1> HIDE DEF v, b, g, s
<1>3. PICK n \in 1..Printf!Word :
        Places(v, b, n) /\ places = [k \in 1..n |-> (v \div Printf!Powers(b)[n - k]) % b]
  <2>1. b \in Nat /\ b >= 2
    BY <1>1
  <2> HIDE DEF places
  <2> QED
    BY <1>1, <2>1, PlacesAre DEF places
<1>4. n \in Nat \ {0}
  OBVIOUS
<1>5. \A k \in 1..n : places[k] \in 0..15 /\ places[k] = (v \div Printf!Powers(b)[n - k]) % b
  <2> SUFFICES ASSUME NEW k \in 1..n PROVE (v \div Printf!Powers(b)[n - k]) % b \in 0..15
    BY <1>3
  <2>1. n - k \in Nat /\ b \in Nat \ {0}
    BY <1>1
  <2>2. Printf!Powers(b)[n - k] \in Nat \ {0}
    BY <2>1, PowersAre
  <2>3. v \div Printf!Powers(b)[n - k] \in Nat
    BY <1>1, <2>2, Division
  <2>4. (v \div Printf!Powers(b)[n - k]) % b \in 0..b - 1
    BY <2>1, <2>3, Division
  <2> QED
    BY <1>1, <2>4
<1>6. Len(places) = n
  BY <1>3, <1>4
<1> HIDE DEF places
<1>7. /\ chars \in Seq(Symbols) /\ Len(chars) = n
      /\ \A k \in 1..n : chars[k] = table[places[k] + 1]
  <2>1. \A d \in 0..15 : table[d + 1] \in Symbols
    BY DEF Symbols
  <2> HIDE DEF table
  <2>2. chars = [k \in 1..n |-> table[places[k] + 1]]
    BY <1>6
  <2>3. \A k \in 1..n : table[places[k] + 1] \in Symbols
    BY <1>5, <2>1
  <2> HIDE DEF chars
  <2>4. chars \in [1..n -> Symbols]
    BY <2>2, <2>3
  <2>5. chars \in Seq(Symbols) /\ Len(chars) = n
    BY <1>4, <2>4
  <2> QED
    BY <2>2, <2>5
<1>8. \A k \in 1..n : DigitOf((v \div Printf!Powers(b)[n - k]) % b, chars[k])
  BY <1>5, <1>7 DEF DigitOf
<1> HIDE DEF chars
<1>9. /\ sign \in Seq(Symbols) /\ Len(sign) = g
      /\ g = 1 => sign[1] = "-"
  <2>1. "-" \in Symbols
    BY DEF Symbols
  <2> QED
    BY <1>1, <2>1
<1> HIDE DEF sign
<1>10. fill = spec.before - n - g /\ fill \in Int
  <2>1. spec.before \in Int
    OBVIOUS
  <2> QED
    BY <1>1, <1>4, <1>6, <1>9, <2>1 DEF Printf!Width
<1> HIDE DEF fill
<1> DEFINE m == IF fill < 0 THEN 0 ELSE fill
           rep == Printf!Repeat(IF spec.zero THEN "0" ELSE "blank", fill)
<1>11. m \in Nat
  BY <1>10
<1>12. /\ rep \in Seq(Symbols) /\ Len(rep) = m
       /\ \A k \in 1..m : rep[k] = IF spec.zero THEN "0" ELSE "blank"
  <2> DEFINE f == IF spec.zero THEN "0" ELSE "blank"
  <2>1. f \in Symbols
    BY DEF Symbols
  <2> HIDE DEF f
  <2>2. Printf!Repeat(f, fill) \in Seq(Symbols) /\ Repeated(Printf!Repeat(f, fill), f, m)
    BY <1>10, <2>1, RepeatIs
  <2> QED
    BY <2>2 DEF f, Repeated
<1>13. s = (IF spec.zero THEN sign \o rep ELSE rep \o sign) \o chars
  BY <1>2
<1> HIDE DEF m, rep
<1>14. CASE spec.zero
  <2>1. s = (sign \o rep) \o chars
    BY <1>13, <1>14
  <2>2. s \in Seq(Symbols) /\ Pieces(s, sign, rep, chars)
    BY <1>0, <1>7, <1>9, <1>12, <2>1
  <2>3. g + m + n = m + g + n /\ \A k \in 1..n : g + m + k = m + g + k
    BY <1>1, <1>4, <1>11
  <2>4. /\ Len(s) = m + g + n
        /\ \A k \in 1..g : s[k] = sign[k]
        /\ \A k \in 1..m : s[g + k] = rep[k]
        /\ \A k \in 1..n : s[m + g + k] = chars[k]
    BY <1>7, <1>9, <1>12, <2>2, <2>3 DEF Pieces
  <2>5. (\A k \in 1..m : s[g + k] = "0") /\ (g = 1 => s[1] = "-")
    BY <1>9, <1>12, <1>14, <2>4
  <2>6. IsField(s, spec, c, m, n)
    BY <1>3, <1>4, <1>8, <1>10, <1>14, <2>2, <2>4, <2>5 DEF IsField, v, b, g, m
  <2> QED
    BY <1>4, <1>11, <2>6 DEF s
<1>15. CASE ~spec.zero
  <2>1. s = (rep \o sign) \o chars
    BY <1>13, <1>15
  <2>2. s \in Seq(Symbols) /\ Pieces(s, rep, sign, chars)
    BY <1>0, <1>7, <1>9, <1>12, <2>1
  <2>4. /\ Len(s) = m + g + n
        /\ \A k \in 1..m : s[k] = rep[k]
        /\ \A k \in 1..g : s[m + k] = sign[k]
        /\ \A k \in 1..n : s[m + g + k] = chars[k]
    BY <1>7, <1>9, <1>12, <2>2 DEF Pieces
  <2>3. g = 1 => s[m + 1] = "-"
    BY <1>9, <2>4
  <2>5. \A k \in 1..m : s[k] = "blank"
    BY <1>12, <1>15, <2>4
  <2>6. IsField(s, spec, c, m, n)
    BY <1>3, <1>4, <1>8, <1>10, <1>15, <2>2, <2>3, <2>4, <2>5 DEF IsField, v, b, g, m
  <2> QED
    BY <1>4, <1>11, <2>6 DEF s
<1> QED
  BY <1>14, <1>15

LEMMA PrintfCardinality == \A S : Printf!Cardinality(S) = Cardinality(S)
BY DEF Printf!Cardinality, Cardinality

\* The blanks at the head of a sequence.
LEMMA PaddedBy ==
  ASSUME NEW s, NEW L \in Nat, Len(s) = L, NEW p \in Nat, p <= L,
         \A k \in Nat : 1 <= k /\ k <= p => s[k] = "blank",
         \A k \in Nat : p < k /\ k <= L => s[k] # "blank"
  PROVE  Printf!Padding(s) = 1..p /\ Printf!Unpadded(s) = SubSeq(s, p + 1, L)
<1>1. Printf!Padding(s) = {k \in 1..L : \A j \in 1..k : s[j] = "blank"}
  BY DEF Printf!Padding, Printf!Blank
<1>2. ASSUME NEW k \in 1..L, \A j \in 1..k : s[j] = "blank" PROVE k \in 1..p
  <2>1. k \in Nat /\ 1 <= k /\ k <= L
    OBVIOUS
  <2>2. k \in 1..k
    BY <2>1
  <2>3. s[k] = "blank"
    BY <1>2, <2>2
  <2> QED
    BY <2>1, <2>3
<1>3. ASSUME NEW k \in 1..p PROVE k \in 1..L /\ \A j \in 1..k : s[j] = "blank"
  OBVIOUS
<1>4. Printf!Padding(s) = 1..p
  BY <1>1, <1>2, <1>3
<1>5. Printf!Cardinality(1..p) = p
  <2>1. Cardinality(1..p) = p
    BY FS_Interval
  <2> QED
    BY <2>1, PrintfCardinality
<1>6. Printf!Unpadded(s) = SubSeq(s, p + 1, L)
  BY <1>4, <1>5 DEF Printf!Unpadded
<1> QED
  BY <1>4, <1>6

\* The digits of a field are no blanks.
LEMMA DigitsStand ==
  ASSUME number \in Numbers, NEW c \in Letters, NEW s, NEW m \in Nat, NEW n \in Nat \ {0},
         NEW spec, IsField(s, spec, c, m, n), NEW k \in 1..n
  PROVE  /\ Printf!ValueOf(s[m + Minus(c) + k])
              = (Amount(c) \div Printf!Powers(Printf!Base(c))[n - k]) % Printf!Base(c)
         /\ s[m + Minus(c) + k] \notin {"blank", "-"}
         /\ s[m + Minus(c) + k] = "0"
              <=> (Amount(c) \div Printf!Powers(Printf!Base(c))[n - k]) % Printf!Base(c) = 0
<1> DEFINE v == Amount(c)
           b == Printf!Base(c)
           e == s[m + Minus(c) + k]
           x == v \div Printf!Powers(b)[n - k]
<1>1. v \in Nat /\ b \in {8, 10, 16}
  BY AmountIs, BaseIs
<1>2. DigitOf(x % b, e)
  BY DEF IsField
<1> HIDE DEF v, b, e
<1>3. n - k \in Nat /\ b \in Nat \ {0}
  BY <1>1
<1>4. Printf!Powers(b)[n - k] \in Nat \ {0}
  BY <1>3, PowersAre
<1>5. x \in Nat
  BY <1>1, <1>4, Division
<1> HIDE DEF x
<1>6. x % b \in 0..15
  <2>1. x % b \in 0..b - 1
    BY <1>3, <1>5, Division
  <2> QED
    BY <1>1, <2>1
<1>7. Printf!ValueOf(e) = x % b /\ e \notin {"blank", "-"} /\ (e = "0" <=> x % b = 0)
  BY <1>2, <1>6, DigitValue
<1> QED
  BY <1>7 DEF v, b, e, x

\* The blanks of a field are those before its sign and digits.
Pad(spec, m) == IF spec.zero THEN 0 ELSE m

IsPadded(s, spec, c, m, n) ==
  /\ Printf!Padding(s) = 1..Pad(spec, m)
  /\ \A k \in Nat : 1 <= k /\ k <= Len(s) /\ s[k] = "blank" => k <= Pad(spec, m)
  /\ Printf!Unpadded(s) = SubSeq(s, Pad(spec, m) + 1, m + Minus(c) + n)
  /\ Pad(spec, m) \in Nat /\ Pad(spec, m) <= m

LEMMA PaddingIs ==
  ASSUME number \in Numbers, NEW c \in Letters, NEW s, NEW m \in Nat, NEW n \in Nat \ {0},
         NEW spec \in [zero : BOOLEAN, before : Int, after : Int], IsField(s, spec, c, m, n)
  PROVE  IsPadded(s, spec, c, m, n)
<1> DEFINE g == Minus(c)
           p == Pad(spec, m)
           L == m + g + n
<1>1. g \in 0..1
  BY AmountIs
<1>2. Len(s) = L
  BY DEF IsField
<1>3. spec.zero => \A k \in 1..m : s[g + k] = "0"
  BY DEF IsField
<1>4. ~spec.zero => \A k \in 1..m : s[k] = "blank"
  BY DEF IsField
<1>5. g = 1 => s[IF spec.zero THEN 1 ELSE m + 1] = "-"
  BY DEF IsField
<1>6. \A k \in 1..n : s[m + g + k] # "blank"
  BY DigitsStand
<1> HIDE DEF g
<1>7. p \in Nat /\ p <= m /\ (spec.zero => p = 0) /\ (~spec.zero => p = m)
  BY DEF Pad
<1> HIDE DEF p
<1>8. L \in Nat /\ p <= L
  BY <1>1, <1>7
<1>9. ASSUME NEW k \in Nat, 1 <= k, k <= p PROVE s[k] = "blank"
  BY <1>4, <1>7, <1>9
<1>10. ASSUME NEW k \in Nat, p < k, k <= L PROVE s[k] # "blank"
  <2>1. CASE k > m + g
    <3> DEFINE j == k - (m + g)
    <3>1. j \in 1..n /\ m + g + j = k
      BY <1>1, <1>10, <2>1
    <3> HIDE DEF j
    <3> QED
      BY <1>6, <3>1
  <2>2. CASE k <= m + g /\ spec.zero /\ k <= g
    <3>1. g = 1 /\ k = 1
      BY <1>1, <1>7, <1>10, <2>2
    <3> QED
      BY <1>5, <2>2, <3>1
  <2>3. CASE k <= m + g /\ spec.zero /\ ~(k <= g)
    <3> DEFINE j == k - g
    <3>1. j \in 1..m /\ g + j = k
      BY <1>1, <2>3
    <3> HIDE DEF j
    <3> QED
      BY <1>3, <2>3, <3>1
  <2>4. CASE k <= m + g /\ ~spec.zero
    <3>1. g = 1 /\ k = m + 1
      BY <1>1, <1>7, <1>10, <2>4
    <3> QED
      BY <1>5, <2>4, <3>1
  <2> QED
    BY <1>1, <2>1, <2>2, <2>3, <2>4
<1> HIDE DEF L
<1>11. Printf!Padding(s) = 1..p /\ Printf!Unpadded(s) = SubSeq(s, p + 1, L)
  BY <1>2, <1>7, <1>8, <1>9, <1>10, PaddedBy
<1>12. \A k \in Nat : 1 <= k /\ k <= Len(s) /\ s[k] = "blank" => k <= p
  BY <1>2, <1>7, <1>8, <1>10
<1> QED
  BY <1>7, <1>11, <1>12 DEF p, L, g, IsPadded

\* The rest of a sequence from a place on.
LEMMA RestIs ==
  ASSUME NEW S, NEW s \in Seq(S), NEW p \in Nat, NEW L \in Nat, p <= L, Len(s) = L
  PROVE  /\ SubSeq(s, p + 1, L) \in Seq(S)
         /\ Len(SubSeq(s, p + 1, L)) = L - p
         /\ \A k \in 1..L - p : SubSeq(s, p + 1, L)[k] = s[p + k]
<1>1. \A k \in p + 1..L : s[k] \in S
  OBVIOUS
<1> DEFINE t == SubSeq(s, p + 1, L)
<1>2. t = [k \in 1..L - p |-> s[p + k]]
  OBVIOUS
<1>3. \A k \in 1..L - p : s[p + k] \in S
  BY <1>1
<1> HIDE DEF t
<1>4. L - p \in Nat
  OBVIOUS
<1>5. t \in Seq(S) /\ Len(t) = L - p
  BY <1>2, <1>3, <1>4
<1>6. \A k \in 1..L - p : t[k] = s[p + k]
  BY <1>2
<1> QED
  BY <1>5, <1>6 DEF t

LEMMA TailIs ==
  ASSUME NEW S, NEW s \in Seq(S), NEW L \in Nat \ {0}, Len(s) = L
  PROVE  /\ Tail(s) \in Seq(S) /\ Len(Tail(s)) = L - 1
         /\ \A k \in 1..L - 1 : Tail(s)[k] = s[k + 1]
<1>1. s # <<>>
  OBVIOUS
<1> QED
  BY <1>1

LEMMA ZeroIs == Printf!ValueOf("0") = 0
<1>1. DigitOf(0, "0") /\ 0 \in 0..15
  BY DEF DigitOf, Printf!Digits
<1> QED
  BY <1>1, DigitValue

\* A field, from its sign or its first digit or zero on, reads back as the number.
LEMMA FieldReads ==
  ASSUME number \in Numbers, NEW c \in Letters, NEW s, NEW m \in Nat, NEW n \in Nat \ {0},
         NEW spec \in [zero : BOOLEAN, before : Int, after : Int], IsField(s, spec, c, m, n)
  PROVE  LET t == Printf!Unpadded(s)
             minus == t[1] = "-"
         IN  /\ minus <=> Minus(c) = 1
             /\ Printf!Horner(IF minus THEN Tail(t) ELSE t, Printf!Base(c)) = Amount(c)
<1>0. IsPadded(s, spec, c, m, n)
  BY PaddingIs
<1> DEFINE v == Amount(c)
           b == Printf!Base(c)
           g == Minus(c)
           p == Pad(spec, m)
           L == m + g + n
           t == Printf!Unpadded(s)
           u == IF g = 1 THEN Tail(t) ELSE t
           z == m - p
           digit(k) == (v \div Printf!Powers(b)[n - k]) % b
<1>1. v \in Nat /\ g \in 0..1 /\ b \in {8, 10, 16}
  BY AmountIs, BaseIs
<1>2. Len(s) = L /\ s \in Seq(Symbols)
  BY DEF IsField
<1>3. spec.zero => \A k \in 1..m : s[g + k] = "0"
  BY DEF IsField
<1>4. g = 1 => s[IF spec.zero THEN 1 ELSE m + 1] = "-"
  BY DEF IsField
<1>5. \A k \in 1..n : Printf!ValueOf(s[m + g + k]) = digit(k) /\ s[m + g + k] # "-"
  BY DigitsStand
<1>6. Places(v, b, n)
  BY DEF IsField
<1>7. t = SubSeq(s, p + 1, L) /\ p \in Nat /\ p <= m
  BY <1>0 DEF IsPadded
<1>8. (spec.zero => p = 0) /\ (~spec.zero => p = m)
  BY DEF Pad
<1> HIDE DEF p, t, v, b, g, digit
<1>9. L \in Nat /\ p <= L /\ L - p = z + g + n /\ z \in Nat
  BY <1>1, <1>7
<1>10. /\ t \in Seq(Symbols) /\ Len(t) = z + g + n
       /\ \A k \in 1..z + g + n : t[k] = s[p + k]
  <2> HIDE DEF L, z
  <2> QED
    BY <1>2, <1>7, <1>9, RestIs
<1>11. p + (z + g) = m + g /\ (z > 0 => spec.zero /\ p = 0)
  BY <1>1, <1>7, <1>8
<1>12. ASSUME NEW k \in 1..z PROVE t[g + k] = "0"
  <2>1. k \in 1..m /\ p = 0 /\ spec.zero /\ p + (g + k) = g + k /\ g + k \in 1..z + g + n
    BY <1>1, <1>7, <1>9, <1>11
  <2>2. s[g + k] = "0"
    BY <1>3, <2>1
  <2> HIDE DEF z
  <2> QED
    BY <1>10, <2>1, <2>2
<1>13. ASSUME NEW k \in 1..n PROVE t[g + (z + k)] = s[m + g + k]
  <2>1. g + (z + k) \in 1..z + g + n /\ p + (g + (z + k)) = m + g + k
    BY <1>1, <1>7, <1>9
  <2> HIDE DEF z
  <2> QED
    BY <1>10, <2>1
<1> HIDE DEF z, L
<1>14. t[1] = "-" <=> g = 1
  <2>1. CASE g = 1
    <3>1. 1 \in 1..z + g + n /\ p + 1 = IF spec.zero THEN 1 ELSE m + 1
      BY <1>8, <1>9, <2>1
    <3> QED
      BY <1>4, <1>10, <2>1, <3>1
  <2>2. CASE g = 0 /\ z > 0
    <3>1. 1 \in 1..z /\ g + 1 = 1
      BY <1>9, <2>2
    <3> QED
      BY <1>12, <2>2, <3>1
  <2>3. CASE g = 0 /\ z = 0
    <3>1. 1 \in 1..n /\ g + (z + 1) = 1
      BY <2>3
    <3>2. t[1] = s[m + g + 1]
      BY <1>13, <3>1
    <3> QED
      BY <1>5, <2>3, <3>1, <3>2
  <2> QED
    BY <1>1, <1>9, <2>1, <2>2, <2>3
<1>15. Len(u) = z + n /\ \A k \in 1..z + n : u[k] = t[g + k]
  <2>1. CASE g = 1
    <3>1. z + g + n \in Nat \ {0} /\ (z + g + n) - 1 = z + n
      BY <1>9, <2>1
    <3>2. Len(Tail(t)) = z + n /\ \A k \in 1..z + n : Tail(t)[k] = t[k + 1]
      BY <1>10, <3>1, TailIs
    <3>3. \A k \in 1..z + n : k + 1 = g + k
      BY <2>1, <1>9
    <3> QED
      BY <2>1, <3>2, <3>3
  <2>2. CASE g = 0
    <3>1. z + g + n = z + n /\ \A k \in 1..z + n : g + k = k
      BY <1>9, <2>2
    <3> QED
      BY <1>10, <2>2, <3>1
  <2> QED
    BY <1>1, <2>1, <2>2
<1> HIDE DEF u
<1>16. \A k \in 1..z : Printf!ValueOf(u[k]) = 0
  <2>1. \A k \in 1..z : k \in 1..z + n
    BY <1>9
  <2> QED
    BY <1>12, <1>15, <2>1, ZeroIs
<1>17. \A k \in 1..n : Printf!ValueOf(u[z + k]) = digit(k)
  <2>1. \A k \in 1..n : z + k \in 1..z + n
    BY <1>9
  <2> QED
    BY <1>5, <1>13, <1>15, <2>1
<1>18. Printf!Horner(u, b) = v
  <2>1. b \in Nat /\ b >= 2
    BY <1>1
  <2>2. \A k \in 1..n : Printf!ValueOf(u[z + k]) = (v \div Printf!Powers(b)[n - k]) % b
    BY <1>17 DEF digit
  <2>3. ReadsAs(u, v, b, z, n)
    BY <1>15, <1>16, <2>2 DEF ReadsAs
  <2> QED
    BY <1>1, <1>6, <1>9, <2>1, <2>3, ReadsBack
<1> QED
  BY <1>14, <1>18 DEF t, g, u, b, v

\* A field is as wide as it is asked to be, or as its digits need.
LEMMA FieldWidth ==
  ASSUME number \in Numbers, NEW c \in Letters, NEW s, NEW m \in Nat, NEW n \in Nat \ {0},
         NEW spec \in [zero : BOOLEAN, before : Int, after : Int], IsField(s, spec, c, m, n)
  PROVE  /\ Len(s) >= spec.before
         /\ Len(s) > spec.before /\ Len(s) > 1 => s[1] \notin {"blank", "0"}
         /\ \A k \in 1..Len(s) : s[k] = "blank" => k \in Printf!Padding(s)
<1>0. IsPadded(s, spec, c, m, n)
  BY PaddingIs
<1> DEFINE v == Amount(c)
           b == Printf!Base(c)
           g == Minus(c)
           a == spec.before
           top == (v \div Printf!Powers(b)[n - 1]) % b
           L == Len(s)
<1>1. v \in Nat /\ g \in 0..1 /\ b \in {8, 10, 16} /\ a \in Int
  BY AmountIs, BaseIs
<1>2. L = m + g + n /\ m = IF a - n - g < 0 THEN 0 ELSE a - n - g
  BY DEF IsField
<1>3. g = 1 => s[IF spec.zero THEN 1 ELSE m + 1] = "-"
  BY DEF IsField
<1>4. Places(v, b, n)
  BY DEF IsField
<1>5. s[m + g + 1] # "blank" /\ (s[m + g + 1] = "0" <=> top = 0)
  <2>1. 1 \in 1..n
    OBVIOUS
  <2> QED
    BY <2>1, DigitsStand
<1>6. /\ Printf!Padding(s) = 1..Pad(spec, m) /\ Pad(spec, m) \in Nat
      /\ \A k \in Nat : 1 <= k /\ k <= L /\ s[k] = "blank" => k <= Pad(spec, m)
  BY <1>0 DEF IsPadded
<1>7. n > 1 => top # 0
  <2>1. b \in Nat /\ b >= 2 /\ n \in Nat
    BY <1>1
  <2> QED
    BY <1>1, <1>4, <2>1, TopDigit
<1> HIDE DEF v, b, g, a, top, L
<1>8. L >= a /\ L \in Nat
  BY <1>1, <1>2
<1>9. ASSUME L > a, L > 1 PROVE s[1] \notin {"blank", "0"}
  <2>1. m = 0
    BY <1>1, <1>2, <1>9
  <2>2. CASE g = 1
    <3>1. s[1] = "-"
      BY <1>3, <2>1, <2>2
    <3> QED
      BY <3>1
  <2>3. CASE g = 0
    <3>1. n > 1 /\ m + g + 1 = 1
      BY <1>2, <1>9, <2>1, <2>3
    <3> QED
      BY <1>5, <1>7, <3>1
  <2> QED
    BY <1>1, <2>2, <2>3
<1>10. \A k \in 1..L : s[k] = "blank" => k \in Printf!Padding(s)
  <2> SUFFICES ASSUME NEW k \in 1..L, s[k] = "blank" PROVE k \in 1..Pad(spec, m)
    BY <1>6
  <2>1. k \in Nat /\ 1 <= k /\ k <= L
    BY <1>8
  <2>2. k <= Pad(spec, m)
    BY <1>6, <2>1
  <2> QED
    BY <1>6, <2>1, <2>2
<1> QED
  BY <1>8, <1>9, <1>10 DEF L, a

-----------------------------------------------------------------------------
(* Printing: what was printed last, and what both functions print. *)

Specs == [zero : BOOLEAN, before : Int, after : Int]
FieldOf(spec, c) == [chars |-> Printf!Number(spec, c), before |-> spec.before,
                     base |-> Printf!Base(c), signed |-> Printf!IsSigned(c)]
FieldKnown == field = Printf!NoField \/ \E spec \in Specs, c \in Letters : field = FieldOf(spec, c)

LEMMA FieldMeans ==
  ASSUME number \in Numbers, FieldKnown
  PROVE  Printf!NumbersReadBack /\ Printf!FieldsKeepWidth
<1> SUFFICES ASSUME field # Printf!NoField
             PROVE  Printf!NumbersReadBack /\ Printf!FieldsKeepWidth
  BY DEF Printf!NumbersReadBack, Printf!FieldsKeepWidth
<1>1. PICK spec \in Specs, c \in Letters : field = FieldOf(spec, c)
  BY DEF FieldKnown
<1> DEFINE s == Printf!Number(spec, c)
           t == Printf!Unpadded(s)
           minus == t[1] = "-"
           read == Printf!Horner(IF minus THEN Tail(t) ELSE t, Printf!Base(c))
<1>2. /\ field.chars = s /\ field.before = spec.before
      /\ field.base = Printf!Base(c) /\ field.signed = Printf!IsSigned(c)
  BY <1>1 DEF FieldOf
<1>3. spec \in [zero : BOOLEAN, before : Int, after : Int]
  BY DEF Specs
<1>4. PICK m \in Nat, n \in Nat \ {0} : IsField(s, spec, c, m, n)
  BY <1>3, NumberIs
<1>5. (minus <=> Minus(c) = 1) /\ read = Amount(c)
  BY <1>3, <1>4, FieldReads
<1>6. /\ Len(s) >= spec.before
      /\ Len(s) > spec.before /\ Len(s) > 1 => s[1] \notin {"blank", "0"}
      /\ \A k \in 1..Len(s) : s[k] = "blank" => k \in Printf!Padding(s)
  BY <1>3, <1>4, FieldWidth
<1> HIDE DEF s
<1>7. Printf!FieldsKeepWidth
  BY <1>2, <1>6 DEF Printf!FieldsKeepWidth, Printf!Blank
<1>8. Amount(c) \in Nat /\ (Minus(c) = 1 => Amount(c) # 0)
  BY AmountIs
<1>9. number \in Nat /\ Printf!Word \in Nat
  BY PrintfConstants
<1> DEFINE Meant == IF Printf!IsSigned(c) /\ number >= Printf!Word \div 2 THEN number - Printf!Word
                    ELSE number
<1>10. (IF minus THEN -read ELSE read) = Meant
  <2>1. CASE Printf!IsSigned(c) /\ Printf!Negative(number)
    <3>1. Minus(c) = 1 /\ Amount(c) = Printf!Word - number
      BY <2>1 DEF Minus, Amount
    <3>2. Meant = number - Printf!Word
      BY <2>1 DEF Printf!Negative
    <3> HIDE DEF minus, read, Meant
    <3> QED
      BY <1>5, <1>9, <3>1, <3>2
  <2>2. CASE ~(Printf!IsSigned(c) /\ Printf!Negative(number))
    <3>1. Minus(c) = 0 /\ Amount(c) = number
      BY <2>2 DEF Minus, Amount
    <3>2. Meant = number
      BY <2>2 DEF Printf!Negative
    <3> HIDE DEF minus, read, Meant
    <3> QED
      BY <1>5, <1>9, <3>1, <3>2
  <2> QED
    BY <2>1, <2>2
<1>11. minus => read # 0
  BY <1>5, <1>8
<1> HIDE DEF t
<1>12. Printf!NumbersReadBack
  BY <1>2, <1>10, <1>11 DEF Printf!NumbersReadBack, t
<1> QED
  BY <1>7, <1>12

\* Nothing is repeated no times.
LEMMA RepeatNone == ASSUME NEW c, NEW n \in Int, n <= 0 PROVE Printf!Repeat(c, n) = <<>>
BY DEF Printf!Repeat

\* Where the digits of a number to base 16 begin.
LEMMA TopNibble ==
  ASSUME NEW v \in Nat, v < Printf!Word, v # 0, NEW n \in Nat \ {0}, Places(v, 16, n)
  PROVE  /\ n \in 1..Nibbles /\ Printf!Nibble(v, n) # 0
         /\ \A j \in n + 1..Nibbles : Printf!Nibble(v, j) = 0
<1> DEFINE p(k) == Printf!Powers(16)[k]
<1>1. p(0) = 1 /\ \A k \in Nat : p(k) \in Nat \ {0} /\ p(k + 1) = 16 * p(k)
  <2>1. 16 \in Nat \ {0}
    OBVIOUS
  <2> QED
    BY <2>1, PowersAre
<1>2. \A k \in Nat, j \in Nat : k <= j => p(k) <= p(j)
  <2>1. 16 \in Nat \ {0}
    OBVIOUS
  <2> QED
    BY <2>1, PowersGrow
<1>3. p(n) > v /\ (n = 1 \/ p(n - 1) <= v)
  BY DEF Places
<1>4. n > 1 => (v \div p(n - 1)) % 16 # 0
  <2>1. 16 \in Nat /\ 16 >= 2 /\ n \in Nat
    OBVIOUS
  <2> QED
    BY <2>1, TopDigit
<1>5. \A k \in Nat \ {0} : Printf!Nibble(v, k) = (v \div p(k - 1)) % 16
  BY DEF Printf!Nibble
<1>6. Nibbles \in Nat \ {0} /\ Printf!Word = p(Nibbles)
  BY PrintfConstants
<1> HIDE DEF p
<1>7. n \in 1..Nibbles
  <2> SUFFICES ASSUME n > Nibbles PROVE FALSE
    BY <1>6
  <2>1. n - 1 \in Nat /\ Nibbles <= n - 1 /\ n # 1 /\ Nibbles \in Nat
    BY <1>6
  <2>2. p(Nibbles) <= p(n - 1) /\ p(n - 1) <= v /\ p(Nibbles) \in Nat /\ p(n - 1) \in Nat
    BY <1>1, <1>2, <1>3, <2>1
  <2> QED
    BY <1>6, <2>2
<1>8. Printf!Nibble(v, n) # 0
  <2>1. CASE n > 1
    BY <1>4, <1>5, <2>1
  <2>2. CASE n = 1
    <3>1. p(0 + 1) = 16 * p(0) /\ 0 + 1 = 1 /\ 1 - 1 = 0
      BY <1>1
    <3>2. v < 16
      BY <1>1, <1>3, <2>2, <3>1
    <3>3. v \div p(1 - 1) = v
      BY <1>1, <3>1
    <3>4. v % 16 = v
      BY <3>2
    <3> QED
      BY <1>5, <2>2, <3>3, <3>4
  <2> QED
    BY <2>1, <2>2
<1>9. ASSUME NEW j \in n + 1..Nibbles PROVE Printf!Nibble(v, j) = 0
  <2> DEFINE q == p(j - 1)
  <2>1. j \in Nat \ {0} /\ j - 1 \in Nat /\ n <= j - 1 /\ n \in Nat
    BY <1>6
  <2>2. p(n) <= q /\ q \in Nat \ {0} /\ p(n) \in Nat
    BY <1>1, <1>2, <2>1
  <2> HIDE DEF q
  <2>3. v = 0 * q + v /\ v \in 0..q - 1
    BY <1>3, <2>2
  <2>4. v \div q = 0
    BY <2>2, <2>3, DivisionUnique
  <2>5. Printf!Nibble(v, j) = (v \div q) % 16
    BY <1>5, <2>1 DEF q
  <2> QED
    BY <2>4, <2>5
<1> QED
  BY <1>7, <1>8, <1>9

\* %x prints the same in both.
LEMMA SameDigits ==
  ASSUME number \in Numbers
  PROVE  Printf!Number(Printf!Fresh, "x") = Printf!HexDigits(number)
<1> DEFINE v == number
           places == Printf!PlacesIn(v, 16)
           digit(k) == Printf!Digits[k + 1]
           chars == [k \in 1..Len(places) |-> digit(places[k])]
           fill == Printf!Width(Printf!Fresh, Len(places), <<>>)
<1>1. v \in Nat /\ v < Printf!Word
  BY PrintfConstants
<1>2. Printf!Number(Printf!Fresh, "x") = (Printf!Repeat("blank", fill) \o <<>>) \o chars
  BY DEF Printf!Number, Printf!IsSigned, Printf!Base, Printf!Fresh, Printf!Blank
<1> HIDE DEF v
<1>3. PICK n \in 1..Printf!Word :
        /\ Places(v, 16, n)
        /\ places = [k \in 1..n |-> (v \div Printf!Powers(16)[n - k]) % 16]
  <2>1. 16 \in Nat /\ 16 >= 2
    OBVIOUS
  <2> HIDE DEF places
  <2> QED
    BY <1>1, <2>1, PlacesAre DEF places
<1>4. n \in Nat \ {0}
  BY PrintfConstants
<1> HIDE DEF places
<1>5. Len(places) = n
  BY <1>3, <1>4
<1> DEFINE x(k) == (v \div Printf!Powers(16)[n - k]) % 16
<1>6. \A k \in 1..n : x(k) \in 0..15
  <2> SUFFICES ASSUME NEW k \in 1..n PROVE x(k) \in 0..15
    OBVIOUS
  <2>1. n - k \in Nat /\ 16 \in Nat \ {0}
    BY <1>4
  <2>2. Printf!Powers(16)[n - k] \in Nat \ {0}
    BY <2>1, PowersAre
  <2>3. v \div Printf!Powers(16)[n - k] \in Nat
    BY <1>1, <2>2, Division
  <2> QED
    BY <2>3
<1>7. chars = [k \in 1..n |-> digit(x(k))]
  BY <1>3, <1>5
<1>8. chars \in Seq(Symbols) /\ Len(chars) = n
  <2>1. \A d \in 0..15 : digit(d) \in Symbols
    BY DEF Symbols
  <2> HIDE DEF digit, x, chars
  <2>2. \A k \in 1..n : digit(x(k)) \in Symbols
    BY <1>6, <2>1
  <2> QED
    BY <1>4, <1>7, <2>2
<1>9. fill \in Int /\ fill <= 0
  BY <1>4, <1>5 DEF Printf!Width, Printf!Fresh
<1> HIDE DEF chars, fill
<1>10. Printf!Number(Printf!Fresh, "x") = chars
  <2>1. Printf!Repeat("blank", fill) = <<>>
    BY <1>9, RepeatNone
  <2>2. <<>> \o <<>> = <<>> /\ <<>> \o chars = chars
    BY <1>8
  <2> QED
    BY <1>2, <2>1, <2>2
<1>11. CASE v = 0
  <2>1. n = 1
    <3> SUFFICES ASSUME n # 1 PROVE FALSE
      OBVIOUS
    <3>1. n - 1 \in Nat /\ 16 \in Nat \ {0} /\ Printf!Powers(16)[n - 1] <= 0
      BY <1>3, <1>4, <1>11 DEF Places
    <3>2. Printf!Powers(16)[n - 1] \in Nat \ {0}
      BY <3>1, PowersAre
    <3> QED
      BY <3>1, <3>2
  <2>2. x(1) = 0
    <3>1. Printf!Powers(16)[0] = 1
      <4>1. 16 \in Nat \ {0}
        OBVIOUS
      <4> QED
        BY <4>1, PowersAre
    <3>2. x(1) = (0 \div Printf!Powers(16)[1 - 1]) % 16
      BY <1>11, <2>1
    <3>3. x(1) = (0 \div 1) % 16
      BY <3>1, <3>2
    <3> QED
      BY <3>3
  <2>3. digit(0) = "0"
    BY DEF Printf!Digits
  <2> HIDE DEF digit, x
  <2>4. \A k \in 1..1 : digit(x(k)) = "0"
    BY <2>2, <2>3
  <2>5. chars = <<"0">>
    <3>1. Len(chars) = 1 /\ chars[1] = "0"
      BY <1>7, <1>8, <2>1, <2>4
    <3> QED
      BY <1>8, <3>1
  <2> QED
    BY <1>10, <1>11, <2>5 DEF Printf!HexDigits, v
<1>12. CASE v # 0
  <2> DEFINE IsTop(k) == /\ Printf!Nibble(v, k) # 0
                         /\ \A j \in k + 1..Nibbles : Printf!Nibble(v, j) = 0
             top == CHOOSE k \in 1..Nibbles : IsTop(k)
  <2>0. Nibbles \in Nat
    BY PrintfConstants
  <2>1. n \in 1..Nibbles /\ IsTop(n)
    BY <1>1, <1>3, <1>4, <1>12, TopNibble
  <2>2. top \in 1..Nibbles /\ IsTop(top)
    BY <2>1
  <2>3. Printf!HexDigits(v) = [k \in 1..top |-> digit(Printf!Nibble(v, top + 1 - k))]
    BY <1>12 DEF Printf!HexDigits
  <2> HIDE DEF top
  <2>4. top = n
    <3>1. ~(top < n)
      BY <2>0, <2>1, <2>2
    <3>2. ~(n < top)
      BY <2>0, <2>1, <2>2
    <3> QED
      BY <2>0, <2>1, <2>2, <3>1, <3>2
  <2>5. \A k \in 1..n : Printf!Nibble(v, n + 1 - k) = x(k)
    <3> SUFFICES ASSUME NEW k \in 1..n PROVE Printf!Nibble(v, n + 1 - k) = x(k)
      OBVIOUS
    <3>1. (n + 1 - k) - 1 = n - k
      BY <1>4
    <3> QED
      BY <3>1 DEF Printf!Nibble
  <2> HIDE DEF digit, x
  <2>6. Printf!HexDigits(v) = [k \in 1..n |-> digit(x(k))]
    BY <2>3, <2>4, <2>5
  <2> QED
    BY <1>7, <1>10, <2>6 DEF v
<1> QED
  BY <1>11, <1>12

\* A width or precision in the format, or none.
Asked(n) == -1..Printf!Powers(10)[n] - 1

PrintOK ==
  /\ fmt \in Seq(Alphabet) /\ Len(fmt) <= MaxLen /\ number \in Numbers /\ FieldKnown
  /\ log = [state |-> log.state, spec |-> log.spec, out |-> log.out]
  /\ log.state \in {"chars", "firstFmtChar", "otherFmtChar"}
  /\ log.spec \in [zero : BOOLEAN, before : Asked(Len(fmt)), after : Asked(Len(fmt))]
  /\ log.state = "firstFmtChar" => log.spec = Printf!Fresh
  /\ alt = [escape |-> alt.escape, out |-> alt.out] /\ alt.escape \in BOOLEAN
  /\ common => /\ log.state # "otherFmtChar" /\ (log.state = "chars" <=> ~alt.escape)
               /\ log.out = alt.out

PrintInv == part = "printf" => PrintOK

\* One more digit fits in one more character of the format.
LEMMA AskedMore ==
  ASSUME NEW n \in Nat
  PROVE  /\ Asked(n) \subseteq Asked(n + 1) /\ 0 \in Asked(n) /\ -1 \in Asked(n)
         /\ Asked(n) \subseteq Int
         /\ \A a \in Asked(n), c \in Printf!Decimal : Printf!WithDigit(a, c) \in Asked(n + 1)
<1> DEFINE p == Printf!Powers(10)[n]
<1>1. p \in Nat \ {0} /\ Printf!Powers(10)[n + 1] = 10 * p
  <2>1. 10 \in Nat \ {0}
    OBVIOUS
  <2> QED
    BY <2>1, PowersAre
<1> HIDE DEF p
<1>2. Asked(n) = -1..p - 1 /\ Asked(n + 1) = -1..10 * p - 1
  BY <1>1 DEF Asked, p
<1>3. \A c \in Printf!Decimal : Printf!ValueOf(c) \in 0..9
  <2> SUFFICES ASSUME NEW k \in 1..10 PROVE Printf!ValueOf(Printf!Digits[k]) \in 0..9
    BY DEF Printf!Decimal
  <2>1. k - 1 \in 0..15 /\ (k - 1) + 1 = k /\ k - 1 \in 0..9
    OBVIOUS
  <2>2. DigitOf(k - 1, Printf!Digits[k])
    BY <2>1 DEF DigitOf
  <2>3. Printf!ValueOf(Printf!Digits[k]) = k - 1
    BY <2>1, <2>2, DigitValue
  <2> QED
    BY <2>1, <2>3
<1>4. ASSUME NEW a \in Asked(n), NEW c \in Printf!Decimal
      PROVE  Printf!WithDigit(a, c) \in Asked(n + 1)
  <2> DEFINE d == Printf!ValueOf(c)
  <2>1. d \in 0..9 /\ a \in -1..p - 1
    BY <1>2, <1>3
  <2>2. Printf!WithDigit(a, c) = IF a < 0 THEN d ELSE a * 10 + d
    BY DEF Printf!WithDigit
  <2> HIDE DEF d
  <2>3. (IF a < 0 THEN d ELSE a * 10 + d) \in -1..10 * p - 1
    BY <1>1, <2>1
  <2> QED
    BY <1>2, <2>2, <2>3
<1> QED
  BY <1>1, <1>2, <1>4

LEMMA NoDecimal == {".", "l", "c", "x", "s"} \cap Printf!Decimal = {}
<1>1. \A k \in 1..10 : Printf!Digits[k] \notin {".", "l", "c", "x", "s"}
  BY DEF Printf!Digits
<1> QED
  BY <1>1 DEF Printf!Decimal

LEMMA FormatLonger ==
  ASSUME PrintOK, NEW c \in Alphabet, Len(fmt) < MaxLen, fmt' = Append(fmt, c)
  PROVE  /\ Len(fmt) \in Nat /\ fmt' \in Seq(Alphabet) /\ Len(fmt') = Len(fmt) + 1
         /\ Len(fmt') <= MaxLen
<1>1. MaxLen \in Nat
  BY PrintfConstants
<1>2. fmt \in Seq(Alphabet)
  BY DEF PrintOK
<1> QED
  BY <1>1, <1>2

\* The specification of a conversion after one more character.
LEMMA SpecMore ==
  ASSUME PrintOK, NEW c, NEW n \in Nat, Len(fmt) = n
  PROVE  LET read == Printf!LogReads(c) IN
           /\ read = [state |-> read.state, spec |-> read.spec, out |-> read.out]
           /\ read.state \in {"chars", "firstFmtChar", "otherFmtChar"}
           /\ read.spec \in [zero : BOOLEAN, before : Asked(n + 1), after : Asked(n + 1)]
           /\ read.state = "firstFmtChar" => read.spec = Printf!Fresh
<1> DEFINE S == [zero : BOOLEAN, before : Asked(n + 1), after : Asked(n + 1)]
           read == Printf!LogReads(c)
<1>1. log = [state |-> log.state, spec |-> log.spec, out |-> log.out]
  BY DEF PrintOK
<1>2. log.spec \in [zero : BOOLEAN, before : Asked(n), after : Asked(n)]
  BY DEF PrintOK
<1>3. /\ Asked(n) \subseteq Asked(n + 1) /\ 0 \in Asked(n + 1) /\ -1 \in Asked(n + 1)
      /\ \A a \in Asked(n), d \in Printf!Decimal : Printf!WithDigit(a, d) \in Asked(n + 1)
  BY AskedMore
<1>4. log.spec \in S /\ Printf!Fresh \in S
  BY <1>2, <1>3 DEF Printf!Fresh
<1>5. [log.spec EXCEPT !.zero = TRUE] \in S /\ [log.spec EXCEPT !.after = 0] \in S
  BY <1>2, <1>3
<1>6. ASSUME c \in Printf!Decimal
      PROVE  /\ [log.spec EXCEPT !.before = Printf!WithDigit(@, c)] \in S
             /\ [log.spec EXCEPT !.after = Printf!WithDigit(@, c)] \in S
  BY <1>2, <1>3, <1>6
<1> HIDE DEF S
<1>7. CASE log.state = "chars" /\ c = "%"
  <2>1. read = [state |-> "firstFmtChar", spec |-> Printf!Fresh, out |-> log.out]
    BY <1>1, <1>7 DEF Printf!LogReads
  <2> QED
    BY <1>4, <2>1 DEF S
<1>8. CASE (log.state = "chars" /\ c # "%") \/ (log.state = "firstFmtChar" /\ c = "%")
  <2>1. read = [state |-> "chars", spec |-> log.spec, out |-> log.out \o <<c>>]
    BY <1>8 DEF Printf!LogReads
  <2> QED
    BY <1>4, <2>1 DEF S
<1>9. CASE log.state = "firstFmtChar" /\ c = "0"
  <2>1. read = [state |-> "otherFmtChar", spec |-> [log.spec EXCEPT !.zero = TRUE], out |-> log.out]
    BY <1>1, <1>9 DEF Printf!LogReads
  <2> QED
    BY <1>5, <2>1 DEF S
<1>10. CASE /\ log.state # "chars"
            /\ ~(log.state = "firstFmtChar" /\ c \in {"%", "0"})
  <2>1. read = Printf!OtherFmtChar(log.spec, c)
    BY <1>10 DEF Printf!LogReads
  <2>2. CASE c = "."
    <3>1. read = [state |-> "otherFmtChar", spec |-> [log.spec EXCEPT !.after = 0], out |-> log.out]
      BY <2>1, <2>2, NoDecimal DEF Printf!OtherFmtChar
    <3> QED
      BY <1>5, <3>1 DEF S
  <2>3. CASE c = "l"
    <3>1. read = [state |-> "otherFmtChar", spec |-> log.spec, out |-> log.out]
      BY <2>1, <2>3, NoDecimal DEF Printf!OtherFmtChar
    <3> QED
      BY <1>4, <3>1 DEF S
  <2>4. CASE c \in Printf!Decimal /\ c \notin {".", "l"}
    <3>1. /\ read.state = "otherFmtChar" /\ read.out = log.out
          /\ read = [state |-> read.state, spec |-> read.spec, out |-> read.out]
          /\ \/ read.spec = [log.spec EXCEPT !.before = Printf!WithDigit(@, c)]
             \/ read.spec = [log.spec EXCEPT !.after = Printf!WithDigit(@, c)]
      BY <2>1, <2>4 DEF Printf!OtherFmtChar
    <3> QED
      BY <1>6, <2>4, <3>1 DEF S
  <2>5. CASE c \notin Printf!Decimal /\ c \notin {".", "l"}
    <3>1. read = [state |-> "chars", spec |-> log.spec,
                  out |-> log.out \o Printf!Conversion(log.spec, c)]
      BY <2>1, <2>5 DEF Printf!OtherFmtChar
    <3> QED
      BY <1>4, <3>1 DEF S
  <2> QED
    BY <2>2, <2>3, <2>4, <2>5
<1> QED
  BY <1>1, <1>7, <1>8, <1>9, <1>10 DEF PrintOK

\* Where both know the conversion they print the same.
LEMMA SameConversion ==
  ASSUME number \in Numbers, NEW c \in {"c", "x", "s"}
  PROVE  Printf!Conversion(Printf!Fresh, c)
           = CASE c = "c" -> <<Printf!Char>> [] c = "x" -> Printf!HexDigits(number)
               [] c = "s" -> Printf!Text
<1>1. CASE c = "c"
  <2>1. Printf!Repeat("blank", -2) = <<>> /\ <<>> \o <<Printf!Char>> = <<Printf!Char>>
    BY RepeatNone
  <2>2. Printf!Conversion(Printf!Fresh, c) = Printf!Repeat("blank", (-1) - 1) \o <<Printf!Char>>
    BY <1>1 DEF Printf!Conversion, Printf!Fresh, Printf!Blank
  <2>3. (-1) - 1 = -2
    OBVIOUS
  <2> QED
    BY <1>1, <2>1, <2>2, <2>3
<1>2. CASE c = "x"
  <2>1. Printf!Conversion(Printf!Fresh, c) = Printf!Number(Printf!Fresh, "x")
    BY <1>2 DEF Printf!Conversion
  <2> QED
    BY <1>2, <2>1, SameDigits
<1>3. CASE c = "s"
  <2>1. Len(Printf!Text) = 2 /\ <<>> \o Printf!Text = Printf!Text
    BY DEF Printf!Text
  <2>2. Printf!Conversion(Printf!Fresh, c)
          = Printf!Repeat("blank", (-1) - Len(Printf!Text)) \o Printf!Text
    BY <1>3 DEF Printf!Conversion, Printf!Fresh, Printf!Blank
  <2>3. Printf!Repeat("blank", (-1) - 2) = <<>>
    BY RepeatNone
  <2> QED
    BY <1>3, <2>1, <2>2, <2>3
<1> QED
  BY <1>1, <1>2, <1>3

\* Where the format means the same to both they stay together.
LEMMA StayTogether ==
  ASSUME PrintOK, NEW c, common, log.state # "chars" => c \in {"%", "c", "x", "s"}
  PROVE  LET mine == Printf!LogReads(c)
             other == Printf!AltReads(c)
         IN  /\ mine.state # "otherFmtChar" /\ (mine.state = "chars" <=> ~other.escape)
             /\ mine.out = other.out
<1> DEFINE mine == Printf!LogReads(c)
           other == Printf!AltReads(c)
<1>1. /\ log.state \in {"chars", "firstFmtChar"} /\ (log.state = "chars" <=> ~alt.escape)
      /\ log.out = alt.out /\ alt.escape \in BOOLEAN /\ number \in Numbers
      /\ log = [state |-> log.state, spec |-> log.spec, out |-> log.out]
      /\ alt = [escape |-> alt.escape, out |-> alt.out]
      /\ log.state = "firstFmtChar" => log.spec = Printf!Fresh
  BY DEF PrintOK
<1>2. CASE log.state = "chars" /\ c = "%"
  <2>1. mine = [state |-> "firstFmtChar", spec |-> Printf!Fresh, out |-> log.out]
    BY <1>1, <1>2 DEF Printf!LogReads
  <2>2. other = [escape |-> TRUE, out |-> alt.out]
    BY <1>1, <1>2 DEF Printf!AltReads
  <2> QED
    BY <1>1, <2>1, <2>2
<1>3. CASE log.state = "chars" /\ c # "%"
  <2>1. mine = [state |-> "chars", spec |-> log.spec, out |-> log.out \o <<c>>]
    BY <1>3 DEF Printf!LogReads
  <2>2. other = [escape |-> FALSE, out |-> alt.out \o <<c>>]
    BY <1>1, <1>3 DEF Printf!AltReads
  <2> QED
    BY <1>1, <2>1, <2>2
<1>4. CASE log.state = "firstFmtChar" /\ c = "%"
  <2>1. mine = [state |-> "chars", spec |-> log.spec, out |-> log.out \o <<c>>]
    BY <1>4 DEF Printf!LogReads
  <2>2. other = [escape |-> FALSE, out |-> alt.out \o <<c>>]
    BY <1>1, <1>4 DEF Printf!AltReads
  <2> QED
    BY <1>1, <2>1, <2>2
<1>5. CASE log.state = "firstFmtChar" /\ c \in {"c", "x", "s"}
  <2> DEFINE printing == CASE c = "c" -> <<Printf!Char>> [] c = "x" -> Printf!HexDigits(number)
                           [] c = "s" -> Printf!Text
  <2>1. c \notin Printf!Decimal
    BY <1>5, NoDecimal
  <2>2. mine = Printf!OtherFmtChar(Printf!Fresh, c)
    BY <1>1, <1>5 DEF Printf!LogReads
  <2>3. mine = [state |-> "chars", spec |-> Printf!Fresh,
                out |-> log.out \o Printf!Conversion(Printf!Fresh, c)]
    BY <1>5, <2>1, <2>2 DEF Printf!OtherFmtChar
  <2>4. Printf!Conversion(Printf!Fresh, c) = printing
    BY <1>1, <1>5, SameConversion
  <2>5. other = [escape |-> FALSE, out |-> alt.out \o printing]
    BY <1>1, <1>5 DEF Printf!AltReads
  <2> HIDE DEF printing
  <2> QED
    BY <1>1, <2>3, <2>4, <2>5
<1> QED
  BY <1>1, <1>2, <1>3, <1>4, <1>5

LEMMA PrintRead ==
  ASSUME PrintOK, NEW c \in Alphabet, Printf!Read(c)
  PROVE  PrintOK'
<1> DEFINE n == Len(fmt)
           mine == Printf!LogReads(c)
           other == Printf!AltReads(c)
<1>1. /\ n < MaxLen /\ fmt' = Append(fmt, c) /\ log' = mine /\ alt' = other /\ number' = number
      /\ common' = (common /\ (log.state # "chars" => c \in {"%", "c", "x", "s"}))
  BY DEF Printf!Read
<1>2. n \in Nat /\ fmt' \in Seq(Alphabet) /\ Len(fmt') = n + 1 /\ Len(fmt') <= MaxLen
  BY <1>1, FormatLonger
<1>3. number' \in Numbers
  BY <1>1 DEF PrintOK
<1>4. FieldKnown'
  <2>1. CASE field' = Printf!NoField
    BY <2>1 DEF FieldKnown
  <2>2. CASE field' # Printf!NoField
    <3>1. c \in Letters /\ field' = FieldOf(log.spec, c)
      BY <2>2 DEF Printf!Read, Letters, FieldOf
    <3>2. log.spec \in Specs
      <4>1. /\ log.spec \in [zero : BOOLEAN, before : Asked(n), after : Asked(n)]
            /\ Asked(n) \subseteq Int
        BY <1>2, AskedMore DEF PrintOK
      <4> QED
        BY <4>1 DEF Specs
    <3>3. PICK spec \in Specs : spec = log.spec
      BY <3>2
    <3>4. FieldOf(spec, c)' = FieldOf(spec, c)
      BY <1>1 DEF FieldOf, Printf!Number, Printf!Negative
    <3> QED
      BY <3>1, <3>3, <3>4 DEF FieldKnown
  <2> QED
    BY <2>1, <2>2
<1>5. /\ mine = [state |-> mine.state, spec |-> mine.spec, out |-> mine.out]
      /\ mine.state \in {"chars", "firstFmtChar", "otherFmtChar"}
      /\ mine.spec \in [zero : BOOLEAN, before : Asked(n + 1), after : Asked(n + 1)]
      /\ mine.state = "firstFmtChar" => mine.spec = Printf!Fresh
  BY <1>2, SpecMore
<1>6. other = [escape |-> other.escape, out |-> other.out] /\ other.escape \in BOOLEAN
  <2>1. alt = [escape |-> alt.escape, out |-> alt.out] /\ alt.escape \in BOOLEAN
    BY DEF PrintOK
  <2>2. CASE alt.escape
    BY <2>2 DEF Printf!AltReads
  <2>3. CASE ~alt.escape
    BY <2>1, <2>3 DEF Printf!AltReads
  <2> QED
    BY <2>2, <2>3
<1>7. common' => /\ mine.state # "otherFmtChar" /\ (mine.state = "chars" <=> ~other.escape)
                 /\ mine.out = other.out
  BY <1>1, StayTogether
<1> HIDE DEF mine, other, n
<1> QED
  BY <1>1, <1>2, <1>3, <1>4, <1>5, <1>6, <1>7 DEF PrintOK

LEMMA PrintStarts == Printf!Init => PrintOK
<1> SUFFICES ASSUME Printf!Init PROVE PrintOK
  OBVIOUS
<1> USE DEF Printf!Init
<1>1. MaxLen \in Nat /\ 0 \in Nat
  BY PrintfConstants
<1>2. fmt \in Seq(Alphabet) /\ Len(fmt) = 0
  OBVIOUS
<1>3. Printf!Fresh \in [zero : BOOLEAN, before : Asked(0), after : Asked(0)]
  BY <1>1, AskedMore DEF Printf!Fresh
<1> QED
  BY <1>1, <1>2, <1>3 DEF PrintOK, FieldKnown

LEMMA PrintInvariant == LibrarySpec => []PrintInv
<1>1. LibraryInit => PrintInv
  BY PrintStarts DEF LibraryInit, PrintInv
<1>2. PrintInv /\ [LibraryNext]_library => PrintInv'
  <2> SUFFICES ASSUME PrintInv, [LibraryNext]_library, part' = "printf" PROVE PrintOK'
    BY DEF PrintInv
  <2>1. part = "printf" /\ (Printf!Next \/ UNCHANGED console)
    BY DEF LibraryNext, library
  <2>2. PrintOK
    BY <2>1 DEF PrintInv
  <2>3. ASSUME NEW c \in Alphabet, Printf!Read(c) PROVE PrintOK'
    BY <2>2, <2>3, PrintRead
  <2>4. CASE UNCHANGED console
    <3>1. /\ fmt' = fmt /\ number' = number /\ log' = log
          /\ alt' = alt /\ field' = field /\ common' = common
      BY <2>4 DEF console
    <3>3. \A spec, c : FieldOf(spec, c)' = FieldOf(spec, c)
      BY <3>1 DEF FieldOf, Printf!Number
    <3>4. FieldKnown'
      BY <2>2, <3>1, <3>3 DEF PrintOK, FieldKnown
    <3> QED
      BY <2>2, <3>1, <3>4 DEF PrintOK
  <2> QED
    BY <2>1, <2>3, <2>4 DEF Printf!Next
<1> QED
  BY <1>1, <1>2, PTL DEF LibrarySpec

\* Whatever the size of words and the numbers printed, and for every format: a
\* number in a field reads back as that number, most negative ones included, the
\* field is as wide as asked for, and both functions print the same where a format
\* means the same to both.
THEOREM PrintedRight == LibrarySpec => []PrintedIsMeant
<1>1. PrintOK => /\ Printf!TypeOK /\ Printf!NumbersReadBack
                 /\ Printf!FieldsKeepWidth /\ Printf!BothAgree
  <2> SUFFICES ASSUME PrintOK
               PROVE  /\ Printf!TypeOK /\ Printf!NumbersReadBack
                      /\ Printf!FieldsKeepWidth /\ Printf!BothAgree
    OBVIOUS
  <2>1. Printf!NumbersReadBack /\ Printf!FieldsKeepWidth
    BY FieldMeans DEF PrintOK
  <2>2. Printf!BothAgree
    BY DEF PrintOK, Printf!BothAgree
  <2>3. Printf!TypeOK
    <3> DEFINE n == Len(fmt)
    <3>1. n \in Nat /\ n <= MaxLen /\ MaxLen \in Nat
      BY PrintfConstants DEF PrintOK
    <3>2. /\ Printf!Powers(10)[n] <= Printf!Powers(10)[MaxLen]
          /\ Printf!Powers(10)[n] \in Nat /\ Printf!Powers(10)[MaxLen] \in Nat
      <4>1. 10 \in Nat \ {0}
        OBVIOUS
      <4> QED
        BY <3>1, <4>1, PowersAre, PowersGrow
    <3>3. Asked(n) \subseteq -1..Printf!Powers(10)[MaxLen]
      BY <3>2 DEF Asked
    <3>4. log.spec.zero \in BOOLEAN /\ log.spec.before \in Asked(n) /\ log.spec.after \in Asked(n)
      BY DEF PrintOK
    <3> QED
      BY <3>3, <3>4 DEF PrintOK, Printf!TypeOK
  <2> QED
    BY <2>1, <2>2, <2>3
<1>2. PrintInv => PrintedIsMeant
  BY <1>1 DEF PrintInv, PrintedIsMeant
<1> QED
  BY <1>2, PrintInvariant, PTL
=============================================================================
