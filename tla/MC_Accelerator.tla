--------------------------- MODULE MC_Accelerator ---------------------------
(***************************************************************************)
(* Parts of the accelerator, one of five subjects in every behaviour; the  *)
(* others stay as they start:                                              *)
(*   stream     the core with its 16 rounds, fed a new block with a new    *)
(*              key at almost every clock edge: the testbench's vector and *)
(*              its complement, then 64 keys and plaintexts with single    *)
(*              bits set and their complements; a reset may strike once,   *)
(*              while the pipeline is full;                                *)
(*   registers  the register file with two rounds of the core under an     *)
(*              arbitrary master: every interleaving of writes, idle       *)
(*              cycles and resets;                                         *)
(*   boxes      all 8 x 64 inputs of S_BOX.v, a step flips one bit;        *)
(*   words      the permutations and the key schedule on all words of at   *)
(*              most two bits, which determine them since they are linear; *)
(*   control    DES_CONTROL with eight halves of a key: single bits at     *)
(*              both ends and next to them, and patterns.                  *)
(***************************************************************************)
EXTENDS DES_CONTROL, FiniteSets

CONSTANTS
  Rounds,                    \* of the stream
  WrapperRounds, WriteData   \* of the register file

SomeHalves ==
  {{0}, {1}, {26}, {27}, {0, 2}, {5, 13, 27}, {i \in 0..27 : i % 2 = 0}, 0..26}

\* 0 and 1: Start or not, and two values of every operand half.
MCWriteData == {{}, {0}}

All64 == 0..63

\* A 64-bit constant from its sixteen hexadecimal digits.
Hex(d) == {i \in All64 : (d[16 - i \div 4] \div 2^(i % 4)) % 2 = 1}

\* DES_TESTBENCH.v:52-53 and 71.
TestPlaintext  == Hex(<<0,0,1,2,3,4,5,6,7,8,9,10,11,12,13,14>>)
TestKey        == Hex(<<0,1,3,3,4,5,7,7,9,9,11,11,12,13,15,15>>)
TestCiphertext == Hex(<<1,10,11,15,15,6,9,13,5,10,9,3,14,8,0,11>>)

\* The block of pair n; the second of a pair is the complement of the first.
Vector(n) ==
  IF n = 0 THEN [pt |-> TestPlaintext, key |-> TestKey]
           ELSE [pt |-> {n - 1}, key |-> {(11 * n) % 64, (5 * n + 1) % 64}]
Fed(c) ==
  LET v == Vector(c \div 2)
  IN  IF c % 2 = 0 THEN v ELSE [pt |-> All64 \ v.pt, key |-> All64 \ v.key]

LastCycle == 129

\* Every seventh cycle is a bubble: its block flows through, not marked valid.
Drive(c) == [Start |-> c % 7 # 6, Plaintext |-> Fed(c).pt, Key_in |-> Fed(c).key]

VARIABLES
  subject,
  L_reg, R_reg, C_reg, D_reg, Valid_reg, block,
  cycle,    \* of the stream
  plaintext_reg, key_reg, start_reg, done_reg, quiet,
  L_w, R_w, C_w, D_w, Valid_w, block_w,   \* the stages behind the registers
  k, in,    \* the box, and its input
  w         \* the word

Core == INSTANCE DES_ALGORITHM
Wrapper == INSTANCE DES_AVALON_WRAPPER WITH
  Rounds <- WrapperRounds,
  L_reg <- L_w, R_reg <- R_w, C_reg <- C_w, D_reg <- D_w, Valid_reg <- Valid_w, block <- block_w
registers == <<plaintext_reg, key_reg, start_reg, done_reg, quiet,
               L_w, R_w, C_w, D_w, Valid_w, block_w>>
stream == <<L_reg, R_reg, C_reg, D_reg, Valid_reg, block, cycle>>

AcceleratorInit ==
  /\ subject \in {"stream", "registers", "boxes", "words", "control"}
  /\ IF subject = "boxes" THEN k \in 1..8 ELSE k = 1
  /\ in = {} /\ w = {} /\ Init /\ Core!CoreInit /\ cycle = 0 /\ Wrapper!Init

Feed ==
  \/ /\ cycle <= LastCycle
     /\ Core!Posedge(Drive(cycle))
     /\ cycle' = cycle + 1
  \/ Core!CoreReset /\ cycle = 40 /\ cycle' = cycle + 1
  \/ cycle > LastCycle /\ UNCHANGED stream
FlipInput == \E j \in 0..5 : in' = SymDiff(in, {j})
FlipWord == \E b \in 0..63 : w' = SymDiff(w, {b}) /\ Cardinality(w') <= 2

AcceleratorNext ==
  /\ UNCHANGED subject
  /\ IF subject = "stream" THEN Feed ELSE UNCHANGED stream
  /\ IF subject = "registers" THEN Wrapper!Next ELSE UNCHANGED registers
  /\ IF subject = "boxes" THEN FlipInput ELSE UNCHANGED in
  /\ IF subject = "words" THEN FlipWord ELSE UNCHANGED w
  /\ IF subject = "control" THEN Next ELSE UNCHANGED vars
  /\ UNCHANGED k
AcceleratorSpec ==
  AcceleratorInit /\ [][AcceleratorNext]_<<subject, k, in, w, stream, registers, vars>>

-----------------------------------------------------------------------------
\* Of a stream of blocks with neighbours' keys all different: every stage holds its
\* own block's key, rotated as the standard's schedule says for its round; when
\* Done is up the output is the encryption of the block of the last stage, which
\* the round keys in reverse order decipher; and complementary blocks under
\* complementary keys leave one after the other with complementary results.
StreamIsRight ==
  /\ Core!KeyTravelsWithBlock
  /\ Core!DoneDeliversEncryption
  /\ Core!OutputDeciphers
  /\ Core!ComplementsFollow

\* The encryption that DES_TESTBENCH.v:71 expects of its vector.
TestbenchVector ==
  \A b \in block[Rounds] :
    b = [pt |-> TestPlaintext, key |-> TestKey] => Core!Ciphertext = TestCiphertext

\* Once the operand registers have been left alone for the length of the
\* pipeline the output is their encryption, whatever else the master does.
QuietOperandsGiveResult == Wrapper!QuietOperandsGiveResult

-----------------------------------------------------------------------------
\* The output of the whole block with the other boxes at 0, the nibble of a
\* box, and the output bits that differ if those of bits are flipped.
Out(box, x) == S_BOX([j \in 1..8 |-> IF j = box THEN x ELSE {}])
Nibble(box) == 32 - 4*box .. 35 - 4*box
Flipped(bits) == SymDiff(Out(k, in), Out(k, SymDiff(in, bits)))

RowsArePermutations ==
  \A x \in SUBSET (0..5) :
    (x # in /\ x \cap {0, 5} = in \cap {0, 5}) => Out(k, x) # Out(k, in)

\* The design criteria of the standard, for every box and input of S_BOX.v: in a
\* row, the inputs that agree on the two outer bits, no output comes twice;
\* flipping one input bit, or the two middle ones, flips at least two output
\* bits, all in the box's own nibble.  A slip in a table, in the address or in
\* the order of the boxes breaks one of them.
BoxesMeetCriteria ==
  /\ RowsArePermutations
  /\ \A bits \in {{j} : j \in 0..5} \cup {{2, 3}} :
       Cardinality(Flipped(bits)) >= 2 /\ Flipped(bits) \subseteq Nibble(k)

ParityBits == {8*i : i \in 0..7}
BoxesReached(S_out) == {b \div 6 : b \in E_MATRIX(P_MATRIX(S_out))}

\* The final permutation undoes the initial one, with the halves unswapped.
FinalUndoesInitial == IP_1(Join(IP(w).L0, IP(w).R0, 32)) = w

\* Every key bit takes part in 12 to 15 of the 16 round keys, a parity bit in
\* none, and no two bits fall together (PC_1, the rotations and PC_2).
KeyBitsInMostRounds ==
  /\ \A b \in w \ ParityBits : Cardinality({i \in 1..16 : RoundKey({b}, i) # {}}) \in 12..15
  /\ Cardinality(PC_1(w).C0) + Cardinality(PC_1(w).D0) = Cardinality(w \ ParityBits)

\* The four bits of an S-box's output, permuted by P and expanded by E, reach
\* six boxes of the next round, no box twice.
OutputReachesSixBoxes ==
  \A b \in w \cap (0..31) :
    LET nibble == {c \in 0..31 : c \div 4 = b \div 4}
    IN  /\ Cardinality(BoxesReached(nibble)) = 6
        /\ Cardinality(E_MATRIX(P_MATRIX(nibble))) = 6

\* The permutations of blocks and of keys, each and in their order.
PermutationsFit == FinalUndoesInitial /\ OutputReachesSixBoxes /\ KeyBitsInMostRounds
=============================================================================
