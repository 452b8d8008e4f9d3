--------------------------- MODULE DES_DATAPATH ---------------------------
(***************************************************************************)
(* The combinational blocks of the DES core, one operator per Verilog      *)
(* module.  A w-bit word is the set of the indices, in the Verilog         *)
(* numbering w-1..0, of its bits that are 1, so that ^ is the symmetric    *)
(* difference.  The tables are read off the Verilog concatenations, left   *)
(* (most significant) to right.                                            *)
(*                                                                         *)
(* In every module an operator marked "Slip" is a deliberate mistake in    *)
(* the definition after it.  Nothing uses it; it is put in that            *)
(* definition's place to see which property notices the mistake.           *)
(***************************************************************************)
EXTENDS Naturals, Sequences, FiniteSetsExt

Word(w) == SUBSET (0 .. w-1)

\* {in[T[1]], in[T[2]], ...} : the first element drives the top bit.
Concat(T, in) == {i \in 0 .. Len(T)-1 : T[Len(T)-i] \in in}

\* {hi, lo} of two words, lo being w bits wide.
Join(hi, lo, w) == {b + w : b \in hi} \cup lo

\* The number that the bits i+n-1 .. i of a word stand for.
Field(in, i, n) == MapThenSumSet(LAMBDA b : 2^(b-i), in \cap (i .. i+n-1))

-----------------------------------------------------------------------------
\* IP.v : initial permutation, split into the two halves.
IP_L0 ==
     << 6, 14, 22, 30, 38, 46, 54, 62,  4, 12, 20, 28, 36, 44, 52, 60,
          2, 10, 18, 26, 34, 42, 50, 58,  0,  8, 16, 24, 32, 40, 48, 56>>
IP_R0 ==
     << 7, 15, 23, 31, 39, 47, 55, 63,  5, 13, 21, 29, 37, 45, 53, 61,
          3, 11, 19, 27, 35, 43, 51, 59,  1,  9, 17, 25, 33, 41, 49, 57>>
IP(Data_in) == [L0 |-> Concat(IP_L0, Data_in), R0 |-> Concat(IP_R0, Data_in)]

\* IP_1.v : final permutation.
IP_1_Cipertext ==
     <<24, 56, 16, 48,  8, 40,  0, 32, 25, 57, 17, 49,  9, 41,  1, 33,
         26, 58, 18, 50, 10, 42,  2, 34, 27, 59, 19, 51, 11, 43,  3, 35,
         28, 60, 20, 52, 12, 44,  4, 36, 29, 61, 21, 53, 13, 45,  5, 37,
         30, 62, 22, 54, 14, 46,  6, 38, 31, 63, 23, 55, 15, 47,  7, 39>>
IP_1(In) == Concat(IP_1_Cipertext, In)

\* PC_1.v and PC_2.v : the two choices of the key schedule.
PC_1_C0 ==
     << 7, 15, 23, 31, 39, 47, 55, 63,  6, 14, 22, 30, 38, 46,
         54, 62,  5, 13, 21, 29, 37, 45, 53, 61,  4, 12, 20, 28>>
PC_1_D0 ==
     << 1,  9, 17, 25, 33, 41, 49, 57,  2, 10, 18, 26, 34, 42,
         50, 58,  3, 11, 19, 27, 35, 43, 51, 59, 36, 44, 52, 60>>
PC_1(Des_key_in) == [C0 |-> Concat(PC_1_C0, Des_key_in), D0 |-> Concat(PC_1_D0, Des_key_in)]

PC_2_Round_key ==
     <<42, 39, 45, 32, 55, 51, 53, 28, 41, 50, 35, 46,
         33, 37, 44, 52, 30, 48, 40, 49, 29, 36, 43, 54,
         15,  4, 25, 19,  9,  1, 26, 16,  5, 11, 23,  8,
         12,  7, 17,  0, 22,  3, 10, 14,  6, 20, 27, 24>>
\* Slip: position 39 chosen twice, 42 never.
PC_2_Typo(In) == Concat([PC_2_Round_key EXCEPT ![1] = 39], In)
PC_2(In) == Concat(PC_2_Round_key, In)

\* SHIFT_LEFT_1.v and SHIFT_LEFT_2.v : 28-bit rotations to the left.
SHIFT_LEFT_1(C_in) == {i \in 0..27 : (i + 27) % 28 \in C_in}
SHIFT_LEFT_2(C_in) == {i \in 0..27 : (i + 26) % 28 \in C_in}

-----------------------------------------------------------------------------
\* E_MATRIX.v : expansion, and P_MATRIX.v : permutation of the S-box output.
E_MATRIX_E_OUT ==
     << 0, 31, 30, 29, 28, 27, 28, 27, 26, 25, 24, 23,
         24, 23, 22, 21, 20, 19, 20, 19, 18, 17, 16, 15,
         16, 15, 14, 13, 12, 11, 12, 11, 10,  9,  8,  7,
          8,  7,  6,  5,  4,  3,  4,  3,  2,  1,  0, 31>>
E_MATRIX(R) == Concat(E_MATRIX_E_OUT, R)

P_MATRIX_P_out ==
     <<16, 25, 12, 11,  3, 20,  4, 15, 31, 17,  9,  6, 27, 14,  1, 22,
         30, 24,  8, 18,  0,  5, 29, 23, 13, 19,  2, 26, 10, 21, 28,  7>>
P_MATRIX(P_in) == Concat(P_MATRIX_P_out, P_in)

\* Slip: | in place of ^.
E_XOR_KEY_Or(E, K) == [k \in 1..8 |-> {j \in 0..5 : j + 48 - 6*k \in E \cup K}]
\* E_XOR_KEY.v : the eight 6-bit S-box inputs; S1 is the top six bits.
E_XOR_KEY(E, K) ==
  LET TEMP == SymDiff(E, K)
  IN  [k \in 1..8 |-> {j \in 0..5 : j + 48 - 6*k \in TEMP}]

\* S_BOX.v : the case tables, S_table[k][addr+1].
S_table == <<
  <<14,  4, 13,  1,  2, 15, 11,  8,  3, 10,  6, 12,  5,  9,  0,  7,
     0, 15,  7,  4, 14,  2, 13,  1, 10,  6, 12, 11,  9,  5,  3,  8,
     4,  1, 14,  8, 13,  6,  2, 11, 15, 12,  9,  7,  3, 10,  5,  0,
    15, 12,  8,  2,  4,  9,  1,  7,  5, 11,  3, 14, 10,  0,  6, 13>>,
  <<15,  1,  8, 14,  6, 11,  3,  4,  9,  7,  2, 13, 12,  0,  5, 10,
     3, 13,  4,  7, 15,  2,  8, 14, 12,  0,  1, 10,  6,  9, 11,  5,
     0, 14,  7, 11, 10,  4, 13,  1,  5,  8, 12,  6,  9,  3,  2, 15,
    13,  8, 10,  1,  3, 15,  4,  2, 11,  6,  7, 12,  0,  5, 14,  9>>,
  <<10,  0,  9, 14,  6,  3, 15,  5,  1, 13, 12,  7, 11,  4,  2,  8,
    13,  7,  0,  9,  3,  4,  6, 10,  2,  8,  5, 14, 12, 11, 15,  1,
    13,  6,  4,  9,  8, 15,  3,  0, 11,  1,  2, 12,  5, 10, 14,  7,
     1, 10, 13,  0,  6,  9,  8,  7,  4, 15, 14,  3, 11,  5,  2, 12>>,
  << 7, 13, 14,  3,  0,  6,  9, 10,  1,  2,  8,  5, 11, 12,  4, 15,
    13,  8, 11,  5,  6, 15,  0,  3,  4,  7,  2, 12,  1, 10, 14,  9,
    10,  6,  9,  0, 12, 11,  7, 13, 15,  1,  3, 14,  5,  2,  8,  4,
     3, 15,  0,  6, 10,  1, 13,  8,  9,  4,  5, 11, 12,  7,  2, 14>>,
  << 2, 12,  4,  1,  7, 10, 11,  6,  8,  5,  3, 15, 13,  0, 14,  9,
    14, 11,  2, 12,  4,  7, 13,  1,  5,  0, 15, 10,  3,  9,  8,  6,
     4,  2,  1, 11, 10, 13,  7,  8, 15,  9, 12,  5,  6,  3,  0, 14,
    11,  8, 12,  7,  1, 14,  2, 13,  6, 15,  0,  9, 10,  4,  5,  3>>,
  <<12,  1, 10, 15,  9,  2,  6,  8,  0, 13,  3,  4, 14,  7,  5, 11,
    10, 15,  4,  2,  7, 12,  9,  5,  6,  1, 13, 14,  0, 11,  3,  8,
     9, 14, 15,  5,  2,  8, 12,  3,  7,  0,  4, 10,  1, 13, 11,  6,
     4,  3,  2, 12,  9,  5, 15, 10, 11, 14,  1,  7,  6,  0,  8, 13>>,
  << 4, 11,  2, 14, 15,  0,  8, 13,  3, 12,  9,  7,  5, 10,  6,  1,
    13,  0, 11,  7,  4,  9,  1, 10, 14,  3,  5, 12,  2, 15,  8,  6,
     1,  4, 11, 13, 12,  3,  7, 14, 10, 15,  6,  8,  0,  5,  9,  2,
     6, 11, 13,  8,  1,  4, 10,  7,  9,  5,  0, 15, 14,  2,  3, 12>>,
  <<13,  2,  8,  4,  6, 15, 11,  1, 10,  9,  3, 14,  5,  0, 12,  7,
     1, 15, 13,  8, 10,  3,  7,  4, 12,  5,  6, 11,  0, 14,  9,  2,
     7, 11,  4,  1,  9, 12, 14,  2,  0,  6, 10, 13, 15,  3,  5,  8,
     2,  1, 14,  7,  4, 10,  8, 13, 15, 12,  9,  0,  3,  5,  6, 11>> >>

\* Slips: the row is {in[0], in[5]}; the column is in[3:0].
S_addr_RowSwapped(in) == 32 * Field(in, 0, 1) + 16 * Field(in, 5, 1) + Field(in, 1, 4)
S_addr_LowColumn(in) == 32 * Field(in, 5, 1) + 16 * Field(in, 0, 1) + Field(in, 0, 4)
\* The address of a table: row = {in[5], in[0]}, column = in[4:1].
S_addr(in) == 32 * Field(in, 5, 1) + 16 * Field(in, 0, 1) + Field(in, 1, 4)
S_lookup(k, in) == S_table[k][S_addr(in) + 1]

\* {s1_out, ..., s8_out} : s1_out is the top four bits.
S_BOX(S_in) ==
  {b \in 0..31 : (S_lookup(8 - b \div 4, S_in[8 - b \div 4]) \div 2^(b % 4)) % 2 = 1}

\* F_FUNCTION.v : expansion, key mixing, substitution, permutation.
F_FUNCTION(R, Key) == P_MATRIX(S_BOX(E_XOR_KEY(E_MATRIX(R), Key)))

=============================================================================
