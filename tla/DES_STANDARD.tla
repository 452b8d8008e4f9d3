---------------------------- MODULE DES_STANDARD ----------------------------
(***************************************************************************)
(* What the core is meant to compute: DES as a Feistel network with the    *)
(* closed form of its key schedule, cut after n rounds.  These are         *)
(* reference definitions; they share the tables and F with DES_DATAPATH    *)
(* but not the structure of the hardware: a round key is obtained from the *)
(* key in one step, and there are no registers.                            *)
(***************************************************************************)
EXTENDS DES_DATAPATH

\* The number of positions by which C0 and D0 are rotated to give round key i.
TotalShift == <<1, 2, 4, 6, 8, 10, 12, 14, 15, 17, 19, 21, 23, 25, 27, 28>>
ShiftUpTo(i) == IF i = 0 THEN 0 ELSE TotalShift[i]

\* Rotation of a 28-bit word to the left by n <= 28 positions.
RotateLeft(C, n) == {i \in 0..27 : (i + 28 - n) % 28 \in C}

RoundC(key, i) == RotateLeft(PC_1(key).C0, ShiftUpTo(i))
RoundD(key, i) == RotateLeft(PC_1(key).D0, ShiftUpTo(i))
RoundKey(key, i) == PC_2(Join(RoundC(key, i), RoundD(key, i), 28))

\* The two halves after each of the n rounds, K[i] being the key of round i.
Halves(pt, K, n) ==
  LET lr[i \in 0..n] ==
        IF i = 0 THEN [L |-> IP(pt).L0, R |-> IP(pt).R0]
                 ELSE LET s == lr[i-1]
                      IN  [L |-> s.R, R |-> SymDiff(s.L, F_FUNCTION(s.R, K[i]))]
  IN  lr

KeySchedule(key, n) == [i \in 1..n |-> RoundKey(key, i)]

\* The last round's halves leave the network swapped.
Output(lr) == IP_1(Join(lr.R, lr.L, 32))

Encrypt(pt, key, n) == Output(Halves(pt, KeySchedule(key, n), n)[n])

\* The same network with the round keys in reverse.
Decrypt(ct, key, n) ==
  Output(Halves(ct, [i \in 1..n |-> RoundKey(key, n+1-i)], n)[n])

=============================================================================
