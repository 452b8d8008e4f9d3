------------------------ MODULE DES_STANDARD_proofs ------------------------
(***************************************************************************)
(* Facts about the combinational blocks and about the reference network    *)
(* that the proofs about the core rest on.                                 *)
(***************************************************************************)
EXTENDS DES_STANDARD, WellFoundedInduction, NaturalsInduction, TLAPS

-----------------------------------------------------------------------------
(* Induction over the naturals for a set. *)

LEMMA LeastElement ==
  ASSUME NEW T \in SUBSET Nat, T # {}
  PROVE  \E m \in T : \A k \in T : ~(k < m)
<1>1. IsWellFoundedOn(OpToRel(<, Nat), Nat)
  BY NatLessThanWellFounded
<1>2. PICK m \in T : \A k \in T : ~(<<k, m>> \in OpToRel(<, Nat))
  BY <1>1, WFMin
<1> QED
  BY <1>2 DEF OpToRel

LEMMA SetInduction ==
  ASSUME NEW S, 0 \in S, \A n \in Nat : n \in S => n+1 \in S
  PROVE  Nat \subseteq S
<1> SUFFICES ASSUME Nat \ S # {}
             PROVE  FALSE
  OBVIOUS
<1>1. PICK m \in Nat \ S : \A k \in Nat \ S : ~(k < m)
  BY LeastElement
<1>2. m # 0 /\ m-1 \in Nat /\ m-1 < m
  BY <1>1
<1>3. m-1 \in S
  BY <1>1, <1>2
<1> QED
  BY <1>1, <1>2, <1>3

-----------------------------------------------------------------------------
(* The key schedule: rotating round by round gives the closed form. *)

\* A rotation by n positions turned one or two further.
LEMMA RotateFurther ==
  ASSUME NEW C, NEW n \in 0..27
  PROVE  /\ SHIFT_LEFT_1(RotateLeft(C, n)) = RotateLeft(C, n+1)
         /\ n # 27 => SHIFT_LEFT_2(RotateLeft(C, n)) = RotateLeft(C, n+2)
<1>1. ASSUME NEW i \in 0..27
      PROVE  /\ (i + 27) % 28 \in 0..27
             /\ (((i + 27) % 28) + 28 - n) % 28 = (i + 28 - (n+1)) % 28
  OBVIOUS
<1>2. ASSUME NEW i \in 0..27, n # 27
      PROVE  /\ (i + 26) % 28 \in 0..27
             /\ (((i + 26) % 28) + 28 - n) % 28 = (i + 28 - (n+2)) % 28
  OBVIOUS
<1>3. SHIFT_LEFT_1(RotateLeft(C, n)) = RotateLeft(C, n+1)
  BY <1>1 DEF SHIFT_LEFT_1, RotateLeft
<1>4. n # 27 => SHIFT_LEFT_2(RotateLeft(C, n)) = RotateLeft(C, n+2)
  BY <1>2 DEF SHIFT_LEFT_2, RotateLeft
<1> QED
  BY <1>3, <1>4

LEMMA RotateNothing ==
  ASSUME NEW C \in Word(28)
  PROVE  RotateLeft(C, 0) = C
<1>1. \A i \in 0..27 : (i + 28 - 0) % 28 = i
  OBVIOUS
<1>2. C \subseteq 0..27
  BY DEF Word
<1>3. RotateLeft(C, 0) = {i \in 0..27 : i \in C}
  BY <1>1 DEF RotateLeft
<1> QED
  BY <1>2, <1>3

-----------------------------------------------------------------------------
(* The rounds: the recursive function of Halves exists. *)

HalvesStep(s, k) == [L |-> s.R, R |-> SymDiff(s.L, F_FUNCTION(s.R, k))]
HalvesStart(pt) == [L |-> IP(pt).L0, R |-> IP(pt).R0]
IsHalves(f, pt, K, n) ==
  f = [i \in 0..n |-> IF i = 0 THEN HalvesStart(pt) ELSE HalvesStep(f[i-1], K[i])]

LEMMA HalvesExist ==
  ASSUME NEW pt, NEW K
  PROVE  \A n \in Nat : \E f : IsHalves(f, pt, K, n)
<1> DEFINE S == {n \in Nat : \E f : IsHalves(f, pt, K, n)}
<1>1. 0 \in S
  <2>1. IsHalves([i \in 0..0 |-> HalvesStart(pt)], pt, K, 0)
    BY DEF IsHalves
  <2> QED
    BY <2>1
<1>2. ASSUME NEW n \in Nat, n \in S
      PROVE  n+1 \in S
  <2>1. PICK f : IsHalves(f, pt, K, n)
    BY <1>2
  <2> DEFINE g == [i \in 0..n+1 |-> IF i = n+1 THEN HalvesStep(f[n], K[n+1]) ELSE f[i]]
  <2>2. IsHalves(g, pt, K, n+1)
    <3>1. \A i \in 0..n : f[i] = IF i = 0 THEN HalvesStart(pt) ELSE HalvesStep(f[i-1], K[i])
      BY <2>1 DEF IsHalves
    <3>2. \A i \in 0..n+1 :
            g[i] = IF i = 0 THEN HalvesStart(pt) ELSE HalvesStep(g[i-1], K[i])
      <4> SUFFICES ASSUME NEW i \in 0..n+1
                   PROVE  g[i] = IF i = 0 THEN HalvesStart(pt) ELSE HalvesStep(g[i-1], K[i])
        OBVIOUS
      <4>1. CASE i = n+1
        BY <4>1
      <4>2. CASE i \in 0..n
        BY <4>2, <3>1
      <4> QED
        BY <4>1, <4>2
    <3> QED
      BY <3>2 DEF IsHalves
  <2> QED
    BY <2>2
<1> HIDE DEF S
<1>3. Nat \subseteq S
  BY <1>1, <1>2, SetInduction
<1> QED
  BY <1>3 DEF S

LEMMA HalvesDef ==
  ASSUME NEW pt, NEW K, NEW n \in Nat
  PROVE  IsHalves(Halves(pt, K, n), pt, K, n)
<1>1. PICK f : IsHalves(f, pt, K, n)
  BY HalvesExist
<1> QED
  BY <1>1 DEF Halves, IsHalves, HalvesStep, HalvesStart

-----------------------------------------------------------------------------
(* The blocks return words of their widths. *)

LEMMA ConcatType ==
  ASSUME NEW n \in Nat, NEW T, Len(T) = n, NEW in
  PROVE  Concat(T, in) \in Word(n)
BY DEF Concat, Word

LEMMA IPType ==
  ASSUME NEW x
  PROVE  IP(x).L0 \in Word(32) /\ IP(x).R0 \in Word(32)
<1>1. Len(IP_L0) = 32 /\ Len(IP_R0) = 32
  BY DEF IP_L0, IP_R0
<1> QED
  BY <1>1, ConcatType DEF IP

LEMMA PC_1Type ==
  ASSUME NEW x
  PROVE  PC_1(x).C0 \in Word(28) /\ PC_1(x).D0 \in Word(28)
<1>1. Len(PC_1_C0) = 28 /\ Len(PC_1_D0) = 28
  BY DEF PC_1_C0, PC_1_D0
<1> QED
  BY <1>1, ConcatType DEF PC_1

LEMMA IP_1Type ==
  ASSUME NEW x
  PROVE  IP_1(x) \in Word(64)
<1>1. Len(IP_1_Cipertext) = 64
  BY DEF IP_1_Cipertext
<1> QED
  BY <1>1, ConcatType DEF IP_1

LEMMA F_FUNCTIONType ==
  ASSUME NEW R, NEW Key
  PROVE  F_FUNCTION(R, Key) \in Word(32)
<1>1. Len(P_MATRIX_P_out) = 32
  BY DEF P_MATRIX_P_out
<1> QED
  BY <1>1, ConcatType DEF F_FUNCTION, P_MATRIX

LEMMA ShiftType ==
  ASSUME NEW C
  PROVE  SHIFT_LEFT_1(C) \in Word(28) /\ SHIFT_LEFT_2(C) \in Word(28)
BY DEF SHIFT_LEFT_1, SHIFT_LEFT_2, Word

LEMMA SymDiffType ==
  ASSUME NEW w, NEW A \in Word(w), NEW B \in Word(w)
  PROVE  SymDiff(A, B) \in Word(w)
BY DEF SymDiff, Word

-----------------------------------------------------------------------------
(* The tables, entry by entry. *)

\* The tables of IP are the inverse of the one of IP_1.
LEMMA IPTables ==
  ASSUME NEW i \in 0..31
  PROVE  /\ IP_L0[32-i] \in 0..63 /\ IP_1_Cipertext[64 - IP_L0[32-i]] = i + 32
         /\ IP_R0[32-i] \in 0..63 /\ IP_1_Cipertext[64 - IP_R0[32-i]] = i
BY DEF IP_L0, IP_R0, IP_1_Cipertext

LEMMA IP_1Table ==
  ASSUME NEW i \in 0..63
  PROVE  LET j == IP_1_Cipertext[64-i]
         IN  /\ j \in 0..63
             /\ j < 32 => IP_R0[32-j] = i
             /\ j >= 32 => IP_L0[64-j] = i
BY DEF IP_L0, IP_R0, IP_1_Cipertext

\* Bit by bit, with the lengths of the tables.
LEMMA IPBits ==
  ASSUME NEW x, NEW i
  PROVE  /\ i \in IP(x).L0 <=> i \in 0..31 /\ IP_L0[32-i] \in x
         /\ i \in IP(x).R0 <=> i \in 0..31 /\ IP_R0[32-i] \in x
         /\ i \in IP_1(x) <=> i \in 0..63 /\ IP_1_Cipertext[64-i] \in x
<1>1. Len(IP_L0) = 32 /\ Len(IP_R0) = 32 /\ Len(IP_1_Cipertext) = 64
  BY DEF IP_L0, IP_R0, IP_1_Cipertext
<1> QED
  BY <1>1 DEF IP, IP_1, Concat

LEMMA JoinBits ==
  ASSUME NEW w \in Nat, NEW hi \in Word(w), NEW lo \in Word(w), NEW j \in 0 .. 2*w-1
  PROVE  j \in Join(hi, lo, w) <=> IF j < w THEN j \in lo ELSE j - w \in hi
<1>1. /\ \A b \in hi : b \in Nat /\ b < w
      /\ \A b \in lo : b \in Nat /\ b < w
  BY DEF Word
<1>2. CASE j < w
  BY <1>1, <1>2 DEF Join
<1>3. CASE ~(j < w)
  <2>1. j - w \in hi => j \in Join(hi, lo, w)
    <3>1. (j - w) + w = j
      OBVIOUS
    <3> QED
      BY <3>1 DEF Join
  <2>2. j \in Join(hi, lo, w) => j - w \in hi
    <3>1. j \notin lo
      BY <1>1, <1>3
    <3>2. \A b \in hi : b + w = j => j - w = b
      BY <1>1
    <3> QED
      BY <3>1, <3>2 DEF Join
  <2> QED
    BY <1>3, <2>1, <2>2
<1> QED
  BY <1>2, <1>3

-----------------------------------------------------------------------------
(* The permutations undo one another. *)

LEMMA FinalUndoesInitial ==
  ASSUME NEW x \in Word(64)
  PROVE  IP_1(Join(IP(x).L0, IP(x).R0, 32)) = x
<1>1. x \subseteq 0..63
  BY DEF Word
<1>2. ASSUME NEW i \in 0..63
      PROVE  IP_1_Cipertext[64-i] \in Join(IP(x).L0, IP(x).R0, 32) <=> i \in x
  <2> DEFINE j == IP_1_Cipertext[64-i]
  <2>1. /\ j \in 0..63
        /\ j < 32 => IP_R0[32-j] = i
        /\ j >= 32 => IP_L0[64-j] = i
    BY IP_1Table
  <2> HIDE DEF j
  <2>2. j \in Join(IP(x).L0, IP(x).R0, 32) <=>
          IF j < 32 THEN j \in IP(x).R0 ELSE j - 32 \in IP(x).L0
    BY <2>1, IPType, JoinBits
  <2>3. j < 32 => (j \in IP(x).R0 <=> i \in x)
    BY <2>1, IPBits
  <2>4. ~(j < 32) => (j - 32 \in IP(x).L0 <=> i \in x)
    <3>1. ~(j < 32) => j - 32 \in 0..31 /\ 32 - (j - 32) = 64 - j
      BY <2>1
    <3> QED
      BY <2>1, <3>1, IPBits
  <2> QED
    BY <2>2, <2>3, <2>4 DEF j
<1> QED
  BY <1>1, <1>2, IPBits

LEMMA InitialUndoesFinal ==
  ASSUME NEW L \in Word(32), NEW R \in Word(32)
  PROVE  IP(IP_1(Join(L, R, 32))).L0 = L /\ IP(IP_1(Join(L, R, 32))).R0 = R
<1> DEFINE J == Join(L, R, 32)
<1>0. L \subseteq 0..31 /\ R \subseteq 0..31
  BY DEF Word
<1>1. ASSUME NEW i \in 0..31
      PROVE  /\ IP_L0[32-i] \in IP_1(J) <=> i \in L
             /\ IP_R0[32-i] \in IP_1(J) <=> i \in R
  <2>1. IP_L0[32-i] \in IP_1(J) <=> i + 32 \in J
    BY IPTables, IPBits
  <2>2. IP_R0[32-i] \in IP_1(J) <=> i \in J
    BY IPTables, IPBits
  <2>3. i + 32 \in 0 .. 2*32-1 /\ ~(i + 32 < 32) /\ (i + 32) - 32 = i /\ i \in 0 .. 2*32-1 /\ i < 32
    OBVIOUS
  <2>4. (i + 32 \in J <=> i \in L) /\ (i \in J <=> i \in R)
    BY <2>3, JoinBits
  <2> QED
    BY <2>1, <2>2, <2>4
<1> HIDE DEF J
<1> QED
  BY <1>0, <1>1, IPBits DEF J

-----------------------------------------------------------------------------
(* The network, round by round. *)

LEMMA HalvesRounds ==
  ASSUME NEW pt, NEW K, NEW n \in Nat
  PROVE  /\ Halves(pt, K, n)[0] = HalvesStart(pt)
         /\ \A i \in 1..n : Halves(pt, K, n)[i] = HalvesStep(Halves(pt, K, n)[i-1], K[i])
<1>1. IsHalves(Halves(pt, K, n), pt, K, n)
  BY HalvesDef
<1> QED
  BY <1>1 DEF IsHalves

HalfWords == [L : Word(32), R : Word(32)]

LEMMA HalvesType ==
  ASSUME NEW pt, NEW K, NEW n \in Nat
  PROVE  \A i \in 0..n : Halves(pt, K, n)[i] \in HalfWords
<1> DEFINE H == Halves(pt, K, n)
           S == {i \in Nat : i <= n => H[i] \in HalfWords}
<1>1. H[0] = HalvesStart(pt) /\ \A i \in 1..n : H[i] = HalvesStep(H[i-1], K[i])
  BY HalvesRounds
<1> HIDE DEF H
<1>2. 0 \in S
  BY <1>1, IPType DEF HalvesStart, HalfWords
<1>3. ASSUME NEW i \in Nat, i \in S
      PROVE  i+1 \in S
  <2> SUFFICES ASSUME i+1 <= n
               PROVE  H[i+1] \in HalfWords
    OBVIOUS
  <2>1. i <= n /\ i+1 \in 1..n /\ (i+1)-1 = i
    OBVIOUS
  <2>2. H[i+1] = HalvesStep(H[i], K[i+1]) /\ H[i] \in HalfWords
    BY <1>1, <1>3, <2>1
  <2> QED
    BY <2>2, F_FUNCTIONType, SymDiffType DEF HalvesStep, HalfWords
<1> HIDE DEF S
<1>4. Nat \subseteq S
  BY <1>2, <1>3, SetInduction
<1>5. ASSUME NEW i \in 0..n
      PROVE  H[i] \in HalfWords
  BY <1>4 DEF S
<1> QED
  BY <1>5 DEF H

-----------------------------------------------------------------------------
(* Deciphering. *)

\* One round taken back: with the halves swapped the same round key undoes it.
LEMMA StepBack ==
  ASSUME NEW s \in HalfWords, NEW k
  PROVE  HalvesStep([L |-> HalvesStep(s, k).R, R |-> HalvesStep(s, k).L], k)
           = [L |-> s.R, R |-> s.L]
<1>1. \A A, B : SymDiff(SymDiff(A, B), B) = A
  BY DEF SymDiff
<1> QED
  BY <1>1 DEF HalvesStep

\* The network with the round keys in reverse order, whatever the keys, undoes the network.
LEMMA ReverseNetwork ==
  ASSUME NEW n \in Nat, NEW pt \in Word(64), NEW K, NEW U,
         \A i \in 1..n : U[i] = K[n+1-i]
  PROVE  Output(Halves(Output(Halves(pt, K, n)[n]), U, n)[n]) = pt
<1> DEFINE H == Halves(pt, K, n)
           ct == Output(H[n])
           G == Halves(ct, U, n)
           Back(i) == [L |-> H[n-i].R, R |-> H[n-i].L]
           S == {i \in Nat : i <= n => G[i] = Back(i)}
<1>1. H[0] = HalvesStart(pt) /\ \A i \in 1..n : H[i] = HalvesStep(H[i-1], K[i])
  BY HalvesRounds
<1>2. G[0] = HalvesStart(ct) /\ \A i \in 1..n : G[i] = HalvesStep(G[i-1], U[i])
  BY HalvesRounds
<1>3. \A i \in 0..n : H[i] \in HalfWords
  BY HalvesType
<1>4. ct = IP_1(Join(H[n].R, H[n].L, 32))
  BY DEF Output
<1> HIDE DEF H, ct, G
<1>5. 0 \in S
  <2>1. H[n].L \in Word(32) /\ H[n].R \in Word(32)
    BY <1>3 DEF HalfWords
  <2>2. HalvesStart(ct) = [L |-> H[n].R, R |-> H[n].L]
    BY <1>4, <2>1, InitialUndoesFinal DEF HalvesStart
  <2> QED
    BY <1>2, <2>2
<1>6. ASSUME NEW i \in Nat, i \in S
      PROVE  i+1 \in S
  <2> SUFFICES ASSUME i+1 <= n
               PROVE  G[i+1] = Back(i+1)
    OBVIOUS
  <2>1. /\ i+1 \in 1..n /\ (i+1)-1 = i /\ n-i \in 1..n /\ n+1-(i+1) = n-i
        /\ n-(i+1) = (n-i)-1 /\ (n-i)-1 \in 0..n
    OBVIOUS
  <2>2. G[i] = Back(i)
    BY <1>6, <2>1
  <2>3. G[i+1] = HalvesStep(Back(i), K[n-i])
    BY <1>2, <2>1, <2>2
  <2>4. H[n-i] = HalvesStep(H[(n-i)-1], K[n-i]) /\ H[(n-i)-1] \in HalfWords
    BY <1>1, <1>3, <2>1
  <2> QED
    BY <2>1, <2>3, <2>4, StepBack
<1> HIDE DEF S
<1>7. n \in S
  BY <1>5, <1>6, SetInduction
<1>8. G[n].L = IP(pt).R0 /\ G[n].R = IP(pt).L0
  <2>1. n <= n /\ n - n = 0
    OBVIOUS
  <2> QED
    BY <1>1, <1>7, <2>1 DEF S, HalvesStart
<1>9. Output(G[n]) = pt
  BY <1>8, FinalUndoesInitial DEF Output
<1> QED
  BY <1>9 DEF G, ct, H

\* Deciphering undoes enciphering, for every block, every key and every number of rounds.
LEMMA DecryptUndoesEncrypt ==
  ASSUME NEW n \in Nat, NEW pt \in Word(64), NEW key
  PROVE  Decrypt(Encrypt(pt, key, n), key, n) = pt
<1> DEFINE U == [i \in 1..n |-> RoundKey(key, n+1-i)]
<1>1. ASSUME NEW i \in 1..n
      PROVE  U[i] = KeySchedule(key, n)[n+1-i]
  <2>1. n+1-i \in 1..n
    OBVIOUS
  <2> QED
    BY <2>1 DEF KeySchedule
<1> QED
  BY <1>1, ReverseNetwork DEF Encrypt, Decrypt

-----------------------------------------------------------------------------
(* Complements. *)

Comp(w, x) == (0 .. w-1) \ x

\* A table of n positions in a word of w bits.
Chooses(T, n, w) == Len(T) = n /\ \A i \in 1..n : T[i] \in 0 .. w-1

LEMMA ConcatComp ==
  ASSUME NEW T, NEW n \in Nat, NEW w, Chooses(T, n, w), NEW x
  PROVE  Concat(T, Comp(w, x)) = Comp(n, Concat(T, x))
<1>1. \A i \in 0 .. n-1 : n - i \in 1..n
  OBVIOUS
<1> QED
  BY <1>1 DEF Concat, Comp, Chooses

LEMMA JoinComp ==
  ASSUME NEW w \in Nat, NEW hi \in Word(w), NEW lo \in Word(w)
  PROVE  Join(Comp(w, hi), Comp(w, lo), w) = Comp(2*w, Join(hi, lo, w))
<1>0. Comp(w, hi) \in Word(w) /\ Comp(w, lo) \in Word(w)
  BY DEF Comp, Word
<1>1. \A b \in Join(Comp(w, hi), Comp(w, lo), w) : b \in 0 .. 2*w-1
  BY DEF Join, Comp
<1>2. ASSUME NEW j \in 0 .. 2*w-1
      PROVE  j \in Join(Comp(w, hi), Comp(w, lo), w) <=> j \notin Join(hi, lo, w)
  <2>1. CASE j < w
    <3>1. j \in 0 .. w-1
      BY <2>1
    <3> QED
      BY <2>1, <3>1, <1>0, JoinBits DEF Comp
  <2>2. CASE ~(j < w)
    <3>1. j - w \in 0 .. w-1
      BY <2>2
    <3> QED
      BY <2>2, <3>1, <1>0, JoinBits DEF Comp
  <2> QED
    BY <2>1, <2>2
<1> QED
  BY <1>1, <1>2 DEF Comp

LEMMA BlocksComp ==
  ASSUME NEW x
  PROVE  /\ IP(Comp(64, x)).L0 = Comp(32, IP(x).L0) /\ IP(Comp(64, x)).R0 = Comp(32, IP(x).R0)
         /\ IP_1(Comp(64, x)) = Comp(64, IP_1(x))
         /\ PC_1(Comp(64, x)).C0 = Comp(28, PC_1(x).C0)
         /\ PC_1(Comp(64, x)).D0 = Comp(28, PC_1(x).D0)
         /\ PC_2(Comp(56, x)) = Comp(48, PC_2(x))
         /\ E_MATRIX(Comp(32, x)) = Comp(48, E_MATRIX(x))
<1>1. IP(Comp(64, x)).L0 = Comp(32, IP(x).L0)
  <2>1. Chooses(IP_L0, 32, 64)
    BY DEF IP_L0, Chooses
  <2> QED
    BY <2>1, ConcatComp DEF IP
<1>2. IP(Comp(64, x)).R0 = Comp(32, IP(x).R0)
  <2>1. Chooses(IP_R0, 32, 64)
    BY DEF IP_R0, Chooses
  <2> QED
    BY <2>1, ConcatComp DEF IP
<1>3. IP_1(Comp(64, x)) = Comp(64, IP_1(x))
  <2>1. Chooses(IP_1_Cipertext, 64, 64)
    BY DEF IP_1_Cipertext, Chooses
  <2> QED
    BY <2>1, ConcatComp DEF IP_1
<1>4. PC_1(Comp(64, x)).C0 = Comp(28, PC_1(x).C0)
  <2>1. Chooses(PC_1_C0, 28, 64)
    BY DEF PC_1_C0, Chooses
  <2> QED
    BY <2>1, ConcatComp DEF PC_1
<1>5. PC_1(Comp(64, x)).D0 = Comp(28, PC_1(x).D0)
  <2>1. Chooses(PC_1_D0, 28, 64)
    BY DEF PC_1_D0, Chooses
  <2> QED
    BY <2>1, ConcatComp DEF PC_1
<1>6. PC_2(Comp(56, x)) = Comp(48, PC_2(x))
  <2>1. Chooses(PC_2_Round_key, 48, 56)
    BY DEF PC_2_Round_key, Chooses
  <2> QED
    BY <2>1, ConcatComp DEF PC_2
<1>7. E_MATRIX(Comp(32, x)) = Comp(48, E_MATRIX(x))
  <2>1. Chooses(E_MATRIX_E_OUT, 48, 32)
    BY DEF E_MATRIX_E_OUT, Chooses
  <2> QED
    BY <2>1, ConcatComp DEF E_MATRIX
<1> QED
  BY <1>1, <1>2, <1>3, <1>4, <1>5, <1>6, <1>7

LEMMA SymDiffComp ==
  ASSUME NEW w, NEW A \in Word(w), NEW B \in Word(w)
  PROVE  /\ SymDiff(Comp(w, A), Comp(w, B)) = SymDiff(A, B)
         /\ SymDiff(Comp(w, A), B) = Comp(w, SymDiff(A, B))
BY DEF SymDiff, Comp, Word

\* The complement of a key has the complements of its round keys.
LEMMA RoundKeyComp ==
  ASSUME NEW key, NEW i \in 1..16
  PROVE  RoundKey(Comp(64, key), i) = Comp(48, RoundKey(key, i))
<1>1. ShiftUpTo(i) \in 0..28
  BY DEF ShiftUpTo, TotalShift
<1>2. ASSUME NEW C, NEW n \in 0..28
      PROVE  RotateLeft(Comp(28, C), n) = Comp(28, RotateLeft(C, n))
  <2>1. \A j \in 0..27 : (j + 28 - n) % 28 \in 0..27
    OBVIOUS
  <2> QED
    BY <2>1 DEF RotateLeft, Comp
<1>3. \A C, n : RotateLeft(C, n) \in Word(28)
  BY DEF RotateLeft, Word
<1>4. /\ RoundC(Comp(64, key), i) = Comp(28, RoundC(key, i))
      /\ RoundD(Comp(64, key), i) = Comp(28, RoundD(key, i))
  <2> DEFINE n == ShiftUpTo(i)
             C == PC_1(key).C0
             D == PC_1(key).D0
  <2>1. PC_1(Comp(64, key)).C0 = Comp(28, C) /\ PC_1(Comp(64, key)).D0 = Comp(28, D)
    BY BlocksComp
  <2>2. /\ RoundC(Comp(64, key), i) = RotateLeft(Comp(28, C), n)
        /\ RoundD(Comp(64, key), i) = RotateLeft(Comp(28, D), n)
    BY <2>1 DEF RoundC, RoundD
  <2>3. RoundC(key, i) = RotateLeft(C, n) /\ RoundD(key, i) = RotateLeft(D, n)
    BY DEF RoundC, RoundD
  <2> HIDE DEF n, C, D
  <2>4. n \in 0..28
    BY <1>1 DEF n
  <2>5. /\ RotateLeft(Comp(28, C), n) = Comp(28, RotateLeft(C, n))
        /\ RotateLeft(Comp(28, D), n) = Comp(28, RotateLeft(D, n))
    BY <1>2, <2>4
  <2> QED
    BY <2>2, <2>3, <2>5
<1>5. RoundC(key, i) \in Word(28) /\ RoundD(key, i) \in Word(28)
  BY <1>3 DEF RoundC, RoundD
<1>6. Join(RoundC(Comp(64, key), i), RoundD(Comp(64, key), i), 28)
        = Comp(56, Join(RoundC(key, i), RoundD(key, i), 28))
  BY <1>4, <1>5, JoinComp
<1> QED
  BY <1>6, BlocksComp DEF RoundKey

\* The round function does not see whether both its inputs are complemented.
LEMMA F_FUNCTIONComp ==
  ASSUME NEW R, NEW k \in Word(48)
  PROVE  F_FUNCTION(Comp(32, R), Comp(48, k)) = F_FUNCTION(R, k)
<1>1. E_MATRIX(R) \in Word(48)
  <2>1. Len(E_MATRIX_E_OUT) = 48
    BY DEF E_MATRIX_E_OUT
  <2> QED
    BY <2>1, ConcatType DEF E_MATRIX
<1>2. SymDiff(E_MATRIX(Comp(32, R)), Comp(48, k)) = SymDiff(E_MATRIX(R), k)
  BY <1>1, BlocksComp, SymDiffComp
<1>3. E_XOR_KEY(E_MATRIX(Comp(32, R)), Comp(48, k)) = E_XOR_KEY(E_MATRIX(R), k)
  BY <1>2 DEF E_XOR_KEY
<1> QED
  BY <1>3 DEF F_FUNCTION

LEMMA RoundKeyType ==
  ASSUME NEW key, NEW i
  PROVE  RoundKey(key, i) \in Word(48)
<1>1. Len(PC_2_Round_key) = 48
  BY DEF PC_2_Round_key
<1> QED
  BY <1>1, ConcatType DEF RoundKey, PC_2

CompHalves(s) == [L |-> Comp(32, s.L), R |-> Comp(32, s.R)]

\* DES commutes with complementing: the complement of a block, under the complement
\* of its key, is enciphered to the complement.
LEMMA EncryptComp ==
  ASSUME NEW n \in 0..16, NEW pt, NEW key
  PROVE  Encrypt(Comp(64, pt), Comp(64, key), n) = Comp(64, Encrypt(pt, key, n))
<1> DEFINE K == KeySchedule(key, n)
           U == KeySchedule(Comp(64, key), n)
           H == Halves(pt, K, n)
           G == Halves(Comp(64, pt), U, n)
           S == {i \in Nat : i <= n => G[i] = CompHalves(H[i])}
<1>0. \A i \in 1..n : U[i] = Comp(48, K[i]) /\ K[i] \in Word(48)
  BY RoundKeyComp, RoundKeyType DEF KeySchedule
<1> HIDE DEF K, U
<1>1. H[0] = HalvesStart(pt) /\ \A i \in 1..n : H[i] = HalvesStep(H[i-1], K[i])
  BY HalvesRounds
<1>2. G[0] = HalvesStart(Comp(64, pt)) /\ \A i \in 1..n : G[i] = HalvesStep(G[i-1], U[i])
  BY HalvesRounds
<1>3. \A i \in 0..n : H[i] \in HalfWords
  BY HalvesType
<1> HIDE DEF H, G
<1>4. 0 \in S
  <2>1. HalvesStart(Comp(64, pt)) = CompHalves(HalvesStart(pt))
    BY BlocksComp DEF HalvesStart, CompHalves
  <2> QED
    BY <1>1, <1>2, <2>1
<1>5. ASSUME NEW i \in Nat, i \in S
      PROVE  i+1 \in S
  <2> SUFFICES ASSUME i+1 <= n
               PROVE  G[i+1] = CompHalves(H[i+1])
    OBVIOUS
  <2>1. i \in 0..n /\ i <= n /\ i+1 \in 1..n /\ (i+1)-1 = i
    OBVIOUS
  <2>2. G[i+1] = HalvesStep(CompHalves(H[i]), Comp(48, K[i+1]))
    BY <1>0, <1>2, <1>5, <2>1
  <2>3. H[i+1] = HalvesStep(H[i], K[i+1])
    BY <1>1, <2>1
  <2>4. H[i].L \in Word(32) /\ H[i].R \in Word(32) /\ K[i+1] \in Word(48)
    BY <1>0, <1>3, <2>1 DEF HalfWords
  <2>5. F_FUNCTION(Comp(32, H[i].R), Comp(48, K[i+1])) = F_FUNCTION(H[i].R, K[i+1])
    BY <2>4, F_FUNCTIONComp
  <2>6. SymDiff(Comp(32, H[i].L), F_FUNCTION(H[i].R, K[i+1]))
          = Comp(32, SymDiff(H[i].L, F_FUNCTION(H[i].R, K[i+1])))
    BY <2>4, F_FUNCTIONType, SymDiffComp
  <2> QED
    BY <2>2, <2>3, <2>5, <2>6 DEF HalvesStep, CompHalves
<1> HIDE DEF S
<1>6. n \in S
  BY <1>4, <1>5, SetInduction
<1>7. G[n].L = Comp(32, H[n].L) /\ G[n].R = Comp(32, H[n].R)
  BY <1>6 DEF S, CompHalves
<1>8. H[n].L \in Word(32) /\ H[n].R \in Word(32)
  BY <1>3 DEF HalfWords
<1>9. Output(G[n]) = Comp(64, Output(H[n]))
  <2>1. Join(G[n].R, G[n].L, 32) = Comp(64, Join(H[n].R, H[n].L, 32))
    BY <1>7, <1>8, JoinComp
  <2> QED
    BY <2>1, BlocksComp DEF Output
<1> QED
  BY <1>9 DEF Encrypt, G, H, K, U

=============================================================================
