----------------------------- MODULE MC_System -----------------------------
(***************************************************************************)
(* The whole accelerator in two configurations, each with up to two resets *)
(* of either kind at any edges.                                            *)
(*                                                                         *)
(* MC_System.cfg: two programs whose operands differ in every half, and    *)
(* five rounds of the core.  The second program expects the ciphertext of  *)
(* the first: a stale result would let it pass.                            *)
(*                                                                         *)
(* MC_Firmware.cfg: main with the constants of source.c:38-45 on the core  *)
(* with 16 rounds, and a processor that never idles between its accesses.  *)
(***************************************************************************)
EXTENDS DES_SYSTEM

First == [pt |-> {3, 40}, key |-> {9, 50}]
Program(pt, key) ==
  [pt |-> pt, key |-> key, expected |-> Encrypt(First.pt, First.key, Rounds)]
MCPrograms == {Program(First.pt, First.key), Program({21, 63}, {12, 33})}

MCWriteData == UNION {{Low(p.pt), High(p.pt), Low(p.key), High(p.key)} : p \in MCPrograms} \cup {{0}}

-----------------------------------------------------------------------------
\* Two 32-bit constants from eight hexadecimal digits each.
Hex32(d) == {i \in 0..31 : (d[8 - i \div 4] \div 2^(i % 4)) % 2 = 1}
Hex(hi, lo) == Join(Hex32(hi), Hex32(lo), 32)

source_c ==
  [pt       |-> Hex(<<0,0,1,2,3,4,5,6>>, <<7,8,9,10,11,12,13,14>>),
   key      |-> Hex(<<0,1,3,3,4,5,7,7>>, <<9,9,11,11,12,13,15,15>>),
   expected |-> Hex(<<1,10,11,15,15,6,9,13>>, <<5,10,9,3,14,8,0,11>>)]
Firmware == {source_c}
FirmwareWriteData == {{0}}

FirmwareNext ==
  \/ CpuStep \/ BoardReset \/ DebugReset
  \/ pc \in Verdicts /\ Elsewhere

FirmwareSpec == SysInit /\ [][FirmwareNext]_sysvars /\ Fairness
=============================================================================
