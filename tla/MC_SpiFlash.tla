----------------------------- MODULE MC_SpiFlash -----------------------------
(***************************************************************************)
(* SpiFlash for TLC: two sectors of two pages of two one-bit cells, a      *)
(* transfer buffer of three bytes (so that reads end with a shorter        *)
(* chunk), two different sector contents.                                  *)
(***************************************************************************)
EXTENDS SpiFlash

MCData == {[i \in 0..3 |-> IF i \in {0, 3} THEN {} ELSE Bits],
           [i \in 0..3 |-> IF i = 1 THEN {} ELSE Bits]}
==============================================================================
