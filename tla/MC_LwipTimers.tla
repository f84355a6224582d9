--------------------------- MODULE MC_LwipTimers ---------------------------
(***************************************************************************)
(* LwipTimers for TLC: three timers, two of which fall due together, and   *)
(* a node for each.                                                        *)
(***************************************************************************)
EXTENDS LwipTimers, TLC

CONSTANTS fine, reass, arp

Periods == fine :> 2 @@ reass :> 3 @@ arp :> 4
Order == <<reass, arp, fine>>
=============================================================================
