------------------------------ MODULE MC_EmacTx ------------------------------
(***************************************************************************)
(* The configuration gives EmacTx two descriptors, so that the ring fills  *)
(* up and wraps, two frames and two tasks.                                 *)
(***************************************************************************)
EXTENDS EmacTx
==============================================================================
