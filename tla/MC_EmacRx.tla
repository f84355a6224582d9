------------------------------ MODULE MC_EmacRx ------------------------------
(***************************************************************************)
(* The instance of EmacRx for TLC is given by the configuration alone: a   *)
(* ring of three descriptors (one in the task's hands, one filled, one     *)
(* free, so that the ring also wraps and fills up), a FIFO of two frames,  *)
(* two frames that fit a buffer and one that does not.                     *)
(***************************************************************************)
EXTENDS EmacRx
==============================================================================
