----------------------------- MODULE MC_NetLink -----------------------------
(***************************************************************************)
(* Instance of NetLink: a mode of 100 Mbit/s and one of 10, one try before *)
(* the client gives up, two faults.                                        *)
(***************************************************************************)
EXTENDS NetLink

MCModes == {"full100", "full10"}
=============================================================================
