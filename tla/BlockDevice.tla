---------------------------- MODULE BlockDevice ----------------------------
(***************************************************************************)
(* What the mass-storage function and FatFs may rely on below              *)
(* msc_disk_read and msc_disk_write: an array of sectors, written one      *)
(* after the other.  A write makes its sector undefined before it gives it *)
(* its new contents; a restart in between leaves it undefined, and nothing *)
(* ever touches another sector.                                            *)
(***************************************************************************)
EXTENDS Naturals, Sequences

CONSTANTS
  NSectors,
  Contents,  \* what a sector may hold
  Torn       \* an undefined sector

VARIABLES
  blocks,    \* sector -> contents
  todo,      \* the write in progress: what is still to be written, and where
  at

vars == <<blocks, todo, at>>

Init ==
  /\ blocks \in [0..(NSectors - 1) -> Contents \cup {Torn}]
  /\ todo = <<>> /\ at = 0

\* A caller asks for one or more sectors to be written.
Write ==
  /\ todo = <<>>
  /\ todo' \in Seq(Contents) /\ todo' # <<>>
  /\ at' \in Nat /\ at' + Len(todo') <= NSectors
  /\ UNCHANGED blocks

Tear ==
  /\ todo # <<>>
  /\ blocks' = [blocks EXCEPT ![at] = Torn]
  /\ UNCHANGED <<todo, at>>

Fill ==
  /\ todo # <<>> /\ blocks[at] = Torn
  /\ blocks' = [blocks EXCEPT ![at] = Head(todo)]
  /\ todo' = Tail(todo)
  /\ at' = IF todo' = <<>> THEN 0 ELSE at + 1

Restart == todo' = <<>> /\ at' = 0 /\ UNCHANGED blocks

Next == Write \/ Tear \/ Fill \/ Restart

Spec == Init /\ [][Next]_vars
=============================================================================
