----------------------------- MODULE FrameQueue -----------------------------
(***************************************************************************)
(* What the receive path of the Ethernet port (LWIP/port/ethernetif.c)     *)
(* promises the stack: a bounded first-in first-out queue of frames.  The  *)
(* consumer gets every queued frame once, unchanged and in order, or, when *)
(* it has no buffer for it, loses exactly the oldest one.                  *)
(***************************************************************************)
EXTENDS Naturals, Sequences

CONSTANTS
  Frames,   \* the contents of frames
  NoFrame,  \* the NULL pbuf
  Cap       \* frames the queue can hold

VARIABLES
  q,        \* frames received and not yet taken
  out       \* the pbuf low_level_input returned last

Init == q = <<>> /\ out = NoFrame

Put(f) ==
  /\ Len(q) < Cap
  /\ q' = Append(q, f)
  /\ UNCHANGED out

Take ==
  /\ q # <<>>
  /\ out' = Head(q)
  /\ q' = Tail(q)

Lose ==
  /\ q # <<>>
  /\ out' = NoFrame
  /\ q' = Tail(q)

Next == Take \/ Lose \/ \E f \in Frames : Put(f)

Spec == Init /\ [][Next]_<<q, out>>
=============================================================================
