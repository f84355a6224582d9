----------------------------- MODULE MC_MscBot -----------------------------
(***************************************************************************)
(* Instances of MscBot for TLC: a disk of two blocks of two bytes,         *)
(* one-byte responses, a two-bit word, and two sets of commands.           *)
(***************************************************************************)
EXTENDS MscBot

MCRespLen == [o \in RespOps |-> 1]

Cmd(o, d, l, a, n) ==
  [op |-> o, dir |-> d, len |-> l, lba |-> a, cnt |-> n, valid |-> TRUE]

\* A CBW the host sends with a bad signature, length or LUN.
Malformed(l) == [Cmd("inquiry", "in", l, 0, 0) EXCEPT !.valid = FALSE]

Read(a, n)  == Cmd("read10", "in", n * BlkSize, a, n)
Write(a, n) == Cmd("write10", "out", n * BlkSize, a, n)

\* Transfers of one and two blocks, at both ends of the disk and beyond it,
\* of no block, with a length that is not the block count; responses longer
\* and shorter than the host's buffer; a malformed CBW.
TransferCbws ==
  {Cmd("capacity", "in", 2, 0, 0), Cmd("mode_sense6", "in", 0, 0, 0),
   Read(0, 2), Write(0, 2), Write(1, 1), Write(1, 2), Write(0, 0),
   Cmd("write10", "out", BlkSize, 0, 2), Malformed(0)}

\* The other operations, wrong directions and the rejections.
CommandCbws ==
  {Cmd("capacity", "in", 1, 0, 0), Cmd("format_capacity", "in", 2, 0, 0),
   Cmd("inquiry", "in", 0, 0, 0), Cmd("inquiry_vpd", "in", 1, 0, 0),
   Cmd("request_sense", "in", 1, 0, 0), Cmd("mode_sense10", "in", 1, 0, 0),
   Cmd("start_stop", "out", 0, 0, 0), Cmd("medium_removal", "out", 0, 0, 0),
   Cmd("test_unit", "in", 1, 0, 0),
   Cmd("verify", "out", 0, 1, 2),
   Cmd("verify_bytchk", "out", BlkSize, 0, 1), Cmd("unknown", "in", 1, 0, 0),
   Cmd("read10", "out", BlkSize, 0, 1),
   Read(0, 0), Read(0, 2), Write(0, 2), Write(0, 0), Write(1, 2), Write(3, 1),
   Cmd("write10", "out", 0, 3, 1), Malformed(1)}

\* The hypothesis of the theorems about a patient host.
ASSUME CommandsWellFormed == AbortEarly \/ WellFormed
============================================================================
