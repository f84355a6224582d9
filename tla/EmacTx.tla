------------------------------- MODULE EmacTx -------------------------------
(***************************************************************************)
(* The transmit path of the Ethernet port: low_level_output, which lwIP    *)
(* calls through netif->linkoutput, emac_getcurrenttxbuffer and            *)
(* emac_txpkt_chainmode (LWIP/port/ethernetif.c), the ring of transmit     *)
(* descriptors and the EMAC's transmit DMA.  No lock protects the ring:    *)
(* the network, DNS, link and tcpip tasks all reach low_level_output.  The *)
(* link task stops and starts the DMA (ethernetif_update_config).          *)
(*                                                                         *)
(* The DMA is modelled from the way the code uses it: it sends the frame   *)
(* of the next descriptor if it owns it, and otherwise sets TBU and        *)
(* suspends until the poll demand register is written.  Fetching a         *)
(* descriptor and suspending on it is one step, and so is the copy of a    *)
(* frame into a buffer.                                                    *)
(***************************************************************************)
EXTENDS Naturals, Sequences, FiniteSets

CONSTANTS
  NDesc,    \* EMAC_TXBUFNB: 10
  Tasks,    \* the tasks that call low_level_output
  Frames,   \* the contents of frames
  NoFrame   \* a buffer never written

Descs == 0..(NDesc - 1)

ASSUME TxAssumption ==
  /\ NDesc \in Nat \ {0}
  /\ Tasks # {}
  /\ NoFrame \notin Frames

VARIABLES
  own, buf,              \* DMATxDscrTab and Tx_Buff
  dma_tx_desc_to_set,
  hw, run, tbu,          \* the DMA: next descriptor, state, the TBU flag
  pc, frame, loc,        \* a task: its step, its frame, the descriptor it read
  accepted,              \* frames handed to the DMA and not yet sent
  raced                  \* history: two tasks were inside low_level_output

task == <<pc, frame, loc>>
dma  == <<hw, run, tbu>>
vars == <<own, buf, dma_tx_desc_to_set, dma, task, accepted, raced>>

\* buf2nextdescaddr, the last descriptor chained to the first.
NextDesc(d) == IF d = NDesc - 1 THEN 0 ELSE d + 1

Goto(t, s) == pc' = [pc EXCEPT ![t] = s]

-----------------------------------------------------------------------------
(* low_level_output.                                                       *)

\* emac_getcurrenttxbuffer: the buffer of the descriptor to be set next.
\* NDesc also bounds the history variable accepted, which two tasks that
\* share a descriptor could let grow.
Output(t, f) ==
  /\ pc[t] = "idle" /\ Len(accepted) <= NDesc
  /\ frame' = [frame EXCEPT ![t] = f]
  /\ loc' = [loc EXCEPT ![t] = dma_tx_desc_to_set]
  /\ Goto(t, "copy")
  /\ raced' = (raced \/ \E u \in Tasks \ {t} : pc[u] # "idle")
  /\ UNCHANGED <<own, buf, dma_tx_desc_to_set, dma, accepted>>

\* The pbuf chain is copied before anybody looks at the OWN bit.
Copy(t) ==
  /\ pc[t] = "copy"
  /\ buf' = [buf EXCEPT ![loc[t]] = frame[t]]
  /\ Goto(t, "check")
  /\ UNCHANGED <<own, dma_tx_desc_to_set, dma, frame, loc, accepted, raced>>

\* emac_txpkt_chainmode: ERR_MEM if the DMA owns the descriptor.
CheckOwn(t) ==
  /\ pc[t] = "check"
  /\ loc' = [loc EXCEPT ![t] = dma_tx_desc_to_set]
  /\ Goto(t, IF own[dma_tx_desc_to_set] = "dma" THEN "idle" ELSE "own")
  /\ UNCHANGED <<own, buf, dma_tx_desc_to_set, dma, frame, accepted, raced>>

\* Length, FS, LS and OWN are set.  The compiler may keep the descriptor it
\* read for the check or read dma_tx_desc_to_set again.
SetOwn(t) ==
  /\ pc[t] = "own"
  /\ \E d \in {loc[t], dma_tx_desc_to_set} : own' = [own EXCEPT ![d] = "dma"]
  /\ accepted' = Append(accepted, frame[t])
  /\ Goto(t, "kick")
  /\ UNCHANGED <<buf, dma_tx_desc_to_set, dma, frame, loc, raced>>

\* Mutant of ClearTbu: the flag is cleared and transmission is not resumed.
ClearTbuOnly(t) ==
  /\ pc[t] = "kick"
  /\ tbu' = FALSE
  /\ Goto(t, "advance")
  /\ UNCHANGED <<own, buf, dma_tx_desc_to_set, hw, run, frame, loc, accepted, raced>>

\* TBU set: clear it and go on to the poll demand.
ClearTbu(t) ==
  /\ pc[t] = "kick"
  /\ tbu' = FALSE
  /\ Goto(t, IF tbu THEN "demand" ELSE "advance")
  /\ UNCHANGED <<own, buf, dma_tx_desc_to_set, hw, run, frame, loc, accepted, raced>>

\* tpd = 0 resumes a suspended transmission.
PollDemand(t) ==
  /\ pc[t] = "demand"
  /\ run' = IF run = "suspended" THEN "run" ELSE run
  /\ Goto(t, "advance")
  /\ UNCHANGED <<own, buf, dma_tx_desc_to_set, hw, tbu, frame, loc, accepted, raced>>

\* Mutant of Advance: the next frame goes to the same descriptor.
AdvanceStays(t) ==
  /\ pc[t] = "advance"
  /\ Goto(t, "idle")
  /\ UNCHANGED <<own, buf, dma_tx_desc_to_set, dma, frame, loc, accepted, raced>>

\* After emac_tx_delay: the next descriptor, and ERR_OK.
Advance(t) ==
  /\ pc[t] = "advance"
  /\ dma_tx_desc_to_set' = NextDesc(dma_tx_desc_to_set)
  /\ Goto(t, "idle")
  /\ UNCHANGED <<own, buf, dma, frame, loc, accepted, raced>>

-----------------------------------------------------------------------------
(* The DMA and the link task.                                              *)

\* The frame of descriptor hw is on the wire; the descriptor is the CPU's.
Transmit ==
  /\ run = "run" /\ own[hw] = "dma"
  /\ own' = [own EXCEPT ![hw] = "cpu"]
  /\ hw' = NextDesc(hw)
  /\ accepted' = IF accepted = <<>> THEN accepted ELSE Tail(accepted)
  /\ UNCHANGED <<buf, dma_tx_desc_to_set, run, tbu, task, raced>>

Suspend ==
  /\ run = "run" /\ own[hw] = "cpu"
  /\ run' = "suspended" /\ tbu' = TRUE
  /\ UNCHANGED <<own, buf, dma_tx_desc_to_set, hw, task, accepted, raced>>

\* emac_stop: the DMA keeps its place in the ring.
Stop ==
  /\ run # "stop"
  /\ run' = "stop"
  /\ UNCHANGED <<own, buf, dma_tx_desc_to_set, hw, tbu, task, accepted, raced>>

\* emac_start.
Start ==
  /\ run = "stop"
  /\ run' = "run"
  /\ UNCHANGED <<own, buf, dma_tx_desc_to_set, hw, tbu, task, accepted, raced>>

-----------------------------------------------------------------------------
\* emac_dma_descriptor_list_address_set and emac_start in low_level_init.
Init ==
  /\ own = [d \in Descs |-> "cpu"]
  /\ buf = [d \in Descs |-> NoFrame]
  /\ dma_tx_desc_to_set = 0 /\ hw = 0
  /\ run = "run" /\ tbu = FALSE
  /\ pc = [t \in Tasks |-> "idle"]
  /\ frame = [t \in Tasks |-> NoFrame]
  /\ loc = [t \in Tasks |-> 0]
  /\ accepted = <<>> /\ raced = FALSE

\* What a task does once it has called low_level_output.
Step(t) ==
  Copy(t) \/ CheckOwn(t) \/ SetOwn(t) \/ ClearTbu(t) \/ PollDemand(t) \/ Advance(t)

Dma == Transmit \/ Suspend
Link == Stop \/ Start

Next ==
  \/ \E t \in Tasks : Step(t) \/ \E f \in Frames : Output(t, f)
  \/ Dma \/ Link

Spec == Init /\ [][Next]_vars

-----------------------------------------------------------------------------
(* Properties.                                                             *)

TypeOK ==
  /\ own \in [Descs -> {"dma", "cpu"}]
  /\ buf \in [Descs -> Frames \cup {NoFrame}]
  /\ dma_tx_desc_to_set \in Descs /\ hw \in Descs
  /\ run \in {"run", "suspended", "stop"} /\ tbu \in BOOLEAN
  /\ pc \in [Tasks -> {"idle", "copy", "check", "own", "kick", "demand", "advance"}]
  /\ frame \in [Tasks -> Frames \cup {NoFrame}]
  /\ loc \in [Tasks -> Descs]
  /\ accepted \in Seq(Frames) /\ raced \in BOOLEAN

\* A suspended DMA has set TBU, and only a task about to resume it has
\* cleared the flag; one that could go on is about to be resumed.  It holds
\* for any number of tasks inside emac_txpkt_chainmode.
NoLostWakeup ==
  run = "suspended" =>
    /\ tbu \/ \E t \in Tasks : pc[t] = "demand"
    /\ own[hw] = "dma" => \E t \in Tasks : pc[t] \in {"kick", "demand"}

Owned == {d \in Descs : own[d] = "dma"}

\* The i-th descriptor the DMA will send.
Ahead(i) == (hw + i - 1) % NDesc

\* The DMA owns exactly the descriptors of the frames told ERR_OK and not
\* yet sent, and sends them in the order low_level_output took them; their
\* buffers hold these frames, except that with every descriptor full the
\* oldest buffer may hold a frame that was refused: low_level_output copies
\* before emac_txpkt_chainmode looks at the OWN bit.  Excepted: once calls of
\* two tasks have overlapped they may have filled the same descriptor, or
\* skipped one.
RingHoldsAccepted ==
  raced \/
  /\ Owned = {Ahead(i) : i \in 1..Len(accepted)}
  /\ \A i \in 1..Len(accepted) :
       buf[Ahead(i)] = accepted[i] \/ (i = 1 /\ Owned = Descs)

\* Tasks inside low_level_output run, and so does the DMA.
Fairness == WF_vars(Dma) /\ \A t \in Tasks : WF_vars(Step(t))
FairSpec == Spec /\ Fairness

\* A frame handed to the DMA leaves, unless the link task stops the DMA: the
\* TBU flag that emac_txpkt_chainmode tests after it has set OWN never hides
\* a suspended DMA.  Excepted: a descriptor that overlapping calls skipped
\* holds up the frames behind it.
FramesLeave ==
  \A d \in Descs : own[d] = "dma" ~> (own[d] = "cpu" \/ run = "stop" \/ raced)
=============================================================================
