------------------------------- MODULE EmacRx -------------------------------
(***************************************************************************)
(* The receive path of the Ethernet port: the ring of DMA descriptors, the *)
(* EMAC's receive DMA that fills it, and the network task that empties it  *)
(* (network_task_function, lwip_pkt_handle, ethernetif_input,              *)
(* low_level_input, emac_rxpkt_chainmode).  DMA and task share the OWN     *)
(* bits, the buffers and the RBU flag without a lock; the link task starts *)
(* and stops the DMA (ethernetif_update_config).  EMAC_IRQHandler only     *)
(* clears flags that nothing here reads.                                   *)
(*                                                                         *)
(* The DMA is modelled from the way the code uses it: it fetches the       *)
(* descriptor after the last one it closed, stores into it if it owns it,  *)
(* and otherwise sets RBU and suspends until the poll demand register is   *)
(* written.  Fetching a descriptor and suspending on it is one step.       *)
(*                                                                         *)
(* Data abstraction: a frame is one value; a frame longer than a buffer    *)
(* (EMAC_MAX_PACKET_LENGTH) fills two descriptors, the first with FS and   *)
(* the second with LS.                                                     *)
(***************************************************************************)
EXTENDS Naturals, Sequences, FiniteSets

CONSTANTS
  NDesc,    \* EMAC_RXBUFNB: 10
  Frames,   \* the contents of frames
  Long,     \* the frames longer than EMAC_MAX_PACKET_LENGTH
  FifoLen,  \* bound: frames that wait in the receive FIFO of the MAC
  NoFrame,  \* the NULL pbuf
  NoDesc    \* the NULL descriptor

Descs == 0..(NDesc - 1)

ASSUME RxAssumption ==
  /\ NDesc \in Nat \ {0}
  /\ FifoLen \in Nat \ {0}
  /\ Long \subseteq Frames
  /\ NoFrame \notin Frames
  /\ NoDesc \notin Descs

VARIABLES
  own, st, buf,          \* DMARxDscrTab: OWN, the FS and LS bits, the buffer
  dma_rx_desc_to_get,
  fifo, half,            \* receive FIFO; its head is half stored
  hw, run, rbu,          \* the DMA: next descriptor, state, the RBU flag
  pc, cur, p             \* the network task: step, frame.descriptor, pbuf

ring == <<own, st, buf>>
dma  == <<fifo, half, hw, run, rbu>>
task == <<dma_rx_desc_to_get, pc, cur, p>>
vars == <<ring, dma, task>>

\* buf2nextdescaddr, the last descriptor chained to the first.
NextDesc(d) == IF d = NDesc - 1 THEN 0 ELSE d + 1

-----------------------------------------------------------------------------
(* MAC and DMA.                                                            *)

\* A frame arrives; one that finds the FIFO full is lost in the MAC.
Arrive(f) ==
  /\ run # "stop" /\ Len(fifo) < FifoLen
  /\ fifo' = Append(fifo, f)
  /\ UNCHANGED <<ring, half, hw, run, rbu, task>>

\* The DMA closes descriptor hw with a whole frame or a half of a long one.
\* A stopped DMA finishes the frame it is storing.
Store ==
  /\ run = "run" \/ (run = "stop" /\ half)
  /\ fifo # <<>> /\ own[hw] = "dma"
  /\ own' = [own EXCEPT ![hw] = "cpu"]
  /\ buf' = [buf EXCEPT ![hw] = Head(fifo)]
  /\ st' = [st EXCEPT ![hw] = IF Head(fifo) \notin Long THEN "FS|LS"
                              ELSE IF half THEN "LS" ELSE "FS"]
  /\ half' = (Head(fifo) \in Long /\ ~half)
  /\ fifo' = IF half' THEN fifo ELSE Tail(fifo)
  /\ hw' = NextDesc(hw)
  /\ UNCHANGED <<run, rbu, task>>

\* The next descriptor is not available.
Suspend ==
  /\ run = "run" /\ own[hw] = "cpu"
  /\ run' = "suspended" /\ rbu' = TRUE
  /\ UNCHANGED <<ring, fifo, half, hw, task>>

-----------------------------------------------------------------------------
(* The link task: emac_stop and emac_start.                                *)

Stop ==
  /\ run # "stop"
  /\ run' = "stop"
  /\ UNCHANGED <<ring, fifo, half, hw, rbu, task>>

Start ==
  /\ run = "stop"
  /\ run' = "run"
  /\ UNCHANGED <<ring, fifo, half, hw, rbu, task>>

-----------------------------------------------------------------------------
(* The network task.                                                       *)

\* emac_received_packet_size_get finds a whole frame: lwip_pkt_handle.
PacketReady ==
  /\ pc = "poll"
  /\ own[dma_rx_desc_to_get] = "cpu" /\ st[dma_rx_desc_to_get] = "FS|LS"
  /\ pc' = "rxpkt"
  /\ UNCHANGED <<ring, dma, dma_rx_desc_to_get, cur, p>>

\* Mutant of RxPkt: the descriptor goes back to the DMA before the copy.
RxPktGivesBack ==
  /\ pc = "rxpkt"
  /\ cur' = dma_rx_desc_to_get
  /\ own' = [own EXCEPT ![dma_rx_desc_to_get] = "dma"]
  /\ dma_rx_desc_to_get' = NextDesc(dma_rx_desc_to_get)
  /\ pc' = "copy"
  /\ UNCHANGED <<st, buf, dma, p>>

\* Mutant of RxPkt: dma_rx_desc_to_get does not move on.
RxPktStays ==
  /\ pc = "rxpkt"
  /\ cur' = dma_rx_desc_to_get
  /\ pc' = "copy"
  /\ UNCHANGED <<ring, dma, dma_rx_desc_to_get, p>>

\* emac_rxpkt_chainmode.  A descriptor the DMA owns gives a frame without a
\* descriptor, and resumes a suspended reception.
RxPkt ==
  /\ pc = "rxpkt"
  /\ IF own[dma_rx_desc_to_get] = "dma"
     THEN /\ cur' = NoDesc
          /\ rbu' = FALSE
          /\ run' = IF rbu /\ run = "suspended" THEN "run" ELSE run
          /\ UNCHANGED dma_rx_desc_to_get
     ELSE /\ cur' = dma_rx_desc_to_get
          /\ dma_rx_desc_to_get' = NextDesc(dma_rx_desc_to_get)
          /\ UNCHANGED <<rbu, run>>
  /\ pc' = "copy"
  /\ UNCHANGED <<ring, fifo, half, hw, p>>

\* low_level_input: allocate a pbuf and copy the buffer into it, or fail.
Copy ==
  /\ pc = "copy"
  /\ p' \in {buf[cur], NoFrame}
  /\ pc' = "give"
  /\ UNCHANGED <<ring, dma, dma_rx_desc_to_get, cur>>

\* The descriptor goes back to the DMA: status |= EMAC_DMARXDESC_OWN.
Give ==
  /\ pc = "give"
  /\ own' = [own EXCEPT ![cur] = "dma"]
  /\ pc' = "resume"
  /\ UNCHANGED <<st, buf, dma, dma_rx_desc_to_get, cur, p>>

\* Mutant of Resume: the flag is cleared and reception is not resumed.
ResumeClearsOnly ==
  /\ pc = "resume"
  /\ rbu' = FALSE
  /\ pc' = "poll"
  /\ UNCHANGED <<ring, fifo, half, hw, run, dma_rx_desc_to_get, cur, p>>

\* RBU set: clear it and go on to the poll demand; else the frame goes up to
\* ethernet_input and the task polls again.
Resume ==
  /\ pc = "resume"
  /\ rbu' = FALSE
  /\ pc' = IF rbu THEN "demand" ELSE "poll"
  /\ UNCHANGED <<ring, fifo, half, hw, run, dma_rx_desc_to_get, cur, p>>

\* rpd = FALSE resumes a suspended reception.
PollDemand ==
  /\ pc = "demand"
  /\ run' = IF run = "suspended" THEN "run" ELSE run
  /\ pc' = "poll"
  /\ UNCHANGED <<ring, fifo, half, hw, rbu, dma_rx_desc_to_get, cur, p>>

-----------------------------------------------------------------------------
\* emac_dma_descriptor_list_address_set and emac_start in low_level_init.
Init ==
  /\ own = [d \in Descs |-> "dma"]
  /\ st = [d \in Descs |-> "FS|LS"]
  /\ buf = [d \in Descs |-> NoFrame]
  /\ dma_rx_desc_to_get = 0 /\ hw = 0
  /\ fifo = <<>> /\ half = FALSE /\ run = "run" /\ rbu = FALSE
  /\ pc = "poll" /\ cur = NoDesc /\ p = NoFrame

Dma == Store \/ Suspend
NetTask == PacketReady \/ RxPkt \/ Copy \/ Give \/ Resume \/ PollDemand
Link == Stop \/ Start

Next == Dma \/ NetTask \/ Link \/ \E f \in Frames : Arrive(f)

Spec == Init /\ [][Next]_vars

-----------------------------------------------------------------------------
(* Properties.                                                             *)

TypeOK ==
  /\ own \in [Descs -> {"dma", "cpu"}]
  /\ st \in [Descs -> {"FS|LS", "FS", "LS"}]
  /\ buf \in [Descs -> Frames \cup {NoFrame}]
  /\ dma_rx_desc_to_get \in Descs /\ hw \in Descs
  /\ fifo \in Seq(Frames) /\ half \in BOOLEAN
  /\ run \in {"run", "suspended", "stop"} /\ rbu \in BOOLEAN
  /\ pc \in {"poll", "rxpkt", "copy", "give", "resume", "demand"}
  /\ cur \in Descs \cup {NoDesc} /\ p \in Frames \cup {NoFrame}

\* A descriptor whose frame the task holds between emac_rxpkt_chainmode and
\* the return of the OWN bit.
Held == IF pc \in {"copy", "give"} THEN {cur} ELSE {}

\* low_level_input never copies from, or hands back, a descriptor that the
\* DMA owns or that does not exist: emac_rxpkt_chainmode returns a NULL
\* descriptor for one the DMA owns and low_level_input does not test for it,
\* relying on the size poll made before.
HeldIsOurs == \A d \in Held : d \in Descs /\ own[d] = "cpu"

\* A suspended DMA has set RBU, and only a task about to resume it has
\* cleared the flag; one that could go on, because its descriptor was handed
\* back, is about to be resumed.  Whatever order the steps of low_level_input
\* and of the DMA take, no wakeup is lost.
NoLostWakeup ==
  run = "suspended" =>
    /\ rbu \/ pc = "demand"
    /\ own[hw] = "dma" => pc = "demand" \/ (pc = "resume" /\ rbu)

\* The descriptors that hold a frame the task has not looked at.
Filled == {d \in Descs : own[d] = "cpu"} \ Held

\* The place of a descriptor in the ring, counted from dma_rx_desc_to_get.
Offset(d) ==
  IF d >= dma_rx_desc_to_get THEN d - dma_rx_desc_to_get
                             ELSE d + NDesc - dma_rx_desc_to_get

\* The descriptors that end a frame the task has not looked at.  Of a long
\* frame of which only the first half is stored the FIFO has the rest.
Ends == {d \in Filled : st[d] # "FS"}

\* The number of the frame that ends in d, from dma_rx_desc_to_get on.
Rank(d) == Cardinality({e \in Ends : Offset(e) <= Offset(d)})

\* The frames in the ring, in ring order.
InRing ==
  [j \in 1..Cardinality(Ends) |->
     CHOOSE f \in {buf[d] : d \in {e \in Ends : Rank(e) = j}} : TRUE]

\* The frames received and not yet copied, oldest first.
Waiting == (IF pc = "copy" THEN <<buf[cur]>> ELSE <<>>) \o InRing \o fifo

FQ == INSTANCE FrameQueue WITH Cap <- NDesc + FifoLen, q <- Waiting, out <- p

\* Ring, FIFO and task implement a queue of frames: none is lost, repeated,
\* reordered or changed, however DMA, task and link changes interleave and
\* whichever allocations fail.
ImplementsQueue == FQ!Spec

\* The task runs whenever it can (vTaskDelay(10) between two polls) and so
\* does the DMA; the link task owes nothing.
Fairness == WF_vars(NetTask) /\ WF_vars(Dma)
FairSpec == Spec /\ Fairness

\* The descriptor to be looked at next holds a part of a frame longer than a
\* buffer: emac_received_packet_size_get answers 0 for it, for ever.
Wedged ==
  own[dma_rx_desc_to_get] = "cpu" /\ st[dma_rx_desc_to_get] # "FS|LS"

\* Every descriptor the DMA has filled goes back to it, whichever allocations
\* fail and however often the DMA suspends or is stopped.  Excepted: a frame
\* longer than a buffer, on which the receiver wedges.
DescriptorsReturn ==
  \A d \in Descs : own[d] = "cpu" ~> (own[d] = "dma" \/ Wedged)
=============================================================================
