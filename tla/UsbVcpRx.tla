------------------------------ MODULE UsbVcpRx ------------------------------
(***************************************************************************)
(* Reception on the virtual COM port: usb_vcp_get_rxdata of                *)
(* cdc_msc_class.c, polled by a task, against the OTG interrupt that fills *)
(* the same buffer (usbd_rxflvl_handler, class_out_handler) and configures *)
(* the endpoint (class_init_handler, class_clear_handler).  g_rx_completed *)
(* is all that orders them: the interrupt may come between any two steps   *)
(* of a call.  An interrupt is one step.                                   *)
(*                                                                         *)
(* Data abstraction: a packet is an identity and a length; a byte of       *)
(* g_rx_buff is the identity of the packet it came from, and what lies     *)
(* behind g_rx_buff is not kept.  trans_buf and trans_len of the endpoint  *)
(* move together (trans_len).                                              *)
(***************************************************************************)
EXTENDS Naturals, Sequences, FiniteSets

CONSTANTS
  MaxPkt,  \* USBD_CDC_MSC_OUT_MAXPACKET_SIZE: 64
  Ids,     \* identities of packets
  NoId,
  NoPkt

Pkts == [id : Ids, len : 0..MaxPkt]

ASSUME VcpRxAssumption ==
  /\ MaxPkt \in Nat \ {0}
  /\ NoId \notin Ids /\ NoPkt \notin Pkts

VARIABLES
  conf,                              \* conn_state is CONFIGURED
  armed, rxf, xferc, trans_len,      \* endpoint: enabled, packet in the FIFO
  g_rx_buff, g_rxlen, g_rx_completed,
  pc, tmp_len, recv_data,            \* the call of usb_vcp_get_rxdata
  pend,     \* history: packets acknowledged to the host and not yet returned
  broken    \* history: the last SET_CONFIGURATION found reception under way

hw   == <<armed, rxf, xferc, trans_len>>
sw   == <<g_rx_buff, g_rxlen, g_rx_completed>>
task == <<tmp_len, recv_data>>
hist == <<pend, broken>>
vars == <<conf, hw, sw, pc, task, hist>>

Steps == {"clear", "len", "copy", "buf", "arm"}
InCall == pc \in Steps

\* Bound: a transfer's length is kept up to MaxTran.
MaxTran == 2 * MaxPkt

-----------------------------------------------------------------------------
(* usb_vcp_get_rxdata.                                                     *)

\* Mutant of RxTest: a packet without data is not taken.
RxTestNotEmpty ==
  /\ pc = "idle" /\ g_rx_completed /\ g_rxlen > 0
  /\ pc' = "clear"
  /\ UNCHANGED <<conf, hw, sw, task, hist>>

\* g_rx_completed is set.  A call that finds it clear returns 0 and changes
\* nothing.
RxTest ==
  /\ pc = "idle" /\ g_rx_completed
  /\ pc' = "clear"
  /\ UNCHANGED <<conf, hw, sw, task, hist>>

RxClear ==
  /\ pc = "clear"
  /\ g_rx_completed' = FALSE
  /\ pc' = "len"
  /\ UNCHANGED <<conf, hw, g_rx_buff, g_rxlen, task, hist>>

RxLen ==
  /\ pc = "len"
  /\ tmp_len' = g_rxlen
  /\ pc' = "copy"
  /\ UNCHANGED <<conf, hw, sw, recv_data, hist>>

\* Mutant of ByteAt: the index is incremented first.
ByteAfter(i) == IF i + 1 < MaxPkt THEN g_rx_buff[i + 1] ELSE NoId

\* A byte of g_rx_buff, or of what lies behind it.
ByteAt(i) == IF i < MaxPkt THEN g_rx_buff[i] ELSE NoId

\* One byte; g_rxlen is read again every time.
RxCopy ==
  /\ pc = "copy" /\ Len(recv_data) < g_rxlen
  /\ recv_data' = Append(recv_data, ByteAt(Len(recv_data)))
  /\ UNCHANGED <<conf, hw, sw, pc, tmp_len, hist>>

RxCopied ==
  /\ pc = "copy" /\ Len(recv_data) >= g_rxlen
  /\ pc' = "buf"
  /\ UNCHANGED <<conf, hw, sw, task, hist>>

\* usbd_ept_recv: trans_buf and trans_len, then the endpoint's registers.
RxBuf ==
  /\ pc = "buf"
  /\ trans_len' = 0
  /\ pc' = "arm"
  /\ UNCHANGED <<conf, armed, rxf, xferc, sw, task, hist>>

RxArm ==
  /\ pc = "arm"
  /\ armed' = TRUE
  /\ pc' = "idle" /\ tmp_len' = 0 /\ recv_data' = <<>>
  /\ pend' = IF pend = <<>> THEN <<>> ELSE Tail(pend)
  /\ UNCHANGED <<conf, rxf, xferc, trans_len, sw, broken>>

-----------------------------------------------------------------------------
(* The OTG interrupt.                                                      *)

\* usbd_rxflvl_handler reads the packet to trans_buf; the transfer is over.
RxFlvl ==
  /\ rxf # NoPkt
  /\ g_rx_buff' = [i \in DOMAIN g_rx_buff |->
                     IF trans_len <= i /\ i < trans_len + rxf.len
                     THEN rxf.id ELSE g_rx_buff[i]]
  /\ trans_len' = IF trans_len + rxf.len < MaxTran THEN trans_len + rxf.len
                  ELSE MaxTran
  /\ rxf' = NoPkt /\ xferc' = TRUE
  /\ UNCHANGED <<conf, armed, g_rxlen, g_rx_completed, pc, task, hist>>

\* Mutant of OutXferc: the interrupt also arms the endpoint again.
OutXfercArms ==
  /\ xferc /\ conf
  /\ g_rxlen' = trans_len /\ g_rx_completed' = TRUE
  /\ xferc' = FALSE /\ armed' = TRUE /\ trans_len' = 0
  /\ UNCHANGED <<conf, rxf, g_rx_buff, pc, task, hist>>

\* Mutant of OutXferc: a packet without data sets no flag.
OutXfercNotEmpty ==
  /\ xferc /\ conf
  /\ g_rxlen' = trans_len
  /\ g_rx_completed' = (g_rx_completed \/ trans_len > 0)
  /\ xferc' = FALSE
  /\ UNCHANGED <<conf, armed, rxf, trans_len, g_rx_buff, pc, task, hist>>

\* class_out_handler; a closed endpoint is masked in daintmsk.
OutXferc ==
  /\ xferc /\ conf
  /\ g_rxlen' = trans_len /\ g_rx_completed' = TRUE
  /\ xferc' = FALSE
  /\ UNCHANGED <<conf, armed, rxf, trans_len, g_rx_buff, pc, task, hist>>

\* Bus reset and end of enumeration: flags cleared, endpoint closed.  Nothing
\* flushes the receive FIFO; a reset of the core may.
BusReset ==
  /\ conf
  /\ conf' = FALSE
  /\ armed' = FALSE /\ xferc' = FALSE
  /\ rxf' \in {rxf, NoPkt}
  /\ UNCHANGED <<trans_len, sw, pc, task, hist>>

\* SET_CONFIGURATION(0): class_clear_handler closes the endpoint.  A packet
\* whose completion is pending is dropped: conn_state is tested first.
Unconfigure ==
  /\ conf
  /\ conf' = FALSE
  /\ armed' = FALSE /\ xferc' = FALSE
  /\ UNCHANGED <<rxf, trans_len, sw, pc, task, hist>>

\* SET_CONFIGURATION: cdc_struct_init, endpoint opened and armed.  The history
\* notes what it found under way.
SetConfig ==
  /\ ~conf
  /\ conf' = TRUE
  /\ g_rx_completed' = FALSE
  /\ trans_len' = 0 /\ armed' = TRUE
  /\ pend' = <<>>
  /\ broken' = (InCall \/ rxf # NoPkt \/ xferc)
  /\ UNCHANGED <<rxf, xferc, g_rx_buff, g_rxlen, pc, task>>

\* The host sends a packet to the enabled endpoint; it is acknowledged.
HostOut(p) ==
  /\ conf /\ armed /\ rxf = NoPkt
  /\ rxf' = p /\ armed' = FALSE
  /\ pend' = IF broken THEN <<>> ELSE Append(pend, p)
  /\ UNCHANGED <<conf, xferc, trans_len, sw, pc, task, broken>>

-----------------------------------------------------------------------------
\* Before the first SET_CONFIGURATION all of it is zero.
Init ==
  /\ conf = FALSE
  /\ armed = FALSE /\ rxf = NoPkt /\ xferc = FALSE /\ trans_len = 0
  /\ g_rx_buff = [i \in 0..(MaxPkt - 1) |-> NoId]
  /\ g_rxlen = 0 /\ g_rx_completed = FALSE
  /\ pc = "idle" /\ tmp_len = 0 /\ recv_data = <<>>
  /\ pend = <<>> /\ broken = FALSE

GetRxData == RxTest \/ RxClear \/ RxLen \/ RxCopy \/ RxCopied \/ RxBuf \/ RxArm

Next ==
  \/ GetRxData
  \/ RxFlvl \/ OutXferc
  \/ BusReset \/ Unconfigure \/ SetConfig
  \/ \E p \in Pkts : HostOut(p)

Spec == Init /\ [][Next]_vars

\* The task polls for ever and finishes its calls; interrupts are served.
FairSpec ==
  Spec /\ WF_vars(GetRxData) /\ WF_vars(RxFlvl) /\ WF_vars(OutXferc)

-----------------------------------------------------------------------------
(* Properties.                                                             *)

\* Every variable has its type; lengths stay within the bound.
TypeOK ==
  /\ conf \in BOOLEAN
  /\ armed \in BOOLEAN /\ rxf \in Pkts \cup {NoPkt} /\ xferc \in BOOLEAN
  /\ trans_len \in 0..MaxTran
  /\ g_rx_buff \in [0..(MaxPkt - 1) -> Ids \cup {NoId}]
  /\ g_rxlen \in 0..MaxTran /\ g_rx_completed \in BOOLEAN
  /\ pc \in Steps \cup {"idle"}
  /\ tmp_len \in 0..MaxTran /\ recv_data \in Seq(Ids \cup {NoId})
  /\ pend \in Seq(Pkts) /\ broken \in BOOLEAN

\* Who has g_rx_buff: the endpoint, the FIFO, a pending completion, the flag
\* or the call of usb_vcp_get_rxdata.
Holders ==
  {h \in {"endpoint", "fifo", "completion", "flag", "call"} :
     \/ h = "endpoint" /\ armed
     \/ h = "fifo" /\ rxf # NoPkt
     \/ h = "completion" /\ xferc
     \/ h = "flag" /\ g_rx_completed /\ pc # "clear"
     \/ h = "call" /\ InCall}

\* The receive buffer has one holder at a time, and the endpoint is only
\* enabled at its start (usbd_ept_recv resets trans_len), unless the last
\* SET_CONFIGURATION came during a call of usb_vcp_get_rxdata or with a packet
\* of before in the FIFO: then the endpoint is enabled while the task copies.
OneHolder ==
  conf /\ ~broken =>
    /\ \A g, h \in Holders : g = h
    /\ armed \/ rxf # NoPkt => trans_len = 0

\* Whatever happened, a configured endpoint is never left disabled with
\* nobody about to enable it: reception cannot die.
ReceptionAlive == conf => Holders # {}

\* What usb_vcp_get_rxdata returns is one packet, the next one that was
\* acknowledged to the host, whole and unmixed, although the interrupt writes
\* g_rx_buff and g_rxlen at any time (with the exception of OneHolder).
NextPacketIntact ==
  pc \in {"buf", "arm"} /\ conf /\ ~broken =>
    /\ pend # <<>> /\ tmp_len = Head(pend).len
    /\ recv_data = [i \in 1..tmp_len |-> Head(pend).id]

\* The receive endpoint is always enabled again as long as the device stays
\* configured: a polling task gets every packet and makes room for the next.
ReceptionGoesOn == conf /\ ~armed ~> armed \/ ~conf
=============================================================================
