------------------------------ MODULE UsbVcpTx ------------------------------
(***************************************************************************)
(* Transmission on the virtual COM port: usb_vcp_send_data of              *)
(* cdc_msc_class.c and usbd_ept_send of usbd_core.c, called by a task,     *)
(* against the OTG interrupt that empties the endpoint                     *)
(* (usb_write_empty_txfifo, usbd_inept_handler, class_in_handler) and      *)
(* configures it (class_init_handler).  g_tx_completed orders the calls;   *)
(* nothing orders the two writers of diepempmsk, which the mass-storage    *)
(* endpoint of the same interrupt shares.  An interrupt is one step and    *)
(* may come between any two steps of a call.                               *)
(*                                                                         *)
(* Data abstraction: a message is one packet and has an identity.          *)
(***************************************************************************)
EXTENDS Naturals, Sequences

CONSTANTS
  Msgs,    \* identities of messages
  NoMsg

ASSUME VcpTxAssumption == NoMsg \notin Msgs

VARIABLES
  tx_conf,                        \* conn_state is CONFIGURED
  ena, data, fifo, tx_xferc,      \* endpoint: enabled, data to write, FIFO
  g_tx_completed,
  diepempmsk, mst,                \* mask; state of the mass-storage endpoint
  tx_pc, send_data, mval,         \* the call of usb_vcp_send_data
  accepted,   \* history: messages accepted and not yet taken by the host
  tx_broken,  \* history: the last SET_CONFIGURATION found a message under way
  clobbered   \* history: the task's write of the mask undid the interrupt's

ept    == <<ena, data, fifo, tx_xferc>>
msk    == <<diepempmsk, mst>>
txtask == <<send_data, mval>>
txhist == <<accepted, tx_broken, clobbered>>
txvars == <<tx_conf, ept, g_tx_completed, msk, tx_pc, txtask, txhist>>

TxSteps == {"clear", "check", "buf", "enable", "read", "write"}
TxInCall == tx_pc \in TxSteps

-----------------------------------------------------------------------------
(* usb_vcp_send_data and usbd_ept_send.                                    *)

\* g_tx_completed is set.  A call that finds it clear returns ERROR and
\* changes nothing.
TxTest(m) ==
  /\ tx_pc = "idle" /\ g_tx_completed
  /\ send_data' = m
  /\ accepted' = IF tx_broken THEN <<>> ELSE Append(accepted, m)
  /\ tx_pc' = "clear"
  /\ UNCHANGED <<tx_conf, ept, g_tx_completed, msk, mval, tx_broken, clobbered>>

\* Mutant of TxClear: the flag stays set.
TxClearNot ==
  /\ tx_pc = "clear"
  /\ tx_pc' = "check"
  /\ UNCHANGED <<tx_conf, ept, g_tx_completed, msk, txtask, txhist>>

TxClear ==
  /\ tx_pc = "clear"
  /\ g_tx_completed' = FALSE
  /\ tx_pc' = "check"
  /\ UNCHANGED <<tx_conf, ept, msk, txtask, txhist>>

\* usbd_ept_in_check_fifo: a transfer still enabled is disabled and flushed.
TxCheckFifo ==
  /\ tx_pc = "check"
  /\ ena' = (ena /\ ~tx_conf)
  /\ fifo' = IF ena /\ tx_conf THEN NoMsg ELSE fifo
  /\ tx_pc' = "buf"
  /\ UNCHANGED <<tx_conf, data, tx_xferc, g_tx_completed, msk, txtask, txhist>>

TxBuf ==
  /\ tx_pc = "buf"
  /\ data' = send_data
  /\ tx_pc' = "enable"
  /\ UNCHANGED <<tx_conf, ena, fifo, tx_xferc, g_tx_completed, msk, txtask, txhist>>

TxEnable ==
  /\ tx_pc = "enable"
  /\ ena' = TRUE
  /\ tx_pc' = "read"
  /\ UNCHANGED <<tx_conf, data, fifo, tx_xferc, g_tx_completed, msk, txtask, txhist>>

\* diepempmsk |= 1 << eptn is a read and a write.
TxReadMask ==
  /\ tx_pc = "read"
  /\ mval' = diepempmsk
  /\ tx_pc' = "write"
  /\ UNCHANGED <<tx_conf, ept, g_tx_completed, msk, send_data, txhist>>

TxWriteMask ==
  /\ tx_pc = "write"
  /\ diepempmsk' = mval \cup {"cdc"}
  /\ clobbered' = (clobbered \/ (mst = "unsent" /\ "msc" \notin mval))
  /\ tx_pc' = "idle" /\ send_data' = NoMsg /\ mval' = {}
  /\ UNCHANGED <<tx_conf, ept, g_tx_completed, mst, accepted, tx_broken>>

-----------------------------------------------------------------------------
(* The OTG interrupt.                                                      *)

FempDue == tx_conf /\ "cdc" \in diepempmsk /\ fifo = NoMsg

\* usb_write_empty_txfifo for the CDC endpoint: data, or nothing left and the
\* interrupt is masked.
TxFifoEmpty ==
  /\ FempDue
  /\ IF data # NoMsg
     THEN fifo' = data /\ data' = NoMsg /\ UNCHANGED diepempmsk
     ELSE diepempmsk' = diepempmsk \ {"cdc"} /\ UNCHANGED <<fifo, data>>
  /\ UNCHANGED <<tx_conf, ena, tx_xferc, g_tx_completed, mst, tx_pc, txtask, txhist>>

\* Mutant of InXferc: the whole mask is cleared.
InXfercAll ==
  /\ tx_xferc /\ tx_conf
  /\ diepempmsk' = {}
  /\ fifo' = NoMsg /\ g_tx_completed' = TRUE
  /\ tx_xferc' = FALSE
  /\ UNCHANGED <<tx_conf, ena, data, mst, tx_pc, txtask, txhist>>

\* usbd_inept_handler and class_in_handler.
InXferc ==
  /\ tx_xferc /\ tx_conf
  /\ diepempmsk' = diepempmsk \ {"cdc"}
  /\ fifo' = NoMsg /\ g_tx_completed' = TRUE
  /\ tx_xferc' = FALSE
  /\ UNCHANGED <<tx_conf, ena, data, mst, tx_pc, txtask, txhist>>

\* The mass-storage endpoint, all of it in the interrupt: a transfer starts,
\* its FIFO is filled (or a stale bit is cleared), the host takes it.
MscSend ==
  /\ tx_conf /\ mst = "idle"
  /\ mst' = "unsent" /\ diepempmsk' = diepempmsk \cup {"msc"}
  /\ UNCHANGED <<tx_conf, ept, g_tx_completed, tx_pc, txtask, txhist>>

MscFifoEmpty ==
  /\ tx_conf /\ "msc" \in diepempmsk /\ mst # "fifo"
  /\ IF mst = "unsent" THEN mst' = "fifo" /\ UNCHANGED diepempmsk
     ELSE diepempmsk' = diepempmsk \ {"msc"} /\ UNCHANGED mst
  /\ UNCHANGED <<tx_conf, ept, g_tx_completed, tx_pc, txtask, txhist>>

MscXferc ==
  /\ tx_conf /\ mst = "fifo"
  /\ mst' = "idle" /\ diepempmsk' = diepempmsk \ {"msc"}
  /\ UNCHANGED <<tx_conf, ept, g_tx_completed, tx_pc, txtask, txhist>>

\* Bus reset and end of enumeration: transmit FIFOs flushed, endpoints closed.
\* Nothing clears diepempmsk or the transfers of usb_ept_info.  IN endpoints
\* are served before the reset.
TxBusReset ==
  /\ tx_conf /\ ~FempDue /\ ~tx_xferc
  /\ tx_conf' = FALSE
  /\ ena' = FALSE /\ fifo' = NoMsg
  /\ mst' = "idle"
  /\ UNCHANGED <<data, tx_xferc, g_tx_completed, diepempmsk, tx_pc, txtask, txhist>>

\* SET_CONFIGURATION(0): class_clear_handler closes the endpoints and leaves
\* the FIFO.
TxUnconfigure ==
  /\ tx_conf /\ ~FempDue /\ ~tx_xferc
  /\ tx_conf' = FALSE
  /\ ena' = FALSE
  /\ mst' = "idle"
  /\ UNCHANGED <<data, fifo, tx_xferc, g_tx_completed, diepempmsk, tx_pc, txtask, txhist>>

\* Mutant of TxSetConfig: g_tx_completed is left as it was.
TxSetConfigKeepsFlag ==
  /\ ~tx_conf
  /\ tx_conf' = TRUE
  /\ accepted' = <<>>
  /\ tx_broken' = (TxInCall \/ ena \/ data # NoMsg \/ fifo # NoMsg)
  /\ clobbered' = FALSE
  /\ UNCHANGED <<ept, g_tx_completed, msk, tx_pc, txtask>>

\* SET_CONFIGURATION: cdc_struct_init, endpoints opened.  The history notes
\* what it found under way.
TxSetConfig ==
  /\ ~tx_conf
  /\ tx_conf' = TRUE
  /\ g_tx_completed' = TRUE
  /\ accepted' = <<>>
  /\ tx_broken' = (TxInCall \/ ena \/ data # NoMsg \/ fifo # NoMsg)
  /\ clobbered' = FALSE
  /\ UNCHANGED <<ept, msk, tx_pc, txtask>>

\* The host takes a message.
HostIn ==
  /\ tx_conf /\ ena /\ fifo # NoMsg
  /\ fifo' = NoMsg /\ ena' = FALSE /\ tx_xferc' = TRUE
  /\ accepted' = IF accepted = <<>> THEN <<>> ELSE Tail(accepted)
  /\ UNCHANGED <<tx_conf, data, g_tx_completed, msk, tx_pc, txtask, tx_broken, clobbered>>

-----------------------------------------------------------------------------
\* Before the first SET_CONFIGURATION all of it is zero.
TxInit ==
  /\ tx_conf = FALSE
  /\ ena = FALSE /\ data = NoMsg /\ fifo = NoMsg /\ tx_xferc = FALSE
  /\ g_tx_completed = FALSE
  /\ diepempmsk = {} /\ mst = "idle"
  /\ tx_pc = "idle" /\ send_data = NoMsg /\ mval = {}
  /\ accepted = <<>> /\ tx_broken = FALSE /\ clobbered = FALSE

SendData == TxClear \/ TxCheckFifo \/ TxBuf \/ TxEnable \/ TxReadMask \/ TxWriteMask
Msc == MscSend \/ MscFifoEmpty \/ MscXferc

TxNext ==
  \/ \E m \in Msgs : TxTest(m)
  \/ SendData
  \/ TxFifoEmpty \/ InXferc \/ Msc
  \/ TxBusReset \/ TxUnconfigure \/ TxSetConfig
  \/ HostIn

TxSpec == TxInit /\ [][TxNext]_txvars

\* The task finishes its calls, interrupts are served, the host polls the IN
\* endpoint.
TxFairSpec ==
  /\ TxSpec
  /\ WF_txvars(SendData) /\ WF_txvars(TxFifoEmpty)
  /\ WF_txvars(InXferc) /\ WF_txvars(HostIn)

-----------------------------------------------------------------------------
(* Properties.                                                             *)

\* Every variable has its type.
TxTypeOK ==
  /\ tx_conf \in BOOLEAN
  /\ ena \in BOOLEAN /\ data \in Msgs \cup {NoMsg}
  /\ fifo \in Msgs \cup {NoMsg} /\ tx_xferc \in BOOLEAN
  /\ g_tx_completed \in BOOLEAN
  /\ diepempmsk \subseteq {"cdc", "msc"} /\ mst \in {"idle", "unsent", "fifo"}
  /\ tx_pc \in TxSteps \cup {"idle"}
  /\ send_data \in Msgs \cup {NoMsg} /\ mval \subseteq {"cdc", "msc"}
  /\ accepted \in Seq(Msgs)
  /\ tx_broken \in BOOLEAN /\ clobbered \in BOOLEAN

\* The host takes the messages that usb_vcp_send_data accepted, in order and
\* unchanged, one at a time, unless a SET_CONFIGURATION came during a call or
\* with an unfinished message of before in the endpoint, which nothing
\* flushes.
MessagesInOrder ==
  ~tx_broken =>
    /\ Len(accepted) <= 1
    /\ tx_conf /\ fifo # NoMsg => accepted = <<fifo>>
    /\ g_tx_completed /\ ~TxInCall => accepted = <<>>

\* An IN endpoint with data still to be put into its FIFO has its bit in
\* diepempmsk, or nothing would ever put it there.  The exceptions are a
\* mass-storage transfer that the interrupt started between the task's read
\* and write of the mask, whose bit the write takes away, and a message sent
\* across a SET_CONFIGURATION.
InEndpointsFed ==
  /\ mst = "unsent" /\ ~clobbered => "msc" \in diepempmsk
  /\ tx_conf /\ ena /\ data # NoMsg /\ ~TxInCall /\ ~tx_broken => "cdc" \in diepempmsk

\* As long as the device stays configured, usb_vcp_send_data always becomes
\* able to accept a message again.
TransmissionGoesOn == tx_conf /\ ~g_tx_completed ~> g_tx_completed \/ ~tx_conf
=============================================================================
