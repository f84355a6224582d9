--------------------------- MODULE UsbVcpTx_proofs ---------------------------
(***************************************************************************)
(* Proofs about transmission on the virtual COM port, for every set of     *)
(* messages: the host gets the accepted messages one at a time and         *)
(* unchanged, and the two writers of diepempmsk starve an endpoint in no   *)
(* way but the one InEndpointsFed names.                                   *)
(***************************************************************************)
EXTENDS UsbVcpTx, TLAPS

-----------------------------------------------------------------------------
(* Types.                                                                  *)

\* The zeroed variables have their types.
LEMMA InitTypes == TxInit => TxTypeOK
  <1> SUFFICES ASSUME TxInit PROVE TxTypeOK
    OBVIOUS
  <1>1. diepempmsk \subseteq {"cdc", "msc"} /\ mval \subseteq {"cdc", "msc"}
    BY DEF TxInit
  <1>2. accepted \in Seq(Msgs)
    BY DEF TxInit
  <1> QED
    BY <1>1, <1>2 DEF TxInit, TxTypeOK, TxSteps

\* Every step keeps the types.
LEMMA StepTypes == TxTypeOK /\ [TxNext]_txvars => TxTypeOK'
  <1> SUFFICES ASSUME TxTypeOK, [TxNext]_txvars PROVE TxTypeOK'
    OBVIOUS
  <1> USE DEF TxTypeOK, TxSteps, ept, msk, txtask, txhist
  <1>1. ASSUME NEW m \in Msgs, TxTest(m) PROVE TxTypeOK'
    <2>1. accepted' \in Seq(Msgs)
      BY <1>1 DEF TxTest
    <2> QED
      BY <1>1, <2>1 DEF TxTest
  <1>2. CASE TxClear \/ TxBuf \/ TxEnable \/ TxReadMask
    BY <1>2, ZenonT(60) DEF TxClear, TxBuf, TxEnable, TxReadMask
  <1>3. CASE TxCheckFifo
    BY <1>3 DEF TxCheckFifo
  <1>4. CASE TxWriteMask
    <2>1. clobbered' \in BOOLEAN
      BY <1>4 DEF TxWriteMask
    <2>2. diepempmsk' \subseteq {"cdc", "msc"} /\ mval' \subseteq {"cdc", "msc"}
      BY <1>4 DEF TxWriteMask
    <2> QED
      BY <1>4, <2>1, <2>2 DEF TxWriteMask
  <1>5. CASE TxFifoEmpty
    <2>1. diepempmsk' \subseteq {"cdc", "msc"}
      BY <1>5 DEF TxFifoEmpty
    <2> QED
      BY <1>5, <2>1 DEF TxFifoEmpty
  <1>6. CASE InXferc
    BY <1>6 DEF InXferc
  <1>7. CASE Msc
    BY <1>7, ZenonT(60) DEF Msc, MscSend, MscFifoEmpty, MscXferc
  <1>8. CASE TxBusReset \/ TxUnconfigure
    BY <1>8 DEF TxBusReset, TxUnconfigure
  <1>9. CASE TxSetConfig
    <2>1. tx_broken' \in BOOLEAN /\ accepted' \in Seq(Msgs)
      BY <1>9 DEF TxSetConfig, TxInCall
    <2> QED
      BY <1>9, <2>1 DEF TxSetConfig
  <1>10. CASE HostIn
    <2>1. accepted' \in Seq(Msgs)
      BY <1>10 DEF HostIn
    <2> QED
      BY <1>10, <2>1 DEF HostIn
  <1>11. CASE UNCHANGED txvars
    BY <1>11 DEF txvars
  <1> QED
    BY <1>1, <1>2, <1>3, <1>4, <1>5, <1>6, <1>7, <1>8, <1>9, <1>10, <1>11
       DEF TxNext, SendData

\* Every variable keeps its type.
THEOREM TypeCorrect == TxSpec => []TxTypeOK
  BY InitTypes, StepTypes, PTL DEF TxSpec

-----------------------------------------------------------------------------
(* The inductive invariant.                                                *)

\* The endpoint has nothing of a message.
Empty == ~ena /\ data = NoMsg /\ fifo = NoMsg

\* It has the one accepted message, before its FIFO or in it.
Loaded(m) ==
  /\ accepted = <<m>>
  /\ (data = m /\ fifo = NoMsg) \/ (data = NoMsg /\ fifo = m)

\* A device that is not configured completes nothing.
Unconfigured == ~tx_conf => ~tx_xferc /\ mst = "idle"

\* What the flag says of the messages, configured or not.
FlagTells ==
  /\ Len(accepted) <= 1
  /\ g_tx_completed /\ tx_pc # "clear" => accepted = <<>>
  /\ tx_pc \in {"check", "buf", "enable"} => ~g_tx_completed

\* Where the message is while the device is configured, by the step of the
\* call.  The message may be taken and completed before the call has ended.
Located ==
  /\ tx_pc \in {"clear", "check", "buf"} => accepted = <<send_data>> /\ Empty /\ ~tx_xferc
  /\ tx_pc = "enable" => Loaded(send_data) /\ ~ena /\ ~tx_xferc
  /\ tx_pc \in {"read", "write", "idle"} =>
       /\ g_tx_completed \/ tx_xferc => Empty /\ accepted = <<>>
       /\ tx_xferc => ~g_tx_completed
       /\ ~g_tx_completed /\ ~tx_xferc => ena /\ \E m \in Msgs : Loaded(m)

IInv ==
  /\ Unconfigured
  /\ ~tx_broken => FlagTells
  /\ tx_conf /\ ~tx_broken => Located
  /\ tx_pc # "idle" => send_data \in Msgs
  /\ InEndpointsFed

USE DEF IInv, Unconfigured, FlagTells, InEndpointsFed, TxInCall, TxSteps

\* A call keeps it.
LEMMA CallInv ==
  TxTypeOK /\ IInv /\ (SendData \/ \E m \in Msgs : TxTest(m)) => IInv'
  <1> SUFFICES ASSUME TxTypeOK, IInv, SendData \/ \E m \in Msgs : TxTest(m) PROVE IInv'
    OBVIOUS
  <1> USE VcpTxAssumption DEF TxTypeOK, ept, msk, txtask, txhist, Empty, Loaded, Located
  <1>1. ASSUME NEW m \in Msgs, TxTest(m) PROVE IInv'
    <2>1. /\ tx_pc = "idle" /\ tx_pc' = "clear" /\ g_tx_completed /\ send_data' = m
          /\ UNCHANGED <<tx_conf, ept, g_tx_completed, msk, mval, tx_broken, clobbered>>
      BY <1>1 DEF TxTest
    <2>2. ASSUME ~tx_broken PROVE accepted' = <<m>>
      BY <1>1, <2>2, <2>1 DEF TxTest
    <2>3. ~tx_broken' => FlagTells'
      <3>1. Len(<<m>>) = 1
        OBVIOUS
      <3>2. ASSUME ~tx_broken' PROVE Len(accepted') <= 1
        <4>1. accepted' = <<m>>
          BY <2>1, <2>2, <3>2
        <4> QED
          BY <3>1, <4>1
      <3> QED
        BY <2>1, <3>2
    <2>4. tx_conf' /\ ~tx_broken' => Located'
      BY <2>1, <2>2
    <2> QED
      BY <2>1, <2>3, <2>4
  <1>2. CASE TxClear
    BY <1>2 DEF TxClear
  <1>3. CASE TxCheckFifo
    <2>1. /\ tx_pc = "check" /\ tx_pc' = "buf"
          /\ UNCHANGED <<tx_conf, data, tx_xferc, g_tx_completed, msk, txtask, txhist>>
      BY <1>3 DEF TxCheckFifo
    <2>2. ASSUME tx_conf, ~tx_broken PROVE ~ena' /\ fifo' = NoMsg
      BY <1>3, <2>2 DEF TxCheckFifo
    <2> QED
      BY <2>1, <2>2
  <1>4. CASE TxBuf
    BY <1>4 DEF TxBuf
  <1>5. CASE TxEnable
    BY <1>5 DEF TxEnable
  <1>6. CASE TxReadMask
    BY <1>6 DEF TxReadMask
  <1>7. CASE TxWriteMask
    BY <1>7 DEF TxWriteMask
  <1> QED
    BY <1>1, <1>2, <1>3, <1>4, <1>5, <1>6, <1>7 DEF SendData

\* The interrupts keep it.
LEMMA InterruptInv == TxTypeOK /\ IInv /\ (TxFifoEmpty \/ InXferc \/ Msc) => IInv'
  <1> SUFFICES ASSUME TxTypeOK, IInv, TxFifoEmpty \/ InXferc \/ Msc PROVE IInv'
    OBVIOUS
  <1> USE VcpTxAssumption DEF TxTypeOK, ept, txtask, txhist, Empty, Loaded, Located
  <1>1. CASE TxFifoEmpty
    BY <1>1 DEF TxFifoEmpty, FempDue
  <1>2. CASE InXferc
    BY <1>2 DEF InXferc
  <1>3. CASE Msc
    BY <1>3 DEF Msc, MscSend, MscFifoEmpty, MscXferc
  <1> QED
    BY <1>1, <1>2, <1>3

\* The host and the configurations keep it.
LEMMA HostInv ==
  TxTypeOK /\ IInv /\ (TxBusReset \/ TxUnconfigure \/ TxSetConfig \/ HostIn) => IInv'
  <1> SUFFICES ASSUME TxTypeOK, IInv, TxBusReset \/ TxUnconfigure \/ TxSetConfig \/ HostIn
               PROVE IInv'
    OBVIOUS
  <1> USE VcpTxAssumption DEF TxTypeOK, ept, msk, txtask, txhist, Empty, Loaded, Located
  <1>1. CASE TxBusReset \/ TxUnconfigure
    BY <1>1 DEF TxBusReset, TxUnconfigure
  <1>2. CASE TxSetConfig
    <2>1. /\ ~tx_conf /\ tx_conf' /\ g_tx_completed' /\ accepted' = <<>> /\ clobbered' = FALSE
          /\ UNCHANGED <<ena, data, fifo, tx_xferc, diepempmsk, mst, tx_pc, send_data, mval>>
      BY <1>2 DEF TxSetConfig
    <2>2. ASSUME ~tx_broken' PROVE tx_pc = "idle" /\ Empty
      BY <1>2, <2>2 DEF TxSetConfig
    <2> QED
      BY <2>1, <2>2
  <1>3. CASE HostIn
    BY <1>3 DEF HostIn
  <1> QED
    BY <1>1, <1>2, <1>3

\* The inductive invariant holds of every behaviour.
LEMMA Invariant == TxSpec => []IInv
  <1>1. TxInit => IInv
    BY DEF TxInit
  <1>2. TxTypeOK /\ IInv /\ [TxNext]_txvars => IInv'
    <2>1. IInv /\ UNCHANGED txvars => IInv'
      BY DEF Located, Empty, Loaded, txvars, ept, msk, txtask, txhist
    <2> HIDE DEF IInv
    <2> QED
      BY <2>1, CallInv, InterruptInv, HostInv DEF TxNext
  <1> HIDE DEF IInv
  <1> QED
    BY <1>1, <1>2, TypeCorrect, PTL DEF TxSpec

\* The host takes the accepted messages in order, unchanged, one at a time,
\* except after a SET_CONFIGURATION during a transmission.
THEOREM MessagesStayInOrder == TxSpec => []MessagesInOrder
  <1>1. TxTypeOK /\ IInv => MessagesInOrder
    BY VcpTxAssumption DEF TxTypeOK, MessagesInOrder, Located, Empty, Loaded
  <1> HIDE DEF IInv
  <1> QED
    BY <1>1, Invariant, TypeCorrect, PTL

\* An IN endpoint with data for its FIFO has its bit in diepempmsk, with the
\* exceptions the property names.
THEOREM EndpointsStayFed == TxSpec => []InEndpointsFed
  <1>1. IInv => InEndpointsFed
    OBVIOUS
  <1> HIDE DEF IInv, InEndpointsFed
  <1> QED
    BY <1>1, Invariant, PTL
=============================================================================
