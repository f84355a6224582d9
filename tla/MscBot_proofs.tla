--------------------------- MODULE MscBot_proofs ---------------------------
(***************************************************************************)
(* Proofs about MscBot for every disk size, block size, word size and set  *)
(* of commands.  IInv ties the transport to the command block it serves,   *)
(* BusInv the transport to the host and the bus, whenever the host gives   *)
(* up; PatientInv adds what holds if the host gives up only on a device    *)
(* with nothing left to serve, and sends only well-formed commands.        *)
(***************************************************************************)
EXTENDS MscBot, TLAPS

IInv == TypeOK /\ CommandInv

\* MIN of two lengths is a length, and not above either.
LEMMA MinOfNat ==
  ASSUME NEW a \in Nat, NEW b \in Nat
  PROVE  MinOf(a, b) \in Nat /\ MinOf(a, b) <= a /\ MinOf(a, b) <= b
  BY DEF MinOf

\* What the transfers of usbd_ept_send look like.
LEMMA XferTypes ==
  /\ NoXfer \in Xfers
  /\ \A n \in Nat, b \in Vals \cup {Response} : DataXfer(n, b) \in Xfers
  /\ \A c \in CswType, st \in {"PASS", "FAILED"} :
       CswXfer(c, st) \in Xfers
  /\ \A x \in Xfers : Flushed(x) \in Xfers
  <1>1. NoXfer \in Xfers
    BY ConstAssumption DEF NoXfer, Xfers
  <1>2. ASSUME NEW n \in Nat, NEW b \in Vals \cup {Response}
        PROVE  DataXfer(n, b) \in Xfers
    BY <1>1 DEF DataXfer, Xfers
  <1>3. ASSUME NEW c \in CswType, NEW st \in {"PASS", "FAILED"}
        PROVE  CswXfer(c, st) \in Xfers
    BY <1>1 DEF CswXfer, Xfers, CswType
  <1>4. ASSUME NEW x \in Xfers
        PROVE  Flushed(x) \in Xfers
    BY <1>1, <1>4 DEF Flushed, Xfers
  <1>5. QED
    BY <1>1, <1>2, <1>3, <1>4

\* DiskBlock is a block of the disk, and the identity inside it.
LEMMA DiskBlockType ==
  ASSUME NEW a \in Nat
  PROVE  DiskBlock(a) \in 0..(NBlks - 1) /\ (a < NBlks => DiskBlock(a) = a)
  BY ConstAssumption DEF DiskBlock

\* bot_scsi_cmd_process rejects with one of the three sense codes or accepts;
\* an accepted READ(10) or WRITE(10) has the length of its blocks, and a
\* range inside the disk unless the 32-bit sum wraps.
LEMMA Accepted ==
  ASSUME TypeOK, NEW c \in CbwType
  PROVE  /\ Reject(c) \in Senses \cup {"none"}
         /\ c.op \in BlockOps /\ Reject(c) = "none" =>
              /\ c.len = Scaled(c, c.cnt) * BlkSize
              /\ StoresRange(c)
              /\ Wraps(c) \/ c.lba + c.cnt <= NBlks
  <1>1. Reject(c) \in Senses \cup {"none"}
    BY DEF Reject, Senses
  <1>2. ASSUME c.op \in BlockOps, Reject(c) = "none"
        PROVE  StoresRange(c) /\ ~AddressBad(c) /\ c.len = Scaled(c, c.cnt) * BlkSize
    <2>1. ~(StoresRange(c) /\ AddressBad(c)) /\ ~BadCommand(c)
      BY <1>2 DEF Reject, BlockOps
    <2>2. QED
      BY <1>2, <2>1 DEF BadCommand
  <1>3. ASSUME ~AddressBad(c), ~Wraps(c)
        PROVE  c.lba + c.cnt <= NBlks
    <2>1. c.lba \in Nat /\ c.cnt \in Nat /\ c.lba + c.cnt < W /\ W \in Nat
      BY <1>3, ConstAssumption DEF CbwType, Wraps
    <2>2. (c.lba + c.cnt) % W = c.lba + c.cnt
      BY <2>1
    <2>3. QED
      BY <1>3, <2>1, <2>2, ConstAssumption DEF AddressBad, TypeOK, BotTypes
  <1>4. QED
    BY <1>1, <1>2, <1>3

\* blk_addr and blk_len are what the CBW says, or 0.
LEMMA ScaledType ==
  ASSUME NEW c \in CbwType
  PROVE  /\ Scaled(c, c.lba) \in Nat /\ Scaled(c, c.cnt) \in Nat
         /\ Scaled(c, c.cnt) > 0 =>
              Scaled(c, c.lba) = c.lba /\ Scaled(c, c.cnt) = c.cnt
  BY ConstAssumption DEF Scaled, CbwType

\* The reply operators keep types.
LEMMA ReplyTypes ==
  ASSUME TypeOK, NEW c \in CswType,
         NEW st \in {"PASS", "FAILED"}, SendCsw(c, st)
  PROVE  /\ csw' \in CswType
         /\ msc_state' = "IDLE" /\ ept_in' \in Xfers
         /\ ept_out' = "cbw" /\ recv' = FALSE
  BY XferTypes DEF SendCsw, EptRecv

\* bot_cbw_decode leaves a CSW of the right type.
LEMMA DecodedCswType ==
  ASSUME TypeOK
  PROVE  /\ DecodedCsw \in CswType
         /\ DecodedCsw.residue = cbw.len
  BY DEF TypeOK, BotTypes, DecodedCsw, CbwType, CswType

\* A chunk of READ(10) keeps the residue equal to what is left to send.
LEMMA ReadChunkInv ==
  ASSUME TypeOK, NEW a \in Nat, NEW n \in Nat,
         NEW c \in CswType,
         c.residue = n * BlkSize, ReadChunk(a, n, c)
  PROVE  /\ csw' \in CswType
         /\ csw'.residue = blk_len' * BlkSize
         /\ blk_addr' \in Nat /\ blk_len' \in Nat
         /\ data' \in Vals \cup {Response}
         /\ ept_in' \in Xfers
         /\ msc_state' \in {"LAST_DATA", "DATA_IN"}
  <1> DEFINE k == MinOf(n, 1)
  <1>1. k \in Nat /\ k <= n /\ k \in {0, 1}
    BY DEF MinOf
  <1>2. BlkSize \in Nat /\ k * BlkSize \in Nat /\ (n - k) * BlkSize = n * BlkSize - k * BlkSize
        /\ (n - k) * BlkSize \in Nat
    BY <1>1, ConstAssumption
  <1>3. csw' = [c EXCEPT !.residue = c.residue - k * BlkSize]
    BY DEF ReadChunk
  <1>4. csw'.residue = (n - k) * BlkSize /\ csw'.tag = c.tag
    BY <1>2, <1>3 DEF CswType
  <1>5. csw' \in CswType
    BY <1>2, <1>3, <1>4 DEF CswType
  <1>6. disk[DiskBlock(a)] \in Vals
    BY DiskBlockType DEF TypeOK, HostTypes
  <1>7. DataXfer(k * BlkSize, disk[DiskBlock(a)]) \in Xfers
    BY <1>2, <1>6, XferTypes
  <1>8. /\ blk_len' = n - k /\ blk_addr' = a + k
        /\ ept_in' = DataXfer(k * BlkSize, disk[DiskBlock(a)])
        /\ data' \in {disk[DiskBlock(a)], data}
        /\ msc_state' \in {"LAST_DATA", "DATA_IN"}
    BY DEF ReadChunk
  <1>9. data \in Vals \cup {Response}
    BY DEF TypeOK, BotTypes
  <1> HIDE DEF k
  <1>10. csw'.residue = blk_len' * BlkSize
    BY <1>4, <1>8
  <1>11. blk_addr' \in Nat /\ blk_len' \in Nat
    BY <1>1, <1>8
  <1>12. data' \in Vals \cup {Response} /\ ept_in' \in Xfers
    BY <1>6, <1>7, <1>8, <1>9
  <1>13. QED
    BY <1>5, <1>8, <1>10, <1>11, <1>12

\* The power-up state.
LEMMA InitInv == Init => IInv
  <1> SUFFICES ASSUME Init PROVE TypeOK /\ CommandInv
    BY DEF IInv
  <1>1. ZeroCbw \in CbwType
    BY ConstAssumption DEF ZeroCbw, CbwType, Ops, NoDataOps
  <1>2. 0 \in 0..(NTags - 1) /\ <<>> \in Seq(Vals \cup {Response})
    BY ConstAssumption
  <1>3. BotTypes
    BY <1>1, <1>2 DEF Init, BotTypes, CswType, Senses
  <1>4. UsbTypes
    BY XferTypes DEF Init, UsbTypes
  <1>5. HostTypes
    BY <1>1, <1>2 DEF Init, HostTypes
  <1>6. CommandInv
    BY DEF Init, CommandInv, EndpointInv, TransferInv
  <1>7. QED
    BY <1>3, <1>4, <1>5, <1>6 DEF TypeOK

\* Every step of the interrupt and of the host keeps the invariant.
LEMMA StepInv == IInv /\ [Next]_vars => IInv'
  <1> SUFFICES ASSUME TypeOK, CommandInv, [Next]_vars
               PROVE  TypeOK' /\ CommandInv'
    BY DEF IInv
  <1>0. BotTypes /\ UsbTypes /\ HostTypes /\ EndpointInv /\ TransferInv
    BY DEF TypeOK, CommandInv
  <1> USE <1>0 DEF bot, ept, irq, host
  <1>1. CASE IrqEnter
    <2>1. BotTypes'
      BY <1>1 DEF IrqEnter, BotTypes
    <2>2. UsbTypes'
      BY <1>1 DEF IrqEnter, UsbTypes, Flags
    <2>3. HostTypes'
      BY <1>1 DEF IrqEnter, HostTypes
    <2>4. EndpointInv'
      BY <1>1 DEF IrqEnter, EndpointInv, Flags
    <2>5. TransferInv'
      BY <1>1 DEF IrqEnter, TransferInv, Wraps
    <2>6. QED
      BY <2>1, <2>2, <2>3, <2>4, <2>5 DEF TypeOK, CommandInv
  <1>2. CASE CbwInvalid
    <2>1. BotTypes'
      BY <1>2, DecodedCswType DEF CbwInvalid, ServeCbw, ServeXfer, BotTypes, Senses
    <2>2. UsbTypes'
      BY <1>2 DEF CbwInvalid, ServeCbw, ServeXfer, UsbTypes, Stall, EptRecv
    <2>3. HostTypes'
      BY <1>2 DEF CbwInvalid, ServeCbw, ServeXfer, HostTypes
    <2>4. EndpointInv'
      BY <1>2 DEF CbwInvalid, ServeCbw, ServeXfer, EndpointInv, Stall, EptRecv
    <2>5. TransferInv'
      BY <1>2 DEF CbwInvalid, ServeCbw, ServeXfer, TransferInv
    <2>6. QED
      BY <2>1, <2>2, <2>3, <2>4, <2>5 DEF TypeOK, CommandInv
  <1>3. CASE CmdRejected
    <2>1. cbw \in CbwType /\ Reject(cbw) \in Senses
      BY <1>3, Accepted DEF BotTypes, CmdRejected
    <2>2. blk_addr' \in Nat /\ blk_len' \in Nat
      BY <1>3, <2>1, ScaledType DEF CmdRejected, StoreRange, BotTypes
    <2>3. BotTypes'
      BY <1>3, <2>1, <2>2, DecodedCswType DEF CmdRejected, ServeCbw, ServeXfer, BotTypes
    <2>4. UsbTypes'
      BY <1>3 DEF CmdRejected, ServeCbw, ServeXfer, UsbTypes, Stall, EptRecv
    <2>5. HostTypes'
      BY <1>3 DEF CmdRejected, ServeCbw, ServeXfer, HostTypes
    <2>6. EndpointInv'
      BY <1>3 DEF CmdRejected, ServeCbw, ServeXfer, EndpointInv, Stall, EptRecv
    <2>7. TransferInv'
      BY <1>3 DEF CmdRejected, ServeCbw, ServeXfer, TransferInv
    <2>8. QED
      BY <2>3, <2>4, <2>5, <2>6, <2>7 DEF TypeOK, CommandInv
  <1>4. CASE CmdNoData
    <2>1. blk_addr' \in Nat /\ blk_len' \in Nat
      BY <1>4, ScaledType DEF CmdNoData, StoreRange, BotTypes
    <2>2. csw' \in CswType /\ msc_state' = "IDLE" /\ ept_in' \in Xfers
          /\ ept_out' = "cbw" /\ recv' = FALSE
      BY <1>4, DecodedCswType, ReplyTypes DEF CmdNoData
    <2>3. BotTypes'
      BY <1>4, <2>1, <2>2 DEF CmdNoData, ServeCbw, ServeXfer, BotTypes
    <2>4. UsbTypes'
      BY <1>4, <2>2 DEF CmdNoData, ServeCbw, ServeXfer, UsbTypes
    <2>5. HostTypes'
      BY <1>4, <2>2 DEF CmdNoData, ServeCbw, ServeXfer, HostTypes
    <2>6. EndpointInv'
      BY <1>4, <2>2 DEF CmdNoData, ServeCbw, ServeXfer, EndpointInv
    <2>7. TransferInv'
      BY <1>4, <2>2 DEF CmdNoData, ServeCbw, ServeXfer, TransferInv
    <2>8. QED
      BY <2>3, <2>4, <2>5, <2>6, <2>7 DEF TypeOK, CommandInv
  <1>5. CASE CmdSendData
    <2> DEFINE n == MinOf(DataLen(cbw), cbw.len)
    <2>1. cbw \in CbwType /\ cbw.op \in NoDataOps \cup RespOps
      BY <1>5 DEF CmdSendData, Reject, BadCommand, BotTypes, CbwType, Ops
    <2>2. DataLen(cbw) \in Nat
      BY <2>1, ConstAssumption, MinOfNat DEF DataLen, CbwType
    <2>3. n \in Nat /\ n <= cbw.len /\ cbw.len \in Nat
      BY <2>1, <2>2, MinOfNat DEF CbwType
    <2> HIDE DEF n
    <2>4. csw' = [DecodedCsw EXCEPT !.residue = DecodedCsw.residue - n]
          /\ ept_in' = DataXfer(n, Response)
      BY <1>5 DEF CmdSendData, n
    <2>5. csw' \in CswType /\ ept_in' \in Xfers
      BY <2>3, <2>4, DecodedCswType, XferTypes DEF CswType
    <2>6. BotTypes'
      BY <1>5, <2>5 DEF CmdSendData, ServeCbw, ServeXfer, BotTypes
    <2>7. UsbTypes'
      BY <1>5, <2>5 DEF CmdSendData, ServeCbw, ServeXfer, UsbTypes
    <2>8. HostTypes'
      BY <1>5, <2>5 DEF CmdSendData, ServeCbw, ServeXfer, HostTypes
    <2>9. EndpointInv'
      BY <1>5 DEF CmdSendData, ServeCbw, ServeXfer, EndpointInv, CbwAccepted
    <2>10. TransferInv'
      BY <1>5, <2>5 DEF CmdSendData, ServeCbw, ServeXfer, TransferInv
    <2>11. QED
      BY <2>6, <2>7, <2>8, <2>9, <2>10 DEF TypeOK, CommandInv
  <1>6. CASE Read10Start
    <2> DEFINE a == Scaled(cbw, cbw.lba)
               n == Scaled(cbw, cbw.cnt)
    <2>1. cbw \in CbwType /\ a \in Nat /\ n \in Nat
      BY ScaledType DEF BotTypes
    <2>2. cbw.len = n * BlkSize
      BY <1>6, <2>1, Accepted DEF Read10Start, BlockOps
    <2>3. ReadChunk(a, n, DecodedCsw)
      BY <1>6 DEF Read10Start
    <2> HIDE DEF a, n
    <2>4. /\ csw' \in CswType
          /\ csw'.residue = blk_len' * BlkSize
          /\ blk_addr' \in Nat /\ blk_len' \in Nat
          /\ data' \in Vals \cup {Response}
          /\ ept_in' \in Xfers
          /\ msc_state' \in {"LAST_DATA", "DATA_IN"}
      BY <2>1, <2>2, <2>3, DecodedCswType, ReadChunkInv
    <2>5. BotTypes'
      BY <1>6, <2>4 DEF Read10Start, ServeCbw, ServeXfer, BotTypes
    <2>6. UsbTypes'
      BY <1>6, <2>4 DEF Read10Start, ServeCbw, ServeXfer, UsbTypes
    <2>7. HostTypes'
      BY <1>6, <2>4 DEF Read10Start, ServeCbw, ServeXfer, HostTypes
    <2>8. EndpointInv'
      BY <1>6, <2>4 DEF Read10Start, ServeCbw, ServeXfer, EndpointInv, CbwAccepted
    <2>9. TransferInv'
      BY <1>6, <2>4 DEF Read10Start, ServeCbw, ServeXfer, TransferInv
    <2>10. QED
      BY <2>5, <2>6, <2>7, <2>8, <2>9 DEF TypeOK, CommandInv
  <1>7. CASE Read10Next
    <2>1. /\ csw' \in CswType
          /\ csw'.residue = blk_len' * BlkSize
          /\ blk_addr' \in Nat /\ blk_len' \in Nat
          /\ data' \in Vals \cup {Response}
          /\ ept_in' \in Xfers
          /\ msc_state' \in {"LAST_DATA", "DATA_IN"}
      BY <1>7, ReadChunkInv DEF Read10Next, BotTypes, TransferInv
    <2>2. BotTypes'
      BY <1>7, <2>1 DEF Read10Next, ServeXfer, BotTypes
    <2>3. UsbTypes'
      BY <1>7, <2>1 DEF Read10Next, ServeXfer, UsbTypes
    <2>4. HostTypes'
      BY <1>7, <2>1 DEF Read10Next, ServeXfer, HostTypes
    <2>5. EndpointInv'
      BY <1>7, <2>1 DEF Read10Next, ServeXfer, EndpointInv
    <2>6. TransferInv'
      BY <1>7, <2>1 DEF Read10Next, ServeXfer, TransferInv
    <2>7. QED
      BY <2>2, <2>3, <2>4, <2>5, <2>6 DEF TypeOK, CommandInv
  <1>8. CASE DataInDone
    <2>1. csw' \in CswType /\ msc_state' = "IDLE" /\ ept_in' \in Xfers
          /\ ept_out' = "cbw" /\ recv' = FALSE
      BY <1>8, ReplyTypes DEF DataInDone, BotTypes
    <2>2. BotTypes'
      BY <1>8, <2>1 DEF DataInDone, ServeXfer, BotTypes
    <2>3. UsbTypes'
      BY <1>8, <2>1 DEF DataInDone, ServeXfer, UsbTypes
    <2>4. HostTypes'
      BY <1>8, <2>1 DEF DataInDone, ServeXfer, HostTypes
    <2>5. EndpointInv'
      BY <1>8, <2>1 DEF DataInDone, ServeXfer, EndpointInv
    <2>6. TransferInv'
      BY <1>8, <2>1 DEF DataInDone, ServeXfer, TransferInv
    <2>7. QED
      BY <2>2, <2>3, <2>4, <2>5, <2>6 DEF TypeOK, CommandInv
  <1>9. CASE Write10Start
    <2>1. cbw \in CbwType /\ cbw.lba \in Nat /\ cbw.cnt \in Nat
      BY ConstAssumption DEF BotTypes, CbwType
    <2>2. /\ cbw.len = Scaled(cbw, cbw.cnt) * BlkSize
          /\ StoresRange(cbw)
          /\ Wraps(cbw) \/ cbw.lba + cbw.cnt <= NBlks
      BY <1>9, <2>1, Accepted DEF Write10Start, BlockOps
    <2>3. /\ blk_addr' = Scaled(cbw, cbw.lba) /\ blk_len' = Scaled(cbw, cbw.cnt)
          /\ cbw' = cbw
          /\ blk_addr' \in Nat /\ blk_len' \in Nat
          /\ blk_len' > 0 => blk_addr' = cbw.lba /\ blk_len' = cbw.cnt
      BY <1>9, <2>1, <2>2, ScaledType DEF Write10Start, ServeCbw, StoreRange
    <2>4. csw'.residue = blk_len' * BlkSize
      BY <1>9, <2>2, <2>3, DecodedCswType DEF Write10Start
    <2>5. BotTypes'
      BY <1>9, <2>1, <2>3, DecodedCswType DEF Write10Start, ServeCbw, ServeXfer, EptRecv, BotTypes
    <2>6. UsbTypes'
      BY <1>9 DEF Write10Start, ServeCbw, ServeXfer, EptRecv, UsbTypes
    <2>7. HostTypes'
      BY <1>9 DEF Write10Start, ServeCbw, ServeXfer, EptRecv, HostTypes
    <2>8. EndpointInv'
      BY <1>9 DEF Write10Start, ServeCbw, ServeXfer, EptRecv, EndpointInv
    <2>9. TransferInv'
      BY <1>9, <2>1, <2>2, <2>3, <2>4 DEF Write10Start, ServeCbw, ServeXfer, EptRecv, TransferInv, Wraps
    <2>10. QED
      BY <2>5, <2>6, <2>7, <2>8, <2>9 DEF TypeOK, CommandInv
  <1>10. CASE Write10Next
    <2> DEFINE k == MinOf(blk_len, 1)
               c == [csw EXCEPT !.residue = csw.residue - k * BlkSize]
    <2>1. blk_len \in Nat /\ blk_addr \in Nat /\ BlkSize \in Nat
      BY ConstAssumption DEF BotTypes
    <2>2. k \in {0, 1} /\ k <= blk_len
      BY <2>1 DEF MinOf
    <2>3. csw.residue = blk_len * BlkSize /\ data \in Vals
      BY <1>10 DEF Write10Next, ServeXfer, MayServe, TransferInv, EndpointInv
    <2>4. /\ disk' = IF k = 1 THEN [disk EXCEPT ![DiskBlock(blk_addr)] = data] ELSE disk
          /\ blk_addr' = blk_addr + k /\ blk_len' = blk_len - k
      BY <1>10 DEF Write10Next
    <2>5. \/ blk_len = k /\ SendCsw(c, "PASS")
          \/ blk_len # k /\ csw' = c /\ EptRecv("data") /\ UNCHANGED <<msc_state, ept_in>>
      BY <1>10 DEF Write10Next
    <2>6. (blk_len - k) * BlkSize = blk_len * BlkSize - k * BlkSize
          /\ (blk_len - k) * BlkSize \in Nat
      BY <2>1, <2>2
    <2>7. c \in CswType /\ c.residue = (blk_len - k) * BlkSize
      BY <2>3, <2>6 DEF BotTypes, CswType
    <2>8. DiskBlock(blk_addr) \in 0..(NBlks - 1)
      BY <2>1, DiskBlockType
    <2> HIDE DEF k, c
    <2>9. blk_addr' \in Nat /\ blk_len' \in Nat
      BY <2>1, <2>2, <2>4
    <2>10. disk' \in [0..(NBlks - 1) -> Vals]
      BY <2>3, <2>4, <2>8 DEF HostTypes
    <2>11. /\ csw' = c /\ ept_in' \in Xfers
           /\ \/ msc_state' = "IDLE" /\ ept_out' = "cbw"
              \/ msc_state' = "DATA_OUT" /\ ept_out' = "data"
           /\ recv' = FALSE
      BY <1>10, <2>5, <2>7, XferTypes DEF Write10Next, SendCsw, EptRecv, UsbTypes
    <2>12. csw'.residue = blk_len' * BlkSize
      BY <2>4, <2>7, <2>11
    <2>13. cbw' = cbw /\ msc_state = "DATA_OUT" /\ cbw.lba \in Nat /\ cbw.cnt \in Nat
      BY <1>10, ConstAssumption DEF Write10Next, BotTypes, CbwType
    <2>14. blk_len' > 0 => cbw.lba <= blk_addr' /\ blk_addr' + blk_len' = cbw.lba + cbw.cnt
      BY <2>1, <2>2, <2>4, <2>13 DEF TransferInv
    <2>15. BotTypes'
      BY <1>10, <2>7, <2>9, <2>11 DEF Write10Next, ServeXfer, BotTypes
    <2>16. UsbTypes'
      BY <1>10, <2>11 DEF Write10Next, ServeXfer, UsbTypes
    <2>17. HostTypes'
      BY <1>10, <2>10 DEF Write10Next, ServeXfer, HostTypes
    <2>18. EndpointInv'
      BY <1>10, <2>11 DEF Write10Next, ServeXfer, EndpointInv
    <2>19. TransferInv'
      BY <1>10, <2>11, <2>12, <2>13, <2>14 DEF Write10Next, ServeXfer, TransferInv, Wraps
    <2>20. QED
      BY <2>15, <2>16, <2>17, <2>18, <2>19 DEF TypeOK, CommandInv
  <1>11. ASSUME NEW f \in {"IN", "OUT"}, XferIgnored(f)
         PROVE  TypeOK' /\ CommandInv'
    <2>1. BotTypes'
      BY <1>11 DEF XferIgnored, ServeXfer, BotTypes
    <2>2. UsbTypes'
      BY <1>11 DEF XferIgnored, ServeXfer, UsbTypes
    <2>3. HostTypes'
      BY <1>11 DEF XferIgnored, ServeXfer, HostTypes
    <2>4. EndpointInv'
      BY <1>11 DEF XferIgnored, ServeXfer, EndpointInv
    <2>5. TransferInv'
      BY <1>11 DEF XferIgnored, ServeXfer, TransferInv, Wraps
    <2>6. QED
      BY <2>1, <2>2, <2>3, <2>4, <2>5 DEF TypeOK, CommandInv
  <1>12. CASE BulkOnlyReset
    <2>1. BotTypes'
      BY <1>12 DEF BulkOnlyReset, ServeSetup, EptRecv, BotTypes
    <2>2. UsbTypes'
      BY <1>12, XferTypes DEF BulkOnlyReset, ServeSetup, EptRecv, UsbTypes
    <2>3. HostTypes'
      BY <1>12 DEF BulkOnlyReset, ServeSetup, EptRecv, HostTypes
    <2>4. EndpointInv'
      BY <1>12 DEF BulkOnlyReset, ServeSetup, EptRecv, EndpointInv
    <2>5. TransferInv'
      BY <1>12 DEF BulkOnlyReset, ServeSetup, EptRecv, TransferInv
    <2>6. QED
      BY <2>1, <2>2, <2>3, <2>4, <2>5 DEF TypeOK, CommandInv
  <1>13. CASE ClearFeatureIn
    <2>1. /\ csw' \in CswType /\ ept_in' \in Xfers
          /\ stall_in' \in BOOLEAN /\ bot_status' \in {"IDLE", "RECOVERY", "ERROR"}
          /\ \/ msc_state' = "IDLE" /\ ept_out' = "cbw" /\ recv' = FALSE
             \/ UNCHANGED <<msc_state, csw, ept_out, recv>>
      <3>1. CASE bot_status = "IDLE"
        BY <1>13, <3>1, ReplyTypes DEF ClearFeatureIn, BotTypes
      <3>2. CASE bot_status # "IDLE"
        BY <1>13, <3>2, XferTypes DEF ClearFeatureIn, BotTypes
      <3>3. QED
        BY <3>1, <3>2
    <2>2. BotTypes'
      BY <1>13, <2>1 DEF ClearFeatureIn, ServeSetup, BotTypes
    <2>3. UsbTypes'
      BY <1>13, <2>1 DEF ClearFeatureIn, ServeSetup, UsbTypes
    <2>4. HostTypes'
      BY <1>13, <2>1 DEF ClearFeatureIn, ServeSetup, HostTypes
    <2>5. EndpointInv'
      BY <1>13, <2>1 DEF ClearFeatureIn, ServeSetup, EndpointInv
    <2>6. TransferInv'
      BY <1>13, <2>1 DEF ClearFeatureIn, ServeSetup, TransferInv, Wraps
    <2>7. QED
      BY <2>2, <2>3, <2>4, <2>5, <2>6 DEF TypeOK, CommandInv
  <1>14. CASE ClearFeatureOut
    <2>1. BotTypes'
      BY <1>14 DEF ClearFeatureOut, ServeSetup, BotTypes
    <2>2. UsbTypes'
      BY <1>14 DEF ClearFeatureOut, ServeSetup, UsbTypes
    <2>3. HostTypes'
      BY <1>14 DEF ClearFeatureOut, ServeSetup, HostTypes
    <2>4. EndpointInv'
      BY <1>14 DEF ClearFeatureOut, ServeSetup, EndpointInv
    <2>5. TransferInv'
      BY <1>14 DEF ClearFeatureOut, ServeSetup, TransferInv, Wraps
    <2>6. QED
      BY <2>1, <2>2, <2>3, <2>4, <2>5 DEF TypeOK, CommandInv
  <1>15. CASE SetConfiguration
    <2>1. BotTypes'
      BY <1>15, ConstAssumption DEF SetConfiguration, ServeSetup, EptRecv, BotTypes, CswType
    <2>2. UsbTypes'
      BY <1>15, XferTypes DEF SetConfiguration, ServeSetup, EptRecv, UsbTypes
    <2>3. HostTypes'
      BY <1>15 DEF SetConfiguration, ServeSetup, EptRecv, HostTypes
    <2>4. EndpointInv'
      BY <1>15 DEF SetConfiguration, ServeSetup, EptRecv, EndpointInv
    <2>5. TransferInv'
      BY <1>15 DEF SetConfiguration, ServeSetup, EptRecv, TransferInv
    <2>6. QED
      BY <2>1, <2>2, <2>3, <2>4, <2>5 DEF TypeOK, CommandInv
  <1>16. CASE UsbReset
    <2>1. BotTypes'
      BY <1>16 DEF UsbReset, BotTypes
    <2>2. UsbTypes'
      BY <1>16, XferTypes DEF UsbReset, UsbTypes
    <2>3. HostTypes'
      BY <1>16 DEF UsbReset, HostTypes
    <2>4. EndpointInv'
      BY <1>16 DEF UsbReset, EndpointInv
    <2>5. TransferInv'
      BY <1>16 DEF UsbReset, TransferInv, Wraps
    <2>6. QED
      BY <2>1, <2>2, <2>3, <2>4, <2>5 DEF TypeOK, CommandInv
  <1>17. ASSUME NEW c \in Cbws, HostIssue(c)
         PROVE  TypeOK' /\ CommandInv'
    <2>1. BotTypes'
      BY <1>17 DEF HostIssue, BotTypes
    <2>2. UsbTypes'
      BY <1>17 DEF HostIssue, UsbTypes
    <2>3. HostTypes'
      BY <1>17, ConstAssumption DEF HostIssue, HostTypes
    <2>4. EndpointInv'
      BY <1>17 DEF HostIssue, EndpointInv
    <2>5. TransferInv'
      BY <1>17 DEF HostIssue, TransferInv, Wraps
    <2>6. QED
      BY <2>1, <2>2, <2>3, <2>4, <2>5 DEF TypeOK, CommandInv
  <1>18. CASE HostCbw
    <2>1. BotTypes'
      BY <1>18 DEF HostCbw, dev, BotTypes, HostTypes
    <2>2. UsbTypes'
      BY <1>18 DEF HostCbw, dev, UsbTypes
    <2>3. HostTypes'
      BY <1>18 DEF HostCbw, dev, HostTypes
    <2>4. EndpointInv'
      BY <1>18 DEF HostCbw, dev, EndpointInv
    <2>5. TransferInv'
      BY <1>18 DEF HostCbw, dev, TransferInv, EndpointInv
    <2>6. QED
      BY <2>1, <2>2, <2>3, <2>4, <2>5 DEF TypeOK, CommandInv
  <1>19. CASE HostDataIn
    <2>1. BotTypes'
      BY <1>19 DEF HostDataIn, HostIn, dev, BotTypes
    <2>2. UsbTypes'
      BY <1>19, XferTypes DEF HostDataIn, HostIn, dev, UsbTypes
    <2>3. HostTypes'
      BY <1>19 DEF HostDataIn, HostIn, dev, HostTypes, HostGoesTo, UsbTypes, Xfers
    <2>4. EndpointInv'
      BY <1>19 DEF HostDataIn, HostIn, dev, EndpointInv
    <2>5. TransferInv'
      BY <1>19 DEF HostDataIn, HostIn, dev, TransferInv, Wraps
    <2>6. QED
      BY <2>1, <2>2, <2>3, <2>4, <2>5 DEF TypeOK, CommandInv
  <1>20. CASE HostStatus
    <2>1. BotTypes'
      BY <1>20 DEF HostStatus, HostIn, dev, BotTypes
    <2>2. UsbTypes'
      BY <1>20, XferTypes DEF HostStatus, HostIn, dev, UsbTypes
    <2>3. HostTypes'
      <3>1. \E next \in {"idle", "status", "status2"} : HostGoesTo(next, hgot, hblks)
        BY <1>20 DEF HostStatus, HostIn, InStatus
      <3>2. UNCHANGED <<disk, hcbw, htag>>
        BY <1>20 DEF HostStatus, HostIn, dev
      <3>3. <<>> \in Seq(Vals \cup {Response})
        OBVIOUS
      <3>4. QED
        BY <3>1, <3>2, <3>3 DEF HostGoesTo, HostTypes
    <2>4. EndpointInv'
      BY <1>20 DEF HostStatus, HostIn, dev, EndpointInv
    <2>5. TransferInv'
      BY <1>20 DEF HostStatus, HostIn, dev, TransferInv, Wraps
    <2>6. QED
      BY <2>1, <2>2, <2>3, <2>4, <2>5 DEF TypeOK, CommandInv
  <1>21. ASSUME NEW v \in Vals, HostDataOut(v)
         PROVE  TypeOK' /\ CommandInv'
    <2>1. BotTypes'
      BY <1>21 DEF HostDataOut, dev, BotTypes
    <2>2. UsbTypes'
      BY <1>21 DEF HostDataOut, dev, UsbTypes
    <2>3. HostTypes'
      BY <1>21, ConstAssumption DEF HostDataOut, dev, HostTypes, HostGoesTo
    <2>4. EndpointInv'
      BY <1>21 DEF HostDataOut, dev, EndpointInv
    <2>5. TransferInv'
      BY <1>21 DEF HostDataOut, dev, TransferInv, Wraps
    <2>6. QED
      BY <2>1, <2>2, <2>3, <2>4, <2>5 DEF TypeOK, CommandInv
  <1>22. ASSUME NEW pc, NEW r, HostRequest(pc, r),
                pc \in {"idle", "status", "status2", "clr_data", "clr_status", "rr_reset",
                        "rr_in", "rr_out", "config"},
                r \in {"none", "BO_RESET", "CLEAR_IN", "CLEAR_OUT", "SET_CONFIG"}
         PROVE  TypeOK' /\ CommandInv'
    <2>1. BotTypes'
      BY <1>22 DEF HostRequest, dev, BotTypes
    <2>2. UsbTypes'
      BY <1>22 DEF HostRequest, dev, UsbTypes
    <2>3. HostTypes'
      BY <1>22 DEF HostRequest, dev, HostTypes, HostGoesTo
    <2>4. EndpointInv'
      BY <1>22 DEF HostRequest, dev, EndpointInv
    <2>5. TransferInv'
      BY <1>22 DEF HostRequest, dev, TransferInv, Wraps
    <2>6. QED
      BY <2>1, <2>2, <2>3, <2>4, <2>5 DEF TypeOK, CommandInv
  <1>23. CASE HostStalled \/ HostGiveUp \/ HostGoesOn
    BY <1>22, <1>23 DEF HostStalled, HostGiveUp, HostGoesOn
  <1>24. CASE HostPortReset
    <2>1. BotTypes'
      BY <1>24 DEF HostPortReset, BotTypes
    <2>2. UsbTypes'
      BY <1>24 DEF HostPortReset, UsbTypes
    <2>3. HostTypes'
      BY <1>24 DEF HostPortReset, HostTypes
    <2>4. EndpointInv'
      BY <1>24 DEF HostPortReset, EndpointInv
    <2>5. TransferInv'
      BY <1>24 DEF HostPortReset, TransferInv, Wraps
    <2>6. QED
      BY <2>1, <2>2, <2>3, <2>4, <2>5 DEF TypeOK, CommandInv
  <1>25. CASE UNCHANGED vars
    <2>1. BotTypes'
      BY <1>25 DEF vars, BotTypes
    <2>2. UsbTypes'
      BY <1>25 DEF vars, UsbTypes
    <2>3. HostTypes'
      BY <1>25 DEF vars, HostTypes
    <2>4. EndpointInv'
      BY <1>25 DEF vars, EndpointInv
    <2>5. TransferInv'
      BY <1>25 DEF vars, TransferInv, Wraps
    <2>6. QED
      BY <2>1, <2>2, <2>3, <2>4, <2>5 DEF TypeOK, CommandInv
  <1>26. QED
    BY <1>1, <1>2, <1>3, <1>4, <1>5, <1>6, <1>7, <1>8, <1>9, <1>10, <1>11, <1>12, <1>13,
       <1>14, <1>15, <1>16, <1>17, <1>18, <1>19, <1>20, <1>21, <1>23, <1>24, <1>25
       DEF Next, Isr, HostStep

\* Every reachable state is well typed: the residue never underflows and a
\* response never reaches the flash, on every disk and for every host of
\* the model, aborts at any moment included.
THEOREM TypeCorrect == Spec => []TypeOK
  <1>1. IInv => TypeOK
    BY DEF IInv
  <1>2. QED
    BY InitInv, StepInv, <1>1, PTL DEF Spec

\* The handlers' buffers and counters always agree with the command block
\* they serve.
THEOREM CommandInvariant == Spec => []CommandInv
  <1>1. IInv => CommandInv
    BY DEF IInv
  <1>2. QED
    BY InitInv, StepInv, <1>1, PTL DEF Spec

\* Only Write10Next changes the disk.
LEMMA DiskFrame ==
  ASSUME TypeOK, [Next]_vars, disk' # disk
  PROVE  Write10Next
  BY DEF Next, Isr, HostStep, vars, IrqEnter, ServeCbw, CbwInvalid, CmdRejected, CmdNoData,
         CmdSendData, Read10Start, Write10Start, Read10Next, DataInDone, XferIgnored,
         ServeSetup, BulkOnlyReset, ClearFeatureIn, ClearFeatureOut, SetConfiguration,
         UsbReset, dev, HostIssue, HostCbw, HostIn, HostDataIn, HostStatus, HostDataOut,
         HostRequest, HostStalled, HostGiveUp, HostGoesOn, HostPortReset

\* WRITE(10) never changes a block outside the range of its command block,
\* unless the 32-bit sum of bot_scsi_check_address wraps.
THEOREM WritesInRange == Spec => WritesStayInRange
  <1> DEFINE InRange == \A b \in 0..(NBlks - 1) : disk'[b] # disk[b] =>
                /\ cbw.op = "write10"
                /\ Wraps(cbw) \/ b \in cbw.lba..(cbw.lba + cbw.cnt - 1)
  <1>1. ASSUME IInv, [Next]_vars
        PROVE  InRange
    <2> SUFFICES ASSUME NEW b \in 0..(NBlks - 1), disk'[b] # disk[b]
                 PROVE  /\ cbw.op = "write10"
                        /\ Wraps(cbw) \/ b \in cbw.lba..(cbw.lba + cbw.cnt - 1)
      OBVIOUS
    <2>0. TypeOK /\ BotTypes /\ HostTypes /\ TransferInv
      BY <1>1 DEF IInv, TypeOK, CommandInv
    <2>1. Write10Next
      BY <1>1, <2>0, DiskFrame
    <2>2. msc_state = "DATA_OUT"
          /\ disk' = IF MinOf(blk_len, 1) = 1
                     THEN [disk EXCEPT ![DiskBlock(blk_addr)] = data] ELSE disk
      BY <2>1 DEF Write10Next
    <2>3. MinOf(blk_len, 1) = 1 /\ b = DiskBlock(blk_addr)
      BY <2>0, <2>2 DEF HostTypes
    <2>4. blk_len \in Nat /\ blk_addr \in Nat /\ blk_len >= 1
          /\ cbw.lba \in Nat /\ cbw.cnt \in Nat
      BY <2>0, <2>3, ConstAssumption DEF MinOf, BotTypes, CbwType
    <2>5. /\ cbw.op = "write10"
          /\ cbw.lba <= blk_addr /\ blk_addr + blk_len = cbw.lba + cbw.cnt
          /\ Wraps(cbw) \/ cbw.lba + cbw.cnt <= NBlks
      BY <2>0, <2>2, <2>4 DEF TransferInv
    <2>6. ~Wraps(cbw) => DiskBlock(blk_addr) = blk_addr
      BY <2>4, <2>5, DiskBlockType, ConstAssumption
    <2>7. QED
      BY <2>3, <2>4, <2>5, <2>6
  <1>2. IInv /\ [Next]_vars => [InRange]_vars
    BY <1>1
  <1>3. QED
    BY InitInv, StepInv, <1>2, PTL DEF Spec, WritesStayInRange

-----------------------------------------------------------------------------
(* The whole bus: host, endpoints, interrupt flags and transport together, *)
(* for a host that may give up at any moment.  BusInv relates the phase    *)
(* the host is in to the state of the transport, step by step of a         *)
(* command, a stall, a reset recovery and a bus reset.                     *)

\* The device sends data to the host, by READ(10) or as a response.
Sending == msc_state \in {"DATA_IN", "LAST_DATA", "SEND_DATA"}

\* A CBW has arrived that its interrupt has not decoded.
CbwPending == msc_state = "IDLE" /\ recv /\ "OUT" \in xferc

PassOffered == ept_in.kind = "csw" /\ ept_in.status = "PASS"

\* The device has nothing more to do for a command, or has given it up.
Over == msc_state = "IDLE" /\ ~CbwPending /\ ept_in.kind # "data" /\ ~PassOffered

StatusPhase == hpc \in {"status", "status2", "clr_status"}

\* A request on endpoint 0 belongs to the step the host is at.
RequestInv ==
  /\ setup = "BO_RESET" => hpc = "rr_reset"
  /\ setup = "CLEAR_OUT" => hpc \in {"clr_data", "rr_out"}
  /\ setup = "CLEAR_IN" => hpc \in {"clr_data", "clr_status", "rr_in"}
  /\ setup = "SET_CONFIG" => hpc = "config"
  /\ busReset => hpc = "reset"
  /\ "USBRST" \in intsts => busReset /\ xferc \subseteq intsts

\* The host is between commands, or has reset the transport.
AtRest ==
  \/ hpc \in {"idle", "cbw", "rr_in", "rr_out"}
  \/ hpc \in {"rr_reset", "config"} /\ setup = "none"

\* The host has cleared the halt of the IN endpoint.
Cleared ==
  \/ hpc \in {"idle", "cbw", "rr_out"}
  \/ hpc \in {"rr_in", "config"} /\ setup = "none"

RestInv ==
  /\ AtRest => Over /\ ept_in.kind # "csw"
  /\ hpc \in {"idle", "cbw"} => hgot = 0 /\ hblks = <<>> /\ disk = disk0
  /\ hpc = "rr_reset" /\ setup = "none" => bot_status # "IDLE"
  /\ hpc = "rr_in" /\ setup = "CLEAR_IN" => bot_status # "IDLE"
  /\ Cleared => ~(bot_status = "RECOVERY" /\ stall_in)

\* A stalled endpoint means that the command is over, or that the host will
\* not take a PASS before it has cleared the halt, which takes the PASS away.
StallInv ==
  /\ stall_out => Over
  /\ stall_in /\ bot_status = "RECOVERY" => Over
  /\ hpc = "clr_data" => stall_in \/ Over
  /\ setup = "CLEAR_IN" /\ hpc \in {"clr_data", "clr_status"} => stall_in
  /\ hpc = "data" => hcbw.len > 0
  /\ ept_out = "data" => msc_state = "DATA_OUT"
  /\ ept_in.kind = "csw" => msc_state = "IDLE" /\ ~CbwPending
  /\ ept_in.kind = "data" => Sending

\* The CBW to decode is the host's, and nothing of its data has moved.
PendingInv ==
  CbwPending =>
    /\ cbw = hcbw /\ dCBWTag = htag /\ hgot = 0 /\ hblks = <<>> /\ disk = disk0
    /\ ept_in.kind \notin {"data", "csw"}

SendInv ==
  msc_state = "SEND_DATA" =>
    /\ hcbw.op \notin BlockOps
    /\ ept_in.kind = "data" =>
         ept_in.n + csw.residue = hcbw.len /\ hgot = 0 /\ ept_in.n < BlkSize

Offered == IF ept_in.kind = "data" THEN 1 ELSE 0

\* READ(10): what the host has, what is offered and what is left never exceed
\* the request; if they make it up, the host has the blocks of the disk.
ReadInv ==
  msc_state \in {"DATA_IN", "LAST_DATA"} =>
    /\ hcbw.op = "read10"
    /\ (msc_state = "DATA_IN") <=> (blk_len > 0)
    /\ csw.residue = blk_len * BlkSize
    /\ hgot = Len(hblks) * BlkSize
    /\ ~Wraps(hcbw) => hcbw.lba + hcbw.cnt <= NBlks
    /\ hcbw.len = 0 =>
         /\ blk_len = 0 /\ hblks = <<>>
         /\ ept_in.kind = "data" => ept_in.n = 0
         /\ ~Wraps(hcbw) => hcbw.cnt = 0
    /\ hcbw.len > 0 =>
         /\ hcbw.len = hcbw.cnt * BlkSize
         /\ Offered + Len(hblks) + blk_len <= hcbw.cnt
         /\ ept_in.kind = "data" => ept_in.n = BlkSize
         /\ blk_addr + blk_len = hcbw.lba + hcbw.cnt
         /\ ~Wraps(hcbw) /\ Offered + Len(hblks) + blk_len = hcbw.cnt =>
              /\ \A i \in 1..Len(hblks) : hblks[i] = disk[hcbw.lba + i - 1]
              /\ ept_in.kind = "data" => ept_in.blk = disk[hcbw.lba + Len(hblks)]

Received == IF "OUT" \in xferc THEN 1 ELSE 0

\* WRITE(10): every block the host has sent is on the disk, but for the one
\* whose interrupt is not served yet.
WriteInv ==
  msc_state = "DATA_OUT" =>
    /\ cbw = hcbw /\ csw.tag = htag /\ hcbw.dir = "out"
    /\ ept_in.kind # "data"
    /\ ept_out = "data" => "OUT" \notin xferc
    /\ blk_len = 0 => hcbw.len = 0 /\ hblks = <<>> /\ "OUT" \notin xferc /\ disk = disk0
    /\ blk_len > 0 =>
         /\ hcbw.len = hcbw.cnt * BlkSize
         /\ Len(hblks) + blk_len = hcbw.cnt + Received
         /\ hgot = Len(hblks) * BlkSize
         /\ "OUT" \in xferc => Len(hblks) > 0 /\ data = hblks[Len(hblks)]
         /\ ~Wraps(hcbw) => disk = Overlay(disk0, hcbw.lba, hcbw.cnt - blk_len)

SameCommand ==
  /\ Sending => cbw = hcbw /\ csw.tag = htag /\ disk = disk0
  /\ PassOffered => ept_in.tag = htag

\* Every block of the request has moved.
AllMoved ==
  hcbw.op \in BlockOps /\ ~Wraps(hcbw) =>
    /\ hcbw.lba + hcbw.cnt <= NBlks
    /\ Len(hblks) = hcbw.cnt
    /\ \A i \in 1..hcbw.cnt : hblks[i] = disk[hcbw.lba + i - 1]

\* A host in the status phase has had all of the data phase.
StatusInv ==
  StatusPhase /\ ~stall_in =>
    /\ CbwPending => hcbw.len = 0
    /\ msc_state # "DATA_IN"
    /\ Sending => /\ csw.residue + hgot = hcbw.len
                  /\ ept_in.kind = "data" => ept_in.n = 0
                  /\ AllMoved
    /\ PassOffered => ept_in.residue + hgot = hcbw.len /\ AllMoved

BusInv ==
  /\ RequestInv /\ RestInv /\ StallInv /\ PendingInv /\ SendInv /\ ReadInv
  /\ WriteInv /\ SameCommand /\ StatusInv /\ DiskHoldsPrefix

\* The fields of the transfers.
LEMMA XferFields ==
  /\ NoXfer.kind = "none"
  /\ \A n, b : LET x == DataXfer(n, b) IN x.kind = "data" /\ x.n = n /\ x.blk = b
  /\ \A c, st : LET x == CswXfer(c, st)
                IN  /\ x.kind = "csw" /\ x.status = st
                    /\ x.tag = c.tag /\ x.residue = c.residue
  /\ \A x : x.kind = "none" => Flushed(x) = x
  /\ \A x : x.kind # "none" => Flushed(x).kind = "lost"
  BY DEF NoXfer, DataXfer, CswXfer, Flushed

\* A command that is not over keeps the host out of its idle and recovery
\* states and the OUT endpoint free of a halt.
LEMMA NotOver ==
  ASSUME RestInv, StallInv, ~Over
  PROVE  /\ ~AtRest /\ ~Cleared /\ ~stall_out
         /\ ~(stall_in /\ bot_status = "RECOVERY")
         /\ hpc = "clr_data" => stall_in
  BY DEF RestInv, StallInv, AtRest, Cleared

\* The interrupt of a CBW.
LEMMA CbwServed ==
  ASSUME EndpointInv, PendingInv, RestInv, StallInv, ServeCbw, CbwAccepted
  PROVE  /\ CbwPending /\ ~Over
         /\ UNCHANGED <<hpc, hcbw, htag, hgot, hblks, disk0, disk, setup, busReset, cbw>>
         /\ cbw = hcbw /\ dCBWTag = htag /\ hgot = 0 /\ hblks = <<>> /\ disk = disk0
         /\ ept_in.kind \notin {"data", "csw"}
         /\ xferc' = xferc \ {"OUT"}
  <1>1. CbwPending
    BY DEF EndpointInv, ServeCbw, ServeXfer, MayServe, CbwAccepted, CbwPending
  <1>2. QED
    BY <1>1 DEF PendingInv, Over, ServeCbw, ServeXfer, host

\* One chunk of READ(10).
LEMMA ReadChunkEffect ==
  ASSUME TypeOK, NEW a \in Nat, NEW n \in Nat, NEW c \in CswType,
         c.residue = n * BlkSize, ReadChunk(a, n, c)
  PROVE  /\ ept_in'.kind = "data"
         /\ n = 0 => /\ ept_in'.n = 0 /\ blk_len' = 0 /\ blk_addr' = a
                     /\ msc_state' = "LAST_DATA"
         /\ n > 0 => /\ ept_in'.n = BlkSize /\ ept_in'.blk = disk[DiskBlock(a)]
                     /\ blk_len' = n - 1 /\ blk_addr' = a + 1
         /\ msc_state' \in {"DATA_IN", "LAST_DATA"}
         /\ (msc_state' = "DATA_IN") <=> (blk_len' > 0)
         /\ csw'.tag = c.tag /\ csw'.residue = blk_len' * BlkSize
  <1>1. BlkSize \in Nat
    BY ConstAssumption
  <1>2. csw' = [c EXCEPT !.residue = c.residue - MinOf(n, 1) * BlkSize]
    BY DEF ReadChunk
  <1>3. csw'.tag = c.tag /\ csw'.residue = n * BlkSize - MinOf(n, 1) * BlkSize
    BY <1>2 DEF CswType
  <1>4. /\ ept_in' = DataXfer(MinOf(n, 1) * BlkSize, disk[DiskBlock(a)])
        /\ blk_addr' = a + MinOf(n, 1) /\ blk_len' = n - MinOf(n, 1)
        /\ msc_state' = IF n = MinOf(n, 1) THEN "LAST_DATA" ELSE "DATA_IN"
    BY DEF ReadChunk
  <1>5. CASE n = 0
    <2>1. MinOf(n, 1) = 0
      BY <1>5 DEF MinOf
    <2>2. QED
      BY <1>1, <1>3, <1>4, <1>5, <2>1, XferFields
  <1>6. CASE n > 0
    <2>1. MinOf(n, 1) = 1
      BY <1>6 DEF MinOf
    <2>2. n * BlkSize - 1 * BlkSize = (n - 1) * BlkSize /\ 1 * BlkSize = BlkSize
      BY <1>1, <1>6
    <2>3. QED
      BY <1>1, <1>3, <1>4, <1>6, <2>1, <2>2, XferFields
  <1>7. QED
    BY <1>5, <1>6

\* The length of an accepted READ(10) or WRITE(10), in blocks.
LEMMA AcceptedBlocks ==
  ASSUME TypeOK, NEW c \in CbwType, c.op \in BlockOps, Reject(c) = "none"
  PROVE  /\ Scaled(c, c.cnt) = 0 => c.len = 0 /\ (~Wraps(c) => c.cnt = 0)
         /\ Scaled(c, c.cnt) > 0 =>
              /\ c.len > 0 /\ c.len = c.cnt * BlkSize
              /\ Scaled(c, c.lba) = c.lba /\ Scaled(c, c.cnt) = c.cnt
         /\ ~Wraps(c) => c.lba + c.cnt <= NBlks
  <1>1. /\ c.len = Scaled(c, c.cnt) * BlkSize
        /\ Wraps(c) \/ c.lba + c.cnt <= NBlks
    BY Accepted
  <1>2. c.cnt \in Nat /\ c.lba \in Nat /\ W \in Nat /\ BlkSize \in Nat \ {0}
    BY ConstAssumption DEF CbwType
  <1>3. ASSUME Scaled(c, c.cnt) = 0, ~Wraps(c)
        PROVE  c.cnt = 0
    <2>1. CASE blk_nbr = 0 /\ ~AddressBad(c)
      <3>1. c.lba + c.cnt < W /\ c.lba + c.cnt \in Nat
        BY <1>2, <1>3 DEF Wraps
      <3>2. (c.lba + c.cnt) % W = c.lba + c.cnt
        BY <1>2, <3>1
      <3>3. QED
        BY <1>2, <2>1, <3>2 DEF AddressBad
    <2>2. CASE ~(blk_nbr = 0 /\ ~AddressBad(c))
      BY <1>3, <2>2 DEF Scaled
    <2>3. QED
      BY <2>1, <2>2
  <1>4. ASSUME Scaled(c, c.cnt) > 0
        PROVE  Scaled(c, c.lba) = c.lba /\ Scaled(c, c.cnt) = c.cnt /\ c.cnt > 0
    BY <1>4, ScaledType
  <1>5. c.cnt > 0 => c.cnt * BlkSize > 0
    BY <1>2
  <1>6. QED
    BY <1>1, <1>2, <1>3, <1>4, <1>5

Disks == [0..(NBlks - 1) -> Vals]

\* No block written: the disk itself.
LEMMA OverlayZero ==
  ASSUME NEW d \in Disks, NEW a \in Nat
  PROVE  Overlay(d, a, 0) = d
  BY DEF Overlay, Disks

\* Programming block k + 1 of the range extends the prefix by one.
LEMMA OverlayNext ==
  ASSUME NEW d \in Disks, NEW a \in Nat, NEW k \in Nat, a + k < NBlks
  PROVE  [Overlay(d, a, k) EXCEPT ![a + k] = hblks[k + 1]] = Overlay(d, a, k + 1)
  <1>1. DOMAIN d = 0..(NBlks - 1) /\ NBlks \in Nat
    BY ConstAssumption DEF Disks
  <1> DEFINE new == [Overlay(d, a, k) EXCEPT ![a + k] = hblks[k + 1]]
  <1>2. ASSUME NEW b \in DOMAIN d
        PROVE  new[b] = Overlay(d, a, k + 1)[b]
    <2>1. CASE b = a + k
      <3>1. new[b] = hblks[k + 1] /\ b - a + 1 = k + 1 /\ b \in a..(a + (k + 1) - 1)
        BY <1>1, <2>1 DEF Overlay
      <3>2. QED
        BY <1>2, <3>1 DEF Overlay
    <2>2. CASE b # a + k
      <3>1. new[b] = Overlay(d, a, k)[b]
        BY <2>2, <1>2 DEF Overlay
      <3>2. (b \in a..(a + k - 1)) <=> (b \in a..(a + (k + 1) - 1))
        BY <1>1, <2>2
      <3>3. QED
        BY <1>2, <3>1, <3>2 DEF Overlay
    <2>3. QED
      BY <2>1, <2>2
  <1>3. DOMAIN new = DOMAIN d /\ DOMAIN Overlay(d, a, k + 1) = DOMAIN d
        /\ new = [b \in DOMAIN new |-> new[b]]
    BY DEF Overlay
  <1>4. Overlay(d, a, k + 1) = [b \in DOMAIN d |-> Overlay(d, a, k + 1)[b]]
    BY DEF Overlay
  <1> HIDE DEF new
  <1>5. QED
    BY <1>2, <1>3, <1>4 DEF new

\* A block inside the prefix is the one the host sent.
LEMMA OverlayAt ==
  ASSUME NEW d \in Disks, NEW a \in Nat, NEW k \in Nat, a + k <= NBlks,
         NEW i \in 1..k
  PROVE  Overlay(d, a, k)[a + i - 1] = hblks[i]
  BY ConstAssumption DEF Overlay, Disks

\* A response is never longer than the host asks for, nor a full packet buffer.
LEMMA ResponseSent ==
  ASSUME BotTypes, CmdSendData
  PROVE  \E n \in Nat : /\ n <= cbw.len /\ n < BlkSize
                       /\ csw' = [tag |-> dCBWTag, residue |-> cbw.len - n]
                       /\ ept_in' = DataXfer(n, Response)
  <1> DEFINE n == MinOf(DataLen(cbw), cbw.len)
  <1>1. cbw \in CbwType /\ cbw.op \in NoDataOps \cup RespOps
    BY DEF CmdSendData, Reject, BadCommand, BotTypes, CbwType, Ops
  <1>2. DataLen(cbw) \in Nat /\ DataLen(cbw) < BlkSize
    <2>1. CASE cbw.op \in NoDataOps
      BY <2>1, ConstAssumption DEF DataLen
    <2>2. CASE cbw.op \in RespOps
      <3>1. RespLen[cbw.op] \in Nat /\ RespLen[cbw.op] < BlkSize /\ cbw.len \in Nat /\ BlkSize \in Nat
        BY <1>1, <2>2, ConstAssumption DEF CbwType
      <3>2. cbw.op \notin NoDataOps
        BY <2>2 DEF RespOps, NoDataOps
      <3>3. QED
        BY <3>1, <3>2 DEF DataLen, MinOf
    <2>3. QED
      BY <1>1, <2>1, <2>2
  <1>3. n \in Nat /\ n <= cbw.len /\ n < BlkSize
    BY <1>1, <1>2, ConstAssumption, MinOfNat DEF CbwType
  <1>4. csw' = [DecodedCsw EXCEPT !.residue = DecodedCsw.residue - n]
        /\ ept_in' = DataXfer(n, Response)
    BY DEF CmdSendData
  <1> HIDE DEF n
  <1>5. csw' = [tag |-> dCBWTag, residue |-> cbw.len - n]
    BY <1>4 DEF DecodedCsw
  <1>6. QED
    BY <1>3, <1>4, <1>5

\* One block of WRITE(10): the status after the last, else armed for the next.
LEMMA WriteReply ==
  ASSUME TypeOK, CommandInv, WriteInv, Write10Next
  PROVE  /\ hcbw.op = "write10" /\ hcbw.dir = "out" /\ "OUT" \in xferc
         /\ \/ /\ blk_len = 1 /\ msc_state' = "IDLE" /\ recv' = FALSE /\ ept_out' = "cbw"
               /\ ept_in'.kind = "csw" /\ ept_in'.status = "PASS"
               /\ ept_in'.tag = htag /\ ept_in'.residue = 0 /\ hgot = hcbw.len
            \/ /\ blk_len > 1 /\ msc_state' = "DATA_OUT" /\ recv' = FALSE /\ ept_out' = "data"
               /\ csw'.tag = htag /\ ept_in' = ept_in
  <1>0. BotTypes /\ HostTypes /\ EndpointInv /\ TransferInv
    BY DEF TypeOK, CommandInv
  <1>1. msc_state = "DATA_OUT" /\ "OUT" \in xferc
    BY <1>0 DEF Write10Next, ServeXfer, MayServe, EndpointInv
  <1>2. /\ blk_len \in Nat /\ csw \in CswType /\ BlkSize \in Nat
        /\ hcbw.cnt \in Nat /\ Len(hblks) \in Nat
    BY <1>0, ConstAssumption DEF BotTypes, HostTypes, CbwType
  <1>3. /\ blk_len > 0 /\ Len(hblks) + blk_len = hcbw.cnt + 1
        /\ csw.tag = htag /\ hcbw.op = "write10" /\ hcbw.dir = "out"
    BY <1>0, <1>1, <1>2 DEF WriteInv, TransferInv, Received
  <1>4. hcbw.len = hcbw.cnt * BlkSize /\ hgot = Len(hblks) * BlkSize /\ csw.residue = blk_len * BlkSize
    BY <1>0, <1>1, <1>3 DEF WriteInv, TransferInv
  <1>5. MinOf(blk_len, 1) = 1 /\ 1 * BlkSize = BlkSize
    BY <1>2, <1>3 DEF MinOf
  <1> DEFINE c == [csw EXCEPT !.residue = csw.residue - 1 * BlkSize]
  <1>6. c.tag = htag /\ c.residue = csw.residue - BlkSize
    BY <1>2, <1>3, <1>5 DEF CswType
  <1>7. blk_len = 1 => c.residue = 0
    BY <1>2, <1>4, <1>6
  <1>8. blk_len = 1 => Len(hblks) = hcbw.cnt
    BY <1>2, <1>3
  <1>9. \/ blk_len = 1 /\ SendCsw(c, "PASS")
        \/ blk_len # 1 /\ csw' = c /\ EptRecv("data") /\ UNCHANGED <<msc_state, ept_in>>
    BY <1>5 DEF Write10Next
  <1> HIDE DEF c
  <1>10. CASE blk_len = 1
    BY <1>1, <1>3, <1>4, <1>6, <1>7, <1>8, <1>9, <1>10, XferFields DEF SendCsw, EptRecv
  <1>11. CASE blk_len # 1
    BY <1>1, <1>2, <1>3, <1>6, <1>9, <1>11 DEF EptRecv
  <1>12. QED
    BY <1>10, <1>11

\* Every step of the interrupt, of the host and of the bus keeps it.
LEMMA StepBus == IInv /\ BusInv /\ [Next]_vars => BusInv'
  <1> SUFFICES ASSUME TypeOK, CommandInv, BusInv, [Next]_vars
               PROVE  BusInv'
    BY DEF IInv
  <1>0. /\ BotTypes /\ UsbTypes /\ HostTypes /\ EndpointInv /\ TransferInv
        /\ RequestInv /\ RestInv /\ StallInv /\ PendingInv /\ SendInv /\ ReadInv
        /\ WriteInv /\ SameCommand /\ StatusInv /\ DiskHoldsPrefix
    BY DEF TypeOK, CommandInv, BusInv
  <1> USE <1>0 DEF bot, ept, irq, host
  <1>1. CASE IrqEnter
    <2>1. RequestInv'
      BY <1>1 DEF IrqEnter, RequestInv, Flags, UsbTypes
    <2>2. RestInv'
      BY <1>1 DEF IrqEnter, RestInv, AtRest, Cleared, Over, CbwPending, PassOffered, RequestInv, StallInv, PendingInv
    <2>3. StallInv'
      BY <1>1 DEF IrqEnter, StallInv, Over, CbwPending, PassOffered, Sending, RequestInv, RestInv, AtRest, Cleared, PendingInv, EndpointInv
    <2>4. PendingInv'
      BY <1>1 DEF IrqEnter, PendingInv, CbwPending, RestInv, AtRest, Over, PassOffered, EndpointInv, StallInv, RequestInv
    <2>5. SendInv'
      BY <1>1 DEF IrqEnter, SendInv, StallInv, RestInv, AtRest, Over, PassOffered, EndpointInv, CbwPending
    <2>6. ReadInv'
      BY <1>1 DEF IrqEnter, ReadInv, Offered, Wraps, StallInv, RestInv, AtRest, Over, PassOffered, EndpointInv, CbwPending
    <2>7. WriteInv'
      BY <1>1 DEF IrqEnter, WriteInv, Received, Wraps, Overlay, StallInv, RestInv, AtRest, Over, PassOffered, EndpointInv, CbwPending, PendingInv
    <2>8. SameCommand'
      BY <1>1 DEF IrqEnter, SameCommand, Sending, PassOffered, StallInv, RestInv, AtRest, Over, CbwPending, EndpointInv, PendingInv
    <2>9. StatusInv'
      BY <1>1 DEF IrqEnter, StatusInv, StatusPhase, CbwPending, Sending, PassOffered, AllMoved, Wraps, StallInv, RestInv, AtRest, Over, EndpointInv, PendingInv
    <2>10. DiskHoldsPrefix'
      BY <1>1 DEF IrqEnter, DiskHoldsPrefix, Wraps, Overlay, RestInv, StallInv
    <2>11. QED
      BY <2>1, <2>2, <2>3, <2>4, <2>5, <2>6, <2>7, <2>8, <2>9, <2>10 DEF BusInv
  <1>2. CASE CbwInvalid
    <2>1. RequestInv'
      BY <1>2 DEF CbwInvalid, ServeCbw, ServeXfer, Stall, EptRecv, RequestInv
    <2>2. RestInv'
      BY <1>2 DEF CbwInvalid, ServeCbw, ServeXfer, Stall, EptRecv, RestInv, AtRest, Cleared, Over, CbwPending, PassOffered, RequestInv, StallInv, PendingInv
    <2>3. StallInv'
      BY <1>2 DEF CbwInvalid, ServeCbw, ServeXfer, Stall, EptRecv, StallInv, Over, CbwPending, PassOffered, Sending, RequestInv, RestInv, AtRest, Cleared, PendingInv, EndpointInv
    <2>4. PendingInv'
      BY <1>2 DEF CbwInvalid, ServeCbw, ServeXfer, Stall, EptRecv, PendingInv, CbwPending, RestInv, AtRest, Over, PassOffered, EndpointInv, StallInv, RequestInv
    <2>5. SendInv'
      BY <1>2 DEF CbwInvalid, ServeCbw, ServeXfer, Stall, EptRecv, SendInv, StallInv, RestInv, AtRest, Over, PassOffered, EndpointInv, CbwPending
    <2>6. ReadInv'
      BY <1>2 DEF CbwInvalid, ServeCbw, ServeXfer, Stall, EptRecv, ReadInv, Offered, Wraps, StallInv, RestInv, AtRest, Over, PassOffered, EndpointInv, CbwPending
    <2>7. WriteInv'
      BY <1>2 DEF CbwInvalid, ServeCbw, ServeXfer, Stall, EptRecv, WriteInv, Received, Wraps, Overlay, StallInv, RestInv, AtRest, Over, PassOffered, EndpointInv, CbwPending, PendingInv
    <2>8. SameCommand'
      BY <1>2 DEF CbwInvalid, ServeCbw, ServeXfer, Stall, EptRecv, SameCommand, Sending, PassOffered, StallInv, RestInv, AtRest, Over, CbwPending, EndpointInv, PendingInv
    <2>9. StatusInv'
      BY <1>2 DEF CbwInvalid, ServeCbw, ServeXfer, Stall, EptRecv, StatusInv, StatusPhase, CbwPending, Sending, PassOffered, AllMoved, Wraps, StallInv, RestInv, AtRest, Over, EndpointInv, PendingInv
    <2>10. DiskHoldsPrefix'
      BY <1>2 DEF CbwInvalid, ServeCbw, ServeXfer, Stall, EptRecv, DiskHoldsPrefix, Wraps, Overlay, RestInv, StallInv
    <2>11. QED
      BY <2>1, <2>2, <2>3, <2>4, <2>5, <2>6, <2>7, <2>8, <2>9, <2>10 DEF BusInv
  <1>3. CASE CmdRejected
    <2>1. /\ CbwPending /\ ~Over
          /\ UNCHANGED <<hpc, hcbw, htag, hgot, hblks, disk0, disk, setup, busReset, cbw>>
          /\ cbw = hcbw /\ dCBWTag = htag /\ hgot = 0 /\ hblks = <<>> /\ disk = disk0
          /\ ept_in.kind \notin {"data", "csw"} /\ xferc' = xferc \ {"OUT"}
      BY <1>3, CbwServed DEF CmdRejected
    <2>2. ~AtRest /\ ~Cleared /\ ~stall_out /\ ~(stall_in /\ bot_status = "RECOVERY")
          /\ (hpc = "clr_data" => stall_in)
      BY <2>1, NotOver
    <2>3. RequestInv'
      BY <1>3 DEF CmdRejected, CbwAccepted, MayServe, ServeCbw, ServeXfer, Stall, EptRecv, RequestInv
    <2>4. RestInv'
      BY <2>1, <2>2 DEF RestInv, AtRest, Cleared
    <2>5. StallInv'
      BY <1>3 DEF CmdRejected, CbwAccepted, MayServe, ServeCbw, ServeXfer, Stall, EptRecv, StallInv, Over, CbwPending, PassOffered, Sending, RequestInv, RestInv, AtRest, Cleared, PendingInv, EndpointInv
    <2>6. PendingInv'
      BY <1>3 DEF CmdRejected, CbwAccepted, MayServe, ServeCbw, ServeXfer, Stall, EptRecv, PendingInv, CbwPending, RestInv, AtRest, Over, PassOffered, EndpointInv, StallInv, RequestInv
    <2>7. SendInv'
      BY <1>3 DEF CmdRejected, CbwAccepted, MayServe, ServeCbw, ServeXfer, Stall, EptRecv, SendInv, StallInv, RestInv, AtRest, Over, PassOffered, EndpointInv, CbwPending
    <2>8. ReadInv'
      BY <1>3 DEF CmdRejected, CbwAccepted, MayServe, ServeCbw, ServeXfer, Stall, EptRecv, ReadInv, Offered, Wraps, StallInv, RestInv, AtRest, Over, PassOffered, EndpointInv, CbwPending
    <2>9. WriteInv'
      BY <1>3 DEF CmdRejected, CbwAccepted, MayServe, ServeCbw, ServeXfer, Stall, EptRecv, WriteInv, Received, Wraps, Overlay, StallInv, RestInv, AtRest, Over, PassOffered, EndpointInv, CbwPending, PendingInv
    <2>10. SameCommand'
      BY <1>3 DEF CmdRejected, CbwAccepted, MayServe, ServeCbw, ServeXfer, Stall, EptRecv, SameCommand, Sending, PassOffered, StallInv, RestInv, AtRest, Over, CbwPending, EndpointInv, PendingInv
    <2>11. StatusInv'
      BY <1>3 DEF CmdRejected, CbwAccepted, MayServe, ServeCbw, ServeXfer, Stall, EptRecv, StatusInv, StatusPhase, CbwPending, Sending, PassOffered, AllMoved, Wraps, StallInv, RestInv, AtRest, Over, EndpointInv, PendingInv
    <2>12. DiskHoldsPrefix'
      BY <1>3 DEF CmdRejected, CbwAccepted, MayServe, ServeCbw, ServeXfer, Stall, EptRecv, DiskHoldsPrefix, Wraps, Overlay, RestInv, StallInv
    <2>13. QED
      BY <2>3, <2>4, <2>5, <2>6, <2>7, <2>8, <2>9, <2>10, <2>11, <2>12 DEF BusInv
  <1>4. CASE CmdNoData
    <2>1. /\ CbwPending /\ ~Over
          /\ UNCHANGED <<hpc, hcbw, htag, hgot, hblks, disk0, disk, setup, busReset, cbw>>
          /\ cbw = hcbw /\ dCBWTag = htag /\ hgot = 0 /\ hblks = <<>> /\ disk = disk0
          /\ ept_in.kind \notin {"data", "csw"} /\ xferc' = xferc \ {"OUT"}
      BY <1>4, CbwServed DEF CmdNoData
    <2>2. ~AtRest /\ ~Cleared /\ ~stall_out /\ ~(stall_in /\ bot_status = "RECOVERY")
          /\ (hpc = "clr_data" => stall_in)
      BY <2>1, NotOver
    <2>3. /\ ept_in'.kind = "csw" /\ ept_in'.status = "PASS"
          /\ ept_in'.tag = htag /\ ept_in'.residue = hcbw.len
          /\ msc_state' = "IDLE" /\ recv' = FALSE /\ ept_out' = "cbw" /\ stall_out' = stall_out /\ stall_in' = stall_in
          /\ hcbw.op \notin BlockOps
      BY <1>4, <2>1, XferFields DEF CmdNoData, SendCsw, EptRecv, DecodedCsw
    <2>4. RequestInv'
      BY <1>4 DEF CmdNoData, CbwAccepted, MayServe, ServeCbw, ServeXfer, SendCsw, EptRecv, RequestInv
    <2>5. RestInv'
      BY <2>1, <2>2 DEF RestInv, AtRest, Cleared
    <2>6. StallInv'
      BY <1>4, <2>1, <2>2, <2>3 DEF StallInv, CbwPending, CmdNoData, ServeCbw, ServeXfer
    <2>7. PendingInv'
      BY <1>4 DEF CmdNoData, CbwAccepted, MayServe, ServeCbw, ServeXfer, SendCsw, EptRecv, PendingInv, CbwPending, RestInv, AtRest, Over, PassOffered, EndpointInv, StallInv, RequestInv
    <2>8. SendInv'
      BY <1>4 DEF CmdNoData, CbwAccepted, MayServe, ServeCbw, ServeXfer, SendCsw, EptRecv, SendInv, StallInv, RestInv, AtRest, Over, PassOffered, EndpointInv, CbwPending
    <2>9. ReadInv'
      BY <1>4 DEF CmdNoData, CbwAccepted, MayServe, ServeCbw, ServeXfer, SendCsw, EptRecv, ReadInv, Offered, Wraps, StallInv, RestInv, AtRest, Over, PassOffered, EndpointInv, CbwPending
    <2>10. WriteInv'
      BY <1>4 DEF CmdNoData, CbwAccepted, MayServe, ServeCbw, ServeXfer, SendCsw, EptRecv, WriteInv, Received, Wraps, Overlay, StallInv, RestInv, AtRest, Over, PassOffered, EndpointInv, CbwPending, PendingInv
    <2>11. SameCommand'
      BY <2>1, <2>3 DEF SameCommand, Sending, PassOffered
    <2>12. StatusInv'
      BY <2>1, <2>3 DEF StatusInv, StatusPhase, CbwPending, Sending, PassOffered,
             AllMoved, HostTypes, CbwType
    <2>13. DiskHoldsPrefix'
      BY <1>4 DEF CmdNoData, CbwAccepted, MayServe, ServeCbw, ServeXfer, SendCsw, EptRecv, DiskHoldsPrefix, Wraps, Overlay, RestInv, StallInv
    <2>14. QED
      BY <2>4, <2>5, <2>6, <2>7, <2>8, <2>9, <2>10, <2>11, <2>12, <2>13 DEF BusInv
  <1>5. CASE CmdSendData
    <2>1. /\ CbwPending /\ ~Over
          /\ UNCHANGED <<hpc, hcbw, htag, hgot, hblks, disk0, disk, setup, busReset, cbw>>
          /\ cbw = hcbw /\ dCBWTag = htag /\ hgot = 0 /\ hblks = <<>> /\ disk = disk0
          /\ ept_in.kind \notin {"data", "csw"} /\ xferc' = xferc \ {"OUT"}
      BY <1>5, CbwServed DEF CmdSendData
    <2>2. ~AtRest /\ ~Cleared /\ ~stall_out /\ ~(stall_in /\ bot_status = "RECOVERY")
          /\ (hpc = "clr_data" => stall_in)
      BY <2>1, NotOver
    <2>3. \E n \in Nat : /\ n <= hcbw.len /\ n < BlkSize
                           /\ csw' = [tag |-> htag, residue |-> hcbw.len - n]
                           /\ ept_in' = DataXfer(n, Response)
      BY <1>5, <2>1, ResponseSent
    <2>4. /\ ept_in'.kind = "data" /\ ept_in'.n + csw'.residue = hcbw.len /\ ept_in'.n < BlkSize
          /\ csw'.tag = htag /\ csw'.residue \in Nat /\ ept_in'.n \in Nat
      BY <2>3, XferFields DEF HostTypes, CbwType
    <2>5. /\ msc_state' = "SEND_DATA" /\ hcbw.op \notin BlockOps
          /\ UNCHANGED <<bot_status, ept_out, recv, stall_in, stall_out>>
      BY <1>5, <2>1 DEF CmdSendData
    <2>6. RequestInv'
      BY <1>5 DEF CmdSendData, CbwAccepted, MayServe, ServeCbw, ServeXfer, RequestInv
    <2>7. RestInv'
      BY <2>1, <2>2 DEF RestInv, AtRest, Cleared
    <2>8. StallInv'
      BY <2>1, <2>2, <2>4, <2>5 DEF StallInv, CbwPending, Sending
    <2>9. PendingInv'
      BY <1>5 DEF CmdSendData, CbwAccepted, MayServe, ServeCbw, ServeXfer, PendingInv, CbwPending, RestInv, AtRest, Over, PassOffered, EndpointInv, StallInv, RequestInv
    <2>10. SendInv'
      BY <2>1, <2>4, <2>5 DEF SendInv
    <2>11. ReadInv'
      BY <1>5 DEF CmdSendData, CbwAccepted, MayServe, ServeCbw, ServeXfer, ReadInv, Offered, Wraps, StallInv, RestInv, AtRest, Over, PassOffered, EndpointInv, CbwPending
    <2>12. WriteInv'
      BY <1>5 DEF CmdSendData, CbwAccepted, MayServe, ServeCbw, ServeXfer, WriteInv, Received, Wraps, Overlay, StallInv, RestInv, AtRest, Over, PassOffered, EndpointInv, CbwPending, PendingInv
    <2>13. SameCommand'
      BY <2>1, <2>4, <2>5 DEF SameCommand, PassOffered
    <2>14. StatusInv'
      BY <2>1, <2>4, <2>5 DEF StatusInv, StatusPhase, CbwPending, PassOffered, AllMoved,
             HostTypes, CbwType
    <2>15. DiskHoldsPrefix'
      BY <1>5 DEF CmdSendData, CbwAccepted, MayServe, ServeCbw, ServeXfer, DiskHoldsPrefix, Wraps, Overlay, RestInv, StallInv
    <2>16. QED
      BY <2>6, <2>7, <2>8, <2>9, <2>10, <2>11, <2>12, <2>13, <2>14, <2>15 DEF BusInv
  <1>6. CASE Read10Start
    <2>1. /\ CbwPending /\ ~Over
          /\ UNCHANGED <<hpc, hcbw, htag, hgot, hblks, disk0, disk, setup, busReset, cbw>>
          /\ cbw = hcbw /\ dCBWTag = htag /\ hgot = 0 /\ hblks = <<>> /\ disk = disk0
          /\ ept_in.kind \notin {"data", "csw"} /\ xferc' = xferc \ {"OUT"}
      BY <1>6, CbwServed DEF Read10Start
    <2>2. ~AtRest /\ ~Cleared /\ ~stall_out /\ ~(stall_in /\ bot_status = "RECOVERY")
          /\ (hpc = "clr_data" => stall_in)
      BY <2>1, NotOver
    <2>3. /\ ept_in'.kind = "data" /\ msc_state' \in {"DATA_IN", "LAST_DATA"}
          /\ (msc_state' = "DATA_IN") <=> (blk_len' > 0)
          /\ csw'.tag = htag /\ csw'.residue = blk_len' * BlkSize
          /\ ~Wraps(hcbw) => hcbw.lba + hcbw.cnt <= NBlks
          /\ \/ /\ hcbw.len = 0 /\ ept_in'.n = 0 /\ blk_len' = 0 /\ (~Wraps(hcbw) => hcbw.cnt = 0)
             \/ /\ hcbw.len > 0 /\ hcbw.len = hcbw.cnt * BlkSize /\ hcbw.cnt > 0
                /\ ept_in'.n = BlkSize /\ ept_in'.blk = disk[DiskBlock(hcbw.lba)]
                /\ blk_len' = hcbw.cnt - 1 /\ blk_addr' = hcbw.lba + 1
      <3> DEFINE a == Scaled(cbw, cbw.lba)
                 n == Scaled(cbw, cbw.cnt)
      <3>1. cbw \in CbwType /\ a \in Nat /\ n \in Nat
        BY ScaledType DEF BotTypes
      <3>2. cbw.op \in BlockOps /\ Reject(cbw) = "none" /\ ReadChunk(a, n, DecodedCsw)
        BY <1>6 DEF Read10Start, BlockOps
      <3>3. cbw.len = n * BlkSize
        BY <3>1, <3>2, Accepted
      <3>4. /\ n = 0 => cbw.len = 0 /\ (~Wraps(cbw) => cbw.cnt = 0)
            /\ n > 0 => cbw.len > 0 /\ cbw.len = cbw.cnt * BlkSize /\ a = cbw.lba /\ n = cbw.cnt
            /\ ~Wraps(cbw) => cbw.lba + cbw.cnt <= NBlks
        BY <3>1, <3>2, AcceptedBlocks
      <3>5. DecodedCsw \in CswType /\ DecodedCsw.residue = n * BlkSize /\ DecodedCsw.tag = htag
        BY <2>1, <3>3, DecodedCswType DEF DecodedCsw
      <3> HIDE DEF a, n
      <3>6. /\ ept_in'.kind = "data"
            /\ n = 0 => ept_in'.n = 0 /\ blk_len' = 0
            /\ n > 0 => /\ ept_in'.n = BlkSize /\ ept_in'.blk = disk[DiskBlock(a)]
                        /\ blk_len' = n - 1 /\ blk_addr' = a + 1
            /\ msc_state' \in {"DATA_IN", "LAST_DATA"}
            /\ (msc_state' = "DATA_IN") <=> (blk_len' > 0)
            /\ csw'.tag = DecodedCsw.tag /\ csw'.residue = blk_len' * BlkSize
        BY <3>1, <3>2, <3>5, ReadChunkEffect
      <3>7. QED
        BY <2>1, <3>1, <3>4, <3>5, <3>6
    <2>4. hcbw.op = "read10" /\ UNCHANGED <<bot_status, ept_out, recv, stall_in, stall_out>>
      BY <1>6, <2>1 DEF Read10Start
    <2>5. RequestInv'
      BY <1>6 DEF Read10Start, CbwAccepted, MayServe, ServeCbw, ServeXfer, RequestInv
    <2>6. RestInv'
      BY <2>1, <2>2 DEF RestInv, AtRest, Cleared
    <2>7. StallInv'
      BY <2>1, <2>2, <2>3, <2>4 DEF StallInv, CbwPending, Sending
    <2>8. PendingInv'
      BY <2>3 DEF PendingInv, CbwPending
    <2>9. SendInv'
      BY <2>3 DEF SendInv
    <2>10. ReadInv'
      <3>1. hcbw.cnt \in Nat /\ hcbw.lba \in Nat /\ hcbw.len \in Nat /\ BlkSize \in Nat
            /\ Len(hblks) = 0 /\ Len(hblks') = 0
        BY <2>1, ConstAssumption DEF HostTypes, CbwType
      <3>0. hgot' = Len(hblks') * BlkSize
        BY <3>1, <2>1
      <3>2. ~Wraps(hcbw) /\ hcbw.cnt > 0 => DiskBlock(hcbw.lba) = hcbw.lba + Len(hblks)
        <4>1. ~Wraps(hcbw) /\ hcbw.cnt > 0 => DiskBlock(hcbw.lba) = hcbw.lba
          <5>1. ~Wraps(hcbw) /\ hcbw.cnt > 0 => hcbw.lba < NBlks
            BY <3>1, <2>3, ConstAssumption
          <5>2. QED
            BY <3>1, <5>1, DiskBlockType
        <4>2. hcbw.lba + Len(hblks) = hcbw.lba
          BY <3>1
        <4>3. QED
          BY <4>1, <4>2
      <3>3. Wraps(hcbw)' <=> Wraps(hcbw)
        BY <2>1 DEF Wraps
      <3>4. Offered' = 1
        BY <2>3 DEF Offered
      <3>5. CASE hcbw.len = 0
        BY <3>0, <3>1, <3>3, <3>5, <2>1, <2>3, <2>4 DEF ReadInv
      <3>6. CASE hcbw.len > 0
        <4>0. /\ hcbw.len = hcbw.cnt * BlkSize
              /\ ept_in'.n = BlkSize /\ ept_in'.blk = disk[DiskBlock(hcbw.lba)]
          BY <3>6, <2>3
        <4>1. /\ hcbw.cnt > 0
              /\ blk_len' = hcbw.cnt - 1 /\ blk_addr' = hcbw.lba + 1
          BY <3>6, <2>3
        <4>2. /\ Offered' + Len(hblks') + blk_len' <= hcbw.cnt
              /\ blk_addr' + blk_len' = hcbw.lba + hcbw.cnt
          BY <3>1, <3>4, <4>1
        <4>3. ~Wraps(hcbw) => ept_in'.blk = disk[hcbw.lba + Len(hblks)]
          BY <3>2, <4>0, <4>1
        <4>4. 1..Len(hblks') = {}
          BY <3>1
        <4>5. QED
          BY <3>0, <3>1, <3>3, <3>6, <4>0, <4>1, <4>2, <4>3, <4>4, <2>1, <2>3, <2>4 DEF ReadInv
      <3>7. QED
        BY <3>1, <3>5, <3>6
    <2>11. WriteInv'
      BY <2>3 DEF WriteInv
    <2>12. SameCommand'
      BY <2>1, <2>3 DEF SameCommand, PassOffered
    <2>13. StatusInv'
      <3>1. Wraps(hcbw)' <=> Wraps(hcbw)
        BY <2>1 DEF Wraps
      <3>2. BlkSize \in Nat /\ hcbw.cnt \in Nat /\ hcbw.lba \in Nat
        BY ConstAssumption DEF HostTypes, CbwType
      <3>3. QED
        BY <3>1, <3>2, <2>1, <2>3, <2>4 DEF StatusInv, StatusPhase, CbwPending, PassOffered, AllMoved
    <2>14. DiskHoldsPrefix'
      BY <1>6 DEF Read10Start, CbwAccepted, MayServe, ServeCbw, ServeXfer, DiskHoldsPrefix, Wraps, Overlay, RestInv, StallInv
    <2>15. QED
      BY <2>5, <2>6, <2>7, <2>8, <2>9, <2>10, <2>11, <2>12, <2>13, <2>14 DEF BusInv
  <1>7. CASE Read10Next
    <2>1. /\ msc_state = "DATA_IN" /\ Sending /\ ~Over
          /\ UNCHANGED <<hpc, hcbw, htag, hgot, hblks, disk0, setup, busReset, cbw>>
          /\ UNCHANGED <<disk, bot_status, ept_out, recv, stall_in, stall_out>>
      BY <1>7 DEF Read10Next, ServeXfer, Sending, Over, host
    <2>2. ~AtRest /\ ~Cleared /\ ~stall_out /\ ~(stall_in /\ bot_status = "RECOVERY")
          /\ (hpc = "clr_data" => stall_in)
      BY <2>1, NotOver
    <2>3. /\ blk_len \in Nat /\ blk_addr \in Nat /\ csw \in CswType /\ BlkSize \in Nat \ {0}
          /\ hcbw.cnt \in Nat /\ hcbw.lba \in Nat /\ hcbw.len \in Nat /\ Len(hblks) \in Nat
      BY ConstAssumption DEF BotTypes, HostTypes, CbwType
    <2>4. /\ ept_in'.kind = "data" /\ msc_state' \in {"DATA_IN", "LAST_DATA"}
          /\ (msc_state' = "DATA_IN") <=> (blk_len' > 0)
          /\ csw'.tag = csw.tag /\ csw'.residue = blk_len' * BlkSize
          /\ blk_len > 0
          /\ ept_in'.n = BlkSize /\ ept_in'.blk = disk[DiskBlock(blk_addr)]
          /\ blk_len' = blk_len - 1 /\ blk_addr' = blk_addr + 1
      <3>1. blk_len > 0 /\ csw.residue = blk_len * BlkSize /\ ReadChunk(blk_addr, blk_len, csw)
        BY <1>7, <2>1 DEF ReadInv, Read10Next
      <3>2. QED
        BY <3>1, <2>3, ReadChunkEffect
    <2>5. hcbw.len > 0 /\ ~(StatusPhase /\ ~stall_in)
      BY <2>1, <2>3, <2>4 DEF ReadInv, StatusInv
    <2>6. RequestInv'
      BY <1>7 DEF Read10Next, MayServe, ServeXfer, RequestInv
    <2>7. RestInv'
      BY <2>1, <2>2 DEF RestInv, AtRest, Cleared
    <2>8. StallInv'
      BY <2>1, <2>2, <2>4 DEF StallInv, Sending
    <2>9. PendingInv'
      BY <2>4 DEF PendingInv, CbwPending
    <2>10. SendInv'
      BY <2>4 DEF SendInv
    <2>11. ReadInv'
      <3>1. /\ hcbw.op = "read10" /\ hcbw.len = hcbw.cnt * BlkSize /\ hgot = Len(hblks) * BlkSize
        BY <2>1, <2>5 DEF ReadInv
      <3>0. ~Wraps(hcbw) => hcbw.lba + hcbw.cnt <= NBlks
        BY <2>1 DEF ReadInv
      <3>2. /\ Offered + Len(hblks) + blk_len <= hcbw.cnt /\ Offered \in {0, 1}
            /\ blk_addr + blk_len = hcbw.lba + hcbw.cnt
        BY <2>1, <2>5 DEF ReadInv, Offered
      <3>3. Offered' = 1 /\ (Wraps(hcbw)' <=> Wraps(hcbw))
        BY <2>1, <2>4 DEF Offered, Wraps
      <3>4. /\ Offered' + Len(hblks) + blk_len' <= hcbw.cnt
            /\ blk_addr' + blk_len' = hcbw.lba + hcbw.cnt
        BY <3>2, <3>3, <2>3, <2>4
      <3>5. ASSUME ~Wraps(hcbw), Offered' + Len(hblks) + blk_len' = hcbw.cnt
            PROVE  /\ \A i \in 1..Len(hblks) : hblks[i] = disk[hcbw.lba + i - 1]
                   /\ ept_in'.blk = disk[hcbw.lba + Len(hblks)]
        <4>0. blk_len' = blk_len - 1 /\ blk_len > 0
          BY <2>4
        <4>1. Offered + Len(hblks) + blk_len = hcbw.cnt /\ blk_addr = hcbw.lba + Len(hblks)
              /\ blk_addr < hcbw.lba + hcbw.cnt
          BY <3>2, <3>3, <3>5, <4>0, <2>3
        <4>2. \A i \in 1..Len(hblks) : hblks[i] = disk[hcbw.lba + i - 1]
          BY <3>5, <4>1, <2>1, <2>5 DEF ReadInv
        <4>3. blk_addr < NBlks
          BY <3>0, <3>5, <4>1, <2>3, ConstAssumption
        <4>5. DiskBlock(blk_addr) = blk_addr
          BY <4>3, <2>3, DiskBlockType
        <4>6. QED
          BY <4>1, <4>2, <4>5, <2>4
      <3>6. QED
        BY <3>0, <3>1, <3>3, <3>4, <3>5, <2>1, <2>4, <2>5 DEF ReadInv
    <2>12. WriteInv'
      BY <2>4 DEF WriteInv
    <2>13. SameCommand'
      BY <2>1, <2>4 DEF SameCommand, PassOffered, Sending
    <2>14. StatusInv'
      BY <2>1, <2>5 DEF StatusInv, StatusPhase
    <2>15. DiskHoldsPrefix'
      BY <1>7 DEF Read10Next, MayServe, ServeXfer, DiskHoldsPrefix, Wraps, Overlay, RestInv, StallInv
    <2>16. QED
      BY <2>6, <2>7, <2>8, <2>9, <2>10, <2>11, <2>12, <2>13, <2>14, <2>15 DEF BusInv
  <1>8. CASE DataInDone
    <2>1. /\ Sending /\ ~Over /\ msc_state # "DATA_IN"
          /\ UNCHANGED <<hpc, hcbw, htag, hgot, hblks, disk0, setup, busReset, cbw>>
          /\ UNCHANGED <<disk, bot_status, stall_in, stall_out>>
      BY <1>8 DEF DataInDone, ServeXfer, Sending, Over, host
    <2>2. ~AtRest /\ ~Cleared /\ ~stall_out /\ ~(stall_in /\ bot_status = "RECOVERY")
          /\ (hpc = "clr_data" => stall_in)
      BY <2>1, NotOver
    <2>3. /\ ept_in'.kind = "csw" /\ ept_in'.status = "PASS"
          /\ ept_in'.tag = csw.tag /\ ept_in'.residue = csw.residue
          /\ msc_state' = "IDLE" /\ recv' = FALSE /\ ept_out' = "cbw" /\ stall_out' = stall_out
      BY <1>8, XferFields DEF DataInDone, SendCsw, EptRecv
    <2>4. RequestInv'
      BY <1>8 DEF DataInDone, ServeXfer, SendCsw, EptRecv, RequestInv
    <2>5. RestInv'
      BY <2>1, <2>2 DEF RestInv, AtRest, Cleared
    <2>6. StallInv'
      BY <1>8, <2>1, <2>2, <2>3 DEF StallInv, CbwPending, DataInDone, ServeXfer
    <2>7. PendingInv'
      BY <1>8 DEF DataInDone, ServeXfer, SendCsw, EptRecv, PendingInv, CbwPending, RestInv, AtRest, Over, PassOffered, EndpointInv, StallInv, RequestInv
    <2>8. SendInv'
      BY <1>8 DEF DataInDone, ServeXfer, SendCsw, EptRecv, SendInv, StallInv, RestInv, AtRest, Over, PassOffered, EndpointInv, CbwPending
    <2>9. ReadInv'
      BY <1>8 DEF DataInDone, ServeXfer, SendCsw, EptRecv, ReadInv, Offered, Wraps, StallInv, RestInv, AtRest, Over, PassOffered, EndpointInv, CbwPending
    <2>10. WriteInv'
      BY <1>8 DEF DataInDone, ServeXfer, SendCsw, EptRecv, WriteInv, Received, Wraps, Overlay, StallInv, RestInv, AtRest, Over, PassOffered, EndpointInv, CbwPending, PendingInv
    <2>11. SameCommand'
      BY <2>1, <2>3 DEF SameCommand, Sending, PassOffered
    <2>12. StatusInv'
      BY <2>1, <2>3 DEF StatusInv, StatusPhase, CbwPending, Sending, PassOffered, AllMoved, Wraps
    <2>13. DiskHoldsPrefix'
      BY <1>8 DEF DataInDone, ServeXfer, SendCsw, EptRecv, DiskHoldsPrefix, Wraps, Overlay, RestInv, StallInv
    <2>14. QED
      BY <2>4, <2>5, <2>6, <2>7, <2>8, <2>9, <2>10, <2>11, <2>12, <2>13 DEF BusInv
  <1>9. CASE Write10Start
    <2>1. /\ CbwPending /\ ~Over
          /\ UNCHANGED <<hpc, hcbw, htag, hgot, hblks, disk0, disk, setup, busReset, cbw>>
          /\ cbw = hcbw /\ dCBWTag = htag /\ hgot = 0 /\ hblks = <<>> /\ disk = disk0
          /\ ept_in.kind \notin {"data", "csw"} /\ xferc' = xferc \ {"OUT"}
      BY <1>9, CbwServed DEF Write10Start
    <2>2. ~AtRest /\ ~Cleared /\ ~stall_out /\ ~(stall_in /\ bot_status = "RECOVERY")
          /\ (hpc = "clr_data" => stall_in)
      BY <2>1, NotOver
    <2>3. /\ msc_state' = "DATA_OUT" /\ csw'.tag = htag /\ ept_out' = "data" /\ hcbw.dir = "out"
          /\ UNCHANGED <<bot_status, ept_in, stall_in, stall_out>>
          /\ blk_len' \in Nat
          /\ blk_len' = 0 => hcbw.len = 0
          /\ blk_len' > 0 => hcbw.len = hcbw.cnt * BlkSize /\ blk_len' = hcbw.cnt
      <3>1. cbw \in CbwType /\ cbw.op \in BlockOps /\ Reject(cbw) = "none" /\ cbw.op = "write10"
        BY <1>9 DEF Write10Start, BlockOps, BotTypes
      <3>2. StoresRange(cbw) /\ cbw.dir = "out"
        BY <3>1, Accepted DEF StoresRange
      <3>3. blk_len' = Scaled(cbw, cbw.cnt)
        BY <1>9, <3>2 DEF Write10Start, StoreRange
      <3>4. /\ blk_len' \in Nat
            /\ blk_len' = 0 => cbw.len = 0
            /\ blk_len' > 0 => cbw.len = cbw.cnt * BlkSize /\ blk_len' = cbw.cnt
        BY <3>1, <3>3, AcceptedBlocks, ScaledType
      <3>5. QED
        BY <1>9, <3>2, <3>4, <2>1 DEF Write10Start, EptRecv, DecodedCsw
    <2>4. RequestInv'
      BY <1>9 DEF Write10Start, CbwAccepted, MayServe, EptRecv, ServeCbw, ServeXfer, RequestInv
    <2>5. RestInv'
      BY <2>1, <2>2 DEF RestInv, AtRest, Cleared
    <2>6. StallInv'
      BY <1>9 DEF Write10Start, CbwAccepted, MayServe, EptRecv, ServeCbw, ServeXfer, StallInv, Over, CbwPending, PassOffered, Sending, RequestInv, RestInv, AtRest, Cleared, PendingInv, EndpointInv
    <2>7. PendingInv'
      BY <1>9 DEF Write10Start, CbwAccepted, MayServe, EptRecv, ServeCbw, ServeXfer, PendingInv, CbwPending, RestInv, AtRest, Over, PassOffered, EndpointInv, StallInv, RequestInv
    <2>8. SendInv'
      BY <1>9 DEF Write10Start, CbwAccepted, MayServe, EptRecv, ServeCbw, ServeXfer, SendInv, StallInv, RestInv, AtRest, Over, PassOffered, EndpointInv, CbwPending
    <2>9. ReadInv'
      BY <1>9 DEF Write10Start, CbwAccepted, MayServe, EptRecv, ServeCbw, ServeXfer, ReadInv, Offered, Wraps, StallInv, RestInv, AtRest, Over, PassOffered, EndpointInv, CbwPending
    <2>10. WriteInv'
      <3>1. /\ hcbw.cnt \in Nat /\ hcbw.lba \in Nat /\ BlkSize \in Nat /\ disk0 \in Disks
            /\ Len(hblks) = 0 /\ "OUT" \notin xferc'
        BY <2>1, ConstAssumption DEF HostTypes, CbwType, Disks
      <3>2. Overlay(disk0, hcbw.lba, 0)' = disk'
        BY <3>1, <2>1, OverlayZero DEF Overlay
      <3>3. blk_len' > 0 => hcbw.cnt - blk_len' = 0
        BY <3>1, <2>3
      <3>4. Received' = 0 /\ hgot = Len(hblks) * BlkSize
        BY <3>1, <2>1 DEF Received
      <3>5. blk_len' > 0 => Len(hblks) + blk_len' = hcbw.cnt + Received'
        BY <3>1, <3>4, <2>3
      <3>6. blk_len' > 0 => disk' = Overlay(disk0, hcbw.lba, hcbw.cnt - blk_len)'
        BY <3>2, <3>3, <2>1
      <3>7. QED
        BY <3>1, <3>4, <3>5, <3>6, <2>1, <2>3 DEF WriteInv
    <2>11. SameCommand'
      BY <1>9 DEF Write10Start, CbwAccepted, MayServe, EptRecv, ServeCbw, ServeXfer, SameCommand, Sending, PassOffered, StallInv, RestInv, AtRest, Over, CbwPending, EndpointInv, PendingInv
    <2>12. StatusInv'
      BY <1>9 DEF Write10Start, CbwAccepted, MayServe, EptRecv, ServeCbw, ServeXfer, StatusInv, StatusPhase, CbwPending, Sending, PassOffered, AllMoved, Wraps, StallInv, RestInv, AtRest, Over, EndpointInv, PendingInv
    <2>13. DiskHoldsPrefix'
      BY <1>9 DEF Write10Start, CbwAccepted, MayServe, EptRecv, ServeCbw, ServeXfer, DiskHoldsPrefix, Wraps, Overlay, RestInv, StallInv
    <2>14. QED
      BY <2>4, <2>5, <2>6, <2>7, <2>8, <2>9, <2>10, <2>11, <2>12, <2>13 DEF BusInv
  <1>10. CASE Write10Next
    <2>1. /\ msc_state = "DATA_OUT" /\ ~Over /\ "OUT" \in xferc /\ xferc' = xferc \ {"OUT"}
          /\ UNCHANGED <<hpc, hcbw, htag, hgot, hblks, disk0, setup, busReset, cbw>>
          /\ UNCHANGED <<bot_status, stall_in, stall_out>>
      BY <1>10 DEF Write10Next, ServeXfer, MayServe, EndpointInv, Over, host
    <2>2. ~AtRest /\ ~Cleared /\ ~stall_out /\ ~(stall_in /\ bot_status = "RECOVERY")
          /\ (hpc = "clr_data" => stall_in)
      BY <2>1, NotOver
    <2>3. /\ blk_len \in Nat /\ blk_addr \in Nat /\ csw \in CswType /\ BlkSize \in Nat \ {0}
          /\ hcbw.cnt \in Nat /\ hcbw.lba \in Nat /\ hcbw.len \in Nat /\ Len(hblks) \in Nat
          /\ disk0 \in Disks /\ NBlks \in Nat
      BY ConstAssumption DEF BotTypes, HostTypes, CbwType, Disks
    <2>4. /\ blk_len > 0 /\ Len(hblks) + blk_len = hcbw.cnt + 1 /\ Len(hblks) > 0
          /\ data = hblks[Len(hblks)] /\ cbw = hcbw /\ csw.tag = htag
          /\ ~Wraps(hcbw) => disk = Overlay(disk0, hcbw.lba, hcbw.cnt - blk_len)
          /\ hcbw.op = "write10" /\ hcbw.dir = "out" /\ ept_in.kind # "data"
          /\ blk_addr + blk_len = hcbw.lba + hcbw.cnt
          /\ ~Wraps(hcbw) => hcbw.lba + hcbw.cnt <= NBlks
      BY <2>1, <2>3 DEF WriteInv, TransferInv, Received, Wraps
    <2>5. hcbw.len = hcbw.cnt * BlkSize /\ hgot = Len(hblks) * BlkSize /\ csw.residue = blk_len * BlkSize
      BY <2>1, <2>4 DEF WriteInv, TransferInv
    <2>6. /\ blk_len' = blk_len - 1
          /\ ~Wraps(hcbw) => disk' = Overlay(disk0, hcbw.lba, Len(hblks))
      <3>1. MinOf(blk_len, 1) = 1
        BY <2>3, <2>4 DEF MinOf
      <3>2. blk_len' = blk_len - 1 /\ disk' = [disk EXCEPT ![DiskBlock(blk_addr)] = data]
        BY <1>10, <3>1 DEF Write10Next
      <3>3. ASSUME ~Wraps(hcbw)
            PROVE  disk' = Overlay(disk0, hcbw.lba, Len(hblks))
        <4> DEFINE k == hcbw.cnt - blk_len
        <4>1. /\ blk_len > 0 /\ Len(hblks) + blk_len = hcbw.cnt + 1 /\ Len(hblks) > 0
              /\ blk_addr + blk_len = hcbw.lba + hcbw.cnt /\ hcbw.lba + hcbw.cnt <= NBlks
          BY <3>3, <2>4
        <4>2. k \in Nat /\ k + 1 = Len(hblks) /\ blk_addr = hcbw.lba + k /\ blk_addr < NBlks
          <5>1. k + 1 = Len(hblks)
            BY <4>1, <2>3
          <5>2. blk_addr = hcbw.lba + k
            BY <4>1, <2>3, SMTT(30)
          <5>3. blk_addr < NBlks
            BY <4>1, <2>3
          <5>4. k \in Nat
            BY <4>1, <2>3
          <5>5. QED
            BY <5>1, <5>2, <5>3, <5>4
        <4> HIDE DEF k
        <4>3. disk' = [Overlay(disk0, hcbw.lba, k) EXCEPT ![hcbw.lba + k] = hblks[k + 1]]
          BY <3>2, <3>3, <4>2, <2>3, <2>4, DiskBlockType DEF k
        <4>4. QED
          BY <4>2, <4>3, <2>3, OverlayNext
      <3>4. QED
        BY <3>2, <3>3
    <2>7. \/ /\ blk_len = 1 /\ msc_state' = "IDLE" /\ recv' = FALSE /\ ept_out' = "cbw"
             /\ ept_in'.kind = "csw" /\ ept_in'.status = "PASS"
             /\ ept_in'.tag = htag /\ ept_in'.residue = 0
          \/ /\ blk_len > 1 /\ msc_state' = "DATA_OUT" /\ recv' = FALSE /\ ept_out' = "data"
             /\ csw'.tag = htag /\ ept_in' = ept_in
      BY <1>10, WriteReply
    <2>8. RequestInv'
      BY <1>10 DEF Write10Next, MayServe, ServeXfer, SendCsw, EptRecv, RequestInv
    <2>9. RestInv'
      BY <2>1, <2>2 DEF RestInv, AtRest, Cleared
    <2>10. StallInv'
      BY <2>1, <2>2, <2>4, <2>7 DEF StallInv, CbwPending, Sending
    <2>11. PendingInv'
      BY <2>7 DEF PendingInv, CbwPending
    <2>12. SendInv'
      BY <2>7 DEF SendInv
    <2>13. ReadInv'
      BY <2>7 DEF ReadInv
    <2>14. WriteInv'
      <3> SUFFICES ASSUME msc_state' = "DATA_OUT"
                   PROVE  WriteInv'
        BY DEF WriteInv
      <3>1. blk_len > 1 /\ blk_len' > 0 /\ Received' = 0 /\ "OUT" \notin xferc'
        BY <2>1, <2>3, <2>6, <2>7 DEF Received
      <3>2. Len(hblks) + blk_len' = hcbw.cnt + Received' /\ hcbw.cnt - blk_len' = Len(hblks)
        BY <3>1, <2>3, <2>4, <2>6
      <3>3. Wraps(hcbw)' <=> Wraps(hcbw)
        BY <2>1 DEF Wraps
      <3>4. Overlay(disk0, hcbw.lba, hcbw.cnt - blk_len)' = Overlay(disk0, hcbw.lba, Len(hblks))
        BY <3>2, <2>1 DEF Overlay
      <3>5. QED
        BY <3>1, <3>2, <3>3, <3>4, <2>1, <2>4, <2>5, <2>6, <2>7 DEF WriteInv
    <2>15. SameCommand'
      BY <2>1, <2>7, <2>4 DEF SameCommand, Sending, PassOffered
    <2>16. StatusInv'
      <3> SUFFICES ASSUME PassOffered'
                   PROVE  ept_in'.residue + hgot = hcbw.len /\ AllMoved'
        BY <2>1, <2>7 DEF StatusInv, CbwPending, Sending
      <3>1. blk_len = 1 /\ ept_in'.residue = 0 /\ Len(hblks) = hcbw.cnt
        <4>1. blk_len = 1 /\ ept_in'.residue = 0
          BY <2>1, <2>7 DEF PassOffered, StallInv
        <4>2. QED
          BY <4>1, <2>3, <2>4
      <3>2. ept_in'.residue + hgot = hcbw.len
        BY <3>1, <2>3, <2>5
      <3>3. ASSUME ~Wraps(hcbw)
            PROVE  \A i \in 1..hcbw.cnt : hblks[i] = disk'[hcbw.lba + i - 1]
        BY <3>1, <3>3, <2>3, <2>4, <2>6, OverlayAt
      <3>4. QED
        BY <3>1, <3>2, <3>3, <2>1, <2>4 DEF AllMoved, Wraps
    <2>17. DiskHoldsPrefix'
      <3>1. Overlay(disk0, hcbw.lba, Len(hblks))' = Overlay(disk0, hcbw.lba, Len(hblks))
        BY <2>1 DEF Overlay
      <3>2. QED
        BY <3>1, <2>1, <2>4, <2>6 DEF DiskHoldsPrefix, Wraps
    <2>18. QED
      BY <2>8, <2>9, <2>10, <2>11, <2>12, <2>13, <2>14, <2>15, <2>16, <2>17 DEF BusInv
  <1>11. ASSUME NEW f \in {"IN", "OUT"}, XferIgnored(f)
        PROVE  BusInv'
    <2>1. RequestInv'
      BY <1>11 DEF XferIgnored, ServeXfer, RequestInv
    <2>2. RestInv'
      BY <1>11 DEF XferIgnored, ServeXfer, RestInv, AtRest, Cleared, Over, CbwPending, PassOffered, RequestInv, StallInv, PendingInv
    <2>3. StallInv'
      BY <1>11 DEF XferIgnored, ServeXfer, StallInv, Over, CbwPending, PassOffered, Sending, RequestInv, RestInv, AtRest, Cleared, PendingInv, EndpointInv
    <2>4. PendingInv'
      BY <1>11 DEF XferIgnored, ServeXfer, PendingInv, CbwPending, RestInv, AtRest, Over, PassOffered, EndpointInv, StallInv, RequestInv
    <2>5. SendInv'
      BY <1>11 DEF XferIgnored, ServeXfer, SendInv, StallInv, RestInv, AtRest, Over, PassOffered, EndpointInv, CbwPending
    <2>6. ReadInv'
      BY <1>11 DEF XferIgnored, ServeXfer, ReadInv, Offered, Wraps, StallInv, RestInv, AtRest, Over, PassOffered, EndpointInv, CbwPending
    <2>7. WriteInv'
      BY <1>11 DEF XferIgnored, ServeXfer, WriteInv, Received, Wraps, Overlay, StallInv, RestInv, AtRest, Over, PassOffered, EndpointInv, CbwPending, PendingInv
    <2>8. SameCommand'
      BY <1>11 DEF XferIgnored, ServeXfer, SameCommand, Sending, PassOffered, StallInv, RestInv, AtRest, Over, CbwPending, EndpointInv, PendingInv
    <2>9. StatusInv'
      BY <1>11 DEF XferIgnored, ServeXfer, StatusInv, StatusPhase, CbwPending, Sending, PassOffered, AllMoved, Wraps, StallInv, RestInv, AtRest, Over, EndpointInv, PendingInv
    <2>10. DiskHoldsPrefix'
      BY <1>11 DEF XferIgnored, ServeXfer, DiskHoldsPrefix, Wraps, Overlay, RestInv, StallInv
    <2>11. QED
      BY <2>1, <2>2, <2>3, <2>4, <2>5, <2>6, <2>7, <2>8, <2>9, <2>10 DEF BusInv
  <1>12. CASE BulkOnlyReset
    <2>1. RequestInv'
      BY <1>12 DEF BulkOnlyReset, ServeSetup, EptRecv, Flushed, NoXfer, RequestInv
    <2>2. RestInv'
      BY <1>12 DEF BulkOnlyReset, ServeSetup, EptRecv, Flushed, NoXfer, RestInv, AtRest, Cleared, Over, CbwPending, PassOffered, RequestInv, StallInv, PendingInv
    <2>3. StallInv'
      BY <1>12 DEF BulkOnlyReset, ServeSetup, EptRecv, Flushed, NoXfer, StallInv, Over, CbwPending, PassOffered, Sending, RequestInv, RestInv, AtRest, Cleared, PendingInv, EndpointInv
    <2>4. PendingInv'
      BY <1>12 DEF BulkOnlyReset, ServeSetup, EptRecv, Flushed, NoXfer, PendingInv, CbwPending, RestInv, AtRest, Over, PassOffered, EndpointInv, StallInv, RequestInv
    <2>5. SendInv'
      BY <1>12 DEF BulkOnlyReset, ServeSetup, EptRecv, Flushed, NoXfer, SendInv, StallInv, RestInv, AtRest, Over, PassOffered, EndpointInv, CbwPending
    <2>6. ReadInv'
      BY <1>12 DEF BulkOnlyReset, ServeSetup, EptRecv, Flushed, NoXfer, ReadInv, Offered, Wraps, StallInv, RestInv, AtRest, Over, PassOffered, EndpointInv, CbwPending
    <2>7. WriteInv'
      BY <1>12 DEF BulkOnlyReset, ServeSetup, EptRecv, Flushed, NoXfer, WriteInv, Received, Wraps, Overlay, StallInv, RestInv, AtRest, Over, PassOffered, EndpointInv, CbwPending, PendingInv
    <2>8. SameCommand'
      BY <1>12 DEF BulkOnlyReset, ServeSetup, EptRecv, Flushed, NoXfer, SameCommand, Sending, PassOffered, StallInv, RestInv, AtRest, Over, CbwPending, EndpointInv, PendingInv
    <2>9. StatusInv'
      BY <1>12 DEF BulkOnlyReset, ServeSetup, EptRecv, Flushed, NoXfer, StatusInv, StatusPhase, CbwPending, Sending, PassOffered, AllMoved, Wraps, StallInv, RestInv, AtRest, Over, EndpointInv, PendingInv
    <2>10. DiskHoldsPrefix'
      BY <1>12 DEF BulkOnlyReset, ServeSetup, EptRecv, Flushed, NoXfer, DiskHoldsPrefix, Wraps, Overlay, RestInv, StallInv
    <2>11. QED
      BY <2>1, <2>2, <2>3, <2>4, <2>5, <2>6, <2>7, <2>8, <2>9, <2>10 DEF BusInv
  <1>13. CASE ClearFeatureIn
    <2>1. /\ setup = "CLEAR_IN" /\ setup' = "none" /\ hpc \in {"clr_data", "clr_status", "rr_in"}
          /\ UNCHANGED <<hpc, hcbw, htag, hgot, hblks, disk0, disk, busReset, cbw, dCBWTag,
                         xferc, stall_out, blk_len, blk_addr, data>>
      BY <1>13 DEF ClearFeatureIn, ServeSetup, RequestInv, host
    <2>2. /\ hpc = "rr_in" => bot_status # "IDLE" /\ Over /\ ept_in.kind # "csw"
          /\ hpc # "rr_in" => stall_in
          /\ bot_status = "RECOVERY" => Over
      BY <2>1 DEF RestInv, StallInv, AtRest
    <2>3. \/ /\ bot_status = "ERROR" /\ bot_status' = "IDLE" /\ stall_in' = TRUE /\ ept_in'.kind = "none"
             /\ UNCHANGED <<msc_state, csw, ept_out, recv>>
          \/ /\ bot_status = "IDLE" /\ bot_status' = "IDLE" /\ stall_in' = FALSE /\ msc_state' = "IDLE"
             /\ ept_in'.kind = "csw" /\ ept_in'.status = "FAILED" /\ ept_out' = "cbw" /\ recv' = FALSE
          \/ /\ bot_status = "RECOVERY" /\ bot_status' = "RECOVERY" /\ stall_in' = FALSE /\ ept_in'.kind = "none"
             /\ UNCHANGED <<msc_state, csw, ept_out, recv>>
      BY <1>13, XferFields DEF ClearFeatureIn, SendCsw, EptRecv
    <2>4. RequestInv'
      BY <1>13, <2>1 DEF RequestInv, ClearFeatureIn, ServeSetup
    <2>5. RestInv'
      BY <2>1, <2>2, <2>3 DEF RestInv, AtRest, Cleared, Over, CbwPending, PassOffered
    <2>6. StallInv'
      BY <2>1, <2>2, <2>3 DEF StallInv, Over, CbwPending, PassOffered, Sending
    <2>7. PendingInv'
      BY <2>1, <2>2, <2>3 DEF PendingInv, CbwPending
    <2>8. SendInv'
      BY <2>1, <2>3 DEF SendInv
    <2>9. ReadInv'
      <3> SUFFICES ASSUME msc_state' \in {"DATA_IN", "LAST_DATA"}
                   PROVE  ReadInv'
        BY DEF ReadInv
      <3>1. msc_state' = msc_state /\ csw' = csw /\ ept_in'.kind = "none"
        BY <2>3
      <3>2. (Wraps(hcbw)' <=> Wraps(hcbw)) /\ Offered' = 0 /\ Offered \in {0, 1}
        BY <2>1, <3>1 DEF Wraps, Offered
      <3>3. Offered + Len(hblks) + blk_len <= hcbw.cnt =>
              /\ Offered' + Len(hblks) + blk_len <= hcbw.cnt
              /\ Offered' + Len(hblks) + blk_len = hcbw.cnt => Offered + Len(hblks) + blk_len = hcbw.cnt
        BY <3>2 DEF HostTypes, BotTypes, CbwType
      <3>4. QED
        BY <3>1, <3>2, <3>3, <2>1 DEF ReadInv
    <2>10. WriteInv'
      <3> SUFFICES ASSUME msc_state' = "DATA_OUT"
                   PROVE  WriteInv'
        BY DEF WriteInv
      <3>1. msc_state' = msc_state /\ csw' = csw /\ ept_in'.kind = "none" /\ ept_out' = ept_out
        BY <2>3
      <3>2. QED
        BY <3>1, <2>1 DEF WriteInv, Received, Wraps, Overlay
    <2>11. SameCommand'
      BY <2>1, <2>3 DEF SameCommand, Sending, PassOffered
    <2>12. StatusInv'
      <3> SUFFICES ASSUME ~stall_in'
                   PROVE  ~CbwPending' /\ ~Sending' /\ ~PassOffered'
        BY DEF StatusInv, Sending
      <3>1. QED
        BY <2>1, <2>2, <2>3 DEF Over, CbwPending, Sending, PassOffered
    <2>13. DiskHoldsPrefix'
      BY <2>1 DEF DiskHoldsPrefix, Wraps, Overlay
    <2>14. QED
      BY <2>4, <2>5, <2>6, <2>7, <2>8, <2>9, <2>10, <2>11, <2>12, <2>13 DEF BusInv
  <1>14. CASE ClearFeatureOut
    <2>1. RequestInv'
      BY <1>14 DEF ClearFeatureOut, ServeSetup, RequestInv
    <2>2. RestInv'
      BY <1>14 DEF ClearFeatureOut, ServeSetup, RestInv, AtRest, Cleared, Over, CbwPending, PassOffered, RequestInv, StallInv, PendingInv
    <2>3. StallInv'
      BY <1>14 DEF ClearFeatureOut, ServeSetup, StallInv, Over, CbwPending, PassOffered, Sending, RequestInv, RestInv, AtRest, Cleared, PendingInv, EndpointInv
    <2>4. PendingInv'
      BY <1>14 DEF ClearFeatureOut, ServeSetup, PendingInv, CbwPending, RestInv, AtRest, Over, PassOffered, EndpointInv, StallInv, RequestInv
    <2>5. SendInv'
      BY <1>14 DEF ClearFeatureOut, ServeSetup, SendInv, StallInv, RestInv, AtRest, Over, PassOffered, EndpointInv, CbwPending
    <2>6. ReadInv'
      BY <1>14 DEF ClearFeatureOut, ServeSetup, ReadInv, Offered, Wraps, StallInv, RestInv, AtRest, Over, PassOffered, EndpointInv, CbwPending
    <2>7. WriteInv'
      BY <1>14 DEF ClearFeatureOut, ServeSetup, WriteInv, Received, Wraps, Overlay, StallInv, RestInv, AtRest, Over, PassOffered, EndpointInv, CbwPending, PendingInv
    <2>8. SameCommand'
      BY <1>14 DEF ClearFeatureOut, ServeSetup, SameCommand, Sending, PassOffered, StallInv, RestInv, AtRest, Over, CbwPending, EndpointInv, PendingInv
    <2>9. StatusInv'
      BY <1>14 DEF ClearFeatureOut, ServeSetup, StatusInv, StatusPhase, CbwPending, Sending, PassOffered, AllMoved, Wraps, StallInv, RestInv, AtRest, Over, EndpointInv, PendingInv
    <2>10. DiskHoldsPrefix'
      BY <1>14 DEF ClearFeatureOut, ServeSetup, DiskHoldsPrefix, Wraps, Overlay, RestInv, StallInv
    <2>11. QED
      BY <2>1, <2>2, <2>3, <2>4, <2>5, <2>6, <2>7, <2>8, <2>9, <2>10 DEF BusInv
  <1>15. CASE SetConfiguration
    <2>1. RequestInv'
      BY <1>15 DEF SetConfiguration, ServeSetup, EptRecv, Flushed, NoXfer, RequestInv
    <2>2. RestInv'
      BY <1>15 DEF SetConfiguration, ServeSetup, EptRecv, Flushed, NoXfer, RestInv, AtRest, Cleared, Over, CbwPending, PassOffered, RequestInv, StallInv, PendingInv
    <2>3. StallInv'
      BY <1>15 DEF SetConfiguration, ServeSetup, EptRecv, Flushed, NoXfer, StallInv, Over, CbwPending, PassOffered, Sending, RequestInv, RestInv, AtRest, Cleared, PendingInv, EndpointInv
    <2>4. PendingInv'
      BY <1>15 DEF SetConfiguration, ServeSetup, EptRecv, Flushed, NoXfer, PendingInv, CbwPending, RestInv, AtRest, Over, PassOffered, EndpointInv, StallInv, RequestInv
    <2>5. SendInv'
      BY <1>15 DEF SetConfiguration, ServeSetup, EptRecv, Flushed, NoXfer, SendInv, StallInv, RestInv, AtRest, Over, PassOffered, EndpointInv, CbwPending
    <2>6. ReadInv'
      BY <1>15 DEF SetConfiguration, ServeSetup, EptRecv, Flushed, NoXfer, ReadInv, Offered, Wraps, StallInv, RestInv, AtRest, Over, PassOffered, EndpointInv, CbwPending
    <2>7. WriteInv'
      BY <1>15 DEF SetConfiguration, ServeSetup, EptRecv, Flushed, NoXfer, WriteInv, Received, Wraps, Overlay, StallInv, RestInv, AtRest, Over, PassOffered, EndpointInv, CbwPending, PendingInv
    <2>8. SameCommand'
      BY <1>15 DEF SetConfiguration, ServeSetup, EptRecv, Flushed, NoXfer, SameCommand, Sending, PassOffered, StallInv, RestInv, AtRest, Over, CbwPending, EndpointInv, PendingInv
    <2>9. StatusInv'
      BY <1>15 DEF SetConfiguration, ServeSetup, EptRecv, Flushed, NoXfer, StatusInv, StatusPhase, CbwPending, Sending, PassOffered, AllMoved, Wraps, StallInv, RestInv, AtRest, Over, EndpointInv, PendingInv
    <2>10. DiskHoldsPrefix'
      BY <1>15 DEF SetConfiguration, ServeSetup, EptRecv, Flushed, NoXfer, DiskHoldsPrefix, Wraps, Overlay, RestInv, StallInv
    <2>11. QED
      BY <2>1, <2>2, <2>3, <2>4, <2>5, <2>6, <2>7, <2>8, <2>9, <2>10 DEF BusInv
  <1>16. CASE UsbReset
    <2>1. /\ hpc = "reset" /\ hpc' = "reset" /\ xferc = {} /\ xferc' = {} /\ setup' = "none" /\ busReset' = FALSE
          /\ intsts' = {} /\ ept_out' = "none" /\ ept_in'.kind = "none"
          /\ stall_in' = FALSE /\ stall_out' = FALSE
          /\ UNCHANGED <<msc_state, bot_status, cbw, dCBWTag, csw, blk_addr, blk_len, data, recv, disk,
                         hcbw, htag, hgot, hblks, disk0>>
      <3>1. "USBRST" \in intsts /\ intsts = {"USBRST"}
        BY <1>16 DEF UsbReset, MayServe
      <3>2. hpc = "reset" /\ xferc = {}
        BY <3>1 DEF RequestInv, UsbTypes
      <3>3. QED
        BY <1>16, <3>2, XferFields DEF UsbReset
    <2>2. RequestInv'
      BY <2>1 DEF RequestInv
    <2>3. RestInv'
      BY <2>1 DEF RestInv, AtRest, Cleared
    <2>4. StallInv'
      BY <2>1 DEF StallInv, Sending
    <2>5. PendingInv'
      BY <2>1 DEF PendingInv, CbwPending
    <2>6. SendInv'
      BY <2>1 DEF SendInv
    <2>7. ReadInv'
      <3>1. (Wraps(hcbw)' <=> Wraps(hcbw)) /\ Offered' = 0 /\ Offered \in {0, 1}
        BY <2>1 DEF Wraps, Offered
      <3>2. Offered + Len(hblks) + blk_len <= hcbw.cnt =>
              /\ Offered' + Len(hblks) + blk_len <= hcbw.cnt
              /\ Offered' + Len(hblks) + blk_len = hcbw.cnt => Offered + Len(hblks) + blk_len = hcbw.cnt
        BY <3>1 DEF HostTypes, BotTypes, CbwType
      <3>3. QED
        BY <3>1, <3>2, <2>1 DEF ReadInv
    <2>8. WriteInv'
      BY <2>1 DEF WriteInv, Received, Wraps, Overlay
    <2>9. SameCommand'
      BY <2>1 DEF SameCommand, Sending, PassOffered
    <2>10. StatusInv'
      BY <2>1 DEF StatusInv, StatusPhase
    <2>11. DiskHoldsPrefix'
      BY <2>1 DEF DiskHoldsPrefix, Wraps, Overlay
    <2>12. QED
      BY <2>2, <2>3, <2>4, <2>5, <2>6, <2>7, <2>8, <2>9, <2>10, <2>11 DEF BusInv
  <1>17. ASSUME NEW c \in Cbws, HostIssue(c)
        PROVE  BusInv'
    <2>1. disk0 \in Disks /\ hcbw'.lba \in Nat
      BY <1>17, ConstAssumption DEF HostIssue, HostTypes, Disks, CbwType
    <2>2. RequestInv'
      BY <1>17 DEF HostIssue, RequestInv
    <2>3. RestInv'
      BY <1>17 DEF HostIssue, RestInv, AtRest, Cleared, Over, CbwPending, PassOffered, RequestInv, StallInv, PendingInv
    <2>4. StallInv'
      BY <1>17 DEF HostIssue, StallInv, Over, CbwPending, PassOffered, Sending, RequestInv, RestInv, AtRest, Cleared, PendingInv, EndpointInv
    <2>5. PendingInv'
      BY <1>17 DEF HostIssue, PendingInv, CbwPending, RestInv, AtRest, Over, PassOffered, EndpointInv, StallInv, RequestInv
    <2>6. SendInv'
      BY <1>17 DEF HostIssue, SendInv, StallInv, RestInv, AtRest, Over, PassOffered, EndpointInv, CbwPending
    <2>7. ReadInv'
      BY <1>17 DEF HostIssue, ReadInv, Offered, Wraps, StallInv, RestInv, AtRest, Over, PassOffered, EndpointInv, CbwPending
    <2>8. WriteInv'
      BY <1>17 DEF HostIssue, WriteInv, Received, Wraps, Overlay, StallInv, RestInv, AtRest, Over, PassOffered, EndpointInv, CbwPending, PendingInv
    <2>9. SameCommand'
      BY <1>17 DEF HostIssue, SameCommand, Sending, PassOffered, StallInv, RestInv, AtRest, Over, CbwPending, EndpointInv, PendingInv
    <2>10. StatusInv'
      BY <1>17 DEF HostIssue, StatusInv, StatusPhase, CbwPending, Sending, PassOffered, AllMoved, Wraps, StallInv, RestInv, AtRest, Over, EndpointInv, PendingInv
    <2>11. DiskHoldsPrefix'
      <3>1. hblks' = <<>> /\ disk' = disk0' /\ Len(hblks') = 0 /\ disk0' \in Disks
        BY <1>17, <2>1 DEF HostIssue, RestInv
      <3>2. \A b : b \notin hcbw'.lba..(hcbw'.lba + 0 - 1)
        BY <2>1
      <3>3. Overlay(disk0, hcbw.lba, 0)' = disk0'
        BY <3>1, <3>2 DEF Overlay, Disks
      <3>4. QED
        BY <3>1, <3>3 DEF DiskHoldsPrefix
    <2>12. QED
      BY <2>2, <2>3, <2>4, <2>5, <2>6, <2>7, <2>8, <2>9, <2>10, <2>11 DEF BusInv
  <1>18. CASE HostCbw
    <2>1. /\ hpc = "cbw" /\ ept_out = "cbw" /\ ~stall_out /\ cbw' = hcbw /\ dCBWTag' = htag
          /\ ept_out' = "none" /\ recv' = TRUE /\ xferc' = xferc \cup {"OUT"}
          /\ hcbw.len \in Nat /\ hpc' = IF hcbw.len = 0 THEN "status" ELSE "data"
          /\ UNCHANGED <<stall_in, stall_out, msc_state, bot_status, csw, disk, ept_in, setup, hcbw, htag, hgot,
                         hblks, disk0>>
      BY <1>18 DEF HostCbw, dev, HostTypes, CbwType
    <2>2. /\ Over /\ ept_in.kind # "csw" /\ hgot = 0 /\ hblks = <<>> /\ disk = disk0
          /\ ~(bot_status = "RECOVERY" /\ stall_in) /\ setup # "CLEAR_IN"
      BY <2>1 DEF RestInv, AtRest, Cleared, RequestInv
    <2>3. RequestInv'
      BY <1>18 DEF HostCbw, dev, RequestInv
    <2>4. RestInv'
      BY <2>1, <2>2 DEF RestInv, AtRest, Cleared
    <2>5. StallInv'
      BY <2>1, <2>2 DEF StallInv, Sending
    <2>6. PendingInv'
      BY <1>18 DEF HostCbw, dev, PendingInv, CbwPending, RestInv, AtRest, Over, PassOffered, EndpointInv, StallInv, RequestInv
    <2>7. SendInv'
      BY <1>18 DEF HostCbw, dev, SendInv, StallInv, RestInv, AtRest, Over, PassOffered, EndpointInv, CbwPending
    <2>8. ReadInv'
      BY <1>18 DEF HostCbw, dev, ReadInv, Offered, Wraps, StallInv, RestInv, AtRest, Over, PassOffered, EndpointInv, CbwPending
    <2>9. WriteInv'
      BY <1>18 DEF HostCbw, dev, WriteInv, Received, Wraps, Overlay, StallInv, RestInv, AtRest, Over, PassOffered, EndpointInv, CbwPending, PendingInv
    <2>10. SameCommand'
      BY <1>18 DEF HostCbw, dev, SameCommand, Sending, PassOffered, StallInv, RestInv, AtRest, Over, CbwPending, EndpointInv, PendingInv
    <2>11. StatusInv'
      BY <1>18 DEF HostCbw, dev, StatusInv, StatusPhase, CbwPending, Sending, PassOffered, AllMoved, Wraps, StallInv, RestInv, AtRest, Over, EndpointInv, PendingInv
    <2>12. DiskHoldsPrefix'
      BY <1>18 DEF HostCbw, dev, DiskHoldsPrefix, Wraps, Overlay, RestInv, StallInv
    <2>13. QED
      BY <2>3, <2>4, <2>5, <2>6, <2>7, <2>8, <2>9, <2>10, <2>11, <2>12 DEF BusInv
  <1>19. CASE HostDataIn
    <2>1. /\ hpc = "data" /\ hcbw.dir = "in" /\ ept_in.kind = "data" /\ ~stall_in
          /\ ept_in'.kind = "none" /\ xferc' = xferc \cup {"IN"}
          /\ hpc' = (IF ept_in.n = BlkSize /\ hgot + BlkSize < hcbw.len THEN "data" ELSE "status")
          /\ hgot' = hgot + ept_in.n /\ hblks' = Append(hblks, ept_in.blk) /\ disk0' = disk0
          /\ UNCHANGED <<msc_state, bot_status, csw, blk_addr, blk_len, disk, stall_in, stall_out, cbw, dCBWTag,
                         data, ept_out, recv, setup, busReset, intsts, hcbw, htag>>
      BY <1>19, XferFields DEF HostDataIn, HostIn, HostGoesTo, dev
    <2>2. /\ ept_in.n \in Nat /\ ept_in.blk \in Vals \cup {Response} /\ hgot \in Nat /\ hblks \in Seq(Vals \cup {Response})
          /\ Len(hblks') = Len(hblks) + 1 /\ Len(hblks) \in Nat
          /\ \A i \in 1..Len(hblks) : hblks'[i] = hblks[i]
          /\ hblks'[Len(hblks) + 1] = ept_in.blk
      BY <2>1 DEF UsbTypes, Xfers, HostTypes
    <2>3. /\ BlkSize \in Nat \ {0} /\ blk_len \in Nat /\ hcbw.len \in Nat /\ hcbw.len > 0
          /\ hcbw.cnt \in Nat /\ hcbw.lba \in Nat /\ NBlks \in Nat
      BY <2>1, ConstAssumption DEF StallInv, HostTypes, BotTypes, CbwType
    <2>4. Sending
      BY <2>1 DEF StallInv
    <2>5. RequestInv'
      BY <1>19 DEF HostDataIn, HostIn, HostGoesTo, dev, NoXfer, RequestInv
    <2>6. RestInv'
      BY <1>19 DEF HostDataIn, HostIn, HostGoesTo, dev, NoXfer, RestInv, AtRest, Cleared, Over, CbwPending, PassOffered, RequestInv, StallInv, PendingInv
    <2>7. StallInv'
      BY <1>19 DEF HostDataIn, HostIn, HostGoesTo, dev, NoXfer, StallInv, Over, CbwPending, PassOffered, Sending, RequestInv, RestInv, AtRest, Cleared, PendingInv, EndpointInv
    <2>8. PendingInv'
      BY <1>19 DEF HostDataIn, HostIn, HostGoesTo, dev, NoXfer, PendingInv, CbwPending, RestInv, AtRest, Over, PassOffered, EndpointInv, StallInv, RequestInv
    <2>9. SendInv'
      BY <1>19 DEF HostDataIn, HostIn, HostGoesTo, dev, NoXfer, SendInv, StallInv, RestInv, AtRest, Over, PassOffered, EndpointInv, CbwPending
    <2>10. ReadInv'
      <3> SUFFICES ASSUME msc_state \in {"DATA_IN", "LAST_DATA"}
                   PROVE  ReadInv'
        BY <2>1 DEF ReadInv
      <3>1. /\ ept_in.n = BlkSize /\ hgot = Len(hblks) * BlkSize
            /\ 1 + Len(hblks) + blk_len <= hcbw.cnt
        BY <2>1, <2>3 DEF ReadInv, Offered
      <3>2. hgot' = Len(hblks') * BlkSize
        BY <3>1, <2>1, <2>2, <2>3
      <3>3. Offered' = 0 /\ (Wraps(hcbw)' <=> Wraps(hcbw))
        BY <2>1 DEF Offered, Wraps
      <3>4. Offered' + Len(hblks') + blk_len = 1 + Len(hblks) + blk_len
        BY <3>3, <2>2, <2>3
      <3>5. ASSUME ~Wraps(hcbw), 1 + Len(hblks) + blk_len = hcbw.cnt
            PROVE  \A i \in 1..Len(hblks') : hblks'[i] = disk[hcbw.lba + i - 1]
        <4>1. /\ \A i \in 1..Len(hblks) : hblks[i] = disk[hcbw.lba + i - 1]
              /\ ept_in.blk = disk[hcbw.lba + Len(hblks)]
          BY <3>5, <2>1, <2>3 DEF ReadInv, Offered
        <4>2. hcbw.lba + (Len(hblks) + 1) - 1 = hcbw.lba + Len(hblks)
              /\ 1..Len(hblks') = 1..Len(hblks) \cup {Len(hblks) + 1}
          BY <2>2, <2>3
        <4>3. QED
          BY <4>1, <4>2, <2>2
      <3>6. QED
        BY <3>1, <3>2, <3>3, <3>4, <3>5, <2>1, <2>3 DEF ReadInv
    <2>11. WriteInv'
      BY <1>19 DEF HostDataIn, HostIn, HostGoesTo, dev, NoXfer, WriteInv, Received, Wraps, Overlay, StallInv, RestInv, AtRest, Over, PassOffered, EndpointInv, CbwPending, PendingInv
    <2>12. SameCommand'
      BY <1>19 DEF HostDataIn, HostIn, HostGoesTo, dev, NoXfer, SameCommand, Sending, PassOffered, StallInv, RestInv, AtRest, Over, CbwPending, EndpointInv, PendingInv
    <2>13. StatusInv'
      <3> SUFFICES ASSUME hpc' = "status"
                   PROVE  /\ msc_state # "DATA_IN" /\ csw.residue + hgot' = hcbw.len /\ AllMoved'
        BY <2>1, <2>4 DEF StatusInv, StatusPhase, CbwPending, PassOffered, Sending
      <3>1. CASE msc_state = "SEND_DATA"
        <4>1. ept_in.n + csw.residue = hcbw.len /\ hgot = 0 /\ hcbw.op \notin BlockOps
          BY <3>1, <2>1 DEF SendInv
        <4>2. csw.residue \in Nat
          BY DEF BotTypes, CswType
        <4>3. QED
          BY <3>1, <4>1, <4>2, <2>1, <2>2 DEF AllMoved
      <3>2. CASE msc_state \in {"DATA_IN", "LAST_DATA"}
        <4>1. /\ ept_in.n = BlkSize /\ hgot = Len(hblks) * BlkSize /\ hcbw.len = hcbw.cnt * BlkSize
              /\ csw.residue = blk_len * BlkSize
          BY <3>2, <2>1, <2>3 DEF ReadInv
        <4>2. 1 + Len(hblks) + blk_len <= hcbw.cnt
          BY <3>2, <2>1, <2>3 DEF ReadInv, Offered
        <4>3. hgot + BlkSize >= hcbw.len
          <5>1. ept_in.n # BlkSize \/ ~(hgot + BlkSize < hcbw.len)
            BY <2>1
          <5>2. QED
            BY <4>1, <5>1, <2>2, <2>3, SMTT(30)
        <4>4. Len(hblks) + 1 >= hcbw.cnt
          <5>1. hgot + BlkSize = (Len(hblks) + 1) * BlkSize
            BY <4>1, <2>2, <2>3
          <5>2. ASSUME Len(hblks) + 1 < hcbw.cnt
                PROVE  FALSE
            <6>1. PICK d \in Nat : d > 0 /\ hcbw.cnt = Len(hblks) + 1 + d
              <7>1. hcbw.cnt - (Len(hblks) + 1) \in Nat /\ hcbw.cnt - (Len(hblks) + 1) > 0
                BY <5>2, <2>2, <2>3
              <7>2. hcbw.cnt = Len(hblks) + 1 + (hcbw.cnt - (Len(hblks) + 1))
                BY <2>2, <2>3
              <7>3. QED
                BY <7>1, <7>2
            <6>2. hcbw.len = (Len(hblks) + 1) * BlkSize + d * BlkSize /\ d * BlkSize > 0
              BY <4>1, <6>1, <2>2, <2>3
            <6>3. QED
              BY <4>3, <5>1, <6>2, <2>2, <2>3
          <5>3. QED
            BY <5>2, <2>2, <2>3
        <4>5. Len(hblks) + 1 = hcbw.cnt /\ blk_len = 0
          BY <4>2, <4>4, <2>2, <2>3
        <4>6. msc_state # "DATA_IN"
          BY <4>5, <3>2 DEF ReadInv
        <4>7. csw.residue + hgot' = hcbw.len
          <5>1. csw.residue = 0
            BY <4>1, <4>5, <2>3
          <5>2. hgot' = Len(hblks) * BlkSize + BlkSize
            BY <4>1, <2>1
          <5>3. hcbw.len = (Len(hblks) + 1) * BlkSize
            BY <4>1, <4>5
          <5>4. (Len(hblks) + 1) * BlkSize = Len(hblks) * BlkSize + BlkSize /\ Len(hblks) * BlkSize \in Nat
            BY <2>2, <2>3
          <5>5. QED
            BY <5>1, <5>2, <5>3, <5>4, <2>3
        <4>8. AllMoved'
          <5>1. /\ (Wraps(hcbw)' <=> Wraps(hcbw)) /\ Offered' = 0 /\ Len(hblks') = hcbw.cnt
            BY <4>5, <2>1, <2>2 DEF Wraps, Offered
          <5>2. ~Wraps(hcbw) => hcbw.lba + hcbw.cnt <= NBlks
            BY <3>2 DEF ReadInv
          <5>3. ~Wraps(hcbw) => \A j \in 1..hcbw.cnt : hblks'[j] = disk'[hcbw.lba + j - 1]
            <6>1. Offered' + Len(hblks') + blk_len' = hcbw'.cnt
              BY <4>5, <5>1, <2>1, <2>3
            <6>2. QED
              BY <3>2, <5>1, <6>1, <2>10, <2>1, <2>3 DEF ReadInv
          <5>4. QED
            BY <5>1, <5>2, <5>3, <2>1 DEF AllMoved
        <4>9. QED
          BY <4>6, <4>7, <4>8
      <3>3. QED
        BY <3>1, <3>2, <2>4 DEF Sending
    <2>14. DiskHoldsPrefix'
      <3>1. hcbw.op # "write10" /\ disk = disk0
        BY <2>1, <2>4 DEF SameCommand, SendInv, ReadInv, Sending, BlockOps
      <3>2. QED
        BY <3>1, <2>1 DEF DiskHoldsPrefix, Wraps
    <2>15. QED
      BY <2>5, <2>6, <2>7, <2>8, <2>9, <2>10, <2>11, <2>12, <2>13, <2>14 DEF BusInv
  <1>20. CASE HostStatus
    <2>1. /\ hpc \in {"status", "status2"} /\ ~stall_in /\ ept_in'.kind = "none" /\ xferc' = xferc \cup {"IN"}
          /\ UNCHANGED <<msc_state, bot_status, csw, blk_addr, blk_len, disk, stall_in, stall_out, cbw, dCBWTag,
                         data, ept_out, recv, setup, busReset, intsts, hcbw, htag>>
          /\ \/ /\ ept_in.kind = "csw" /\ hpc' = "idle" /\ hgot' = 0 /\ hblks' = <<>> /\ disk0' = disk
             \/ ept_in.kind = "data" /\ UNCHANGED <<hpc, hgot, hblks, disk0>>
      BY <1>20, XferFields DEF HostStatus, InStatus, HostIn, HostGoesTo, dev
    <2>2. /\ Len(hblks) \in Nat /\ blk_len \in Nat /\ hcbw.cnt \in Nat /\ hcbw.lba \in Nat /\ disk \in Disks
      BY ConstAssumption DEF BotTypes, HostTypes, CbwType, Disks
    <2>3. RequestInv'
      BY <1>20 DEF HostStatus, InStatus, HostIn, HostGoesTo, dev, NoXfer, RequestInv
    <2>4. RestInv'
      BY <2>1 DEF RestInv, StallInv, AtRest, Cleared, Over, CbwPending, PassOffered
    <2>5. StallInv'
      BY <2>1 DEF StallInv, Over, CbwPending, PassOffered, Sending
    <2>6. PendingInv'
      BY <2>1 DEF PendingInv, CbwPending
    <2>7. SendInv'
      BY <1>20 DEF HostStatus, InStatus, HostIn, HostGoesTo, dev, NoXfer, SendInv, StallInv, RestInv, AtRest, Over, PassOffered, EndpointInv, CbwPending
    <2>8. ReadInv'
      <3> SUFFICES ASSUME msc_state \in {"DATA_IN", "LAST_DATA"}
                   PROVE  ReadInv'
        BY <2>1 DEF ReadInv
      <3>1. ept_in.kind = "data" /\ UNCHANGED <<hpc, hgot, hblks, disk0>>
        BY <2>1 DEF StallInv
      <3>2. (Wraps(hcbw)' <=> Wraps(hcbw)) /\ Offered' = 0 /\ Offered = 1
        BY <2>1, <3>1 DEF Wraps, Offered
      <3>3. Offered + Len(hblks) + blk_len <= hcbw.cnt =>
              /\ Offered' + Len(hblks) + blk_len <= hcbw.cnt
              /\ Offered' + Len(hblks) + blk_len # hcbw.cnt
        BY <3>2, <2>2
      <3>4. QED
        BY <3>1, <3>2, <3>3, <2>1 DEF ReadInv
    <2>9. WriteInv'
      BY <1>20 DEF HostStatus, InStatus, HostIn, HostGoesTo, dev, NoXfer, WriteInv, Received, Wraps, Overlay, StallInv, RestInv, AtRest, Over, PassOffered, EndpointInv, CbwPending, PendingInv
    <2>10. SameCommand'
      BY <1>20 DEF HostStatus, InStatus, HostIn, HostGoesTo, dev, NoXfer, SameCommand, Sending, PassOffered, StallInv, RestInv, AtRest, Over, CbwPending, EndpointInv, PendingInv
    <2>11. StatusInv'
      BY <2>1 DEF StatusInv, StatusPhase, CbwPending, Sending, PassOffered, AllMoved, Wraps
    <2>12. DiskHoldsPrefix'
      <3>1. CASE UNCHANGED <<hpc, hgot, hblks, disk0>>
        BY <3>1, <2>1 DEF DiskHoldsPrefix, Wraps, Overlay
      <3>2. CASE hblks' = <<>> /\ disk0' = disk
        <4>1. Len(hblks') = 0
          BY <3>2
        <4>2. \A b : b \notin hcbw.lba..(hcbw.lba + 0 - 1)
          BY <2>2
        <4>3. Overlay(disk0, hcbw.lba, 0)' = disk0'
          BY <3>2, <4>2, <2>1, <2>2 DEF Overlay, Disks
        <4>4. QED
          BY <3>2, <4>1, <4>3, <2>1 DEF DiskHoldsPrefix
      <3>3. QED
        BY <3>1, <3>2, <2>1
    <2>13. QED
      BY <2>3, <2>4, <2>5, <2>6, <2>7, <2>8, <2>9, <2>10, <2>11, <2>12 DEF BusInv
  <1>21. ASSUME NEW v \in Vals, HostDataOut(v)
        PROVE  BusInv'
    <2>1. /\ hpc = "data" /\ hcbw.dir = "out" /\ ept_out = "data" /\ ept_out' = "none" /\ ~stall_out
          /\ data' = v /\ recv' = TRUE /\ xferc' = xferc \cup {"OUT"}
          /\ hpc' \in {"data", "status"} /\ hgot' = hgot + BlkSize /\ hblks' = Append(hblks, v) /\ disk0' = disk0
          /\ UNCHANGED <<msc_state, bot_status, csw, blk_addr, blk_len, disk, stall_in, stall_out, cbw, dCBWTag,
                         ept_in, setup, busReset, intsts, hcbw, htag>>
      BY <1>21 DEF HostDataOut, HostGoesTo, dev
    <2>2. /\ hblks \in Seq(Vals \cup {Response}) /\ Len(hblks) \in Nat /\ blk_len \in Nat /\ BlkSize \in Nat
          /\ Len(hblks') = Len(hblks) + 1 /\ hblks'[Len(hblks) + 1] = v
          /\ hcbw.cnt \in Nat /\ hcbw.lba \in Nat /\ hcbw.len \in Nat /\ disk0 \in Disks
      BY <2>1, ConstAssumption DEF HostTypes, BotTypes, CbwType, Disks
    <2>3. /\ msc_state = "DATA_OUT" /\ "OUT" \notin xferc /\ blk_len > 0
          /\ Len(hblks) + blk_len = hcbw.cnt /\ hcbw.cnt - blk_len = Len(hblks)
          /\ ~Wraps(hcbw) => disk = Overlay(disk0, hcbw.lba, Len(hblks))
      <3>1. msc_state = "DATA_OUT" /\ "OUT" \notin xferc /\ hcbw.len > 0
        BY <2>1 DEF StallInv, WriteInv
      <3>2. blk_len > 0
        BY <3>1, <2>2 DEF WriteInv
      <3>3. Len(hblks) + blk_len = hcbw.cnt
        BY <3>1, <3>2, <2>2 DEF WriteInv, Received
      <3>4. hcbw.cnt - blk_len = Len(hblks)
        BY <3>3, <2>2
      <3>5. QED
        BY <3>1, <3>2, <3>3, <3>4 DEF WriteInv
    <2>4. /\ (Wraps(hcbw)' <=> Wraps(hcbw))
          /\ hcbw'.cnt - blk_len' = Len(hblks) /\ Len(hblks') - 1 = Len(hblks)
          /\ Overlay(disk0, hcbw.lba, hcbw.cnt - blk_len)' = Overlay(disk0, hcbw.lba, Len(hblks))
          /\ Overlay(disk0, hcbw.lba, Len(hblks) - 1)' = Overlay(disk0, hcbw.lba, Len(hblks))
      <3>1. ASSUME NEW b \in hcbw.lba..(hcbw.lba + Len(hblks) - 1)
            PROVE  hblks'[b - hcbw.lba + 1] = hblks[b - hcbw.lba + 1]
        <4>1. b - hcbw.lba + 1 \in 1..Len(hblks)
          BY <2>2
        <4>2. QED
          BY <4>1, <2>1, <2>2
      <3>2. hcbw'.cnt - blk_len' = Len(hblks) /\ Len(hblks') - 1 = Len(hblks)
        BY <2>1, <2>2, <2>3
      <3>3. /\ Overlay(disk0, hcbw.lba, hcbw.cnt - blk_len)' = Overlay(disk0, hcbw.lba, Len(hblks))
            /\ Overlay(disk0, hcbw.lba, Len(hblks) - 1)' = Overlay(disk0, hcbw.lba, Len(hblks))
        BY <3>1, <3>2, <2>1 DEF Overlay
      <3>4. QED
        BY <3>2, <3>3, <2>1 DEF Wraps
    <2>5. RequestInv'
      BY <1>21 DEF HostDataOut, HostGoesTo, dev, RequestInv
    <2>6. RestInv'
      BY <1>21 DEF HostDataOut, HostGoesTo, dev, RestInv, AtRest, Cleared, Over, CbwPending, PassOffered, RequestInv, StallInv, PendingInv
    <2>7. StallInv'
      BY <1>21 DEF HostDataOut, HostGoesTo, dev, StallInv, Over, CbwPending, PassOffered, Sending, RequestInv, RestInv, AtRest, Cleared, PendingInv, EndpointInv
    <2>8. PendingInv'
      BY <1>21 DEF HostDataOut, HostGoesTo, dev, PendingInv, CbwPending, RestInv, AtRest, Over, PassOffered, EndpointInv, StallInv, RequestInv
    <2>9. SendInv'
      BY <1>21 DEF HostDataOut, HostGoesTo, dev, SendInv, StallInv, RestInv, AtRest, Over, PassOffered, EndpointInv, CbwPending
    <2>10. ReadInv'
      BY <1>21 DEF HostDataOut, HostGoesTo, dev, ReadInv, Offered, Wraps, StallInv, RestInv, AtRest, Over, PassOffered, EndpointInv, CbwPending
    <2>11. WriteInv'
      <3>1. Received' = 1 /\ "OUT" \in xferc'
        BY <2>1 DEF Received
      <3>2. hgot' = Len(hblks') * BlkSize
        <4>1. hgot = Len(hblks) * BlkSize
          BY <2>3 DEF WriteInv
        <4>2. (Len(hblks) + 1) * BlkSize = Len(hblks) * BlkSize + BlkSize
          BY <2>2
        <4>3. QED
          BY <4>1, <4>2, <2>1, <2>2
      <3>3. Len(hblks') + blk_len = hcbw.cnt + Received' /\ Len(hblks') > 0
        BY <3>1, <2>2, <2>3
      <3>4. data' = hblks'[Len(hblks')]
        BY <2>1, <2>2
      <3>5. ~Wraps(hcbw)' => disk' = Overlay(disk0, hcbw.lba, hcbw.cnt - blk_len)'
        BY <2>1, <2>3, <2>4
      <3>6. QED
        BY <3>1, <3>2, <3>3, <3>4, <3>5, <2>1, <2>3 DEF WriteInv
    <2>12. SameCommand'
      BY <1>21 DEF HostDataOut, HostGoesTo, dev, SameCommand, Sending, PassOffered, StallInv, RestInv, AtRest, Over, CbwPending, EndpointInv, PendingInv
    <2>13. StatusInv'
      BY <1>21 DEF HostDataOut, HostGoesTo, dev, StatusInv, StatusPhase, CbwPending, Sending, PassOffered, AllMoved, Wraps, StallInv, RestInv, AtRest, Over, EndpointInv, PendingInv
    <2>14. DiskHoldsPrefix'
      <3>1. ~Wraps(hcbw)' => disk' = Overlay(disk0, hcbw.lba, Len(hblks) - 1)'
        BY <2>1, <2>3, <2>4
      <3>2. hcbw.op = "write10"
        BY <2>3 DEF TransferInv, WriteInv
      <3>3. QED
        BY <3>1, <3>2, <2>1 DEF DiskHoldsPrefix
    <2>15. QED
      BY <2>5, <2>6, <2>7, <2>8, <2>9, <2>10, <2>11, <2>12, <2>13, <2>14 DEF BusInv
  <1>22. CASE HostStalled
    <2>1. RequestInv'
      BY <1>22 DEF HostStalled, HostRequest, HostGoesTo, dev, RequestInv
    <2>2. RestInv'
      BY <1>22 DEF HostStalled, HostRequest, HostGoesTo, dev, RestInv, AtRest, Cleared, Over, CbwPending, PassOffered, RequestInv, StallInv, PendingInv
    <2>3. StallInv'
      BY <1>22 DEF HostStalled, HostRequest, HostGoesTo, dev, StallInv, Over, CbwPending, PassOffered, Sending, RequestInv, RestInv, AtRest, Cleared, PendingInv, EndpointInv
    <2>4. PendingInv'
      BY <1>22 DEF HostStalled, HostRequest, HostGoesTo, dev, PendingInv, CbwPending, RestInv, AtRest, Over, PassOffered, EndpointInv, StallInv, RequestInv
    <2>5. SendInv'
      BY <1>22 DEF HostStalled, HostRequest, HostGoesTo, dev, SendInv, StallInv, RestInv, AtRest, Over, PassOffered, EndpointInv, CbwPending
    <2>6. ReadInv'
      BY <1>22 DEF HostStalled, HostRequest, HostGoesTo, dev, ReadInv, Offered, Wraps, StallInv, RestInv, AtRest, Over, PassOffered, EndpointInv, CbwPending
    <2>7. WriteInv'
      BY <1>22 DEF HostStalled, HostRequest, HostGoesTo, dev, WriteInv, Received, Wraps, Overlay, StallInv, RestInv, AtRest, Over, PassOffered, EndpointInv, CbwPending, PendingInv
    <2>8. SameCommand'
      BY <1>22 DEF HostStalled, HostRequest, HostGoesTo, dev, SameCommand, Sending, PassOffered, StallInv, RestInv, AtRest, Over, CbwPending, EndpointInv, PendingInv
    <2>9. StatusInv'
      BY <1>22 DEF HostStalled, HostRequest, HostGoesTo, dev, StatusInv, StatusPhase, CbwPending, Sending, PassOffered, AllMoved, Wraps, StallInv, RestInv, AtRest, Over, EndpointInv, PendingInv
    <2>10. DiskHoldsPrefix'
      BY <1>22 DEF HostStalled, HostRequest, HostGoesTo, dev, DiskHoldsPrefix, Wraps, Overlay, RestInv, StallInv
    <2>11. QED
      BY <2>1, <2>2, <2>3, <2>4, <2>5, <2>6, <2>7, <2>8, <2>9, <2>10 DEF BusInv
  <1>23. CASE HostGiveUp
    <2>1. RequestInv'
      BY <1>23 DEF HostGiveUp, HostRequest, HostGoesTo, dev, InCommand, InStatus, RequestInv
    <2>2. RestInv'
      BY <1>23 DEF HostGiveUp, HostRequest, HostGoesTo, dev, InCommand, InStatus, RestInv, AtRest, Cleared, Over, CbwPending, PassOffered, RequestInv, StallInv, PendingInv
    <2>3. StallInv'
      BY <1>23 DEF HostGiveUp, HostRequest, HostGoesTo, dev, InCommand, InStatus, StallInv, Over, CbwPending, PassOffered, Sending, RequestInv, RestInv, AtRest, Cleared, PendingInv, EndpointInv
    <2>4. PendingInv'
      BY <1>23 DEF HostGiveUp, HostRequest, HostGoesTo, dev, InCommand, InStatus, PendingInv, CbwPending, RestInv, AtRest, Over, PassOffered, EndpointInv, StallInv, RequestInv
    <2>5. SendInv'
      BY <1>23 DEF HostGiveUp, HostRequest, HostGoesTo, dev, InCommand, InStatus, SendInv, StallInv, RestInv, AtRest, Over, PassOffered, EndpointInv, CbwPending
    <2>6. ReadInv'
      BY <1>23 DEF HostGiveUp, HostRequest, HostGoesTo, dev, InCommand, InStatus, ReadInv, Offered, Wraps, StallInv, RestInv, AtRest, Over, PassOffered, EndpointInv, CbwPending
    <2>7. WriteInv'
      BY <1>23 DEF HostGiveUp, HostRequest, HostGoesTo, dev, InCommand, InStatus, WriteInv, Received, Wraps, Overlay, StallInv, RestInv, AtRest, Over, PassOffered, EndpointInv, CbwPending, PendingInv
    <2>8. SameCommand'
      BY <1>23 DEF HostGiveUp, HostRequest, HostGoesTo, dev, InCommand, InStatus, SameCommand, Sending, PassOffered, StallInv, RestInv, AtRest, Over, CbwPending, EndpointInv, PendingInv
    <2>9. StatusInv'
      BY <1>23 DEF HostGiveUp, HostRequest, HostGoesTo, dev, InCommand, InStatus, StatusInv, StatusPhase, CbwPending, Sending, PassOffered, AllMoved, Wraps, StallInv, RestInv, AtRest, Over, EndpointInv, PendingInv
    <2>10. DiskHoldsPrefix'
      BY <1>23 DEF HostGiveUp, HostRequest, HostGoesTo, dev, InCommand, InStatus, DiskHoldsPrefix, Wraps, Overlay, RestInv, StallInv
    <2>11. QED
      BY <2>1, <2>2, <2>3, <2>4, <2>5, <2>6, <2>7, <2>8, <2>9, <2>10 DEF BusInv
  <1>24. CASE HostGoesOn
    <2>1. \E next \in {"status", "status2", "rr_in", "rr_out", "config", "idle"} : HostGoesTo(next, hgot, hblks)
      BY <1>24 DEF HostGoesOn, HostRequest
    <2>2. UNCHANGED <<disk, hcbw>> /\ hcbw.lba \in Nat /\ disk \in Disks
      BY <1>24, ConstAssumption DEF HostGoesOn, HostRequest, dev, HostTypes, CbwType, Disks
    <2>3. RequestInv'
      BY <1>24 DEF HostGoesOn, HostRequest, HostGoesTo, dev, RequestInv
    <2>4. RestInv'
      BY <1>24 DEF HostGoesOn, HostRequest, HostGoesTo, dev, RestInv, AtRest, Cleared, Over, CbwPending, PassOffered, RequestInv, StallInv, PendingInv
    <2>5. StallInv'
      BY <1>24 DEF HostGoesOn, HostRequest, HostGoesTo, dev, StallInv, Over, CbwPending, PassOffered, Sending, RequestInv, RestInv, AtRest, Cleared, PendingInv, EndpointInv
    <2>6. PendingInv'
      BY <1>24 DEF HostGoesOn, HostRequest, HostGoesTo, dev, PendingInv, CbwPending, RestInv, AtRest, Over, PassOffered, EndpointInv, StallInv, RequestInv
    <2>7. SendInv'
      BY <1>24 DEF HostGoesOn, HostRequest, HostGoesTo, dev, SendInv, StallInv, RestInv, AtRest, Over, PassOffered, EndpointInv, CbwPending
    <2>8. ReadInv'
      BY <1>24 DEF HostGoesOn, HostRequest, HostGoesTo, dev, ReadInv, Offered, Wraps, StallInv, RestInv, AtRest, Over, PassOffered, EndpointInv, CbwPending
    <2>9. WriteInv'
      BY <1>24 DEF HostGoesOn, HostRequest, HostGoesTo, dev, WriteInv, Received, Wraps, Overlay, StallInv, RestInv, AtRest, Over, PassOffered, EndpointInv, CbwPending, PendingInv
    <2>10. SameCommand'
      BY <1>24 DEF HostGoesOn, HostRequest, HostGoesTo, dev, SameCommand, Sending, PassOffered, StallInv, RestInv, AtRest, Over, CbwPending, EndpointInv, PendingInv
    <2>11. StatusInv'
      BY <1>24 DEF HostGoesOn, HostRequest, HostGoesTo, dev, StatusInv, StatusPhase, CbwPending, Sending, PassOffered, AllMoved, Wraps, StallInv, RestInv, AtRest, Over, EndpointInv, PendingInv
    <2>12. DiskHoldsPrefix'
      <3>1. CASE UNCHANGED <<hgot, hblks, disk0>>
        BY <3>1, <2>2 DEF DiskHoldsPrefix, Wraps, Overlay
      <3>2. CASE hblks' = <<>> /\ disk0' = disk
        <4>1. Len(hblks') = 0
          BY <3>2
        <4>2. \A b : b \notin hcbw.lba..(hcbw.lba + 0 - 1)
          BY <2>2
        <4>3. Overlay(disk0, hcbw.lba, 0)' = disk0'
          BY <3>2, <4>2, <2>2 DEF Overlay, Disks
        <4>4. QED
          BY <3>2, <4>1, <4>3, <2>2 DEF DiskHoldsPrefix
      <3>3. QED
        BY <3>1, <3>2, <2>1 DEF HostGoesTo
    <2>13. QED
      BY <2>3, <2>4, <2>5, <2>6, <2>7, <2>8, <2>9, <2>10, <2>11, <2>12 DEF BusInv
  <1>25. CASE HostPortReset
    <2>1. RequestInv'
      BY <1>25 DEF HostPortReset, RequestInv, UsbTypes, InCommand, InStatus
    <2>2. RestInv'
      BY <1>25 DEF HostPortReset, RestInv, AtRest, Cleared, Over, CbwPending, PassOffered, RequestInv, StallInv, PendingInv
    <2>3. StallInv'
      BY <1>25 DEF HostPortReset, StallInv, Over, CbwPending, PassOffered, Sending, RequestInv, RestInv, AtRest, Cleared, PendingInv, EndpointInv
    <2>4. PendingInv'
      BY <1>25 DEF HostPortReset, PendingInv, CbwPending, RestInv, AtRest, Over, PassOffered, EndpointInv, StallInv, RequestInv
    <2>5. SendInv'
      BY <1>25 DEF HostPortReset, SendInv, StallInv, RestInv, AtRest, Over, PassOffered, EndpointInv, CbwPending
    <2>6. ReadInv'
      BY <1>25 DEF HostPortReset, ReadInv, Offered, Wraps, StallInv, RestInv, AtRest, Over, PassOffered, EndpointInv, CbwPending
    <2>7. WriteInv'
      BY <1>25 DEF HostPortReset, WriteInv, Received, Wraps, Overlay, StallInv, RestInv, AtRest, Over, PassOffered, EndpointInv, CbwPending, PendingInv
    <2>8. SameCommand'
      BY <1>25 DEF HostPortReset, SameCommand, Sending, PassOffered, StallInv, RestInv, AtRest, Over, CbwPending, EndpointInv, PendingInv
    <2>9. StatusInv'
      BY <1>25 DEF HostPortReset, StatusInv, StatusPhase, CbwPending, Sending, PassOffered, AllMoved, Wraps, StallInv, RestInv, AtRest, Over, EndpointInv, PendingInv
    <2>10. DiskHoldsPrefix'
      BY <1>25 DEF HostPortReset, DiskHoldsPrefix, Wraps, Overlay, RestInv, StallInv
    <2>11. QED
      BY <2>1, <2>2, <2>3, <2>4, <2>5, <2>6, <2>7, <2>8, <2>9, <2>10 DEF BusInv
  <1>26. CASE UNCHANGED vars
    <2>1. RequestInv'
      BY <1>26 DEF vars, RequestInv
    <2>2. RestInv'
      BY <1>26 DEF vars, RestInv, AtRest, Cleared, Over, CbwPending, PassOffered, RequestInv, StallInv, PendingInv
    <2>3. StallInv'
      BY <1>26 DEF vars, StallInv, Over, CbwPending, PassOffered, Sending, RequestInv, RestInv, AtRest, Cleared, PendingInv, EndpointInv
    <2>4. PendingInv'
      BY <1>26 DEF vars, PendingInv, CbwPending, RestInv, AtRest, Over, PassOffered, EndpointInv, StallInv, RequestInv
    <2>5. SendInv'
      BY <1>26 DEF vars, SendInv, StallInv, RestInv, AtRest, Over, PassOffered, EndpointInv, CbwPending
    <2>6. ReadInv'
      BY <1>26 DEF vars, ReadInv, Offered, Wraps, StallInv, RestInv, AtRest, Over, PassOffered, EndpointInv, CbwPending
    <2>7. WriteInv'
      BY <1>26 DEF vars, WriteInv, Received, Wraps, Overlay, StallInv, RestInv, AtRest, Over, PassOffered, EndpointInv, CbwPending, PendingInv
    <2>8. SameCommand'
      BY <1>26 DEF vars, SameCommand, Sending, PassOffered, StallInv, RestInv, AtRest, Over, CbwPending, EndpointInv, PendingInv
    <2>9. StatusInv'
      BY <1>26 DEF vars, StatusInv, StatusPhase, CbwPending, Sending, PassOffered, AllMoved, Wraps, StallInv, RestInv, AtRest, Over, EndpointInv, PendingInv
    <2>10. DiskHoldsPrefix'
      BY <1>26 DEF vars, DiskHoldsPrefix, Wraps, Overlay, RestInv, StallInv
    <2>11. QED
      BY <2>1, <2>2, <2>3, <2>4, <2>5, <2>6, <2>7, <2>8, <2>9, <2>10 DEF BusInv
  <1>27. QED
    BY <1>1, <1>2, <1>3, <1>4, <1>5, <1>6, <1>7, <1>8, <1>9, <1>10, <1>11, <1>12, <1>13, <1>14, <1>15, <1>16, <1>17, <1>18, <1>19, <1>20, <1>21, <1>22, <1>23, <1>24, <1>25, <1>26
       DEF Next, Isr, HostStep

\* It holds at power-up.
LEMMA InitBus == Init => BusInv
  <1> SUFFICES ASSUME Init PROVE BusInv
    OBVIOUS
  <1>1. RequestInv /\ RestInv /\ StallInv /\ PendingInv /\ SendInv /\ ReadInv /\ WriteInv /\ SameCommand
    BY DEF Init, NoXfer, RequestInv, RestInv, AtRest, Cleared, StallInv, CbwPending, PendingInv,
           Sending, PassOffered, SendInv, ReadInv, WriteInv, SameCommand
  <1>2. StatusInv /\ DiskHoldsPrefix
    BY DEF Init, StatusInv, StatusPhase, DiskHoldsPrefix, ZeroCbw
  <1>3. QED
    BY <1>1, <1>2 DEF BusInv

\* At every moment, aborts and bus resets included, the disk holds a prefix
\* of the blocks the host has sent, on every disk and for every set of
\* commands: msc_disk_write never skips, repeats or displaces a block.
THEOREM DiskPrefix == Spec => []DiskHoldsPrefix
  <1>1. BusInv => DiskHoldsPrefix
    BY DEF BusInv
  <1>2. QED
    BY InitInv, StepInv, InitBus, StepBus, <1>1, PTL DEF Spec

\* A status PASS that the host takes means that every block of its READ(10)
\* or WRITE(10) has moved and the residue is exact, whenever the host gave up
\* an earlier command.
THEOREM PassIsDone == Spec => []PassMeansDone
  <1>1. BusInv => PassMeansDone
    BY DEF BusInv, SameCommand, StatusInv, PassMeansDone, CswOffered, InStatus, StatusPhase,
           PassOffered, AllMoved
  <1>2. QED
    BY InitInv, StepInv, InitBus, StepBus, <1>1, PTL DEF Spec

-----------------------------------------------------------------------------
(* A patient host: one that sends well-formed commands and whose timeout   *)
(* is long against the interrupt latency.  PatientInv says that the two    *)
(* sides walk through the phases of a command together.                    *)

\* The bus has been reset and the device is not configured again.
Deaf == (hpc = "reset" /\ ~busReset) \/ (hpc = "config" /\ setup # "none")

\* The bus is in reset, or the device waits for its configuration.
Resetting == hpc = "reset" \/ (hpc = "config" /\ setup # "none")

\* bot_scsi_cmd_process or the check of the CBW turns the command down.
Refused == Reject(hcbw) # "none"
Rejected == ~hcbw.valid \/ Refused

\* An unserved OUT transfer found the device with nothing else to do, and an
\* offered packet has no unserved predecessor.
FlagInv ==
  /\ "IN" \in intsts => "IN" \in xferc
  /\ "OUT" \in intsts /\ "IN" \in xferc => "IN" \in intsts
  /\ "OUT" \in xferc => recv /\ ept_in.kind = "none" /\ ~Sending /\ msc_state # "CMD"
                        /\ hpc \notin {"idle", "cbw", "rr_reset", "rr_in", "rr_out", "config"}
  /\ ept_in.kind = "data" => "IN" \notin xferc
  /\ Deaf => xferc = {} /\ ~stall_in /\ ~stall_out /\ ept_in.kind = "none"

\* Why an endpoint is halted: the IN endpoint because the command was turned
\* down and nothing of it has moved since, the OUT endpoint only against a
\* host that still has data to send.
HaltInv ==
  /\ stall_in =>
       /\ msc_state = "IDLE" /\ "OUT" \notin xferc /\ ept_in.kind \in {"none", "lost"}
       /\ csw.tag = htag /\ csw.residue + hgot = hcbw.len /\ Rejected
       /\ ~Cleared
  /\ stall_out => \/ hpc = "data" /\ hcbw.dir = "out"
                  \/ hpc \in {"rr_reset", "rr_in", "reset"}
                  \/ setup = "CLEAR_OUT"
  /\ stall_in /\ bot_status = "RECOVERY" => Refused \/ hpc \in {"rr_reset", "rr_in", "reset"}
  /\ bot_status = "ERROR" => stall_in \/ Resetting
  /\ hpc = "rr_reset" /\ setup = "none" => bot_status = "RECOVERY"
  /\ hpc = "rr_in" => bot_status = "RECOVERY"

\* The device always offers or awaits something: a CBW buffer for a host
\* between commands, data or status for one inside a command.
ArmedInv ==
  /\ AtRest => ept_out = "cbw"
  /\ Cleared => ept_in.kind = "none"
  /\ ept_in.kind = "lost" => hpc \in {"rr_reset", "rr_in"}
  /\ ept_in.kind = "csw" => ept_out = "cbw" \/ Resetting
  /\ msc_state = "DATA_OUT" => ept_out = "data" \/ "OUT" \in xferc \/ Resetting
  /\ Sending => ept_in.kind = "data" \/ "IN" \in xferc \/ Resetting

\* The bytes on offer.
Bytes == IF ept_in.kind = "data" THEN ept_in.n ELSE 0

\* What the host has, what is on offer and the residue make up the request.
ExactInv ==
  /\ Sending /\ ~Deaf => csw.residue + hgot + Bytes = hcbw.len
  /\ ept_in.kind = "csw" =>
       /\ ept_in.tag = htag /\ ept_in.residue + hgot = hcbw.len
       /\ ept_in.status = "FAILED" => Rejected

\* The host is in the data phase exactly as long as the device is.
DataPhaseInv ==
  /\ hcbw \in Cbws \/ hcbw = ZeroCbw
  /\ hpc = "data" => hgot < hcbw.len /\ ept_in.kind # "csw"
  /\ StatusPhase /\ msc_state = "DATA_OUT" => hgot >= hcbw.len
  /\ msc_state = "SEND_DATA" /\ ept_in.kind # "data" => hpc # "data"
  /\ Sending /\ hcbw.len > 0 => hcbw.dir = "in"

\* A device that is idle inside a command has halted an endpoint, or turned
\* the command down after a Bulk-Only Reset.
WaitInv ==
  /\ msc_state = "CMD" => Resetting
  /\ hpc \in {"data", "clr_data", "status", "clr_status", "status2"}
     /\ msc_state = "IDLE" /\ ~CbwPending /\ ept_in.kind # "csw" =>
       stall_in \/ (bot_status = "RECOVERY" /\ Refused)
  /\ hpc = "data" /\ hcbw.dir = "out" /\ msc_state = "IDLE" /\ ~CbwPending =>
       stall_out \/ (bot_status = "RECOVERY" /\ Refused)

\* What holds against a host that gives up only on a quiet device.
PatientInv ==
  FlagInv /\ HaltInv /\ ArmedInv /\ ExactInv /\ DataPhaseInv /\ WaitInv

\* Whether a command is rejected depends on the command and on the capacity.
LEMMA RejectKept ==
  ASSUME UNCHANGED <<hcbw, blk_nbr>>
  PROVE  (Refused' <=> Refused) /\ (Rejected' <=> Rejected)
  BY DEF Refused, Rejected, Reject, StoresRange, AddressBad, BadCommand, Scaled

\* The interrupt of a CBW, of a host that gives up only on a quiet device:
\* the command is the one the host waits for, and nothing is stalled.
LEMMA CbwTaken ==
  ASSUME EndpointInv, PendingInv, RestInv, StallInv, StatusInv, FlagInv, HaltInv,
         UsbTypes, HostTypes, ServeCbw
  PROVE  /\ CbwPending /\ recv /\ ept_in.kind = "none" /\ ~stall_in /\ ~stall_out
         /\ UNCHANGED <<hpc, hcbw, htag, hgot, hblks, disk0, disk, setup, busReset, cbw>>
         /\ cbw = hcbw /\ dCBWTag = htag /\ hgot = 0
         /\ xferc' = {} /\ "IN" \notin intsts' /\ "OUT" \notin intsts'
         /\ hpc \in {"data", "reset"} \/ (StatusPhase /\ hcbw.len = 0)
         /\ ~Deaf /\ ~AtRest /\ ~Cleared
  <1>1. "OUT" \in xferc /\ "OUT" \in intsts /\ "IN" \notin intsts /\ "IN" \notin xferc
    BY DEF EndpointInv, ServeCbw, ServeXfer, MayServe, FlagInv
  <1>2. recv /\ ept_in.kind = "none" /\ CbwPending
    BY <1>1 DEF FlagInv, ServeCbw, CbwPending
  <1>3. ~Over /\ ~stall_in
    BY <1>1, <1>2 DEF Over, HaltInv
  <1>4. ~AtRest /\ ~Cleared /\ ~stall_out /\ hpc # "clr_data"
    BY <1>3, NotOver
  <1>5. ~Deaf
    BY <1>1 DEF FlagInv
  <1>6. hpc \in {"data", "reset"} \/ (StatusPhase /\ hcbw.len = 0)
    <2>1. hpc \in {"data", "reset"} \/ StatusPhase
      BY <1>1, <1>4 DEF FlagInv, StatusPhase, HostTypes
    <2>2. QED
      BY <1>2, <1>3, <2>1 DEF StatusInv, StatusPhase, CbwPending
  <1>7. QED
    BY <1>1, <1>2, <1>3, <1>4, <1>5, <1>6 DEF PendingInv, ServeCbw, ServeXfer, UsbTypes, host

\* A chunk of READ(10) takes off the residue what it offers.
LEMMA ReadChunkOffer ==
  ASSUME TypeOK, NEW a \in Nat, NEW n \in Nat, NEW c \in CswType,
         c.residue = n * BlkSize, ReadChunk(a, n, c)
  PROVE  /\ ept_in'.kind = "data" /\ csw'.tag = c.tag
         /\ ept_in'.n \in Nat /\ csw'.residue \in Nat
         /\ csw'.residue + ept_in'.n = c.residue
         /\ msc_state' \in {"DATA_IN", "LAST_DATA"}
  <1>1. BlkSize \in Nat
    BY ConstAssumption
  <1>2. CASE n = 0
    <2>1. ept_in'.n = 0 /\ csw'.residue = 0 /\ c.residue = 0
      BY <1>1, <1>2, ReadChunkEffect
    <2>2. QED
      BY <2>1, ReadChunkEffect
  <1>3. CASE n > 0
    <2>1. ept_in'.n = BlkSize /\ csw'.residue = (n - 1) * BlkSize
      BY <1>3, ReadChunkEffect
    <2>2. (n - 1) * BlkSize \in Nat /\ (n - 1) * BlkSize + BlkSize = n * BlkSize
      BY <1>1, <1>3
    <2>3. QED
      BY <1>1, <2>1, <2>2, ReadChunkEffect
  <1>4. QED
    BY <1>2, <1>3

\* Every step keeps it: the commands are well-formed, and no interrupt is
\* pending when the host gives up.
LEMMA StepPatient ==
  ASSUME WellFormed, ~AbortEarly
  PROVE  IInv /\ BusInv /\ PatientInv /\ [Next]_vars => PatientInv'
  <1> SUFFICES ASSUME TypeOK, CommandInv, BusInv, PatientInv, [Next]_vars
               PROVE  PatientInv'
    BY DEF IInv
  <1>0. /\ BotTypes /\ UsbTypes /\ HostTypes /\ EndpointInv /\ TransferInv
        /\ RequestInv /\ RestInv /\ StallInv /\ PendingInv /\ SendInv /\ ReadInv
        /\ WriteInv /\ SameCommand /\ StatusInv
        /\ FlagInv /\ HaltInv /\ ArmedInv /\ ExactInv /\ DataPhaseInv /\ WaitInv
    BY DEF TypeOK, CommandInv, BusInv, PatientInv
  <1> USE <1>0 DEF bot, ept, irq, host
  <1>1. CASE IrqEnter
    <2>1. (Refused' <=> Refused) /\ (Rejected' <=> Rejected)
      BY <1>1, RejectKept DEF IrqEnter
    <2>2. FlagInv'
      BY <1>1 DEF IrqEnter, Flags, FlagInv, Deaf, Sending, UsbTypes
    <2>3. HaltInv'
      BY <1>1, <2>1 DEF IrqEnter, HaltInv, Cleared, Resetting, FlagInv, ArmedInv, ExactInv, DataPhaseInv, WaitInv, Deaf, Sending, AtRest, StallInv, RestInv, Over, EndpointInv, CbwPending, PassOffered, RequestInv
    <2>4. ArmedInv'
      BY <1>1 DEF IrqEnter, ArmedInv, AtRest, Cleared, Resetting, Sending, FlagInv, HaltInv, ExactInv, DataPhaseInv, WaitInv, Deaf, StallInv, RestInv, Over, EndpointInv, CbwPending, PassOffered, RequestInv
    <2>5. ExactInv'
      BY <1>1, <2>1 DEF IrqEnter, ExactInv, Sending, Deaf, Bytes, FlagInv, HaltInv, ArmedInv, DataPhaseInv, WaitInv, Resetting, Cleared, AtRest, StallInv, RestInv, Over, EndpointInv, CbwPending, PassOffered, RequestInv
    <2>6. DataPhaseInv'
      BY <1>1 DEF IrqEnter, DataPhaseInv, Sending, StatusPhase, FlagInv, HaltInv, ArmedInv, ExactInv, WaitInv, Deaf, Resetting, Cleared, AtRest, StallInv, RestInv, Over, EndpointInv, CbwPending, PassOffered, RequestInv
    <2>7. WaitInv'
      BY <1>1, <2>1 DEF IrqEnter, WaitInv, CbwPending, Resetting, FlagInv, HaltInv, ArmedInv, ExactInv, DataPhaseInv, Deaf, Sending, Cleared, AtRest, StallInv, RestInv, Over, EndpointInv, PassOffered, RequestInv
    <2>8. QED
      BY <2>2, <2>3, <2>4, <2>5, <2>6, <2>7 DEF PatientInv
  <1>2. CASE CbwInvalid
    <2>1. (Refused' <=> Refused) /\ (Rejected' <=> Rejected)
      BY <1>2, RejectKept DEF CbwInvalid, ServeCbw, ServeXfer, Stall, EptRecv
    <2>2. /\ CbwPending /\ recv /\ ept_in.kind = "none" /\ ~stall_in /\ ~stall_out
          /\ UNCHANGED <<hpc, hcbw, htag, hgot, hblks, disk0, disk, setup, busReset, cbw>>
          /\ cbw = hcbw /\ dCBWTag = htag /\ hgot = 0
          /\ xferc' = {} /\ "IN" \notin intsts' /\ "OUT" \notin intsts'
          /\ hpc \in {"data", "reset"} \/ (StatusPhase /\ hcbw.len = 0)
          /\ ~Deaf /\ ~AtRest /\ ~Cleared
      BY <1>2, CbwTaken DEF CbwInvalid
    <2>3. (Deaf' <=> Deaf) /\ (AtRest' <=> AtRest) /\ (Cleared' <=> Cleared) /\ (Resetting' <=> Resetting)
      BY <2>2 DEF Deaf, AtRest, Cleared, Resetting
    <2>4. /\ csw'.tag = htag /\ csw'.residue = hcbw.len /\ stall_in' /\ ~hcbw.valid
          /\ ept_in' = ept_in /\ msc_state' = "IDLE"
          /\ bot_status' \in {"ERROR", bot_status} /\ (~hcbw.valid => bot_status' # "RECOVERY")
          /\ stall_out' => hcbw.len # 0 /\ hcbw.dir = "out"
          /\ hcbw.len # 0 /\ hcbw.dir = "out" /\ hcbw.valid => stall_out' \/ bot_status' # "IDLE"
      BY <1>2, <2>2 DEF CbwInvalid, CbwAccepted, ServeCbw, Stall, DecodedCsw, Refused, UsbTypes, CbwPending
    <2>5. hpc = "data" => hcbw.dir = "in"
      <3>1. hpc = "data" => hcbw \in Cbws
        BY DEF StallInv, DataPhaseInv, ZeroCbw
      <3>2. QED
        BY <3>1, <2>4, ConstAssumption
    <2>6. FlagInv'
      BY <2>2, <2>3, <2>4 DEF FlagInv, Sending
    <2>7. HaltInv'
      BY <2>2, <2>3, <2>4, <2>1 DEF HaltInv, Rejected, StatusPhase, HostTypes, CbwType
    <2>8. ArmedInv'
      BY <1>2 DEF CbwInvalid, ServeCbw, ServeXfer, Stall, EptRecv, ArmedInv, AtRest, Cleared, Resetting, Sending, FlagInv, HaltInv, ExactInv, DataPhaseInv, WaitInv, Deaf, StallInv, RestInv, Over, EndpointInv, CbwPending, PassOffered, RequestInv
    <2>9. ExactInv'
      BY <2>2, <2>3, <2>4, <2>1 DEF ExactInv, Sending
    <2>10. DataPhaseInv'
      BY <2>2, <2>4 DEF StatusPhase, DataPhaseInv, Sending
    <2>11. WaitInv'
      BY <2>2, <2>3, <2>4, <2>5 DEF WaitInv
    <2>12. QED
      BY <2>6, <2>7, <2>8, <2>9, <2>10, <2>11 DEF PatientInv
  <1>3. CASE CmdRejected
    <2>1. (Refused' <=> Refused) /\ (Rejected' <=> Rejected)
      BY <1>3, RejectKept DEF CmdRejected, CbwAccepted, MayServe, ServeCbw, ServeXfer, Stall, EptRecv
    <2>2. /\ CbwPending /\ recv /\ ept_in.kind = "none" /\ ~stall_in /\ ~stall_out
          /\ UNCHANGED <<hpc, hcbw, htag, hgot, hblks, disk0, disk, setup, busReset, cbw>>
          /\ cbw = hcbw /\ dCBWTag = htag /\ hgot = 0
          /\ xferc' = {} /\ "IN" \notin intsts' /\ "OUT" \notin intsts'
          /\ hpc \in {"data", "reset"} \/ (StatusPhase /\ hcbw.len = 0)
          /\ ~Deaf /\ ~AtRest /\ ~Cleared
      BY <1>3, CbwTaken DEF CmdRejected
    <2>3. (Deaf' <=> Deaf) /\ (AtRest' <=> AtRest) /\ (Cleared' <=> Cleared) /\ (Resetting' <=> Resetting)
      BY <2>2 DEF Deaf, AtRest, Cleared, Resetting
    <2>4. /\ csw'.tag = htag /\ csw'.residue = hcbw.len /\ stall_in' /\ Refused
          /\ ept_in' = ept_in /\ msc_state' = "IDLE"
          /\ bot_status' \in {"ERROR", bot_status} /\ (~hcbw.valid => bot_status' # "RECOVERY")
          /\ stall_out' => hcbw.len # 0 /\ hcbw.dir = "out"
          /\ hcbw.len # 0 /\ hcbw.dir = "out" /\ hcbw.valid => stall_out' \/ bot_status' # "IDLE"
      BY <1>3, <2>2 DEF CmdRejected, CbwAccepted, ServeCbw, Stall, DecodedCsw, Refused, UsbTypes, CbwPending
    <2>5. hpc = "data" => hcbw.valid /\ hcbw.len # 0 /\ bot_status # "ERROR" /\ bot_status' # "ERROR"
      BY <1>3, <2>2 DEF CmdRejected, CbwAccepted, StallInv, HaltInv, Resetting
    <2>6. FlagInv'
      BY <2>2, <2>3, <2>4 DEF FlagInv, Sending
    <2>7. HaltInv'
      BY <2>2, <2>3, <2>4, <2>1 DEF HaltInv, Rejected, StatusPhase, HostTypes, CbwType
    <2>8. ArmedInv'
      BY <1>3 DEF CmdRejected, CbwAccepted, MayServe, ServeCbw, ServeXfer, Stall, EptRecv, ArmedInv, AtRest, Cleared, Resetting, Sending, FlagInv, HaltInv, ExactInv, DataPhaseInv, WaitInv, Deaf, StallInv, RestInv, Over, EndpointInv, CbwPending, PassOffered, RequestInv
    <2>9. ExactInv'
      BY <2>2, <2>3, <2>4, <2>1 DEF ExactInv, Sending
    <2>10. DataPhaseInv'
      BY <2>2, <2>4 DEF StatusPhase, DataPhaseInv, Sending
    <2>11. WaitInv'
      BY <2>2, <2>3, <2>4, <2>1, <2>5 DEF WaitInv, BotTypes
    <2>12. QED
      BY <2>6, <2>7, <2>8, <2>9, <2>10, <2>11 DEF PatientInv
  <1>4. CASE CmdNoData
    <2>1. (Refused' <=> Refused) /\ (Rejected' <=> Rejected)
      BY <1>4, RejectKept DEF CmdNoData, CbwAccepted, MayServe, ServeCbw, ServeXfer, SendCsw, EptRecv
    <2>2. /\ CbwPending /\ recv /\ ept_in.kind = "none" /\ ~stall_in /\ ~stall_out
          /\ UNCHANGED <<hpc, hcbw, htag, hgot, hblks, disk0, disk, setup, busReset, cbw>>
          /\ cbw = hcbw /\ dCBWTag = htag /\ hgot = 0
          /\ xferc' = {} /\ "IN" \notin intsts' /\ "OUT" \notin intsts'
          /\ hpc \in {"data", "reset"} \/ (StatusPhase /\ hcbw.len = 0)
          /\ ~Deaf /\ ~AtRest /\ ~Cleared
      BY <1>4, CbwTaken DEF CmdNoData
    <2>3. (Deaf' <=> Deaf) /\ (AtRest' <=> AtRest) /\ (Cleared' <=> Cleared) /\ (Resetting' <=> Resetting)
      BY <2>2 DEF Deaf, AtRest, Cleared, Resetting
    <2>4. /\ ept_in'.kind = "csw" /\ ept_in'.status = "PASS"
          /\ ept_in'.tag = htag /\ ept_in'.residue = hcbw.len
          /\ msc_state' = "IDLE" /\ ept_out' = "cbw"
          /\ UNCHANGED <<bot_status, stall_in, stall_out>>
      BY <1>4, <2>2, XferFields DEF CmdNoData, SendCsw, EptRecv, DecodedCsw
    <2>5. hcbw.len = 0
      <3>1. hcbw.valid /\ hcbw.op \notin BlockOps /\ Reject(hcbw) = "none" /\ DataLen(hcbw) = 0
        BY <1>4, <2>2 DEF CmdNoData, CbwAccepted
      <3>2. hcbw \in Cbws /\ hcbw \in CbwType
        BY <3>1 DEF StatusPhase, DataPhaseInv, ZeroCbw, HostTypes
      <3>3. hcbw.op \in NoDataOps \cup RespOps /\ (hcbw.op = "test_unit" => hcbw.len = 0)
        BY <3>1, <3>2 DEF Reject, BadCommand, CbwType, Ops
      <3>4. CASE hcbw.op \in NoDataOps
        BY <3>2, <3>3, <3>4 DEF WellFormed
      <3>5. CASE hcbw.op \in RespOps
        <4>1. RespLen[hcbw.op] \in Nat \ {0} /\ hcbw.len \in Nat
          BY <3>2, <3>5, ConstAssumption DEF CbwType
        <4>2. hcbw.op \notin NoDataOps
          BY <3>5 DEF RespOps, NoDataOps
        <4>3. QED
          BY <3>1, <4>1, <4>2 DEF DataLen, MinOf
      <3>6. QED
        BY <3>3, <3>4, <3>5
    <2>6. FlagInv'
      BY <2>2, <2>3, <2>4 DEF FlagInv, Sending
    <2>7. HaltInv'
      BY <2>2, <2>3, <2>4 DEF HaltInv
    <2>8. ArmedInv'
      BY <2>2, <2>3, <2>4 DEF ArmedInv, Sending
    <2>9. ExactInv'
      BY <2>2, <2>3, <2>4, <2>5 DEF ExactInv, Sending
    <2>10. DataPhaseInv'
      BY <2>2, <2>4, <2>5 DEF StatusPhase, DataPhaseInv, Sending, StallInv
    <2>11. WaitInv'
      BY <2>2, <2>3, <2>4, <2>5 DEF WaitInv, StallInv
    <2>12. QED
      BY <2>6, <2>7, <2>8, <2>9, <2>10, <2>11 DEF PatientInv
  <1>5. CASE CmdSendData
    <2>1. /\ CbwPending /\ recv /\ ept_in.kind = "none" /\ ~stall_in /\ ~stall_out
          /\ UNCHANGED <<hpc, hcbw, htag, hgot, hblks, disk0, disk, setup, busReset, cbw>>
          /\ cbw = hcbw /\ dCBWTag = htag /\ hgot = 0
          /\ xferc' = {} /\ "IN" \notin intsts' /\ "OUT" \notin intsts'
          /\ hpc \in {"data", "reset"} \/ (StatusPhase /\ hcbw.len = 0)
          /\ ~Deaf /\ ~AtRest /\ ~Cleared
      BY <1>5, CbwTaken DEF CmdSendData
    <2>2. (Deaf' <=> Deaf) /\ (AtRest' <=> AtRest) /\ (Cleared' <=> Cleared) /\ (Resetting' <=> Resetting)
      BY <2>1 DEF Deaf, AtRest, Cleared, Resetting
    <2>3. \E n \in Nat : /\ n <= hcbw.len
                           /\ csw' = [tag |-> htag, residue |-> hcbw.len - n]
                           /\ ept_in' = DataXfer(n, Response)
      BY <1>5, <2>1, ResponseSent
    <2>4. /\ ept_in'.kind = "data" /\ ept_in'.n + csw'.residue = hcbw.len
          /\ csw'.tag = htag /\ csw'.residue \in Nat /\ ept_in'.n \in Nat
      BY <2>3, XferFields DEF HostTypes, CbwType
    <2>5. /\ msc_state' = "SEND_DATA"
          /\ UNCHANGED <<bot_status, ept_out, recv, stall_in, stall_out>>
      BY <1>5, <2>1 DEF CmdSendData
    <2>6. hcbw.len > 0 => hcbw.dir = "in"
      <3>1. hcbw.valid /\ hcbw.op \notin BlockOps /\ Reject(hcbw) = "none" /\ DataLen(hcbw) > 0
        BY <1>5, <2>1 DEF CmdSendData, CbwAccepted
      <3>2. hcbw \in Cbws /\ hcbw \in CbwType
        BY <3>1 DEF StatusPhase, DataPhaseInv, ZeroCbw, HostTypes
      <3>3. hcbw.op \in RespOps
        BY <3>1, <3>2 DEF Reject, BadCommand, CbwType, Ops, DataLen
      <3>4. QED
        BY <3>2, <3>3 DEF WellFormed
    <2>7. FlagInv'
      BY <2>1, <2>2, <2>4, <2>5 DEF FlagInv, Sending
    <2>8. HaltInv'
      BY <2>1, <2>2, <2>4, <2>5 DEF HaltInv
    <2>9. ArmedInv'
      BY <2>1, <2>2, <2>4, <2>5 DEF ArmedInv, Sending
    <2>10. ExactInv'
      BY <2>1, <2>2, <2>4, <2>5 DEF ExactInv, Bytes, HostTypes, CbwType
    <2>11. DataPhaseInv'
      BY <2>1, <2>4, <2>5, <2>6 DEF StatusPhase, DataPhaseInv, Sending
    <2>12. WaitInv'
      BY <2>1, <2>2, <2>4, <2>5 DEF WaitInv
    <2>13. QED
      BY <2>7, <2>8, <2>9, <2>10, <2>11, <2>12 DEF PatientInv
  <1>6. CASE Read10Start
    <2>1. (Refused' <=> Refused) /\ (Rejected' <=> Rejected)
      BY <1>6, RejectKept DEF Read10Start, CbwAccepted, MayServe, ServeCbw, ServeXfer
    <2>2. /\ CbwPending /\ recv /\ ept_in.kind = "none" /\ ~stall_in /\ ~stall_out
          /\ UNCHANGED <<hpc, hcbw, htag, hgot, hblks, disk0, disk, setup, busReset, cbw>>
          /\ cbw = hcbw /\ dCBWTag = htag /\ hgot = 0
          /\ xferc' = {} /\ "IN" \notin intsts' /\ "OUT" \notin intsts'
          /\ hpc \in {"data", "reset"} \/ (StatusPhase /\ hcbw.len = 0)
          /\ ~Deaf /\ ~AtRest /\ ~Cleared
      BY <1>6, CbwTaken DEF Read10Start
    <2>3. (Deaf' <=> Deaf) /\ (AtRest' <=> AtRest) /\ (Cleared' <=> Cleared) /\ (Resetting' <=> Resetting)
      BY <2>2 DEF Deaf, AtRest, Cleared, Resetting
    <2>4. /\ ept_in'.kind = "data" /\ csw'.tag = htag
          /\ ept_in'.n \in Nat /\ csw'.residue \in Nat
          /\ csw'.residue + ept_in'.n = hcbw.len
          /\ msc_state' \in {"DATA_IN", "LAST_DATA"}
      <3> DEFINE a == Scaled(cbw, cbw.lba)
                 n == Scaled(cbw, cbw.cnt)
      <3>1. cbw \in CbwType /\ a \in Nat /\ n \in Nat
        BY ScaledType DEF BotTypes
      <3>2. cbw.op \in BlockOps /\ Reject(cbw) = "none" /\ ReadChunk(a, n, DecodedCsw)
        BY <1>6 DEF Read10Start, BlockOps
      <3>3. cbw.len = n * BlkSize
        BY <3>1, <3>2, Accepted
      <3>4. DecodedCsw \in CswType /\ DecodedCsw.residue = n * BlkSize
            /\ DecodedCsw.residue = hcbw.len /\ DecodedCsw.tag = htag
        BY <2>2, <3>3, DecodedCswType DEF DecodedCsw
      <3> HIDE DEF a, n
      <3>5. QED
        BY <3>1, <3>2, <3>4, ReadChunkOffer
    <2>5. UNCHANGED <<bot_status, ept_out, recv, stall_in, stall_out>>
      BY <1>6 DEF Read10Start
    <2>6. hcbw.dir = "in"
      <3>1. cbw \in CbwType /\ cbw.op = "read10" /\ Reject(cbw) = "none" /\ cbw.op \in BlockOps
        BY <1>6 DEF Read10Start, BlockOps, BotTypes
      <3>2. StoresRange(cbw)
        BY <3>1, Accepted
      <3>3. QED
        BY <3>1, <3>2, <2>2 DEF StoresRange
    <2>7. FlagInv'
      BY <2>2, <2>3, <2>4, <2>5 DEF FlagInv, Sending
    <2>8. HaltInv'
      BY <2>2, <2>3, <2>4, <2>5 DEF HaltInv
    <2>9. ArmedInv'
      BY <2>2, <2>3, <2>4, <2>5 DEF ArmedInv, Sending
    <2>10. ExactInv'
      BY <2>2, <2>3, <2>4, <2>5 DEF ExactInv, Bytes, HostTypes, CbwType
    <2>11. DataPhaseInv'
      BY <2>2, <2>4, <2>5, <2>6 DEF StatusPhase, DataPhaseInv, Sending
    <2>12. WaitInv'
      BY <2>2, <2>3, <2>4, <2>5 DEF WaitInv
    <2>13. QED
      BY <2>7, <2>8, <2>9, <2>10, <2>11, <2>12 DEF PatientInv
  <1>7. CASE Read10Next
    <2>1. (Refused' <=> Refused) /\ (Rejected' <=> Rejected)
      BY <1>7, RejectKept DEF Read10Next, MayServe, ServeXfer
    <2>2. /\ msc_state = "DATA_IN" /\ "IN" \in xferc /\ xferc' = xferc \ {"IN"} /\ intsts' = intsts \ {"IN"}
          /\ UNCHANGED <<hpc, hcbw, htag, hgot, hblks, disk0, setup, busReset, cbw>>
          /\ UNCHANGED <<disk, bot_status, ept_out, recv, stall_in, stall_out>>
      BY <1>7 DEF Read10Next, ServeXfer, MayServe, FlagInv, host
    <2>3. (Deaf' <=> Deaf) /\ (AtRest' <=> AtRest) /\ (Cleared' <=> Cleared) /\ (Resetting' <=> Resetting)
      BY <2>2 DEF Deaf, AtRest, Cleared, Resetting
    <2>4. ~Deaf /\ ept_in.kind \notin {"data", "csw"} /\ "OUT" \notin xferc /\ ~stall_in /\ ~Cleared /\ ~stall_out
      BY <2>2 DEF FlagInv, StallInv, HaltInv, Sending, RestInv, AtRest, Cleared, Over
    <2>5. csw.residue + hgot = hcbw.len /\ (hcbw.len > 0 => hcbw.dir = "in") /\ csw.residue \in Nat /\ hgot \in Nat
      BY <2>2, <2>4 DEF ExactInv, Bytes, Sending, DataPhaseInv, BotTypes, CswType, HostTypes
    <2>6. /\ ept_in'.kind = "data" /\ csw'.tag = csw.tag
          /\ ept_in'.n \in Nat /\ csw'.residue \in Nat
          /\ csw'.residue + ept_in'.n = csw.residue
          /\ msc_state' \in {"DATA_IN", "LAST_DATA"}
      <3>1. csw.residue = blk_len * BlkSize /\ ReadChunk(blk_addr, blk_len, csw)
        BY <1>7, <2>2 DEF TransferInv, Read10Next
      <3>2. QED
        BY <3>1, ReadChunkOffer DEF BotTypes
    <2>7. FlagInv'
      BY <2>2, <2>3, <2>4, <2>6 DEF FlagInv, Sending
    <2>8. HaltInv'
      BY <2>2, <2>3, <2>4 DEF HaltInv
    <2>9. ArmedInv'
      BY <2>2, <2>3, <2>4, <2>6 DEF ArmedInv, Sending
    <2>10. ExactInv'
      BY <2>2, <2>5, <2>6 DEF ExactInv, Bytes
    <2>11. DataPhaseInv'
      BY <2>2, <2>5, <2>6 DEF StatusPhase, DataPhaseInv, Sending
    <2>12. WaitInv'
      BY <2>6 DEF WaitInv
    <2>13. QED
      BY <2>7, <2>8, <2>9, <2>10, <2>11, <2>12 DEF PatientInv
  <1>8. CASE DataInDone
    <2>1. (Refused' <=> Refused) /\ (Rejected' <=> Rejected)
      BY <1>8, RejectKept DEF DataInDone, ServeXfer, SendCsw, EptRecv
    <2>2. /\ msc_state \in {"LAST_DATA", "SEND_DATA"} /\ "IN" \in xferc
          /\ xferc' = xferc \ {"IN"} /\ intsts' = intsts \ {"IN"}
          /\ UNCHANGED <<hpc, hcbw, htag, hgot, hblks, disk0, setup, busReset, cbw>>
          /\ UNCHANGED <<disk, bot_status, stall_in, stall_out>>
      BY <1>8 DEF DataInDone, ServeXfer, MayServe, FlagInv, host
    <2>3. (Deaf' <=> Deaf) /\ (AtRest' <=> AtRest) /\ (Cleared' <=> Cleared) /\ (Resetting' <=> Resetting)
      BY <2>2 DEF Deaf, AtRest, Cleared, Resetting
    <2>4. ~Deaf /\ ept_in.kind \notin {"data", "csw"} /\ "OUT" \notin xferc /\ ~stall_in /\ ~Cleared /\ ~stall_out
      BY <2>2 DEF FlagInv, StallInv, HaltInv, Sending, RestInv, AtRest, Cleared, Over
    <2>5. csw.tag = htag /\ csw.residue + hgot = hcbw.len /\ hpc # "data"
      <3>1. csw.tag = htag /\ csw.residue + hgot = hcbw.len
        BY <2>2, <2>4 DEF ExactInv, Bytes, Sending, SameCommand, BotTypes, CswType, HostTypes
      <3>2. msc_state = "LAST_DATA" => csw.residue = 0
        BY ConstAssumption DEF ReadInv, BotTypes
      <3>3. msc_state = "LAST_DATA" => hpc # "data"
        BY <3>1, <3>2 DEF StatusPhase, DataPhaseInv, HostTypes, CbwType
      <3>4. QED
        BY <2>2, <2>4, <3>1, <3>3 DEF StatusPhase, DataPhaseInv
    <2>6. /\ ept_in'.kind = "csw" /\ ept_in'.status = "PASS" /\ ept_in'.tag = csw.tag
          /\ ept_in'.residue = csw.residue /\ msc_state' = "IDLE" /\ ept_out' = "cbw" /\ recv' = FALSE
      BY <1>8, XferFields DEF DataInDone, SendCsw, EptRecv
    <2>7. FlagInv'
      BY <2>2, <2>3, <2>4, <2>6 DEF FlagInv, Sending
    <2>8. HaltInv'
      BY <2>2, <2>3, <2>4 DEF HaltInv
    <2>9. ArmedInv'
      BY <2>2, <2>3, <2>4, <2>6 DEF ArmedInv, Sending
    <2>10. ExactInv'
      BY <2>2, <2>5, <2>6 DEF ExactInv, Sending
    <2>11. DataPhaseInv'
      BY <2>2, <2>5, <2>6 DEF StatusPhase, DataPhaseInv, Sending
    <2>12. WaitInv'
      BY <2>2, <2>5, <2>6 DEF WaitInv
    <2>13. QED
      BY <2>7, <2>8, <2>9, <2>10, <2>11, <2>12 DEF PatientInv
  <1>9. CASE Write10Start
    <2>1. (Refused' <=> Refused) /\ (Rejected' <=> Rejected)
      BY <1>9, RejectKept DEF Write10Start, CbwAccepted, MayServe, EptRecv, ServeCbw, ServeXfer
    <2>2. /\ CbwPending /\ recv /\ ept_in.kind = "none" /\ ~stall_in /\ ~stall_out
          /\ UNCHANGED <<hpc, hcbw, htag, hgot, hblks, disk0, disk, setup, busReset, cbw>>
          /\ cbw = hcbw /\ dCBWTag = htag /\ hgot = 0
          /\ xferc' = {} /\ "IN" \notin intsts' /\ "OUT" \notin intsts'
          /\ hpc \in {"data", "reset"} \/ (StatusPhase /\ hcbw.len = 0)
          /\ ~Deaf /\ ~AtRest /\ ~Cleared
      BY <1>9, CbwTaken DEF Write10Start
    <2>3. (Deaf' <=> Deaf) /\ (AtRest' <=> AtRest) /\ (Cleared' <=> Cleared) /\ (Resetting' <=> Resetting)
      BY <2>2 DEF Deaf, AtRest, Cleared, Resetting
    <2>4. /\ msc_state' = "DATA_OUT" /\ ept_out' = "data"
          /\ UNCHANGED <<bot_status, ept_in, stall_in, stall_out>>
      BY <1>9 DEF Write10Start, EptRecv
    <2>5. FlagInv'
      BY <1>9 DEF Write10Start, CbwAccepted, MayServe, EptRecv, ServeCbw, ServeXfer, FlagInv, Deaf, Sending, HaltInv, ArmedInv, ExactInv, DataPhaseInv, WaitInv, Resetting, Cleared, AtRest, StallInv, RestInv, Over, EndpointInv, CbwPending, PassOffered, RequestInv
    <2>6. HaltInv'
      BY <1>9, <2>1 DEF Write10Start, CbwAccepted, MayServe, EptRecv, ServeCbw, ServeXfer, HaltInv, Cleared, Resetting, FlagInv, ArmedInv, ExactInv, DataPhaseInv, WaitInv, Deaf, Sending, AtRest, StallInv, RestInv, Over, EndpointInv, CbwPending, PassOffered, RequestInv
    <2>7. ArmedInv'
      BY <1>9 DEF Write10Start, CbwAccepted, MayServe, EptRecv, ServeCbw, ServeXfer, ArmedInv, AtRest, Cleared, Resetting, Sending, FlagInv, HaltInv, ExactInv, DataPhaseInv, WaitInv, Deaf, StallInv, RestInv, Over, EndpointInv, CbwPending, PassOffered, RequestInv
    <2>8. ExactInv'
      BY <1>9, <2>1 DEF Write10Start, CbwAccepted, MayServe, EptRecv, ServeCbw, ServeXfer, ExactInv, Sending, Deaf, Bytes, FlagInv, HaltInv, ArmedInv, DataPhaseInv, WaitInv, Resetting, Cleared, AtRest, StallInv, RestInv, Over, EndpointInv, CbwPending, PassOffered, RequestInv
    <2>9. DataPhaseInv'
      BY <2>2, <2>4 DEF DataPhaseInv, Sending, StatusPhase, HostTypes, CbwType
    <2>10. WaitInv'
      BY <1>9, <2>1 DEF Write10Start, CbwAccepted, MayServe, EptRecv, ServeCbw, ServeXfer, WaitInv, CbwPending, Resetting, FlagInv, HaltInv, ArmedInv, ExactInv, DataPhaseInv, Deaf, Sending, Cleared, AtRest, StallInv, RestInv, Over, EndpointInv, PassOffered, RequestInv
    <2>11. QED
      BY <2>5, <2>6, <2>7, <2>8, <2>9, <2>10 DEF PatientInv
  <1>10. CASE Write10Next
    <2>1. (Refused' <=> Refused) /\ (Rejected' <=> Rejected)
      BY <1>10, RejectKept DEF Write10Next, MayServe, ServeXfer, SendCsw, EptRecv
    <2>2. /\ msc_state = "DATA_OUT" /\ "OUT" \in xferc /\ "IN" \notin xferc
          /\ xferc' = xferc \ {"OUT"} /\ intsts' = intsts \ {"OUT"}
          /\ UNCHANGED <<hpc, hcbw, htag, hgot, hblks, disk0, setup, busReset, cbw>>
          /\ UNCHANGED <<bot_status, stall_in, stall_out>>
      BY <1>10 DEF Write10Next, ServeXfer, MayServe, EndpointInv, FlagInv, host
    <2>3. (Deaf' <=> Deaf) /\ (AtRest' <=> AtRest) /\ (Cleared' <=> Cleared) /\ (Resetting' <=> Resetting)
      BY <2>2 DEF Deaf, AtRest, Cleared, Resetting
    <2>4. ~Deaf /\ ept_in.kind = "none" /\ ~stall_in /\ ~Cleared /\ ~AtRest /\ ~stall_out
      BY <2>2 DEF FlagInv, StallInv, HaltInv, RestInv, Cleared, AtRest, Over
    <2>5. \/ /\ msc_state' = "IDLE" /\ recv' = FALSE /\ ept_out' = "cbw"
             /\ ept_in'.kind = "csw" /\ ept_in'.status = "PASS"
             /\ ept_in'.tag = htag /\ ept_in'.residue = 0 /\ hgot = hcbw.len
          \/ /\ msc_state' = "DATA_OUT" /\ recv' = FALSE /\ ept_out' = "data" /\ ept_in' = ept_in
      BY <1>10, WriteReply
    <2>6. FlagInv'
      BY <2>2, <2>3, <2>4, <2>5 DEF FlagInv, Sending
    <2>7. HaltInv'
      BY <2>2, <2>3, <2>4 DEF HaltInv
    <2>8. ArmedInv'
      BY <2>2, <2>3, <2>4, <2>5 DEF ArmedInv, Sending
    <2>9. ExactInv'
      BY <2>2, <2>5, <2>4 DEF ExactInv, Sending, HostTypes
    <2>10. DataPhaseInv'
      BY <2>2, <2>5, <2>4 DEF StatusPhase, DataPhaseInv, Sending, HostTypes, CbwType
    <2>11. WaitInv'
      BY <2>2, <2>5 DEF WaitInv, DataPhaseInv, HostTypes, CbwType
    <2>12. QED
      BY <2>6, <2>7, <2>8, <2>9, <2>10, <2>11 DEF PatientInv
  <1>11. ASSUME NEW f \in {"IN", "OUT"}, XferIgnored(f)
        PROVE  PatientInv'
    <2>1. (Refused' <=> Refused) /\ (Rejected' <=> Rejected)
      BY <1>11, RejectKept DEF XferIgnored, ServeXfer
    <2>2. FlagInv'
      BY <1>11 DEF XferIgnored, ServeXfer, FlagInv, Deaf, Sending, HaltInv, ArmedInv, ExactInv, DataPhaseInv, WaitInv, Resetting, Cleared, AtRest, StallInv, RestInv, Over, EndpointInv, CbwPending, PassOffered, RequestInv
    <2>3. HaltInv'
      BY <1>11, <2>1 DEF XferIgnored, ServeXfer, HaltInv, Cleared, Resetting, FlagInv, ArmedInv, ExactInv, DataPhaseInv, WaitInv, Deaf, Sending, AtRest, StallInv, RestInv, Over, EndpointInv, CbwPending, PassOffered, RequestInv
    <2>4. ArmedInv'
      BY <1>11 DEF XferIgnored, ServeXfer, ArmedInv, AtRest, Cleared, Resetting, Sending, FlagInv, HaltInv, ExactInv, DataPhaseInv, WaitInv, Deaf, StallInv, RestInv, Over, EndpointInv, CbwPending, PassOffered, RequestInv
    <2>5. ExactInv'
      BY <1>11, <2>1 DEF XferIgnored, ServeXfer, ExactInv, Sending, Deaf, Bytes, FlagInv, HaltInv, ArmedInv, DataPhaseInv, WaitInv, Resetting, Cleared, AtRest, StallInv, RestInv, Over, EndpointInv, CbwPending, PassOffered, RequestInv
    <2>6. DataPhaseInv'
      BY <1>11 DEF XferIgnored, ServeXfer, DataPhaseInv, Sending, StatusPhase, FlagInv, HaltInv, ArmedInv, ExactInv, WaitInv, Deaf, Resetting, Cleared, AtRest, StallInv, RestInv, Over, EndpointInv, CbwPending, PassOffered, RequestInv
    <2>7. WaitInv'
      BY <1>11, <2>1 DEF XferIgnored, ServeXfer, WaitInv, CbwPending, Resetting, FlagInv, HaltInv, ArmedInv, ExactInv, DataPhaseInv, Deaf, Sending, Cleared, AtRest, StallInv, RestInv, Over, EndpointInv, PassOffered, RequestInv
    <2>8. QED
      BY <2>2, <2>3, <2>4, <2>5, <2>6, <2>7 DEF PatientInv
  <1>12. CASE BulkOnlyReset
    <2>1. (Refused' <=> Refused) /\ (Rejected' <=> Rejected)
      BY <1>12, RejectKept DEF BulkOnlyReset, ServeSetup, EptRecv, Flushed, NoXfer
    <2>2. FlagInv'
      BY <1>12 DEF BulkOnlyReset, ServeSetup, EptRecv, Flushed, NoXfer, FlagInv, Deaf, Sending, HaltInv, ArmedInv, ExactInv, DataPhaseInv, WaitInv, Resetting, Cleared, AtRest, StallInv, RestInv, Over, EndpointInv, CbwPending, PassOffered, RequestInv
    <2>3. HaltInv'
      BY <1>12, <2>1 DEF BulkOnlyReset, ServeSetup, EptRecv, Flushed, NoXfer, HaltInv, Cleared, Resetting, FlagInv, ArmedInv, ExactInv, DataPhaseInv, WaitInv, Deaf, Sending, AtRest, StallInv, RestInv, Over, EndpointInv, CbwPending, PassOffered, RequestInv
    <2>4. ArmedInv'
      BY <1>12 DEF BulkOnlyReset, ServeSetup, EptRecv, Flushed, NoXfer, ArmedInv, AtRest, Cleared, Resetting, Sending, FlagInv, HaltInv, ExactInv, DataPhaseInv, WaitInv, Deaf, StallInv, RestInv, Over, EndpointInv, CbwPending, PassOffered, RequestInv
    <2>5. ExactInv'
      BY <1>12, <2>1 DEF BulkOnlyReset, ServeSetup, EptRecv, Flushed, NoXfer, ExactInv, Sending, Deaf, Bytes, FlagInv, HaltInv, ArmedInv, DataPhaseInv, WaitInv, Resetting, Cleared, AtRest, StallInv, RestInv, Over, EndpointInv, CbwPending, PassOffered, RequestInv
    <2>6. DataPhaseInv'
      BY <1>12 DEF BulkOnlyReset, ServeSetup, EptRecv, Flushed, NoXfer, DataPhaseInv, Sending, StatusPhase, FlagInv, HaltInv, ArmedInv, ExactInv, WaitInv, Deaf, Resetting, Cleared, AtRest, StallInv, RestInv, Over, EndpointInv, CbwPending, PassOffered, RequestInv
    <2>7. WaitInv'
      BY <1>12, <2>1 DEF BulkOnlyReset, ServeSetup, EptRecv, Flushed, NoXfer, WaitInv, CbwPending, Resetting, FlagInv, HaltInv, ArmedInv, ExactInv, DataPhaseInv, Deaf, Sending, Cleared, AtRest, StallInv, RestInv, Over, EndpointInv, PassOffered, RequestInv
    <2>8. QED
      BY <2>2, <2>3, <2>4, <2>5, <2>6, <2>7 DEF PatientInv
  <1>13. CASE ClearFeatureIn
    <2>1. (Refused' <=> Refused) /\ (Rejected' <=> Rejected)
      BY <1>13, RejectKept DEF ClearFeatureIn, ServeSetup, SendCsw, EptRecv, CswXfer, NoXfer
    <2>2. /\ hpc \in {"clr_data", "clr_status", "rr_in"} /\ setup = "CLEAR_IN" /\ setup' = "none"
          /\ "IN" \notin intsts /\ intsts' = intsts \ {"SETUP"} /\ ~Deaf /\ ~Deaf' /\ ~Resetting
          /\ UNCHANGED <<hpc, hcbw, htag, hgot, hblks, disk0, xferc, busReset, cbw, stall_out>>
      BY <1>13 DEF ClearFeatureIn, ServeSetup, MayServe, RequestInv, Deaf, Resetting, host
    <2>3. /\ hpc = "rr_in" => bot_status = "RECOVERY" /\ msc_state = "IDLE" /\ "OUT" \notin xferc
          /\ hpc # "rr_in" => /\ stall_in /\ msc_state = "IDLE" /\ "OUT" \notin xferc
                              /\ csw.tag = htag /\ csw.residue + hgot = hcbw.len /\ Rejected
                              /\ bot_status = "RECOVERY" => Refused
          /\ bot_status = "ERROR" => stall_in /\ csw.tag = htag /\ csw.residue + hgot = hcbw.len /\ Rejected
      BY <2>2 DEF HaltInv, StallInv, RestInv, AtRest, Over, FlagInv
    <2>4. \/ /\ bot_status = "ERROR" /\ bot_status' = "IDLE" /\ stall_in' /\ ept_in'.kind = "none"
             /\ UNCHANGED <<msc_state, csw, ept_out, recv>>
          \/ /\ bot_status = "IDLE" /\ bot_status' = "IDLE" /\ ~stall_in' /\ msc_state' = "IDLE"
             /\ ept_in'.kind = "csw" /\ ept_in'.tag = csw.tag /\ ept_in'.residue = csw.residue
             /\ ept_out' = "cbw" /\ recv' = FALSE
          \/ /\ bot_status = "RECOVERY" /\ bot_status' = "RECOVERY" /\ ~stall_in' /\ ept_in'.kind = "none"
             /\ UNCHANGED <<msc_state, csw, ept_out, recv>>
      BY <1>13, XferFields DEF ClearFeatureIn, SendCsw, EptRecv
    <2>5. /\ msc_state = "IDLE" /\ msc_state' = "IDLE" /\ "OUT" \notin xferc'
          /\ ept_in'.kind \in {"none", "csw"} /\ ("IN" \in intsts' => "IN" \in xferc')
          /\ ~Resetting' /\ (ept_in'.kind = "csw" => hpc # "rr_in" /\ csw.tag = htag /\ csw.residue + hgot = hcbw.len /\ Rejected)
      <3>1. msc_state = "IDLE" /\ "OUT" \notin xferc
        BY <2>2, <2>3
      <3>2. msc_state' = "IDLE" /\ ept_in'.kind \in {"none", "csw"}
        BY <3>1, <2>4
      <3>3. ept_in'.kind = "csw" => bot_status = "IDLE"
        BY <2>4
      <3>4. ept_in'.kind = "csw" => hpc # "rr_in" /\ csw.tag = htag /\ csw.residue + hgot = hcbw.len /\ Rejected
        BY <3>3, <2>3
      <3>5. ~Resetting' /\ "OUT" \notin xferc' /\ ("IN" \in intsts' => "IN" \in xferc')
        BY <3>1, <2>2 DEF Resetting
      <3>6. QED
        BY <3>1, <3>2, <3>4, <3>5
    <2>6. FlagInv'
      BY <2>2, <2>5 DEF FlagInv, Sending
    <2>7. HaltInv'
      BY <2>2, <2>3, <2>4, <2>1 DEF HaltInv, Cleared
    <2>8. ArmedInv'
      BY <2>2, <2>5, <2>4 DEF ArmedInv, Sending, AtRest, Cleared
    <2>9. ExactInv'
      BY <2>2, <2>5, <2>4, <2>1 DEF ExactInv, Sending
    <2>10. DataPhaseInv'
      BY <2>2, <2>5, <2>3 DEF DataPhaseInv, Sending, StatusPhase
    <2>11. WaitInv'
      <3>1. CASE bot_status = "ERROR"
        BY <3>1, <2>2, <2>5, <2>4 DEF WaitInv
      <3>2. CASE bot_status = "IDLE"
        BY <3>2, <2>2, <2>5, <2>4 DEF WaitInv
      <3>3. CASE bot_status = "RECOVERY"
        BY <3>3, <2>2, <2>5, <2>3, <2>4, <2>1 DEF WaitInv
      <3>4. QED
        BY <3>1, <3>2, <3>3 DEF BotTypes
    <2>12. QED
      BY <2>6, <2>7, <2>8, <2>9, <2>10, <2>11 DEF PatientInv
  <1>14. CASE ClearFeatureOut
    <2>1. (Refused' <=> Refused) /\ (Rejected' <=> Rejected)
      BY <1>14, RejectKept DEF ClearFeatureOut, ServeSetup
    <2>2. FlagInv'
      BY <1>14 DEF ClearFeatureOut, ServeSetup, FlagInv, Deaf, Sending, HaltInv, ArmedInv, ExactInv, DataPhaseInv, WaitInv, Resetting, Cleared, AtRest, StallInv, RestInv, Over, EndpointInv, CbwPending, PassOffered, RequestInv
    <2>3. HaltInv'
      BY <1>14, <2>1 DEF ClearFeatureOut, ServeSetup, HaltInv, Cleared, Resetting, FlagInv, ArmedInv, ExactInv, DataPhaseInv, WaitInv, Deaf, Sending, AtRest, StallInv, RestInv, Over, EndpointInv, CbwPending, PassOffered, RequestInv
    <2>4. ArmedInv'
      BY <1>14 DEF ClearFeatureOut, ServeSetup, ArmedInv, AtRest, Cleared, Resetting, Sending, FlagInv, HaltInv, ExactInv, DataPhaseInv, WaitInv, Deaf, StallInv, RestInv, Over, EndpointInv, CbwPending, PassOffered, RequestInv
    <2>5. ExactInv'
      BY <1>14, <2>1 DEF ClearFeatureOut, ServeSetup, ExactInv, Sending, Deaf, Bytes, FlagInv, HaltInv, ArmedInv, DataPhaseInv, WaitInv, Resetting, Cleared, AtRest, StallInv, RestInv, Over, EndpointInv, CbwPending, PassOffered, RequestInv
    <2>6. DataPhaseInv'
      BY <1>14 DEF ClearFeatureOut, ServeSetup, DataPhaseInv, Sending, StatusPhase, FlagInv, HaltInv, ArmedInv, ExactInv, WaitInv, Deaf, Resetting, Cleared, AtRest, StallInv, RestInv, Over, EndpointInv, CbwPending, PassOffered, RequestInv
    <2>7. WaitInv'
      BY <1>14, <2>1 DEF ClearFeatureOut, ServeSetup, WaitInv, CbwPending, Resetting, FlagInv, HaltInv, ArmedInv, ExactInv, DataPhaseInv, Deaf, Sending, Cleared, AtRest, StallInv, RestInv, Over, EndpointInv, PassOffered, RequestInv
    <2>8. QED
      BY <2>2, <2>3, <2>4, <2>5, <2>6, <2>7 DEF PatientInv
  <1>15. CASE SetConfiguration
    <2>1. (Refused' <=> Refused) /\ (Rejected' <=> Rejected)
      BY <1>15, RejectKept DEF SetConfiguration, ServeSetup, EptRecv, Flushed, NoXfer
    <2>2. FlagInv'
      BY <1>15 DEF SetConfiguration, ServeSetup, EptRecv, Flushed, NoXfer, FlagInv, Deaf, Sending, HaltInv, ArmedInv, ExactInv, DataPhaseInv, WaitInv, Resetting, Cleared, AtRest, StallInv, RestInv, Over, EndpointInv, CbwPending, PassOffered, RequestInv
    <2>3. HaltInv'
      BY <1>15, <2>1 DEF SetConfiguration, ServeSetup, EptRecv, Flushed, NoXfer, HaltInv, Cleared, Resetting, FlagInv, ArmedInv, ExactInv, DataPhaseInv, WaitInv, Deaf, Sending, AtRest, StallInv, RestInv, Over, EndpointInv, CbwPending, PassOffered, RequestInv
    <2>4. ArmedInv'
      BY <1>15 DEF SetConfiguration, ServeSetup, EptRecv, Flushed, NoXfer, ArmedInv, AtRest, Cleared, Resetting, Sending, FlagInv, HaltInv, ExactInv, DataPhaseInv, WaitInv, Deaf, StallInv, RestInv, Over, EndpointInv, CbwPending, PassOffered, RequestInv
    <2>5. ExactInv'
      BY <1>15, <2>1 DEF SetConfiguration, ServeSetup, EptRecv, Flushed, NoXfer, ExactInv, Sending, Deaf, Bytes, FlagInv, HaltInv, ArmedInv, DataPhaseInv, WaitInv, Resetting, Cleared, AtRest, StallInv, RestInv, Over, EndpointInv, CbwPending, PassOffered, RequestInv
    <2>6. DataPhaseInv'
      BY <1>15 DEF SetConfiguration, ServeSetup, EptRecv, Flushed, NoXfer, DataPhaseInv, Sending, StatusPhase, FlagInv, HaltInv, ArmedInv, ExactInv, WaitInv, Deaf, Resetting, Cleared, AtRest, StallInv, RestInv, Over, EndpointInv, CbwPending, PassOffered, RequestInv
    <2>7. WaitInv'
      BY <1>15, <2>1 DEF SetConfiguration, ServeSetup, EptRecv, Flushed, NoXfer, WaitInv, CbwPending, Resetting, FlagInv, HaltInv, ArmedInv, ExactInv, DataPhaseInv, Deaf, Sending, Cleared, AtRest, StallInv, RestInv, Over, EndpointInv, PassOffered, RequestInv
    <2>8. QED
      BY <2>2, <2>3, <2>4, <2>5, <2>6, <2>7 DEF PatientInv
  <1>16. CASE UsbReset
    <2>1. (Refused' <=> Refused) /\ (Rejected' <=> Rejected)
      BY <1>16, RejectKept DEF UsbReset, NoXfer
    <2>2. /\ hpc = "reset" /\ Resetting /\ Resetting' /\ Deaf' /\ xferc' = {} /\ intsts' = {}
          /\ ept_in'.kind = "none" /\ ~stall_in' /\ ~stall_out'
          /\ UNCHANGED <<bot, disk, host>>
      BY <1>16 DEF UsbReset, NoXfer, MayServe, RequestInv, Resetting, Deaf
    <2>3. FlagInv'
      BY <2>2 DEF FlagInv, Sending
    <2>4. HaltInv'
      BY <2>2 DEF HaltInv
    <2>5. ArmedInv'
      BY <2>2 DEF ArmedInv, AtRest, Cleared
    <2>6. ExactInv'
      BY <2>2 DEF ExactInv
    <2>7. DataPhaseInv'
      BY <2>2 DEF StatusPhase, DataPhaseInv, Sending
    <2>8. WaitInv'
      BY <2>2 DEF WaitInv
    <2>9. QED
      BY <2>3, <2>4, <2>5, <2>6, <2>7, <2>8 DEF PatientInv
  <1>17. ASSUME NEW c \in Cbws, HostIssue(c)
        PROVE  PatientInv'
    <2>1. FlagInv'
      BY <1>17 DEF HostIssue, FlagInv, Deaf, Sending, HaltInv, ArmedInv, ExactInv, DataPhaseInv, WaitInv, Resetting, Cleared, AtRest, StallInv, RestInv, Over, EndpointInv, CbwPending, PassOffered, RequestInv
    <2>2. HaltInv'
      BY <1>17 DEF HostIssue, HaltInv, Cleared, Resetting, FlagInv, ArmedInv, ExactInv, DataPhaseInv, WaitInv, Deaf, Sending, AtRest, StallInv, RestInv, Over, EndpointInv, CbwPending, PassOffered, RequestInv
    <2>3. ArmedInv'
      BY <1>17 DEF HostIssue, ArmedInv, AtRest, Cleared, Resetting, Sending, FlagInv, HaltInv, ExactInv, DataPhaseInv, WaitInv, Deaf, StallInv, RestInv, Over, EndpointInv, CbwPending, PassOffered, RequestInv
    <2>4. ExactInv'
      BY <1>17 DEF HostIssue, ExactInv, Sending, Deaf, Bytes, FlagInv, HaltInv, ArmedInv, DataPhaseInv, WaitInv, Resetting, Cleared, AtRest, StallInv, RestInv, Over, EndpointInv, CbwPending, PassOffered, RequestInv
    <2>5. DataPhaseInv'
      BY <1>17 DEF HostIssue, DataPhaseInv, Sending, StatusPhase, FlagInv, HaltInv, ArmedInv, ExactInv, WaitInv, Deaf, Resetting, Cleared, AtRest, StallInv, RestInv, Over, EndpointInv, CbwPending, PassOffered, RequestInv
    <2>6. WaitInv'
      BY <1>17 DEF HostIssue, WaitInv, CbwPending, Resetting, FlagInv, HaltInv, ArmedInv, ExactInv, DataPhaseInv, Deaf, Sending, Cleared, AtRest, StallInv, RestInv, Over, EndpointInv, PassOffered, RequestInv
    <2>7. QED
      BY <2>1, <2>2, <2>3, <2>4, <2>5, <2>6 DEF PatientInv
  <1>18. CASE HostCbw
    <2>1. (Refused' <=> Refused) /\ (Rejected' <=> Rejected)
      BY <1>18, RejectKept DEF HostCbw, dev
    <2>2. FlagInv'
      BY <1>18 DEF HostCbw, dev, FlagInv, Deaf, Sending, HaltInv, ArmedInv, ExactInv, DataPhaseInv, WaitInv, Resetting, Cleared, AtRest, StallInv, RestInv, Over, EndpointInv, CbwPending, PassOffered, RequestInv
    <2>3. HaltInv'
      BY <1>18, <2>1 DEF HostCbw, dev, HaltInv, Cleared, Resetting, FlagInv, ArmedInv, ExactInv, DataPhaseInv, WaitInv, Deaf, Sending, AtRest, StallInv, RestInv, Over, EndpointInv, CbwPending, PassOffered, RequestInv
    <2>4. ArmedInv'
      BY <1>18 DEF HostCbw, dev, ArmedInv, AtRest, Cleared, Resetting, Sending, FlagInv, HaltInv, ExactInv, DataPhaseInv, WaitInv, Deaf, StallInv, RestInv, Over, EndpointInv, CbwPending, PassOffered, RequestInv
    <2>5. ExactInv'
      BY <1>18, <2>1 DEF HostCbw, dev, ExactInv, Sending, Deaf, Bytes, FlagInv, HaltInv, ArmedInv, DataPhaseInv, WaitInv, Resetting, Cleared, AtRest, StallInv, RestInv, Over, EndpointInv, CbwPending, PassOffered, RequestInv
    <2>6. DataPhaseInv'
      BY <1>18 DEF HostCbw, dev, StatusPhase, DataPhaseInv, Sending, RestInv, ArmedInv, Cleared, EndpointInv, HostTypes, CbwType
    <2>7. WaitInv'
      BY <1>18, <2>1 DEF HostCbw, dev, WaitInv, CbwPending, Resetting, FlagInv, HaltInv, ArmedInv, ExactInv, DataPhaseInv, Deaf, Sending, Cleared, AtRest, StallInv, RestInv, Over, EndpointInv, PassOffered, RequestInv
    <2>8. QED
      BY <2>2, <2>3, <2>4, <2>5, <2>6, <2>7 DEF PatientInv
  <1>19. CASE HostDataIn
    <2>1. (Refused' <=> Refused) /\ (Rejected' <=> Rejected)
      BY <1>19, RejectKept DEF HostDataIn, HostIn, HostGoesTo, dev, NoXfer
    <2>2. /\ hpc = "data" /\ hcbw.dir = "in" /\ ept_in.kind = "data" /\ ~stall_in
          /\ ept_in'.kind = "none" /\ xferc' = xferc \cup {"IN"} /\ hgot' = hgot + ept_in.n
          /\ hpc' = (IF ept_in.n = BlkSize /\ hgot + BlkSize < hcbw.len THEN "data" ELSE "status")
          /\ UNCHANGED <<hcbw, htag, setup, busReset, csw, msc_state, bot_status, ept_out, recv, stall_in, stall_out>>
          /\ Sending /\ ~Deaf
      BY <1>19, XferFields DEF HostDataIn, HostIn, HostGoesTo, dev, StallInv, Deaf
    <2>3. ept_in.n \in Nat /\ hgot \in Nat /\ hcbw.len \in Nat /\ csw.residue \in Nat /\ BlkSize \in Nat
      BY ConstAssumption DEF UsbTypes, Xfers, HostTypes, CbwType, BotTypes, CswType
    <2>4. FlagInv'
      BY <1>19 DEF HostDataIn, HostIn, HostGoesTo, dev, NoXfer, FlagInv, Deaf, Sending, HaltInv, ArmedInv, ExactInv, DataPhaseInv, WaitInv, Resetting, Cleared, AtRest, StallInv, RestInv, Over, EndpointInv, CbwPending, PassOffered, RequestInv
    <2>5. HaltInv'
      BY <1>19, <2>1 DEF HostDataIn, HostIn, HostGoesTo, dev, NoXfer, HaltInv, Cleared, Resetting, FlagInv, ArmedInv, ExactInv, DataPhaseInv, WaitInv, Deaf, Sending, AtRest, StallInv, RestInv, Over, EndpointInv, CbwPending, PassOffered, RequestInv
    <2>6. ArmedInv'
      BY <1>19 DEF HostDataIn, HostIn, HostGoesTo, dev, NoXfer, ArmedInv, AtRest, Cleared, Resetting, Sending, FlagInv, HaltInv, ExactInv, DataPhaseInv, WaitInv, Deaf, StallInv, RestInv, Over, EndpointInv, CbwPending, PassOffered, RequestInv
    <2>7. ExactInv'
      BY <2>2, <2>3 DEF ExactInv, Bytes, Sending
    <2>8. DataPhaseInv'
      BY <2>2, <2>3 DEF StatusPhase, DataPhaseInv, SendInv, Sending
    <2>9. WaitInv'
      BY <1>19, <2>1 DEF HostDataIn, HostIn, HostGoesTo, dev, NoXfer, WaitInv, CbwPending, Resetting, FlagInv, HaltInv, ArmedInv, ExactInv, DataPhaseInv, Deaf, Sending, Cleared, AtRest, StallInv, RestInv, Over, EndpointInv, PassOffered, RequestInv
    <2>10. QED
      BY <2>4, <2>5, <2>6, <2>7, <2>8, <2>9 DEF PatientInv
  <1>20. CASE HostStatus
    <2>1. (Refused' <=> Refused) /\ (Rejected' <=> Rejected)
      BY <1>20, RejectKept DEF HostStatus, InStatus, HostIn, HostGoesTo, dev, NoXfer
    <2>2. /\ InStatus /\ ~stall_in /\ ept_in'.kind = "none"
          /\ UNCHANGED <<hcbw, htag, setup, busReset, csw, msc_state>>
          /\ \/ ept_in.kind = "csw" /\ msc_state = "IDLE"
             \/ ept_in.kind = "data" /\ ept_in.n = 0 /\ hpc' = hpc /\ hgot' = hgot
      <3>1. /\ InStatus /\ ~stall_in /\ ept_in'.kind = "none"
            /\ UNCHANGED <<hcbw, htag, setup, busReset, csw, msc_state>>
            /\ \/ ept_in.kind = "csw"
               \/ ept_in.kind = "data" /\ hpc' = hpc /\ hgot' = hgot
        BY <1>20, XferFields DEF HostStatus, HostIn, HostGoesTo, dev, InStatus
      <3>2. QED
        BY <3>1 DEF StatusInv, StatusPhase, InStatus, StallInv
    <2>3. FlagInv'
      BY <1>20 DEF HostStatus, InStatus, HostIn, HostGoesTo, dev, NoXfer, FlagInv, Deaf, Sending, HaltInv, ArmedInv, ExactInv, DataPhaseInv, WaitInv, Resetting, Cleared, AtRest, StallInv, RestInv, Over, EndpointInv, CbwPending, PassOffered, RequestInv
    <2>4. HaltInv'
      BY <1>20, <2>1 DEF HostStatus, InStatus, HostIn, HostGoesTo, dev, NoXfer, HaltInv, Cleared, Resetting, FlagInv, ArmedInv, ExactInv, DataPhaseInv, WaitInv, Deaf, Sending, AtRest, StallInv, RestInv, Over, EndpointInv, CbwPending, PassOffered, RequestInv
    <2>5. ArmedInv'
      BY <1>20 DEF HostStatus, InStatus, HostIn, HostGoesTo, dev, NoXfer, ArmedInv, AtRest, Cleared, Resetting, Sending, FlagInv, HaltInv, ExactInv, DataPhaseInv, WaitInv, Deaf, StallInv, RestInv, Over, EndpointInv, CbwPending, PassOffered, RequestInv
    <2>6. ExactInv'
      BY <2>2 DEF ExactInv, Bytes, Sending, Deaf, HostTypes, BotTypes, CswType
    <2>7. DataPhaseInv'
      BY <1>20 DEF HostStatus, InStatus, HostIn, HostGoesTo, dev, NoXfer, DataPhaseInv, Sending, StatusPhase, FlagInv, HaltInv, ArmedInv, ExactInv, WaitInv, Deaf, Resetting, Cleared, AtRest, StallInv, RestInv, Over, EndpointInv, CbwPending, PassOffered, RequestInv
    <2>8. WaitInv'
      BY <1>20, <2>1 DEF HostStatus, InStatus, HostIn, HostGoesTo, dev, NoXfer, WaitInv, CbwPending, Resetting, FlagInv, HaltInv, ArmedInv, ExactInv, DataPhaseInv, Deaf, Sending, Cleared, AtRest, StallInv, RestInv, Over, EndpointInv, PassOffered, RequestInv
    <2>9. QED
      BY <2>3, <2>4, <2>5, <2>6, <2>7, <2>8 DEF PatientInv
  <1>21. ASSUME NEW v \in Vals, HostDataOut(v)
        PROVE  PatientInv'
    <2>1. (Refused' <=> Refused) /\ (Rejected' <=> Rejected)
      BY <1>21, RejectKept DEF HostDataOut, HostGoesTo, dev
    <2>2. FlagInv'
      BY <1>21 DEF HostDataOut, HostGoesTo, dev, FlagInv, Deaf, Sending, StallInv, WriteInv, ArmedInv, EndpointInv, UsbTypes, Xfers
    <2>3. HaltInv'
      BY <1>21, <2>1 DEF HostDataOut, HostGoesTo, dev, HaltInv, Cleared, Resetting, FlagInv, ArmedInv, ExactInv, DataPhaseInv, WaitInv, Deaf, Sending, AtRest, StallInv, RestInv, Over, EndpointInv, CbwPending, PassOffered, RequestInv
    <2>4. ArmedInv'
      BY <1>21 DEF HostDataOut, HostGoesTo, dev, ArmedInv, AtRest, Cleared, Resetting, Sending, FlagInv, HaltInv, ExactInv, DataPhaseInv, WaitInv, Deaf, StallInv, RestInv, Over, EndpointInv, CbwPending, PassOffered, RequestInv
    <2>5. ExactInv'
      BY <1>21, <2>1 DEF HostDataOut, HostGoesTo, dev, ExactInv, Sending, Deaf, Bytes, FlagInv, HaltInv, ArmedInv, DataPhaseInv, WaitInv, Resetting, Cleared, AtRest, StallInv, RestInv, Over, EndpointInv, CbwPending, PassOffered, RequestInv
    <2>6. DataPhaseInv'
      <3>1. /\ hgot' = hgot + BlkSize /\ hpc' = (IF hgot + BlkSize < hcbw.len THEN "data" ELSE "status")
            /\ UNCHANGED <<hcbw, msc_state, ept_in>> /\ hpc = "data" /\ msc_state = "DATA_OUT"
        BY <1>21 DEF HostDataOut, HostGoesTo, dev, StallInv
      <3>2. hgot \in Nat /\ BlkSize \in Nat /\ hcbw.len \in Nat
        BY ConstAssumption DEF HostTypes, CbwType
      <3>3. QED
        BY <3>1, <3>2 DEF StatusPhase, DataPhaseInv, Sending
    <2>7. WaitInv'
      BY <1>21, <2>1 DEF HostDataOut, HostGoesTo, dev, WaitInv, CbwPending, Resetting, FlagInv, HaltInv, ArmedInv, ExactInv, DataPhaseInv, Deaf, Sending, Cleared, AtRest, StallInv, RestInv, Over, EndpointInv, PassOffered, RequestInv
    <2>8. QED
      BY <2>2, <2>3, <2>4, <2>5, <2>6, <2>7 DEF PatientInv
  <1>22. CASE HostStalled
    <2>1. (Refused' <=> Refused) /\ (Rejected' <=> Rejected)
      BY <1>22, RejectKept DEF HostStalled, HostRequest, HostGoesTo, dev
    <2>2. FlagInv'
      BY <1>22 DEF HostStalled, HostRequest, HostGoesTo, dev, FlagInv, Deaf, Sending, HaltInv, ArmedInv, ExactInv, DataPhaseInv, WaitInv, Resetting, Cleared, AtRest, StallInv, RestInv, Over, EndpointInv, CbwPending, PassOffered, RequestInv
    <2>3. HaltInv'
      BY <1>22, <2>1 DEF HostStalled, HostRequest, HostGoesTo, dev, HaltInv, Cleared, Resetting
    <2>4. ArmedInv'
      BY <1>22 DEF HostStalled, HostRequest, HostGoesTo, dev, ArmedInv, AtRest, Cleared, Resetting, Sending, FlagInv, HaltInv, ExactInv, DataPhaseInv, WaitInv, Deaf, StallInv, RestInv, Over, EndpointInv, CbwPending, PassOffered, RequestInv
    <2>5. ExactInv'
      BY <1>22, <2>1 DEF HostStalled, HostRequest, HostGoesTo, dev, ExactInv, Sending, Deaf, Bytes, FlagInv, HaltInv, ArmedInv, DataPhaseInv, WaitInv, Resetting, Cleared, AtRest, StallInv, RestInv, Over, EndpointInv, CbwPending, PassOffered, RequestInv
    <2>6. DataPhaseInv'
      BY <1>22 DEF HostStalled, HostRequest, HostGoesTo, dev, DataPhaseInv, Sending, StatusPhase, FlagInv, HaltInv, ArmedInv, ExactInv, WaitInv, Deaf, Resetting, Cleared, AtRest, StallInv, RestInv, Over, EndpointInv, CbwPending, PassOffered, RequestInv
    <2>7. WaitInv'
      BY <1>22, <2>1 DEF HostStalled, HostRequest, HostGoesTo, dev, WaitInv, CbwPending, Resetting, FlagInv, HaltInv, ArmedInv, ExactInv, DataPhaseInv, Deaf, Sending, Cleared, AtRest, StallInv, RestInv, Over, EndpointInv, PassOffered, RequestInv
    <2>8. QED
      BY <2>2, <2>3, <2>4, <2>5, <2>6, <2>7 DEF PatientInv
  <1>23. CASE HostGiveUp
    <2>1. (Refused' <=> Refused) /\ (Rejected' <=> Rejected)
      BY <1>23, RejectKept DEF HostGiveUp, HostRequest, HostGoesTo, dev, InCommand, InStatus
    <2>2. FlagInv'
      BY <1>23 DEF HostGiveUp, Quiet, Flags, HostRequest, HostGoesTo, dev, FlagInv, Deaf, Sending, InCommand, InStatus
    <2>3. HaltInv'
      BY <1>23, <2>1 DEF HostGiveUp, HostRequest, HostGoesTo, dev, InCommand, InStatus, HaltInv, Cleared, Resetting, FlagInv, ArmedInv, ExactInv, DataPhaseInv, WaitInv, Deaf, Sending, AtRest, StallInv, RestInv, Over, EndpointInv, CbwPending, PassOffered, RequestInv
    <2>4. ArmedInv'
      BY <1>23 DEF HostGiveUp, HostRequest, HostGoesTo, dev, InCommand, InStatus, ArmedInv, AtRest, Cleared, Resetting, Sending, FlagInv, HaltInv, ExactInv, DataPhaseInv, WaitInv, Deaf, StallInv, RestInv, Over, EndpointInv, CbwPending, PassOffered, RequestInv
    <2>5. ExactInv'
      BY <1>23, <2>1 DEF HostGiveUp, HostRequest, HostGoesTo, dev, InCommand, InStatus, ExactInv, Sending, Deaf, Bytes, FlagInv, HaltInv, ArmedInv, DataPhaseInv, WaitInv, Resetting, Cleared, AtRest, StallInv, RestInv, Over, EndpointInv, CbwPending, PassOffered, RequestInv
    <2>6. DataPhaseInv'
      BY <1>23 DEF HostGiveUp, HostRequest, HostGoesTo, dev, InCommand, InStatus, DataPhaseInv, Sending, StatusPhase, FlagInv, HaltInv, ArmedInv, ExactInv, WaitInv, Deaf, Resetting, Cleared, AtRest, StallInv, RestInv, Over, EndpointInv, CbwPending, PassOffered, RequestInv
    <2>7. WaitInv'
      BY <1>23, <2>1 DEF HostGiveUp, HostRequest, HostGoesTo, dev, InCommand, InStatus, WaitInv, CbwPending, Resetting, FlagInv, HaltInv, ArmedInv, ExactInv, DataPhaseInv, Deaf, Sending, Cleared, AtRest, StallInv, RestInv, Over, EndpointInv, PassOffered, RequestInv
    <2>8. QED
      BY <2>2, <2>3, <2>4, <2>5, <2>6, <2>7 DEF PatientInv
  <1>24. CASE HostGoesOn
    <2>1. (Refused' <=> Refused) /\ (Rejected' <=> Rejected)
      BY <1>24, RejectKept DEF HostGoesOn, HostRequest, HostGoesTo, dev
    <2>2. FlagInv'
      BY <1>24 DEF HostGoesOn, HostRequest, HostGoesTo, dev, FlagInv, Deaf, Sending, HaltInv, ArmedInv, ExactInv, DataPhaseInv, WaitInv, Resetting, Cleared, AtRest, StallInv, RestInv, Over, EndpointInv, CbwPending, PassOffered, RequestInv
    <2>3. HaltInv'
      BY <1>24, <2>1 DEF HostGoesOn, HostRequest, HostGoesTo, dev, HaltInv, Cleared, Resetting, FlagInv, ArmedInv, ExactInv, DataPhaseInv, WaitInv, Deaf, Sending, AtRest, StallInv, RestInv, Over, EndpointInv, CbwPending, PassOffered, RequestInv
    <2>4. ArmedInv'
      BY <1>24 DEF HostGoesOn, HostRequest, HostGoesTo, dev, ArmedInv, AtRest, Cleared, Resetting, Sending, FlagInv, HaltInv, ExactInv, DataPhaseInv, WaitInv, Deaf, StallInv, RestInv, Over, EndpointInv, CbwPending, PassOffered, RequestInv
    <2>5. ExactInv'
      BY <1>24, <2>1 DEF HostGoesOn, HostRequest, HostGoesTo, dev, ExactInv, Sending, Deaf, Bytes, FlagInv, HaltInv, ArmedInv, DataPhaseInv, WaitInv, Resetting, Cleared, AtRest, StallInv, RestInv, Over, EndpointInv, CbwPending, PassOffered, RequestInv
    <2>6. DataPhaseInv'
      BY <1>24 DEF HostGoesOn, HostRequest, HostGoesTo, dev, StatusPhase, DataPhaseInv, Sending, StallInv, HaltInv, Over
    <2>7. WaitInv'
      BY <1>24, <2>1 DEF HostGoesOn, HostRequest, HostGoesTo, dev, WaitInv, CbwPending, Resetting, RestInv, AtRest, Over
    <2>8. QED
      BY <2>2, <2>3, <2>4, <2>5, <2>6, <2>7 DEF PatientInv
  <1>25. CASE HostPortReset
    <2>1. (Refused' <=> Refused) /\ (Rejected' <=> Rejected)
      BY <1>25, RejectKept DEF HostPortReset
    <2>2. FlagInv'
      BY <1>25 DEF HostPortReset, FlagInv, Deaf, Sending, HaltInv, ArmedInv, ExactInv, DataPhaseInv, WaitInv, Resetting, Cleared, AtRest, StallInv, RestInv, Over, EndpointInv, CbwPending, PassOffered, RequestInv
    <2>3. HaltInv'
      BY <1>25, <2>1 DEF HostPortReset, HaltInv, Cleared, Resetting, FlagInv, ArmedInv, ExactInv, DataPhaseInv, WaitInv, Deaf, Sending, AtRest, StallInv, RestInv, Over, EndpointInv, CbwPending, PassOffered, RequestInv
    <2>4. ArmedInv'
      BY <1>25 DEF HostPortReset, ArmedInv, AtRest, Cleared, Resetting, Sending, InCommand, InStatus
    <2>5. ExactInv'
      BY <1>25, <2>1 DEF HostPortReset, ExactInv, Bytes, Sending, Deaf, InCommand, InStatus
    <2>6. DataPhaseInv'
      BY <1>25 DEF HostPortReset, DataPhaseInv, Sending, StatusPhase, FlagInv, HaltInv, ArmedInv, ExactInv, WaitInv, Deaf, Resetting, Cleared, AtRest, StallInv, RestInv, Over, EndpointInv, CbwPending, PassOffered, RequestInv
    <2>7. WaitInv'
      BY <1>25, <2>1 DEF HostPortReset, WaitInv, CbwPending, Resetting, FlagInv, HaltInv, ArmedInv, ExactInv, DataPhaseInv, Deaf, Sending, Cleared, AtRest, StallInv, RestInv, Over, EndpointInv, PassOffered, RequestInv
    <2>8. QED
      BY <2>2, <2>3, <2>4, <2>5, <2>6, <2>7 DEF PatientInv
  <1>26. CASE UNCHANGED vars
    <2>1. (Refused' <=> Refused) /\ (Rejected' <=> Rejected)
      BY <1>26, RejectKept DEF vars
    <2>2. FlagInv'
      BY <1>26 DEF vars, FlagInv, Deaf, Sending, HaltInv, ArmedInv, ExactInv, DataPhaseInv, WaitInv, Resetting, Cleared, AtRest, StallInv, RestInv, Over, EndpointInv, CbwPending, PassOffered, RequestInv
    <2>3. HaltInv'
      BY <1>26, <2>1 DEF vars, HaltInv, Cleared, Resetting, FlagInv, ArmedInv, ExactInv, DataPhaseInv, WaitInv, Deaf, Sending, AtRest, StallInv, RestInv, Over, EndpointInv, CbwPending, PassOffered, RequestInv
    <2>4. ArmedInv'
      BY <1>26 DEF vars, ArmedInv, AtRest, Cleared, Resetting, Sending, FlagInv, HaltInv, ExactInv, DataPhaseInv, WaitInv, Deaf, StallInv, RestInv, Over, EndpointInv, CbwPending, PassOffered, RequestInv
    <2>5. ExactInv'
      BY <1>26, <2>1 DEF vars, ExactInv, Sending, Deaf, Bytes, FlagInv, HaltInv, ArmedInv, DataPhaseInv, WaitInv, Resetting, Cleared, AtRest, StallInv, RestInv, Over, EndpointInv, CbwPending, PassOffered, RequestInv
    <2>6. DataPhaseInv'
      BY <1>26 DEF vars, DataPhaseInv, Sending, StatusPhase, FlagInv, HaltInv, ArmedInv, ExactInv, WaitInv, Deaf, Resetting, Cleared, AtRest, StallInv, RestInv, Over, EndpointInv, CbwPending, PassOffered, RequestInv
    <2>7. WaitInv'
      BY <1>26, <2>1 DEF vars, WaitInv, CbwPending, Resetting, FlagInv, HaltInv, ArmedInv, ExactInv, DataPhaseInv, Deaf, Sending, Cleared, AtRest, StallInv, RestInv, Over, EndpointInv, PassOffered, RequestInv
    <2>8. QED
      BY <2>2, <2>3, <2>4, <2>5, <2>6, <2>7 DEF PatientInv
  <1>27. QED
    BY <1>1, <1>2, <1>3, <1>4, <1>5, <1>6, <1>7, <1>8, <1>9, <1>10, <1>11, <1>12, <1>13, <1>14, <1>15, <1>16, <1>17, <1>18, <1>19, <1>20, <1>21, <1>22, <1>23, <1>24, <1>25, <1>26
       DEF Next, Isr, HostStep

\* It holds at power-up.
LEMMA InitPatient == Init => PatientInv
  <1> SUFFICES ASSUME Init PROVE PatientInv
    OBVIOUS
  <1>1. FlagInv /\ HaltInv /\ ArmedInv /\ ExactInv
    BY DEF Init, NoXfer, FlagInv, HaltInv, ArmedInv, ExactInv, Sending, Deaf, Resetting, AtRest, Cleared
  <1>2. DataPhaseInv /\ WaitInv
    BY DEF Init, DataPhaseInv, WaitInv, StatusPhase, Sending, Resetting
  <1>3. QED
    BY <1>1, <1>2 DEF PatientInv

\* The three invariants together hold throughout, against a patient host.
LEMMA Patient ==
  ASSUME WellFormed, ~AbortEarly
  PROVE  Spec => [](IInv /\ BusInv /\ PatientInv)
  <1>1. Init => IInv /\ BusInv /\ PatientInv
    BY InitInv, InitBus, InitPatient
  <1>2. IInv /\ BusInv /\ PatientInv /\ [Next]_vars => (IInv /\ BusInv /\ PatientInv)'
    BY StepInv, StepBus, StepPatient
  <1>3. QED
    BY <1>1, <1>2, PTL DEF Spec

\* Every status the host takes answers the command it waits for: tag, residue
\* and verdict are those of that command, whatever the host sent, gave up or
\* reset before, for every disk and every set of well-formed commands.
THEOREM StatusAnswersCommand ==
  ASSUME WellFormed, ~AbortEarly
  PROVE  Spec => []CswAnswersCommand
  <1>1. PatientInv => CswAnswersCommand
    BY DEF PatientInv, ExactInv, CswAnswersCommand, CswOffered, Rejected, Refused
  <1>2. QED
    BY Patient, <1>1, PTL

\* Host and device agree on the phase of the command: bot_scsi_datain_handler
\* and bot_scsi_dataout_handler never offer a CSW to a host that moves data,
\* nor data to a host that waits for the CSW.
THEOREM HostAndDeviceAgree ==
  ASSUME WellFormed, ~AbortEarly
  PROVE  Spec => []PhaseAgreement
  <1>1. BusInv /\ PatientInv => PhaseAgreement
    <2> SUFFICES ASSUME BusInv, PatientInv PROVE PhaseAgreement
      OBVIOUS
    <2>1. FlagInv /\ HaltInv /\ ArmedInv /\ DataPhaseInv /\ StatusInv /\ StallInv
      BY DEF PatientInv, BusInv
    <2>2. hpc \in {"idle", "cbw"} => ept_in.kind = "none" /\ ept_out = "cbw"
      BY <2>1 DEF ArmedInv, AtRest, Cleared
    <2>3. hpc = "data" => ept_in.kind # "csw"
      BY <2>1 DEF DataPhaseInv
    <2>4. InStatus /\ ept_in.kind = "data" => ept_in.n = 0
      BY <2>1 DEF InStatus, StatusInv, StatusPhase, StallInv, HaltInv
    <2>5. QED
      BY <2>2, <2>3, <2>4 DEF PhaseAgreement
  <1>2. QED
    BY Patient, <1>1, PTL

\* Host and device never both wait for the other, but for the two cases
\* NoMutualWait names, which the host's timeout resolves.
THEOREM NeverBothWait ==
  ASSUME WellFormed, ~AbortEarly
  PROVE  Spec => []NoMutualWait
  <1>1. IInv /\ BusInv /\ PatientInv => NoMutualWait
    <2> SUFFICES ASSUME IInv, BusInv, PatientInv, InCommand, Quiet, ~HostCanProceed
                 PROVE  (bot_status = "RECOVERY" /\ Refused) \/ (hcbw.op = "write10" /\ hcbw.len = 0)
      BY DEF NoMutualWait, Refused
    <2>1. FlagInv /\ HaltInv /\ ArmedInv /\ DataPhaseInv /\ WaitInv /\ StallInv /\ RequestInv
          /\ WriteInv /\ TransferInv /\ ReadInv /\ HostTypes /\ BotTypes /\ UsbTypes
      BY DEF PatientInv, BusInv, IInv, TypeOK, CommandInv
    <2>2. "IN" \notin xferc /\ "OUT" \notin xferc /\ ~CbwPending
      BY <2>1 DEF Quiet, Flags, CbwPending
    <2>3. hpc \in {"data", "status", "status2"}
      <3>1. hpc = "cbw" => ept_out = "cbw" /\ ~stall_out
        BY <2>1 DEF ArmedInv, AtRest, HaltInv, RequestInv
      <3>2. QED
        BY <3>1 DEF InCommand, InStatus, HostCanProceed
    <2>4. ~Resetting /\ msc_state # "CMD"
      BY <2>1, <2>3 DEF WaitInv, Resetting
    <2>5. CASE msc_state = "IDLE"
      BY <2>1, <2>2, <2>3, <2>5 DEF WaitInv, HostCanProceed, InStatus, DataPhaseInv, HostTypes, CbwType
    <2>6. CASE Sending
      <3>1. ept_in.kind = "data"
        BY <2>1, <2>2, <2>4, <2>6 DEF ArmedInv
      <3>2. hpc = "data" => hcbw.dir = "in"
        BY <2>1, <2>6 DEF DataPhaseInv, StallInv
      <3>3. QED
        BY <2>3, <3>1, <3>2 DEF HostCanProceed, InStatus
    <2>7. CASE msc_state = "DATA_OUT"
      <3>1. ept_out = "data" /\ hcbw.dir = "out" /\ cbw = hcbw /\ cbw.op = "write10"
        BY <2>1, <2>2, <2>4, <2>7 DEF ArmedInv, WriteInv, TransferInv
      <3>2. hpc # "data"
        BY <3>1 DEF HostCanProceed
      <3>3. hgot >= hcbw.len /\ (blk_len = 0 => hcbw.len = 0)
        BY <2>1, <2>3, <2>7, <3>2 DEF DataPhaseInv, StatusPhase, WriteInv
      <3>4. blk_len > 0 => FALSE
        <4>1. SUFFICES ASSUME blk_len > 0 PROVE FALSE
          OBVIOUS
        <4>2. /\ blk_len \in Nat /\ BlkSize \in Nat \ {0} /\ hcbw.cnt \in Nat /\ Len(hblks) \in Nat
          BY <2>1, ConstAssumption DEF BotTypes, HostTypes, CbwType
        <4>3. hcbw.len = hcbw.cnt * BlkSize /\ hgot = Len(hblks) * BlkSize
          BY <2>1, <2>7, <4>1 DEF WriteInv
        <4>4. Len(hblks) + blk_len = hcbw.cnt
          BY <2>1, <2>2, <2>7, <4>1, <4>2 DEF WriteInv, Received
        <4>5. hcbw.cnt * BlkSize = Len(hblks) * BlkSize + blk_len * BlkSize /\ blk_len * BlkSize > 0
          BY <4>1, <4>2, <4>4
        <4>6. QED
          BY <3>3, <4>2, <4>3, <4>5
      <3>5. QED
        BY <2>1, <3>1, <3>3, <3>4 DEF BotTypes
    <2>8. QED
      BY <2>1, <2>4, <2>5, <2>6, <2>7 DEF BotTypes, Sending
  <1>2. QED
    BY Patient, <1>1, PTL

============================================================================
