------------------------------- MODULE MscBot -------------------------------
(***************************************************************************)
(* The USB mass-storage function of the firmware: bulk-only transport and  *)
(* SCSI (usbd_class/composite_cdc_msc/msc_bot_scsi.c), the class handlers  *)
(* that feed it (cdc_msc_class.c), the part of the device core and of the  *)
(* OTG interrupt handler that delivers its events (usb_drivers/src), and   *)
(* the disk below it (USER/msc_diskio.c).                                  *)
(*                                                                         *)
(* Everything on the device runs in the OTG interrupt.  The bus raises     *)
(* flags (xferc, setup, busReset); usbd_irq_handler latches them and       *)
(* serves IN endpoints first, then OUT endpoint 0 (SETUP), then OUT        *)
(* endpoint 1, then the bus reset.  The other party is a host that follows *)
(* the bulk-only protocol, may give a command up at any moment, and then   *)
(* performs a reset recovery or resets the port.                           *)
(*                                                                         *)
(* Data abstraction: blk_addr and blk_len are counted in blocks (the code  *)
(* multiplies both by blk_size, and MSC_MAX_DATA_BUF_LEN = blk_size, so a  *)
(* chunk is one block); lengths and residues are in bytes; the contents of *)
(* a block is one value; a CDB is its operation, first block and count.    *)
(***************************************************************************)
EXTENDS Integers, Sequences

CONSTANTS
  NBlks,    \* blocks of the flash disk: 256 in msc_disk_capacity
  BlkSize,  \* bytes in a block, and MSC_MAX_DATA_BUF_LEN: 4096
  W,        \* modulus of uint32_t, scaled down for model checking
  RespLen,  \* length of the response of each operation that has one
  Vals,     \* the contents of a block
  NTags,    \* the host numbers its commands modulo NTags
  Cbws,     \* the command blocks the host may send
  AbortEarly \* whether the host may give up while an interrupt is unserved

NoDataOps == {"start_stop", "medium_removal", "test_unit", "verify"}
RespOps == {"inquiry", "inquiry_vpd", "mode_sense6", "mode_sense10",
            "capacity", "format_capacity", "request_sense"}
BlockOps == {"read10", "write10"}
Ops == NoDataOps \cup RespOps \cup BlockOps \cup {"verify_bytchk", "unknown"}

CbwType == [op : Ops, dir : {"in", "out"}, len : Nat, lba : 0..(W - 1),
            cnt : Nat, valid : BOOLEAN]

Senses == {"INVALID_COMMAND", "INVALID_FIELD", "ADDRESS_OUT_OF_RANGE"}

ASSUME ConstAssumption ==
  /\ NBlks \in Nat \ {0}
  /\ BlkSize \in Nat \ {0}
  /\ W \in Nat /\ W > NBlks
  /\ RespLen \in [RespOps -> Nat \ {0}]
  /\ Vals # {}
  /\ NTags \in Nat \ {0}
  /\ Cbws \subseteq CbwType
  /\ AbortEarly \in BOOLEAN
  /\ \A o \in RespOps : RespLen[o] < BlkSize      \* at most 36 bytes
  /\ \A c \in Cbws : ~c.valid => c.dir = "in"

VARIABLES
  \* cdc_msc_struct_type and sense_data
  msc_state, bot_status, cbw, dCBWTag, csw, blk_addr, blk_len, blk_nbr,
  data, sense,
  \* usbd_core_type and the OTG registers
  conn_state, ept_in, ept_out, recv, stall_in, stall_out,
  xferc, setup, busReset, intsts,
  \* the flash
  disk,
  \* the host, and what it knows of the command in progress
  hpc, hcbw, htag, hgot, hblks, disk0

bot  == <<msc_state, bot_status, cbw, dCBWTag, csw, blk_addr, blk_len,
          blk_nbr, data, sense>>
ept  == <<ept_in, ept_out, recv, stall_in, stall_out>>
irq  == <<xferc, setup, busReset, intsts>>
host == <<hpc, hcbw, htag, hgot, hblks, disk0>>
vars == <<bot, conn_state, ept, irq, disk, host>>

-----------------------------------------------------------------------------
\* What pmsc->data holds after a command that builds a response in it.
Response == "response"

(* Endpoints.  ept_in is the transfer the IN endpoint is enabled for, as   *)
(* usbd_ept_send left it; "lost" is a transfer whose FIFO was flushed      *)
(* under it, which the bus can no longer complete.  ept_out is the buffer  *)
(* the OUT endpoint is armed with; recv says that trans_len is not 0.      *)

NoXfer == [kind |-> "none", n |-> 0, blk |-> Response,
           tag |-> 0, residue |-> 0, status |-> "PASS"]

DataXfer(n, b) == [NoXfer EXCEPT !.kind = "data", !.n = n, !.blk = b]

CswXfer(c, st) == [NoXfer EXCEPT !.kind = "csw", !.tag = c.tag,
                                 !.residue = c.residue, !.status = st]

Flushed(x) == IF x.kind = "none" THEN x ELSE [NoXfer EXCEPT !.kind = "lost"]

\* usbd_ept_recv: arm the OUT endpoint; trans_len becomes 0.
EptRecv(buf) == ept_out' = buf /\ recv' = FALSE

\* The MIN macro; its cast to uint16_t keeps every length that the code takes
\* the minimum of, at most MSC_MAX_DATA_BUF_LEN.
MinOf(a, b) == IF a <= b THEN a ELSE b

-----------------------------------------------------------------------------
(* SCSI commands.                                                          *)

\* Mutant of AddressBad: the range may end one block behind the disk.
AddressBadOffByOne(c) == (c.lba + c.cnt) % W > blk_nbr + 1

\* bot_scsi_check_address: the sum is a uint32_t.
AddressBad(c) == (c.lba + c.cnt) % W > blk_nbr

\* The commands that store blk_addr and blk_len and then check the range;
\* read10 and write10 check the direction flag of the CBW first.
StoresRange(c) ==
  \/ c.op = "verify"
  \/ c.op = "read10" /\ c.dir = "in"
  \/ c.op = "write10" /\ c.dir = "out"

\* Once the range is accepted, read10 and write10 multiply the first block and
\* the count by blk_size, which is 0, like blk_nbr, until the host has asked
\* for the capacity.
Scaled(c, n) == IF c.op \in BlockOps /\ ~AddressBad(c) /\ blk_nbr = 0 THEN 0 ELSE n

StoreRange(c) ==
  IF StoresRange(c) THEN blk_addr' = Scaled(c, c.lba) /\ blk_len' = Scaled(c, c.cnt)
                    ELSE UNCHANGED <<blk_addr, blk_len>>

\* Rejected as SENSE_KEY_ILLEGAL_REQUEST / INVALID_COMMAND.
BadCommand(c) ==
  \/ c.op = "unknown"
  \/ c.op = "test_unit" /\ c.len # 0
  \/ c.op \in BlockOps /\ ~StoresRange(c)
  \/ c.op \in BlockOps /\ ~AddressBad(c) /\ c.len # Scaled(c, c.cnt) * BlkSize

\* The sense code with which bot_scsi_cmd_process rejects a command that
\* arrives in MSC_STATE_MACHINE_IDLE, "none" if it accepts it.
Reject(c) ==
  CASE c.op = "verify_bytchk"              -> "INVALID_FIELD"
    [] StoresRange(c) /\ AddressBad(c)     -> "ADDRESS_OUT_OF_RANGE"
    [] BadCommand(c)                       -> "INVALID_COMMAND"
    [] OTHER                               -> "none"

\* pmsc->data_len as the command leaves it.
DataLen(c) ==
  IF c.op \in NoDataOps THEN 0
  ELSE IF c.op \in {"inquiry", "request_sense"} THEN MinOf(RespLen[c.op], c.len)
  ELSE RespLen[c.op]

\* Mutant of DiskBlock: the sector number is off by one.
DiskBlockOffByOne(a) == (a + 1) % NBlks

\* The flash decodes as many address bits as it has blocks.
DiskBlock(a) == a % NBlks

-----------------------------------------------------------------------------
(* Replies of the transport.                                               *)

\* Mutant of SendCsw: the OUT endpoint is not armed for the next CBW.
SendCswUnarmed(c, st) ==
  /\ csw' = c
  /\ msc_state' = "IDLE"
  /\ ept_in' = CswXfer(c, st)
  /\ UNCHANGED <<ept_out, recv>>

\* bot_scsi_send_csw: queue the CSW, go back to IDLE, arm for the next CBW.
SendCsw(c, st) ==
  /\ csw' = c
  /\ msc_state' = "IDLE"
  /\ ept_in' = CswXfer(c, st)
  /\ EptRecv("cbw")

\* Mutant of Stall: only the IN endpoint is stalled.
StallInOnly(status) ==
  /\ stall_in' = TRUE
  /\ UNCHANGED stall_out
  /\ IF status = "ERROR" THEN EptRecv("cbw") ELSE UNCHANGED <<ept_out, recv>>

\* bot_scsi_stall, with the bot_status the caller leaves.
Stall(status) ==
  /\ stall_in' = TRUE
  /\ stall_out' = (stall_out \/ (cbw.len # 0 /\ cbw.dir = "out" /\ status = "IDLE"))
  /\ IF status = "ERROR" THEN EptRecv("cbw") ELSE UNCHANGED <<ept_out, recv>>

\* Mutant of ReadChunk: blk_addr is not advanced.
ReadChunkSameBlock(a, n, c) ==
  LET k == MinOf(n, 1) IN
  /\ ept_in' = DataXfer(k * BlkSize, disk[DiskBlock(a)])
  /\ data' = IF k = 1 THEN disk[DiskBlock(a)] ELSE data
  /\ blk_addr' = a
  /\ blk_len' = n - k
  /\ csw' = [c EXCEPT !.residue = @ - k * BlkSize]
  /\ msc_state' = IF n = k THEN "LAST_DATA" ELSE "DATA_IN"

\* One chunk of READ(10): read the disk, send, advance, take it off the residue.
ReadChunk(a, n, c) ==
  LET k == MinOf(n, 1) IN
  /\ ept_in' = DataXfer(k * BlkSize, disk[DiskBlock(a)])
  /\ data' = IF k = 1 THEN disk[DiskBlock(a)] ELSE data
  /\ blk_addr' = a + k
  /\ blk_len' = n - k
  /\ csw' = [c EXCEPT !.residue = @ - k * BlkSize]
  /\ msc_state' = IF n = k THEN "LAST_DATA" ELSE "DATA_IN"

-----------------------------------------------------------------------------
(* The OTG interrupt.                                                      *)

Flags == xferc \cup (IF setup # "none" THEN {"SETUP"} ELSE {})
               \cup (IF busReset THEN {"USBRST"} ELSE {})

\* usbd_irq_handler reads the interrupt status once, on entry.
IrqEnter ==
  /\ intsts = {} /\ Flags # {}
  /\ intsts' = Flags
  /\ UNCHANGED <<bot, conn_state, ept, xferc, setup, busReset, disk, host>>

\* The order in which one invocation serves the flags it has latched.
MayServe(f) ==
  /\ f \in intsts
  /\ CASE f = "IN"     -> TRUE
       [] f = "SETUP"  -> "IN" \notin intsts
       [] f = "OUT"    -> intsts \cap {"IN", "SETUP"} = {}
       [] f = "USBRST" -> intsts = {"USBRST"}

\* usbd_inept_handler and usbd_outept_handler clear the flag and call the
\* class handler of a configured device.
ServeXfer(f) ==
  /\ MayServe(f)
  /\ conn_state = "CONFIGURED"
  /\ intsts' = intsts \ {f}
  /\ xferc' = xferc \ {f}
  /\ UNCHANGED <<setup, busReset, conn_state, host>>

\* Mutant of DecodedCsw: the tag of the previous command is kept.
DecodedCswStaleTag == [tag |-> csw.tag, residue |-> cbw.len]

\* bot_cbw_decode copies tag and transfer length first.
DecodedCsw == [tag |-> dCBWTag, residue |-> cbw.len]

CbwAccepted == cbw.valid /\ recv

ServeCbw ==
  /\ ServeXfer("OUT")
  /\ msc_state = "IDLE"
  /\ UNCHANGED <<cbw, dCBWTag, disk>>

\* bot_cbw_decode, malformed CBW.
CbwInvalid ==
  /\ ServeCbw
  /\ ~CbwAccepted
  /\ csw' = DecodedCsw
  /\ sense' = "INVALID_COMMAND"
  /\ bot_status' = "ERROR"
  /\ Stall("ERROR")
  /\ UNCHANGED <<msc_state, blk_addr, blk_len, blk_nbr, data, ept_in>>

\* bot_cbw_decode, command rejected by bot_scsi_cmd_process.
CmdRejected ==
  /\ ServeCbw
  /\ CbwAccepted /\ Reject(cbw) # "none"
  /\ csw' = DecodedCsw
  /\ sense' = Reject(cbw)
  /\ StoreRange(cbw)
  /\ Stall(bot_status)
  /\ UNCHANGED <<msc_state, bot_status, blk_nbr, data, ept_in>>

\* bot_cbw_decode, command done with nothing to send: CSW at once.
CmdNoData ==
  /\ ServeCbw
  /\ CbwAccepted /\ Reject(cbw) = "none" /\ cbw.op \notin BlockOps
  /\ DataLen(cbw) = 0
  /\ SendCsw(DecodedCsw, "PASS")
  /\ StoreRange(cbw)
  /\ UNCHANGED <<bot_status, blk_nbr, data, sense, stall_in, stall_out>>

\* bot_cbw_decode, command with a response: bot_scsi_send_data.
CmdSendData ==
  /\ ServeCbw
  /\ CbwAccepted /\ Reject(cbw) = "none" /\ cbw.op \notin BlockOps
  /\ DataLen(cbw) > 0
  /\ LET n == MinOf(DataLen(cbw), cbw.len) IN
       /\ csw' = [DecodedCsw EXCEPT !.residue = @ - n]
       /\ ept_in' = DataXfer(n, Response)
  /\ data' = Response
  /\ msc_state' = "SEND_DATA"
  /\ blk_nbr' = IF cbw.op \in {"capacity", "format_capacity"} THEN NBlks ELSE blk_nbr
  /\ UNCHANGED <<bot_status, blk_addr, blk_len, sense,
                 ept_out, recv, stall_in, stall_out>>

\* bot_scsi_read10 in IDLE: the first chunk goes out with the command.
Read10Start ==
  /\ ServeCbw
  /\ CbwAccepted /\ Reject(cbw) = "none" /\ cbw.op = "read10"
  /\ ReadChunk(Scaled(cbw, cbw.lba), Scaled(cbw, cbw.cnt), DecodedCsw)
  /\ UNCHANGED <<bot_status, blk_nbr, sense, ept_out, recv, stall_in, stall_out>>

\* bot_scsi_write10 in IDLE: arm the OUT endpoint for the first chunk.
Write10Start ==
  /\ ServeCbw
  /\ CbwAccepted /\ Reject(cbw) = "none" /\ cbw.op = "write10"
  /\ csw' = DecodedCsw
  /\ msc_state' = "DATA_OUT"
  /\ StoreRange(cbw)
  /\ EptRecv("data")
  /\ UNCHANGED <<bot_status, blk_nbr, data, sense, ept_in, stall_in, stall_out>>

\* bot_scsi_dataout_handler in DATA_OUT: program the chunk, then re-arm or
\* send the CSW.  The received length is not looked at.
Write10Next ==
  /\ ServeXfer("OUT")
  /\ msc_state = "DATA_OUT"
  /\ LET k == MinOf(blk_len, 1)
         c == [csw EXCEPT !.residue = @ - k * BlkSize] IN
       /\ disk' = IF k = 1 THEN [disk EXCEPT ![DiskBlock(blk_addr)] = data] ELSE disk
       /\ blk_addr' = blk_addr + k
       /\ blk_len' = blk_len - k
       /\ IF blk_len = k
          THEN SendCsw(c, "PASS")
          ELSE /\ csw' = c
               /\ EptRecv("data")
               /\ UNCHANGED <<msc_state, ept_in>>
  /\ UNCHANGED <<bot_status, cbw, dCBWTag, blk_nbr, data, sense, stall_in, stall_out>>

\* bot_scsi_datain_handler in DATA_IN: the next chunk of READ(10).
Read10Next ==
  /\ ServeXfer("IN")
  /\ msc_state = "DATA_IN"
  /\ ReadChunk(blk_addr, blk_len, csw)
  /\ UNCHANGED <<bot_status, cbw, dCBWTag, blk_nbr, sense, ept_out, recv,
                 stall_in, stall_out, disk>>

\* bot_scsi_datain_handler after the last data: the CSW.
DataInDone ==
  /\ ServeXfer("IN")
  /\ msc_state \in {"LAST_DATA", "SEND_DATA"}
  /\ SendCsw(csw, "PASS")
  /\ UNCHANGED <<bot_status, cbw, dCBWTag, blk_addr, blk_len, blk_nbr, data,
                 sense, stall_in, stall_out, disk>>

\* The default branches of the two handlers: the event changes nothing.
XferIgnored(f) ==
  /\ ServeXfer(f)
  /\ msc_state \notin (IF f = "IN" THEN {"DATA_IN", "LAST_DATA", "SEND_DATA"}
                                   ELSE {"IDLE", "DATA_OUT"})
  /\ UNCHANGED <<bot, ept, disk>>

-----------------------------------------------------------------------------
(* Control requests on endpoint 0.                                         *)

ServeSetup(r) ==
  /\ MayServe("SETUP")
  /\ setup = r
  /\ setup' = "none"
  /\ intsts' = intsts \ {"SETUP"}
  /\ UNCHANGED <<xferc, busReset, disk, host, cbw, dCBWTag,
                 blk_addr, blk_len, blk_nbr, data, sense>>

\* Mutant of BulkOnlyReset: msc_state is not reset.
BulkOnlyResetKeepsState ==
  /\ ServeSetup("BO_RESET")
  /\ bot_status' = "RECOVERY"
  /\ ept_in' = Flushed(ept_in)
  /\ EptRecv("cbw")
  /\ UNCHANGED <<msc_state, csw, conn_state, stall_in, stall_out>>

\* MSC_REQ_BO_RESET: bot_scsi_reset flushes the FIFO of the IN endpoint but
\* does not disable it.
BulkOnlyReset ==
  /\ ServeSetup("BO_RESET")
  /\ msc_state' = "IDLE"
  /\ bot_status' = "RECOVERY"
  /\ ept_in' = Flushed(ept_in)
  /\ EptRecv("cbw")
  /\ UNCHANGED <<csw, conn_state, stall_in, stall_out>>

\* CLEAR_FEATURE(ENDPOINT_HALT) on the IN endpoint: usbd_endpoint_request
\* clears the stall, the class handler closes, flushes and reopens the
\* endpoint, and bot_scsi_clear_feature stalls again or sends the CSW.
ClearFeatureIn ==
  /\ ServeSetup("CLEAR_IN")
  /\ UNCHANGED <<conn_state, stall_out>>
  /\ \/ /\ bot_status = "ERROR"
        /\ bot_status' = "IDLE"
        /\ stall_in' = TRUE
        /\ ept_in' = NoXfer
        /\ UNCHANGED <<msc_state, csw, ept_out, recv>>
     \/ /\ bot_status = "IDLE"
        /\ stall_in' = FALSE
        /\ SendCsw(csw, "FAILED")
        /\ UNCHANGED bot_status
     \/ /\ bot_status = "RECOVERY"
        /\ stall_in' = FALSE
        /\ ept_in' = NoXfer
        /\ UNCHANGED <<msc_state, bot_status, csw, ept_out, recv>>

\* CLEAR_FEATURE(ENDPOINT_HALT) on the OUT endpoint: class_setup_handler
\* hands it to the CDC handler, which ignores it.
ClearFeatureOut ==
  /\ ServeSetup("CLEAR_OUT")
  /\ stall_out' = FALSE
  /\ UNCHANGED <<msc_state, bot_status, csw, conn_state, ept_in, ept_out, recv, stall_in>>

\* SET_CONFIGURATION: class_init_handler opens the endpoints and runs
\* bot_scsi_init.
SetConfiguration ==
  /\ ServeSetup("SET_CONFIG")
  /\ conn_state = "DEFAULT"
  /\ conn_state' = "CONFIGURED"
  /\ msc_state' = "IDLE"
  /\ bot_status' = "IDLE"
  /\ csw' = [tag |-> 0, residue |-> 0]
  /\ ept_in' = Flushed(ept_in)
  /\ EptRecv("cbw")
  /\ UNCHANGED <<stall_in, stall_out>>

\* Mutant of UsbReset: the reset flag is not cleared.
UsbResetKeepsFlag ==
  /\ MayServe("USBRST")
  /\ xferc' = {} /\ setup' = "none" /\ intsts' = {}
  /\ conn_state' = "DEFAULT"
  /\ ept_in' = NoXfer /\ ept_out' = "none"
  /\ stall_in' = FALSE /\ stall_out' = FALSE
  /\ UNCHANGED <<bot, busReset, recv, disk, host>>

\* usbd_reset_handler and the usbd_enumdone_handler that follows it: every
\* flag and stall is cleared, class_clear_handler closes the endpoints.
UsbReset ==
  /\ MayServe("USBRST")
  /\ busReset' = FALSE /\ xferc' = {} /\ setup' = "none" /\ intsts' = {}
  /\ conn_state' = "DEFAULT"
  /\ ept_in' = NoXfer /\ ept_out' = "none"
  /\ stall_in' = FALSE /\ stall_out' = FALSE
  /\ UNCHANGED <<bot, recv, disk, host>>

-----------------------------------------------------------------------------
(* The host.                                                               *)

dev == <<conn_state, stall_in, stall_out, intsts, disk, msc_state, bot_status,
         csw, blk_addr, blk_len, blk_nbr, sense>>

InStatus == hpc \in {"status", "status2"}
InCommand == hpc \in {"cbw", "data"} \/ InStatus

\* What the host and the disk exchanged is forgotten between commands.
HostGoesTo(next, got, blks) ==
  /\ hpc' = next
  /\ hgot' = (IF next = "idle" THEN 0 ELSE got)
  /\ hblks' = (IF next = "idle" THEN <<>> ELSE blks)
  /\ disk0' = (IF next = "idle" THEN disk ELSE disk0)

HostIssue(c) ==
  /\ hpc = "idle"
  /\ hpc' = "cbw"
  /\ hcbw' = c
  /\ htag' = (htag + 1) % NTags
  /\ UNCHANGED <<bot, conn_state, ept, irq, disk, hgot, hblks, disk0>>

\* The CBW crosses the bus; usbd_rxflvl_handler copies it to cbw_struct.
HostCbw ==
  /\ hpc = "cbw"
  /\ ept_out = "cbw" /\ ~stall_out
  /\ cbw' = hcbw /\ dCBWTag' = htag
  /\ ept_out' = "none" /\ recv' = TRUE
  /\ xferc' = xferc \cup {"OUT"}
  /\ hpc' = IF hcbw.len = 0 THEN "status" ELSE "data"
  /\ UNCHANGED <<dev, data, ept_in, setup, busReset, hcbw, htag, hgot, hblks, disk0>>

\* The host takes what the IN endpoint offers: next is where it goes on.
HostIn(next, got, blks) ==
  /\ ~stall_in
  /\ ept_in' = NoXfer
  /\ xferc' = xferc \cup {"IN"}
  /\ HostGoesTo(next, got, blks)
  /\ UNCHANGED <<dev, cbw, dCBWTag, data, ept_out, recv, setup, busReset, hcbw, htag>>

\* A full block that is not the last keeps the host in the data phase, a
\* short packet ends it.
HostDataIn ==
  /\ hpc = "data" /\ hcbw.dir = "in"
  /\ ept_in.kind = "data"
  /\ HostIn(IF ept_in.n = BlkSize /\ hgot + BlkSize < hcbw.len THEN "data" ELSE "status",
            hgot + ept_in.n, Append(hblks, ept_in.blk))

\* Status phase.  A zero-length packet is not a CSW: the host asks again.
HostStatus ==
  /\ InStatus
  /\ \/ ept_in.kind = "csw" /\ HostIn("idle", hgot, hblks)
     \/ ept_in.kind = "data" /\ HostIn(hpc, hgot, hblks)

HostDataOut(v) ==
  /\ hpc = "data" /\ hcbw.dir = "out"
  /\ ept_out = "data" /\ ~stall_out
  /\ data' = v
  /\ ept_out' = "none" /\ recv' = TRUE
  /\ xferc' = xferc \cup {"OUT"}
  /\ HostGoesTo(IF hgot + BlkSize < hcbw.len THEN "data" ELSE "status",
                hgot + BlkSize, Append(hblks, v))
  /\ UNCHANGED <<dev, cbw, dCBWTag, ept_in, setup, busReset, hcbw, htag>>

HostRequest(pc, r) ==
  /\ setup = "none" /\ ~busReset
  /\ setup' = r
  /\ HostGoesTo(pc, hgot, hblks)
  /\ UNCHANGED <<dev, cbw, dCBWTag, data, ept_in, ept_out, recv, xferc,
                 busReset, hcbw, htag>>

\* A stalled endpoint is cleared; a second stall in the status phase, and
\* the end of the host's patience, start a reset recovery.
HostStalled ==
  \/ hpc = "data" /\ hcbw.dir = "in" /\ stall_in /\ HostRequest("clr_data", "CLEAR_IN")
  \/ hpc = "data" /\ hcbw.dir = "out" /\ stall_out /\ HostRequest("clr_data", "CLEAR_OUT")
  \/ hpc = "status" /\ stall_in /\ HostRequest("clr_status", "CLEAR_IN")
  \/ hpc = "status2" /\ stall_in /\ HostRequest("rr_reset", "BO_RESET")

\* Without AbortEarly the host's timeout is long against the interrupt
\* latency: it gives up only on a device that has nothing left to serve.
Quiet == Flags = {} /\ intsts = {}

HostGiveUp ==
  /\ InCommand
  /\ AbortEarly \/ Quiet
  /\ HostRequest("rr_reset", "BO_RESET")

\* The control transfer is over (its status stage was sent).
HostGoesOn ==
  \/ hpc = "clr_data" /\ HostRequest("status", "none")
  \/ hpc = "clr_status" /\ HostRequest("status2", "none")
  \/ hpc = "rr_reset" /\ HostRequest("rr_in", "CLEAR_IN")
  \/ hpc = "rr_in" /\ HostRequest("rr_out", "CLEAR_OUT")
  \/ hpc = "rr_out" /\ HostRequest("idle", "none")
  \/ hpc = "reset" /\ HostRequest("config", "SET_CONFIG")
  \/ hpc = "config" /\ HostRequest("idle", "none")

HostPortReset ==
  /\ hpc = "idle" \/ InCommand
  /\ ~busReset
  /\ busReset' = TRUE
  /\ hpc' = "reset"
  /\ UNCHANGED <<bot, conn_state, ept, xferc, setup, intsts, disk, hcbw, htag,
                 hgot, hblks, disk0>>

-----------------------------------------------------------------------------
ZeroCbw == [op |-> "test_unit", dir |-> "out", len |-> 0, lba |-> 0,
            cnt |-> 0, valid |-> FALSE]

\* Power-up: statics are zero, the host is about to configure the device.
Init ==
  /\ msc_state = "CMD" /\ bot_status = "IDLE"
  /\ cbw = ZeroCbw /\ dCBWTag = 0 /\ csw = [tag |-> 0, residue |-> 0]
  /\ blk_addr = 0 /\ blk_len = 0 /\ blk_nbr = 0
  /\ data = Response /\ sense = "INVALID_COMMAND"
  /\ conn_state = "DEFAULT"
  /\ ept_in = NoXfer /\ ept_out = "none" /\ recv = FALSE
  /\ stall_in = FALSE /\ stall_out = FALSE
  /\ xferc = {} /\ setup = "none" /\ busReset = FALSE /\ intsts = {}
  /\ disk \in [0..(NBlks - 1) -> Vals]
  /\ hpc = "reset" /\ hcbw = ZeroCbw /\ htag = 0 /\ hgot = 0 /\ hblks = <<>>
  /\ disk0 = disk

Isr ==
  \/ IrqEnter
  \/ CbwInvalid \/ CmdRejected \/ CmdNoData \/ CmdSendData
  \/ Read10Start \/ Read10Next \/ DataInDone
  \/ Write10Start \/ Write10Next
  \/ \E f \in {"IN", "OUT"} : XferIgnored(f)
  \/ BulkOnlyReset \/ ClearFeatureIn \/ ClearFeatureOut
  \/ SetConfiguration \/ UsbReset

HostStep ==
  \/ HostCbw \/ HostDataIn \/ HostStatus
  \/ \E v \in Vals : HostDataOut(v)
  \/ HostStalled \/ HostGoesOn

Next ==
  \/ Isr
  \/ HostStep
  \/ \E c \in Cbws : HostIssue(c)
  \/ HostGiveUp \/ HostPortReset

Spec == Init /\ [][Next]_vars

-----------------------------------------------------------------------------
(* Properties.                                                             *)

CswType == [tag : 0..(NTags - 1), residue : Nat]

Xfers == [kind : {"none", "data", "csw", "lost"}, n : Nat,
          blk : Vals \cup {Response}, tag : 0..(NTags - 1), residue : Nat,
          status : {"PASS", "FAILED"}]

BotTypes ==
  /\ msc_state \in {"CMD", "IDLE", "DATA_IN", "DATA_OUT", "SEND_DATA", "LAST_DATA"}
  /\ bot_status \in {"IDLE", "RECOVERY", "ERROR"}
  /\ cbw \in CbwType /\ dCBWTag \in 0..(NTags - 1)
  /\ csw \in CswType
  /\ blk_addr \in Nat /\ blk_len \in Nat /\ blk_nbr \in {0, NBlks}
  /\ data \in Vals \cup {Response} /\ sense \in Senses

UsbTypes ==
  /\ conn_state \in {"DEFAULT", "CONFIGURED"}
  /\ ept_in \in Xfers /\ ept_out \in {"none", "cbw", "data"} /\ recv \in BOOLEAN
  /\ stall_in \in BOOLEAN /\ stall_out \in BOOLEAN
  /\ xferc \subseteq {"IN", "OUT"}
  /\ setup \in {"none", "BO_RESET", "CLEAR_IN", "CLEAR_OUT", "SET_CONFIG"}
  /\ busReset \in BOOLEAN /\ intsts \subseteq {"IN", "OUT", "SETUP", "USBRST"}

HostTypes ==
  /\ disk \in [0..(NBlks - 1) -> Vals] /\ disk0 \in [0..(NBlks - 1) -> Vals]
  /\ hpc \in {"idle", "cbw", "data", "status", "status2", "clr_data", "clr_status",
              "rr_reset", "rr_in", "rr_out", "reset", "config"}
  /\ hcbw \in CbwType /\ htag \in 0..(NTags - 1)
  /\ hgot \in Nat /\ hblks \in Seq(Vals \cup {Response})

\* Every variable has its type; in particular dCSWDataResidue, an unsigned
\* field the code only subtracts from, never goes below 0, and a block of
\* the disk never holds a response built in the shared buffer pmsc->data.
TypeOK == BotTypes /\ UsbTypes /\ HostTypes

\* The commands of a host that follows SCSI: nothing to transfer for a command
\* without data, and a response is read.  TEST UNIT READY is free, since
\* bot_scsi_test_unit checks its length itself.
WellFormed ==
  \A c \in Cbws :
    /\ c.op \in NoDataOps \ {"test_unit"} => c.len = 0
    /\ c.op \in RespOps /\ c.len > 0 => c.dir = "in"

\* A CSW the host is about to take.
CswOffered == InStatus /\ ~stall_in /\ ept_in.kind = "csw"

\* The uint32_t sum of bot_scsi_check_address wraps around.
Wraps(c) == c.lba + c.cnt >= W

\* Every status the host takes answers the command it waits for: its tag is
\* the one of that command, its residue is what the data phase left
\* untransferred, and it says FAILED only if the command was malformed or one
\* bot_scsi_cmd_process rejects.  Steps of host and interrupt interleave: the
\* completion of a CSW and the next CBW may be served in one interrupt.
CswAnswersCommand ==
  CswOffered =>
    /\ ept_in.tag = htag
    /\ ept_in.residue + hgot = hcbw.len
    /\ ept_in.status = "FAILED" => ~hcbw.valid \/ Reject(hcbw) # "none"

\* READ(10) and WRITE(10) that pass have moved every block of the request,
\* in order and inside the disk, even if the host aborts commands while
\* their interrupts are unserved; the residue is exact.
PassMeansDone ==
  CswOffered /\ ept_in.status = "PASS" =>
    /\ ept_in.tag = htag
    /\ ept_in.residue + hgot = hcbw.len
    /\ hcbw.op \in BlockOps /\ ~Wraps(hcbw) =>
         /\ hcbw.lba + hcbw.cnt <= NBlks
         /\ Len(hblks) = hcbw.cnt
         /\ \A i \in 1..hcbw.cnt : hblks[i] = disk[hcbw.lba + i - 1]

\* The disk with the first k blocks the host sent written at block a.
Overlay(d, a, k) ==
  [b \in DOMAIN d |-> IF b \in a..(a + k - 1) THEN hblks[b - a + 1] ELSE d[b]]

\* At every moment, aborts and bus resets included, the disk is what it was
\* when the command began with a prefix of the blocks the host has sent
\* written at the requested address: msc_disk_write never skips, repeats or
\* displaces a block, and only the last one sent may still be missing.
DiskHoldsPrefix ==
  ~Wraps(hcbw) =>
    IF hcbw.op = "write10"
    THEN \E k \in {Len(hblks) - 1, Len(hblks)} : disk = Overlay(disk0, hcbw.lba, k)
    ELSE disk = disk0

\* Host and device agree on the phase: no CSW is offered outside the status
\* phase, no data inside it, and a device with nothing to serve has a CBW
\* buffer armed for an idle host.
PhaseAgreement ==
  /\ hpc \in {"idle", "cbw"} => ept_in.kind = "none"
  /\ hpc \in {"idle", "cbw"} /\ Quiet => ept_out = "cbw"
  /\ hpc = "data" => ept_in.kind # "csw" \/ stall_in
  /\ InStatus /\ ept_in.kind = "data" => ept_in.n = 0

\* The host can take its next step of the command in progress.
HostCanProceed ==
  \/ hpc = "cbw" /\ ept_out = "cbw" /\ ~stall_out
  \/ hpc = "data" /\ hcbw.dir = "in" /\ (stall_in \/ ept_in.kind = "data")
  \/ hpc = "data" /\ hcbw.dir = "out" /\ (stall_out \/ ept_out = "data")
  \/ InStatus /\ (stall_in \/ ept_in.kind \in {"csw", "data"})

\* Host and device never both wait for the other, with two exceptions that
\* only the host's timeout resolves: a command rejected after a Bulk-Only
\* Reset (bot_status stays RECOVERY, so bot_scsi_stall does not stall OUT and
\* bot_scsi_clear_feature sends no CSW), and WRITE(10) of zero blocks
\* (bot_scsi_write10 waits for data that the host has no reason to send; a
\* range that wraps to 0 counts as no block before the capacity is known).
NoMutualWait ==
  InCommand /\ Quiet /\ ~HostCanProceed =>
    \/ bot_status = "RECOVERY" /\ Reject(hcbw) # "none"
    \/ hcbw.op = "write10" /\ hcbw.len = 0

\* A block of the disk changes only while WRITE(10) is the current command,
\* and then only inside the range it names.
WritesStayInRange ==
  [][\A b \in 0..(NBlks - 1) : disk'[b] # disk[b] =>
       /\ cbw.op = "write10"
       /\ Wraps(cbw) \/ b \in cbw.lba..(cbw.lba + cbw.cnt - 1)]_vars

\* What the handlers keep between the interrupts of one command.  Endpoint:
\* a completed OUT transfer disarms its buffer, and the buffer for a CBW is
\* armed only in MSC_STATE_MACHINE_IDLE.
EndpointInv ==
  /\ recv => ept_out = "none"
  /\ ept_out = "cbw" => msc_state = "IDLE"
  /\ "OUT" \in intsts => "OUT" \in xferc

\* Transfer: the residue is what is left of the blocks, and the blocks left
\* of a WRITE(10) end where its CBW says.
TransferInv ==
  /\ msc_state \in {"DATA_IN", "DATA_OUT"} => csw.residue = blk_len * BlkSize
  /\ msc_state = "DATA_OUT" =>
       /\ "OUT" \in xferc => data \in Vals
       /\ cbw.op = "write10"
       /\ blk_len > 0 => cbw.lba <= blk_addr /\ blk_addr + blk_len = cbw.lba + cbw.cnt
       /\ Wraps(cbw) \/ cbw.lba + cbw.cnt <= NBlks

\* The buffers and counters of a transfer agree with the command block it
\* serves, whenever the host aborts it or resets the device: why the residue
\* never underflows and writes stay in range.
CommandInv == EndpointInv /\ TransferInv

\* The interrupt is the highest priority of the system; the host goes on
\* with a command as long as it can and its timer eventually expires.
Fairness == WF_vars(Isr) /\ WF_vars(HostStep) /\ WF_vars(HostGiveUp)
FairSpec == Spec /\ Fairness

\* Every command ends: the host is idle again and again, whatever it sends,
\* gives up or resets.
BackToIdle == []<>(hpc = "idle")
=============================================================================
