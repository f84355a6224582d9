# TLA+ models of the AT32F437 Ethernet / USB firmware

The firmware is a FreeRTOS application for the AT32F437: an lwIP network
interface on the chip's EMAC, and a composite USB device made of a mass-storage
function (the SPI flash as a disk) and a CDC serial port that carries a Modbus
RTU slave. This directory holds TLA+ models of its concurrent parts, the TLC
configurations that check them on small instances, and TLAPS proofs of their
main invariants for every value of the constants.

`PROJECT.json` is the index: components, runs, the source lines behind every
definition (`map`), a mutant for every property, the hazards of the code and
the theorems.

## 1. The system

| Component | Sources | State | Operations | Runs in |
|---|---|---|---|---|
| USB mass storage | `usbd_class/composite_cdc_msc/msc_bot_scsi.c` | `msc_state`, `bot_status`, `cbw`, `csw`, `blk_addr`, `blk_len`, `blk_nbr`, `blk_size`, `data`, `sense_data` | CBW decoding, twelve SCSI commands, data in, data out, CSW, stall, reset, clear feature | OTG interrupt |
| USB class glue | `composite_cdc_msc/cdc_msc_class.c` | `g_rx_completed`, `g_tx_completed`, `g_rx_buff`, `g_rxlen` | init, clear, setup, IN and OUT handlers; `usb_vcp_get_rxdata`, `usb_vcp_send_data` | OTG interrupt; USB task |
| USB device core | `usb_drivers/src/usbd_core.c`, `usbd_int.c` | `conn_state`, `old_conn_state`, stage of endpoint 0, endpoint records, OTG registers | interrupt handler, stages of a control transfer, arming of endpoints, reset, suspend, wakeup | OTG interrupt; USB task |
| USB standard requests | `usb_drivers/src/usbd_sdr.c` | address, configuration | device, interface and endpoint requests | OTG interrupt |
| Disk | `USER/msc_diskio.c`, `SPI-FLASH/` | flash contents | read, write (erase, sixteen page programs), capacity | OTG interrupt |
| Ethernet receive | `LWIP/port/ethernetif.c`, `USER/main.c` | `DMARxDscrTab`, `Rx_Buff`, `dma_rx_desc_to_get`, RBU | size poll, `emac_rxpkt_chainmode`, `low_level_input` | network task; EMAC DMA |
| Ethernet transmit | `LWIP/port/ethernetif.c` | `DMATxDscrTab`, `Tx_Buff`, `dma_tx_desc_to_set`, TBU | `low_level_output`, `emac_txpkt_chainmode` | network, DNS, link and tcpip tasks; EMAC DMA |
| Link and PHY | `AT_ETH/at32_emac_phy.c` | link and up flags of the `netif`, MAC mode | link polling, `emac_speed_config`, `ethernetif_update_config` | link task |
| DHCP client | `LWIP/src/core/dhcp.c`, `netif.c` | `state`, `tries`, time-outs, lease, address | start, offers, acknowledgements, refusals, time-outs, bind, release | network and tcpip tasks, link task |
| Timeout list | `LWIP/src/core/timers.c`, `memp.c`, `AT_ETH/netconf.c` | `next_timeout`, `timeouts_last_time`, the node pool | `sys_timeout`, `sys_timeouts_mbox_fetch`, `lwip_timeout_poll` | tcpip task; network task |
| lwIP port | `LWIP/port/sys_arch.c` | mailboxes, semaphores, critical section | post, fetch, protect, unprotect | all tasks |
| Modbus RTU | `FreeModbus/modbus/rtu/mbrtu.c`, `modbus/mb.c`, `BARE/port/` | `eRcvState`, `eSndState`, `eMBState`, one-place event queue, timer | init, enable, poll, receive and transmit machines | USB task; timer task |
| Modbus functions | `FreeModbus/modbus/functions/`, `mb_callback.c` | coils, discrete inputs, holding and input registers | request handlers, the application's setters | USB task |
| Application | `USER/main.c` | task handles, `dns_done` | network, link, DNS and USB tasks | the tasks |

FreeRTOS, FatFs, most of lwIP and the chip's SDK are third-party code and appear
only as what the modelled code relies on; lwIP's DHCP client and timeout list are
modelled because this program drives them from two tasks without lwIP's locks.

**How the parts interact.** The mass-storage function runs entirely in the OTG
interrupt. The bus raises flags, `usbd_irq_handler` reads them once, and serves
first the IN endpoints, then the OUT endpoints in ascending order, then a bus
reset, the receive FIFO, a wakeup, a suspend. A disk write inside it takes as
long as the flash needs to erase a sector, so everything else in that interrupt
may be late. The virtual COM port is shared by that interrupt and a task through
two flags and the endpoint registers. The Ethernet paths share descriptor rings
with a DMA engine and no lock; the link task stops and starts that DMA at any
time, and brings the interface up and down under the DHCP client. lwIP's
timeout list is served by the tcpip thread and by the network task.

**What is hard.** Flags served in an order other than the one in which they were
raised; a host that gives up with interrupts unserved; transfers split over
many interrupts and aborted between two of them; a bus reset that leaves the
function's state as it was; a buffer copied by a task while an interrupt fills
it; a register read, changed and written by a task and an interrupt; suspend
flags tested and cleared by a CPU while a DMA sets them; several tasks in one
non-reentrant driver; full rings; a restart between an erase and a program; a
link that fails while it is being configured; answers that are lost or refused;
unsigned sums, residues and 16-bit addresses; callbacks re-entering the state
machine that called them. The `hazards` of `PROJECT.json` list these with their
lines.

**What makes each part correct.**
- *Mass storage*: a status answers the command the host waits for, with the
  exact residue; PASS means that every block was moved; the disk only changes in
  the range of the current WRITE(10) and always holds a prefix of what was sent;
  host and device never wait for each other; every command ends.
- *Endpoint 0*: every request is answered whole, stalled or ended; host and device
  agree on state and address.
- *Virtual COM port*: packets and messages arrive once, whole and in order; a
  buffer has one holder; neither direction dies.
- *Disk*: the flash takes every command; a restart damages at most the sector
  being written.
- *Ethernet receive*: a FIFO of frames; reception does not stay suspended; every
  descriptor returns.
- *Ethernet transmit*: a frame told `ERR_OK` is sent, once, unchanged, in order;
  transmission does not stay suspended.
- *Link and DHCP*: MAC mode, interface flags and address follow the link and the
  lease; a lease is obtained.
- *Timeout list*: no timer is lost, late or early; every timer runs again and
  again.
- *Modbus*: start-up ends with the receiver idle; tables and replies are what the
  master was told.

## 2. Modules

| Module | Models | Extended by |
|---|---|---|
| `MscBot` | mass storage, its part of class glue and device core, the disk as an array of blocks, a USB host | `MC_MscBot`, `MscBot_proofs` |
| `SpiFlash` | `msc_disk_read`, `msc_disk_write`, the W25X80 driver; the chip | `MC_SpiFlash`, `SpiFlash_proofs` |
| `BlockDevice` | abstract specification: what the disk promises | instantiated by `SpiFlash` |
| `UsbCtrl` | endpoint 0, standard and class requests, connection state, order of the interrupt handler; a USB host | `MC_UsbCtrl`, `UsbCtrl_proofs` |
| `UsbVcpRx`, `UsbVcpTx` | virtual COM port, receiving and sending: task against interrupt | `MC_UsbVcp`; `Serial_proofs`, `UsbVcpTx_proofs` |
| `EmacRx` | receive ring, receive DMA, network task, link task | `MC_EmacRx`, `EmacRx_proofs` |
| `FrameQueue` | abstract specification: what the receive path promises | instantiated by `EmacRx` |
| `EmacTx` | transmit ring, transmit DMA, sending tasks, link task | `MC_EmacTx`, `EmacTx_proofs` |
| `NetLink` | link task, PHY, MAC mode, interface flags, DHCP client | `MC_NetLink`, `Net_proofs` |
| `LwipTimers` | timeout list and node pool, the two tasks that serve it | `MC_LwipTimers`, `Net_proofs` |
| `MbStart` | start of the Modbus slave by the USB task | run as it is |
| `MbFunc` | Modbus function handlers and tables | `MC_MbFunc`, `Serial_proofs` |

History variables (`hgot`, `accepted`, `pend`, `broken`, `raced`, `torn`, `mute`,
`late`, ...) record what an observer saw; no modelled code reads them.

### MscBot

State keeps the names of `cdc_msc_struct_type`. `blk_addr` and `blk_len` are
counted in blocks: the code multiplies both by `blk_size` and
`MSC_MAX_DATA_BUF_LEN` is one block, so a chunk is one block; lengths and
residues stay in bytes. `Scaled` keeps the multiplication by the `blk_size` of a
disk whose capacity was never asked, which is 0. The sum in
`bot_scsi_check_address` is taken modulo `W`, the modulus of `uint32_t`. A block
is one value; every response has the value `Response`, because the buffer
`pmsc->data` is shared by responses and blocks and one must never end up in the
other's place.

| Action | Code |
|---|---|
| `IrqEnter`, `MayServe`, `ServeXfer` | `usbd_irq_handler` and its endpoint handlers |
| `CbwInvalid`, `CmdRejected`, `CmdNoData`, `CmdSendData` | the outcomes of `bot_cbw_decode` and `bot_scsi_cmd_process` |
| `Read10Start`, `Read10Next`, `DataInDone` | `bot_scsi_read10`, `bot_scsi_datain_handler` |
| `Write10Start`, `Write10Next` | `bot_scsi_write10`, `bot_scsi_dataout_handler` |
| `XferIgnored` | the default branches of the two handlers |
| `BulkOnlyReset`, `ClearFeatureIn`, `ClearFeatureOut`, `SetConfiguration` | requests on endpoint 0 |
| `UsbReset` | `usbd_reset_handler`, `usbd_enumdone_handler`, `class_clear_handler` |
| `Host*` | the host (external): command, data and status phase, stalls, reset recovery, port reset |

One handler is one step: the OTG interrupt (priority 0) is masked by nothing,
not even by FreeRTOS's critical sections, and no other code touches this state.
Between the handlers of one interrupt the host moves freely, so that a
completion can be served after its cause is obsolete. With `AbortEarly` the host
may abort a command while the device has interrupts to serve; without it the
host's timer is long against the interrupt latency.

### SpiFlash and BlockDevice

Every SPI transaction is a step: wait for BUSY, write enable, erase, page
program, write disable, read of a chunk of `MaxTran` bytes. The chip is external,
modelled from how the driver uses it: an erase sets the bits of a sector, a page
program clears bits and wraps inside its page, both need WEL and are ignored
while the chip is busy. `McuReset` restarts the driver while the chip goes on;
`PowerFail` ends the operation in progress with any contents in the cells it
touched. `BlockDevice` is an array of sectors, written one after the other; a
sector is undefined from the start of its write to its end, and a restart in
between leaves it undefined. The mapping reads the sectors off the cells and the
rest of the request off `buf` and `left`.

| Action | Code |
|---|---|
| `WriteReq`, `ReadReq` | entry of `msc_disk_write`, `msc_disk_read` |
| `WaitBusy`, `WriteEnable` | `w25x80_wait_busy`, `w25x80_wenable` |
| `SectorErase`, `EraseDone` | `w25x80_sector_erase` |
| `ProgramPage`, `WriteDone` | `w25x80_write_data` and the loop of `msc_disk_write` |
| `ReadChunk`, `ReadDone` | `w25x80_read_data` |

### UsbCtrl

`conn_state`, `old_conn_state`, the endpoint-0 registers and the stage of the
control transfer, `flags` (gintsts) and `pass` (what is left of the handler's
snapshot). A pass serves its flags in the order of the code, one step per
handler, and the host moves in between. `Answer` gives, per request, what
`usbd_sdr.c` and the class do: send, receive, status, stall, a stall followed by
a status, or nothing. Lengths stand for data.

### UsbVcpRx and UsbVcpTx

The functions `usb_vcp_get_rxdata` and `usb_vcp_send_data` as a polling task calls
them, one step per access to shared state (`clear`, `len`, `copy`, `buf`, `arm`;
`clear`, `check`, `buf`, `enable`, `read`, `write`), and the interrupt, one step per
handler, between any two of them: packet received, transfer complete, bus reset,
SET_CONFIGURATION. `UsbVcpTx` has the register `diepempmsk`, which both read,
change and write, and a mass-storage endpoint beside it. In the program as it is
the only caller, the USB task, halts in `mb_start` before its loop (`main.c`
187-222); the modules are about the functions as that loop calls them.

### EmacRx and FrameQueue

The network task is a program of six steps (`pc`): poll the size, take the
descriptor, copy, give the descriptor back, test and clear RBU, demand a poll.
The DMA (`Store`, `Suspend`) and the link task (`Stop`, `Start`) step in between.
The DMA is external: it closes descriptors in ring order and suspends, with RBU
set, at one it does not own. A frame in `Long` needs two descriptors. The DMA's
own retry when another frame arrives is left out: it would only resume a
reception that the task must resume anyway. `EMAC_IRQHandler` clears flags that
no modelled code reads. Frames with errors are dropped by the MAC (forwarding of
error frames is off, store-and-forward on).

`FrameQueue` is a bounded FIFO that can hand out its oldest frame or, if no
buffer could be allocated, lose it. The refinement mapping reads the queue off
the ring: the frame being copied, the filled descriptors from
`dma_rx_desc_to_get` on, the MAC's FIFO; `out` is the last `pbuf`.

### EmacTx

Every task of `Tasks` runs `low_level_output` in steps: read the current buffer,
copy, test OWN, set OWN, test and clear TBU, demand a poll, advance. Nothing
excludes two tasks from being inside; `raced` records that two calls overlapped.
`SetOwn` uses the descriptor that was tested or reads `dma_tx_desc_to_set` again: a
compiler may do either. `accepted` records the frames handed over and not yet
sent.

### NetLink

The link task `ethernetif_set_link` polls the PHY's link bit, which is latched low;
on a change `emac_speed_config` waits for the link, then for the negotiation,
reads the mode, and `ethernetif_update_config` starts or stops the MAC;
`ethernetif_notify_conn_changed` sets the interface up or down and starts the DHCP
client. A call that blocks is a step of its own (`pc`). The client
(`DhcpTimeout`, `CoarseTimer`, `RecvOffer`, `RecvAck`, `RecvNak`, `ArpReply`, `Release`)
runs beside it, one call per step. Times are dropped, so a timer that runs may
expire at any moment; the numbers of tries are constants. Cable, PHY and server
are external; an answer arrives only over a link whose speed is the MAC's (`Hears`);
`MaxFaults` bounds failed PHY accesses, refusals and allocation
failures.

### LwipTimers

The list and the pool are linked nodes, as in `timers.c` and `memp.c`; the tcpip
thread's pass is cut at every access to `next_timeout` and the pool (`Pop`, `Unlink`,
`Take`, `Call`, `Malloc`, `Insert`, `Walk`), and the network task, of higher
priority, preempts it anywhere. `lag` is what the poll's `timeouts_last_time` is
behind the clock, which the thread never looks at; `due` records the ticks until each
timer is to run, from when it was set. `torn` records that the poll met
the thread between reading the list and changing it; what follows from there is
a damaged list, and the tasks stop.

### MbStart and MbFunc

`MbStart`: `eMBInit`, `eMBEnable`, `eMBRTUStart`, `vMBPortSerialEnable` and
`xMBRTUTransmitFSM` up to the point where start-up is stuck. `MbFunc` is therefore
about the handlers as library code: a request is a PDU of a received frame, with
its counts as they stand in it and the data it really holds; what a handler reads
behind the end is any data. Address `a` is cell `a + 1` of a table, modulo 2^16.
`Pack`, `Unpack` and `BitOf` model the packing of bits into bytes. `master` keeps,
per address, the values the master may expect.

## 3. Runs

| Run | Shows | Instance | Distinct states |
|---|---|---|---|
| `msc_transfer` | `PassMeansDone`, `DiskHoldsPrefix`, `CommandInv`, `WritesStayInRange` | early aborts, nine command blocks, two block values | 1,986,944 |
| `msc_commands` | `CswAnswersCommand`, `PhaseAgreement`, `NoMutualWait`, `BackToIdle` | patient host, 21 command blocks: every operation, accepted and rejected | 2,595,232 |
| `ctrl` | `ReadsWhole`, `NoMutualWait`, `StateAgrees`, `RequestsEnd` | nine requests, two host events | 583,259 |
| `vcp` | `OneHolder`, `ReceptionAlive`, `NextPacketIntact`, `ReceptionGoesOn`; `MessagesInOrder`, `InEndpointsFed`, `TransmissionGoesOn` | receiving packets of 0 to 2 bytes of two identities (351,795 states), or sending three messages beside one mass-storage endpoint (9,973) | 361,768 |
| `flash` | `CommandsAccepted`, `ProgramsErased`, `ReadsWhole`, `ImplementsBlockDevice`, `RequestsEnd` | two sectors of two pages of two cells | 95,728 |
| `rx` | `NoLostWakeup`, `ImplementsQueue`, `DescriptorsReturn` | three descriptors, one long and two short frames | 69,322 |
| `tx` | `NoLostWakeup`, `RingHoldsAccepted`, `FramesLeave` | two tasks, two descriptors, two frames | 373,535 |
| `link` | `ModeAgrees`, `DownWithoutLink`, `AddressIsLeased`, `LinkFollows`, `LeaseObtained` | a mode of 100 and one of 10 Mbit/s, two faults | 188,844 |
| `timers` | `ListIntact`, `NeverLate`, `TimersRun` | three timers, three nodes, both tasks on the list | 560,490 |
| `timers_early` | violates `NotEarly` | the same | |
| `mb` | `TablesAsTold`, `RepliesTell` | every function; well-formed, refused, cut and wrapping requests | 1,237,824 |
| `mb_start` | violates `TransmitterAssertion` | | |

**Bounds.** *MscBot*: a disk of two blocks has a first and a last one, a transfer
that ends at the end and one that goes beyond it, and transfers of zero, one and
two chunks; `W = 4` leaves room for an address whose sum wraps. Tags modulo 2
tell a command from the one before it, the only one whose status could be
mistaken for it. *SpiFlash*: two sectors tell the one being written from its
neighbour, two pages the first program from the next, and `MaxTran = 3` cuts a
sector of four cells unevenly; a request has one or two sectors. *UsbCtrl*:
with packets of 2 bytes, an answer of two full packets asked for with room to
spare (it needs an empty packet), one of exactly two, data with a short last
packet, a stalled request, two dropped ones, and those that change or tell the
device's state; two host events let a reset meet an abandoned request or a suspend a
suspend. *UsbVcpRx*: the packets of length 0, 1 and `MaxPkt`; two identities show
mixing. The models of the two directions share no variable, so `MC_UsbVcp` uses one of
them in a behaviour. *Rings*: three descriptors let one be in the task's hands, one filled and
one free; with two transmit descriptors two tasks still fill and wrap the ring.
`FifoLen` is the only bound on arrivals: histories are unbounded. In `EmacTx`
`NDesc` also bounds `accepted`, which only racing tasks could let grow. *NetLink*:
one try of a request and a rebind where the code has 5 and 8, and the code's 1
and 2 for checks and reboots: a number of tries has a first, a last and a
further one either way. *LwipTimers*: three periods make head, middle and end of
the list, and the first and the last fall due together; as many nodes as timers is the
tightest pool (`lwipopts.h` has a few more); times wrap at 64.
`MaxLag` and `MaxMsgs` bound how late the poll is and how often a message cuts the
thread's wait. *MbFunc*: tables of a few cells, bytes of two bits, 8 addresses, so
that a run of bits crosses a byte and an address wraps; `OneInput` lets the
application set either the discrete inputs or the input registers in one
behaviour, the two tables no request writes and no handler relates.

**Fairness.** *MscBot*, *UsbCtrl*: the interrupt is served (it has the highest
priority of the system) and the host takes the steps it can; in `MscBot` its timer
expires while a command makes no progress. Nothing obliges the host to issue
commands, to give up early, to reset or to resume. *UsbVcp*: the task polls and its
calls go on, interrupts are served, and for sending the host asks for IN data.
*SpiFlash*: the driver goes on and the chip ends its operations; restarts may
happen at any time but need not. *EmacRx*: the network task polls every 10 ms,
each of its steps ends, and the DMA works while it is not stopped. *EmacTx*: a
task inside `low_level_output` goes on (the code waits for nothing) and the DMA
sends; nobody has to call it. Nothing is asked of the link task there, so a
stopped DMA may remain stopped. *NetLink*: the link task runs, time-outs expire, an
answer that is sent again and again is received (strong fairness of offers and
acknowledgements: the server answers and not every answer is lost); refusals are
never owed. *LwipTimers*: time passes; the network task runs, and the tcpip
thread, which it preempts again and again, runs in the 10 ms it sleeps (strong
fairness).

`CHECK_DEADLOCK FALSE` stands in four runs: `ctrl`, where the host has no event
left; `timers` and `timers_early`, where the tasks stop at a torn list; `mb_start`, which ends in the
assertion's endless loop.

### What the violations show

`mb_start`: `eMBRTUStart` enables the serial port, which calls `xMBRTUTransmitFSM`,
whose first statement asserts that the receiver is idle, while it was set to
`STATE_RX_INIT` two lines before. `NDEBUG` is not defined; the USB task (priority 4)
ends in the endless loop of `__aeabi_assert` and the tasks of priority 3 never run
again.

`timers_early`: `sys_timeout` promises a "callback function to call when msecs have
elapsed" (`timers.c:257`). A message that ends the tcpip thread's wait takes the waited
ticks off the head (`timers.c:469`); `timeouts_last_time` moves only with the poll, which
finds the same ticks in its difference (`timers.c:490`) and takes them off again, so that
the handler is called early. lwIP means the list to be served by one of the two
(`timers.c:253`); `netconf.c:218` adds the other. No preemption inside a change of the
list is needed. `NotEarly` counts a timer that the poll sets from `timeouts_last_time`,
so the poll's catching up is not what it objects to.

### What the exceptions show

A property that would fail in a known case names the case, as narrowly as TLC
allowed: outside it the property holds.

| Property | Exception | Weakness of the code |
|---|---|---|
| `MscBot!NoMutualWait` | after `RECOVERY`; WRITE(10) of no block | a command rejected after a bulk-only reset is neither stalled on OUT nor answered, because `bot_status` stays `RECOVERY`; a WRITE(10) of zero blocks waits for data. The host's timeout resolves both (`BackToIdle`) |
| `PassMeansDone`, `WritesStayInRange` | ranges whose 32-bit sum wraps | `bot_scsi_check_address` adds without looking at overflow |
| `EmacRx!DescriptorsReturn` | `Wedged` | the poll looks for a descriptor with FS and LS (`main.c:132`); a frame over 1520 bytes (a VLAN-tagged frame of 1522) has one bit in each of two: the poll answers 0 for ever and reception ends |
| `EmacTx!RingHoldsAccepted`, `FramesLeave` | `raced` | two tasks in `low_level_output` fill the same descriptor or skip one (`ethernetif.c:433`, `460`); lwIP asks for a single execution context |
| `RingHoldsAccepted` | full ring | the copy comes before the test of OWN (`ethernetif.c:214`): a refused frame overwrites the oldest accepted one |
| `UsbVcpRx` safety | `broken` | a SET_CONFIGURATION during a call, or with a packet of before in the FIFO, arms the buffer the task copies |
| `UsbVcpTx` safety | `tx_broken`, `clobbered` | nothing flushes the FIFO at a SET_CONFIGURATION; the task's write of `diepempmsk` takes away a bit the interrupt has set in between, and a mass-storage answer is never sent |
| `UsbCtrl!ReadsWhole`, `NoMutualWait`, `RequestsEnd` | `wrong`, `mute` | a packet queued for an abandoned request answers the next one; requests that `usbd_sdr.c` and the class drop without a stall |
| `UsbCtrl!StateAgrees` | `late`, `stale` | requests served after the host has given them up; a wakeup without a suspend before it restores an old state |
| `NetLink!ModeAgrees` | `ignored`, 10 Mbit/s | `ethernetif_update_config` ignores the error of `emac_speed_config`, which sets no speed of 10 Mbit/s |
| `DownWithoutLink` | a lease | `dhcp_bind` brings the interface up after the link has gone |
| `AddressIsLeased` | `unverified` | a returning link brings the interface up with the former address |
| `LeaseObtained` | `Stuck`, `Deaf` | an offer without a server identifier stops the client's time-out; a MAC set to 100 Mbit/s on a link at 10 (`at32_emac_phy.c:550`), or left as it was when `emac_speed_config` failed (line 718), receives nothing |
| `LwipTimers!ListIntact`, `NeverLate`, `TimersRun` | `torn` | a preemption between `timers.c:443` and `444`, or in the search of `sys_timeout`, loses a timer |
| `MbFunc!TablesAsTold`, `RepliesTell` | data behind the frame; short function 23 | functions 15 and 23 do not compare the byte count with the frame's length; a function 23 too short for its head is sent back unchanged |

Address 0xFFFF of a Modbus request wraps to cell 0 of a table (`MbFunc` states it as
the meaning of the address), which `mb.h:296` does not provide for.

## 4. Proofs

A theorem is `Spec => []P`, `Spec => A` for an action property, or, for the
refinements, `Spec => Abstract!Spec`, for every value of the constants that
satisfies the module's named assumption.

| Module | Theorems | Inductive invariant |
|---|---|---|
| `MscBot_proofs` | `TypeCorrect`, `CommandInvariant`, `WritesInRange` | `IInv`: `TypeOK`, `EndpointInv`, `TransferInv` |
| | `DiskPrefix`, `PassIsDone` | `IInv` and `BusInv` |
| | `StatusAnswersCommand`, `HostAndDeviceAgree`, `NeverBothWait` | `IInv`, `BusInv` and `PatientInv` |
| `SpiFlash_proofs` | `EveryCommandAccepted`, `TypeCorrect`, `ProgramsOverErased`, `ReadsAreWhole` | `IInv`: `TypeOK`, `CommandsAccepted`, `Placed`, `Fresh`, `Reading` |
| | `FlashIsBlockDevice` (refinement) | `IInv` and `WInv`: `Tearing`, `Buffered`, `Stored` |
| `UsbCtrl_proofs` | `TypeCorrect` | `IInv`: `TypeOK`, `IrqInv`, `PipeInv` |
| | `ReadsAreWhole`, `NeverBothWait` | `IInv`, `QueueInv` and `TransferInv` |
| | `HostAndDeviceAgree` | the same with `OrderInv`, `SuspInv` and `StateInv` |
| `Serial_proofs` | `TypeCorrect`, `ReceptionStaysAlive`, `BufferHasOneHolder`, `PacketsIntact` | `Alive`; `Exclusive`, `Tracked`, `Copied` while configured and not `broken` |
| | `MbTypeCorrect`, `TablesStayAsTold`, `RepliesTellTables` | `MbInv`: `MbTypeOK`, `TablesAsTold` |
| `UsbVcpTx_proofs` | `TypeCorrect`, `MessagesStayInOrder`, `EndpointsStayFed` | `Unconfigured`, `FlagTells`, `Located`, `InEndpointsFed` |
| `EmacRx_proofs` | `TypeCorrect`, `DescriptorsHeld`, `RxWakeups` | `IInv`: `TypeOK`, `HeldIsOurs`, `NoLostWakeup`, `PolledIsOurs` |
| | `RxIsQueue` (refinement) | `IInv` and `RingInv` |
| `EmacTx_proofs` | `TypeCorrect`, `TxWakeups` | `TypeOK`, `NoLostWakeup`, `Sending` |
| | `FramesStayInRing` | the same and `RingInv`: `Alone`, `Ordered`, `Stored`, `AtTheEnd` while not `raced` |
| `Net_proofs` | `TypeCorrect`, `ModeStaysAgreed`, `StaysDownWithoutLink`, `AddressStaysLeased` | `TypeOK`, `TimerStates`, `TaskAndLink`, `NoLink`, `ModeKnown`, `AddressIsLeased` |
| | `ListKeepsTimers` | `TimersInv`: `TimersTypeOK`, `Clocks`; `Control`, `Shares`, `Hands`, `Single`, `Present` while not `torn` |
| | `TimersNeverLate` | `TimersInv` and `TimesInv`: `Times` while not `torn` |

Every proof has one step per action and, under it, one per conjunct the action can
disturb.

**MscBot.** Assumptions (`ConstAssumption`): a disk of at least one block, fewer
blocks than `W`, responses shorter than a block, any set of command blocks of
type `CbwType`, malformed ones without an OUT data phase. `TypeOK` is not
inductive: the residue is a natural number only because no chunk takes more than
what is left, and a block written is a block value only because the buffer was
filled by the OUT transfer being served. `EndpointInv` (which buffer is armed in
which state) and `TransferInv` (residue = blocks left times the block size; the
blocks left of a WRITE(10) end where its CBW says) supply that.
`WritesInRange` follows from `TransferInv`, as only `Write10Next` changes the disk.

`DiskPrefix` and `PassIsDone` need the device tied to the host, which may have given
up with interrupts unserved. `BusInv` follows a block from one to the other:
`WriteInv` (every block the host has sent is on the disk, but for the one whose
interrupt is not served), `ReadInv` (what the host has, what is on offer and what is
left never exceed the request, and are blocks of the disk where they make it up),
`SendInv` (the same for responses), `StatusInv` (a host in the status phase has had
all of the data phase). That a status left over from an abandoned command is never
taken for a PASS of the next is the reason for `StallInv`, `RestInv`, `RequestInv` and
`PendingInv`: after an abort the host clears the halt or resets, and either takes the
old status off the endpoint before the next CBW is decoded.

`StatusAnswersCommand`, `HostAndDeviceAgree` and `NeverBothWait` have two hypotheses:
`~AbortEarly`, the host gives up only on a device that has nothing to serve (with
early aborts TLC shows the three to fail), and `WellFormed`, no data for a
command without any and responses read, not written. `MC_MscBot` states that the
commands of the run `msc_commands` satisfy both. `PatientInv` then has what early aborts
would break: `FlagInv` (at most one unserved transfer), `HaltInv` (why an endpoint is
halted), `ArmedInv` (device and host always have something on offer), `ExactInv` (moved,
offered and residue make up the request), `DataPhaseInv` and `WaitInv`.

**SpiFlash.** For every geometry, chunk size and request length. That the chip takes
every command is inductive alone: a wait stands before each, and WEL is only
cleared by an operation that a wait has seen end. For the programs, `Placed` says
that the next address lies in the sector being written, `remain` bytes before its
end, and `Fresh` that everything from there to
the end of the sector is erased; lemmas on `\div` and `%` show that a program does
not wrap in its page and that sectors do not overlap. `Reading` says that `rbuf` is
what lies before the current address.
For the refinement of `BlockDevice`, `Tearing` says that the chip is only ever at work
in a torn sector, even after a restart; `Buffered` that `ptr` keeps step with sector
and address; `Stored` that what has been programmed of the sector is what the caller
gave. The mapped step of `EraseDone`, `WriteDone` and the restarts changes a sector
as a whole; every other step of the driver stutters (`Stutters`), because a change of
cells lies in the torn sector, which the mapping does not show.

**UsbCtrl.** For every packet size, FIFO size, bound on events and set of requests, with
a host that abandons, resets or suspends at any step. `TypeCorrect` has no further
hypothesis; the others assume `WellFormed` of the requests: the `wLength` that the USB
specification and the class prescribe where the handler does not look at it (a
`GET_STATUS` asked for with `wLength` 5 is answered with 2 bytes). `MC_UsbCtrl` states
it of the run's requests.

None of the three properties is inductive, because a request can lie in the receive
FIFO, behind data and other SETUPs, or be decoded and not yet answered, while the
registers still belong to the one before. `PipeInv` says that what is offered to the
host is in the transmit FIFO or has its FIFO-empty interrupt due, `IrqInv` what the
handler's snapshot may hold when new causes arise behind it. `QueueInv` covers a
request until it is decoded: the newest SETUP in the FIFO is the host's, and the
packets counted behind it are the ones it has sent. `TransferInv` covers it from there
on: `InTransfer` lists the places it can be at (offered, taken, zero-length packet
offered or taken, data all read, data being written, status, stalled, dropped), each
with what the host has and what the device has left. The three properties are then
read off the places; `wrong`, a packet of an abandoned request taken for the answer to
the next, is the one way out of them.

For the device's state, `OrderInv` adds that a host which has abandoned nothing
(`~late`) leaves nothing behind when it goes on, so that at most one SETUP is ever
pending, `SuspInv` that a wakeup is served before the next suspend, and `StateInv`
that state and address are the host's, or those the request will lead to
(`Granted`), or the old ones when it was stalled (`Refused`), once the reset and the
enumeration that are due have been counted in (`DevState`, `DevAddr`).

**UsbVcpRx, UsbVcpTx.** For every packet size, every set of packets or messages, with
bus resets and reconfigurations at any step. Reception: `Exclusive` says which of
endpoint, FIFO, completion, flag and call has the buffer, `Tracked` that it holds the
next packet of `pend`, `Copied` what the call has copied so far. That reception
cannot die needs none of this and holds even when `broken`. Transmission:
`FlagTells` ties `g_tx_completed` to an empty `accepted`, `Located` says where the
accepted message is.

**MbFunc.** For every size of tables, bytes and addresses, every limit of the protocol,
every value that the buffer may hold behind a frame, and every set of requests with
fields of the right types, sensible or not. `TablesAsTold` is inductive with the types.
A request is compared with the master's view of it in three lemmas: `PlaceIs` (the
cells from `usRegAddress + 1` on are the addresses of the request in their order, the
wrap at the last address included), `DataMeant` (what is written at each place is what
the frame asks for there, or what it does not hold), `HandleWrites` (a table has
changed exactly when the master is told so). `RepliesTell` then follows from
`TablesAsTold` after the step, with `HandleReads` (a read answers with the cells
behind its range check) and `PackIs` (packing loses no bit and adds only zeros).
`Serial_proofs` holds these proofs and those of `UsbVcpRx`, which brings the frames;
`MbFunc` calls its specification `MbSpec` so that both can be extended.

**EmacRx.** `PolledIsOurs`: between the poll and `emac_rxpkt_chainmode` the
descriptor stays the CPU's, which is why the NULL descriptor that
`low_level_input` does not test for never reaches it. It holds for every ring size
and every set of frames, long ones included. For the refinement of `FrameQueue`,
`RingInv` says that the filled descriptors the task has not looked at follow each
other from `dma_rx_desc_to_get` on and that the DMA goes on behind the last of them.
The mapping numbers the descriptors that end a frame by their distance from
`dma_rx_desc_to_get` (`Offset`, `Rank`), so that `InRing` is a sequence without
recursion; the lemmas on ranks show what a stored frame appends to it and a taken
one removes.

**EmacTx.** For every ring size and every set of unsynchronised tasks, overlapping
calls included. OWN is set before TBU is tested, and TBU is cleared only by a task
that goes on to demand a poll; `Sending` says that a task behind the call has a
frame. As long as no two calls have overlapped, one task at a time is inside
(`Alone`), the DMA's descriptors lie one behind the other (`Ordered`) with the accepted
frames in their buffers (`Stored`), and the call that is inside works on the place
behind the last (`AtTheEnd`); a full ring, where that place is the oldest frame's, is
the exception the property names.

**NetLink.** For every set of modes and number of tries and faults. `TaskAndLink`
relates the step of the link task to the flags it has set so far, `NoLink` and
`ModeKnown` what state and mode the MAC then has, `TimerStates` in which states of the client
a time-out can run.

**LwipTimers.** Assumptions (`TimersAssumption`): finitely many timers, which
`sys_timeouts_init` sets once each, and a pool with a node for each of them
(`MEMP_NUM_SYS_TIMEOUT`, 10 in `lwipopts.h`); periods and the lag of the poll fit the
word. `ListIntact` counts the nodes on the list, which says nothing of how a step
changes them, so the proof goes through `Chain`: a set of nodes that the links lead
through from the head to the end, each once. Lemmas say what taking the head, putting
a node in front and putting one behind another make of a chain, and that `OnList` and
`OnPool` visit exactly its nodes. `Shares` then says that list, pool and the tasks'
hands share the nodes out, `Single` and `Present` that a timer is in one of these
places, `Hands` that a task still holds what its next step expects, and `Control` that
while the network task is awake the tcpip thread is inside no change (which `torn`
excepts). `memp_malloc` never finds the pool empty (`NodeForAll`): all other nodes carry
other timers, and there are no more timers than nodes.

`NeverLate` adds up deltas, so a change at one node moves all behind it. `Times` states it
without sums: some function gives each listed node the moment it expires, the head's
time is its moment, every other's the difference to the node before it, and the moment,
less the poll's lag, is no later than what is due. A step changes that function at one
place, or makes all moments earlier: by the head's time when either task takes the head
off (which the poll also takes off its lag, and the thread does not: that is what makes
timers early, and never late), by what the wait has taken when a message ends it. What a
task is inserting has its moment too (`HandAgrees`), since the clock goes on between
`memp_malloc` and the end of the walk. Subtraction of `u32_t`
never wraps there, because the walk passes a node only when its time is not greater
than what is left. `AheadIs` concludes that the sum up to a node is its moment.
Both parts need induction along the list; it is carried out on sets of naturals
(`NatInd`, from the well-foundedness of the naturals), where no operator has to be
passed to a lemma.

`Net_proofs` holds the proofs of `NetLink` and `LwipTimers`; `LwipTimers` calls its
specification `TimersSpec` so that both can be extended.

**Only model-checked.** Liveness (`BackToIdle`, `DescriptorsReturn`, `FramesLeave`,
`RequestsEnd`, `ReceptionGoesOn`, `TransmissionGoesOn`, `LinkFollows`,
`LeaseObtained`, `TimersRun`) is beyond the prover, as is `ENABLED`. Every invariant
and every action property of the passing runs is also proved.

## 5. Abstractions and what is left out

- *Mass storage*: LUN 0 only. A CBW for another LUN and a malformed CBW with an
  OUT data phase are not sent. A block is written in one step there (`SpiFlash` has
  the steps); the packets of one bulk transfer are not told apart.
- *Endpoint 0*: the bytes of descriptors, the line coding, remote wakeup,
  alternate settings; SOF and isochronous endpoints, which the program does not
  use.
- *DMA*: it fetches a descriptor and suspends on it in one step; a flag is tested
  and cleared in one step (the DMA cannot set it again while it is suspended); a
  frame is copied in one step, apart from the tests. `emac_start` and `emac_stop` also
  flush the transmit FIFO, which would drop a frame the DMA has taken from its
  descriptor and the MAC has not sent yet.
- *DHCP*: a call is one step, though the network and the link task, of one priority,
  may change over inside it; option parsing, INFORM, AUTOIP and the lease times.
- *Timeout list*: `sys_untimeout` and the TCP timer that is set on demand.

Not modelled, and why:

- *lwIP port* (`sys_arch.c`): thin wrappers of FreeRTOS queues and semaphores.
  Received packets do not go through the tcpip mailbox here and no protect pair is
  nested, so its weak points are not exercised.
- *Modbus RTU behind the assertion*: receiver, transmitter, timer and event queue
  cannot be reached in the code as it is; a model of them would be of another
  program.
- *DNS task*: it asks once and prints. *FatFs glue*: it runs before the USB task
  exists.
- *lwIP's other lists* that tasks change without core locking: as the timeout list,
  for which `LwipTimers` shows what follows.
- *Vendored code* (SDK and DSP library, FreeRTOS, FatFs, most of lwIP), which is by
  far the largest part of the repository; it is not this program's logic.

## 6. What is left

- `MbRtu`, once start-up is repaired: an event is not overwritten, a silence ends a
  frame, every request is answered.
