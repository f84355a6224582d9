------------------------------ MODULE SpiFlash ------------------------------
(***************************************************************************)
(* The disk: msc_disk_read and msc_disk_write (USER/msc_diskio.c) over the *)
(* driver of the W25X80 serial flash (SPI-FLASH/w25x80.c).  The driver     *)
(* polls the chip's BUSY bit between commands; every SPI transaction is a  *)
(* step of its own, because a restart of the processor or a loss of power  *)
(* may come between any two of them, and the chip goes on working when     *)
(* only the processor restarts.                                            *)
(*                                                                         *)
(* The chip is modelled from how the driver uses it: an erase sets every   *)
(* bit of a sector, a page program clears bits and wraps inside its page,  *)
(* both need WEL, clear it when they end, and are ignored while the chip   *)
(* is busy.  A cell is the set of its bits that are 1.                     *)
(*                                                                         *)
(* Data abstraction: callers pass whole sectors (blk_addr is a multiple of *)
(* blk_size = 4096, FatFs multiplies by 4096), so a request is a sector    *)
(* number and a sequence of sector contents laid end to end in buf.        *)
(***************************************************************************)
EXTENDS Integers, Sequences

CONSTANTS
  Bits,      \* the bits of a cell
  PageSize,  \* PAGE_SIZE: 256
  NPages,    \* pages in a sector: 16
  NSectors,  \* SECTOR_NUM: 256
  MaxTran,   \* MAX_TRANRECV_SIZE: 1024
  Data,      \* the sector contents that callers write
  MaxWrite,  \* bound: sectors in one request
  Torn       \* stands for the contents of a torn sector

SectorSize == NPages * PageSize
Size == NSectors * SectorSize
Cells == 0..(Size - 1)
Erased == Bits
Contents == [0..(SectorSize - 1) -> SUBSET Bits]

ASSUME FlashAssumption ==
  /\ PageSize \in Nat \ {0} /\ NPages \in Nat \ {0} /\ NSectors \in Nat \ {0}
  /\ MaxTran \in Nat \ {0}
  /\ Data \subseteq Contents
  /\ MaxWrite \in Nat \ {0}
  /\ Torn \notin Contents

VARIABLES
  \* the chip: its cells, the operation in progress (the cells it changes,
  \* with the contents they will have), the write enable latch
  mem, busy, wel,
  \* the driver: step, msc_disk_write's sector, count - i and buf, and addr,
  \* remain and ptr of w25x80_write_data and w25x80_read_data
  pc, sector, left, buf, addr, remain, ptr, rbuf,
  \* history: the sectors whose write is in progress or was cut short
  torn

chip   == <<mem, busy, wel>>
loop   == <<sector, left, buf>>
xfer   == <<addr, remain, ptr>>
vars   == <<chip, pc, loop, xfer, rbuf, torn>>

-----------------------------------------------------------------------------
(* The chip.                                                               *)

Ready == DOMAIN busy = {}
Accepts == Ready /\ wel

SectorCells(s) == {a \in Cells : a \div SectorSize = s}

\* The cell that byte i of a page program at address a goes to: the address
\* wraps inside the page.
PageCell(a, i) == (a \div PageSize) * PageSize + ((a + i) % PageSize)

\* Of the bytes for a cell the last one counts.
LastByte(a, n, c) ==
  CHOOSE i \in 0..(n - 1) :
    PageCell(a, i) = c /\ \A j \in 0..(n - 1) : PageCell(a, j) = c => j <= i

\* 0x20: sector erase.
EraseCmd(a) ==
  busy' = IF Accepts THEN [c \in SectorCells(a \div SectorSize) |-> Erased]
          ELSE busy

\* The operation ends: BUSY and WEL are cleared.
ChipDone ==
  /\ ~Ready
  /\ mem' = [c \in Cells |-> IF c \in DOMAIN busy THEN busy[c] ELSE mem[c]]
  /\ busy' = <<>> /\ wel' = FALSE
  /\ UNCHANGED <<pc, loop, xfer, rbuf, torn>>

-----------------------------------------------------------------------------
(* Requests and the driver.                                                *)

MinOf(a, b) == IF a <= b THEN a ELSE b

\* No request: after the return to the caller, and where the firmware starts.
Idle ==
  /\ pc' = "idle" /\ sector' = 0 /\ left' = 0 /\ buf' = <<>>
  /\ addr' = 0 /\ remain' = 0 /\ ptr' = 0 /\ rbuf' = <<>>

\* msc_disk_write: the number of sectors is the length rounded up.
WriteReq(s, d) ==
  /\ pc = "idle" /\ d # <<>> /\ s + Len(d) <= NSectors
  /\ sector' = s /\ left' = Len(d) /\ buf' = d /\ ptr' = 0
  /\ pc' = "erase.wait"
  /\ UNCHANGED <<chip, addr, remain, rbuf, torn>>

\* Mutant of ReadReq: one sector is read whatever was asked for.
ReadReqOneSector(s, n) ==
  /\ pc = "idle" /\ n > 0 /\ s + n <= NSectors
  /\ sector' = s /\ left' = n /\ buf' = <<>>
  /\ addr' = s * SectorSize /\ remain' = SectorSize /\ ptr' = 0
  /\ rbuf' = <<>>
  /\ pc' = "read.wait"
  /\ UNCHANGED <<chip, torn>>

\* msc_disk_read, w25x80_read_data.
ReadReq(s, n) ==
  /\ pc = "idle" /\ n > 0 /\ s + n <= NSectors
  /\ sector' = s /\ left' = n /\ buf' = <<>>
  /\ addr' = s * SectorSize /\ remain' = n * SectorSize /\ ptr' = 0
  /\ rbuf' = <<>>
  /\ pc' = "read.wait"
  /\ UNCHANGED <<chip, torn>>

\* The calls of w25x80_wait_busy and what follows each of them.
Waits == {<<"erase.wait", "erase.we">>, <<"erase.done", "erase.wd">>,
          <<"page.wait", "page.we">>, <<"end.wait", "end.wd">>,
          <<"read.wait", "read">>}

\* Mutant of WaitBusy: w25x80_sector_erase does not wait before it starts.
WaitBusyNotFirst ==
  /\ Ready \/ pc = "erase.wait"
  /\ \E w \in Waits : pc = w[1] /\ pc' = w[2]
  /\ torn' = IF pc = "end.wait" THEN torn \ {sector} ELSE torn
  /\ UNCHANGED <<chip, loop, xfer, rbuf>>

\* w25x80_wait_busy returns once the BUSY bit reads 0.  After the last page
\* the sector is complete.
WaitBusy ==
  /\ Ready
  /\ \E w \in Waits : pc = w[1] /\ pc' = w[2]
  /\ torn' = IF pc = "end.wait" THEN torn \ {sector} ELSE torn
  /\ UNCHANGED <<chip, loop, xfer, rbuf>>

\* w25x80_wenable; a busy chip ignores it.
WriteEnable ==
  /\ \/ pc = "erase.we" /\ pc' = "erase.cmd"
     \/ pc = "page.we" /\ pc' = "page.cmd"
  /\ wel' = (wel \/ Ready)
  /\ UNCHANGED <<mem, busy, loop, xfer, rbuf, torn>>

\* w25x80_sector_erase sends the command.
SectorErase ==
  /\ pc = "erase.cmd"
  /\ EraseCmd(sector * SectorSize)
  /\ torn' = torn \cup {sector}
  /\ pc' = "erase.done"
  /\ UNCHANGED <<mem, wel, loop, xfer, rbuf>>

\* w25x80_wdisable after the erase, and the call of w25x80_write_data.
EraseDone ==
  /\ pc = "erase.wd"
  /\ wel' = (wel /\ ~Ready)
  /\ addr' = sector * SectorSize /\ remain' = SectorSize
  /\ pc' = "page.wait"
  /\ UNCHANGED <<mem, busy, loop, ptr, rbuf, torn>>

\* Mutant of WriteLen: a page is not cut at its end.
WriteLenUncut == MinOf(remain, PageSize + 1)

\* Mutant of WriteLen: the last cell of a page counts as the next one's.
WriteLenShort == MinOf(remain, PageSize - (addr % PageSize) - 1)

\* The part of the buffer that still fits the page.
WriteLen == MinOf(remain, PageSize - (addr % PageSize))

\* Byte i behind ptr.
Byte(i) == buf[1 + (ptr + i) \div SectorSize][(ptr + i) % SectorSize]

\* The chip's command 0x02: page program of the next n bytes.
ProgramCmd(a, n) ==
  busy' = IF Accepts /\ n > 0
          THEN [c \in {PageCell(a, i) : i \in 0..(n - 1)} |->
                  mem[c] \cap Byte(LastByte(a, n, c))]
          ELSE busy

\* w25x80_write_data programs a page.
ProgramPage ==
  /\ pc = "page.cmd"
  /\ ProgramCmd(addr, WriteLen)
  /\ addr' = addr + WriteLen /\ ptr' = ptr + WriteLen
  /\ remain' = remain - WriteLen
  /\ pc' = IF remain' > 0 THEN "page.wait" ELSE "end.wait"
  /\ UNCHANGED <<mem, wel, loop, rbuf, torn>>

\* Mutant of WriteDone: the buffer goes on and the sector does not.
WriteDoneSameSector ==
  /\ pc = "end.wd"
  /\ wel' = (wel /\ ~Ready)
  /\ IF left > 1
     THEN /\ left' = left - 1
          /\ pc' = "erase.wait"
          /\ UNCHANGED <<sector, buf, xfer, rbuf>>
     ELSE Idle
  /\ UNCHANGED <<mem, busy, torn>>

\* w25x80_wdisable at the end of w25x80_write_data; msc_disk_write goes on to
\* the next sector or returns.
WriteDone ==
  /\ pc = "end.wd"
  /\ wel' = (wel /\ ~Ready)
  /\ IF left > 1
     THEN /\ sector' = sector + 1 /\ left' = left - 1
          /\ pc' = "erase.wait"
          /\ UNCHANGED <<buf, xfer, rbuf>>
     ELSE Idle
  /\ UNCHANGED <<mem, busy, torn>>

\* spi_tranrecv_buf moves at most MAX_TRANRECV_SIZE bytes at a time.
Chunk == MinOf(remain, MaxTran)

\* One turn of the loop of w25x80_read_data; the chip counts the address on.
ReadChunk ==
  /\ pc = "read" /\ remain > 0
  /\ rbuf' = rbuf \o [i \in 1..Chunk |-> mem[(addr + i - 1) % Size]]
  /\ addr' = addr + Chunk /\ remain' = remain - Chunk
  /\ UNCHANGED <<chip, pc, loop, ptr, torn>>

ReadDone ==
  /\ pc = "read" /\ remain <= 0
  /\ Idle
  /\ UNCHANGED <<chip, torn>>

-----------------------------------------------------------------------------
(* Faults.                                                                 *)

\* The processor restarts and the chip goes on.  A page program that was
\* being sent takes effect as far as it got: the chip starts it when
\* spi_tranrecv_init raises chip select.
McuReset ==
  /\ pc # "idle"
  /\ \/ UNCHANGED busy
     \/ pc = "page.cmd" /\ \E n \in 1..WriteLen : ProgramCmd(addr, n)
  /\ Idle
  /\ UNCHANGED <<mem, wel, torn>>

\* Power is lost: the cells of the operation in progress hold anything.
PowerFail ==
  /\ \E g \in [DOMAIN busy -> SUBSET Bits] :
       mem' = [c \in Cells |-> IF c \in DOMAIN busy THEN g[c] ELSE mem[c]]
  /\ busy' = <<>> /\ wel' = FALSE
  /\ Idle
  /\ UNCHANGED torn

-----------------------------------------------------------------------------
\* A flash with any contents, after w25x80_init.
Init ==
  /\ mem \in [Cells -> SUBSET Bits] /\ busy = <<>> /\ wel = FALSE
  /\ pc = "idle" /\ sector = 0 /\ left = 0 /\ buf = <<>>
  /\ addr = 0 /\ remain = 0 /\ ptr = 0 /\ rbuf = <<>>
  /\ torn = {}

Driver ==
  \/ WaitBusy \/ WriteEnable \/ SectorErase \/ EraseDone \/ ProgramPage
  \/ WriteDone \/ ReadChunk \/ ReadDone

Request ==
  \E s \in 0..(NSectors - 1), n \in 1..MaxWrite :
    ReadReq(s, n) \/ \E d \in [1..n -> Data] : WriteReq(s, d)

Next == Request \/ Driver \/ ChipDone \/ McuReset \/ PowerFail

Spec == Init /\ [][Next]_vars

\* The driver's code runs on, and the chip ends what it began.
FairSpec == Spec /\ WF_vars(Driver) /\ WF_vars(ChipDone)

-----------------------------------------------------------------------------
(* Properties.                                                             *)

TypeOK ==
  /\ mem \in [Cells -> SUBSET Bits]
  /\ DOMAIN busy \subseteq Cells /\ \A c \in DOMAIN busy : busy[c] \subseteq Bits
  /\ wel \in BOOLEAN
  /\ pc \in {"idle", "erase.wait", "erase.we", "erase.cmd", "erase.done",
             "erase.wd", "page.wait", "page.we", "page.cmd", "end.wait",
             "end.wd", "read.wait", "read"}
  /\ sector \in Nat /\ left \in Nat /\ buf \in Seq(Contents)
  /\ addr \in Nat /\ remain \in Nat /\ ptr \in Nat
  /\ rbuf \in Seq(SUBSET Bits)
  /\ torn \subseteq 0..(NSectors - 1)

\* The chip takes every command the driver sends: it is idle when a command
\* or a read arrives and WEL is set for an erase or a program, although the
\* erase or program of a request that a reset of the processor cut short may
\* still be going on when the firmware starts again.
CommandsAccepted ==
  /\ pc \in {"erase.we", "erase.wd", "page.we", "end.wd", "read"} => Ready
  /\ pc \in {"erase.cmd", "page.cmd"} => Accepts

\* A page is only programmed over erased cells, which can only lose bits,
\* and inside the sector that msc_disk_write has erased for it.
ProgramsErased ==
  pc = "page.cmd" =>
    \A i \in 0..(WriteLen - 1) :
      /\ PageCell(addr, i) = addr + i
      /\ addr + i \in SectorCells(sector)
      /\ mem[addr + i] = Erased

\* What msc_disk_read returns is what the flash holds in all the sectors that
\* were asked for, no less and no more, however the read was cut into chunks.
ReadsWhole ==
  pc = "read" /\ remain = 0 =>
    rbuf = [i \in 1..(left * SectorSize) |-> mem[sector * SectorSize + i - 1]]

\* The sectors still to be written, the one in progress included.
Todo ==
  IF pc \in {"idle", "read.wait", "read"} THEN <<>>
  ELSE SubSeq(buf, Len(buf) - left + (IF pc = "end.wd" THEN 2 ELSE 1), Len(buf))

BD == INSTANCE BlockDevice WITH
  blocks <- [s \in 0..(NSectors - 1) |->
               IF s \in torn THEN Torn
               ELSE [i \in 0..(SectorSize - 1) |-> mem[s * SectorSize + i]]],
  todo <- Todo,
  at <- IF Todo = <<>> THEN 0 ELSE IF pc = "end.wd" THEN sector + 1 ELSE sector

\* Driver and chip implement the array of sectors of BlockDevice: a write that
\* ends has stored its data, and a restart, with or without loss of power,
\* damages no sector but the one being written, even when the chip finishes
\* an operation that the processor no longer knows of.
ImplementsBlockDevice == BD!Spec

\* Every request returns (or is ended by a restart): w25x80_wait_busy has no
\* time limit and relies on the chip alone.
RequestsEnd == pc # "idle" ~> pc = "idle"
=============================================================================
