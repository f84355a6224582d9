--------------------------- MODULE SpiFlash_proofs ---------------------------
(***************************************************************************)
(* Proofs about the driver of the serial flash, for every geometry of the  *)
(* chip, every request, and restarts of the processor or losses of power   *)
(* at any step: the chip takes every command, reads and programs are where *)
(* they should be, and driver and chip implement BlockDevice.              *)
(***************************************************************************)
EXTENDS SpiFlash, SequenceTheorems, TLAPS

-----------------------------------------------------------------------------
(* The chip takes every command.                                           *)

\* Every step keeps the chip idle where the driver relies on it: after a
\* restart the driver's first transaction of a request is a wait.
LEMMA StepCommands == CommandsAccepted /\ [Next]_vars => CommandsAccepted'
  <1> SUFFICES ASSUME CommandsAccepted, [Next]_vars PROVE CommandsAccepted'
    OBVIOUS
  <1> USE DEF CommandsAccepted, Accepts, chip
  <1>1. CASE Request
    BY <1>1 DEF Request, ReadReq, WriteReq
  <1>2. CASE WaitBusy
    BY <1>2 DEF WaitBusy, Waits, Ready
  <1>3. CASE WriteEnable
    BY <1>3 DEF WriteEnable, Ready
  <1>4. CASE SectorErase
    BY <1>4 DEF SectorErase
  <1>5. CASE EraseDone
    BY <1>5 DEF EraseDone
  <1>6. CASE ProgramPage
    BY <1>6 DEF ProgramPage
  <1>7. CASE WriteDone
    BY <1>7 DEF WriteDone, Idle
  <1>8. CASE ReadChunk
    BY <1>8 DEF ReadChunk, Ready
  <1>9. CASE ReadDone
    BY <1>9 DEF ReadDone, Idle
  <1>10. CASE ChipDone
    <2>1. Ready'
      BY <1>10 DEF ChipDone, Ready
    <2> QED
      BY <1>10, <2>1 DEF ChipDone
  <1>11. CASE McuReset
    BY <1>11 DEF McuReset, Idle
  <1>12. CASE PowerFail
    BY <1>12 DEF PowerFail, Idle
  <1>13. CASE UNCHANGED vars
    BY <1>13 DEF vars, Ready
  <1> QED
    BY <1>1, <1>2, <1>3, <1>4, <1>5, <1>6, <1>7, <1>8, <1>9, <1>10, <1>11, <1>12,
       <1>13 DEF Next, Driver

\* No command of the driver is ignored by a busy or write-protected chip,
\* whenever the processor was restarted.
THEOREM EveryCommandAccepted == Spec => []CommandsAccepted
  <1>1. Init => CommandsAccepted
    BY DEF Init, CommandsAccepted
  <1> QED
    BY <1>1, StepCommands, PTL DEF Spec
-----------------------------------------------------------------------------
(* Addresses.                                                              *)

\* Multiplication by a natural number keeps the order.
LEMMA MulLe == \A p \in Nat, x, y \in Int : x <= y => p * x <= p * y
  OBVIOUS

\* Quotient and remainder.
LEMMA DivMod ==
  ASSUME NEW p \in Nat \ {0}, NEW a \in Nat
  PROVE  /\ a \div p \in Nat /\ a % p \in 0..(p - 1)
         /\ a = p * (a \div p) + (a % p)
  OBVIOUS

\* They are the only ones.
LEMMA DivUnique ==
  ASSUME NEW p \in Nat \ {0}, NEW q \in Int, NEW u \in Int, NEW r \in 0..(p - 1), NEW v \in 0..(p - 1),
         p * q + r = p * u + v
  PROVE  q = u /\ r = v
  <1>1. CASE q < u
    <2>1. p * (q + 1) <= p * u
      BY <1>1, MulLe
    <2>2. p * (q + 1) = p * q + p
      OBVIOUS
    <2> QED
      BY <2>1, <2>2
  <1>2. CASE u < q
    <2>1. p * (u + 1) <= p * q
      BY <1>2, MulLe
    <2>2. p * (u + 1) = p * u + p
      OBVIOUS
    <2> QED
      BY <2>1, <2>2
  <1> QED
    BY <1>1, <1>2

\* What is smaller than the divisor is its own remainder.
LEMMA SmallMod ==
  ASSUME NEW p \in Nat \ {0}, NEW a \in 0..(p - 1)
  PROVE  a % p = a
  <1>0. a \in Nat
    OBVIOUS
  <1>1. /\ a \div p \in Nat /\ a % p \in 0..(p - 1)
        /\ a = p * (a \div p) + (a % p)
    BY <1>0, DivMod
  <1>2. p * (a \div p) + (a % p) = p * 0 + a
    BY <1>1
  <1> QED
    BY <1>1, <1>2, DivUnique

\* The bytes that fit the page do not wrap.
LEMMA PageCellIs ==
  ASSUME NEW a \in Nat, NEW i \in Nat, i < PageSize - (a % PageSize)
  PROVE  PageCell(a, i) = a + i
  <1> USE FlashAssumption
  <1> DEFINE q == a \div PageSize
             r == a % PageSize
             u == (a + i) \div PageSize
             v == (a + i) % PageSize
  <1>1. q \in Nat /\ r \in 0..(PageSize - 1) /\ a = PageSize * q + r
    BY DivMod
  <1>2. u \in Nat /\ v \in 0..(PageSize - 1) /\ a + i = PageSize * u + v
    <2>1. a + i \in Nat
      OBVIOUS
    <2> QED
      BY <2>1, DivMod
  <1> HIDE DEF q, r, u, v
  <1>3. r + i \in 0..(PageSize - 1)
    BY <1>1 DEF r
  <1>4. PageSize * u + v = PageSize * q + (r + i)
    BY <1>1, <1>2
  <1>5. v = r + i
    BY <1>1, <1>2, <1>3, <1>4, DivUnique
  <1> QED
    BY <1>1, <1>5 DEF q, v, PageCell

\* No size is zero.
LEMMA SizePositive == SectorSize \in Nat \ {0} /\ Size \in Nat \ {0}
  BY FlashAssumption DEF SectorSize, Size

\* The cells of a sector are an interval.
LEMMA SectorCellsAre ==
  ASSUME NEW s \in 0..(NSectors - 1)
  PROVE  SectorCells(s) = {c \in Cells : s * SectorSize <= c /\ c < (s + 1) * SectorSize}
  <1>1. ASSUME NEW c \in Nat
        PROVE c \div SectorSize = s <=> s * SectorSize <= c /\ c < (s + 1) * SectorSize
    <2> HIDE DEF SectorSize
    <2>1. /\ c \div SectorSize \in Nat /\ c % SectorSize \in 0..(SectorSize - 1)
          /\ c = SectorSize * (c \div SectorSize) + (c % SectorSize)
      BY SizePositive, DivMod
    <2>2. s \in Nat /\ (s + 1) * SectorSize = s * SectorSize + SectorSize
      BY FlashAssumption, SizePositive
    <2>3. ASSUME s * SectorSize <= c, c < (s + 1) * SectorSize PROVE c \div SectorSize = s
      <3>1. c - s * SectorSize \in 0..(SectorSize - 1)
        BY <2>2, <2>3, SizePositive
      <3>2. SectorSize * (c \div SectorSize) + (c % SectorSize) = SectorSize * s + (c - s * SectorSize)
        BY <2>1, <2>2, SizePositive
      <3> QED
        BY <3>1, <3>2, <2>1, <2>2, SizePositive, DivUnique
    <2> QED
      BY <2>1, <2>2, <2>3, SizePositive
  <1> QED
    BY <1>1, SizePositive DEF SectorCells, Cells

\* The sectors of a request lie inside the chip.
LEMMA Fits ==
  ASSUME NEW s \in Nat, NEW n \in Nat, s + n <= NSectors
  PROVE  /\ s * SectorSize \in Nat /\ n * SectorSize \in Nat
         /\ (s + n) * SectorSize = s * SectorSize + n * SectorSize
         /\ (s + n) * SectorSize <= Size
  <1>1. SectorSize \in Nat /\ NSectors \in Nat
    BY SizePositive, FlashAssumption
  <1>2. SectorSize * (s + n) <= SectorSize * NSectors
    BY <1>1, MulLe
  <1> HIDE DEF SectorSize
  <1> QED
    BY <1>1, <1>2 DEF Size

-----------------------------------------------------------------------------
(* The inductive invariant.                                                *)

Paging  == {"page.wait", "page.we", "page.cmd"}
Writing == Paging \cup {"erase.wait", "erase.we", "erase.cmd", "erase.done", "erase.wd",
                        "end.wait", "end.wd"}
Base == sector * SectorSize

\* A request lies inside the chip, and a sector's pages inside the sector.
Placed ==
  /\ pc # "idle" => left >= 1 /\ sector + left <= NSectors
  /\ pc \in Paging => remain > 0 /\ Base <= addr /\ addr + remain = Base + SectorSize

\* The rest of the sector that is being written is erased: the chip is at it,
\* or has done it, and no program has touched it.
Fresh ==
  /\ pc = "erase.done" =>
       \A c \in Cells : Base <= c /\ c < Base + SectorSize =>
         IF c \in DOMAIN busy THEN busy[c] = Erased ELSE mem[c] = Erased
  /\ pc = "erase.wd" =>
       \A c \in Cells : Base <= c /\ c < Base + SectorSize => mem[c] = Erased
  /\ pc \in Paging =>
       \A c \in Cells : addr <= c /\ c < Base + SectorSize =>
         mem[c] = Erased /\ c \notin DOMAIN busy

\* What has been read is a part of what was asked for.
Reading ==
  /\ pc = "read.wait" => rbuf = <<>> /\ addr = Base
  /\ pc \in {"read.wait", "read"} => addr + remain = Base + left * SectorSize
  /\ pc = "read" =>
       /\ Len(rbuf) = addr - Base
       /\ \A i \in 1..Len(rbuf) : rbuf[i] = mem[Base + i - 1]

IInv == TypeOK /\ CommandsAccepted /\ Placed /\ Fresh /\ Reading

\* The page at hand lies in the erased part of the sector, and goes to the
\* cells it is meant for.
LEMMA PageFits ==
  ASSUME TypeOK, Placed, pc = "page.cmd"
  PROVE  /\ WriteLen \in Nat /\ 1 <= WriteLen /\ WriteLen <= remain
         /\ WriteLen <= PageSize - (addr % PageSize)
         /\ Base \in Nat /\ SectorSize \in Nat /\ Base + SectorSize <= Size
         /\ \A i \in 0..(WriteLen - 1) :
              PageCell(addr, i) = addr + i /\ addr + i \in Cells
  <1>1. addr % PageSize \in 0..(PageSize - 1)
    BY DivMod, FlashAssumption DEF TypeOK
  <1>2. /\ WriteLen \in Nat /\ 1 <= WriteLen /\ WriteLen <= remain
        /\ WriteLen <= PageSize - (addr % PageSize)
    BY <1>1, FlashAssumption DEF TypeOK, Placed, Paging, WriteLen, MinOf
  <1>3. Base \in Nat /\ SectorSize \in Nat /\ Base + SectorSize <= Size
    <2>1. sector + 1 <= NSectors /\ sector \in Nat
      BY FlashAssumption DEF TypeOK, Placed
    <2>2. 1 * SectorSize = SectorSize /\ SectorSize \in Nat
      BY SizePositive
    <2>3. /\ sector * SectorSize \in Nat
          /\ (sector + 1) * SectorSize = sector * SectorSize + 1 * SectorSize
          /\ (sector + 1) * SectorSize <= Size
      BY <2>1, Fits
    <2> QED
      BY <2>2, <2>3 DEF Base
  <1>4. ASSUME NEW i \in 0..(WriteLen - 1)
        PROVE  PageCell(addr, i) = addr + i /\ addr + i \in Cells
    <2>1. i \in Nat /\ i < PageSize - (addr % PageSize) /\ i < remain
      BY <1>1, <1>2, FlashAssumption DEF TypeOK
    <2>2. PageCell(addr, i) = addr + i
      BY <2>1, PageCellIs DEF TypeOK
    <2>3. addr + i < Base + SectorSize
      BY <2>1, <1>3 DEF TypeOK, Placed, Paging
    <2> QED
      BY <2>1, <2>2, <2>3, <1>3, SizePositive DEF TypeOK, Cells
  <1> QED
    BY <1>2, <1>3, <1>4

\* A page program changes no cell outside the n bytes it was given.
LEMMA ProgramCells ==
  ASSUME TypeOK, CommandsAccepted, Placed, pc = "page.cmd",
         NEW n \in 1..WriteLen, ProgramCmd(addr, n)
  PROVE  /\ DOMAIN busy' \subseteq {c \in Cells : addr <= c /\ c < addr + n}
         /\ \A c \in DOMAIN busy' : busy'[c] \subseteq Bits
  <1> DEFINE D == {PageCell(addr, i) : i \in 0..(n - 1)}
  <1>1. WriteLen \in Nat
    BY PageFits
  <1>2. busy' = [c \in D |-> mem[c] \cap Byte(LastByte(addr, n, c))]
    BY <1>1 DEF ProgramCmd, CommandsAccepted
  <1>3. ASSUME NEW c \in D PROVE c \in Cells /\ addr <= c /\ c < addr + n
    <2>1. PICK i \in 0..(n - 1) : c = PageCell(addr, i)
      OBVIOUS
    <2>2. i \in 0..(WriteLen - 1)
      BY <1>1
    <2>3. c = addr + i /\ addr + i \in Cells
      BY <2>1, <2>2, PageFits
    <2> QED
      BY <2>3, <1>1 DEF TypeOK
  <1> HIDE DEF D
  <1>4. DOMAIN busy' = D
    BY <1>2
  <1>5. ASSUME NEW c \in D PROVE busy'[c] \subseteq Bits
    <2>1. mem[c] \subseteq Bits
      BY <1>3 DEF TypeOK
    <2> QED
      BY <1>2, <2>1
  <1> QED
    BY <1>3, <1>4, <1>5

\* The state after w25x80_init satisfies it.
LEMMA InitInv == Init => IInv
  <1> SUFFICES ASSUME Init PROVE IInv
    OBVIOUS
  <1>1. TypeOK
    <2>1. DOMAIN busy = {}
      BY DEF Init
    <2>2. torn \subseteq 0..(NSectors - 1) /\ buf \in Seq(Contents) /\ rbuf \in Seq(SUBSET Bits)
      BY DEF Init
    <2> QED
      BY <2>1, <2>2 DEF Init, TypeOK
  <1> QED
    BY <1>1 DEF Init, IInv, CommandsAccepted, Placed, Fresh, Reading, Paging

\* The driver is back where it started.
LEMMA IdleInv ==
  ASSUME Idle, mem' \in [Cells -> SUBSET Bits], DOMAIN busy' \subseteq Cells,
         \A c \in DOMAIN busy' : busy'[c] \subseteq Bits, wel' \in BOOLEAN,
         torn' \subseteq 0..(NSectors - 1)
  PROVE  IInv'
  <1>1. TypeOK'
    BY DEF Idle, TypeOK
  <1> QED
    BY <1>1 DEF Idle, IInv, CommandsAccepted, Placed, Fresh, Reading, Paging

\* A new request.
LEMMA RequestInv == IInv /\ Request => IInv'
  <1> SUFFICES ASSUME IInv, NEW s \in 0..(NSectors - 1), NEW n \in 1..MaxWrite,
                      ReadReq(s, n) \/ \E d \in [1..n -> Data] : WriteReq(s, d)
               PROVE  IInv'
    BY DEF Request
  <1>0. NSectors \in Nat /\ MaxWrite \in Nat /\ SectorSize \in Nat /\ s \in Nat /\ n \in Nat
    BY FlashAssumption, SizePositive
  <1> HIDE DEF SectorSize
  <1>1. CASE ReadReq(s, n)
    <2> USE <1>1 DEF ReadReq, chip
    <2>1. s * SectorSize \in Nat /\ n * SectorSize \in Nat
      BY <1>0, Fits
    <2>2. TypeOK'
      BY <1>0, <2>1 DEF IInv, TypeOK
    <2>3. Placed' /\ Fresh' /\ CommandsAccepted'
      BY <1>0 DEF Placed, Fresh, CommandsAccepted, Paging
    <2>4. Reading'
      BY <1>0, <2>1 DEF Reading, Base
    <2> QED
      BY <2>2, <2>3, <2>4 DEF IInv
  <1>2. ASSUME NEW d \in [1..n -> Data], WriteReq(s, d) PROVE IInv'
    <2> USE <1>2 DEF WriteReq, chip
    <2>1. d \in Seq(Contents) /\ Len(d) = n
      BY <1>0, FlashAssumption
    <2>2. TypeOK'
      BY <1>0, <2>1 DEF IInv, TypeOK
    <2>3. Placed'
      BY <1>0, <2>1 DEF Placed, Paging
    <2>4. Fresh' /\ Reading' /\ CommandsAccepted'
      BY DEF Fresh, Reading, CommandsAccepted, Paging
    <2> QED
      BY <2>2, <2>3, <2>4 DEF IInv
  <1> QED
    BY <1>1, <1>2

\* Waiting for the chip and enabling writes.
LEMMA WaitInv == IInv /\ (WaitBusy \/ WriteEnable) => IInv'
  <1> SUFFICES ASSUME IInv, WaitBusy \/ WriteEnable PROVE IInv'
    OBVIOUS
  <1>0. CommandsAccepted'
    BY StepCommands DEF IInv, Next, Driver
  <1>1. CASE WaitBusy
    <2> USE <1>1 DEF WaitBusy, Waits, chip, loop, xfer
    <2>1. TypeOK'
      BY DEF IInv, TypeOK
    <2>2. Placed'
      BY DEF IInv, Placed, Paging, Base
    <2>3. Fresh'
      BY DEF IInv, Fresh, Paging, Base, Ready
    <2>4. Reading'
      <3>1. CASE pc = "read.wait"
        <4>0. rbuf = <<>> /\ addr = Base
          BY <3>1 DEF IInv, Reading
        <4>3. Len(<<>>) = 0
          OBVIOUS
        <4>4. rbuf' = rbuf /\ addr' = addr /\ sector' = sector
          OBVIOUS
        <4>5. pc' = "read"
          <5>1. PICK w \in Waits : pc = w[1] /\ pc' = w[2]
            OBVIOUS
          <5>2. w = <<"read.wait", "read">>
            BY <3>1, <5>1
          <5> QED
            BY <5>1, <5>2
        <4>1. Len(rbuf') = 0 /\ addr' = Base' /\ pc' = "read"
          BY <4>0, <4>3, <4>4, <4>5 DEF Base
        <4>2. Base' \in Int
          BY SizePositive DEF IInv, TypeOK, Base
        <4> QED
          BY <3>1, <4>1, <4>2 DEF IInv, Reading, Base
      <3> QED
        BY <3>1 DEF Reading
    <2> QED
      BY <1>0, <2>1, <2>2, <2>3, <2>4 DEF IInv
  <1>2. CASE WriteEnable
    <2> USE <1>2 DEF WriteEnable, loop, xfer
    <2>1. wel' \in BOOLEAN
      OBVIOUS
    <2>2. TypeOK'
      BY <2>1 DEF IInv, TypeOK
    <2>3. Placed' /\ Fresh' /\ Reading'
      BY DEF IInv, Placed, Fresh, Reading, Paging, Base
    <2> QED
      BY <1>0, <2>2, <2>3 DEF IInv
  <1> QED
    BY <1>1, <1>2

\* Erasing a sector.
LEMMA EraseInv == IInv /\ (SectorErase \/ EraseDone) => IInv'
  <1> SUFFICES ASSUME IInv, SectorErase \/ EraseDone PROVE IInv'
    OBVIOUS
  <1>0. CommandsAccepted'
    BY StepCommands DEF IInv, Next, Driver
  <1>1. SectorSize \in Nat \ {0} /\ Base \in Nat
    BY SizePositive DEF IInv, TypeOK, Base
  <1>2. CASE SectorErase
    <2> USE <1>2 DEF SectorErase, loop, xfer
    <2>1. sector \in 0..(NSectors - 1)
      BY FlashAssumption DEF IInv, TypeOK, Placed
    <2>2. (sector * SectorSize) \div SectorSize = sector
      <3> HIDE DEF SectorSize
      <3>1. SectorSize * sector + 0 = sector * SectorSize
        BY <1>1, <2>1, FlashAssumption
      <3>2. /\ Base \div SectorSize \in Nat /\ Base % SectorSize \in 0..(SectorSize - 1)
            /\ Base = SectorSize * (Base \div SectorSize) + (Base % SectorSize)
        BY <1>1, DivMod
      <3>3. 0 \in 0..(SectorSize - 1) /\ sector \in Int
        BY <1>1, <2>1, FlashAssumption
      <3> QED
        BY <1>1, <3>1, <3>2, <3>3, DivUnique DEF Base
    <2>3. busy' = [c \in SectorCells(sector) |-> Erased]
      BY <2>2 DEF IInv, CommandsAccepted, EraseCmd
    <2>4. SectorCells(sector) = {c \in Cells : Base <= c /\ c < Base + SectorSize}
      <3>1. (sector + 1) * SectorSize = Base + SectorSize
        BY <1>1, <2>1, FlashAssumption DEF Base
      <3> QED
        BY <2>1, <3>1, SectorCellsAre DEF Base
    <2>5. TypeOK'
      <3>1. DOMAIN busy' \subseteq Cells /\ \A c \in DOMAIN busy' : busy'[c] \subseteq Bits
        BY <2>3, <2>4 DEF Erased
      <3> QED
        BY <2>1, <3>1 DEF IInv, TypeOK
    <2>6. Placed' /\ Reading'
      BY DEF IInv, Placed, Reading, Paging, Base
    <2>7. Fresh'
      BY <2>3, <2>4 DEF Fresh, Paging, Base
    <2> QED
      BY <1>0, <2>5, <2>6, <2>7 DEF IInv
  <1>3. CASE EraseDone
    <2> USE <1>3 DEF EraseDone, loop
    <2>1. wel' \in BOOLEAN
      OBVIOUS
    <2>2. TypeOK'
      BY <1>1, <2>1 DEF IInv, TypeOK, Base
    <2>3. Placed'
      BY <1>1 DEF IInv, Placed, Paging, Base
    <2>4. Fresh'
      BY <1>1 DEF IInv, Fresh, Paging, Base, CommandsAccepted, Ready
    <2>5. Reading'
      BY DEF Reading
    <2> QED
      BY <1>0, <2>2, <2>3, <2>4, <2>5 DEF IInv
  <1> QED
    BY <1>2, <1>3

\* Programming a page.
LEMMA ProgramInv == IInv /\ ProgramPage => IInv'
  <1> SUFFICES ASSUME IInv, ProgramPage PROVE IInv'
    OBVIOUS
  <1> USE DEF ProgramPage, loop
  <1>0. CommandsAccepted'
    BY StepCommands DEF IInv, Next, Driver
  <1>1. /\ WriteLen \in Nat /\ 1 <= WriteLen /\ WriteLen <= remain
        /\ Base \in Nat /\ SectorSize \in Nat /\ Base + SectorSize <= Size
    BY PageFits DEF IInv
  <1>2. /\ DOMAIN busy' \subseteq {c \in Cells : addr <= c /\ c < addr + WriteLen}
        /\ \A c \in DOMAIN busy' : busy'[c] \subseteq Bits
    BY <1>1, ProgramCells DEF IInv
  <1>3. addr \in Nat /\ remain \in Nat /\ ptr \in Nat
    BY DEF IInv, TypeOK
  <1> HIDE DEF SectorSize
  <1>4. TypeOK'
    <2>1. addr' \in Nat /\ ptr' \in Nat /\ remain' \in Nat
      BY <1>1, <1>3
    <2>2. pc' \in {"page.wait", "end.wait"}
      OBVIOUS
    <2> QED
      BY <1>2, <2>1, <2>2 DEF IInv, TypeOK
  <1>5. Placed'
    <2>1. left' = left /\ sector' = sector /\ Base' = Base /\ pc = "page.cmd"
      BY DEF Base
    <2>2. remain > 0 /\ Base <= addr /\ addr + remain = Base + SectorSize
      BY <2>1 DEF IInv, Placed, Paging
    <2>3. pc' \in Paging => remain' > 0
      BY <1>1, <1>3 DEF Paging
    <2>4. Base <= addr' /\ addr' + remain' = Base + SectorSize
      BY <2>2, <1>1, <1>3
    <2>5. left >= 1 /\ sector + left <= NSectors
      BY <2>1 DEF IInv, Placed
    <2> QED
      BY <2>1, <2>3, <2>4, <2>5 DEF Placed
  <1>6. Fresh'
    <2>1. Base' = Base /\ mem' = mem /\ pc' \in {"page.wait", "end.wait"}
      BY DEF Base
    <2>2. \A c \in Cells : addr <= c /\ c < Base + SectorSize => mem[c] = Erased
      BY DEF IInv, Fresh, Paging
    <2>3. ASSUME NEW c \in Cells, addr' <= c, c < Base + SectorSize
          PROVE  mem[c] = Erased /\ c \notin DOMAIN busy'
      <3>1. c \in Nat
        BY SizePositive DEF Cells
      <3>2. addr <= c /\ ~(c < addr + WriteLen)
        BY <1>1, <1>3, <2>3, <3>1
      <3> QED
        BY <1>2, <2>2, <2>3, <3>2
    <2> QED
      BY <2>1, <2>3 DEF Fresh
  <1>7. Reading'
    BY DEF Reading
  <1> QED
    BY <1>0, <1>4, <1>5, <1>6, <1>7 DEF IInv

\* The end of a sector, or of the request.
LEMMA DoneInv == IInv /\ (WriteDone \/ ReadDone) => IInv'
  <1> SUFFICES ASSUME IInv, WriteDone \/ ReadDone PROVE IInv'
    OBVIOUS
  <1>0. /\ mem \in [Cells -> SUBSET Bits] /\ DOMAIN busy \subseteq Cells
        /\ \A c \in DOMAIN busy : busy[c] \subseteq Bits
        /\ torn \subseteq 0..(NSectors - 1) /\ wel \in BOOLEAN
    BY DEF IInv, TypeOK
  <1>1. CASE WriteDone /\ left > 1
    <2> USE <1>1 DEF WriteDone, xfer
    <2>1. wel' \in BOOLEAN
      OBVIOUS
    <2>2. sector' \in Nat /\ left' \in Nat
      BY DEF IInv, TypeOK
    <2>3. TypeOK'
      BY <2>1, <2>2 DEF IInv, TypeOK
    <2>4. Placed'
      BY FlashAssumption DEF IInv, TypeOK, Placed, Paging
    <2>5. Fresh' /\ Reading' /\ CommandsAccepted'
      BY DEF Fresh, Reading, CommandsAccepted, Paging
    <2> QED
      BY <2>3, <2>4, <2>5 DEF IInv
  <1>2. CASE WriteDone /\ ~(left > 1)
    <2>1. /\ Idle /\ mem' = mem /\ busy' = busy /\ torn' = torn /\ wel' \in BOOLEAN
      BY <1>2 DEF WriteDone
    <2> QED
      BY <1>0, <2>1, IdleInv
  <1>3. CASE ReadDone
    <2>1. /\ Idle /\ mem' = mem /\ busy' = busy /\ torn' = torn /\ wel' = wel
      BY <1>3 DEF ReadDone, chip
    <2> QED
      BY <1>0, <2>1, IdleInv
  <1> QED
    BY <1>1, <1>2, <1>3

\* Reading a chunk.
LEMMA ReadInv == IInv /\ ReadChunk => IInv'
  <1> SUFFICES ASSUME IInv, ReadChunk PROVE IInv'
    OBVIOUS
  <1> USE DEF ReadChunk, chip, loop
  <1>0. CommandsAccepted'
    BY StepCommands DEF IInv, Next, Driver
  <1>1. /\ addr \in Nat /\ remain \in Nat /\ sector \in Nat /\ left \in Nat
        /\ rbuf \in Seq(SUBSET Bits) /\ mem \in [Cells -> SUBSET Bits]
    BY DEF IInv, TypeOK
  <1>2. Chunk \in Nat /\ 1 <= Chunk /\ Chunk <= remain
    BY <1>1, FlashAssumption DEF Chunk, MinOf
  <1>3. /\ Base \in Nat /\ left * SectorSize \in Nat /\ SectorSize \in Nat /\ Size \in Nat
        /\ Base + left * SectorSize <= Size
    <2>1. sector + left <= NSectors
      BY DEF IInv, Placed
    <2> QED
      BY <1>1, <2>1, Fits, SizePositive DEF Base
  <1>4. Len(rbuf) = addr - Base /\ addr + remain = Base + left * SectorSize
    BY DEF IInv, Reading
  <1> HIDE DEF SectorSize, Size
  <1> DEFINE t == [i \in 1..Chunk |-> mem[(addr + i - 1) % Size]]
  <1>5. ASSUME NEW i \in 1..Chunk
        PROVE  (addr + i - 1) % Size = addr + i - 1 /\ addr + i - 1 \in Cells
    <2>1. addr + i - 1 \in 0..(Size - 1)
      BY <1>1, <1>2, <1>3, <1>4
    <2> QED
      BY <2>1, <1>3, SizePositive, SmallMod DEF Cells
  <1>6. t \in Seq(SUBSET Bits) /\ Len(t) = Chunk
    <2>1. \A i \in 1..Chunk : mem[(addr + i - 1) % Size] \in SUBSET Bits
      BY <1>1, <1>5
    <2> QED
      BY <1>2, <2>1
  <1>7. \A i \in 1..Chunk : t[i] = mem[addr + i - 1]
    BY <1>5
  <1>8. rbuf' = rbuf \o t
    OBVIOUS
  <1> HIDE DEF t
  <1>9. /\ rbuf' \in Seq(SUBSET Bits) /\ Len(rbuf') = Len(rbuf) + Chunk
        /\ \A i \in 1..Len(rbuf') :
             rbuf'[i] = IF i <= Len(rbuf) THEN rbuf[i] ELSE t[i - Len(rbuf)]
    <2>1. /\ rbuf \o t \in Seq(SUBSET Bits)
          /\ Len(rbuf \o t) = Len(rbuf) + Len(t)
          /\ \A i \in 1..(Len(rbuf) + Len(t)) :
               (rbuf \o t)[i] = IF i <= Len(rbuf) THEN rbuf[i] ELSE t[i - Len(rbuf)]
      BY <1>1, <1>6, ConcatProperties
    <2> QED
      BY <1>6, <1>8, <2>1
  <1>10. TypeOK'
    <2>1. addr' \in Nat /\ remain' \in Nat
      BY <1>1, <1>2
    <2> QED
      BY <1>9, <2>1 DEF IInv, TypeOK
  <1>11. Placed' /\ Fresh'
    BY DEF IInv, Placed, Fresh, Paging
  <1>12. Reading'
    <2>1. Base' = Base /\ left' = left /\ mem' = mem /\ pc' = "read" /\ addr' = addr + Chunk
      BY DEF Base
    <2>2. addr' + remain' = Base + left * SectorSize /\ Len(rbuf') = addr' - Base
      BY <1>1, <1>2, <1>3, <1>4, <1>9
    <2>3. ASSUME NEW i \in 1..Len(rbuf') PROVE rbuf'[i] = mem[Base + i - 1]
      <3>1. CASE i <= Len(rbuf)
        BY <1>1, <1>9, <3>1 DEF IInv, Reading
      <3>2. CASE ~(i <= Len(rbuf))
        <4>1. i - Len(rbuf) \in 1..Chunk /\ addr + (i - Len(rbuf)) - 1 = Base + i - 1
          BY <1>1, <1>2, <1>3, <1>4, <1>9, <3>2
        <4> QED
          BY <1>7, <1>9, <3>2, <4>1
      <3> QED
        BY <3>1, <3>2
    <2> QED
      BY <2>1, <2>2, <2>3 DEF Reading
  <1> QED
    BY <1>0, <1>10, <1>11, <1>12 DEF IInv

\* The chip ends an operation.
LEMMA ChipInv == IInv /\ ChipDone => IInv'
  <1> SUFFICES ASSUME IInv, ChipDone PROVE IInv'
    OBVIOUS
  <1> USE DEF ChipDone, loop, xfer
  <1>0. CommandsAccepted'
    BY StepCommands DEF IInv, Next
  <1>1. DOMAIN busy' = {} /\ ~Ready
    OBVIOUS
  <1>2. /\ mem' \in [Cells -> SUBSET Bits]
        /\ \A c \in Cells : mem'[c] = IF c \in DOMAIN busy THEN busy[c] ELSE mem[c]
    BY DEF IInv, TypeOK
  <1>3. TypeOK'
    BY <1>1, <1>2 DEF IInv, TypeOK
  <1>4. Placed'
    BY DEF IInv, Placed, Paging, Base
  <1>5. Fresh'
    BY <1>1, <1>2 DEF IInv, Fresh, Paging, Base, CommandsAccepted
  <1>6. Reading'
    BY <1>1 DEF IInv, Reading, Base, CommandsAccepted
  <1> QED
    BY <1>0, <1>3, <1>4, <1>5, <1>6 DEF IInv

\* A restart of the processor, or a loss of power.
LEMMA FaultInv == IInv /\ (McuReset \/ PowerFail) => IInv'
  <1> SUFFICES ASSUME IInv, McuReset \/ PowerFail PROVE IInv'
    OBVIOUS
  <1>0. /\ mem \in [Cells -> SUBSET Bits] /\ DOMAIN busy \subseteq Cells
        /\ \A c \in DOMAIN busy : busy[c] \subseteq Bits
        /\ torn \subseteq 0..(NSectors - 1) /\ wel \in BOOLEAN
    BY DEF IInv, TypeOK
  <1>1. CASE McuReset
    <2>1. Idle /\ mem' = mem /\ wel' = wel /\ torn' = torn
      BY <1>1 DEF McuReset
    <2>2. DOMAIN busy' \subseteq Cells /\ \A c \in DOMAIN busy' : busy'[c] \subseteq Bits
      <3>1. CASE busy' = busy
        BY <1>0, <3>1
      <3>2. ASSUME pc = "page.cmd", NEW n \in 1..WriteLen, ProgramCmd(addr, n)
            PROVE  DOMAIN busy' \subseteq Cells
                   /\ \A c \in DOMAIN busy' : busy'[c] \subseteq Bits
        BY <3>2, ProgramCells DEF IInv
      <3> QED
        BY <1>1, <3>1, <3>2 DEF McuReset
    <2> QED
      BY <1>0, <2>1, <2>2, IdleInv
  <1>2. CASE PowerFail
    <2>1. PICK g \in [DOMAIN busy -> SUBSET Bits] :
            mem' = [c \in Cells |-> IF c \in DOMAIN busy THEN g[c] ELSE mem[c]]
      BY <1>2 DEF PowerFail
    <2>2. mem' \in [Cells -> SUBSET Bits]
      BY <1>0, <2>1
    <2>3. Idle /\ DOMAIN busy' = {} /\ wel' = FALSE /\ torn' = torn
      BY <1>2 DEF PowerFail
    <2> QED
      BY <1>0, <2>2, <2>3, IdleInv
  <1> QED
    BY <1>1, <1>2

\* Every step keeps the inductive invariant.
LEMMA InvKept == IInv /\ [Next]_vars => IInv'
  <1>1. IInv /\ UNCHANGED vars => IInv'
    <2> SUFFICES ASSUME IInv, UNCHANGED vars PROVE IInv'
      OBVIOUS
    <2> USE DEF vars, chip, loop, xfer
    <2>1. TypeOK' /\ CommandsAccepted'
      BY DEF IInv, TypeOK, CommandsAccepted, Accepts, Ready
    <2>2. Placed' /\ Fresh' /\ Reading'
      BY DEF IInv, Placed, Fresh, Reading, Base
    <2> QED
      BY <2>1, <2>2 DEF IInv
  <1> QED
    BY <1>1, RequestInv, WaitInv, EraseInv, ProgramInv, DoneInv, ReadInv, ChipInv,
       FaultInv DEF Next, Driver

\* The inductive invariant holds of every behaviour.
LEMMA Invariant == Spec => []IInv
  BY InvKept, InitInv, PTL DEF Spec

\* Every variable keeps its type: no operation reaches a cell outside the
\* chip.
THEOREM TypeCorrect == Spec => []TypeOK
  <1>1. IInv => TypeOK
    BY DEF IInv
  <1> QED
    BY <1>1, Invariant, PTL

\* Every page is programmed over erased cells of the sector being written.
THEOREM ProgramsOverErased == Spec => []ProgramsErased
  <1>1. IInv => ProgramsErased
    <2> SUFFICES ASSUME IInv, pc = "page.cmd", NEW i \in 0..(WriteLen - 1)
                 PROVE  /\ PageCell(addr, i) = addr + i
                        /\ addr + i \in SectorCells(sector)
                        /\ mem[addr + i] = Erased
      BY DEF ProgramsErased
    <2>1. /\ WriteLen \in Nat /\ WriteLen <= remain /\ Base \in Nat /\ SectorSize \in Nat
          /\ PageCell(addr, i) = addr + i /\ addr + i \in Cells
      BY PageFits DEF IInv
    <2>2. /\ addr \in Nat /\ remain \in Nat /\ Base <= addr
          /\ addr + remain = Base + SectorSize
      BY DEF IInv, TypeOK, Placed, Paging
    <2>3. Base <= addr + i /\ addr + i < Base + SectorSize /\ addr <= addr + i
      BY <2>1, <2>2
    <2>4. sector \in 0..(NSectors - 1)
      BY FlashAssumption DEF IInv, TypeOK, Placed
    <2>5. (sector + 1) * SectorSize = Base + SectorSize
      BY <2>1, <2>4, FlashAssumption DEF Base
    <2>6. addr + i \in SectorCells(sector)
      BY <2>1, <2>3, <2>4, <2>5, SectorCellsAre DEF Base
    <2>7. mem[addr + i] = Erased
      BY <2>1, <2>3 DEF IInv, Fresh, Paging
    <2> QED
      BY <2>1, <2>6, <2>7
  <1> QED
    BY <1>1, Invariant, PTL

\* A read returns what the flash holds in all the sectors asked for.
THEOREM ReadsAreWhole == Spec => []ReadsWhole
  <1>1. IInv => ReadsWhole
    <2> SUFFICES ASSUME IInv, pc = "read", remain = 0
                 PROVE  rbuf = [i \in 1..(left * SectorSize) |-> mem[sector * SectorSize + i - 1]]
      BY DEF ReadsWhole
    <2>1. left * SectorSize \in Nat /\ Base \in Nat
      BY SizePositive DEF IInv, TypeOK, Base
    <2>2. rbuf \in Seq(SUBSET Bits) /\ addr \in Nat
      BY DEF IInv, TypeOK
    <2>3. Len(rbuf) = left * SectorSize
      BY <2>1, <2>2 DEF IInv, Reading
    <2>4. \A i \in 1..Len(rbuf) : rbuf[i] = mem[sector * SectorSize + i - 1]
      BY DEF IInv, Reading, Base
    <2>5. rbuf = [i \in 1..Len(rbuf) |-> rbuf[i]]
      BY <2>2
    <2>6. rbuf = [i \in 1..Len(rbuf) |-> mem[sector * SectorSize + i - 1]]
      BY <2>4, <2>5, Zenon
    <2> QED
      BY <2>3, <2>6
  <1> QED
    BY <1>1, Invariant, PTL

-----------------------------------------------------------------------------
(* What is on the chip while a request is being written.                   *)

Ended == {"end.wait", "end.wd"}

\* The sector contents of buf that come before the one being written.
Block == Len(buf) - left

\* The chip is only ever at work in a torn sector, also when the processor
\* restarted, and the sector that is being written is torn.
Tearing ==
  /\ \A c \in DOMAIN busy : c \div SectorSize \in torn
  /\ pc \in Paging \cup {"erase.done", "erase.wd", "end.wait"} => sector \in torn

\* ptr keeps step with the sector and the address.
Buffered ==
  pc \in Writing =>
    /\ left <= Len(buf)
    /\ IF pc \in Paging \cup Ended THEN ptr = Block * SectorSize + (addr - Base)
       ELSE ptr = Block * SectorSize
    /\ pc \in Ended => addr = Base + SectorSize

\* What has been programmed of the sector is, or is about to be, what the
\* caller gave.
Stored ==
  pc \in Paging \cup {"end.wait"} =>
    \A k \in 0..(SectorSize - 1) : Base + k < addr =>
      (IF Base + k \in DOMAIN busy THEN busy[Base + k] ELSE mem[Base + k])
        = buf[Block + 1][k]

WInv == Tearing /\ Buffered /\ Stored

\* Where a cell lies.
LEMMA CellOf ==
  ASSUME NEW s \in 0..(NSectors - 1), NEW i \in 0..(SectorSize - 1)
  PROVE  s * SectorSize + i \in Cells /\ (s * SectorSize + i) \div SectorSize = s
  <1>1. s \in Nat /\ s + 1 <= NSectors /\ SectorSize \in Nat \ {0} /\ 1 * SectorSize = SectorSize
    BY FlashAssumption, SizePositive
  <1>2. /\ s * SectorSize \in Nat
        /\ (s + 1) * SectorSize = s * SectorSize + 1 * SectorSize
        /\ (s + 1) * SectorSize <= Size
    BY <1>1, Fits
  <1> HIDE DEF SectorSize, Size
  <1>3. s * SectorSize + i \in Cells
    BY <1>1, <1>2, SizePositive DEF Cells
  <1>4. s * SectorSize <= s * SectorSize + i /\ s * SectorSize + i < (s + 1) * SectorSize
    BY <1>1, <1>2
  <1>5. s * SectorSize + i \in SectorCells(s)
    BY <1>3, <1>4, SectorCellsAre
  <1> QED
    BY <1>3, <1>5 DEF SectorCells

\* The sector that a request is at.
LEMMA AtSector ==
  ASSUME IInv, pc # "idle"
  PROVE  /\ sector \in 0..(NSectors - 1) /\ Base \in Nat /\ SectorSize \in Nat \ {0}
         /\ left \in Nat /\ left >= 1 /\ sector + left <= NSectors
         /\ \A c \in Cells : Base <= c /\ c < Base + SectorSize => c \div SectorSize = sector
  <1>1. /\ sector \in 0..(NSectors - 1) /\ left \in Nat /\ left >= 1
        /\ sector + left <= NSectors
    BY FlashAssumption DEF IInv, TypeOK, Placed
  <1>2. SectorSize \in Nat \ {0} /\ sector \in Nat
    BY <1>1, SizePositive, FlashAssumption
  <1>3. Base \in Nat /\ (sector + 1) * SectorSize = Base + SectorSize
    BY <1>2 DEF Base
  <1>4. \A c \in Cells : Base <= c /\ c < Base + SectorSize => c \div SectorSize = sector
    BY <1>1, <1>3, SectorCellsAre DEF Base, SectorCells
  <1> QED
    BY <1>1, <1>2, <1>3, <1>4

\* The position of ptr behind the start of the sector contents.
LEMMA PtrAt ==
  ASSUME NEW b \in Nat, NEW r \in 0..(SectorSize - 1)
  PROVE  (b * SectorSize + r) \div SectorSize = b /\ (b * SectorSize + r) % SectorSize = r
  <1> DEFINE a == b * SectorSize + r
  <1>1. SectorSize \in Nat \ {0} /\ a \in Nat /\ a = SectorSize * b + r
    BY SizePositive
  <1>2. /\ a \div SectorSize \in Nat /\ a % SectorSize \in 0..(SectorSize - 1)
        /\ a = SectorSize * (a \div SectorSize) + (a % SectorSize)
    BY <1>1, DivMod
  <1>3. SectorSize * (a \div SectorSize) + (a % SectorSize) = SectorSize * b + r
    BY <1>1, <1>2
  <1> HIDE DEF a, SectorSize
  <1>4. a \div SectorSize = b /\ a % SectorSize = r
    BY <1>1, <1>2, <1>3, DivUnique, SMTT(30)
  <1> QED
    BY <1>4 DEF a

\* A page program puts the bytes of the caller's sector into the page.
LEMMA ProgramStores ==
  ASSUME IInv, WInv, pc = "page.cmd", ProgramCmd(addr, WriteLen)
  PROVE  /\ \A c : c \in DOMAIN busy' <=> c \in Cells /\ addr <= c /\ c < addr + WriteLen
         /\ \A i \in 0..(WriteLen - 1) : busy'[addr + i] = buf[Block + 1][(addr - Base) + i]
  <1> DEFINE D == {PageCell(addr, i) : i \in 0..(WriteLen - 1)}
  <1>1. /\ WriteLen \in Nat /\ 1 <= WriteLen /\ WriteLen <= remain
        /\ \A i \in 0..(WriteLen - 1) : PageCell(addr, i) = addr + i /\ addr + i \in Cells
    BY PageFits DEF IInv
  <1>2. busy' = [c \in D |-> mem[c] \cap Byte(LastByte(addr, WriteLen, c))]
    BY <1>1 DEF ProgramCmd, IInv, CommandsAccepted
  <1>3. /\ addr \in Nat /\ remain \in Nat /\ ptr \in Nat /\ left \in Nat
        /\ buf \in Seq(Contents) /\ Len(buf) \in Nat
    BY DEF IInv, TypeOK
  <1>4. sector \in 0..(NSectors - 1) /\ Base \in Nat /\ SectorSize \in Nat \ {0} /\ left >= 1
    BY AtSector
  <1>5. Base <= addr /\ addr + remain = Base + SectorSize
    BY DEF IInv, Placed, Paging
  <1>6. left <= Len(buf) /\ ptr = Block * SectorSize + (addr - Base)
    BY DEF WInv, Buffered, Writing, Paging
  <1>7. Block \in Nat /\ Block + 1 \in 1..Len(buf)
    BY <1>3, <1>4, <1>6 DEF Block
  <1>8. Block * SectorSize \in Nat
    BY <1>4, <1>7
  <1> HIDE DEF D, SectorSize, Block, Base
  <1>9. \A c : c \in D <=> c \in Cells /\ addr <= c /\ c < addr + WriteLen
    <2>1. ASSUME NEW c \in D PROVE c \in Cells /\ addr <= c /\ c < addr + WriteLen
      <3>1. PICK i \in 0..(WriteLen - 1) : c = PageCell(addr, i)
        BY DEF D
      <3> QED
        BY <1>1, <1>3, <3>1
    <2>2. ASSUME NEW c \in Cells, addr <= c, c < addr + WriteLen PROVE c \in D
      <3>1. c \in Nat
        BY SizePositive DEF Cells
      <3>2. c - addr \in 0..(WriteLen - 1) /\ c = addr + (c - addr)
        BY <1>1, <1>3, <2>2, <3>1
      <3>3. PageCell(addr, c - addr) = c
        BY <1>1, <3>2
      <3> QED
        BY <3>2, <3>3 DEF D
    <2> QED
      BY <2>1, <2>2
  <1>10. ASSUME NEW i \in 0..(WriteLen - 1)
         PROVE  busy'[addr + i] = buf[Block + 1][(addr - Base) + i]
    <2>1. addr + i \in D
      BY <1>1 DEF D
    <2>2. LastByte(addr, WriteLen, addr + i) = i
      <3>1. \A j \in 0..(WriteLen - 1) : PageCell(addr, j) = addr + i <=> j = i
        BY <1>1, <1>3
      <3>2. \A j \in 0..(WriteLen - 1) :
              (PageCell(addr, j) = addr + i
                 /\ \A l \in 0..(WriteLen - 1) : PageCell(addr, l) = addr + i => l <= j)
              <=> j = i
        BY <1>1, <3>1
      <3> QED
        BY <3>2 DEF LastByte
    <2>3. (addr - Base) + i \in 0..(SectorSize - 1)
      BY <1>1, <1>3, <1>4, <1>5
    <2>4. ptr + i = Block * SectorSize + ((addr - Base) + i)
      BY <1>1, <1>3, <1>4, <1>6, <1>8
    <2>5. (ptr + i) \div SectorSize = Block /\ (ptr + i) % SectorSize = (addr - Base) + i
      BY <1>7, <2>3, <2>4, PtrAt
    <2>6. Byte(i) = buf[Block + 1][(addr - Base) + i]
      BY <1>7, <2>5 DEF Byte
    <2>7. buf[Block + 1] \in Contents
      BY <1>3, <1>7
    <2>8. Byte(i) \subseteq Bits
      BY <2>3, <2>6, <2>7 DEF Contents
    <2>9. mem[addr + i] = Bits
      <3>1. i \in Nat /\ i < WriteLen /\ addr + i \in Cells
        BY <1>1
      <3>2. addr <= addr + i /\ addr + i < Base + SectorSize
        BY <1>1, <1>3, <1>4, <1>5, <3>1
      <3> QED
        BY <3>1, <3>2 DEF IInv, Fresh, Paging, Erased
    <2>10. busy'[addr + i] = mem[addr + i] \cap Byte(i)
      BY <1>2, <2>1, <2>2
    <2> QED
      BY <2>6, <2>8, <2>9, <2>10
  <1> QED
    BY <1>2, <1>9, <1>10

\* An idle driver owes nothing but the torn sectors.
LEMMA IdleW ==
  ASSUME pc' \in {"idle", "read.wait", "read"}, \A c \in DOMAIN busy' : c \div SectorSize \in torn'
  PROVE  WInv'
  BY DEF WInv, Tearing, Buffered, Stored, Paging, Writing, Ended

\* A new request.
LEMMA RequestW == IInv /\ WInv /\ Request => WInv'
  <1> SUFFICES ASSUME IInv, WInv, NEW s \in 0..(NSectors - 1), NEW n \in 1..MaxWrite,
                      ReadReq(s, n) \/ \E d \in [1..n -> Data] : WriteReq(s, d)
               PROVE  WInv'
    BY DEF Request
  <1>0. \A c \in DOMAIN busy : c \div SectorSize \in torn
    BY DEF WInv, Tearing
  <1>1. CASE ReadReq(s, n)
    BY <1>0, <1>1, IdleW DEF ReadReq, chip
  <1>2. ASSUME NEW d \in [1..n -> Data], WriteReq(s, d) PROVE WInv'
    <2>1. n \in Nat /\ SectorSize \in Nat
      BY FlashAssumption, SizePositive
    <2>2. Len(d) = n
      BY <2>1
    <2>3. pc' = "erase.wait" /\ busy' = busy /\ torn' = torn /\ ptr' = 0 /\ left' = n /\ buf' = d
      BY <1>2, <2>2 DEF WriteReq, chip
    <2>4. Block' = 0
      BY <2>1, <2>2, <2>3 DEF Block
    <2>5. ptr' = Block' * SectorSize /\ left' <= Len(buf')
      BY <2>1, <2>2, <2>3, <2>4
    <2> QED
      BY <1>0, <2>3, <2>5 DEF WInv, Tearing, Buffered, Stored, Paging, Writing, Ended
  <1> QED
    BY <1>1, <1>2

\* Waiting for the chip and enabling writes.
LEMMA WaitW == IInv /\ WInv /\ (WaitBusy \/ WriteEnable) => WInv'
  <1> SUFFICES ASSUME IInv, WInv, WaitBusy \/ WriteEnable PROVE WInv'
    OBVIOUS
  <1>1. CASE WaitBusy
    <2>1. DOMAIN busy = {} /\ busy' = busy /\ mem' = mem
      BY <1>1 DEF WaitBusy, Ready, chip
    <2>2. /\ Base' = Base /\ Block' = Block /\ left' = left /\ buf' = buf /\ addr' = addr
          /\ ptr' = ptr /\ sector' = sector
      BY <1>1 DEF WaitBusy, loop, xfer, Base, Block
    <2>3. \/ pc = "erase.wait" /\ pc' = "erase.we"
          \/ pc = "erase.done" /\ pc' = "erase.wd"
          \/ pc = "page.wait" /\ pc' = "page.we"
          \/ pc = "end.wait" /\ pc' = "end.wd"
          \/ pc = "read.wait" /\ pc' = "read"
      BY <1>1 DEF WaitBusy, Waits
    <2>4. pc # "end.wait" => torn' = torn
      BY <1>1 DEF WaitBusy
    <2>5. Tearing'
      BY <2>1, <2>2, <2>3, <2>4 DEF WInv, Tearing, Paging
    <2>6. Buffered'
      BY <2>2, <2>3 DEF WInv, Buffered, Paging, Writing, Ended
    <2>7. Stored'
      BY <2>1, <2>2, <2>3 DEF WInv, Stored, Paging
    <2> QED
      BY <2>5, <2>6, <2>7 DEF WInv
  <1>2. CASE WriteEnable
    <2>1. /\ busy' = busy /\ mem' = mem /\ torn' = torn
          /\ Base' = Base /\ Block' = Block /\ left' = left /\ buf' = buf /\ addr' = addr
          /\ ptr' = ptr /\ sector' = sector
      BY <1>2 DEF WriteEnable, loop, xfer, Base, Block
    <2>2. \/ pc = "erase.we" /\ pc' = "erase.cmd"
          \/ pc = "page.we" /\ pc' = "page.cmd"
      BY <1>2 DEF WriteEnable
    <2>3. Tearing' /\ Buffered'
      BY <2>1, <2>2 DEF WInv, Tearing, Buffered, Paging, Writing, Ended
    <2>4. Stored'
      BY <2>1, <2>2 DEF WInv, Stored, Paging
    <2> QED
      BY <2>3, <2>4 DEF WInv
  <1> QED
    BY <1>1, <1>2

\* Erasing a sector.
LEMMA EraseW == IInv /\ WInv /\ (SectorErase \/ EraseDone) => WInv'
  <1> SUFFICES ASSUME IInv, WInv, SectorErase \/ EraseDone PROVE WInv'
    OBVIOUS
  <1>0. /\ sector \in 0..(NSectors - 1) /\ Base \in Nat /\ SectorSize \in Nat \ {0}
        /\ left \in Nat
    BY AtSector DEF SectorErase, EraseDone
  <1> HIDE DEF SectorSize
  <1>1. CASE SectorErase
    <2>1. /\ Base' = Base /\ Block' = Block /\ left' = left /\ buf' = buf /\ addr' = addr
          /\ ptr' = ptr /\ sector' = sector /\ torn' = torn \cup {sector}
          /\ pc = "erase.cmd" /\ pc' = "erase.done"
      BY <1>1 DEF SectorErase, loop, xfer, Base, Block
    <2>2. (sector * SectorSize) \div SectorSize = sector
      <3>1. 0 \in 0..(SectorSize - 1) /\ sector * SectorSize \in Nat
        BY <1>0, FlashAssumption DEF Base
      <3> QED
        BY <1>0, <3>1, CellOf
    <2>3. busy' = [c \in SectorCells(sector) |-> Erased]
      BY <1>1, <2>2 DEF SectorErase, IInv, CommandsAccepted, EraseCmd
    <2>4. \A c \in DOMAIN busy' : c \div SectorSize = sector
      BY <2>3 DEF SectorCells
    <2> QED
      BY <2>1, <2>4 DEF WInv, Tearing, Buffered, Stored, Paging, Writing, Ended
  <1>2. CASE EraseDone
    <2>1. /\ Base' = Base /\ Block' = Block /\ left' = left /\ buf' = buf /\ addr' = Base
          /\ ptr' = ptr /\ sector' = sector /\ torn' = torn /\ busy' = busy
          /\ pc = "erase.wd" /\ pc' = "page.wait"
      BY <1>2 DEF EraseDone, loop, Base, Block
    <2>2. Tearing'
      BY <2>1 DEF WInv, Tearing, Paging
    <2>3. Buffered'
      <3>1. ptr = Block * SectorSize /\ left <= Len(buf)
        BY <2>1 DEF WInv, Buffered, Writing, Paging, Ended
      <3>2. Block \in Nat
        BY <1>0, <3>1 DEF Block, IInv, TypeOK
      <3>3. Block * SectorSize \in Nat
        BY <1>0, <3>2
      <3>4. ptr' = Block' * SectorSize + (addr' - Base')
        BY <1>0, <2>1, <3>1, <3>3
      <3> QED
        BY <2>1, <3>1, <3>4 DEF Buffered, Paging, Ended
    <2>4. Stored'
      BY <1>0, <2>1 DEF Stored
    <2> QED
      BY <2>2, <2>3, <2>4 DEF WInv
  <1> QED
    BY <1>1, <1>2

\* Programming a page.
LEMMA ProgramW == IInv /\ WInv /\ ProgramPage => WInv'
  <1> SUFFICES ASSUME IInv, WInv, ProgramPage PROVE WInv'
    OBVIOUS
  <1>1. /\ Base' = Base /\ Block' = Block /\ left' = left /\ buf' = buf /\ mem' = mem
        /\ sector' = sector /\ torn' = torn /\ pc = "page.cmd"
        /\ addr' = addr + WriteLen /\ ptr' = ptr + WriteLen /\ remain' = remain - WriteLen
        /\ pc' = (IF remain' > 0 THEN "page.wait" ELSE "end.wait")
        /\ ProgramCmd(addr, WriteLen)
    BY DEF ProgramPage, loop, Base, Block
  <1>2. WriteLen \in Nat /\ 1 <= WriteLen /\ WriteLen <= remain
    BY <1>1, PageFits DEF IInv
  <1>3. addr \in Nat /\ remain \in Nat /\ ptr \in Nat /\ left \in Nat /\ Len(buf) \in Nat
    BY DEF IInv, TypeOK
  <1>4. /\ sector \in 0..(NSectors - 1) /\ Base \in Nat /\ SectorSize \in Nat \ {0}
        /\ \A c \in Cells : Base <= c /\ c < Base + SectorSize => c \div SectorSize = sector
    BY <1>1, AtSector
  <1>5. Base <= addr /\ addr + remain = Base + SectorSize
    BY <1>1 DEF IInv, Placed, Paging
  <1>6. left <= Len(buf) /\ ptr = Block * SectorSize + (addr - Base) /\ sector \in torn
    BY <1>1 DEF WInv, Buffered, Tearing, Writing, Paging
  <1>7. /\ \A c : c \in DOMAIN busy' <=> c \in Cells /\ addr <= c /\ c < addr + WriteLen
        /\ \A i \in 0..(WriteLen - 1) : busy'[addr + i] = buf[Block + 1][(addr - Base) + i]
    BY <1>1, ProgramStores
  <1>8. Block * SectorSize \in Nat
    <2>1. Block \in Nat
      BY <1>3, <1>6 DEF Block
    <2> QED
      BY <1>4, <2>1
  <1>9. DOMAIN busy = {}
    BY <1>1 DEF IInv, CommandsAccepted, Accepts, Ready
  <1> HIDE DEF SectorSize
  <1>10. Tearing'
    <2>1. ASSUME NEW c \in DOMAIN busy' PROVE c \div SectorSize = sector
      <3>1. c \in Cells /\ addr <= c /\ c < addr + WriteLen
        BY <1>7, <2>1
      <3>2. c \in Nat
        BY <3>1, SizePositive DEF Cells
      <3>3. Base <= c /\ c < Base + SectorSize
        BY <1>2, <1>3, <1>4, <1>5, <3>1, <3>2
      <3> QED
        BY <1>4, <3>1, <3>3
    <2> QED
      BY <1>1, <1>6, <2>1 DEF Tearing
  <1>11. Buffered'
    <2>1. ptr' = Block' * SectorSize + (addr' - Base')
      BY <1>1, <1>2, <1>3, <1>4, <1>6, <1>8
    <2>2. pc' # "page.wait" => pc' = "end.wait" /\ addr' = Base + SectorSize
      BY <1>1, <1>2, <1>3, <1>4, <1>5
    <2> QED
      BY <1>1, <1>6, <2>1, <2>2 DEF Buffered, Paging, Writing, Ended
  <1>12. Stored'
    <2> SUFFICES ASSUME NEW k \in 0..(SectorSize - 1), Base + k < addr + WriteLen
                 PROVE  (IF Base + k \in DOMAIN busy' THEN busy'[Base + k] ELSE mem[Base + k])
                          = buf[Block + 1][k]
      BY <1>1 DEF Stored
    <2>0. k \in Nat
      BY <1>4
    <2>1. CASE Base + k < addr
      <3>1. Base + k \notin DOMAIN busy'
        BY <1>3, <1>4, <1>7, <2>0, <2>1
      <3>2. mem[Base + k] = buf[Block + 1][k]
        BY <1>1, <1>9, <2>1 DEF WInv, Stored, Paging
      <3> QED
        BY <3>1, <3>2
    <2>2. CASE ~(Base + k < addr)
      <3> DEFINE i == Base + k - addr
      <3>1. i \in 0..(WriteLen - 1) /\ addr + i = Base + k /\ (addr - Base) + i = k
        BY <1>2, <1>3, <1>4, <2>0, <2>2
      <3> HIDE DEF i
      <3>2. busy'[addr + i] = buf[Block + 1][(addr - Base) + i]
        BY <1>7, <3>1
      <3>3. Base + k \in Cells
        <4>1. Base + k = sector * SectorSize + k
          BY DEF Base
        <4> QED
          BY <1>4, <4>1, CellOf
      <3>4. Base + k \in DOMAIN busy'
        BY <1>2, <1>3, <1>4, <1>7, <2>0, <2>2, <3>3
      <3> QED
        BY <3>1, <3>2, <3>4
    <2> QED
      BY <2>1, <2>2
  <1> QED
    BY <1>10, <1>11, <1>12 DEF WInv

\* The end of a sector, or of the request.
LEMMA DoneW == IInv /\ WInv /\ (WriteDone \/ ReadDone \/ ReadChunk) => WInv'
  <1> SUFFICES ASSUME IInv, WInv, WriteDone \/ ReadDone \/ ReadChunk PROVE WInv'
    OBVIOUS
  <1>0. busy' = busy /\ torn' = torn /\ \A c \in DOMAIN busy : c \div SectorSize \in torn
    BY DEF WInv, Tearing, WriteDone, ReadDone, ReadChunk, chip
  <1>1. CASE WriteDone /\ left > 1
    <2>1. /\ pc = "end.wd" /\ pc' = "erase.wait" /\ left' = left - 1 /\ buf' = buf
          /\ ptr' = ptr
      BY <1>1 DEF WriteDone, xfer
    <2>2. /\ left <= Len(buf) /\ ptr = Block * SectorSize + (addr - Base)
          /\ addr = Base + SectorSize
      BY <2>1 DEF WInv, Buffered, Writing, Paging, Ended
    <2>3. Base \in Nat /\ SectorSize \in Nat /\ left \in Nat /\ Len(buf) \in Nat
      BY <2>1, AtSector DEF IInv, TypeOK
    <2> HIDE DEF SectorSize
    <2>4. Block \in Nat /\ Block' = Block + 1
      BY <2>1, <2>2, <2>3 DEF Block
    <2>5. (Block + 1) * SectorSize = Block * SectorSize + SectorSize /\ Block * SectorSize \in Nat
      BY <2>3, <2>4
    <2>6. ptr' = Block' * SectorSize
      BY <2>1, <2>2, <2>3, <2>4, <2>5
    <2>7. left' <= Len(buf')
      BY <2>1, <2>2, <2>3
    <2> QED
      BY <1>0, <2>1, <2>6, <2>7 DEF WInv, Tearing, Buffered, Stored, Paging, Writing, Ended
  <1>2. CASE WriteDone /\ ~(left > 1)
    BY <1>0, <1>2, IdleW DEF WriteDone, Idle
  <1>3. CASE ReadDone \/ ReadChunk
    BY <1>0, <1>3, IdleW DEF ReadDone, ReadChunk, Idle
  <1> QED
    BY <1>1, <1>2, <1>3

\* The chip ends an operation.
LEMMA ChipW == IInv /\ WInv /\ ChipDone => WInv'
  <1> SUFFICES ASSUME IInv, WInv, ChipDone PROVE WInv'
    OBVIOUS
  <1>1. /\ Base' = Base /\ Block' = Block /\ left' = left /\ buf' = buf /\ pc' = pc
        /\ sector' = sector /\ torn' = torn /\ addr' = addr /\ ptr' = ptr
        /\ DOMAIN busy' = {}
    BY DEF ChipDone, loop, xfer, Base, Block
  <1>2. \A c \in Cells : mem'[c] = IF c \in DOMAIN busy THEN busy[c] ELSE mem[c]
    BY DEF ChipDone
  <1>3. Tearing' /\ Buffered'
    BY <1>1 DEF WInv, Tearing, Buffered
  <1>4. Stored'
    <2> SUFFICES ASSUME pc \in Paging \cup {"end.wait"}, NEW k \in 0..(SectorSize - 1),
                        Base + k < addr
                 PROVE  mem'[Base + k] = buf[Block + 1][k]
      BY <1>1 DEF Stored
    <2>1. sector \in 0..(NSectors - 1)
      BY AtSector DEF Paging
    <2>2. Base + k \in Cells
      BY <2>1, CellOf DEF Base
    <2> QED
      BY <1>2, <2>2 DEF WInv, Stored
  <1> QED
    BY <1>3, <1>4 DEF WInv

\* Nothing happens.
LEMMA StaysW == WInv /\ UNCHANGED vars => WInv'
  BY DEF WInv, Tearing, Buffered, Stored, Block, Base, vars, chip, loop, xfer

\* A restart of the processor, or a loss of power.
LEMMA FaultW == IInv /\ WInv /\ (McuReset \/ PowerFail) => WInv'
  <1> SUFFICES ASSUME IInv, WInv, McuReset \/ PowerFail PROVE WInv'
    OBVIOUS
  <1>0. \A c \in DOMAIN busy : c \div SectorSize \in torn
    BY DEF WInv, Tearing
  <1>1. CASE McuReset
    <2>1. pc' = "idle" /\ torn' = torn
      BY <1>1 DEF McuReset, Idle
    <2>2. CASE busy' = busy
      BY <1>0, <2>1, <2>2, IdleW
    <2>3. ASSUME pc = "page.cmd", NEW n \in 1..WriteLen, ProgramCmd(addr, n) PROVE WInv'
      <3>1. DOMAIN busy' \subseteq {c \in Cells : addr <= c /\ c < addr + n}
        BY <2>3, ProgramCells DEF IInv
      <3>2. WriteLen \in Nat /\ WriteLen <= remain
        BY <2>3, PageFits DEF IInv
      <3>3. /\ Base \in Nat /\ SectorSize \in Nat
            /\ \A c \in Cells : Base <= c /\ c < Base + SectorSize => c \div SectorSize = sector
        BY <2>3, AtSector
      <3>4. Base <= addr /\ addr + remain = Base + SectorSize /\ addr \in Nat /\ remain \in Nat
        BY <2>3 DEF IInv, TypeOK, Placed, Paging
      <3>5. ASSUME NEW c \in DOMAIN busy' PROVE c \div SectorSize = sector
        <4>1. c \in Cells /\ addr <= c /\ c < addr + n /\ n \in Nat /\ n <= WriteLen
          BY <3>1, <3>2, <3>5
        <4>2. c \in Nat
          BY <4>1, SizePositive DEF Cells
        <4> HIDE DEF SectorSize
        <4>3. Base <= c /\ c < Base + SectorSize
          BY <3>2, <3>3, <3>4, <4>1, <4>2
        <4> QED
          BY <3>3, <4>1, <4>3
      <3>6. sector \in torn
        BY <2>3 DEF WInv, Tearing, Paging
      <3> QED
        BY <2>1, <3>5, <3>6, IdleW
    <2> QED
      BY <1>1, <2>2, <2>3 DEF McuReset
  <1>2. CASE PowerFail
    <2>1. pc' = "idle" /\ DOMAIN busy' = {}
      BY <1>2 DEF PowerFail, Idle
    <2> QED
      BY <2>1, IdleW
  <1> QED
    BY <1>1, <1>2

-----------------------------------------------------------------------------
(* Driver and chip implement the array of sectors.                         *)

\* The refinement mapping's array of sectors and position.
Blocks ==
  [s \in 0..(NSectors - 1) |->
     IF s \in torn THEN Torn
     ELSE [i \in 0..(SectorSize - 1) |-> mem[s * SectorSize + i]]]
At == IF Todo = <<>> THEN 0 ELSE IF pc = "end.wd" THEN sector + 1 ELSE sector

\* The array only sees the cells of sectors that are not torn.
LEMMA BlocksKept ==
  ASSUME Tearing, torn' = torn,
         \A c \in Cells : c \notin DOMAIN busy => mem'[c] = mem[c]
  PROVE  Blocks' = Blocks
  <1>1. ASSUME NEW s \in 0..(NSectors - 1), s \notin torn
        PROVE  [i \in 0..(SectorSize - 1) |-> mem'[s * SectorSize + i]]
                 = [i \in 0..(SectorSize - 1) |-> mem[s * SectorSize + i]]
    <2>1. \A i \in 0..(SectorSize - 1) : mem'[s * SectorSize + i] = mem[s * SectorSize + i]
      <3> SUFFICES ASSUME NEW i \in 0..(SectorSize - 1)
                   PROVE  mem'[s * SectorSize + i] = mem[s * SectorSize + i]
        OBVIOUS
      <3>1. s * SectorSize + i \in Cells /\ (s * SectorSize + i) \div SectorSize = s
        BY CellOf
      <3>2. s * SectorSize + i \notin DOMAIN busy
        BY <1>1, <3>1 DEF Tearing
      <3> QED
        BY <3>1, <3>2
    <2> HIDE DEF SectorSize
    <2> QED
      BY <2>1
  <1> HIDE DEF SectorSize
  <1> QED
    BY <1>1 DEF Blocks

\* The tail of a sequence from position m on.
LEMMA Rest ==
  ASSUME NEW S, NEW q \in Seq(S), NEW m \in 1..(Len(q) + 1)
  PROVE  /\ SubSeq(q, m, Len(q)) = <<>> <=> m = Len(q) + 1
         /\ SubSeq(q, 1, Len(q)) = q
  OBVIOUS

\* Its head and its tail.
LEMMA RestTail ==
  ASSUME NEW S, NEW q \in Seq(S), NEW m \in 1..Len(q)
  PROVE  /\ Head(SubSeq(q, m, Len(q))) = q[m]
         /\ Tail(SubSeq(q, m, Len(q))) = SubSeq(q, m + 1, Len(q))
         /\ SubSeq(q, m, Len(q)) # <<>>
  <1>1. Len(q) \in Nat /\ Len(q) \in m..Len(q)
    OBVIOUS
  <1>2. SubSeq(q, m, Len(q)) # <<>>
    OBVIOUS
  <1> QED
    BY <1>1, <1>2, HeadTailOfSubSeq

\* What is still to be written.
LEMMA TodoIs ==
  ASSUME IInv, WInv
  PROVE  /\ pc \in {"idle", "read.wait", "read"} => Todo = <<>> /\ At = 0
         /\ pc \in Writing \ {"end.wd"} =>
              /\ Todo = SubSeq(buf, Block + 1, Len(buf)) /\ Todo # <<>> /\ At = sector
              /\ Head(Todo) = buf[Block + 1]
              /\ Tail(Todo) = SubSeq(buf, Block + 2, Len(buf))
              /\ buf[Block + 1] \in Contents
         /\ pc = "end.wd" =>
              /\ Todo = SubSeq(buf, Block + 2, Len(buf))
              /\ left = 1 <=> Todo = <<>>
              /\ At = IF left = 1 THEN 0 ELSE sector + 1
  <1>1. pc \in {"idle", "read.wait", "read"} => Todo = <<>> /\ At = 0
    BY DEF Todo, At
  <1>2. ASSUME pc \in Writing
        PROVE  /\ left \in Nat /\ left >= 1 /\ left <= Len(buf) /\ Len(buf) \in Nat
               /\ Block \in Nat /\ Block + 1 \in 1..Len(buf) /\ buf \in Seq(Contents)
    <2>1. left \in Nat /\ left >= 1
      BY <1>2, AtSector DEF Writing, Paging
    <2>2. left <= Len(buf)
      BY <1>2 DEF WInv, Buffered
    <2>3. buf \in Seq(Contents) /\ Len(buf) \in Nat
      BY DEF IInv, TypeOK
    <2> QED
      BY <2>1, <2>2, <2>3 DEF Block
  <1>3. ASSUME pc \in Writing \ {"end.wd"}
        PROVE  /\ Todo = SubSeq(buf, Block + 1, Len(buf)) /\ Todo # <<>> /\ At = sector
               /\ Head(Todo) = buf[Block + 1]
               /\ Tail(Todo) = SubSeq(buf, Block + 2, Len(buf))
               /\ buf[Block + 1] \in Contents
    <2>1. Todo = SubSeq(buf, Block + 1, Len(buf))
      BY <1>3 DEF Todo, Block, Writing, Paging
    <2>2. Block + 1 \in 1..(Len(buf) + 1) /\ Block + 1 <= Len(buf) /\ (Block + 1) + 1 = Block + 2
      BY <1>2, <1>3
    <2>3. /\ Todo # <<>> /\ Head(Todo) = buf[Block + 1]
          /\ Tail(Todo) = SubSeq(buf, (Block + 1) + 1, Len(buf))
      <3> PICK m : m = Block + 1
        OBVIOUS
      <3>1. buf \in Seq(Contents) /\ m \in 1..Len(buf)
        BY <1>2, <1>3
      <3>2. /\ Head(SubSeq(buf, m, Len(buf))) = buf[m]
            /\ Tail(SubSeq(buf, m, Len(buf))) = SubSeq(buf, m + 1, Len(buf))
            /\ SubSeq(buf, m, Len(buf)) # <<>>
        BY <3>1, RestTail
      <3> QED
        BY <2>1, <3>2
    <2>4. At = sector
      BY <1>3, <2>3 DEF At
    <2>5. buf[Block + 1] \in Contents
      BY <1>2, <1>3
    <2> QED
      BY <2>1, <2>2, <2>3, <2>4, <2>5
  <1>4. ASSUME pc = "end.wd"
        PROVE  /\ Todo = SubSeq(buf, Block + 2, Len(buf))
               /\ left = 1 <=> Todo = <<>>
               /\ At = IF left = 1 THEN 0 ELSE sector + 1
    <2>0. pc \in Writing
      BY <1>4 DEF Writing
    <2>1. Todo = SubSeq(buf, Block + 2, Len(buf))
      BY <1>4 DEF Todo, Block
    <2>2. Block + 2 \in 1..(Len(buf) + 1)
      BY <1>2, <2>0
    <2>3. left = 1 <=> Block + 2 = Len(buf) + 1
      BY <1>2, <2>0 DEF Block
    <2>4. left = 1 <=> Todo = <<>>
      <3>1. ASSUME left = 1 PROVE Todo = <<>>
        BY <1>2, <2>0, <2>1, <2>2, <2>3, <3>1, Rest
      <3>2. ASSUME left # 1 PROVE Todo # <<>>
        <4>1. Block + 2 <= Len(buf)
          BY <1>2, <2>0, <2>2, <2>3, <3>2
        <4> QED
          BY <1>2, <2>0, <2>1, <2>2, <4>1, Rest
      <3> QED
        BY <3>1, <3>2
    <2> QED
      BY <1>4, <2>1, <2>4 DEF At
  <1> QED
    BY <1>1, <1>3, <1>4

\* The array of sectors after the steps that do not write.
LEMMA Stutters ==
  ASSUME IInv, WInv, IInv', WInv',
         \/ ReadDone \/ ReadChunk \/ WriteEnable \/ EraseDone \/ ProgramPage \/ WriteDone
         \/ ChipDone \/ (WaitBusy /\ pc # "end.wait") \/ UNCHANGED vars
         \/ \E s \in 0..(NSectors - 1), n \in 1..MaxWrite : ReadReq(s, n)
  PROVE  Blocks' = Blocks /\ Todo' = Todo /\ At' = At
  <1>1. Blocks' = Blocks
    <2>1. torn' = torn
      BY DEF ReadDone, ReadChunk, WriteEnable, EraseDone, ProgramPage, WriteDone, ChipDone,
             WaitBusy, ReadReq, vars
    <2>2. ASSUME NEW c \in Cells, c \notin DOMAIN busy PROVE mem'[c] = mem[c]
      <3>1. CASE ChipDone
        BY <2>2, <3>1 DEF ChipDone
      <3>2. CASE ~ChipDone
        BY <3>2 DEF ReadDone, ReadChunk, WriteEnable, EraseDone, ProgramPage, WriteDone,
               WaitBusy, ReadReq, vars, chip
      <3> QED
        BY <3>1, <3>2
    <2> QED
      BY <2>1, <2>2, BlocksKept DEF WInv
  <1>2. CASE WriteDone
    <2>1. pc = "end.wd" /\ left \in Nat /\ left >= 1 /\ sector \in Nat
      BY <1>2, AtSector DEF WriteDone, IInv, TypeOK
    <2>2. /\ Todo = SubSeq(buf, Block + 2, Len(buf))
          /\ left = 1 <=> Todo = <<>>
          /\ At = IF left = 1 THEN 0 ELSE sector + 1
      BY <2>1, TodoIs
    <2>3. CASE left > 1
      <3>1. /\ pc' = "erase.wait" /\ left' = left - 1 /\ sector' = sector + 1 /\ buf' = buf
        BY <1>2, <2>3 DEF WriteDone
      <3>2. Len(buf) \in Nat /\ (Len(buf) - left) + 2 = Len(buf) - (left - 1) + 1
        BY <2>1 DEF IInv, TypeOK
      <3>3. Todo' = SubSeq(buf, Len(buf) - (left - 1) + 1, Len(buf))
        BY <3>1 DEF Todo
      <3>4. Todo' = Todo
        BY <2>2, <3>2, <3>3 DEF Block
      <3>5. Todo # <<>>
        BY <2>1, <2>2, <2>3
      <3> QED
        BY <1>1, <2>1, <2>2, <2>3, <3>1, <3>4, <3>5 DEF At
    <2>4. CASE ~(left > 1)
      <3>1. pc' = "idle" /\ left = 1
        BY <1>2, <2>1, <2>4 DEF WriteDone, Idle
      <3> QED
        BY <1>1, <2>2, <3>1 DEF Todo, At
    <2> QED
      BY <2>3, <2>4
  <1>3. CASE ReadDone \/ ReadChunk \/ \E s \in 0..(NSectors - 1), n \in 1..MaxWrite : ReadReq(s, n)
    <2>1. pc \in {"idle", "read"} /\ pc' \in {"idle", "read", "read.wait"}
      BY <1>3 DEF ReadDone, ReadChunk, ReadReq, Idle
    <2> QED
      BY <1>1, <2>1 DEF Todo, At
  <1>4. CASE \/ WriteEnable \/ EraseDone \/ ProgramPage \/ ChipDone \/ UNCHANGED vars
             \/ (WaitBusy /\ pc # "end.wait")
    <2>1. buf' = buf /\ left' = left /\ sector' = sector
      BY <1>4 DEF WriteEnable, EraseDone, ProgramPage, ChipDone, WaitBusy, vars, loop
    <2>2. /\ pc \in {"idle", "read.wait", "read"} <=> pc' \in {"idle", "read.wait", "read"}
          /\ pc = "end.wd" <=> pc' = "end.wd"
      BY <1>4 DEF WriteEnable, EraseDone, ProgramPage, ChipDone, WaitBusy, Waits, vars
    <2>3. Todo' = Todo
      BY <2>1, <2>2 DEF Todo
    <2> QED
      BY <1>1, <2>1, <2>2, <2>3 DEF At
  <1> QED
    BY <1>2, <1>3, <1>4

\* A request to write is a request to the array.
LEMMA WriteStep ==
  ASSUME IInv, WInv, NEW s \in 0..(NSectors - 1), NEW n \in 1..MaxWrite,
         NEW d \in [1..n -> Data], WriteReq(s, d)
  PROVE  BD!Write
  <1>1. Blocks' = Blocks
    BY BlocksKept DEF WInv, WriteReq, chip
  <1>2. pc = "idle" /\ pc' = "erase.wait" /\ buf' = d /\ left' = Len(d) /\ sector' = s
        /\ s + Len(d) <= NSectors
    BY DEF WriteReq
  <1>3. n \in Nat /\ n >= 1 /\ s \in Nat
    BY FlashAssumption
  <1>4. d \in Seq(Contents) /\ Len(d) = n
    BY <1>3, FlashAssumption
  <1>5. Todo = <<>>
    BY <1>2 DEF Todo
  <1>6. Todo' = d
    <2>1. Todo' = SubSeq(d, Len(d) - Len(d) + 1, Len(d))
      BY <1>2 DEF Todo
    <2>2. Len(d) - Len(d) + 1 = 1 /\ 1 \in 1..(Len(d) + 1)
      BY <1>3, <1>4
    <2>3. SubSeq(d, 1, Len(d)) = d
      BY <1>4, <2>2, Rest
    <2> QED
      BY <2>1, <2>2, <2>3
  <1>7. d # <<>>
    BY <1>3, <1>4
  <1>8. At' = s
    BY <1>2, <1>6, <1>7 DEF At
  <1> QED
    BY <1>1, <1>2, <1>3, <1>4, <1>5, <1>6, <1>7, <1>8 DEF BD!Write, Blocks, At

\* Erasing a sector makes it undefined.
LEMMA TearStep ==
  ASSUME IInv, WInv, SectorErase
  PROVE  BD!Tear
  <1>1. /\ pc = "erase.cmd" /\ pc' = "erase.done" /\ torn' = torn \cup {sector} /\ mem' = mem
        /\ buf' = buf /\ left' = left /\ sector' = sector
    BY DEF SectorErase, loop
  <1>2. Todo # <<>> /\ At = sector
    BY <1>1, TodoIs DEF Writing
  <1>3. Todo' = Todo
    BY <1>1 DEF Todo
  <1>4. At' = At
    BY <1>1, <1>3 DEF At
  <1>5. Blocks' = [Blocks EXCEPT ![sector] = Torn]
    BY <1>1 DEF Blocks
  <1>6. Blocks' = [Blocks EXCEPT ![At] = Torn]
    BY <1>2, <1>5
  <1> QED
    BY <1>2, <1>3, <1>4, <1>6 DEF BD!Tear, Blocks, At

\* The end of the last page gives the sector its new contents.
LEMMA FillStep ==
  ASSUME IInv, WInv, IInv', WInv', WaitBusy, pc = "end.wait"
  PROVE  BD!Fill
  <1>1. /\ DOMAIN busy = {} /\ pc' = "end.wd" /\ torn' = torn \ {sector} /\ mem' = mem
        /\ buf' = buf /\ left' = left /\ sector' = sector
    <2>1. PICK w \in Waits : pc = w[1] /\ pc' = w[2]
      BY DEF WaitBusy
    <2>2. w = <<"end.wait", "end.wd">>
      BY <2>1 DEF Waits
    <2> QED
      BY <2>1, <2>2 DEF WaitBusy, Ready, chip, loop
  <1>2. /\ Todo # <<>> /\ At = sector /\ Head(Todo) = buf[Block + 1]
        /\ Tail(Todo) = SubSeq(buf, Block + 2, Len(buf)) /\ buf[Block + 1] \in Contents
    BY TodoIs DEF Writing
  <1>3. sector \in torn /\ sector \in 0..(NSectors - 1) /\ Base \in Nat /\ SectorSize \in Nat
    BY AtSector DEF WInv, Tearing
  <1>4. Blocks[At] = Torn
    BY <1>2, <1>3 DEF Blocks
  <1>5. [i \in 0..(SectorSize - 1) |-> mem[sector * SectorSize + i]] = buf[Block + 1]
    <2>1. addr = Base + SectorSize
      BY DEF WInv, Buffered, Writing, Ended
    <2> HIDE DEF SectorSize
    <2>2. ASSUME NEW k \in 0..(SectorSize - 1)
          PROVE  mem[sector * SectorSize + k] = buf[Block + 1][k]
      <3>1. Base + k < addr
        BY <1>3, <2>1
      <3>2. mem[Base + k] = buf[Block + 1][k]
        BY <1>1, <3>1 DEF WInv, Stored
      <3> QED
        BY <3>2 DEF Base
    <2>3. buf[Block + 1] = [i \in 0..(SectorSize - 1) |-> buf[Block + 1][i]]
      BY <1>2 DEF Contents
    <2> QED
      BY <2>2, <2>3
  <1>6. Blocks' = [Blocks EXCEPT ![At] = Head(Todo)]
    <2> HIDE DEF SectorSize
    <2>1. Blocks' = [Blocks EXCEPT ![sector] = buf[Block + 1]]
      <3>1. DOMAIN Blocks' = 0..(NSectors - 1) /\ DOMAIN Blocks = 0..(NSectors - 1)
        BY DEF Blocks
      <3>2. Blocks'[sector] = buf[Block + 1]
        BY <1>1, <1>3, <1>5 DEF Blocks
      <3>3. \A s \in 0..(NSectors - 1) : s # sector => Blocks'[s] = Blocks[s]
        BY <1>1 DEF Blocks
      <3>4. Blocks' = [s \in 0..(NSectors - 1) |-> Blocks'[s]]
        BY DEF Blocks
      <3> HIDE DEF Blocks
      <3> QED
        BY <1>3, <3>1, <3>2, <3>3, <3>4
    <2> QED
      BY <1>2, <2>1
  <1>7. Todo' = Tail(Todo)
    <2>1. Todo' = SubSeq(buf, Len(buf) - left + 2, Len(buf))
      BY <1>1 DEF Todo
    <2> QED
      BY <1>2, <2>1 DEF Block
  <1>8. At' = IF Todo' = <<>> THEN 0 ELSE At + 1
    BY <1>1, <1>2 DEF At
  <1> QED
    BY <1>2, <1>4, <1>6, <1>7, <1>8 DEF BD!Fill, Blocks, At

\* A restart ends the write and touches no sector that is whole.
LEMMA RestartStep ==
  ASSUME IInv, WInv, McuReset \/ PowerFail
  PROVE  BD!Restart
  <1>1. pc' = "idle" /\ torn' = torn
    BY DEF McuReset, PowerFail, Idle
  <1>2. Todo' = <<>> /\ At' = 0
    BY <1>1 DEF Todo, At
  <1>3. \A c \in Cells : c \notin DOMAIN busy => mem'[c] = mem[c]
    <2>1. CASE McuReset
      BY <2>1 DEF McuReset
    <2>2. CASE PowerFail
      <3>1. PICK g : mem' = [c \in Cells |-> IF c \in DOMAIN busy THEN g[c] ELSE mem[c]]
        BY <2>2 DEF PowerFail
      <3> QED
        BY <3>1
    <2> QED
      BY <2>1, <2>2
  <1>4. Blocks' = Blocks
    BY <1>1, <1>3, BlocksKept DEF WInv
  <1> QED
    BY <1>2, <1>4 DEF BD!Restart, Blocks, At

\* Every step of driver, chip and faults is a step of the array of sectors,
\* or leaves it alone.
LEMMA StepDevice ==
  ASSUME IInv, WInv, [Next]_vars, IInv', WInv'
  PROVE  [BD!Next]_(BD!vars)
  <1>1. CASE \/ ReadDone \/ ReadChunk \/ WriteEnable \/ EraseDone \/ ProgramPage \/ WriteDone
             \/ ChipDone \/ (WaitBusy /\ pc # "end.wait") \/ UNCHANGED vars
             \/ \E s \in 0..(NSectors - 1), n \in 1..MaxWrite : ReadReq(s, n)
    <2>1. Blocks' = Blocks /\ Todo' = Todo /\ At' = At
      BY <1>1, Stutters
    <2> QED
      BY <2>1 DEF BD!vars, Blocks, At
  <1>2. ASSUME NEW s \in 0..(NSectors - 1), NEW n \in 1..MaxWrite,
               NEW d \in [1..n -> Data], WriteReq(s, d)
        PROVE  BD!Next
    BY <1>2, WriteStep DEF BD!Next
  <1>3. CASE SectorErase
    BY <1>3, TearStep DEF BD!Next
  <1>4. CASE WaitBusy /\ pc = "end.wait"
    BY <1>4, FillStep DEF BD!Next
  <1>5. CASE McuReset \/ PowerFail
    BY <1>5, RestartStep DEF BD!Next
  <1> QED
    BY <1>1, <1>2, <1>3, <1>4, <1>5 DEF Next, Driver, Request

\* A flash with any contents is an array of sectors with any contents.
LEMMA InitDevice == Init => WInv /\ BD!Init
  <1> SUFFICES ASSUME Init PROVE WInv /\ BD!Init
    OBVIOUS
  <1>1. DOMAIN busy = {}
    BY DEF Init
  <1>2. WInv
    BY <1>1 DEF Init, WInv, Tearing, Buffered, Stored, Paging, Writing, Ended
  <1>3. Todo = <<>> /\ At = 0
    BY DEF Init, Todo, At
  <1>4. Blocks \in [0..(NSectors - 1) -> Contents \cup {Torn}]
    <2>1. ASSUME NEW s \in 0..(NSectors - 1)
          PROVE  [i \in 0..(SectorSize - 1) |-> mem[s * SectorSize + i]] \in Contents
      <3>1. \A i \in 0..(SectorSize - 1) : mem[s * SectorSize + i] \in SUBSET Bits
        BY CellOf DEF Init
      <3> HIDE DEF SectorSize
      <3> QED
        BY <3>1 DEF Contents
    <2> HIDE DEF SectorSize, Contents
    <2> QED
      BY <2>1 DEF Blocks
  <1> QED
    BY <1>2, <1>3, <1>4 DEF BD!Init, Blocks, At

\* Driver and chip implement the array of sectors, for every geometry of the
\* chip and every request: a write that ends has stored its data, and a
\* restart, with or without loss of power and at any SPI transaction, damages
\* no sector but the one being written.
THEOREM FlashIsBlockDevice == Spec => ImplementsBlockDevice
  <1>1. Init => IInv /\ WInv /\ BD!Init
    BY InitInv, InitDevice
  <1>2. IInv /\ WInv /\ [Next]_vars => IInv' /\ WInv'
    BY InvKept, RequestW, WaitW, EraseW, ProgramW, DoneW, ChipW, FaultW, StaysW
       DEF Next, Driver
  <1>3. IInv /\ WInv /\ [Next]_vars /\ IInv' /\ WInv' => [BD!Next]_(BD!vars)
    BY StepDevice
  <1> QED
    BY <1>1, <1>2, <1>3, PTL DEF Spec, ImplementsBlockDevice, BD!Spec
=============================================================================
