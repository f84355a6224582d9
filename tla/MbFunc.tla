------------------------------- MODULE MbFunc -------------------------------
(***************************************************************************)
(* The Modbus function handlers (FreeModbus/modbus/functions), their       *)
(* dispatch in eMBPoll and the application's tables behind them            *)
(* (FreeModbus/mb_callback.c): what a request of the master does to the    *)
(* coils, discrete inputs, holding and input registers, and the reply.     *)
(*                                                                         *)
(* A request is a PDU whose frame was received: its function, addresses,   *)
(* counts and byte count as they stand in it, whether its length passes    *)
(* the handler's test (fits), whether it was broadcast (all), and the data *)
(* it really holds: registers, or bytes of coils, ByteBits each.  What     *)
(* a handler reads behind the end of the frame is what earlier frames      *)
(* have left in the buffer: any data.                                      *)
(***************************************************************************)
EXTENDS Naturals, Sequences

CONSTANTS
  Size,       \* cells of each table: MB_COILS_MAX, ..
  Word,       \* 2^16: addresses are USHORT
  ByteBits,   \* 8
  MaxRead,    \* per table, the most that one request may read
  MaxWrite,   \* likewise for the tables that can be written
  MaxRwWrite, \* the most that function 23 may write
  Values,     \* of a register
  MaxSet,     \* bound: values in one call of the application
  Requests    \* of the master

Tables == {"coils", "discrete", "holding", "input"}
Bits == {0, 1}
Bytes == [1..ByteBits -> Bits]

\* A value of WRITE SINGLE COIL that is neither 0xFF00 (1) nor 0x0000 (0).
OtherCoil == 2

Functions ==
  {"read_coils", "read_discrete", "read_holding", "read_input", "write_coil",
   "write_coils", "write_register", "write_registers", "read_write",
   "report_slave_id", "unknown"}

ASSUME MbAssumption ==
  /\ Size \in [Tables -> Nat \ {0}]
  /\ Word \in Nat \ {0} /\ \A tb \in Tables : Size[tb] < Word
  /\ ByteBits \in Nat \ {0} /\ MaxRwWrite \in Nat /\ MaxSet \in Nat
  /\ MaxRead \in [Tables -> Nat] /\ MaxWrite \in [{"coils", "holding"} -> Nat]
  /\ 0 \in Values
  /\ \A r \in Requests :
       /\ r.f \in Functions /\ r.fits \in BOOLEAN /\ r.all \in BOOLEAN
       /\ r.addr \in 0..(Word - 1) /\ r.waddr \in 0..(Word - 1)
       /\ r.n \in Nat /\ r.wn \in Nat /\ r.bytes \in Nat
       /\ r.f = "write_coils" => r.data \in Seq(Bytes)
       /\ r.f \in {"write_registers", "read_write"} => r.data \in Seq(Values)
       /\ r.f = "write_coil" => r.data \in [1..1 -> Bits \cup {OtherCoil}]
       /\ r.f = "write_register" => r.data \in [1..1 -> Values]

VARIABLES
  tab,    \* the tables of mb_callback.c
  req,    \* the last request
  reply,  \* its exception, the data of the reply and whether it is sent
  master  \* history: by address, the values that the master may expect

mbvars == <<tab, req, reply, master>>

Cells(tb) == 0..(Size[tb] - 1)
IsBits(tb) == tb \in {"coils", "discrete"}
Cell(tb) == IF IsBits(tb) THEN Bits ELSE Values

-----------------------------------------------------------------------------
(* The callbacks of mb_callback.c; addr is usAddress, a cell.              *)

\* The range check.
InTable(tb, addr, n) == addr + n <= Size[tb]

\* n cells from addr on.
Fetch(cells, addr, n) == [i \in 1..n |-> cells[addr + i - 1]]

\* The first n of data go to the cells from addr on.
Store(cells, addr, n, data) ==
  [c \in DOMAIN cells |->
     IF c >= addr /\ c < addr + n THEN data[c - addr + 1] ELSE cells[c]]

\* Bit i of a sequence of bytes, and the n bits from its start.
BitOf(bytes, i) ==
  LET byte == bytes[((i - 1) \div ByteBits) + 1] IN byte[((i - 1) % ByteBits) + 1]
Unpack(bytes, n) == [i \in 1..n |-> BitOf(bytes, i)]

\* Bytes for n bits.
NBytes(n) == IF n % ByteBits # 0 THEN n \div ByteBits + 1 ELSE n \div ByteBits

\* The bits in bytes; those that are not used are 0.
Pack(bits) ==
  [k \in 1..NBytes(Len(bits)) |-> [j \in 1..ByteBits |->
     LET i == (k - 1) * ByteBits + j IN IF i <= Len(bits) THEN bits[i] ELSE 0]]

-----------------------------------------------------------------------------
(* The handlers.                                                           *)

Ok(data)  == [ex |-> "none", data |-> data]
Refuse(e) == [ex |-> e, data |-> <<>>]

\* usRegAddress++.
Reg(addr) == (addr + 1) % Word

\* What the four handlers that read have in common.
Read(r, tb) ==
  LET a == Reg(r.addr)
  IN [tab |-> tab,
      reply |->
        IF ~(r.fits /\ r.n >= 1 /\ r.n <= MaxRead[tb]) THEN Refuse("value")
        ELSE IF ~InTable(tb, a, r.n) THEN Refuse("address")
        ELSE LET cells == Fetch(tab[tb], a, r.n)
             IN Ok(IF IsBits(tb) THEN Pack(cells) ELSE cells)]

\* eMBFuncReadCoils, eMBFuncReadDiscreteInputs, eMBFuncReadHoldingRegister and
\* eMBFuncReadInputRegister.  Only the third takes the full count of the
\* protocol; MaxRead is one less for the others.
ReadCoils(r)           == Read(r, "coils")
ReadDiscreteInputs(r)  == Read(r, "discrete")
ReadHoldingRegister(r) == Read(r, "holding")
ReadInputRegister(r)   == Read(r, "input")

\* The data that a handler takes and the frame does not hold.
Missing(r) ==
  (Len(r.data) + 1)..(CASE r.f = "write_coils" -> NBytes(r.n)
                        [] r.f = "read_write" -> r.wn
                        [] OTHER -> 0)

\* The data of a request as the handler finds them, with what follows it.
Buffer(r, n, after) ==
  [i \in 1..n |-> IF i <= Len(r.data) THEN r.data[i] ELSE after[i]]

\* Mutant of Write: the cells that exist are written before the range check.
WriteClipped(tb, addr, n, valid, data) ==
  LET a == Reg(addr)
  IN IF ~valid THEN [tab |-> tab, reply |-> Refuse("value")]
     ELSE [tab |-> [tab EXCEPT ![tb] = Store(@, a, n, data)],
           reply |-> IF InTable(tb, a, n) THEN Ok(<<>>) ELSE Refuse("address")]

\* A write of n cells, if the request passes its test.
Write(tb, addr, n, valid, data) ==
  LET a == Reg(addr)
  IN CASE ~valid -> [tab |-> tab, reply |-> Refuse("value")]
       [] valid /\ ~InTable(tb, a, n) -> [tab |-> tab, reply |-> Refuse("address")]
       [] OTHER -> [tab |-> [tab EXCEPT ![tb] = Store(@, a, n, data)],
                    reply |-> Ok(<<>>)]

\* eMBFuncWriteCoil: the value is 0xFF00 (1) or 0x0000 (0), or refused.
WriteCoil(r) ==
  Write("coils", r.addr, 1, r.fits /\ r.data[1] \in Bits, r.data)

\* eMBFuncWriteMultipleCoils: the byte count is compared with the count of
\* coils, and not with the length of the frame.
WriteCoils(r, after) ==
  LET valid == /\ r.fits /\ r.n >= 1 /\ r.n <= MaxWrite["coils"]
               /\ r.bytes = NBytes(r.n)
  IN Write("coils", r.addr, r.n, valid,
           Unpack(Buffer(r, NBytes(r.n), after), r.n))

\* eMBFuncWriteHoldingRegister.
WriteRegister(r) == Write("holding", r.addr, 1, r.fits, r.data)

\* eMBFuncWriteMultipleHoldingRegister.
WriteRegisters(r) ==
  LET valid == /\ r.fits /\ r.n >= 1 /\ r.n <= MaxWrite["holding"]
               /\ r.bytes = 2 * r.n /\ r.bytes = 2 * Len(r.data)
  IN Write("holding", r.addr, r.n, valid, r.data)

\* Mutant of ReadWrite: the read comes first.
ReadWriteReadFirst(r, after) ==
  LET valid == /\ r.n >= 1 /\ r.n <= MaxRead["holding"]
               /\ r.wn >= 1 /\ r.wn <= MaxRwWrite /\ r.bytes = 2 * r.wn
      w == Write("holding", r.waddr, r.wn, valid, Buffer(r, r.wn, after))
      a == Reg(r.addr)
  IN CASE ~r.fits -> [tab |-> tab, reply |-> Ok(<<>>)]
       [] r.fits /\ w.reply.ex # "none" -> w
       [] r.fits /\ w.reply.ex = "none" /\ ~InTable("holding", a, r.n) ->
            [w EXCEPT !.reply = Refuse("address")]
       [] OTHER -> [w EXCEPT !.reply = Ok(Fetch(tab["holding"], a, r.n))]

\* eMBFuncReadWriteMultipleHoldingRegister: the write comes first, and stays
\* when the read is refused.  A frame that is too short is sent back as the
\* reply.  The byte count is not compared with the length of the frame.
ReadWrite(r, after) ==
  LET valid == /\ r.n >= 1 /\ r.n <= MaxRead["holding"]
               /\ r.wn >= 1 /\ r.wn <= MaxRwWrite /\ r.bytes = 2 * r.wn
      w == Write("holding", r.waddr, r.wn, valid, Buffer(r, r.wn, after))
      a == Reg(r.addr)
  IN CASE ~r.fits -> [tab |-> tab, reply |-> Ok(<<>>)]
       [] r.fits /\ w.reply.ex # "none" -> w
       [] r.fits /\ w.reply.ex = "none" /\ ~InTable("holding", a, r.n) ->
            [w EXCEPT !.reply = Refuse("address")]
       [] OTHER -> [w EXCEPT !.reply = Ok(Fetch(w.tab["holding"], a, r.n))]

\* eMBFuncReportSlaveID sends the identity, which nobody sets: it is empty.
ReportSlaveID(r) == [tab |-> tab, reply |-> Ok(<<>>)]

\* eMBPoll: the handler registered for the function.
Handle(r, after) ==
  CASE r.f = "read_coils"      -> ReadCoils(r)
    [] r.f = "read_discrete"   -> ReadDiscreteInputs(r)
    [] r.f = "read_holding"    -> ReadHoldingRegister(r)
    [] r.f = "read_input"      -> ReadInputRegister(r)
    [] r.f = "write_coil"      -> WriteCoil(r)
    [] r.f = "write_coils"     -> WriteCoils(r, after)
    [] r.f = "write_register"  -> WriteRegister(r)
    [] r.f = "write_registers" -> WriteRegisters(r)
    [] r.f = "read_write"      -> ReadWrite(r, after)
    [] r.f = "report_slave_id" -> ReportSlaveID(r)
    [] OTHER -> [tab |-> tab, reply |-> Refuse("function")]

-----------------------------------------------------------------------------
(* What a request means to the master, by the addresses in it.  Address a  *)
(* is cell a + 1 of a table, and the last address of all is cell 0.        *)

Writes == {"write_coil", "write_coils", "write_register", "write_registers",
           "read_write"}
Reads == {"read_coils", "read_discrete", "read_holding", "read_input",
          "read_write"}

Target(r) ==
  CASE r.f \in {"read_coils", "write_coil", "write_coils"} -> "coils"
    [] r.f = "read_discrete" -> "discrete"
    [] r.f = "read_input" -> "input"
    [] OTHER -> "holding"

From(r) == IF r.f = "read_write" THEN r.waddr ELSE r.addr
Count(r) == CASE r.f \in {"write_coil", "write_register"} -> 1
              [] r.f = "read_write" -> r.wn
              [] OTHER -> r.n

Addresses == 0..(Word - 1)
AddressOf(c) == (c + Word - 1) % Word

\* The values that a request asks to write at its i-th address: any, when the
\* frame ends before them.
Meant(r, i) ==
  LET bits == r.f = "write_coils"
      k == IF bits THEN (i - 1) \div ByteBits + 1 ELSE i
  IN CASE k > Len(r.data) -> Cell(Target(r))
       [] k <= Len(r.data) /\ bits -> {BitOf(r.data, i)}
       [] OTHER -> {r.data[i]}

\* What the master may take for granted once a write is not refused, or only
\* the read half of function 23 is.
Told(r, res) ==
  /\ r.f \in Writes /\ (r.f = "read_write" => r.fits)
  /\ \/ res.reply.ex = "none"
     \/ /\ r.f = "read_write" /\ res.reply.ex = "address"
        /\ Reg(r.waddr) + r.wn <= Size["holding"]

\* Number of the address in the request, from 1.
Nth(r, a) == ((a + Word - From(r)) % Word) + 1

-----------------------------------------------------------------------------
(* The steps.                                                              *)

Tables0 == [tb \in Tables |-> [c \in Cells(tb) |-> 0]]
Master0 == [tb \in Tables |-> [a \in Addresses |-> {0}]]
NoRequest == [f |-> "none"]
NoReply == [ex |-> "none", data |-> <<>>, sent |-> FALSE]

MbInit ==
  /\ tab = Tables0 /\ master = Master0
  /\ req = NoRequest /\ reply = NoReply

\* eMBPoll runs the handler; a broadcast is not answered.
Execute(r) ==
  /\ req = NoRequest
  /\ \E after \in [Missing(r) -> IF IsBits(Target(r)) THEN Bytes ELSE Values] :
       LET res == Handle(r, after)
       IN /\ tab' = res.tab /\ req' = r
          /\ reply' = [ex |-> res.reply.ex, data |-> res.reply.data, sent |-> ~r.all]
          /\ master' = IF Told(r, res)
                       THEN [master EXCEPT ![Target(r)] = [a \in Addresses |->
                               IF Nth(r, a) <= Count(r) THEN Meant(r, Nth(r, a))
                               ELSE @[a]]]
                       ELSE master

\* EV_FRAME_SENT: the reply is sent, and the next request can be received.
Sent ==
  /\ req # NoRequest
  /\ req' = NoRequest /\ reply' = NoReply
  /\ UNCHANGED <<tab, master>>

\* mb_set_coil, mb_set_discrete_input, mb_set_holding_reg(s) and
\* mb_set_input_reg(s); only the last two kinds take several values.
AppSet(tb, addr, data) ==
  /\ req = NoRequest
  /\ IsBits(tb) => Len(data) = 1
  /\ InTable(tb, addr, Len(data))
  /\ tab' = [tab EXCEPT ![tb] = Store(@, addr, Len(data), data)]
  /\ master' = [master EXCEPT ![tb] = [a \in Addresses |->
        LET c == (a + 1) % Word
        IN IF c >= addr /\ c < addr + Len(data) THEN {data[c - addr + 1]} ELSE @[a]]]
  /\ UNCHANGED <<req, reply>>

MbNext ==
  \/ \E r \in Requests : Execute(r)
  \/ Sent
  \/ \E tb \in Tables, addr \in Addresses, n \in 1..MaxSet :
       \E data \in [1..n -> Cell(tb)] : AppSet(tb, addr, data)

MbSpec == MbInit /\ [][MbNext]_mbvars

-----------------------------------------------------------------------------
(* Properties.                                                             *)

\* Every variable has its type.
MbTypeOK ==
  /\ DOMAIN tab = Tables /\ DOMAIN master = Tables
  /\ \A tb \in Tables : /\ tab[tb] \in [Cells(tb) -> Cell(tb)]
                        /\ master[tb] \in [Addresses -> SUBSET Cell(tb)]
  /\ req \in Requests \cup {NoRequest}
  /\ reply \in [ex : {"none", "value", "address", "function"},
                data : Seq(IF IsBits(Target(req)) THEN Bytes ELSE Values),
                sent : BOOLEAN]

\* Every cell holds a value that the master may expect at its address: what
\* the last request acknowledged for it, or the application, wrote there, bit
\* by bit and register by register.  A request that is refused has changed
\* nothing, so that the master may correct and repeat it; of function 23 the
\* write half stays when only the read half is refused.  Excepted: data that a
\* frame announces and does not hold (functions 15 and 23 do not compare the
\* byte count with the length) are whatever the buffer held.
TablesAsTold ==
  \A tb \in Tables : \A c \in Cells(tb) : tab[tb][c] \in master[tb][AddressOf(c)]

\* A read that is not refused answers with what the master may expect at each
\* address, in the order of the addresses, and function 23 with what it has
\* just written; the bits of a last byte that were not asked for are 0.
\* Excepted: function 23 in a frame too short for its head, which is sent
\* back as it came and not refused.
RepliesTell ==
  (/\ req.f \in Reads /\ reply.ex = "none"
   /\ req.f = "read_write" => req.fits) =>
      LET b == IsBits(Target(req))
          n == IF b THEN NBytes(req.n) * ByteBits ELSE req.n
      IN /\ Len(reply.data) = IF b THEN NBytes(req.n) ELSE req.n
         /\ \A i \in 1..n :
              LET v == IF b THEN BitOf(reply.data, i) ELSE reply.data[i]
              IN IF i <= req.n
                 THEN v \in master[Target(req)][(req.addr + i - 1) % Word]
                 ELSE v = 0
=============================================================================
