---------------------------- MODULE Serial_proofs ----------------------------
(***************************************************************************)
(* Proofs about what the Modbus slave stands on: the function handlers,    *)
(* for every size of tables, bytes and addresses and every set of          *)
(* requests, and reception on the virtual COM port that brings the frames, *)
(* for every packet size and every set of packets.  The two have no state  *)
(* in common; each part is about the specification of its own module.      *)
(*                                                                         *)
(* Handlers: every table holds what the master was told, and every reply   *)
(* says so.  Reception: it never dies, the receive buffer has one holder,  *)
(* and usb_vcp_get_rxdata returns the next packet whole.                   *)
(***************************************************************************)
EXTENDS MbFunc, UsbVcpRx, SequenceTheorems, TLAPS

-----------------------------------------------------------------------------
(* The Modbus function handlers: addresses and cells.                      *)

\* Remainders of sums that do not reach twice the modulus.
LEMMA ModWord ==
  ASSUME NEW w \in Nat \ {0}, NEW x \in 0..(w - 1)
  PROVE  x % w = x /\ (x + w) % w = x
  OBVIOUS

\* usRegAddress++ and its inverse.
LEMMA RegIs ==
  ASSUME NEW a \in Addresses
  PROVE  /\ Reg(a) \in Addresses
         /\ Reg(a) = IF a = Word - 1 THEN 0 ELSE a + 1
  <1>1. Word \in Nat \ {0} /\ a \in 0..(Word - 1)
    BY MbAssumption DEF Addresses
  <1>2. CASE a = Word - 1
    <2>1. (0 + Word) % Word = 0
      BY <1>1, ModWord
    <2>2. QED
      BY <1>1, <1>2, <2>1 DEF Reg, Addresses
  <1>3. CASE a # Word - 1
    BY <1>1, <1>3, ModWord DEF Reg, Addresses
  <1>4. QED
    BY <1>2, <1>3

\* The address of a cell, and back.
LEMMA AddressOfIs ==
  ASSUME NEW c \in Addresses
  PROVE  /\ AddressOf(c) \in Addresses
         /\ AddressOf(c) = IF c = 0 THEN Word - 1 ELSE c - 1
         /\ Reg(AddressOf(c)) = c
  <1>1. Word \in Nat \ {0} /\ c \in 0..(Word - 1)
    BY MbAssumption DEF Addresses
  <1>2. AddressOf(c) = IF c = 0 THEN Word - 1 ELSE c - 1
    <2>1. CASE c = 0
      BY <1>1, <2>1, ModWord DEF AddressOf
    <2>2. CASE c # 0
      <3>1. c - 1 \in 0..(Word - 1) /\ c + Word - 1 = (c - 1) + Word
        BY <1>1, <2>2
      <3>2. QED
        BY <1>1, <2>2, <3>1, ModWord DEF AddressOf
    <2>3. QED
      BY <2>1, <2>2
  <1>3. AddressOf(c) \in Addresses
    BY <1>1, <1>2 DEF Addresses
  <1>4. QED
    BY <1>1, <1>2, <1>3, RegIs DEF Addresses

\* The place of an address in a request whose first cell is Reg(from).
LEMMA PlaceIs ==
  ASSUME NEW from \in Addresses, NEW c \in Addresses
  PROVE  ((AddressOf(c) + Word - from) % Word) + 1 =
           IF c >= Reg(from) THEN c - Reg(from) + 1 ELSE c + Word - Reg(from) + 1
  <1> DEFINE p == AddressOf(c)
             d == IF c >= Reg(from) THEN c - Reg(from) ELSE c + Word - Reg(from)
  <1>1. /\ Word \in Nat \ {0} /\ c \in 0..(Word - 1) /\ from \in 0..(Word - 1)
        /\ p \in 0..(Word - 1) /\ p = IF c = 0 THEN Word - 1 ELSE c - 1
        /\ Reg(from) \in 0..(Word - 1) /\ Reg(from) = IF from = Word - 1 THEN 0 ELSE from + 1
    BY AddressOfIs, RegIs, MbAssumption DEF Addresses
  <1>2. d \in 0..(Word - 1)
    BY <1>1
  <1>3. p + Word - from = d \/ p + Word - from = d + Word
    BY <1>1
  <1>4. (p + Word - from) % Word = d
    <2> HIDE DEF d, p
    <2>1. QED
      BY <1>1, <1>2, <1>3, ModWord
  <1>5. QED
    BY <1>4

\* Cells are addresses.
LEMMA CellsAre ==
  ASSUME NEW tb \in Tables
  PROVE  /\ Cells(tb) \subseteq Addresses /\ Size[tb] \in Nat \ {0} /\ Size[tb] < Word
         /\ Word \in Nat \ {0}
  BY MbAssumption DEF Cells, Addresses

\* The i-th cell of a request for n cells, and its address.
LEMMA NthCell ==
  ASSUME NEW from \in Addresses, NEW tb \in Tables, NEW n \in Nat, InTable(tb, Reg(from), n),
         NEW i \in 1..n
  PROVE  LET c == Reg(from) + i - 1
         IN c \in Cells(tb) /\ AddressOf(c) = (from + i - 1) % Word
  <1> DEFINE u == Reg(from)
             s == Size[tb]
             c == u + i - 1
  <1>1. /\ Word \in Nat \ {0} /\ from \in 0..(Word - 1) /\ u \in 0..(Word - 1)
        /\ u = IF from = Word - 1 THEN 0 ELSE from + 1
        /\ s \in Nat /\ s < Word /\ u + n <= s
    BY CellsAre, RegIs DEF Addresses, InTable
  <1> HIDE DEF u, s
  <1>2. c \in 0..(s - 1)
    BY <1>1
  <1>3. c \in Cells(tb) /\ c \in Addresses
    BY <1>1, <1>2, CellsAre DEF Cells, s
  <1>4. AddressOf(c) = IF c = 0 THEN Word - 1 ELSE c - 1
    <2> HIDE DEF c
    <2>1. QED
      BY <1>3, AddressOfIs
  <1>5. CASE from = Word - 1 /\ i > 1
    <2>1. i - 2 \in 0..(Word - 1) /\ from + i - 1 = (i - 2) + Word
      BY <1>1, <1>5
    <2>2. (from + i - 1) % Word = i - 2
      BY <1>1, <2>1, ModWord
    <2>3. c # 0 /\ c - 1 = i - 2
      BY <1>1, <1>5
    <2>4. QED
      BY <1>3, <1>4, <2>2, <2>3 DEF u
  <1>6. CASE ~(from = Word - 1 /\ i > 1)
    <2>1. from + i - 1 \in 0..(Word - 1)
      BY <1>1, <1>2, <1>6
    <2>2. (from + i - 1) % Word = from + i - 1
      BY <1>1, <2>1, ModWord
    <2>3. from + i - 1 = IF c = 0 THEN Word - 1 ELSE c - 1
      BY <1>1, <1>6
    <2>4. QED
      BY <1>3, <1>4, <2>2, <2>3 DEF u
  <1>7. QED
    BY <1>5, <1>6

-----------------------------------------------------------------------------
(* Bits and bytes.                                                         *)

\* Where bit i is: the byte and the place in it.
LEMMA BitPlace ==
  ASSUME NEW i \in Nat \ {0}, NEW n \in Nat
  PROVE  LET k == ((i - 1) \div ByteBits) + 1
             j == ((i - 1) % ByteBits) + 1
         IN /\ k \in Nat \ {0} /\ j \in 1..ByteBits
            /\ (k - 1) * ByteBits + j = i
            /\ i <= NBytes(n) * ByteBits <=> k <= NBytes(n)
            /\ i <= n => k <= NBytes(n)
            /\ n <= NBytes(n) * ByteBits /\ NBytes(n) \in Nat
  <1> DEFINE q == (i - 1) \div ByteBits
             m == (i - 1) % ByteBits
             u == n \div ByteBits
             v == n % ByteBits
  <1>1. ByteBits \in Nat \ {0}
    BY MbAssumption
  <1>2. q \in Nat /\ m \in 0..(ByteBits - 1) /\ i - 1 = ByteBits * q + m
    BY <1>1
  <1>3. u \in Nat /\ v \in 0..(ByteBits - 1) /\ n = ByteBits * u + v
    BY <1>1
  <1>4. NBytes(n) = IF v # 0 THEN u + 1 ELSE u
    BY DEF NBytes
  <1> DEFINE w == NBytes(n)
  <1> HIDE DEF q, m, u, v, w
  <1>5. \A x, y \in Nat : x <= y => ByteBits * x <= ByteBits * y
    BY <1>1
  <1>6. w \in Nat /\ n <= ByteBits * w /\ ByteBits * w < n + ByteBits
    <2>1. CASE v # 0
      <3>1. w = u + 1 /\ ByteBits * w = ByteBits * u + ByteBits
        BY <1>1, <1>3, <1>4, <2>1 DEF w
      <3>2. ByteBits * u \in Nat
        BY <1>1, <1>3
      <3>3. QED
        BY <1>1, <1>3, <2>1, <3>1, <3>2
    <2>2. CASE v = 0
      BY <1>1, <1>3, <1>4, <2>2 DEF w
    <2>3. QED
      BY <2>1, <2>2
  <1>7. ByteBits * q \in Nat /\ ByteBits * w \in Nat /\ ByteBits * (q + 1) = ByteBits * q + ByteBits
    BY <1>1, <1>2, <1>6
  <1>8. i <= ByteBits * w => q + 1 <= w
    <2> SUFFICES ASSUME i <= ByteBits * w, ~(q + 1 <= w) PROVE FALSE
      OBVIOUS
    <2>1. w <= q
      BY <1>2, <1>6
    <2>2. ByteBits * w <= ByteBits * q
      BY <1>2, <1>5, <1>6, <2>1
    <2>3. QED
      BY <1>1, <1>2, <1>7, <2>2
  <1>9. q + 1 <= w => i <= ByteBits * w
    <2> SUFFICES ASSUME q + 1 <= w PROVE i <= ByteBits * w
      OBVIOUS
    <2>1. ByteBits * (q + 1) <= ByteBits * w
      BY <1>2, <1>5, <1>6
    <2>2. QED
      BY <1>1, <1>2, <1>7, <2>1
  <1>10. ((q + 1) - 1) * ByteBits = ByteBits * q /\ w * ByteBits = ByteBits * w
    BY <1>1, <1>2, <1>6
  <1>11. /\ q + 1 \in Nat \ {0} /\ m + 1 \in 1..ByteBits
         /\ ((q + 1) - 1) * ByteBits + (m + 1) = i
         /\ i <= w * ByteBits <=> q + 1 <= w
         /\ i <= n => q + 1 <= w
         /\ n <= w * ByteBits /\ w \in Nat
    BY <1>1, <1>2, <1>6, <1>7, <1>8, <1>9, <1>10
  <1>12. QED
    BY <1>11 DEF q, m, w

\* The fields of a request.
LEMMA RequestType ==
  ASSUME NEW r \in Requests
  PROVE  /\ r.f \in Functions /\ r.all \in BOOLEAN /\ r.fits \in BOOLEAN
         /\ r.addr \in Addresses /\ r.waddr \in Addresses
         /\ r.n \in Nat /\ r.wn \in Nat /\ r.bytes \in Nat
         /\ From(r) \in Addresses /\ Count(r) \in Nat /\ Target(r) \in Tables
         /\ r.f = "write_coils" => r.data \in Seq(Bytes)
         /\ r.f \in {"write_registers", "read_write"} => r.data \in Seq(Values)
         /\ r.f = "write_coil" => r.data \in [1..1 -> Bits \cup {OtherCoil}]
         /\ r.f = "write_register" => r.data \in [1..1 -> Values]
  BY MbAssumption DEF Addresses, From, Count, Target, Tables

\* A bit of a byte.
LEMMA BitType ==
  ASSUME NEW i \in Nat \ {0}, NEW bytes, bytes[((i - 1) \div ByteBits) + 1] \in Bytes
  PROVE  BitOf(bytes, i) \in Bits
  <1>1. ((i - 1) % ByteBits) + 1 \in 1..ByteBits
    BY BitPlace
  <1>2. QED
    BY <1>1 DEF BitOf, Bytes

\* Packing loses no bit, and adds zeros.
LEMMA PackIs ==
  ASSUME NEW n \in Nat, NEW bits \in [1..n -> Bits]
  PROVE  /\ Pack(bits) \in Seq(Bytes) /\ Len(Pack(bits)) = NBytes(n)
         /\ \A i \in 1..(NBytes(n) * ByteBits) :
              BitOf(Pack(bits), i) = IF i <= n THEN bits[i] ELSE 0
  <1>1. Len(bits) = n
    OBVIOUS
  <1>2. ByteBits \in Nat \ {0} /\ NBytes(n) \in Nat /\ n <= NBytes(n) * ByteBits
    BY MbAssumption, BitPlace
  <1> DEFINE value(k, j) == LET i == (k - 1) * ByteBits + j IN IF i <= n THEN bits[i] ELSE 0
  <1>3. Pack(bits) = [k \in 1..NBytes(n) |-> [j \in 1..ByteBits |-> value(k, j)]]
    BY <1>1 DEF Pack
  <1>4. \A k \in 1..NBytes(n) : [j \in 1..ByteBits |-> value(k, j)] \in Bytes
    <2> SUFFICES ASSUME NEW k \in 1..NBytes(n), NEW j \in 1..ByteBits PROVE value(k, j) \in Bits
      BY DEF Bytes
    <2>1. (k - 1) * ByteBits \in Nat
      BY <1>2
    <2>2. (k - 1) * ByteBits + j \in Nat \ {0}
      BY <1>2, <2>1
    <2>3. QED
      BY <2>2 DEF Bits
  <1>5. Pack(bits) \in Seq(Bytes) /\ Len(Pack(bits)) = NBytes(n)
    <2> HIDE DEF value
    <2>1. Pack(bits) \in [1..NBytes(n) -> Bytes]
      BY <1>3, <1>4
    <2>2. QED
      BY <1>2, <2>1
  <1>6. ASSUME NEW i \in 1..(NBytes(n) * ByteBits)
        PROVE  BitOf(Pack(bits), i) = IF i <= n THEN bits[i] ELSE 0
    <2> DEFINE k == ((i - 1) \div ByteBits) + 1
               j == ((i - 1) % ByteBits) + 1
    <2>1. i \in Nat \ {0}
      BY <1>2
    <2>2. k \in 1..NBytes(n) /\ j \in 1..ByteBits /\ (k - 1) * ByteBits + j = i
      BY <1>2, <2>1, BitPlace
    <2>3. BitOf(Pack(bits), i) = Pack(bits)[k][j]
      BY DEF BitOf
    <2> HIDE DEF k, j
    <2>4. Pack(bits)[k][j] = value(k, j)
      BY <1>3, <2>2
    <2>5. QED
      BY <2>2, <2>3, <2>4
  <1>7. QED
    BY <1>5, <1>6

-----------------------------------------------------------------------------
(* What the handlers do.                                                   *)

\* What the buffer may hold behind the end of a request.
Afters(r) == [Missing(r) -> IF IsBits(Target(r)) THEN Bytes ELSE Values]

\* The values that a request writes, and the test it passes before.
Data(r, after) ==
  CASE r.f = "write_coils" -> Unpack(Buffer(r, NBytes(r.n), after), r.n)
    [] r.f = "read_write" -> Buffer(r, r.wn, after)
    [] OTHER -> r.data

Passes(r) ==
  /\ r.f = "write_coil" => r.data[1] \in Bits
  /\ r.f = "write_registers" => Len(r.data) = r.n

\* What is written is what the request means, value by value.
LEMMA DataMeant ==
  ASSUME NEW r \in Requests, r.f \in Writes, NEW after \in Afters(r), Passes(r),
         NEW i \in 1..Count(r)
  PROVE  Data(r, after)[i] \in Meant(r, i) /\ Meant(r, i) \subseteq Cell(Target(r))
  <1>1. i \in Nat \ {0} /\ i <= Count(r) /\ Count(r) \in Nat
    BY RequestType
  <1>2. CASE r.f = "write_coils"
    <2> DEFINE k == (i - 1) \div ByteBits + 1
               bytes == Buffer(r, NBytes(r.n), after)
    <2>1. Count(r) = r.n /\ Target(r) = "coils" /\ r.data \in Seq(Bytes) /\ r.n \in Nat
      BY <1>2, RequestType DEF Count, Target
    <2>2. k \in 1..NBytes(r.n) /\ NBytes(r.n) \in Nat
      <3>1. k \in Nat \ {0} /\ (i <= r.n => k <= NBytes(r.n)) /\ NBytes(r.n) \in Nat
        BY <1>1, <2>1, BitPlace
      <3> HIDE DEF k
      <3>2. QED
        BY <1>1, <2>1, <3>1
    <2>3. Data(r, after)[i] = BitOf(bytes, i)
      BY <1>2, <2>1 DEF Data, Unpack
    <2>4. bytes[k] = IF k <= Len(r.data) THEN r.data[k] ELSE after[k]
      BY <2>2 DEF Buffer
    <2>5. Cell(Target(r)) = Bits
      BY <2>1 DEF Cell, IsBits
    <2>6. Meant(r, i) = IF k > Len(r.data) THEN Bits ELSE {BitOf(r.data, i)}
      <3>1. Len(r.data) \in Nat
        BY <2>1, LenProperties
      <3>2. QED
        BY <1>2, <2>2, <2>5, <3>1 DEF Meant
    <2>7. CASE k <= Len(r.data)
      <3>1. BitOf(bytes, i) = BitOf(r.data, i)
        BY <2>4, <2>7 DEF BitOf
      <3>2. r.data[k] \in Bytes
        <4>1. k \in 1..Len(r.data)
          BY <2>2, <2>7
        <4>2. QED
          BY <2>1, <4>1, ElementOfSeq
      <3>3. BitOf(r.data, i) \in Bits
        BY <1>1, <3>2, BitType
      <3>4. ~(k > Len(r.data))
        BY <2>1, <2>2, <2>7, LenProperties
      <3>5. QED
        BY <2>3, <2>5, <2>6, <3>1, <3>3, <3>4
    <2>8. CASE ~(k <= Len(r.data))
      <3>1. Len(r.data) \in Nat /\ k \in (Len(r.data) + 1)..NBytes(r.n) /\ k > Len(r.data)
        BY <2>1, <2>2, <2>8, LenProperties
      <3>2. k \in Missing(r) /\ IsBits(Target(r))
        BY <1>2, <2>1, <3>1 DEF Missing, IsBits
      <3>3. bytes[k] \in Bytes
        BY <2>4, <2>8, <3>2 DEF Afters
      <3>4. BitOf(bytes, i) \in Bits
        <4> HIDE DEF bytes
        <4>1. QED
          BY <1>1, <3>3, BitType
      <3>5. QED
        BY <2>3, <2>5, <2>6, <3>1, <3>4
    <2>9. QED
      BY <2>7, <2>8
  <1>3. CASE r.f = "read_write"
    <2>1. Count(r) = r.wn /\ Target(r) = "holding" /\ r.data \in Seq(Values)
      BY <1>3, RequestType DEF Count, Target
    <2>2. Data(r, after)[i] = IF i <= Len(r.data) THEN r.data[i] ELSE after[i]
      BY <1>1, <1>3, <2>1 DEF Data, Buffer
    <2>3. Len(r.data) \in Nat
      BY <2>1, LenProperties
    <2>4. Meant(r, i) = IF i > Len(r.data) THEN Values ELSE {r.data[i]}
      BY <1>1, <1>3, <2>1, <2>3 DEF Meant, Cell, IsBits
    <2>5. CASE i <= Len(r.data)
      <3>1. i \in 1..Len(r.data) /\ ~(i > Len(r.data))
        BY <1>1, <2>3, <2>5
      <3>2. r.data[i] \in Values
        BY <2>1, <3>1, ElementOfSeq
      <3>3. QED
        BY <2>1, <2>2, <2>4, <3>1, <3>2 DEF Cell, IsBits
    <2>6. CASE ~(i <= Len(r.data))
      <3>1. i \in (Len(r.data) + 1)..r.wn /\ i > Len(r.data)
        BY <1>1, <2>1, <2>3, <2>6
      <3>2. after[i] \in Values
        BY <1>3, <2>1, <3>1 DEF Afters, Missing, IsBits
      <3>3. QED
        BY <2>1, <2>2, <2>4, <2>6, <3>1, <3>2 DEF Cell, IsBits
    <2>7. QED
      BY <2>5, <2>6
  <1>4. CASE r.f \in {"write_coil", "write_register"}
    <2>1. Count(r) = 1 /\ i = 1 /\ Data(r, after) = r.data
      BY <1>1, <1>4 DEF Count, Data
    <2>2. Len(r.data) = 1
      BY <1>4, RequestType
    <2>3. Meant(r, i) = {r.data[1]}
      BY <1>4, <2>1, <2>2 DEF Meant
    <2>4. r.data[1] \in Cell(Target(r))
      BY <1>4, RequestType DEF Passes, Cell, IsBits, Target
    <2>5. QED
      BY <2>1, <2>3, <2>4
  <1>5. CASE r.f = "write_registers"
    <2>1. /\ Count(r) = r.n /\ Target(r) = "holding"
          /\ Data(r, after) = r.data /\ r.data \in Seq(Values)
      BY <1>5, RequestType DEF Count, Target, Data
    <2>2. i \in 1..Len(r.data)
      BY <1>5, <2>1 DEF Passes
    <2>3. Len(r.data) \in Nat /\ r.data[i] \in Values
      BY <2>1, <2>2, ElementOfSeq, LenProperties
    <2>4. Meant(r, i) = {r.data[i]}
      BY <1>1, <1>5, <2>2, <2>3 DEF Meant
    <2>5. QED
      BY <2>1, <2>3, <2>4 DEF Cell, IsBits
  <1>6. QED
    BY <1>2, <1>3, <1>4, <1>5 DEF Writes

\* A request that is told to be carried out has stored its values; any other
\* leaves the tables as they are.
LEMMA HandleWrites ==
  ASSUME NEW r \in Requests, NEW after \in Afters(r)
  PROVE  LET res == Handle(r, after)
             a == Reg(From(r))
         IN IF Told(r, res)
            THEN /\ r.f \in Writes /\ Passes(r) /\ Target(r) \in {"coils", "holding"}
                 /\ InTable(Target(r), a, Count(r))
                 /\ res.tab = [tab EXCEPT ![Target(r)] =
                                 Store(@, a, Count(r), Data(r, after))]
            ELSE res.tab = tab
  <1> DEFINE res == Handle(r, after)
             a == Reg(From(r))
  <1>1. CASE r.f \notin Writes
    BY <1>1 DEF Told, Handle, Writes, Read, ReadCoils, ReadDiscreteInputs, ReadHoldingRegister,
                ReadInputRegister, ReportSlaveID
  <1>2. CASE r.f = "write_coil"
    <2>1. res = Write("coils", r.addr, 1, r.fits /\ r.data[1] \in Bits, r.data)
      BY <1>2 DEF Handle, WriteCoil
    <2>2. From(r) = r.addr /\ Count(r) = 1 /\ Target(r) = "coils" /\ Data(r, after) = r.data
      BY <1>2 DEF From, Count, Target, Data
    <2>3. QED
      BY <1>2, <2>1, <2>2 DEF Told, Write, Writes, Passes, Ok, Refuse
  <1>3. CASE r.f = "write_coils"
    <2>1. PICK valid \in BOOLEAN :
             res = Write("coils", r.addr, r.n, valid,
                         Unpack(Buffer(r, NBytes(r.n), after), r.n))
      BY <1>3 DEF Handle, WriteCoils
    <2>2. From(r) = r.addr /\ Count(r) = r.n /\ Target(r) = "coils"
          /\ Data(r, after) = Unpack(Buffer(r, NBytes(r.n), after), r.n)
      BY <1>3 DEF From, Count, Target, Data
    <2>3. QED
      BY <1>3, <2>1, <2>2 DEF Told, Write, Writes, Passes, Ok, Refuse
  <1>4. CASE r.f = "write_register"
    <2>1. res = Write("holding", r.addr, 1, r.fits, r.data)
      BY <1>4 DEF Handle, WriteRegister
    <2>2. From(r) = r.addr /\ Count(r) = 1 /\ Target(r) = "holding" /\ Data(r, after) = r.data
      BY <1>4 DEF From, Count, Target, Data
    <2>3. QED
      BY <1>4, <2>1, <2>2 DEF Told, Write, Writes, Passes, Ok, Refuse
  <1>5. CASE r.f = "write_registers"
    <2> DEFINE valid == /\ r.fits /\ r.n >= 1 /\ r.n <= MaxWrite["holding"]
                        /\ r.bytes = 2 * r.n /\ r.bytes = 2 * Len(r.data)
    <2>1. /\ res = Write("holding", r.addr, r.n, valid, r.data)
          /\ valid => Len(r.data) = r.n
      <3>1. r.n \in Nat /\ Len(r.data) \in Nat
        BY <1>5, RequestType, LenProperties
      <3>2. res = Write("holding", r.addr, r.n, valid, r.data)
        BY <1>5 DEF Handle, WriteRegisters
      <3>3. QED
        BY <3>1, <3>2
    <2> HIDE DEF valid
    <2>2. From(r) = r.addr /\ Count(r) = r.n /\ Target(r) = "holding" /\ Data(r, after) = r.data
      BY <1>5 DEF From, Count, Target, Data
    <2>3. QED
      BY <1>5, <2>1, <2>2 DEF Told, Write, Writes, Passes, Ok, Refuse
  <1>6. CASE r.f = "read_write"
    <2> DEFINE valid == /\ r.n >= 1 /\ r.n <= MaxRead["holding"]
                        /\ r.wn >= 1 /\ r.wn <= MaxRwWrite /\ r.bytes = 2 * r.wn
               w == Write("holding", r.waddr, r.wn, valid, Data(r, after))
    <2>1. From(r) = r.waddr /\ Count(r) = r.wn /\ Target(r) = "holding"
          /\ Data(r, after) = Buffer(r, r.wn, after)
      BY <1>6 DEF From, Count, Target, Data
    <2>2. res = ReadWrite(r, after)
      BY <1>6 DEF Handle
    <2>3. CASE ~r.fits
      <3>1. res.tab = tab
        <4>1. ReadWrite(r, after) = [tab |-> tab, reply |-> Ok(<<>>)]
          BY <2>3, Zenon DEF ReadWrite
        <4>2. QED
          BY <2>2, <4>1
      <3>2. ~Told(r, res)
        BY <1>6, <2>3 DEF Told
      <3>3. QED
        BY <3>1, <3>2
    <2>4. CASE r.fits /\ w.reply.ex # "none"
      <3>1. res = w
        BY <2>1, <2>2, <2>4 DEF ReadWrite
      <3>2. /\ w.tab = tab /\ w.reply.ex \in {"value", "address"}
            /\ w.reply.ex = "address" => ~InTable("holding", a, r.wn)
        BY <2>1, <2>4 DEF Write, Ok, Refuse
      <3>3. QED
        BY <1>6, <2>1, <3>1, <3>2 DEF Told, InTable
    <2>5. CASE r.fits /\ w.reply.ex = "none"
      <3>1. /\ w = [tab |-> [tab EXCEPT !["holding"] = Store(@, a, r.wn, Data(r, after))],
                    reply |-> Ok(<<>>)]
            /\ InTable("holding", a, r.wn)
        BY <2>1, <2>5 DEF Write, Ok, Refuse
      <3>2. res.tab = w.tab /\ res.reply.ex \in {"none", "address"}
        <4>1. \/ res = [w EXCEPT !.reply = Refuse("address")]
              \/ \E d : res = [w EXCEPT !.reply = Ok(d)]
          <5>1. w = Write("holding", r.waddr, r.wn, valid, Buffer(r, r.wn, after))
            BY <2>1
          <5>2. CASE ~InTable("holding", Reg(r.addr), r.n)
            BY <2>2, <2>5, <5>1, <5>2, Zenon DEF ReadWrite
          <5>3. CASE InTable("holding", Reg(r.addr), r.n)
            BY <2>2, <2>5, <5>1, <5>3, Zenon DEF ReadWrite
          <5>4. QED
            BY <5>2, <5>3
        <4> HIDE DEF w, res
        <4>2. \A e : [w EXCEPT !.reply = e].tab = w.tab /\ [w EXCEPT !.reply = e].reply = e
          BY <3>1
        <4>3. CASE res = [w EXCEPT !.reply = Refuse("address")]
          BY <4>2, <4>3 DEF Refuse
        <4>4. ASSUME NEW d, res = [w EXCEPT !.reply = Ok(d)]
              PROVE  res.tab = w.tab /\ res.reply.ex = "none"
          BY <4>2, <4>4 DEF Ok
        <4>5. QED
          BY <4>1, <4>3, <4>4
      <3>3. Told(r, res)
        <4> HIDE DEF w, res
        <4>1. QED
          BY <1>6, <2>1, <2>5, <3>1, <3>2 DEF Told, Writes, InTable
      <3>4. Passes(r) /\ r.f \in Writes
        BY <1>6 DEF Passes, Writes
      <3>5. QED
        <4>1. w.tab = [tab EXCEPT !["holding"] = Store(@, a, r.wn, Data(r, after))]
          <5> HIDE DEF w
          <5>1. QED
            BY <3>1
        <4> HIDE DEF w
        <4>2. QED
          BY <1>6, <2>1, <3>1, <3>2, <3>3, <3>4, <4>1
    <2>6. QED
      BY <2>3, <2>4, <2>5, RequestType
  <1>7. QED
    BY <1>1, <1>2, <1>3, <1>4, <1>5, <1>6 DEF Writes

\* A read that is not refused answers with the cells, packed if they are bits.
LEMMA HandleReads ==
  ASSUME NEW r \in Requests, NEW after \in Afters(r), r.f \in Reads,
         Handle(r, after).reply.ex = "none", r.f = "read_write" => r.fits
  PROVE  LET res == Handle(r, after)
             a == Reg(r.addr)
             cells == Fetch(res.tab[Target(r)], a, r.n)
         IN /\ InTable(Target(r), a, r.n)
            /\ res.reply.data = IF IsBits(Target(r)) THEN Pack(cells) ELSE cells
  <1> DEFINE res == Handle(r, after)
             a == Reg(r.addr)
             cells == Fetch(res.tab[Target(r)], a, r.n)
  <1>1. ASSUME NEW tb \in Tables, res = Read(r, tb), Target(r) = tb
        PROVE  /\ InTable(tb, a, r.n)
               /\ res.reply.data = IF IsBits(tb) THEN Pack(cells) ELSE cells
    <2>1. res.tab = tab
      BY <1>1 DEF Read
    <2>2. Read(r, tb).reply.ex = "none"
      BY <1>1
    <2>3. InTable(tb, a, r.n)
      BY <2>2 DEF Read, Refuse
    <2>4. Read(r, tb).reply = Ok(IF IsBits(tb) THEN Pack(Fetch(tab[tb], a, r.n))
                                 ELSE Fetch(tab[tb], a, r.n))
      BY <2>2 DEF Read, Refuse
    <2>5. QED
      BY <1>1, <2>1, <2>3, <2>4 DEF Ok
  <1>2. CASE r.f = "read_coils"
    BY <1>1, <1>2 DEF Handle, ReadCoils, Target, Tables
  <1>3. CASE r.f = "read_discrete"
    BY <1>1, <1>3 DEF Handle, ReadDiscreteInputs, Target, Tables
  <1>4. CASE r.f = "read_holding"
    BY <1>1, <1>4 DEF Handle, ReadHoldingRegister, Target, Tables
  <1>5. CASE r.f = "read_input"
    BY <1>1, <1>5 DEF Handle, ReadInputRegister, Target, Tables
  <1>6. CASE r.f = "read_write"
    <2> DEFINE valid == /\ r.n >= 1 /\ r.n <= MaxRead["holding"]
                        /\ r.wn >= 1 /\ r.wn <= MaxRwWrite /\ r.bytes = 2 * r.wn
               w == Write("holding", r.waddr, r.wn, valid, Buffer(r, r.wn, after))
    <2>1. Target(r) = "holding" /\ ~IsBits("holding")
      BY <1>6 DEF Target, IsBits
    <2>2. ReadWrite(r, after).reply.ex = "none" /\ res = ReadWrite(r, after)
      BY <1>6 DEF Handle
    <2>3. DOMAIN w = {"tab", "reply"}
      BY DEF Write
    <2>4. w.reply.ex = "none"
      BY <1>6, <2>2 DEF ReadWrite
    <2>5. \A e : [w EXCEPT !.reply = e].tab = w.tab /\ [w EXCEPT !.reply = e].reply = e
      <3> HIDE DEF w
      <3>1. QED
        BY <2>3
    <2>6. CASE ~InTable("holding", a, r.n)
      <3>1. ReadWrite(r, after) = [w EXCEPT !.reply = Refuse("address")]
        BY <1>6, <2>4, <2>6, Zenon DEF ReadWrite
      <3>2. QED
        BY <2>2, <2>5, <3>1 DEF Refuse
    <2>7. CASE InTable("holding", a, r.n)
      <3>1. ReadWrite(r, after) = [w EXCEPT !.reply = Ok(Fetch(w.tab["holding"], a, r.n))]
        BY <1>6, <2>4, <2>7, Zenon DEF ReadWrite
      <3>2. res.tab = w.tab /\ res.reply = Ok(Fetch(w.tab["holding"], a, r.n))
        BY <2>2, <2>5, <3>1
      <3> HIDE DEF w
      <3>3. QED
        BY <2>1, <2>7, <3>2 DEF Ok
    <2>8. QED
      BY <2>6, <2>7
  <1>7. QED
    BY <1>2, <1>3, <1>4, <1>5, <1>6 DEF Reads

\* Any other reply is empty.
LEMMA HandleReplies ==
  ASSUME NEW r \in Requests, NEW after \in Afters(r)
  PROVE  LET res == Handle(r, after)
         IN /\ res.reply.ex \in {"none", "value", "address", "function"}
            /\ \/ res.reply.data = <<>>
               \/ r.f \in Reads /\ res.reply.ex = "none" /\ (r.f = "read_write" => r.fits)
  <1> DEFINE res == Handle(r, after)
  <1>0. /\ \A d : Ok(d).ex = "none" /\ Ok(d).data = d
        /\ \A e : Refuse(e).ex = e /\ Refuse(e).data = <<>>
    BY DEF Ok, Refuse
  <1>1. \A tb, addr, n, valid, d :
          LET w == Write(tb, addr, n, valid, d)
          IN w.reply = Ok(<<>>) \/ w.reply = Refuse("value") \/ w.reply = Refuse("address")
    BY DEF Write
  <1>2. CASE r.f \in Reads \ {"read_write"}
    <2>1. PICK tb : res = Read(r, tb)
      BY <1>2 DEF Reads, Handle, ReadCoils, ReadDiscreteInputs, ReadHoldingRegister,
                  ReadInputRegister
    <2>2. \/ res.reply = Refuse("value") \/ res.reply = Refuse("address")
          \/ \E d : res.reply = Ok(d)
      BY <2>1 DEF Read
    <2>3. CASE \E d : res.reply = Ok(d)
      BY <1>0, <1>2, <2>3
    <2>4. CASE res.reply = Refuse("value") \/ res.reply = Refuse("address")
      BY <1>0, <2>4
    <2>5. QED
      BY <2>2, <2>3, <2>4
  <1>3. CASE r.f = "read_write"
    <2> DEFINE valid == /\ r.n >= 1 /\ r.n <= MaxRead["holding"]
                        /\ r.wn >= 1 /\ r.wn <= MaxRwWrite /\ r.bytes = 2 * r.wn
               w == Write("holding", r.waddr, r.wn, valid, Buffer(r, r.wn, after))
    <2>1. res = ReadWrite(r, after)
      BY <1>3 DEF Handle
    <2>2. DOMAIN w = {"tab", "reply"}
      BY DEF Write
    <2>3. \A e : [w EXCEPT !.reply = e].reply = e
      <3> HIDE DEF w
      <3>1. QED
        BY <2>2
    <2>4. CASE ~r.fits
      <3>1. ReadWrite(r, after) = [tab |-> tab, reply |-> Ok(<<>>)]
        BY <2>4, Zenon DEF ReadWrite
      <3>2. QED
        BY <2>1, <3>1 DEF Ok
    <2>5. CASE r.fits /\ w.reply.ex # "none"
      <3>1. ReadWrite(r, after) = w
        BY <2>5 DEF ReadWrite
      <3>2. w.reply = Refuse("value") \/ w.reply = Refuse("address")
        <4>1. \/ w.reply = Ok(<<>>) \/ w.reply = Refuse("value") \/ w.reply = Refuse("address")
          BY DEF Write
        <4> HIDE DEF w
        <4>2. QED
          BY <1>0, <2>5, <4>1
      <3> HIDE DEF w
      <3>3. QED
        BY <1>0, <2>1, <3>1, <3>2
    <2>6. CASE r.fits /\ w.reply.ex = "none"
      <3>1. \/ ReadWrite(r, after) = [w EXCEPT !.reply = Refuse("address")]
            \/ \E d : ReadWrite(r, after) = [w EXCEPT !.reply = Ok(d)]
        BY <2>6 DEF ReadWrite
      <3> HIDE DEF w
      <3>2. res.reply = Refuse("address") \/ \E d : res.reply = Ok(d)
        BY <2>1, <2>3, <3>1
      <3>3. CASE res.reply = Refuse("address")
        BY <1>0, <3>3
      <3>4. CASE \E d : res.reply = Ok(d)
        <4>1. r.f \in Reads
          BY <1>3 DEF Reads
        <4>2. QED
          BY <1>0, <2>6, <3>4, <4>1
      <3>5. QED
        BY <3>2, <3>3, <3>4
    <2>7. QED
      BY <2>4, <2>5, <2>6, RequestType
  <1>4. CASE r.f \notin Reads
    <2>1. res.reply \in {Ok(<<>>), Refuse("value"), Refuse("address"), Refuse("function")}
      <3>1. CASE r.f \in Writes
        <4>1. \E tb, addr, n, valid, d : res = Write(tb, addr, n, valid, d)
          <5>1. CASE r.f = "write_coil"
            BY <5>1 DEF Handle, WriteCoil
          <5>2. CASE r.f = "write_coils"
            BY <5>2 DEF Handle, WriteCoils
          <5>3. CASE r.f = "write_register"
            BY <5>3 DEF Handle, WriteRegister
          <5>4. CASE r.f = "write_registers"
            BY <5>4 DEF Handle, WriteRegisters
          <5>5. QED
            BY <1>4, <3>1, <5>1, <5>2, <5>3, <5>4 DEF Reads, Writes
        <4>2. QED
          BY <1>1, <4>1
      <3>2. CASE r.f \notin Writes
        BY <1>4, <3>2 DEF Reads, Writes, Handle, ReportSlaveID
      <3>3. QED
        BY <3>1, <3>2
    <2>2. QED
      BY <1>0, <2>1
  <1>5. QED
    BY <1>2, <1>3, <1>4

-----------------------------------------------------------------------------
(* The inductive invariant.                                                *)

\* Some cells are written.
LEMMA StoreIs ==
  ASSUME NEW tb \in Tables, NEW cells \in [Cells(tb) -> Cell(tb)], NEW a \in Nat, NEW n \in Nat,
         NEW d, \A i \in 1..n : d[i] \in Cell(tb)
  PROVE  /\ Store(cells, a, n, d) \in [Cells(tb) -> Cell(tb)]
         /\ \A c \in Cells(tb) : Store(cells, a, n, d)[c] =
              IF c >= a /\ c < a + n THEN d[c - a + 1] ELSE cells[c]
  <1>1. \A c \in Cells(tb) : c \in Nat
    BY CellsAre DEF Addresses
  <1>2. DOMAIN cells = Cells(tb)
    OBVIOUS
  <1>3. ASSUME NEW c \in Cells(tb), c >= a, c < a + n PROVE d[c - a + 1] \in Cell(tb)
    <2>1. c - a + 1 \in 1..n
      BY <1>1, <1>3
    <2>2. QED
      BY <2>1
  <1>4. QED
    BY <1>2, <1>3 DEF Store

\* A handler keeps types and agreement.
LEMMA ExecuteStep ==
  ASSUME MbTypeOK, TablesAsTold, NEW r \in Requests, Execute(r)
  PROVE  MbTypeOK' /\ TablesAsTold'
  <1>1. PICK after \in Afters(r) :
          LET res == Handle(r, after)
          IN /\ tab' = res.tab /\ req' = r
             /\ reply' = [ex |-> res.reply.ex, data |-> res.reply.data, sent |-> ~r.all]
             /\ master' = IF Told(r, res)
                          THEN [master EXCEPT ![Target(r)] = [a \in Addresses |->
                                  IF Nth(r, a) <= Count(r) THEN Meant(r, Nth(r, a))
                                  ELSE @[a]]]
                          ELSE master
    BY DEF Execute, Afters
  <1> DEFINE res == Handle(r, after)
             from == From(r)
             n == Count(r)
             tb == Target(r)
             a == Reg(from)
             d == Data(r, after)
  <1>2. /\ from \in Addresses /\ n \in Nat /\ tb \in Tables /\ a \in Addresses /\ a \in Nat
        /\ a = IF from = Word - 1 THEN 0 ELSE from + 1
    BY RequestType, RegIs DEF Addresses
  <1>3. (\A t \in Tables : /\ tab'[t] \in [Cells(t) -> Cell(t)]
                           /\ master'[t] \in [Addresses -> SUBSET Cell(t)])
        /\ DOMAIN tab' = Tables /\ DOMAIN master' = Tables /\ TablesAsTold'
    <2>1. CASE ~Told(r, res)
      <3>1. tab' = tab /\ master' = master
        BY <1>1, <2>1, HandleWrites
      <3>2. QED
        BY <3>1 DEF MbTypeOK, TablesAsTold
    <2>2. CASE Told(r, res)
      <3>1. /\ r.f \in Writes /\ Passes(r) /\ InTable(tb, a, n)
            /\ tab' = [tab EXCEPT ![tb] = Store(@, a, n, d)]
        BY <1>1, <2>2, HandleWrites
      <3>2. \A i \in 1..n : d[i] \in Meant(r, i) /\ Meant(r, i) \subseteq Cell(tb)
        BY <3>1, DataMeant
      <3>3. /\ DOMAIN tab = Tables /\ DOMAIN master = Tables
            /\ tab[tb] \in [Cells(tb) -> Cell(tb)] /\ master[tb] \in [Addresses -> SUBSET Cell(tb)]
        BY <1>2 DEF MbTypeOK
      <3> DEFINE told == [x \in Addresses |-> IF Nth(r, x) <= n THEN Meant(r, Nth(r, x))
                                              ELSE master[tb][x]]
      <3>4. master' = [master EXCEPT ![tb] = told]
        BY <1>1, <2>2
      <3>5. \A x \in Addresses : Nth(r, x) \in Nat \ {0}
        <4> SUFFICES ASSUME NEW x \in Addresses PROVE Nth(r, x) \in Nat \ {0}
          OBVIOUS
        <4>1. Word \in Nat \ {0} /\ x + Word - from \in Nat
          BY <1>2, MbAssumption DEF Addresses
        <4>2. (x + Word - from) % Word \in Nat
          <5> HIDE DEF from
          <5>1. QED
            BY <4>1
        <4>3. QED
          BY <4>2 DEF Nth
      <3>6. told \in [Addresses -> SUBSET Cell(tb)]
        <4>1. ASSUME NEW x \in Addresses, Nth(r, x) <= n PROVE Meant(r, Nth(r, x)) \subseteq Cell(tb)
          <5>1. Nth(r, x) \in 1..n
            BY <1>2, <3>5, <4>1
          <5>2. QED
            BY <3>2, <5>1
        <4>2. QED
          BY <3>3, <4>1
      <3>7. \A i \in 1..n : d[i] \in Cell(tb)
        BY <3>2
      <3>8. /\ Store(tab[tb], a, n, d) \in [Cells(tb) -> Cell(tb)]
            /\ \A c \in Cells(tb) : Store(tab[tb], a, n, d)[c] =
                 IF c >= a /\ c < a + n THEN d[c - a + 1] ELSE tab[tb][c]
        BY <1>2, <3>3, <3>7, StoreIs
      <3>9. ASSUME NEW c \in Cells(tb)
            PROVE  Store(tab[tb], a, n, d)[c] \in told[AddressOf(c)]
        <4>1. /\ c \in Addresses /\ c \in Nat /\ c < Size[tb] /\ Size[tb] < Word /\ Size[tb] \in Nat
              /\ Word \in Nat \ {0} /\ AddressOf(c) \in Addresses
          <5>1. c \in Addresses /\ Size[tb] \in Nat /\ Size[tb] < Word /\ Word \in Nat \ {0}
            BY <1>2, CellsAre
          <5>2. QED
            BY <5>1, AddressOfIs DEF Cells, Addresses
        <4>2. Nth(r, AddressOf(c)) = IF c >= a THEN c - a + 1 ELSE c + Word - a + 1
          BY <1>2, <4>1, PlaceIs DEF Nth
        <4>3. a + n <= Size[tb]
          BY <3>1 DEF InTable
        <4>4. CASE c >= a /\ c < a + n
          <5>1. c - a + 1 \in 1..n /\ Nth(r, AddressOf(c)) = c - a + 1 /\ c - a + 1 <= n
            BY <1>2, <4>1, <4>2, <4>4
          <5>2. told[AddressOf(c)] = Meant(r, c - a + 1)
            BY <4>1, <5>1
          <5>3. QED
            BY <3>2, <3>8, <4>4, <5>1, <5>2
        <4>5. CASE ~(c >= a /\ c < a + n)
          <5>1. ~(Nth(r, AddressOf(c)) <= n)
            BY <1>2, <4>1, <4>2, <4>3, <4>5
          <5>2. told[AddressOf(c)] = master[tb][AddressOf(c)]
            BY <4>1, <5>1
          <5>3. QED
            BY <1>2, <3>8, <4>5, <5>2 DEF TablesAsTold
        <4>6. QED
          BY <4>4, <4>5
      <3> HIDE DEF told, d, a, n, tb
      <3>10. /\ tab'[tb] = Store(tab[tb], a, n, d) /\ master'[tb] = told
             /\ DOMAIN tab' = Tables /\ DOMAIN master' = Tables
             /\ \A t \in Tables : t # tb => tab'[t] = tab[t] /\ master'[t] = master[t]
        BY <1>2, <3>1, <3>3, <3>4
      <3>11. ASSUME NEW t \in Tables
             PROVE  /\ tab'[t] \in [Cells(t) -> Cell(t)]
                    /\ master'[t] \in [Addresses -> SUBSET Cell(t)]
                    /\ \A c \in Cells(t) : tab'[t][c] \in master'[t][AddressOf(c)]
        <4>1. CASE t = tb
          BY <3>6, <3>8, <3>9, <3>10, <4>1
        <4>2. CASE t # tb
          BY <3>10, <4>2 DEF MbTypeOK, TablesAsTold
        <4>3. QED
          BY <4>1, <4>2
      <3>12. TablesAsTold'
        BY <3>11 DEF TablesAsTold, Cells, AddressOf
      <3>13. QED
        BY <3>10, <3>11, <3>12
    <2>3. QED
      BY <2>1, <2>2
  <1>4. req' = r /\ reply'.ex = res.reply.ex /\ reply'.data = res.reply.data
        /\ reply' \in [ex : {res.reply.ex}, data : {res.reply.data}, sent : BOOLEAN]
    BY <1>1
  <1>5. res.reply.data \in Seq(IF IsBits(tb) THEN Bytes ELSE Values)
    <2>1. CASE res.reply.data = <<>>
      BY <2>1
    <2>2. CASE r.f \in Reads /\ res.reply.ex = "none" /\ (r.f = "read_write" => r.fits)
      <3> DEFINE u == Reg(r.addr)
                 cells == Fetch(tab'[tb], u, r.n)
      <3>1. /\ u + r.n <= Size[tb] /\ u \in Addresses /\ r.n \in Nat
            /\ res.reply.data = IF IsBits(tb) THEN Pack(cells) ELSE cells
        BY <1>1, <2>2, HandleReads, RequestType, RegIs DEF InTable
      <3>2. cells \in [1..r.n -> Cell(tb)]
        <4>1. \A i \in 1..r.n : u + i - 1 \in Cells(tb)
          BY <1>2, <3>1, CellsAre DEF Cells, Addresses
        <4>2. tab'[tb] \in [Cells(tb) -> Cell(tb)]
          BY <1>2, <1>3
        <4> HIDE DEF tb, u
        <4>3. QED
          BY <4>1, <4>2 DEF Fetch
      <3>3. CASE IsBits(tb)
        <4>1. Cell(tb) = Bits
          BY <3>3 DEF Cell
        <4>2. Pack(cells) \in Seq(Bytes)
          <5> HIDE DEF cells
          <5>1. QED
            BY <3>1, <3>2, <4>1, PackIs
        <4>3. QED
          BY <3>1, <3>3, <4>2
      <3>4. CASE ~IsBits(tb)
        <4>1. cells \in Seq(Values)
          <5> HIDE DEF cells
          <5>1. QED
            BY <3>1, <3>2, <3>4 DEF Cell
        <4>2. QED
          BY <3>1, <3>4, <4>1
      <3>5. QED
        BY <3>3, <3>4
    <2>3. QED
      BY <2>1, <2>2, HandleReplies
  <1>6. res.reply.ex \in {"none", "value", "address", "function"}
    BY HandleReplies
  <1>7. reply' \in [ex : {"none", "value", "address", "function"},
                    data : Seq(IF IsBits(Target(req')) THEN Bytes ELSE Values), sent : BOOLEAN]
    BY <1>4, <1>5, <1>6
  <1>8. QED
    BY <1>3, <1>4, <1>7 DEF MbTypeOK, Cells, Cell, IsBits, Target

\* A call of the application keeps types and agreement.
LEMMA AppSetStep ==
  ASSUME MbTypeOK, TablesAsTold, NEW tb \in Tables, NEW a \in Addresses, NEW n \in 1..MaxSet,
         NEW d \in [1..n -> Cell(tb)], AppSet(tb, a, d)
  PROVE  MbTypeOK' /\ TablesAsTold'
  <1>1. n \in Nat /\ Len(d) = n /\ a \in Nat /\ \A i \in 1..n : d[i] \in Cell(tb)
    BY MbAssumption DEF Addresses
  <1> DEFINE told == [x \in Addresses |->
                        IF Reg(x) >= a /\ Reg(x) < a + n THEN {d[Reg(x) - a + 1]}
                        ELSE master[tb][x]]
  <1>2. /\ DOMAIN tab = Tables /\ DOMAIN master = Tables
        /\ tab[tb] \in [Cells(tb) -> Cell(tb)] /\ master[tb] \in [Addresses -> SUBSET Cell(tb)]
    BY DEF MbTypeOK
  <1>3. /\ tab' = [tab EXCEPT ![tb] = Store(@, a, n, d)] /\ master' = [master EXCEPT ![tb] = told]
        /\ req' = req /\ reply' = reply
    BY <1>1 DEF AppSet, Reg
  <1>4. told \in [Addresses -> SUBSET Cell(tb)]
    <2>1. ASSUME NEW x \in Addresses, Reg(x) >= a, Reg(x) < a + n PROVE d[Reg(x) - a + 1] \in Cell(tb)
      <3>1. Reg(x) \in Nat
        BY RegIs DEF Addresses
      <3>2. Reg(x) - a + 1 \in 1..n
        BY <1>1, <2>1, <3>1
      <3>3. QED
        BY <1>1, <3>2
    <2>2. QED
      BY <1>2, <2>1
  <1>5. /\ Store(tab[tb], a, n, d) \in [Cells(tb) -> Cell(tb)]
        /\ \A c \in Cells(tb) : Store(tab[tb], a, n, d)[c] =
             IF c >= a /\ c < a + n THEN d[c - a + 1] ELSE tab[tb][c]
    BY <1>1, <1>2, StoreIs
  <1>6. ASSUME NEW c \in Cells(tb)
        PROVE  Store(tab[tb], a, n, d)[c] \in told[AddressOf(c)]
    <2>1. AddressOf(c) \in Addresses /\ Reg(AddressOf(c)) = c
      BY CellsAre, AddressOfIs
    <2>2. tab[tb][c] \in master[tb][AddressOf(c)]
      BY DEF TablesAsTold
    <2>3. QED
      BY <1>5, <2>1, <2>2
  <1> HIDE DEF told
  <1>7. /\ tab'[tb] = Store(tab[tb], a, n, d) /\ master'[tb] = told
        /\ DOMAIN tab' = Tables /\ DOMAIN master' = Tables
        /\ \A t \in Tables : t # tb => tab'[t] = tab[t] /\ master'[t] = master[t]
    BY <1>2, <1>3
  <1>8. ASSUME NEW t \in Tables
        PROVE  /\ tab'[t] \in [Cells(t) -> Cell(t)]
               /\ master'[t] \in [Addresses -> SUBSET Cell(t)]
               /\ \A c \in Cells(t) : tab'[t][c] \in master'[t][AddressOf(c)]
    <2>1. CASE t = tb
      BY <1>4, <1>5, <1>6, <1>7, <2>1
    <2>2. CASE t # tb
      BY <1>7, <2>2 DEF MbTypeOK, TablesAsTold
    <2>3. QED
      BY <2>1, <2>2
  <1>9. QED
    BY <1>3, <1>7, <1>8 DEF MbTypeOK, TablesAsTold, Cells, Cell, IsBits, AddressOf, Target

\* Cells and expectations have their types and agree.
MbInv == MbTypeOK /\ TablesAsTold

\* The zeroed tables are what the master expects of them.
LEMMA InitMbInv == MbInit => MbInv
  <1> SUFFICES ASSUME MbInit PROVE MbInv
    OBVIOUS
  <1>1. \A tb \in Tables : 0 \in Cell(tb)
    BY MbAssumption DEF Cell, Bits
  <1>2. ASSUME NEW tb \in Tables
        PROVE  /\ tab[tb] = [c \in Cells(tb) |-> 0] /\ master[tb] = [a \in Addresses |-> {0}]
    BY DEF MbInit, Tables0, Master0
  <1>3. DOMAIN tab = Tables /\ DOMAIN master = Tables
    BY DEF MbInit, Tables0, Master0
  <1>4. req = NoRequest /\ reply \in [ex : {"none"}, data : {<<>>}, sent : BOOLEAN]
    BY DEF MbInit, NoReply
  <1>5. \A S : <<>> \in Seq(S)
    OBVIOUS
  <1>6. reply \in [ex : {"none", "value", "address", "function"},
                   data : Seq(IF IsBits(Target(req)) THEN Bytes ELSE Values), sent : BOOLEAN]
    BY <1>4, <1>5
  <1>7. MbTypeOK
    BY <1>1, <1>2, <1>3, <1>4, <1>6 DEF MbTypeOK
  <1>8. TablesAsTold
    <2> SUFFICES ASSUME NEW tb \in Tables, NEW c \in Cells(tb)
                 PROVE  tab[tb][c] \in master[tb][AddressOf(c)]
      BY DEF TablesAsTold
    <2>1. AddressOf(c) \in Addresses
      BY CellsAre, AddressOfIs
    <2>2. tab[tb][c] = 0 /\ master[tb][AddressOf(c)] = {0}
      <3>1. tab[tb] = [x \in Cells(tb) |-> 0] /\ master[tb] = [a \in Addresses |-> {0}]
        BY <1>2
      <3>2. QED
        BY <2>1, <3>1
    <2>3. QED
      BY <2>2
  <1>9. QED
    BY <1>7, <1>8 DEF MbInv

\* Every step keeps the invariant.
LEMMA StepMbInv == MbInv /\ [MbNext]_mbvars => MbInv'
  <1> SUFFICES ASSUME MbTypeOK, TablesAsTold, [MbNext]_mbvars PROVE MbTypeOK' /\ TablesAsTold'
    BY DEF MbInv
  <1>1. ASSUME NEW r \in Requests, Execute(r) PROVE MbTypeOK' /\ TablesAsTold'
    BY <1>1, ExecuteStep
  <1>2. CASE Sent
    <2>1. tab' = tab /\ master' = master /\ req' = NoRequest /\ reply' = NoReply
      BY <1>2 DEF Sent
    <2>2. reply' \in [ex : {"none"}, data : {<<>>}, sent : BOOLEAN] /\ \A S : <<>> \in Seq(S)
      BY <2>1 DEF NoReply
    <2>3. reply' \in [ex : {"none", "value", "address", "function"},
                      data : Seq(IF IsBits(Target(req')) THEN Bytes ELSE Values), sent : BOOLEAN]
      BY <2>2
    <2>4. QED
      BY <2>1, <2>3 DEF MbTypeOK, TablesAsTold
  <1>3. ASSUME NEW tb \in Tables, NEW a \in Addresses, NEW n \in 1..MaxSet,
               NEW d \in [1..n -> Cell(tb)], AppSet(tb, a, d)
        PROVE  MbTypeOK' /\ TablesAsTold'
    BY <1>3, AppSetStep
  <1>4. CASE UNCHANGED mbvars
    BY <1>4 DEF mbvars, MbTypeOK, TablesAsTold
  <1>5. QED
    BY <1>1, <1>2, <1>3, <1>4 DEF MbNext

\* A reply tells what the tables hold, and they hold what the master expects.
LEMMA StepReplies == MbInv /\ RepliesTell /\ [MbNext]_mbvars => RepliesTell'
  <1> SUFFICES ASSUME MbInv, RepliesTell, [MbNext]_mbvars PROVE RepliesTell'
    OBVIOUS
  <1>1. ASSUME NEW r \in Requests, Execute(r) PROVE RepliesTell'
    <2>1. PICK after \in Afters(r) :
            /\ tab' = Handle(r, after).tab /\ req' = r
            /\ reply' = [ex |-> Handle(r, after).reply.ex, data |-> Handle(r, after).reply.data,
                         sent |-> ~r.all]
      BY <1>1 DEF Execute, Afters
    <2> DEFINE tb == Target(r)
               u == Reg(r.addr)
               cells == Fetch(tab'[tb], u, r.n)
               b == IsBits(tb)
               data == reply'.data
               n == IF b THEN NBytes(r.n) * ByteBits ELSE r.n
    <2> SUFFICES ASSUME r.f \in Reads, reply'.ex = "none", r.f = "read_write" => r.fits
                 PROVE  /\ Len(data) = IF b THEN NBytes(r.n) ELSE r.n
                        /\ \A i \in 1..n :
                             LET v == IF b THEN BitOf(data, i) ELSE data[i]
                             IN IF i <= r.n THEN v \in master'[tb][(r.addr + i - 1) % Word]
                                ELSE v = 0
      BY <2>1 DEF RepliesTell, Target, BitOf, NBytes, IsBits
    <2>2. MbTypeOK' /\ TablesAsTold'
      BY StepMbInv DEF MbInv
    <2>3. tb \in Tables /\ r.n \in Nat /\ r.addr \in Addresses
      BY RequestType
    <2>4. Handle(r, after).reply.ex = "none" /\ data = Handle(r, after).reply.data
      BY <2>1
    <2>5. InTable(tb, u, r.n) /\ data = IF b THEN Pack(cells) ELSE cells
      BY <2>1, <2>4, HandleReads
    <2>6. ASSUME NEW i \in 1..r.n
          PROVE  cells[i] \in Cell(tb) /\ cells[i] \in master'[tb][(r.addr + i - 1) % Word]
      <3> DEFINE c == u + i - 1
      <3>1. c \in Cells(tb) /\ AddressOf(c) = (r.addr + i - 1) % Word
        BY <2>3, <2>5, NthCell
      <3>2. cells[i] = tab'[tb][c]
        BY DEF Fetch
      <3>3. tab'[tb][c] \in Cell(tb) /\ tab'[tb][c] \in master'[tb][AddressOf(c)]
        BY <2>2, <2>3, <3>1 DEF MbTypeOK, TablesAsTold, Cells, Cell, IsBits, AddressOf
      <3>4. QED
        BY <3>1, <3>2, <3>3
    <2>7. cells \in [1..r.n -> Cell(tb)]
      <3>1. cells = [i \in 1..r.n |-> cells[i]]
        BY DEF Fetch
      <3> HIDE DEF cells
      <3>2. QED
        BY <2>6, <3>1
    <2>8. CASE b
      <3>1. Cell(tb) = Bits
        BY <2>8 DEF Cell
      <3>2. /\ data = Pack(cells) /\ Len(Pack(cells)) = NBytes(r.n)
            /\ \A i \in 1..(NBytes(r.n) * ByteBits) :
                 BitOf(Pack(cells), i) = IF i <= r.n THEN cells[i] ELSE 0
        <4>1. data = Pack(cells)
          BY <2>5, <2>8
        <4> HIDE DEF cells, data
        <4>2. QED
          BY <2>3, <2>7, <3>1, <4>1, PackIs
      <3>3. ASSUME NEW i \in 1..(NBytes(r.n) * ByteBits), i <= r.n PROVE i \in 1..r.n
        BY <2>3, <3>3, BitPlace, MbAssumption
      <3> HIDE DEF cells, data, b, tb
      <3>4. QED
        BY <2>6, <2>8, <3>2, <3>3
    <2>9. CASE ~b
      <3>1. data = cells /\ Len(cells) = r.n
        <4>1. data = cells
          BY <2>5, <2>9
        <4> HIDE DEF cells, data
        <4>2. QED
          BY <2>3, <2>7, <4>1
      <3> HIDE DEF cells, data, b, tb
      <3>2. QED
        BY <2>3, <2>6, <2>9, <3>1
    <2>10. QED
      BY <2>8, <2>9
  <1>2. CASE Sent
    <2>1. req'.f = "none"
      BY <1>2 DEF Sent, NoRequest
    <2>2. QED
      BY <2>1 DEF RepliesTell, Reads
  <1>3. ASSUME NEW tb \in Tables, NEW a \in Addresses, NEW n \in 1..MaxSet,
               NEW d \in [1..n -> Cell(tb)], AppSet(tb, a, d)
        PROVE  RepliesTell'
    <2>1. req'.f = "none"
      BY <1>3 DEF AppSet, NoRequest
    <2>2. QED
      BY <2>1 DEF RepliesTell, Reads
  <1>4. CASE UNCHANGED mbvars
    BY <1>4 DEF mbvars, RepliesTell
  <1>5. QED
    BY <1>1, <1>2, <1>3, <1>4 DEF MbNext

\* It holds of every behaviour.
LEMMA MbInvariant == MbSpec => []MbInv
  BY InitMbInv, StepMbInv, PTL DEF MbSpec

\* Every variable of MbFunc keeps its type.
THEOREM MbTypeCorrect == MbSpec => []MbTypeOK
  <1>1. MbInv => MbTypeOK
    BY DEF MbInv
  <1>2. QED
    BY <1>1, MbInvariant, PTL

\* Every cell holds what the last request acknowledged for its address, or the
\* application, put there, also at the last address, which is cell 0.
THEOREM TablesStayAsTold == MbSpec => []TablesAsTold
  <1>1. MbInv => TablesAsTold
    BY DEF MbInv
  <1>2. QED
    BY <1>1, MbInvariant, PTL

\* A read that is not refused answers with what the master may expect at each
\* address, and pads the last byte with zeros.
THEOREM RepliesTellTables == MbSpec => []RepliesTell
  <1>1. MbInit => RepliesTell
    BY DEF MbInit, NoRequest, RepliesTell, Reads
  <1>2. QED
    BY <1>1, MbInvariant, StepReplies, PTL DEF MbSpec

-----------------------------------------------------------------------------
(* Reception on the virtual COM port.                                      *)

USE DEF MaxTran

\* A sequence with one element.
LEMMA OneElement ==
  ASSUME NEW S, NEW q \in Seq(S), Len(q) = 1
  PROVE  q # <<>> /\ Head(q) = q[1] /\ q[1] \in S
  OBVIOUS

-----------------------------------------------------------------------------
(* Types.                                                                  *)

\* What lies at an index of g_rx_buff, or behind it, is a byte.
LEMMA ByteType == TypeOK => \A i \in Nat : ByteAt(i) \in Ids \cup {NoId}
  BY VcpRxAssumption DEF TypeOK, ByteAt

\* The zeroed variables have their types.
LEMMA InitTypes == Init => TypeOK
  BY VcpRxAssumption DEF Init, TypeOK, Steps

\* Every step keeps the types.
LEMMA StepTypes == TypeOK /\ [Next]_vars => TypeOK'
  <1> SUFFICES ASSUME TypeOK, [Next]_vars PROVE TypeOK'
    OBVIOUS
  <1> USE VcpRxAssumption DEF TypeOK, Steps
  <1>1. CASE RxTest
    BY <1>1 DEF RxTest, hw, sw, task, hist
  <1>2. CASE RxClear
    BY <1>2 DEF RxClear, hw, task, hist
  <1>3. CASE RxLen
    BY <1>3 DEF RxLen, hw, sw, hist
  <1>4. CASE RxCopy
    <2>1. Len(recv_data) \in Nat
      OBVIOUS
    <2>2. recv_data' \in Seq(Ids \cup {NoId})
      BY <1>4, <2>1, ByteType DEF RxCopy
    <2> QED
      BY <1>4, <2>2 DEF RxCopy, hw, sw, hist
  <1>5. CASE RxCopied
    BY <1>5 DEF RxCopied, hw, sw, task, hist
  <1>6. CASE RxBuf
    BY <1>6 DEF RxBuf, sw, task, hist
  <1>7. CASE RxArm
    <2>1. pend' \in Seq(Pkts)
      BY <1>7 DEF RxArm
    <2>2. recv_data' \in Seq(Ids \cup {NoId})
      BY <1>7 DEF RxArm
    <2> QED
      BY <1>7, <2>1, <2>2 DEF RxArm, sw
  <1>8. CASE RxFlvl
    <2>1. rxf \in Pkts /\ rxf.id \in Ids /\ rxf.len \in 0..MaxPkt
      BY <1>8 DEF RxFlvl, Pkts
    <2>2. g_rx_buff' \in [0..(MaxPkt - 1) -> Ids \cup {NoId}]
      BY <1>8, <2>1 DEF RxFlvl
    <2>3. trans_len' \in 0..MaxTran
      BY <1>8, <2>1 DEF RxFlvl
    <2> QED
      BY <1>8, <2>2, <2>3 DEF RxFlvl, task, hist
  <1>9. CASE OutXferc
    BY <1>9 DEF OutXferc, task, hist
  <1>10. CASE BusReset
    BY <1>10 DEF BusReset, sw, task, hist
  <1>11. CASE Unconfigure
    BY <1>11 DEF Unconfigure, sw, task, hist
  <1>12. CASE SetConfig
    <2>1. pend' \in Seq(Pkts) /\ broken' \in BOOLEAN
      BY <1>12 DEF SetConfig, InCall
    <2>2. /\ conf' = TRUE /\ g_rx_completed' = FALSE /\ trans_len' = 0 /\ armed' = TRUE
          /\ UNCHANGED <<rxf, xferc, g_rx_buff, g_rxlen, pc, tmp_len, recv_data>>
      BY <1>12 DEF SetConfig, task
    <2>3. conf' \in BOOLEAN /\ armed' \in BOOLEAN /\ g_rx_completed' \in BOOLEAN
      BY <2>2
    <2>4. /\ rxf' \in Pkts \cup {NoPkt} /\ xferc' \in BOOLEAN /\ trans_len' \in 0..MaxTran
          /\ g_rx_buff' \in [0..(MaxPkt - 1) -> Ids \cup {NoId}] /\ g_rxlen' \in 0..MaxTran
          /\ pc' \in Steps \cup {"idle"} /\ tmp_len' \in 0..MaxTran
          /\ recv_data' \in Seq(Ids \cup {NoId})
      BY <2>2
    <2> QED
      BY <2>1, <2>3, <2>4 DEF TypeOK
  <1>13. ASSUME NEW p \in Pkts, HostOut(p) PROVE TypeOK'
    <2>1. pend' \in Seq(Pkts)
      BY <1>13 DEF HostOut
    <2> QED
      BY <1>13, <2>1 DEF HostOut, sw, task
  <1>14. CASE UNCHANGED vars
    BY <1>14 DEF vars, hw, sw, task, hist
  <1> QED
    BY <1>1, <1>2, <1>3, <1>4, <1>5, <1>6, <1>7, <1>8, <1>9, <1>10, <1>11, <1>12,
       <1>13, <1>14 DEF Next, GetRxData

\* Every variable keeps its type, and the lengths their bound.
THEOREM TypeCorrect == Spec => []TypeOK
  BY InitTypes, StepTypes, PTL DEF Spec

-----------------------------------------------------------------------------
(* Reception stays alive.                                                  *)

\* The flag as a holder: a call that is about to clear it has taken over.
Flag == g_rx_completed /\ pc # "clear"

\* ReceptionAlive without the set.
Alive == conf => armed \/ rxf # NoPkt \/ xferc \/ Flag \/ InCall

\* The set of holders and the disjunction say the same.
LEMMA AliveIsHeld == Alive <=> ReceptionAlive
  BY Zenon DEF Alive, ReceptionAlive, Holders, Flag

\* Every holder hands the buffer on to another.
LEMMA StepAlive == TypeOK /\ Alive /\ [Next]_vars => Alive'
  <1> SUFFICES ASSUME TypeOK, Alive, [Next]_vars PROVE Alive'
    OBVIOUS
  <1> USE DEF Alive, Flag, InCall, Steps
  <1>1. CASE GetRxData
    BY <1>1 DEF GetRxData, RxTest, RxClear, RxLen, RxCopy, RxCopied, RxBuf, RxArm,
                hw, sw
  <1>2. CASE RxFlvl \/ OutXferc
    BY <1>2 DEF RxFlvl, OutXferc
  <1>3. CASE BusReset \/ Unconfigure \/ SetConfig
    BY <1>3 DEF BusReset, Unconfigure, SetConfig
  <1>4. ASSUME NEW p \in Pkts, HostOut(p) PROVE Alive'
    BY <1>4, VcpRxAssumption DEF HostOut
  <1>5. CASE UNCHANGED vars
    BY <1>5 DEF vars, hw, sw
  <1> QED
    BY <1>1, <1>2, <1>3, <1>4, <1>5 DEF Next

\* A configured endpoint is never left disabled with nobody about to enable
\* it, whatever the order of calls, interrupts and configurations.
THEOREM ReceptionStaysAlive == Spec => []ReceptionAlive
  <1>1. Init => Alive
    BY DEF Init, Alive
  <1>2. Spec => []Alive
    BY <1>1, TypeCorrect, StepAlive, PTL DEF Spec
  <1> QED
    BY <1>2, AliveIsHeld, PTL
-----------------------------------------------------------------------------
(* One holder, and the packet it holds.                                    *)

\* The packet of the host that was acknowledged last lies in g_rx_buff with
\* n bytes.
Held(n) ==
  /\ Len(pend) = 1 /\ n = pend[1].len
  /\ \A i \in 0..(MaxPkt - 1) : i < n => g_rx_buff[i] = pend[1].id

\* The holders exclude each other, in pairs.
Exclusive ==
  /\ armed => rxf = NoPkt /\ ~xferc /\ ~Flag /\ ~InCall
  /\ rxf # NoPkt => ~xferc /\ ~Flag /\ ~InCall
  /\ xferc => ~Flag /\ ~InCall
  /\ Flag => ~InCall

\* What each holder has of the packet.
Tracked ==
  /\ armed => pend = <<>> /\ trans_len = 0
  /\ rxf # NoPkt => pend = <<rxf>> /\ trans_len = 0
  /\ xferc => Held(trans_len)
  /\ Flag \/ InCall => Held(g_rxlen)
  /\ pc = "arm" => trans_len = 0

\* How far the call has copied it.
Copied ==
  /\ pc \in {"copy", "buf", "arm"} => tmp_len = g_rxlen
  /\ pc = "copy" => Len(recv_data) <= g_rxlen
  /\ pc \in {"buf", "arm"} => Len(recv_data) = g_rxlen
  /\ InCall => \A i \in 1..Len(recv_data) : recv_data[i] = pend[1].id

\* The inductive invariant.  Between calls nothing is copied, whatever the
\* configuration does.
IInv ==
  /\ pc \in {"idle", "clear", "len"} => recv_data = <<>>
  /\ conf /\ ~broken => Exclusive /\ Tracked /\ Copied

\* The steps of the call keep it.
LEMMA CallInv == TypeOK /\ IInv /\ GetRxData => IInv'
  <1> SUFFICES ASSUME TypeOK, IInv, GetRxData PROVE IInv'
    OBVIOUS
  <1> USE VcpRxAssumption DEF TypeOK, IInv, Exclusive, Flag, InCall, Steps
  <1>1. CASE RxTest
    BY <1>1 DEF RxTest, hw, sw, task, hist, Tracked, Copied, Held
  <1>2. CASE RxClear
    BY <1>2 DEF RxClear, hw, task, hist, Tracked, Copied, Held
  <1>3. CASE RxLen
    BY <1>3 DEF RxLen, hw, sw, hist, Tracked, Copied, Held
  <1>4. CASE RxCopy
    <2> USE <1>4 DEF RxCopy, hw, sw, hist
    <2>1. pc' = pc /\ pc = "copy"
      OBVIOUS
    <2>2. ASSUME conf', ~broken' PROVE Exclusive' /\ Tracked'
      BY <2>2 DEF Tracked, Held
    <2>3. ASSUME conf', ~broken' PROVE Copied'
      <3>1. /\ Len(recv_data) \in Nat /\ Len(recv_data) < g_rxlen
            /\ g_rxlen \in Nat /\ tmp_len = g_rxlen
        BY <2>3 DEF Copied
      <3>2. Held(g_rxlen)
        BY <2>3 DEF Tracked
      <3>3. pend[1] \in Pkts /\ pend[1].len \in 0..MaxPkt
        <4>1. Len(pend) = 1 /\ pend \in Seq(Pkts)
          BY <3>2 DEF Held
        <4>2. pend[1] \in Pkts
          BY <4>1, OneElement
        <4> QED
          BY <4>2 DEF Pkts
      <3>4. ByteAt(Len(recv_data)) = pend[1].id
        BY <3>1, <3>2, <3>3 DEF Held, ByteAt
      <3>5. \A i \in 1..Len(recv_data) : recv_data[i] = pend[1].id
        BY <2>3 DEF Copied
      <3>6. /\ Len(recv_data') = Len(recv_data) + 1
            /\ \A i \in 1..Len(recv_data') : recv_data'[i] = pend[1].id
        BY <3>4, <3>5, ByteType
      <3>7. Len(recv_data') <= g_rxlen'
        BY <3>1, <3>6
      <3>8. tmp_len' = g_rxlen' /\ pend' = pend
        BY <3>1
      <3> QED
        BY <2>1, <3>6, <3>7, <3>8 DEF Copied
    <2> QED
      BY <2>1, <2>2, <2>3
  <1>5. CASE RxCopied
    BY <1>5 DEF RxCopied, hw, sw, task, hist, Tracked, Copied, Held
  <1>6. CASE RxBuf
    BY <1>6 DEF RxBuf, sw, task, hist, Tracked, Copied, Held
  <1>7. CASE RxArm
    <2> USE <1>7 DEF RxArm, sw
    <2>1. pc' = "idle" /\ recv_data' = <<>>
      OBVIOUS
    <2>2. ASSUME conf', ~broken' PROVE Exclusive'
      BY <2>2
    <2>3. ASSUME conf', ~broken' PROVE Tracked'
      <3>1. Len(pend) = 1 /\ trans_len = 0
        BY <2>3 DEF Tracked, Held
      <3>2. pend' = <<>>
        BY <3>1
      <3> QED
        BY <2>3, <3>1, <3>2 DEF Tracked
    <2>4. Copied'
      BY <2>1 DEF Copied
    <2> QED
      BY <2>1, <2>2, <2>3, <2>4
  <1> QED
    BY <1>1, <1>2, <1>3, <1>4, <1>5, <1>6, <1>7 DEF GetRxData

\* The interrupts keep it.
LEMMA InterruptInv == TypeOK /\ IInv /\ (RxFlvl \/ OutXferc) => IInv'
  <1> SUFFICES ASSUME TypeOK, IInv, RxFlvl \/ OutXferc PROVE IInv'
    OBVIOUS
  <1> USE VcpRxAssumption DEF TypeOK, IInv, Exclusive, Flag, InCall, Steps
  <1>1. CASE RxFlvl
    <2> USE <1>1 DEF RxFlvl, task, hist
    <2>1. rxf \in Pkts /\ rxf.len \in 0..MaxPkt /\ rxf.id \in Ids
      BY DEF Pkts
    <2>2. ASSUME conf', ~broken' PROVE Exclusive' /\ Tracked' /\ Copied'
      <3>1. pend = <<rxf>> /\ trans_len = 0 /\ ~armed /\ ~InCall /\ ~Flag /\ ~xferc
        BY <2>2 DEF Tracked
      <3>2. trans_len' = rxf.len
        BY <2>1, <3>1
      <3>3. \A i \in 0..(MaxPkt - 1) : i < rxf.len => g_rx_buff'[i] = rxf.id
        BY <2>1, <3>1
      <3>4. Len(pend') = 1 /\ pend'[1] = rxf
        BY <2>1, <3>1
      <3>5. Held(trans_len)'
        BY <3>2, <3>3, <3>4 DEF Held
      <3> QED
        BY <3>1, <3>5 DEF Tracked, Copied
    <2> QED
      BY <2>2
  <1>2. CASE OutXferc
    BY <1>2 DEF OutXferc, task, hist, Tracked, Copied, Held
  <1> QED
    BY <1>1, <1>2

\* The host and the configurations keep it.
LEMMA HostInv ==
  TypeOK /\ IInv /\ (BusReset \/ Unconfigure \/ SetConfig \/ \E p \in Pkts : HostOut(p))
  => IInv'
  <1> SUFFICES ASSUME TypeOK, IInv,
                      BusReset \/ Unconfigure \/ SetConfig \/ \E p \in Pkts : HostOut(p)
               PROVE IInv'
    OBVIOUS
  <1> USE VcpRxAssumption DEF TypeOK, IInv
  <1>1. CASE BusReset \/ Unconfigure
    BY <1>1 DEF BusReset, Unconfigure, sw, task, hist
  <1>2. CASE SetConfig
    <2>1. pc' = pc /\ recv_data' = recv_data
      BY <1>2 DEF SetConfig, task
    <2>2. ASSUME ~broken' PROVE Exclusive' /\ Tracked' /\ Copied'
      <3>1. ~InCall /\ rxf = NoPkt /\ ~xferc
        BY <1>2, <2>2 DEF SetConfig
      <3>2. /\ ~InCall' /\ rxf' = NoPkt /\ ~xferc' /\ ~g_rx_completed'
            /\ pend' = <<>> /\ trans_len' = 0
        BY <1>2, <3>1, <2>1 DEF SetConfig, InCall
      <3> QED
        BY <3>2 DEF Exclusive, Tracked, Copied, Flag, InCall, Steps
    <2> QED
      BY <2>1, <2>2
  <1>3. ASSUME NEW p \in Pkts, HostOut(p) PROVE IInv'
    <2>1. pc' = pc /\ recv_data' = recv_data /\ conf' = conf /\ broken' = broken
      BY <1>3 DEF HostOut, task
    <2>2. ASSUME conf, ~broken PROVE Exclusive' /\ Tracked' /\ Copied'
      <3>1. /\ ~armed' /\ rxf' = p /\ ~xferc' /\ ~Flag' /\ ~InCall'
            /\ pend' = Append(<<>>, p) /\ trans_len' = 0
        BY <1>3, <2>2 DEF HostOut, sw, Exclusive, Tracked, Flag, InCall
      <3> QED
        BY <3>1 DEF Exclusive, Tracked, Copied, InCall, Steps
    <2> QED
      BY <2>1, <2>2
  <1> QED
    BY <1>1, <1>2, <1>3

\* The zeroed variables satisfy it.
LEMMA InitInv == Init => IInv
  BY DEF Init, IInv

\* The inductive invariant holds of every behaviour.
LEMMA Invariant == Spec => []IInv
  <1>1. TypeOK /\ IInv /\ [Next]_vars => IInv'
    <2>1. IInv /\ UNCHANGED vars => IInv'
      BY DEF IInv, Exclusive, Tracked, Copied, Held, Flag, InCall, vars, hw, sw, task, hist
    <2> QED
      BY <2>1, CallInv, InterruptInv, HostInv DEF Next
  <1> QED
    BY <1>1, InitInv, TypeCorrect, PTL DEF Spec

\* The receive buffer has one holder at a time, and the endpoint is enabled at
\* its start, except after a SET_CONFIGURATION during reception.
THEOREM BufferHasOneHolder == Spec => []OneHolder
  <1>1. IInv => OneHolder
    <2> SUFFICES ASSUME IInv, conf, ~broken
                 PROVE  /\ \A g, h \in Holders : g = h
                        /\ armed \/ rxf # NoPkt => trans_len = 0
      BY DEF OneHolder
    <2>1. \A g, h \in Holders : g = h
      BY DEF IInv, Exclusive, Flag, Holders
    <2> QED
      BY <2>1 DEF IInv, Tracked
  <1> QED
    BY <1>1, Invariant, PTL

\* usb_vcp_get_rxdata returns the next packet of the host, whole and unmixed,
\* with the same exception.
THEOREM PacketsIntact == Spec => []NextPacketIntact
  <1>1. TypeOK /\ IInv => NextPacketIntact
    <2> SUFFICES ASSUME TypeOK, IInv, pc \in {"buf", "arm"}, conf, ~broken
                 PROVE  /\ pend # <<>> /\ tmp_len = Head(pend).len
                        /\ recv_data = [i \in 1..tmp_len |-> Head(pend).id]
      BY DEF NextPacketIntact
    <2>1. Held(g_rxlen) /\ Copied
      BY DEF IInv, Tracked, InCall, Steps
    <2>2. Len(pend) = 1 /\ tmp_len = pend[1].len /\ pend \in Seq(Pkts)
      BY <2>1 DEF Held, Copied, TypeOK
    <2>3. Len(recv_data) = tmp_len
          /\ \A i \in 1..Len(recv_data) : recv_data[i] = pend[1].id
      BY <2>1 DEF Copied, InCall, Steps
    <2>4. recv_data = [i \in 1..Len(recv_data) |-> recv_data[i]]
      BY DEF TypeOK
    <2>5. recv_data = [i \in 1..Len(recv_data) |-> pend[1].id]
      BY <2>3, <2>4, Zenon
    <2>6. pend # <<>> /\ Head(pend) = pend[1]
      BY <2>2, OneElement
    <2> QED
      BY <2>2, <2>3, <2>5, <2>6
  <1> QED
    BY <1>1, Invariant, TypeCorrect, PTL
=============================================================================
