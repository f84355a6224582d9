----------------------------- MODULE MC_MbFunc -----------------------------
(***************************************************************************)
(* Requests for small tables: coils in bytes of two bits, addresses of     *)
(* three bits.  Every address, valid and not, every count up to one too    *)
(* many, frames that are too short, cut, or have a wrong byte count.       *)
(***************************************************************************)
EXTENDS MbFunc

MC_Size == [coils |-> 4, discrete |-> 2, holding |-> 3, input |-> 2]
MC_MaxRead == [coils |-> 3, discrete |-> 2, holding |-> 2, input |-> 2]
MC_MaxWrite == [coils |-> 3, holding |-> 2]

Base == [f |-> "unknown", fits |-> TRUE, all |-> FALSE, addr |-> 0, n |-> 0,
         waddr |-> 0, wn |-> 0, bytes |-> 0, data |-> <<>>]

MC_Addr == {0, 1, 2, 3, Word - 1}

ReadsOf(f, max) ==
  {[Base EXCEPT !.f = f, !.addr = a, !.n = n] : a \in MC_Addr, n \in 0..(max + 1)}
  \cup {[Base EXCEPT !.f = f, !.n = 1, !.fits = FALSE]}

MC_BitRequests ==
  {Base, [Base EXCEPT !.f = "report_slave_id"]}
  \cup ReadsOf("read_coils", 3) \cup ReadsOf("read_discrete", 2)
  \cup {[Base EXCEPT !.f = "write_coil", !.addr = a, !.data = <<v>>] :
          a \in MC_Addr, v \in Bits}
  \cup {[Base EXCEPT !.f = "write_coil", !.data = <<v>>, !.fits = k, !.all = TRUE] :
          v \in {1, OtherCoil}, k \in BOOLEAN}
  \cup {[Base EXCEPT !.f = "write_coils", !.addr = a, !.n = 3, !.bytes = 2,
                      !.data = d] :
          a \in MC_Addr, d \in {<<<<1, 0>>, <<1, 1>>>>, <<<<0, 1>>, <<0, 1>>>>}}
  \cup {[Base EXCEPT !.f = "write_coils", !.n = n, !.bytes = b, !.fits = k,
                      !.data = <<<<1, 1>>>>] :
          n \in {0, 1, 3, 4}, b \in {1, 2}, k \in BOOLEAN}

MC_RegisterRequests ==
  ReadsOf("read_holding", 2) \cup ReadsOf("read_input", 2)
  \cup {[Base EXCEPT !.f = "write_register", !.addr = a, !.data = <<v>>] :
          a \in MC_Addr, v \in Values}
  \cup {[Base EXCEPT !.f = "write_register", !.fits = k, !.all = TRUE, !.data = <<1>>] :
          k \in BOOLEAN}
  \cup {[Base EXCEPT !.f = "write_registers", !.addr = a, !.n = 2, !.bytes = 4,
                      !.data = d] : a \in MC_Addr, d \in {<<1, 0>>, <<0, 1>>}}
  \cup {[Base EXCEPT !.f = "write_registers", !.n = n, !.bytes = b, !.fits = k,
                      !.data = <<1, 1>>] :
          n \in {0, 1, 2, 3}, b \in {4, 6}, k \in BOOLEAN}
  \cup {[Base EXCEPT !.f = "read_write", !.addr = a, !.n = 2, !.waddr = w,
                      !.wn = 2, !.bytes = 4, !.data = d] :
          a \in {0, 1, Word - 1}, w \in {0, 1, Word - 1}, d \in {<<1>>, <<0, 1>>}}
  \cup {[Base EXCEPT !.f = "read_write", !.n = n, !.wn = wn, !.bytes = b,
                      !.fits = k, !.data = <<1, 0>>] :
          n \in {1, 3}, wn \in {1, 2}, b \in {2, 4}, k \in BOOLEAN}

MC_Requests == MC_BitRequests \cup MC_RegisterRequests

\* Bound: the application sets discrete inputs or input registers, not both.
OneInput == \E tb \in {"discrete", "input"} : master[tb] = Master0[tb]
=============================================================================
