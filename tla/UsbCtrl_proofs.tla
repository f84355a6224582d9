--------------------------- MODULE UsbCtrl_proofs ---------------------------
(***************************************************************************)
(* Proofs about control transfers, for every packet size, FIFO size and set of *)
(* requests, and for a host that abandons, resets or suspends at any time. *)
(*                                                                         *)
(* IInv, inductive alone, has the types, what a snapshot of the interrupt  *)
(* flags may hold, and that a packet offered to the host is in the transmit *)
(* FIFO or its FIFO-empty interrupt is due.                                *)
(*                                                                         *)
(* QueueInv is about a request the software has not decoded yet: it is the *)
(* newest SETUP in the receive FIFO, and what is pending belongs either to it *)
(* or to the request before it.  TransferInv is about a request that has been *)
(* decoded: InTransfer lists the places it can be at.                      *)
(*                                                                         *)
(* While no request was served late, OrderInv says that nothing of an old  *)
(* request is left when the host goes on to the next.  With SuspInv, the order *)
(* of suspend and wakeup, StateInv then relates the state and the address of *)
(* the device to those the host believes it has.                           *)
(***************************************************************************)
EXTENDS UsbCtrl, SequenceTheorems, TLAPS

-----------------------------------------------------------------------------
(* Operators.                                                              *)

\* MIN of two lengths is one of them, and not above the other.
LEMMA MinOfNat ==
  ASSUME NEW a \in Nat, NEW b \in Nat
  PROVE  /\ MinOf(a, b) \in Nat
         /\ MinOf(a, b) <= a
         /\ MinOf(a, b) <= b
         /\ MinOf(a, b) = a \/ MinOf(a, b) = b
  BY DEF MinOf

\* The flags of a snapshot.
LEMMA OrderIs ==
  /\ {Order[i] : i \in DOMAIN Order} =
       {"iept", "oept", "rst", "enumdone", "rxflvl", "wkup", "susp"}
  /\ DOMAIN Order = 1..7
  /\ Order[1] = "iept" /\ Order[2] = "oept" /\ Order[3] = "rst"
  /\ Order[4] = "enumdone" /\ Order[5] = "rxflvl" /\ Order[6] = "wkup"
  /\ Order[7] = "susp"
  <1>1. /\ DOMAIN Order = 1..7
        /\ Order[1] = "iept" /\ Order[2] = "oept" /\ Order[3] = "rst"
        /\ Order[4] = "enumdone" /\ Order[5] = "rxflvl" /\ Order[6] = "wkup"
        /\ Order[7] = "susp"
    BY DEF Order
  <1>2. 1..7 = {1, 2, 3, 4, 5, 6, 7}
    OBVIOUS
  <1>3. QED
    BY <1>1, <1>2

\* usbd_irq_handler serves the flags of its snapshot in the order of the code.
LEMMA ServingOrder ==
  /\ \A f : Serving(f) => f \in pass
  /\ Serving("oept") => "iept" \notin pass
  /\ Serving("rst") => {"iept", "oept"} \cap pass = {}
  /\ Serving("enumdone") => {"iept", "oept", "rst"} \cap pass = {}
  /\ Serving("rxflvl") => {"iept", "oept", "rst", "enumdone"} \cap pass = {}
  /\ Serving("wkup") => {"iept", "oept", "rst", "enumdone", "rxflvl"} \cap pass = {}
  /\ Serving("susp") => {"iept", "oept", "rst", "enumdone", "rxflvl", "wkup"} \cap pass = {}
  <1>1. ASSUME NEW f \in {"iept", "oept", "rst", "enumdone", "rxflvl", "wkup", "susp"},
               NEW i \in 1..7, Order[i] = f, Serving(f)
        PROVE  \A j \in 1..7 : j < i => Order[j] \notin pass
    <2>1. PICK k \in DOMAIN Order : Order[k] = f /\ \A j \in 1..(k - 1) : Order[j] \notin pass
      BY <1>1 DEF Serving
    <2>2. k = i
      BY <1>1, <2>1, OrderIs
    <2>3. QED
      BY <2>1, <2>2, OrderIs
  <1>2. QED
    BY <1>1, OrderIs DEF Serving

-----------------------------------------------------------------------------
(* Types, and what the handler finds when it serves a flag.                *)

InEpts == [ena : BOOLEAN, nak : BOOLEAN, stall : BOOLEAN, xferc : BOOLEAN,
           emp : BOOLEAN, written : BOOLEAN, own : BOOLEAN,
           len : 0..MaxPacket, fifo : 0..MaxPacket]
OutEpts == [armed : BOOLEAN, stall : BOOLEAN, xferc : BOOLEAN, setup : BOOLEAN]
Ctls == [sts : {"SETUP", "DATA_IN", "DATA_OUT", "STATUS_IN", "STATUS_OUT"},
         rem : Nat, last : 0..MaxPacket, slen : Nat, wlen : Nat, orem : Nat]
Stages == {"off", "idle", "reset", "in", "out", "status_in", "status_out"}
Answers ==
  {x \in [a : {"send", "recv", "status", "stall", "stall_status", "nothing"}, n : Nat] :
     x.a \notin {"send", "recv"} => x.n = 0}

\* The snapshot holds pending flags only, and endpoint 0 never has a SETUP and
\* a completed transfer of OUT at once: the receive FIFO is read by
\* usbd_rxflvl_handler one entry at a time, and what it read is served before
\* the next.
IrqInv ==
  /\ pass \cap Flags \subseteq flags
  /\ "rxflvl" \in pass => rxfifo # <<>>
  /\ "rxflvl" \in pass /\ "oept" \notin pass => ~out.xferc /\ ~out.setup
  /\ ~(out.xferc /\ out.setup)
  /\ out.setup => setup # NoReq
  /\ Waiting => hreq # NoReq
  /\ suspsts => stage = "idle"

\* A packet the endpoint may send is in the FIFO, or the interrupt that writes
\* it there is due.
PipeInv ==
  /\ ~in.ena => in.fifo = 0 /\ (in.len = 0 \/ in.written)
  /\ in.ena /\ ~in.nak /\ in.len > 0 =>
       IF in.written THEN in.fifo = in.len ELSE in.fifo = 0 /\ in.emp
  /\ ~Current => ~in.own

IInv == TypeOK /\ IrqInv /\ PipeInv

\* The types, one by one.
Typed ==
  /\ conn_state \in States /\ old_conn_state \in States /\ hstate \in States
  /\ addr \in Nat /\ haddr \in Nat /\ events \in 0..MaxEvents
  /\ suspsts \in BOOLEAN
  /\ flags \subseteq Flags
  /\ pass \subseteq {"iept", "oept", "rst", "enumdone", "rxflvl", "wkup", "susp"}
  /\ in \in InEpts /\ out \in OutEpts /\ ctl \in Ctls
  /\ rxfifo \in Seq(Requests \cup {NoReq}) /\ setup \in Requests \cup {NoReq}
  /\ hreq \in Requests \cup {NoReq} /\ got \in Nat /\ stage \in Stages
  /\ mute \in BOOLEAN /\ wrong \in BOOLEAN /\ stale \in BOOLEAN /\ late \in BOOLEAN

\* TypeOK with its sets of records named.
LEMMA Types == TypeOK <=> Typed
  BY OrderIs, SMTT(60) DEF TypeOK, Typed, InEpts, OutEpts, Ctls, Stages

\* The same after a step.
LEMMA TypesPrime == TypeOK' <=> Typed'
  BY Types, PTL

\* What usbd_sdr.c and the class answer.
LEMMA AnswerType == \A r \in Requests : Answer(r) \in Answers
  <1> SUFFICES ASSUME NEW r \in Requests PROVE Answer(r) \in Answers
    OBVIOUS
  <1>1. r.n \in Nat /\ r.wlen \in Nat
    BY CtrlAssumption DEF Request
  <1>2. /\ Status \in Answers /\ Unsupport \in Answers /\ StallStatus \in Answers
        /\ Nothing \in Answers
        /\ \A k \in Nat : Send(k) \in Answers /\ Recv(k) \in Answers
    BY DEF Answers, Status, Unsupport, StallStatus, Nothing, Send, Recv
  <1>3. Descriptor(r) \in Answers
    BY <1>1, <1>2, MinOfNat DEF Descriptor
  <1>4. SetAddress(r) \in Answers /\ SetConfiguration(r) \in Answers /\ GetConfiguration(r) \in Answers
    BY <1>2 DEF SetAddress, SetConfiguration, GetConfiguration
  <1>5. InterfaceRequest(r) \in Answers
    BY <1>1, <1>2 DEF InterfaceRequest
  <1>6. EndpointRequest(r) \in Answers /\ ClearFeature(r) \in Answers
    BY <1>2 DEF EndpointRequest, ClearFeature
  <1>7. QED
    BY <1>2, <1>3, <1>4, <1>5, <1>6 DEF Answer

\* The connection state after a request is one of the states.
LEMMA NextStateType == \A r : conn_state \in States => NextState(r) \in States
  BY DEF NextState, States

\* usbd_ept_send and usb_write_empty_txfifo.
LEMMA EptTypes ==
  /\ \A e \in InEpts, n \in Nat : EptSend(e, n) \in InEpts
  /\ \A e \in InEpts : Stall(e) \in InEpts /\ WriteFifo(e) \in InEpts
  /\ \A e \in OutEpts : Stall(e) \in OutEpts /\ EptRecv(e) \in OutEpts
  <1>1. ASSUME NEW e \in InEpts, NEW n \in Nat
        PROVE  EptSend(e, n) \in InEpts
    <2>1. MinOf(n, MaxPacket) \in 0..MaxPacket
      BY CtrlAssumption, MinOfNat
    <2>2. Current \in BOOLEAN /\ 0 \in 0..MaxPacket
      BY CtrlAssumption DEF Current
    <2> HIDE DEF MinOf, Current
    <2>3. QED
      BY <2>1, <2>2, ZenonT(60) DEF EptSend, InEpts
  <1>2. ASSUME NEW e \in InEpts
        PROVE  Stall(e) \in InEpts /\ WriteFifo(e) \in InEpts
    BY DEF Stall, WriteFifo, InEpts
  <1>3. ASSUME NEW e \in OutEpts
        PROVE  Stall(e) \in OutEpts /\ EptRecv(e) \in OutEpts
    BY DEF Stall, EptRecv, OutEpts
  <1>4. QED
    BY <1>1, <1>2, <1>3

-----------------------------------------------------------------------------
(* What the handlers do.                                                   *)

\* in goes on with what it had.
SameIn == /\ in'.ena = in.ena /\ in'.nak = in.nak
          /\ in'.len = in.len /\ in'.own = in.own
\* A packet of n bytes is offered.
Offers(n) == /\ in'.ena /\ ~in'.nak
             /\ in'.len = MinOf(n, MaxPacket) /\ in'.own = Current

SameOut == out'.stall = out.stall /\ out'.xferc = out.xferc /\ out'.setup = out.setup

\* usbd_ept_send: the endpoint is offered a packet of at most MaxPacket bytes.
LEMMA SendFields ==
  ASSUME NEW e \in InEpts, NEW n \in Nat
  PROVE  LET f == EptSend(e, n)
         IN /\ f \in InEpts /\ f.ena /\ ~f.nak /\ f.len = MinOf(n, MaxPacket) /\ f.own = Current
            /\ f.xferc = e.xferc /\ f.stall = e.stall /\ ~f.written
            /\ f.fifo = (IF e.ena THEN 0 ELSE e.fifo)
            /\ f.len > 0 => f.emp
  <1>1. EptSend(e, n) \in InEpts
    BY EptTypes
  <1>2. MinOf(n, MaxPacket) \in Nat
    BY CtrlAssumption, MinOfNat
  <1>3. QED
    BY <1>1, <1>2, ZenonT(60) DEF EptSend, InEpts

\* usbd_inept_handler: nothing for endpoint 0, the next packet, the empty
\* packet, or the status stage.
LEMMA InEptEffect ==
  ASSUME TypeOK, PipeInv, InEpt
  PROVE  /\ "iept" \in pass /\ pass' = pass \ {"iept"}
         /\ in' \in InEpts /\ out' \in OutEpts /\ ctl' \in Ctls
         /\ ~in'.xferc /\ in'.stall = in.stall /\ SameOut
         /\ \/ /\ ~in.xferc \/ ctl.sts # "DATA_IN"
               /\ SameIn /\ out' = out /\ ctl' = ctl
            \/ /\ in.xferc /\ ctl.sts = "DATA_IN" /\ ctl.rem > MaxPacket
               /\ Offers(ctl.rem - MaxPacket) /\ out' = out
               /\ ctl' = [ctl EXCEPT !.rem = ctl.rem - MaxPacket,
                                     !.last = MinOf(ctl.rem - MaxPacket, MaxPacket)]
            \/ /\ in.xferc /\ ctl.sts = "DATA_IN" /\ ctl.rem <= MaxPacket /\ ZlpDue
               /\ Offers(0) /\ out'.armed /\ ctl' = [ctl EXCEPT !.last = 0]
            \/ /\ in.xferc /\ ctl.sts = "DATA_IN" /\ ctl.rem <= MaxPacket /\ ~ZlpDue
               /\ SameIn /\ out'.armed /\ ctl' = [ctl EXCEPT !.sts = "STATUS_OUT"]
         /\ PipeInv'
  <1> DEFINE e == [in EXCEPT !.xferc = FALSE, !.emp = FALSE]
             done == IF in.xferc THEN InDone(e) ELSE [in |-> in, out |-> out, ctl |-> ctl]
             rest == ctl.rem - MaxPacket
  <1>0. /\ in \in InEpts /\ out \in OutEpts /\ ctl \in Ctls /\ MaxPacket \in Nat \ {0}
    BY Types, CtrlAssumption DEF Typed
  <1>1. /\ "iept" \in pass /\ pass' = pass \ {"iept"} /\ rxfifo' = rxfifo
        /\ in' = IF Femp THEN WriteFifo(done.in) ELSE done.in
        /\ out' = done.out /\ ctl' = done.ctl
    BY ServingOrder DEF InEpt
  <1>2. e \in InEpts /\ e.ena = in.ena /\ e.nak = in.nak /\ e.len = in.len /\ e.own = in.own
        /\ e.stall = in.stall /\ ~e.xferc /\ ~e.emp /\ e.fifo = in.fifo /\ e.written = in.written
    BY <1>0 DEF InEpts
  <1>3. ASSUME NEW n \in Nat
        PROVE  LET f == EptSend(e, n)
               IN /\ f \in InEpts /\ f.ena /\ ~f.nak /\ f.len = MinOf(n, MaxPacket) /\ f.own = Current
                  /\ ~f.xferc /\ f.stall = in.stall /\ ~f.written /\ f.fifo = 0
                  /\ f.len > 0 => f.emp
    <2>1. ~in.ena => in.fifo = 0
      BY DEF PipeInv
    <2> HIDE DEF e
    <2>2. QED
      BY <1>2, <2>1, SendFields
  <1>4. ASSUME NEW f \in InEpts
        PROVE  LET w == WriteFifo(f)
               IN /\ w \in InEpts /\ w.ena = f.ena /\ w.nak = f.nak /\ w.len = f.len /\ w.own = f.own
                  /\ w.stall = f.stall /\ w.xferc = f.xferc
                  /\ IF f.len > 0 /\ ~f.written
                     THEN w.written /\ w.fifo = f.len
                     ELSE w.written = f.written /\ w.fifo = f.fifo
    BY EptTypes, ZenonT(60) DEF WriteFifo, InEpts
  <1>5. EptRecv(out) \in OutEpts /\ EptRecv(out).armed /\ EptRecv(out).stall = out.stall
        /\ EptRecv(out).xferc = out.xferc /\ EptRecv(out).setup = out.setup
    BY <1>0 DEF EptRecv, OutEpts
  <1> HIDE DEF e
  <1>6. CASE ~in.xferc \/ ctl.sts # "DATA_IN"
    <2>1. done.in = (IF in.xferc THEN e ELSE in) /\ done.out = out /\ done.ctl = ctl
      BY <1>6 DEF InDone
    <2>2. /\ done.in \in InEpts /\ done.in.ena = in.ena /\ done.in.nak = in.nak
          /\ done.in.len = in.len /\ done.in.own = in.own /\ done.in.stall = in.stall
          /\ ~done.in.xferc /\ done.in.fifo = in.fifo /\ done.in.written = in.written
          /\ done.in.emp = (~in.xferc /\ in.emp)
      BY <1>0, <1>2, <2>1 DEF InEpts
    <2> HIDE DEF done
    <2>3. /\ in' \in InEpts /\ ~in'.xferc /\ in'.stall = in.stall /\ SameIn
          /\ out' = out /\ ctl' = ctl /\ SameOut
      BY <1>1, <1>4, <2>1, <2>2 DEF SameIn, SameOut
    <2>4. PipeInv'
      <3>1. Current' = Current
        BY <1>1 DEF Current
      <3>2. CASE Femp
        <4>1. in' = WriteFifo(done.in) /\ in.fifo = 0 /\ in.emp
          BY <1>1, <3>2 DEF Femp
        <4>2. QED
          BY <1>0, <1>4, <2>2, <2>3, <3>1, <4>1 DEF PipeInv, SameIn, InEpts
      <3>3. CASE ~Femp
        <4>1. in' = done.in /\ (in.fifo # 0 \/ ~in.emp)
          BY <1>1, <3>3 DEF Femp
        <4>2. QED
          BY <1>0, <2>2, <2>3, <3>1, <4>1 DEF PipeInv, SameIn, InEpts
      <3>4. QED
        BY <3>2, <3>3
    <2>5. QED
      BY <1>0, <1>1, <1>6, <2>3, <2>4
  <1>7. ASSUME NEW n \in Nat, done.in = EptSend(e, n)
        PROVE  /\ in' \in InEpts /\ ~in'.xferc /\ in'.stall = in.stall /\ Offers(n) /\ PipeInv'
    <2> DEFINE f == EptSend(e, n)
    <2>1. /\ f \in InEpts /\ f.ena /\ ~f.nak /\ f.len = MinOf(n, MaxPacket) /\ f.own = Current
          /\ ~f.xferc /\ f.stall = in.stall /\ ~f.written /\ f.fifo = 0
          /\ f.len > 0 => f.emp
      BY <1>3
    <2>2. in' = IF Femp THEN WriteFifo(f) ELSE f
      BY <1>1, <1>7
    <2> HIDE DEF f, done
    <2>3. /\ in' \in InEpts /\ ~in'.xferc /\ in'.stall = in.stall /\ Offers(n)
      BY <1>4, <2>1, <2>2 DEF Offers
    <2>4. Current' = Current
      BY <1>1 DEF Current
    <2>5. PipeInv'
      BY <1>4, <2>1, <2>2, <2>3, <2>4 DEF PipeInv, Offers, InEpts
    <2>6. QED
      BY <2>3, <2>5
  <1>8. CASE in.xferc /\ ctl.sts = "DATA_IN" /\ ctl.rem > MaxPacket
    <2>1. done.in = EptSend(e, rest) /\ done.out = out
          /\ done.ctl = [ctl EXCEPT !.rem = rest, !.last = MinOf(rest, MaxPacket)]
      BY <1>0, <1>8 DEF InDone, Ctls
    <2>2. rest \in Nat /\ MinOf(rest, MaxPacket) \in 0..MaxPacket
      <3>1. ctl.rem \in Nat
        BY <1>0 DEF Ctls
      <3>2. rest \in Nat
        BY <1>0, <1>8, <3>1
      <3> HIDE DEF rest
      <3>3. QED
        BY <1>0, <3>2, MinOfNat
    <2>3. [ctl EXCEPT !.rem = rest, !.last = MinOf(rest, MaxPacket)] \in Ctls
      BY <1>0, <2>2 DEF Ctls
    <2>4. /\ in' \in InEpts /\ ~in'.xferc /\ in'.stall = in.stall /\ Offers(rest) /\ PipeInv'
      BY <1>7, <2>1, <2>2
    <2> HIDE DEF done, rest
    <2>5. QED
      BY <1>0, <1>1, <1>8, <2>1, <2>3, <2>4 DEF SameOut, rest
  <1>9. CASE in.xferc /\ ctl.sts = "DATA_IN" /\ ctl.rem <= MaxPacket /\ ZlpDue
    <2>1. done.in = EptSend(e, 0) /\ done.out = EptRecv(out)
          /\ done.ctl = [ctl EXCEPT !.last = 0]
      BY <1>0, <1>9 DEF InDone, Ctls
    <2>2. [ctl EXCEPT !.last = 0] \in Ctls
      BY <1>0 DEF Ctls
    <2>3. /\ in' \in InEpts /\ ~in'.xferc /\ in'.stall = in.stall /\ Offers(0) /\ PipeInv'
      BY <1>7, <2>1
    <2> HIDE DEF done
    <2>4. QED
      BY <1>0, <1>1, <1>5, <1>9, <2>1, <2>2, <2>3 DEF SameOut
  <1>10. CASE in.xferc /\ ctl.sts = "DATA_IN" /\ ctl.rem <= MaxPacket /\ ~ZlpDue
    <2>1. done.in = e /\ done.out = EptRecv(out)
          /\ done.ctl = [ctl EXCEPT !.sts = "STATUS_OUT"]
      BY <1>0, <1>10 DEF InDone, Ctls
    <2>2. [ctl EXCEPT !.sts = "STATUS_OUT"] \in Ctls
      BY <1>0 DEF Ctls
    <2> HIDE DEF done
    <2>3. /\ in' \in InEpts /\ ~in'.xferc /\ in'.stall = in.stall /\ SameIn
      BY <1>1, <1>2, <1>4, <2>1 DEF SameIn
    <2>4. Current' = Current
      BY <1>1 DEF Current
    <2>5. PipeInv'
      <3>1. CASE Femp
        <4>1. in' = WriteFifo(e) /\ in.fifo = 0 /\ in.emp
          BY <1>1, <2>1, <3>1 DEF Femp
        <4>2. QED
          BY <1>0, <1>2, <1>4, <2>3, <2>4, <4>1 DEF PipeInv, SameIn, InEpts
      <3>2. CASE ~Femp
        <4>1. in' = e /\ (in.fifo # 0 \/ ~in.emp)
          BY <1>1, <2>1, <3>2 DEF Femp
        <4>2. QED
          BY <1>0, <1>2, <2>3, <2>4, <4>1 DEF PipeInv, SameIn, InEpts
      <3>3. QED
        BY <3>1, <3>2
    <2>6. QED
      BY <1>0, <1>1, <1>5, <1>10, <2>1, <2>2, <2>3, <2>5 DEF SameOut
  <1>11. QED
    BY <1>0, <1>6, <1>8, <1>9, <1>10 DEF Ctls

\* An endpoint that offers a packet by usbd_ept_send alone.
LEMMA SendPipe ==
  ASSUME TypeOK, PipeInv, NEW e \in InEpts, NEW n \in Nat, in' = EptSend(e, n),
         e.ena = in.ena, e.fifo = in.fifo, e.xferc = in.xferc, rxfifo' = rxfifo
  PROVE  /\ in' \in InEpts /\ Offers(n) /\ in'.xferc = in.xferc /\ in'.stall = e.stall
         /\ PipeInv'
  <1> DEFINE f == EptSend(e, n)
  <1>1. /\ f \in InEpts /\ f.ena /\ ~f.nak /\ f.len = MinOf(n, MaxPacket) /\ f.own = Current
        /\ f.xferc = e.xferc /\ f.stall = e.stall /\ ~f.written
        /\ f.fifo = (IF e.ena THEN 0 ELSE e.fifo)
        /\ f.len > 0 => f.emp
    BY SendFields
  <1> HIDE DEF f
  <1>2. in' = f /\ Current' = Current
    BY DEF f, Current
  <1>3. f.fifo = 0
    BY <1>1 DEF PipeInv
  <1>4. QED
    BY <1>1, <1>2, <1>3 DEF PipeInv, Offers

\* A step that leaves endpoint and receive FIFO alone.
LEMMA SamePipe ==
  ASSUME PipeInv, in' = in, rxfifo' = rxfifo
  PROVE  PipeInv'
  BY DEF PipeInv, Current

\* usbd_outept_handler, completion.
LEMMA OutDoneEffect ==
  ASSUME TypeOK, IrqInv, PipeInv, OutDone
  PROVE  /\ "oept" \in pass /\ "iept" \notin pass /\ pass' = pass \ {"oept"}
         /\ out.xferc /\ ~out.setup
         /\ in' \in InEpts /\ out' \in OutEpts /\ ctl' \in Ctls
         /\ in'.xferc = in.xferc /\ in'.stall = in.stall
         /\ ~out'.xferc /\ ~out'.setup /\ out'.stall = out.stall
         /\ \/ /\ ctl.sts # "DATA_OUT"
               /\ in' = in /\ ctl' = ctl /\ out'.armed = out.armed
            \/ /\ ctl.sts = "DATA_OUT" /\ ctl.orem > MaxPacket
               /\ in' = in /\ out'.armed
               /\ ctl' = [ctl EXCEPT !.orem = ctl.orem - MaxPacket]
            \/ /\ ctl.sts = "DATA_OUT" /\ ctl.orem <= MaxPacket
               /\ Offers(0) /\ out'.armed = out.armed
               /\ ctl' = [ctl EXCEPT !.sts = "STATUS_IN"]
         /\ PipeInv'
  <1> DEFINE e == [out EXCEPT !.xferc = FALSE]
  <1>0. /\ in \in InEpts /\ out \in OutEpts /\ ctl \in Ctls /\ MaxPacket \in Nat \ {0}
    BY Types, CtrlAssumption DEF Typed
  <1>1. out.xferc /\ ~out.setup
    BY DEF OutDone, IrqInv
  <1>2. /\ "oept" \in pass /\ "iept" \notin pass /\ pass' = pass \ {"oept"}
        /\ rxfifo' = rxfifo
    BY <1>1, ServingOrder DEF OutDone
  <1>3. /\ e \in OutEpts /\ ~e.xferc /\ ~e.setup /\ e.stall = out.stall /\ e.armed = out.armed
        /\ EptRecv(e) \in OutEpts /\ ~EptRecv(e).xferc /\ ~EptRecv(e).setup
        /\ EptRecv(e).stall = out.stall /\ EptRecv(e).armed
    BY <1>0, <1>1 DEF OutEpts, EptRecv
  <1>4. CASE ctl.sts # "DATA_OUT"
    <2>1. in' = in /\ ctl' = ctl /\ out' = e
      BY <1>4 DEF OutDone
    <2>2. PipeInv'
      BY <1>2, <2>1, SamePipe
    <2> HIDE DEF e
    <2>3. QED
      BY <1>0, <1>1, <1>2, <1>3, <1>4, <2>1, <2>2
  <1>5. CASE ctl.sts = "DATA_OUT" /\ ctl.orem > MaxPacket
    <2>1. in' = in /\ ctl' = [ctl EXCEPT !.orem = ctl.orem - MaxPacket] /\ out' = EptRecv(e)
      BY <1>0, <1>5 DEF OutDone, Ctls
    <2>2. PipeInv'
      BY <1>2, <2>1, SamePipe
    <2>3. ctl' \in Ctls
      BY <1>0, <1>5, <2>1 DEF Ctls
    <2> HIDE DEF e
    <2>4. QED
      BY <1>0, <1>1, <1>2, <1>3, <1>5, <2>1, <2>2, <2>3
  <1>6. CASE ctl.sts = "DATA_OUT" /\ ctl.orem <= MaxPacket
    <2>1. in' = EptSend(in, 0) /\ ctl' = [ctl EXCEPT !.sts = "STATUS_IN"] /\ out' = e
      BY <1>0, <1>6 DEF OutDone, Ctls
    <2>2. /\ in' \in InEpts /\ Offers(0) /\ in'.xferc = in.xferc /\ in'.stall = in.stall
          /\ PipeInv'
      BY <1>0, <1>2, <2>1, SendPipe
    <2>3. ctl' \in Ctls
      BY <1>0, <2>1 DEF Ctls
    <2> HIDE DEF e
    <2>4. QED
      BY <1>0, <1>1, <1>2, <1>3, <1>6, <2>1, <2>2, <2>3
  <1>7. QED
    BY <1>0, <1>4, <1>5, <1>6 DEF Ctls

\* usbd_core_setup_handler, by what the request handlers answer.
LEMMA SetupEffect ==
  ASSUME TypeOK, IrqInv, PipeInv, SetupDone
  PROVE  LET ans == Answer(setup)
         IN /\ "oept" \in pass /\ "iept" \notin pass /\ pass' = pass \ {"oept"}
            /\ out.setup /\ ~out.xferc /\ setup \in Requests /\ ans \in Answers
            /\ in' \in InEpts /\ out' \in OutEpts /\ ctl' \in Ctls
            /\ in'.xferc = in.xferc /\ ~out'.xferc /\ ~out'.setup
            /\ ctl'.wlen = setup.wlen /\ mute' = (ans.a = "nothing")
            /\ IF ans.a \in {"stall", "stall_status"}
               THEN in'.stall /\ out'.stall /\ ctl'.sts \in {"SETUP", "STATUS_IN"}
               ELSE in'.stall = in.stall /\ out'.stall = out.stall
            /\ ans.a = "send" =>
                 /\ Offers(ans.n) /\ ctl'.sts = "DATA_IN"
                 /\ ctl'.slen = ans.n /\ ctl'.rem = ans.n
                 /\ ans.n > 0 => ctl'.last = MinOf(ans.n, MaxPacket)
            /\ ans.a = "recv" =>
                 in' = in /\ out'.armed /\ ctl'.sts = "DATA_OUT" /\ ctl'.orem = ans.n
            /\ ans.a = "status" => Offers(0) /\ ctl'.sts = "STATUS_IN"
            /\ ans.a = "nothing" => in' = in /\ ctl'.sts = "SETUP"
            /\ PipeInv'
  <1> DEFINE ans == Answer(setup)
             o == [out EXCEPT !.setup = FALSE]
             c == [sts |-> "SETUP", rem |-> 0, last |-> ctl.last, slen |-> 0,
                   wlen |-> setup.wlen, orem |-> 0]
  <1>0. /\ in \in InEpts /\ out \in OutEpts /\ ctl \in Ctls /\ MaxPacket \in Nat \ {0}
    BY Types, CtrlAssumption DEF Typed
  <1>1. out.setup /\ ~out.xferc /\ setup \in Requests
    BY Types DEF Typed, SetupDone, IrqInv
  <1>2. /\ "oept" \in pass /\ "iept" \notin pass /\ pass' = pass \ {"oept"}
        /\ rxfifo' = rxfifo
    BY <1>1, ServingOrder DEF SetupDone
  <1>3. ans \in Answers /\ setup.wlen \in Nat
    BY <1>1, AnswerType, CtrlAssumption DEF Request
  <1>4. /\ ans.a \in {"send", "recv", "status", "stall", "stall_status", "nothing"} /\ ans.n \in Nat
        /\ ans.a \notin {"send", "recv"} => ans.n = 0
        /\ ans = Nothing <=> ans.a = "nothing"
    BY <1>3 DEF Answers, Nothing
  <1>5. /\ o \in OutEpts /\ ~o.xferc /\ ~o.setup /\ o.stall = out.stall /\ o.armed = out.armed
        /\ EptRecv(o) \in OutEpts /\ ~EptRecv(o).xferc /\ ~EptRecv(o).setup
        /\ EptRecv(o).stall = out.stall /\ EptRecv(o).armed
        /\ Stall(o) \in OutEpts /\ ~Stall(o).xferc /\ ~Stall(o).setup /\ Stall(o).stall
    BY <1>0, <1>1 DEF OutEpts, EptRecv, Stall
  <1>6. c \in Ctls
    BY <1>0, <1>3 DEF Ctls
  <1>7. mute' = (ans.a = "nothing")
    BY <1>4 DEF SetupDone
  <1>8. /\ Stall(in) \in InEpts /\ Stall(in).stall /\ Stall(in).ena = in.ena /\ Stall(in).fifo = in.fifo
        /\ Stall(in).xferc = in.xferc /\ Stall(in).len = in.len /\ Stall(in).nak = in.nak
        /\ Stall(in).written = in.written /\ Stall(in).emp = in.emp /\ Stall(in).own = in.own
    BY <1>0 DEF Stall, InEpts
  <1>9. /\ in' = CASE ans.a \in {"send", "status"} -> EptSend(in, ans.n)
                   [] ans.a = "stall"        -> Stall(in)
                   [] ans.a = "stall_status" -> EptSend(Stall(in), 0)
                   [] OTHER -> in
        /\ out' = CASE ans.a = "recv" -> EptRecv(o)
                    [] ans.a \in {"stall", "stall_status"} -> Stall(o)
                    [] OTHER -> o
        /\ ctl' = CASE ans.a = "send" ->
                         [c EXCEPT !.sts = "DATA_IN", !.slen = ans.n, !.rem = ans.n,
                                   !.last = IF ans.n = 0 THEN @
                                            ELSE MinOf(ans.n, MaxPacket)]
                    [] ans.a = "recv" -> [c EXCEPT !.sts = "DATA_OUT", !.orem = ans.n]
                    [] ans.a \in {"status", "stall_status"} ->
                         [c EXCEPT !.sts = "STATUS_IN"]
                    [] OTHER -> c
    BY DEF SetupDone
  <1>10. /\ c.sts = "SETUP" /\ c.wlen = setup.wlen
    OBVIOUS
  <1> HIDE DEF ans, o, c
  <1>11. CASE ans.a = "send"
    <2>1. in' = EptSend(in, ans.n) /\ out' = o
      BY <1>9, <1>11
    <2> DEFINE l == IF ans.n = 0 THEN ctl.last ELSE MinOf(ans.n, MaxPacket)
    <2>2. ctl' = [sts |-> "DATA_IN", rem |-> ans.n, last |-> l, slen |-> ans.n,
                  wlen |-> setup.wlen, orem |-> 0]
      BY <1>9, <1>11 DEF c
    <2>3. l \in 0..MaxPacket /\ (ans.n > 0 => l = MinOf(ans.n, MaxPacket))
      <3>1. ctl.last \in 0..MaxPacket
        BY <1>0 DEF Ctls
      <3>2. MinOf(ans.n, MaxPacket) \in 0..MaxPacket
        BY <1>0, <1>4, MinOfNat
      <3>3. QED
        BY <1>4, <3>1, <3>2
    <2> HIDE DEF l
    <2>4. /\ ctl' \in Ctls /\ ctl'.sts = "DATA_IN" /\ ctl'.slen = ans.n /\ ctl'.rem = ans.n
          /\ ans.n > 0 => ctl'.last = MinOf(ans.n, MaxPacket)
          /\ ctl'.wlen = c.wlen
      BY <1>3, <1>4, <1>10, <2>2, <2>3 DEF Ctls
    <2>5. /\ in' \in InEpts /\ Offers(ans.n) /\ in'.xferc = in.xferc /\ in'.stall = in.stall
          /\ PipeInv'
      BY <1>0, <1>2, <1>4, <2>1, SendPipe
    <2>6. QED
      BY <1>1, <1>2, <1>3, <1>5, <1>7, <1>10, <1>11, <2>1, <2>4, <2>5 DEF ans
  <1>12. CASE ans.a = "recv"
    <2>1. in' = in /\ out' = EptRecv(o) /\ ctl' = [c EXCEPT !.sts = "DATA_OUT", !.orem = ans.n]
      BY <1>9, <1>12
    <2>2. ctl' \in Ctls /\ ctl'.sts = "DATA_OUT" /\ ctl'.orem = ans.n /\ ctl'.wlen = c.wlen
      BY <1>4, <1>6, <2>1 DEF Ctls
    <2>3. PipeInv'
      BY <1>2, <2>1, SamePipe
    <2>4. QED
      BY <1>0, <1>1, <1>2, <1>3, <1>5, <1>7, <1>10, <1>12, <2>1, <2>2, <2>3 DEF ans
  <1>13. CASE ans.a = "status"
    <2>1. in' = EptSend(in, 0) /\ out' = o /\ ctl' = [c EXCEPT !.sts = "STATUS_IN"]
      BY <1>4, <1>9, <1>13
    <2>2. ctl' \in Ctls /\ ctl'.sts = "STATUS_IN" /\ ctl'.wlen = c.wlen
      BY <1>6, <2>1 DEF Ctls
    <2>3. /\ in' \in InEpts /\ Offers(0) /\ in'.xferc = in.xferc /\ in'.stall = in.stall
          /\ PipeInv'
      BY <1>0, <1>2, <2>1, SendPipe
    <2>4. QED
      BY <1>1, <1>2, <1>3, <1>5, <1>7, <1>10, <1>13, <2>1, <2>2, <2>3 DEF ans
  <1>14. CASE ans.a = "stall"
    <2>1. in' = Stall(in) /\ out' = Stall(o) /\ ctl' = c
      BY <1>9, <1>14
    <2>2. Current' = Current
      BY <1>2 DEF Current
    <2>3. PipeInv'
      BY <1>8, <2>1, <2>2 DEF PipeInv
    <2>4. QED
      BY <1>1, <1>2, <1>3, <1>5, <1>6, <1>7, <1>8, <1>10, <1>14, <2>1, <2>3 DEF ans
  <1>15. CASE ans.a = "stall_status"
    <2>1. in' = EptSend(Stall(in), 0) /\ out' = Stall(o) /\ ctl' = [c EXCEPT !.sts = "STATUS_IN"]
      BY <1>9, <1>15
    <2>2. ctl' \in Ctls /\ ctl'.sts = "STATUS_IN" /\ ctl'.wlen = c.wlen
      BY <1>6, <2>1 DEF Ctls
    <2>3. /\ in' \in InEpts /\ in'.xferc = in.xferc /\ in'.stall /\ PipeInv'
      BY <1>2, <1>8, <2>1, SendPipe
    <2>4. QED
      BY <1>1, <1>2, <1>3, <1>5, <1>7, <1>10, <1>15, <2>1, <2>2, <2>3 DEF ans
  <1>16. CASE ans.a = "nothing"
    <2>1. in' = in /\ out' = o /\ ctl' = c
      BY <1>9, <1>16
    <2>2. PipeInv'
      BY <1>2, <2>1, SamePipe
    <2>3. QED
      BY <1>0, <1>1, <1>2, <1>3, <1>5, <1>6, <1>7, <1>10, <1>16, <2>1, <2>2 DEF ans
  <1>17. QED
    BY <1>4, <1>11, <1>12, <1>13, <1>14, <1>15, <1>16

\* The receive FIFO, written at its end and read at its head.
LEMMA FifoAppend ==
  ASSUME NEW S, NEW s \in Seq(S), NEW x \in S
  PROVE  /\ Append(s, x) \in Seq(S) /\ Len(Append(s, x)) = Len(s) + 1
         /\ \A i \in 1..Len(s) : Append(s, x)[i] = s[i]
         /\ Append(s, x)[Len(s) + 1] = x
         /\ Append(s, x) # <<>>
  BY AppendProperties

\* A sequence without its head.
LEMMA FifoTail ==
  ASSUME NEW S, NEW s \in Seq(S), s # <<>>
  PROVE  /\ Tail(s) \in Seq(S) /\ Len(Tail(s)) = Len(s) - 1 /\ Len(s) \in Nat /\ Len(s) > 0
         /\ \A i \in 1..(Len(s) - 1) : Tail(s)[i] = s[i + 1]
         /\ Head(s) = s[1] /\ Head(s) \in S
  BY HeadTailProperties, EmptySeq

\* usbd_rxflvl_handler: the head of the FIFO is a SETUP or a packet.
LEMMA RxFlvlEffect ==
  ASSUME TypeOK, IrqInv, RxFlvl
  PROVE  /\ "rxflvl" \in pass /\ pass' = pass \ {"rxflvl"}
         /\ {"iept", "oept", "rst", "enumdone"} \cap pass = {}
         /\ rxfifo # <<>> /\ ~out.xferc /\ ~out.setup /\ rxfifo' = Tail(rxfifo)
         /\ rxfifo' \in Seq(Requests \cup {NoReq})
         /\ out' \in OutEpts /\ out'.armed = out.armed /\ out'.stall = out.stall
         /\ \/ /\ Head(rxfifo) # NoReq /\ setup' = Head(rxfifo) /\ setup' \in Requests
               /\ out'.setup /\ ~out'.xferc
            \/ /\ Head(rxfifo) = NoReq /\ setup' = setup
               /\ ~out'.setup /\ out'.xferc
         /\ Current => Current'
  <1>1. out \in OutEpts /\ rxfifo \in Seq(Requests \cup {NoReq})
    BY Types DEF Typed
  <1>2. /\ "rxflvl" \in pass /\ pass' = pass \ {"rxflvl"} /\ rxfifo' = Tail(rxfifo)
        /\ {"iept", "oept", "rst", "enumdone"} \cap pass = {}
    BY ServingOrder DEF RxFlvl
  <1>3. rxfifo # <<>> /\ ~out.xferc /\ ~out.setup
    BY <1>2 DEF IrqInv
  <1>4. rxfifo' \in Seq(Requests \cup {NoReq}) /\ Head(rxfifo) \in Requests \cup {NoReq}
    BY <1>1, <1>2, <1>3, FifoTail
  <1>5. Current => Current'
    BY <1>1, <1>2, <1>3, <1>4, FifoTail, LenProperties DEF Current
  <1>6. CASE Head(rxfifo) # NoReq
    <2>1. setup' = Head(rxfifo) /\ out' = [out EXCEPT !.setup = TRUE]
      BY <1>6 DEF RxFlvl
    <2>2. QED
      BY <1>1, <1>2, <1>3, <1>4, <1>5, <1>6, <2>1 DEF OutEpts
  <1>7. CASE Head(rxfifo) = NoReq
    <2>1. setup' = setup /\ out' = [out EXCEPT !.xferc = TRUE]
      BY <1>7 DEF RxFlvl
    <2>2. QED
      BY <1>1, <1>2, <1>3, <1>4, <1>5, <1>7, <2>1 DEF OutEpts
  <1>8. QED
    BY <1>6, <1>7

\* usbd_reset_handler.
LEMMA ResetEffect ==
  ASSUME TypeOK, Reset
  PROVE  /\ "rst" \in pass /\ pass' = pass \ {"rst"} /\ flags' = flags \ {"rst"}
         /\ {"iept", "oept"} \cap pass = {}
         /\ in' \in InEpts /\ in'.ena = in.ena /\ in'.nak /\ in'.len = in.len
         /\ in'.written = in.written /\ in'.own = in.own
         /\ in'.fifo = 0 /\ ~in'.xferc /\ ~in'.stall
         /\ out' \in OutEpts /\ ~out'.armed /\ ~out'.stall /\ ~out'.xferc /\ ~out'.setup
  <1>1. in \in InEpts /\ MaxPacket \in Nat /\ 0 \in 0..MaxPacket
    BY Types, CtrlAssumption DEF Typed
  <1>2. /\ in' = [in EXCEPT !.fifo = 0, !.xferc = FALSE, !.stall = FALSE, !.nak = TRUE]
        /\ out' = [armed |-> FALSE, stall |-> FALSE, xferc |-> FALSE, setup |-> FALSE]
    BY DEF Reset
  <1>3. /\ in' \in InEpts /\ in'.ena = in.ena /\ in'.nak /\ in'.len = in.len
        /\ in'.written = in.written /\ in'.own = in.own
        /\ in'.fifo = 0 /\ ~in'.xferc /\ ~in'.stall
    BY <1>1, <1>2 DEF InEpts
  <1>4. out' \in OutEpts /\ ~out'.armed /\ ~out'.stall /\ ~out'.xferc /\ ~out'.setup
    BY <1>2 DEF OutEpts
  <1>5. QED
    BY <1>3, <1>4, ServingOrder DEF Reset

\* A packet leaves endpoint 0.
LEMMA TakeEffect ==
  ASSUME TypeOK, TakePacket
  PROVE  /\ in' \in InEpts /\ ~in'.ena /\ in'.nak = in.nak /\ in'.len = in.len
         /\ in'.written = in.written /\ in'.own = in.own
         /\ in'.fifo = 0 /\ in'.xferc /\ in'.stall = in.stall
  <1>1. in \in InEpts /\ MaxPacket \in Nat /\ 0 \in 0..MaxPacket
    BY Types, CtrlAssumption DEF Typed
  <1>2. in' = [in EXCEPT !.ena = FALSE, !.xferc = TRUE, !.fifo = 0]
    BY DEF TakePacket
  <1>3. QED
    BY <1>1, <1>2 DEF InEpts

\* The core takes a SETUP.
LEMMA HostSetupEffect ==
  ASSUME TypeOK, NEW r \in Requests, HostSetup(r)
  PROVE  /\ rxfifo' = Append(rxfifo, r) /\ rxfifo' \in Seq(Requests \cup {NoReq}) /\ r # NoReq
         /\ in' \in InEpts /\ in'.ena = in.ena /\ in'.nak /\ in'.len = in.len
         /\ in'.written = in.written /\ ~in'.own /\ in'.emp = in.emp
         /\ in'.fifo = in.fifo /\ in'.xferc = in.xferc /\ ~in'.stall
         /\ out' \in OutEpts /\ ~out'.armed /\ ~out'.stall
         /\ out'.xferc = out.xferc /\ out'.setup = out.setup
         /\ ~Current'
         /\ r.n \in Nat /\ r.wlen \in Nat /\ FirstStage(r) \in {"in", "out", "status_in"}
  <1>1. in \in InEpts /\ out \in OutEpts /\ rxfifo \in Seq(Requests \cup {NoReq})
    BY Types DEF Typed
  <1>2. /\ rxfifo' = Append(rxfifo, r)
        /\ in' = [in EXCEPT !.nak = TRUE, !.stall = FALSE, !.own = FALSE]
        /\ out' = [out EXCEPT !.armed = FALSE, !.stall = FALSE]
    BY DEF HostSetup
  <1>3. r # NoReq /\ r.n \in Nat /\ r.wlen \in Nat
    BY CtrlAssumption DEF Request
  <1>4. rxfifo' \in Seq(Requests \cup {NoReq}) /\ Len(rxfifo') = Len(rxfifo) + 1 /\ Len(rxfifo) \in Nat
        /\ rxfifo'[Len(rxfifo) + 1] = r
    BY <1>1, <1>2, FifoAppend, LenProperties
  <1>5. ~Current'
    BY <1>3, <1>4 DEF Current
  <1>6. /\ in' \in InEpts /\ in'.ena = in.ena /\ in'.nak /\ in'.len = in.len
        /\ in'.written = in.written /\ ~in'.own /\ in'.emp = in.emp
        /\ in'.fifo = in.fifo /\ in'.xferc = in.xferc /\ ~in'.stall
    BY <1>1, <1>2 DEF InEpts
  <1>7. /\ out' \in OutEpts /\ ~out'.armed /\ ~out'.stall
        /\ out'.xferc = out.xferc /\ out'.setup = out.setup
    BY <1>1, <1>2 DEF OutEpts
  <1>8. FirstStage(r) \in {"in", "out", "status_in"}
    BY DEF FirstStage
  <1>9. QED
    BY <1>2, <1>3, <1>4, <1>5, <1>6, <1>7, <1>8

\* The host sends a packet.
LEMMA OutEffect ==
  ASSUME TypeOK, HostOut \/ HostStatusOut
  PROVE  /\ rxfifo' = Append(rxfifo, NoReq) /\ rxfifo' \in Seq(Requests \cup {NoReq})
         /\ out.armed /\ ~out.stall
         /\ out' \in OutEpts /\ ~out'.armed /\ ~out'.stall
         /\ out'.xferc = out.xferc /\ out'.setup = out.setup
         /\ Current' = Current
  <1>1. out \in OutEpts /\ rxfifo \in Seq(Requests \cup {NoReq})
    BY Types DEF Typed
  <1>2. /\ rxfifo' = Append(rxfifo, NoReq) /\ out.armed /\ ~out.stall
        /\ out' = [out EXCEPT !.armed = FALSE]
    BY DEF HostOut, HostStatusOut, OutReady
  <1>3. /\ rxfifo' \in Seq(Requests \cup {NoReq}) /\ Len(rxfifo') = Len(rxfifo) + 1 /\ Len(rxfifo) \in Nat
        /\ rxfifo'[Len(rxfifo) + 1] = NoReq /\ \A i \in 1..Len(rxfifo) : rxfifo'[i] = rxfifo[i]
    BY <1>1, <1>2, FifoAppend, LenProperties
  <1>4. Current' = Current
    <2>1. DOMAIN rxfifo = 1..Len(rxfifo) /\ DOMAIN rxfifo' = 1..Len(rxfifo')
      BY <1>1, <1>3, LenProperties
    <2>2. QED
      BY <1>3, <2>1 DEF Current
  <1>5. /\ out' \in OutEpts /\ ~out'.armed /\ ~out'.stall
        /\ out'.xferc = out.xferc /\ out'.setup = out.setup
    BY <1>1, <1>2 DEF OutEpts
  <1>6. QED
    BY <1>2, <1>3, <1>4, <1>5

\* The steps keep the types, the snapshot and the packet in the FIFO.
LEMMA StepIInv == IInv /\ [Next]_vars => IInv'
  <1> SUFFICES ASSUME IInv, [Next]_vars PROVE IInv'
    OBVIOUS
  <1> USE CtrlAssumption
  <1>0. TypeOK /\ Typed /\ IrqInv /\ PipeInv
    BY Types DEF IInv
  <1>1. CASE IrqEnter
    <2>1. Typed'
      BY <1>0, <1>1 DEF Typed, IrqEnter, Pending, Flags, dev, host, view, hist
    <2>2. IrqInv'
      BY <1>0, <1>1 DEF IrqInv, Typed, Waiting, Flags, IrqEnter, Pending, dev, host, view, hist
    <2>3. PipeInv'
      BY <1>0, <1>1, SamePipe DEF IrqEnter
    <2>4. QED
      BY <2>1, <2>2, <2>3, TypesPrime DEF IInv
  <1>2. CASE InEpt
    <2>1. Typed'
      BY <1>0, <1>2, InEptEffect DEF Typed, InEpt, SameOut, dev, host, view, hist
    <2>2. IrqInv'
      BY <1>0, <1>2, InEptEffect DEF IrqInv, Typed, Waiting, Flags, InEpt, SameOut, dev, host, view, hist
    <2>3. PipeInv'
      BY <1>0, <1>2, InEptEffect
    <2>4. QED
      BY <2>1, <2>2, <2>3, TypesPrime DEF IInv
  <1>3. CASE OutDone
    <2>1. Typed'
      BY <1>0, <1>3, OutDoneEffect DEF Typed, OutDone, dev, host, view, hist
    <2>2. IrqInv'
      BY <1>0, <1>3, OutDoneEffect DEF IrqInv, Typed, Waiting, Flags, OutDone, dev, host, view, hist
    <2>3. PipeInv'
      BY <1>0, <1>3, OutDoneEffect
    <2>4. QED
      BY <2>1, <2>2, <2>3, TypesPrime DEF IInv
  <1>4. CASE SetupDone
    <2>0. setup \in Requests /\ setup.n \in Nat
      BY <1>0, <1>4, SetupEffect DEF Request
    <2>1. Typed'
      BY <1>0, <1>4, <2>0, SetupEffect, NextStateType DEF Typed, SetupDone, dev, host, view, hist
    <2>2. IrqInv'
      BY <1>0, <1>4, SetupEffect, NextStateType DEF IrqInv, Typed, Waiting, Flags, SetupDone, dev, host, view, hist
    <2>3. PipeInv'
      BY <1>0, <1>4, SetupEffect
    <2>4. QED
      BY <2>1, <2>2, <2>3, TypesPrime DEF IInv
  <1>5. CASE Reset
    <2>1. Typed'
      BY <1>0, <1>5, ResetEffect DEF Typed, Reset, States, dev, host, view, hist
    <2>2. IrqInv'
      BY <1>0, <1>5, ResetEffect DEF IrqInv, Typed, Waiting, Flags, Reset, States, dev, host, view, hist
    <2>3. PipeInv'
      BY <1>0, <1>5, ResetEffect DEF PipeInv, Current, Reset
    <2>4. QED
      BY <2>1, <2>2, <2>3, TypesPrime DEF IInv
  <1>6. CASE EnumDone
    <2>1. Typed'
      BY <1>0, <1>6, ServingOrder DEF Typed, EnumDone, States, dev, host, view, hist
    <2>2. IrqInv'
      BY <1>0, <1>6, ServingOrder DEF IrqInv, Typed, Waiting, Flags, EnumDone, States, dev, host, view, hist
    <2>3. PipeInv'
      BY <1>0, <1>6, SamePipe DEF EnumDone
    <2>4. QED
      BY <2>1, <2>2, <2>3, TypesPrime DEF IInv
  <1>7. CASE RxFlvl
    <2>1. Typed'
      BY <1>0, <1>7, RxFlvlEffect DEF Typed, RxFlvl, dev, host, view, hist
    <2>2. IrqInv'
      BY <1>0, <1>7, RxFlvlEffect DEF IrqInv, Typed, Waiting, Flags, RxFlvl, dev, host, view, hist
    <2>3. PipeInv'
      BY <1>0, <1>7, RxFlvlEffect DEF PipeInv, RxFlvl
    <2>4. QED
      BY <2>1, <2>2, <2>3, TypesPrime DEF IInv
  <1>8. CASE Wakeup
    <2>1. Typed'
      BY <1>0, <1>8, ServingOrder DEF Typed, Wakeup, dev, host, view, hist
    <2>2. IrqInv'
      BY <1>0, <1>8, ServingOrder DEF IrqInv, Typed, Waiting, Flags, Wakeup, dev, host, view, hist
    <2>3. PipeInv'
      BY <1>0, <1>8, SamePipe DEF Wakeup
    <2>4. QED
      BY <2>1, <2>2, <2>3, TypesPrime DEF IInv
  <1>9. CASE Suspend
    <2>1. Typed'
      BY <1>0, <1>9, ServingOrder DEF Typed, Suspend, States, dev, host, view, hist
    <2>2. IrqInv'
      BY <1>0, <1>9, ServingOrder DEF IrqInv, Typed, Waiting, Flags, Suspend, States, dev, host, view, hist
    <2>3. PipeInv'
      BY <1>0, <1>9, SamePipe DEF Suspend
    <2>4. QED
      BY <2>1, <2>2, <2>3, TypesPrime DEF IInv
  <1>10. ASSUME NEW r \in Requests, HostSetup(r) PROVE IInv'
    <2>1. Typed'
      BY <1>0, <1>10, HostSetupEffect DEF Typed, HostSetup, Stages, dev, view
    <2>2. IrqInv'
      BY <1>0, <1>10, HostSetupEffect, FifoAppend DEF IrqInv, Typed, Waiting, Flags, HostSetup, dev, view
    <2>3. PipeInv'
      BY <1>0, <1>10, HostSetupEffect DEF PipeInv
    <2>4. QED
      BY <2>1, <2>2, <2>3, TypesPrime DEF IInv
  <1>11. CASE HostIn
    <2>0. /\ got + in.len \in Nat /\ in.len \in Nat /\ in.own \in BOOLEAN
          /\ TakePacket /\ hreq \in Requests /\ hreq.n \in Nat
      <3>1. hreq \in Requests /\ TakePacket
        BY <1>0, <1>11 DEF HostIn, Typed, IrqInv, Waiting
      <3>2. hreq.n \in Nat
        BY <3>1 DEF Request
      <3>3. got \in Nat /\ in.len \in Nat /\ in.own \in BOOLEAN
        BY <1>0 DEF Typed, InEpts
      <3>4. QED
        BY <3>1, <3>2, <3>3
    <2>1. Typed'
      BY <1>0, <1>11, <2>0, TakeEffect DEF Typed, HostIn, Stages, dev, host, view, hist
    <2>2. IrqInv'
      BY <1>0, <1>11, TakeEffect DEF IrqInv, Typed, Waiting, Flags, HostIn, Stages, dev, host, view, hist
    <2>3. PipeInv'
      BY <1>0, <1>11, <2>0, TakeEffect DEF HostIn, PipeInv, Current, TakePacket, InReady
    <2>4. QED
      BY <2>1, <2>2, <2>3, TypesPrime DEF IInv
  <1>12. CASE HostStatusIn
    <2>0. /\ got + in.len \in Nat /\ in.len \in Nat /\ in.own \in BOOLEAN
          /\ TakePacket /\ hreq \in Requests /\ hreq.n \in Nat
      <3>1. hreq \in Requests /\ TakePacket
        BY <1>0, <1>12 DEF HostStatusIn, Typed, IrqInv, Waiting
      <3>2. hreq.n \in Nat
        BY <3>1 DEF Request
      <3>3. got \in Nat /\ in.len \in Nat /\ in.own \in BOOLEAN
        BY <1>0 DEF Typed, InEpts
      <3>4. QED
        BY <3>1, <3>2, <3>3
    <2>1. Typed'
      BY <1>0, <1>12, <2>0, TakeEffect DEF Typed, HostStatusIn, Stages, States, dev, host, view, hist
    <2>2. IrqInv'
      BY <1>0, <1>12, TakeEffect DEF IrqInv, Typed, Waiting, Flags, HostStatusIn, Stages, States, dev, host, view, hist
    <2>3. PipeInv'
      BY <1>0, <1>12, <2>0, TakeEffect DEF HostStatusIn, PipeInv, Current, TakePacket, InReady
    <2>4. QED
      BY <2>1, <2>2, <2>3, TypesPrime DEF IInv
  <1>13. CASE HostOut
    <2>0. got' \in Nat
      <3>1. hreq \in Requests /\ hreq.wlen \in Nat /\ got + MaxPacket \in Nat
        BY <1>0, <1>13 DEF HostOut, Typed, IrqInv, Waiting, Request
      <3>2. QED
        BY <1>13, <3>1, MinOfNat DEF HostOut
    <2>1. Typed'
      BY <1>0, <1>13, <2>0, OutEffect DEF Typed, HostOut, Stages, dev, host, view, hist
    <2>2. IrqInv'
      BY <1>0, <1>13, OutEffect DEF IrqInv, Typed, Waiting, Flags, HostOut, Stages, dev, host, view, hist
    <2>3. PipeInv'
      BY <1>0, <1>13, OutEffect DEF HostOut, PipeInv
    <2>4. QED
      BY <2>1, <2>2, <2>3, TypesPrime DEF IInv
  <1>14. CASE HostStatusOut
    <2>1. Typed'
      BY <1>0, <1>14, OutEffect DEF Typed, HostStatusOut, Stages, dev, host, view, hist
    <2>2. IrqInv'
      BY <1>0, <1>14, OutEffect DEF IrqInv, Typed, Waiting, Flags, HostStatusOut, Stages, dev, host, view, hist
    <2>3. PipeInv'
      BY <1>0, <1>14, OutEffect DEF HostStatusOut, PipeInv
    <2>4. QED
      BY <2>1, <2>2, <2>3, TypesPrime DEF IInv
  <1>15. CASE HostStalled
    <2>1. Typed'
      BY <1>0, <1>15 DEF Typed, HostStalled, Stages, dev, host, view, hist
    <2>2. IrqInv'
      BY <1>0, <1>15 DEF IrqInv, Typed, Waiting, Flags, HostStalled, Stages, dev, host, view, hist
    <2>3. PipeInv'
      BY <1>0, <1>15, SamePipe DEF HostStalled
    <2>4. QED
      BY <2>1, <2>2, <2>3, TypesPrime DEF IInv
  <1>16. CASE HostAbandon
    <2>1. Typed'
      BY <1>0, <1>16 DEF Typed, HostAbandon, Stages, dev, host, view, hist
    <2>2. IrqInv'
      BY <1>0, <1>16 DEF IrqInv, Typed, Waiting, Flags, HostAbandon, Stages, dev, host, view, hist
    <2>3. PipeInv'
      BY <1>0, <1>16, SamePipe DEF HostAbandon
    <2>4. QED
      BY <2>1, <2>2, <2>3, TypesPrime DEF IInv
  <1>17. CASE HostReset
    <2>0. /\ late' \in BOOLEAN /\ flags' \subseteq Flags /\ events' \in 0..MaxEvents
      <3>1. late' \in BOOLEAN
        BY <1>17, Zenon DEF HostReset
      <3>2. flags' \subseteq Flags /\ events' \in 0..MaxEvents
        BY <1>0, <1>17 DEF HostReset, Flags, Typed
      <3>3. QED
        BY <3>1, <3>2
    <2>1. Typed'
      BY <1>0, <1>17, <2>0 DEF Typed, HostReset, Flags, Stages, States, dev, host, view, hist
    <2>2. IrqInv'
      BY <1>0, <1>17 DEF IrqInv, Typed, Waiting, Flags, HostReset, Stages, States, dev, host, view, hist
    <2>3. PipeInv'
      BY <1>0, <1>17, SamePipe DEF HostReset
    <2>4. QED
      BY <2>1, <2>2, <2>3, TypesPrime DEF IInv
  <1>18. CASE BusEnumDone
    <2>1. Typed'
      BY <1>0, <1>18 DEF Typed, BusEnumDone, Flags, Stages, dev, host, view, hist
    <2>2. IrqInv'
      BY <1>0, <1>18 DEF IrqInv, Typed, Waiting, Flags, BusEnumDone, Stages, dev, host, view, hist
    <2>3. PipeInv'
      BY <1>0, <1>18, SamePipe DEF BusEnumDone
    <2>4. QED
      BY <2>1, <2>2, <2>3, TypesPrime DEF IInv
  <1>19. CASE HostSuspend
    <2>1. Typed'
      BY <1>0, <1>19 DEF Typed, HostSuspend, Flags, Stages, dev, host, view, hist
    <2>2. IrqInv'
      BY <1>0, <1>19 DEF IrqInv, Typed, Waiting, Flags, HostSuspend, Stages, dev, host, view, hist
    <2>3. PipeInv'
      BY <1>0, <1>19, SamePipe DEF HostSuspend
    <2>4. QED
      BY <2>1, <2>2, <2>3, TypesPrime DEF IInv
  <1>20. CASE HostResume
    <2>1. Typed'
      BY <1>0, <1>20 DEF Typed, HostResume, Flags, Stages, dev, host, view, hist
    <2>2. IrqInv'
      BY <1>0, <1>20 DEF IrqInv, Typed, Waiting, Flags, HostResume, Stages, dev, host, view, hist
    <2>3. PipeInv'
      BY <1>0, <1>20, SamePipe DEF HostResume
    <2>4. QED
      BY <2>1, <2>2, <2>3, TypesPrime DEF IInv
  <1>21. CASE UNCHANGED vars
    BY <1>0, <1>21, TypesPrime
      DEF IInv, Typed, IrqInv, PipeInv, Current, Waiting, vars, dev, host, view, hist
  <1>22. QED
    BY <1>1, <1>2, <1>3, <1>4, <1>5, <1>6, <1>7, <1>8, <1>9, <1>10, <1>11, <1>12, <1>13,
       <1>14, <1>15, <1>16, <1>17, <1>18, <1>19, <1>20, <1>21
      DEF Next, Irq, HostStage

-----------------------------------------------------------------------------
(* The request of the host and the packets behind it.                      *)

Fifos == Seq(Requests \cup {NoReq})

\* A receive FIFO without a SETUP; Current says so of the device's.
NoSetup(s) == \A i \in DOMAIN s : s[i] = NoReq

\* Entry i is the SETUP that was sent last.
Newest(s, i) == /\ i \in 1..Len(s) /\ s[i] # NoReq
                /\ \A j \in (i + 1)..Len(s) : s[j] = NoReq

\* A SETUP is behind the head.
Behind(s) == \E i \in 2..Len(s) : s[i] # NoReq

\* The SETUP that was sent last is r.
Asks(s, r) == \A i \in 1..Len(s) : Newest(s, i) => s[i] = r

\* The host has sent m packets for its request that are not served: those
\* behind its SETUP or, once that is read, all there are (xferc: one of them
\* is read).
Sent(s, xferc, m) ==
  IF NoSetup(s) THEN m = Len(s) + (IF xferc THEN 1 ELSE 0)
  ELSE \E i \in 1..Len(s) : Newest(s, i) /\ m = Len(s) - i

\* The receive FIFO is a finite sequence; it holds no SETUP iff every entry is a
\* data packet.
LEMMA FifoLen ==
  ASSUME NEW s \in Fifos
  PROVE  /\ Len(s) \in Nat /\ DOMAIN s = 1..Len(s)
         /\ NoSetup(s) <=> \A i \in 1..Len(s) : s[i] = NoReq
         /\ s # <<>> => Len(s) > 0
  BY LenProperties, EmptySeq DEF Fifos, NoSetup

\* Behind a SETUP in the FIFO a completed packet does not count.
LEMMA SentBehind == \A s, x, y, m : ~NoSetup(s) => (Sent(s, x, m) <=> Sent(s, y, m))
  BY DEF Sent

\* usbd_rxflvl_handler takes the head.
LEMMA FifoRead ==
  ASSUME NEW s \in Fifos, s # <<>>
  PROVE  /\ \A x, y, m : ~x /\ (y <=> Head(s) = NoReq) => (Sent(Tail(s), y, m) <=> Sent(s, x, m))
         /\ \A r : Asks(s, r) => Asks(Tail(s), r)
         /\ Behind(s) <=> ~NoSetup(Tail(s))
         /\ NoSetup(s) <=> NoSetup(Tail(s)) /\ Head(s) = NoReq
         /\ \A r : Asks(s, r) /\ ~NoSetup(s) /\ NoSetup(Tail(s)) => Head(s) = r
  <1> DEFINE t == Tail(s)
             n == Len(s)
  <1>1. t \in Fifos
    BY FifoTail DEF Fifos
  <1>2. /\ n \in Nat /\ n > 0 /\ Len(t) = n - 1 /\ Head(s) = s[1]
        /\ \A i \in 1..(n - 1) : t[i] = s[i + 1]
    BY FifoTail DEF Fifos
  <1> HIDE DEF t, n
  <1>3. NoSetup(s) <=> \A i \in 1..n : s[i] = NoReq
    BY FifoLen DEF n
  <1>4. NoSetup(t) <=> \A i \in 2..n : s[i] = NoReq
    <2>1. NoSetup(t) <=> \A i \in 1..(n - 1) : t[i] = NoReq
      BY <1>1, <1>2, FifoLen
    <2>2. ASSUME NoSetup(t), NEW i \in 2..n PROVE s[i] = NoReq
      <3>1. i - 1 \in 1..(n - 1) /\ (i - 1) + 1 = i
        BY <1>2
      <3>2. QED
        BY <1>2, <2>1, <2>2, <3>1
    <2>3. ASSUME \A i \in 2..n : s[i] = NoReq PROVE NoSetup(t)
      BY <1>2, <2>1, <2>3
    <2>4. QED
      BY <2>2, <2>3
  <1>5. ASSUME NEW i \in 1..(n - 1)
        PROVE  (Newest(t, i) <=> Newest(s, i + 1)) /\ t[i] = s[i + 1] /\ i + 1 \in 1..n
    <2>1. t[i] = s[i + 1] /\ i + 1 \in 1..n
      BY <1>2
    <2>2. ASSUME Newest(t, i), NEW j \in ((i + 1) + 1)..n PROVE s[j] = NoReq
      <3>1. j - 1 \in (i + 1)..(n - 1) /\ (j - 1) + 1 = j /\ j - 1 \in 1..(n - 1)
        BY <1>2
      <3>2. QED
        BY <1>2, <2>2, <3>1 DEF Newest
    <2>3. ASSUME Newest(s, i + 1), NEW j \in (i + 1)..(n - 1) PROVE t[j] = NoReq
      <3>1. j + 1 \in ((i + 1) + 1)..n /\ j \in 1..(n - 1)
        BY <1>2
      <3>2. QED
        BY <1>2, <2>3, <3>1 DEF Newest, n
    <2>4. QED
      BY <1>2, <2>1, <2>2, <2>3 DEF Newest, n
  <1>6. /\ Behind(s) <=> ~NoSetup(t)
        /\ NoSetup(s) <=> NoSetup(t) /\ Head(s) = NoReq
    BY <1>2, <1>3, <1>4 DEF Behind, n
  <1>7. ~NoSetup(s) /\ NoSetup(t) => Newest(s, 1) /\ \A i \in 1..n : Newest(s, i) => i = 1
    BY <1>2, <1>3, <1>4 DEF Newest, n
  <1>8. ASSUME NEW x, NEW y, NEW m, ~x, y <=> Head(s) = NoReq
        PROVE  Sent(t, y, m) <=> Sent(s, x, m)
    <2>1. CASE NoSetup(s)
      BY <1>2, <1>6, <1>8, <2>1 DEF Sent, n
    <2>2. CASE ~NoSetup(s) /\ NoSetup(t)
      BY <1>2, <1>6, <1>7, <1>8, <2>2 DEF Sent, n
    <2>3. CASE ~NoSetup(s) /\ ~NoSetup(t)
      <3>1. ~Newest(s, 1)
        BY <1>2, <1>4, <2>3 DEF Newest, n
      <3>2. ASSUME NEW i \in 1..n, Newest(s, i), m = n - i
            PROVE  \E k \in 1..(n - 1) : Newest(t, k) /\ m = (n - 1) - k
        <4>1. i - 1 \in 1..(n - 1) /\ (i - 1) + 1 = i
          BY <1>2, <3>1, <3>2
        <4>2. Newest(t, i - 1) /\ m = (n - 1) - (i - 1)
          BY <1>2, <1>5, <3>2, <4>1
        <4>3. QED
          BY <4>1, <4>2
      <3>3. ASSUME NEW i \in 1..(n - 1), Newest(t, i), m = (n - 1) - i
            PROVE  \E k \in 1..n : Newest(s, k) /\ m = n - k
        <4>1. i + 1 \in 1..n /\ Newest(s, i + 1) /\ m = n - (i + 1)
          BY <1>2, <1>5, <3>3
        <4>2. QED
          BY <4>1
      <3>4. QED
        BY <1>2, <2>3, <3>2, <3>3 DEF Sent, n
    <2>4. QED
      BY <1>6, <2>1, <2>2, <2>3
  <1>9. ASSUME NEW r, Asks(s, r) PROVE Asks(t, r)
    BY <1>2, <1>5, <1>9 DEF Asks, n
  <1>10. ASSUME NEW r, Asks(s, r), ~NoSetup(s), NoSetup(t) PROVE Head(s) = r
    BY <1>2, <1>7, <1>10 DEF Asks, n
  <1>11. QED
    BY <1>6, <1>8, <1>9, <1>10 DEF t

\* The core writes a SETUP.
LEMMA FifoSetup ==
  ASSUME NEW s \in Fifos, NEW r \in Requests
  PROVE  LET t == Append(s, r)
         IN /\ ~NoSetup(t) /\ Asks(t, r)
            /\ \A x, m : Sent(t, x, m) => m = 0
            /\ s # <<>> => Behind(t)
  <1> DEFINE t == Append(s, r)
             n == Len(s)
  <1>1. r # NoReq
    BY CtrlAssumption
  <1>2. /\ t \in Fifos /\ Len(t) = n + 1 /\ t[n + 1] = r /\ n \in Nat /\ (s # <<>> => n > 0)
    BY FifoAppend, FifoLen DEF Fifos
  <1> HIDE DEF t, n
  <1>3. ~NoSetup(t)
    BY <1>1, <1>2, FifoLen
  <1>4. \A i \in 1..Len(t) : Newest(t, i) => i = n + 1
    BY <1>1, <1>2 DEF Newest
  <1>5. Asks(t, r) /\ \A x, m : Sent(t, x, m) => m = 0
    BY <1>2, <1>3, <1>4 DEF Asks, Sent
  <1>6. s # <<>> => Behind(t)
    BY <1>1, <1>2 DEF Behind
  <1>7. QED
    BY <1>3, <1>5, <1>6 DEF t

\* The core writes a packet.
LEMMA FifoData ==
  ASSUME NEW s \in Fifos
  PROVE  LET t == Append(s, NoReq)
         IN /\ NoSetup(t) <=> NoSetup(s)
            /\ \A r : Asks(s, r) => Asks(t, r)
            /\ \A x : \A m \in Nat : Sent(t, x, m) => m > 0 /\ Sent(s, x, m - 1)
            /\ Behind(s) => Behind(t)
  <1> DEFINE t == Append(s, NoReq)
             n == Len(s)
  <1>1. /\ t \in Fifos /\ Len(t) = n + 1 /\ t[n + 1] = NoReq /\ n \in Nat
        /\ \A i \in 1..n : t[i] = s[i]
    BY FifoAppend, FifoLen DEF Fifos
  <1> HIDE DEF t, n
  <1>2. NoSetup(t) <=> NoSetup(s)
    BY <1>1, FifoLen DEF n
  <1>3. \A i \in 1..(n + 1) : Newest(t, i) => i \in 1..n /\ Newest(s, i) /\ t[i] = s[i]
    BY <1>1 DEF Newest, n
  <1>4. \A r : Asks(s, r) => Asks(t, r)
    BY <1>1, <1>3 DEF Asks, n
  <1>5. \A x : \A m \in Nat : Sent(t, x, m) => m > 0 /\ Sent(s, x, m - 1)
    BY <1>1, <1>2, <1>3 DEF Sent, n
  <1>6. Behind(s) => Behind(t)
    BY <1>1 DEF Behind, n
  <1>7. QED
    BY <1>2, <1>4, <1>5, <1>6 DEF t

\* The steps that leave the host waiting: its SETUP, and while it waits the
\* handlers, the packets of its data stage, and nothing.
LEMMA WaitingSteps ==
  ASSUME IInv, [Next]_vars, Waiting'
  PROVE  \/ \E r \in Requests : HostSetup(r)
         \/ Waiting /\ HostIn
         \/ Waiting /\ HostOut
         \/ /\ Waiting /\ UNCHANGED host /\ UNCHANGED <<wrong, late>>
            /\ \/ IrqEnter \/ InEpt \/ OutDone \/ SetupDone \/ Reset \/ EnumDone
               \/ RxFlvl \/ Wakeup \/ Suspend \/ UNCHANGED vars
  <1>1. CASE Irq \/ UNCHANGED vars
    <2>1. UNCHANGED host /\ UNCHANGED <<wrong, late>>
      BY <1>1 DEF Irq, IrqEnter, InEpt, OutDone, SetupDone, Reset, EnumDone, RxFlvl, Wakeup, Suspend,
                  vars, hist
    <2>2. Waiting
      BY <2>1 DEF Waiting, host
    <2>3. QED
      BY <1>1, <2>1, <2>2 DEF Irq
  <1>2. CASE HostIn \/ HostOut
    BY <1>2 DEF Waiting, HostIn, HostOut
  <1>3. CASE HostStatusIn \/ HostStatusOut \/ HostStalled \/ HostAbandon \/ HostReset
    BY <1>3 DEF Waiting, HostStatusIn, HostStatusOut, HostStalled, HostAbandon, HostReset
  <1>4. CASE BusEnumDone \/ HostSuspend \/ HostResume
    BY <1>4 DEF Waiting, BusEnumDone, HostSuspend, HostResume, IInv, IrqInv, host
  <1>5. QED
    BY <1>1, <1>2, <1>3, <1>4 DEF Next, HostStage

\* The device has answered the request of the host.
Served == NoSetup(rxfifo) /\ ~out.setup

\* The host has sent so much when d bytes are served and m packets are not.
Packets(m, d) ==
  /\ got = MinOf(d + m * MaxPacket, hreq.wlen)
  /\ stage = IF got = hreq.wlen THEN "status_in" ELSE "out"

\* The SETUP the device will answer last is the host's request.
AskInv ==
  Waiting => Asks(rxfifo, hreq) /\ (NoSetup(rxfifo) /\ out.setup => setup = hreq)

\* A reset, its end and a wakeup are served before the request the host sent
\* after them.
FlagInv ==
  Waiting =>
    /\ \A f \in {"rst", "enumdone"} \cap flags :
         ~NoSetup(rxfifo) /\ ("rxflvl" \in pass /\ f \notin pass => Behind(rxfifo))
    /\ "wkup" \in flags =>
         IF NoSetup(rxfifo) THEN "wkup" \in pass /\ "oept" \notin pass /\ out.setup
         ELSE "rxflvl" \in pass /\ "wkup" \notin pass => Behind(rxfifo)

\* What the endpoint offers is not of the host's request before the device has
\* answered that, and the packet the host took before is served by then.
OwnInv ==
  Waiting =>
    /\ NoSetup(rxfifo) /\ out.setup => wrong \/ (~in.xferc /\ ~in.own)
    /\ "rxflvl" \in pass /\ "iept" \notin pass /\ ~NoSetup(rxfifo) /\ ~Behind(rxfifo) =>
         wrong \/ ~in.xferc

\* Until then the host only sends data.
StartInv ==
  Waiting /\ ~Served /\ ~wrong =>
    IF FirstStage(hreq) = "out"
    THEN /\ stage \in {"out", "status_in"}
         /\ \A m \in Nat : Sent(rxfifo, out.xferc, m) => Packets(m, 0)
    ELSE stage = FirstStage(hreq) /\ got = 0

QueueInv == AskInv /\ FlagInv /\ OwnInv /\ StartInv

\* What EptSend notes of a packet: no SETUP waits in the FIFO.
LEMMA CurrentIs == (Current <=> NoSetup(rxfifo)) /\ (Current' <=> NoSetup(rxfifo'))
  BY DEF Current, NoSetup

\* The request the host waits for.
LEMMA HostReqType ==
  ASSUME IInv, Waiting
  PROVE  hreq \in Requests /\ hreq.n \in Nat /\ hreq.wlen \in Nat
  BY CtrlAssumption, Types DEF IInv, Typed, IrqInv, Request

\* One packet more.
LEMMA MorePackets ==
  ASSUME NEW m \in Nat, m > 0, NEW d \in Nat, NEW w \in Nat, NEW g \in Nat,
         g = MinOf(d + (m - 1) * MaxPacket, w)
  PROVE  /\ MinOf(g + MaxPacket, w) = MinOf(d + m * MaxPacket, w)
         /\ m * MaxPacket \in Nat /\ (m - 1) * MaxPacket \in Nat
         /\ m * MaxPacket = (m - 1) * MaxPacket + MaxPacket
  <1>1. MaxPacket \in Nat
    BY CtrlAssumption
  <1>2. m * MaxPacket = (m - 1) * MaxPacket + MaxPacket /\ (m - 1) * MaxPacket \in Nat
        /\ m * MaxPacket \in Nat
    BY <1>1
  <1> DEFINE p == (m - 1) * MaxPacket
  <1>3. p \in Nat
    BY <1>2
  <1>4. m * MaxPacket = p + MaxPacket /\ g = MinOf(d + p, w)
    BY <1>2
  <1> HIDE DEF p
  <1>5. MinOf(g + MaxPacket, w) = MinOf(d + (p + MaxPacket), w)
    BY <1>1, <1>3, <1>4 DEF MinOf
  <1>6. QED
    BY <1>2, <1>4, <1>5

\* The steps keep the host's request and the order it is served in.
LEMMA StepQueue == IInv /\ QueueInv /\ [Next]_vars => QueueInv'
  <1> SUFFICES ASSUME IInv, QueueInv, [Next]_vars, Waiting' PROVE QueueInv'
    BY DEF QueueInv, AskInv, FlagInv, OwnInv, StartInv
  <1>0. TypeOK /\ Typed /\ IrqInv /\ PipeInv /\ AskInv /\ FlagInv /\ OwnInv /\ StartInv
    BY Types DEF IInv, QueueInv
  <1>1. CASE Waiting /\ UNCHANGED host /\ UNCHANGED <<wrong, late>> /\ IrqEnter
    <2>1. /\ hreq' = hreq /\ stage' = stage /\ got' = got /\ wrong' = wrong /\ Waiting' = Waiting
          /\ rxfifo' = rxfifo /\ out' = out /\ setup' = setup /\ in' = in /\ flags' = flags
          /\ pass = {} /\ flags \subseteq pass' /\ ("iept" \notin pass' => ~in.xferc)
      BY <1>0, <1>1 DEF IrqEnter, Pending, host, view, Waiting
    <2>2. AskInv'
      BY <1>0, <1>1, <2>1 DEF AskInv
    <2>3. FlagInv'
      BY <1>0, <1>1, <2>1 DEF FlagInv
    <2>4. OwnInv'
      BY <1>0, <1>1, <2>1 DEF OwnInv
    <2>5. StartInv'
      BY <1>0, <1>1, <2>1 DEF StartInv, Served, Packets
    <2>6. QED
      BY <2>2, <2>3, <2>4, <2>5 DEF QueueInv
  <1>2. CASE Waiting /\ UNCHANGED host /\ UNCHANGED <<wrong, late>> /\ InEpt
    <2>1. /\ hreq' = hreq /\ stage' = stage /\ got' = got /\ wrong' = wrong /\ Waiting' = Waiting
          /\ rxfifo' = rxfifo /\ setup' = setup /\ flags' = flags
          /\ pass' = pass \ {"iept"} /\ out'.setup = out.setup /\ out'.xferc = out.xferc
          /\ ~in'.xferc /\ (~in.xferc => in'.own = in.own)
      BY <1>0, <1>2, InEptEffect DEF InEpt, host, view, Waiting, SameIn, SameOut
    <2>2. AskInv'
      BY <1>0, <1>2, <2>1 DEF AskInv
    <2>3. FlagInv'
      BY <1>0, <1>2, <2>1 DEF FlagInv
    <2>4. OwnInv'
      BY <1>0, <1>2, <2>1 DEF OwnInv
    <2>5. StartInv'
      BY <1>0, <1>2, <2>1 DEF StartInv, Served, Packets
    <2>6. QED
      BY <2>2, <2>3, <2>4, <2>5 DEF QueueInv
  <1>3. CASE Waiting /\ UNCHANGED host /\ UNCHANGED <<wrong, late>> /\ OutDone
    <2>1. /\ hreq' = hreq /\ stage' = stage /\ got' = got /\ wrong' = wrong /\ Waiting' = Waiting
          /\ rxfifo' = rxfifo /\ setup' = setup /\ flags' = flags /\ "oept" \in pass
          /\ pass' = pass \ {"oept"} /\ ~out'.setup /\ ~out.setup
          /\ in'.xferc = in.xferc
      BY <1>0, <1>3, OutDoneEffect DEF OutDone, host, view, Waiting
    <2>2. AskInv'
      BY <1>0, <1>3, <2>1 DEF AskInv
    <2>3. FlagInv'
      BY <1>0, <1>3, <2>1 DEF FlagInv
    <2>4. OwnInv'
      BY <1>0, <1>3, <2>1 DEF OwnInv
    <2>5. StartInv'
      BY <1>0, <1>3, <2>1, SentBehind DEF StartInv, Served, Packets
    <2>6. QED
      BY <2>2, <2>3, <2>4, <2>5 DEF QueueInv
  <1>4. CASE Waiting /\ UNCHANGED host /\ UNCHANGED <<wrong, late>> /\ SetupDone
    <2>1. /\ hreq' = hreq /\ stage' = stage /\ got' = got /\ wrong' = wrong /\ Waiting' = Waiting
          /\ rxfifo' = rxfifo /\ flags' = flags /\ "oept" \in pass
          /\ pass' = pass \ {"oept"} /\ ~out'.setup
          /\ in'.xferc = in.xferc
      BY <1>0, <1>4, SetupEffect DEF SetupDone, host, view, Waiting
    <2>2. AskInv'
      BY <1>0, <1>4, <2>1 DEF AskInv
    <2>3. FlagInv'
      BY <1>0, <1>4, <2>1 DEF FlagInv
    <2>4. OwnInv'
      BY <1>0, <1>4, <2>1 DEF OwnInv
    <2>5. StartInv'
      BY <1>0, <1>4, <2>1, SentBehind DEF StartInv, Served, Packets
    <2>6. QED
      BY <2>2, <2>3, <2>4, <2>5 DEF QueueInv
  <1>5. CASE Waiting /\ UNCHANGED host /\ UNCHANGED <<wrong, late>> /\ Reset
    <2>1. /\ hreq' = hreq /\ stage' = stage /\ got' = got /\ wrong' = wrong /\ Waiting' = Waiting
          /\ rxfifo' = rxfifo /\ setup' = setup /\ flags' = flags \ {"rst"} /\ "rst" \in flags
          /\ pass' = pass \ {"rst"} /\ ~NoSetup(rxfifo) /\ ~in'.xferc
      BY <1>0, <1>5, ResetEffect DEF Reset, host, view, Waiting, FlagInv, IrqInv, Flags
    <2>2. AskInv'
      BY <1>0, <1>5, <2>1 DEF AskInv
    <2>3. FlagInv'
      BY <1>0, <1>5, <2>1 DEF FlagInv
    <2>4. OwnInv'
      BY <1>0, <1>5, <2>1 DEF OwnInv
    <2>5. StartInv'
      BY <1>0, <1>5, <2>1, SentBehind DEF StartInv, Served, Packets
    <2>6. QED
      BY <2>2, <2>3, <2>4, <2>5 DEF QueueInv
  <1>6. CASE Waiting /\ UNCHANGED host /\ UNCHANGED <<wrong, late>> /\ EnumDone
    <2>1. /\ hreq' = hreq /\ stage' = stage /\ got' = got /\ wrong' = wrong /\ Waiting' = Waiting
          /\ rxfifo' = rxfifo /\ setup' = setup /\ flags' = flags \ {"enumdone"}
          /\ pass' = pass \ {"enumdone"} /\ in' = in /\ out' = out
      BY <1>0, <1>6 DEF EnumDone, host, view, Waiting
    <2>2. AskInv'
      BY <1>0, <1>6, <2>1 DEF AskInv
    <2>3. FlagInv'
      BY <1>0, <1>6, <2>1 DEF FlagInv
    <2>4. OwnInv'
      BY <1>0, <1>6, <2>1 DEF OwnInv
    <2>5. StartInv'
      BY <1>0, <1>6, <2>1 DEF StartInv, Served, Packets
    <2>6. QED
      BY <2>2, <2>3, <2>4, <2>5 DEF QueueInv
  <1>7. CASE Waiting /\ UNCHANGED host /\ UNCHANGED <<wrong, late>> /\ RxFlvl
    <2>1. /\ hreq' = hreq /\ stage' = stage /\ got' = got /\ wrong' = wrong /\ Waiting' = Waiting
          /\ flags' = flags /\ "rxflvl" \in pass /\ {"iept", "oept", "rst", "enumdone"} \cap pass = {}
          /\ pass' = pass \ {"rxflvl"} /\ in' = in
      BY <1>0, <1>7, RxFlvlEffect DEF RxFlvl, host, view, Waiting
    <2>2. /\ rxfifo' = Tail(rxfifo) /\ ~out.xferc /\ ~out.setup
          /\ (out'.xferc <=> Head(rxfifo) = NoReq) /\ (out'.setup <=> Head(rxfifo) # NoReq)
          /\ Head(rxfifo) # NoReq => setup' = Head(rxfifo)
      BY <1>0, <1>7, RxFlvlEffect DEF OutEpts
    <2>3. rxfifo \in Fifos /\ rxfifo # <<>>
      BY <1>0, <1>7, RxFlvlEffect DEF Typed, Fifos
    <2>4. /\ \A m : Sent(rxfifo', out'.xferc, m) <=> Sent(rxfifo, out.xferc, m)
          /\ Asks(rxfifo, hreq) => Asks(rxfifo', hreq)
          /\ Behind(rxfifo) <=> ~NoSetup(rxfifo')
          /\ NoSetup(rxfifo) <=> NoSetup(rxfifo') /\ Head(rxfifo) = NoReq
          /\ Asks(rxfifo, hreq) /\ ~NoSetup(rxfifo) /\ NoSetup(rxfifo') => Head(rxfifo) = hreq
      BY <2>2, <2>3, FifoRead
    <2>5. AskInv'
      BY <1>0, <1>7, <2>1, <2>2, <2>4 DEF AskInv
    <2>6. FlagInv'
      BY <1>0, <1>7, <2>1, <2>2, <2>4 DEF FlagInv
    <2>7. OwnInv'
      BY <1>0, <1>7, <2>1, <2>2, <2>4, CurrentIs DEF OwnInv, PipeInv
    <2>8. StartInv'
      BY <1>0, <1>7, <2>1, <2>2, <2>4 DEF StartInv, Served, Packets
    <2>9. QED
      BY <2>5, <2>6, <2>7, <2>8 DEF QueueInv
  <1>8. CASE Waiting /\ UNCHANGED host /\ UNCHANGED <<wrong, late>> /\ Wakeup
    <2>1. /\ hreq' = hreq /\ stage' = stage /\ got' = got /\ wrong' = wrong /\ Waiting' = Waiting
          /\ rxfifo' = rxfifo /\ setup' = setup /\ flags' = flags \ {"wkup"}
          /\ pass' = pass \ {"wkup"} /\ in' = in /\ out' = out
      BY <1>0, <1>8 DEF Wakeup, host, view, Waiting
    <2>2. AskInv'
      BY <1>0, <1>8, <2>1 DEF AskInv
    <2>3. FlagInv'
      BY <1>0, <1>8, <2>1 DEF FlagInv
    <2>4. OwnInv'
      BY <1>0, <1>8, <2>1 DEF OwnInv
    <2>5. StartInv'
      BY <1>0, <1>8, <2>1 DEF StartInv, Served, Packets
    <2>6. QED
      BY <2>2, <2>3, <2>4, <2>5 DEF QueueInv
  <1>9. CASE Waiting /\ UNCHANGED host /\ UNCHANGED <<wrong, late>> /\ Suspend
    <2>1. /\ hreq' = hreq /\ stage' = stage /\ got' = got /\ wrong' = wrong /\ Waiting' = Waiting
          /\ rxfifo' = rxfifo /\ setup' = setup /\ flags' = flags \ {"susp"}
          /\ pass' = pass \ {"susp"} /\ in' = in /\ out' = out
      BY <1>0, <1>9 DEF Suspend, host, view, Waiting
    <2>2. AskInv'
      BY <1>0, <1>9, <2>1 DEF AskInv
    <2>3. FlagInv'
      BY <1>0, <1>9, <2>1 DEF FlagInv
    <2>4. OwnInv'
      BY <1>0, <1>9, <2>1 DEF OwnInv
    <2>5. StartInv'
      BY <1>0, <1>9, <2>1 DEF StartInv, Served, Packets
    <2>6. QED
      BY <2>2, <2>3, <2>4, <2>5 DEF QueueInv
  <1>10. CASE Waiting /\ UNCHANGED host /\ UNCHANGED <<wrong, late>> /\ UNCHANGED vars
    <2>1. /\ hreq' = hreq /\ stage' = stage /\ got' = got /\ wrong' = wrong /\ Waiting' = Waiting
          /\ rxfifo' = rxfifo /\ setup' = setup /\ flags' = flags
          /\ pass' = pass /\ in' = in /\ out' = out
      BY <1>0, <1>10 DEF vars, host, view, Waiting
    <2>2. AskInv'
      BY <1>0, <1>10, <2>1 DEF AskInv
    <2>3. FlagInv'
      BY <1>0, <1>10, <2>1 DEF FlagInv
    <2>4. OwnInv'
      BY <1>0, <1>10, <2>1 DEF OwnInv
    <2>5. StartInv'
      BY <1>0, <1>10, <2>1 DEF StartInv, Served, Packets
    <2>6. QED
      BY <2>2, <2>3, <2>4, <2>5 DEF QueueInv
  <1>11. ASSUME NEW r \in Requests, HostSetup(r) PROVE QueueInv'
    <2>1. /\ hreq' = r /\ got' = 0 /\ stage' = FirstStage(r) /\ rxfifo' = Append(rxfifo, r)
          /\ flags' = flags /\ pass' = pass /\ r.wlen \in Nat
      BY <1>0, <1>11, HostSetupEffect DEF HostSetup
    <2>2. rxfifo \in Fifos /\ ("rxflvl" \in pass => rxfifo # <<>>)
      BY <1>0 DEF Typed, Fifos, IrqInv
    <2>3. /\ ~NoSetup(rxfifo') /\ Asks(rxfifo', r)
          /\ \A x, m : Sent(rxfifo', x, m) => m = 0
          /\ rxfifo # <<>> => Behind(rxfifo')
      BY <2>1, <2>2, FifoSetup
    <2>4. AskInv' /\ FlagInv' /\ OwnInv'
      BY <2>1, <2>2, <2>3 DEF AskInv, FlagInv, OwnInv
    <2>5. StartInv'
      <3>1. ASSUME FirstStage(r) = "out" PROVE 0 = MinOf(0 + 0 * MaxPacket, r.wlen) /\ r.wlen > 0
        <4>1. r.wlen > 0
          BY <2>1, <3>1 DEF FirstStage
        <4>2. QED
          BY <2>1, <4>1, CtrlAssumption DEF MinOf
      <3>2. QED
        BY <2>1, <2>3, <3>1 DEF StartInv, Served, Packets
    <2>6. QED
      BY <2>4, <2>5 DEF QueueInv
  <1>12. CASE Waiting /\ HostIn
    <2>1. /\ hreq' = hreq /\ rxfifo' = rxfifo /\ out' = out /\ setup' = setup
          /\ flags' = flags /\ pass' = pass /\ wrong' = (wrong \/ ~in.own)
      BY <1>12 DEF HostIn
    <2>2. ~NoSetup(rxfifo) => ~in.own
      BY <1>0, CurrentIs DEF PipeInv
    <2>3. AskInv' /\ FlagInv'
      BY <1>0, <1>12, <2>1 DEF AskInv, FlagInv
    <2>4. OwnInv'
      BY <1>0, <1>12, <2>1, <2>2 DEF OwnInv
    <2>5. StartInv'
      BY <1>0, <1>12, <2>1, <2>2 DEF StartInv, Served, OwnInv
    <2>6. QED
      BY <2>3, <2>4, <2>5 DEF QueueInv
  <1>13. CASE Waiting /\ HostOut
    <2>1. /\ hreq' = hreq /\ rxfifo' = Append(rxfifo, NoReq) /\ out'.setup = out.setup /\ setup' = setup
          /\ out'.xferc = out.xferc
          /\ flags' = flags /\ pass' = pass /\ wrong' = wrong /\ in' = in /\ stage = "out"
          /\ got' = MinOf(got + MaxPacket, hreq.wlen)
          /\ stage' = IF got' = hreq.wlen THEN "status_in" ELSE "out"
      BY <1>0, <1>13, OutEffect DEF HostOut, hist
    <2>2. rxfifo \in Fifos /\ got \in Nat /\ hreq.wlen \in Nat
      BY <1>0, <1>13, HostReqType DEF Typed, Fifos
    <2>3. /\ NoSetup(rxfifo') <=> NoSetup(rxfifo)
          /\ Asks(rxfifo, hreq) => Asks(rxfifo', hreq)
          /\ \A x : \A m \in Nat : Sent(rxfifo', x, m) => m > 0 /\ Sent(rxfifo, x, m - 1)
          /\ Behind(rxfifo) => Behind(rxfifo')
      BY <2>1, <2>2, FifoData
    <2>4. AskInv' /\ FlagInv' /\ OwnInv'
      BY <1>0, <1>13, <2>1, <2>3 DEF AskInv, FlagInv, OwnInv
    <2>5. StartInv'
      <3>1. SUFFICES ASSUME ~Served, ~wrong
                     PROVE  /\ FirstStage(hreq) = "out"
                            /\ \A m \in Nat : Sent(rxfifo', out'.xferc, m) =>
                                 got' = MinOf(0 + m * MaxPacket, hreq.wlen)
        BY <2>1, <2>3 DEF StartInv, Served, Packets
      <3>2. FirstStage(hreq) = "out"
        BY <1>0, <1>13, <2>1, <3>1 DEF StartInv
      <3>3. ASSUME NEW m \in Nat, Sent(rxfifo', out'.xferc, m)
            PROVE  got' = MinOf(0 + m * MaxPacket, hreq.wlen)
        <4>1. m > 0 /\ m - 1 \in Nat /\ Sent(rxfifo, out.xferc, m - 1)
          BY <2>1, <2>3, <3>3
        <4>2. got = MinOf(0 + (m - 1) * MaxPacket, hreq.wlen)
          BY <1>0, <1>13, <3>1, <3>2, <4>1 DEF StartInv, Packets
        <4>3. QED
          BY <2>1, <2>2, <4>1, <4>2, MorePackets
      <3>4. QED
        BY <3>2, <3>3
    <2>6. QED
      BY <2>4, <2>5 DEF QueueInv
  <1>14. QED
    BY <1>1, <1>2, <1>3, <1>4, <1>5, <1>6, <1>7, <1>8, <1>9, <1>10, <1>11, <1>12, <1>13,
       WaitingSteps

-----------------------------------------------------------------------------
(* The stages of a transfer.                                               *)

\* What the request handlers answer fits the transfer the host began.
LEMMA AnswerFits ==
  ASSUME NEW r \in Requests, WellFormed(r)
  PROVE  LET ans == Answer(r)
         IN /\ ans.a = "send" => FirstStage(r) = "in" /\ ans.n = Expected(r)
            /\ ans.a = "recv" => FirstStage(r) = "out" /\ ans.n = r.wlen /\ r.wlen > 0
            /\ ans.a = "status" => FirstStage(r) = "status_in"
            /\ ans.a = "nothing" => FirstStage(r) # "in"
  <1>0. r.kind \in Kinds /\ r.n \in Nat /\ r.wlen \in Nat
    BY CtrlAssumption DEF Request
  <1>1. /\ \A k : Send(k).a = "send" /\ Send(k).n = k /\ Recv(k).a = "recv" /\ Recv(k).n = k
        /\ Status.a = "status" /\ Unsupport.a = "stall" /\ StallStatus.a = "stall_status"
        /\ Nothing.a = "nothing"
    BY DEF Send, Recv, Status, Unsupport, StallStatus, Nothing
  <1> HIDE DEF Send, Recv, Status, Unsupport, StallStatus, Nothing
  <1>2. CASE r.kind \in {"descriptor", "unknown"}
    <2>1. Answer(r) = IF r.kind = "descriptor" THEN Descriptor(r) ELSE Unsupport
      BY <1>2 DEF Answer
    <2>2. QED
      BY <1>0, <1>1, <1>2, <2>1 DEF Descriptor, FirstStage, Reads, Expected
  <1>3. CASE r.kind \in {"set_address", "set_config"}
    <2>1. Answer(r) = IF r.kind = "set_address" THEN SetAddress(r) ELSE SetConfiguration(r)
      BY <1>3 DEF Answer
    <2>2. QED
      BY <1>0, <1>1, <1>3, <2>1 DEF SetAddress, SetConfiguration, FirstStage, Reads, Expected
  <1>4. CASE r.kind \in {"get_config", "get_status"}
    <2>1. Answer(r) = IF r.kind = "get_config" THEN GetConfiguration(r)
                      ELSE IF InDevice THEN Send(2) ELSE Unsupport
      BY <1>4 DEF Answer
    <2>2. QED
      BY <1>0, <1>1, <1>4, <2>1 DEF GetConfiguration, FirstStage, Reads, Expected, WellFormed
  <1>5. CASE r.kind \in {"clear_feature", "other_feature"}
    <2>1. Answer(r) = ClearFeature(r)
      BY <1>5 DEF Answer
    <2>2. QED
      BY <1>0, <1>1, <1>5, <2>1 DEF ClearFeature, FirstStage, Reads, WellFormed
  <1>6. CASE r.kind \in {"set_feature", "device_class"}
    <2>1. Answer(r) = IF r.kind = "set_feature" THEN Status ELSE Nothing
      BY <1>6 DEF Answer
    <2>2. QED
      BY <1>0, <1>1, <1>6, <2>1 DEF FirstStage, Reads, WellFormed
  <1>7. CASE r.kind \in {"class_in", "class_out", "class_none", "class_bad"}
    <2>1. Answer(r) = InterfaceRequest(r)
      BY <1>7 DEF Answer
    <2>2. QED
      BY <1>0, <1>1, <1>7, <2>1 DEF InterfaceRequest, FirstStage, Reads, Expected, WellFormed
  <1>8. CASE r.kind \in {"ep_status", "ep_feature", "ep_other_feature"}
    <2>1. Answer(r) = EndpointRequest(r)
      BY <1>8 DEF Answer
    <2>2. QED
      BY <1>0, <1>1, <1>8, <2>1 DEF EndpointRequest, FirstStage, Reads, Expected, WellFormed
  <1>9. QED
    BY <1>0, <1>2, <1>3, <1>4, <1>5, <1>6, <1>7, <1>8 DEF Kinds

\* The endpoint has a packet of the host's request to send.
Ready == in.ena /\ ~in.nak /\ ~in.xferc /\ in.own

\* Stalled, or dropped by the handlers of usbd_sdr.c and the class.
Stalled == /\ in.stall /\ out.stall /\ ctl.sts \in {"SETUP", "STATUS_IN"}
           /\ stage \in {"in", "out", "status_in"}
Dropped == mute /\ ctl.sts = "SETUP" /\ stage \in {"out", "status_in"}

\* The data stage of a read, at ctl.rem of the answer's bytes.
Chunk == MinOf(ctl.rem, MaxPacket)
DataIn ==
  /\ FirstStage(hreq) = "in"
  /\ ctl.sts = "DATA_IN" /\ ctl.slen = Expected(hreq) /\ ctl.wlen = hreq.wlen
  /\ ctl.rem <= Expected(hreq) /\ (ctl.rem = 0 => Expected(hreq) = 0)

\* The packet at ctl.rem is offered; the host has taken it.
Offered ==
  /\ DataIn /\ Ready /\ in.len = Chunk /\ (Expected(hreq) > 0 => ctl.last = Chunk)
  /\ got = Expected(hreq) - ctl.rem /\ stage = "in"
Taken ==
  /\ DataIn /\ in.xferc /\ ~in.ena /\ (Expected(hreq) > 0 => ctl.last = Chunk)
  /\ got = (Expected(hreq) - ctl.rem) + Chunk
  /\ stage = IF Chunk < MaxPacket \/ got >= hreq.wlen THEN "status_out" ELSE "in"

\* The zero-length packet at the end is offered; the host has taken it.
ZlpOffered ==
  /\ DataIn /\ Ready /\ in.len = 0 /\ ctl.last = 0 /\ ctl.rem <= MaxPacket
  /\ got = Expected(hreq) /\ stage = "in" /\ out.armed
ZlpTaken ==
  /\ DataIn /\ in.xferc /\ ~in.ena /\ ctl.last = 0 /\ ctl.rem <= MaxPacket
  /\ got = Expected(hreq) /\ stage = "status_out" /\ out.armed

\* The read waits for the host's status.
ReadDone ==
  /\ FirstStage(hreq) = "in"
  /\ ctl.sts = "STATUS_OUT" /\ got = Expected(hreq) /\ stage = "status_out" /\ out.armed

\* A write, with ctl.orem bytes not served.
Writing ==
  /\ FirstStage(hreq) = "out" /\ ctl.sts = "DATA_OUT" /\ ctl.orem \in 1..hreq.wlen
  /\ \A m \in Nat : Sent(rxfifo, out.xferc, m) =>
       Packets(m, hreq.wlen - ctl.orem) /\ (m = 0 => out.armed)
  /\ ~in.xferc

\* The status of a write is offered.
Ending == stage = "status_in" /\ ctl.sts = "STATUS_IN" /\ Ready /\ in.len = 0

\* Where a request is that the device has answered.
InTransfer ==
  Stalled \/ Dropped \/ Offered \/ Taken \/ ZlpOffered \/ ZlpTaken \/ ReadDone \/ Writing \/ Ending

TransferInv == Waiting /\ Served /\ ~wrong => InTransfer

\* The numbers of a read.
LEMMA TransferTypes ==
  ASSUME IInv, Waiting
  PROVE  /\ in \in InEpts /\ out \in OutEpts /\ ctl \in Ctls /\ MaxPacket \in Nat /\ MaxPacket > 0
         /\ ctl.rem \in Nat /\ ctl.orem \in Nat /\ ctl.last \in Nat /\ ctl.slen \in Nat
         /\ ctl.wlen \in Nat /\ in.len \in Nat /\ got \in Nat
         /\ hreq.wlen \in Nat /\ Expected(hreq) \in Nat /\ Expected(hreq) <= hreq.wlen
         /\ FirstStage(hreq) = "in" => hreq.wlen > 0
         /\ Chunk \in Nat /\ Chunk <= ctl.rem /\ Chunk <= MaxPacket
         /\ Chunk = ctl.rem \/ Chunk = MaxPacket
  <1>1. hreq \in Requests /\ hreq.n \in Nat /\ hreq.wlen \in Nat
    BY HostReqType
  <1>2. in \in InEpts /\ out \in OutEpts /\ ctl \in Ctls /\ got \in Nat
    BY Types DEF IInv, Typed
  <1>3. MaxPacket \in Nat /\ MaxPacket > 0
    BY CtrlAssumption
  <1>4. /\ ctl.rem \in Nat /\ ctl.orem \in Nat /\ ctl.last \in Nat /\ ctl.slen \in Nat
        /\ ctl.wlen \in Nat /\ in.len \in Nat
    BY <1>2, <1>3 DEF Ctls, InEpts
  <1>5. /\ Chunk \in Nat /\ Chunk <= ctl.rem /\ Chunk <= MaxPacket
        /\ Chunk = ctl.rem \/ Chunk = MaxPacket
    BY <1>3, <1>4, MinOfNat DEF Chunk
  <1>6. Expected(hreq) \in Nat /\ Expected(hreq) <= hreq.wlen
    BY <1>1, MinOfNat DEF Expected
  <1>7. FirstStage(hreq) = "in" => hreq.wlen > 0
    BY <1>1 DEF FirstStage
  <1>8. QED
    BY <1>1, <1>2, <1>3, <1>4, <1>5, <1>6, <1>7

\* usbd_inept_handler goes on with a read.
LEMMA InEptTransfer ==
  ASSUME IInv, Waiting, InEpt, InTransfer, hreq' = hreq, stage' = stage, got' = got
  PROVE  InTransfer' \/ ~Served
  <1> SUFFICES ASSUME Served PROVE InTransfer'
    OBVIOUS
  <1> DEFINE e == Expected(hreq)
             same == /\ ~in.xferc \/ ctl.sts # "DATA_IN"
                     /\ SameIn /\ out' = out /\ ctl' = ctl
             more == /\ in.xferc /\ ctl.sts = "DATA_IN" /\ ctl.rem > MaxPacket
                     /\ Offers(ctl.rem - MaxPacket) /\ out' = out
                     /\ ctl' = [ctl EXCEPT !.rem = ctl.rem - MaxPacket,
                                           !.last = MinOf(ctl.rem - MaxPacket, MaxPacket)]
             zlp  == /\ in.xferc /\ ctl.sts = "DATA_IN" /\ ctl.rem <= MaxPacket /\ ZlpDue
                     /\ Offers(0) /\ out'.armed /\ ctl' = [ctl EXCEPT !.last = 0]
             done == /\ in.xferc /\ ctl.sts = "DATA_IN" /\ ctl.rem <= MaxPacket /\ ~ZlpDue
                     /\ SameIn /\ out'.armed /\ ctl' = [ctl EXCEPT !.sts = "STATUS_OUT"]
  <1>1. /\ in \in InEpts /\ out \in OutEpts /\ ctl \in Ctls /\ MaxPacket \in Nat /\ MaxPacket > 0
        /\ ctl.rem \in Nat /\ ctl.orem \in Nat /\ ctl.last \in Nat /\ ctl.slen \in Nat
        /\ ctl.wlen \in Nat /\ in.len \in Nat /\ got \in Nat
        /\ hreq.wlen \in Nat /\ e \in Nat /\ e <= hreq.wlen
        /\ FirstStage(hreq) = "in" => hreq.wlen > 0
        /\ Chunk \in Nat /\ Chunk <= ctl.rem /\ Chunk <= MaxPacket
        /\ Chunk = ctl.rem \/ Chunk = MaxPacket
    BY TransferTypes
  <1>2. /\ ~in'.xferc /\ in'.stall = in.stall /\ SameOut /\ (same \/ more \/ zlp \/ done)
    BY InEptEffect DEF IInv
  <1>3. Current /\ rxfifo' = rxfifo /\ mute' = mute
    BY CurrentIs DEF Served, InEpt, hist
  <1>4. CASE same
    <2>1. ctl' = ctl /\ out' = out /\ SameIn /\ (~in.xferc \/ ctl.sts # "DATA_IN")
      BY <1>4
    <2>2. ASSUME Writing PROVE Writing'
      BY <1>2, <1>3, <2>1, <2>2 DEF Writing, Packets
    <2>3. ASSUME InTransfer, ~Writing PROVE InTransfer'
      BY <1>2, <1>3, <2>1, <2>3
        DEF InTransfer, Stalled, Dropped, Offered, Taken, ZlpOffered, ZlpTaken, ReadDone, Ending,
            DataIn, Chunk, Ready, SameIn
    <2>4. QED
      BY <2>2, <2>3 DEF InTransfer
  <1>5. CASE ~same
    <2>1. in.xferc /\ ctl.sts = "DATA_IN"
      BY <1>2, <1>5
    <2>2. Taken \/ ZlpTaken
      BY <2>1 DEF InTransfer, Stalled, Dropped, Offered, ZlpOffered, ReadDone, Writing, Ending, Ready
    <2>3. DataIn
      BY <2>2 DEF Taken, ZlpTaken
    <2>4. CASE more
      <3>1. Taken
        BY <1>1, <2>2, <2>4 DEF ZlpTaken
      <3>2. Chunk = MaxPacket /\ got = (e - ctl.rem) + MaxPacket /\ ctl.rem <= e /\ e > 0
        BY <1>1, <2>4, <3>1 DEF Taken, DataIn
      <3>3. stage = "in"
        BY <1>1, <2>4, <3>1, <3>2 DEF Taken
      <3>4. /\ ctl'.rem = ctl.rem - MaxPacket /\ ctl'.last = MinOf(ctl.rem - MaxPacket, MaxPacket)
            /\ ctl'.sts = ctl.sts /\ ctl'.slen = ctl.slen /\ ctl'.wlen = ctl.wlen
        BY <1>1, <2>4 DEF Ctls
      <3>5. Chunk' = MinOf(ctl.rem - MaxPacket, MaxPacket)
        BY <3>4 DEF Chunk
      <3>6. DataIn'
        BY <1>1, <2>3, <2>4, <3>2, <3>4 DEF DataIn
      <3>7. Ready' /\ in'.len = Chunk'
        BY <1>2, <1>3, <2>4, <3>5 DEF Ready, Offers
      <3>8. Offered'
        BY <1>1, <2>4, <3>2, <3>3, <3>4, <3>5, <3>6, <3>7 DEF Offered
      <3>9. QED
        BY <3>8 DEF InTransfer
    <2>5. CASE zlp
      <3>1. ctl.last = MaxPacket /\ ctl.slen >= MaxPacket /\ ctl.slen < ctl.wlen
        BY <2>5 DEF ZlpDue
      <3>2. Taken /\ e >= MaxPacket /\ e < hreq.wlen
        BY <1>1, <2>2, <2>3, <3>1 DEF ZlpTaken, DataIn
      <3>3. Chunk = MaxPacket /\ ctl.rem = MaxPacket /\ got = e
        BY <1>1, <2>5, <3>1, <3>2 DEF Taken
      <3>4. stage = "in"
        BY <1>1, <3>2, <3>3 DEF Taken
      <3>5. /\ ctl'.rem = ctl.rem /\ ctl'.last = 0
            /\ ctl'.sts = ctl.sts /\ ctl'.slen = ctl.slen /\ ctl'.wlen = ctl.wlen
        BY <1>1, <2>5 DEF Ctls
      <3>6. DataIn'
        BY <2>3, <3>5 DEF DataIn
      <3>7. Ready' /\ in'.len = 0
        BY <1>1, <1>2, <1>3, <2>5 DEF Ready, Offers, MinOf
      <3>8. ZlpOffered'
        BY <1>1, <2>5, <3>3, <3>4, <3>5, <3>6, <3>7 DEF ZlpOffered
      <3>9. QED
        BY <3>8 DEF InTransfer
    <2>6. CASE done
      <3>1. ctl'.sts = "STATUS_OUT" /\ out'.armed
        BY <1>1, <2>6 DEF Ctls
      <3>2. CASE ZlpTaken
        BY <2>3, <3>1, <3>2 DEF ZlpTaken, DataIn, ReadDone, InTransfer
      <3>3. CASE Taken
        <4>1. Chunk = ctl.rem /\ got = e
          BY <1>1, <2>6, <3>3 DEF Taken, DataIn
        <4>2. ASSUME Chunk = MaxPacket PROVE got >= hreq.wlen
          <5>1. e > 0 /\ ctl.last = MaxPacket /\ ctl.slen = e /\ ctl.wlen = hreq.wlen /\ e >= MaxPacket
            BY <1>1, <3>3, <4>1, <4>2 DEF Taken, DataIn
          <5>2. ~(e < hreq.wlen)
            BY <2>6, <5>1 DEF ZlpDue
          <5>3. QED
            BY <1>1, <4>1, <5>2
        <4>3. stage = "status_out"
          BY <1>1, <3>3, <4>2 DEF Taken
        <4>4. QED
          BY <2>3, <3>1, <4>1, <4>3 DEF DataIn, ReadDone, InTransfer
      <3>4. QED
        BY <2>2, <3>2, <3>3
    <2>7. QED
      BY <1>2, <1>5, <2>4, <2>5, <2>6
  <1>6. QED
    BY <1>4, <1>5

\* usbd_outept_handler goes on with a write.
LEMMA OutDoneTransfer ==
  ASSUME IInv, Waiting, OutDone, InTransfer, Served, hreq' = hreq, stage' = stage, got' = got
  PROVE  InTransfer'
  <1>1. /\ in \in InEpts /\ out \in OutEpts /\ ctl \in Ctls /\ MaxPacket \in Nat /\ MaxPacket > 0
        /\ ctl.orem \in Nat /\ got \in Nat /\ hreq.wlen \in Nat
    BY TransferTypes
  <1>2. /\ out.xferc /\ ~out'.xferc /\ in'.xferc = in.xferc /\ in'.stall = in.stall
        /\ out'.stall = out.stall /\ rxfifo' = rxfifo /\ mute' = mute /\ Current
    BY OutDoneEffect, CurrentIs DEF IInv, OutDone, hist, Served
  <1>3. CASE ctl.sts # "DATA_OUT"
    <2>1. in' = in /\ ctl' = ctl /\ out'.armed = out.armed
      BY <1>3, OutDoneEffect DEF IInv
    <2>2. ~Writing
      BY <1>3 DEF Writing
    <2>3. QED
      BY <1>2, <2>1, <2>2
        DEF InTransfer, Stalled, Dropped, Offered, Taken, ZlpOffered, ZlpTaken, ReadDone, Ending,
            DataIn, Chunk, Ready
  <1>4. CASE ctl.sts = "DATA_OUT"
    <2>1. Writing
      BY <1>4 DEF InTransfer, Stalled, Dropped, Offered, Taken, ZlpOffered, ZlpTaken, ReadDone,
                  Ending, DataIn
    <2>2. Len(rxfifo) \in Nat
      BY FifoLen, Types DEF IInv, Typed, Fifos
    <2>3. /\ \A m \in Nat : Sent(rxfifo', out'.xferc, m) => Sent(rxfifo, out.xferc, m + 1)
          /\ Sent(rxfifo, out.xferc, Len(rxfifo) + 1)
      BY <1>2, <2>2 DEF Sent, Served
    <2>4. CASE ctl.orem > MaxPacket
      <3>1. in' = in /\ out'.armed /\ ctl'.orem = ctl.orem - MaxPacket /\ ctl'.sts = "DATA_OUT"
        BY <1>1, <1>4, <2>4, OutDoneEffect DEF IInv, Ctls
      <3>2. ctl'.orem \in 1..hreq.wlen /\ ctl.orem <= hreq.wlen
        BY <1>1, <2>1, <2>4, <3>1 DEF Writing
      <3>3. ASSUME NEW m \in Nat, Sent(rxfifo', out'.xferc, m)
            PROVE  Packets(m, hreq.wlen - ctl.orem)'
        <4>1. m + 1 \in Nat /\ Packets(m + 1, hreq.wlen - ctl.orem)
          BY <2>1, <2>3, <3>3 DEF Writing
        <4>2. (m + 1) * MaxPacket = m * MaxPacket + MaxPacket /\ m * MaxPacket \in Nat
          BY <1>1
        <4>3. (hreq.wlen - ctl.orem) + (m + 1) * MaxPacket
                = (hreq.wlen - (ctl.orem - MaxPacket)) + m * MaxPacket
          BY <1>1, <4>2
        <4>4. QED
          BY <3>1, <4>1, <4>3 DEF Packets
      <3>4. Writing'
        BY <1>2, <2>1, <3>1, <3>2, <3>3 DEF Writing
      <3>5. QED
        BY <3>4 DEF InTransfer
    <2>5. CASE ctl.orem <= MaxPacket
      <3>1. Offers(0) /\ ctl'.sts = "STATUS_IN"
        BY <1>1, <1>4, <2>5, OutDoneEffect DEF IInv, Ctls
      <3>2. got = hreq.wlen
        <4> DEFINE m == Len(rxfifo) + 1
        <4>1. m \in Nat /\ m * MaxPacket >= MaxPacket
          BY <1>1, <2>2
        <4>2. got = MinOf((hreq.wlen - ctl.orem) + m * MaxPacket, hreq.wlen)
          BY <2>1, <2>3, <4>1 DEF Writing, Packets
        <4>3. m * MaxPacket \in Nat /\ ctl.orem \in 1..hreq.wlen
          BY <1>1, <2>1, <4>1 DEF Writing
        <4> HIDE DEF m
        <4>4. QED
          BY <1>1, <2>5, <4>1, <4>2, <4>3 DEF MinOf
      <3>3. stage = "status_in"
        BY <2>1, <2>2, <2>3, <3>2 DEF Writing, Packets
      <3>4. Ready' /\ in'.len = 0
        BY <1>1, <1>2, <2>1, <3>1 DEF Ready, Offers, Writing, MinOf
      <3>5. QED
        BY <3>1, <3>3, <3>4 DEF Ending, InTransfer
    <2>6. QED
      BY <1>1, <2>4, <2>5
  <1>5. QED
    BY <1>3, <1>4

\* usbd_core_setup_handler begins a transfer.
LEMMA SetupTransfer ==
  ASSUME \A r \in Requests : WellFormed(r),
         IInv, QueueInv, Waiting, SetupDone, ~wrong, NoSetup(rxfifo),
         hreq' = hreq, stage' = stage, got' = got
  PROVE  InTransfer'
  <1> DEFINE ans == Answer(hreq)
  <1>0. out.setup /\ setup = hreq /\ ~in.xferc /\ ~Served
    BY DEF SetupDone, QueueInv, AskInv, OwnInv, Served
  <1>1. hreq \in Requests /\ hreq.wlen \in Nat /\ Expected(hreq) \in Nat /\ MaxPacket \in Nat
        /\ MaxPacket > 0
    BY HostReqType, TransferTypes
  <1>2. /\ ans.a = "send" => FirstStage(hreq) = "in" /\ ans.n = Expected(hreq)
        /\ ans.a = "recv" => FirstStage(hreq) = "out" /\ ans.n = hreq.wlen /\ hreq.wlen > 0
        /\ ans.a = "status" => FirstStage(hreq) = "status_in"
        /\ ans.a = "nothing" => FirstStage(hreq) # "in"
    BY <1>1, AnswerFits
  <1>3. /\ ans \in Answers /\ ctl' \in Ctls
        /\ in'.xferc = in.xferc /\ ~out'.xferc
        /\ ctl'.wlen = hreq.wlen /\ mute' = (ans.a = "nothing")
        /\ ans.a \in {"stall", "stall_status"} =>
             in'.stall /\ out'.stall /\ ctl'.sts \in {"SETUP", "STATUS_IN"}
        /\ ans.a = "send" =>
             /\ Offers(ans.n) /\ ctl'.sts = "DATA_IN"
             /\ ctl'.slen = ans.n /\ ctl'.rem = ans.n
             /\ ans.n > 0 => ctl'.last = MinOf(ans.n, MaxPacket)
        /\ ans.a = "recv" => out'.armed /\ ctl'.sts = "DATA_OUT" /\ ctl'.orem = ans.n
        /\ ans.a = "status" => Offers(0) /\ ctl'.sts = "STATUS_IN"
        /\ ans.a = "nothing" => ctl'.sts = "SETUP"
    BY <1>0, SetupEffect DEF IInv
  <1>4. ans.a \in {"send", "recv", "status", "stall", "stall_status", "nothing"}
    BY <1>3 DEF Answers
  <1>5. rxfifo' = rxfifo /\ Current /\ ~out.xferc /\ Len(rxfifo) \in Nat
    BY CurrentIs, FifoLen, Types DEF SetupDone, IInv, Typed, Fifos
  <1>6. IF FirstStage(hreq) = "out"
        THEN /\ stage \in {"out", "status_in"}
             /\ \A m \in Nat : Sent(rxfifo, out.xferc, m) => Packets(m, 0)
        ELSE stage = FirstStage(hreq) /\ got = 0
    BY <1>0 DEF QueueInv, StartInv
  <1>7. FirstStage(hreq) = "out" => stage \in {"out", "status_in"}
    BY <1>6
  <1>8. FirstStage(hreq) \in {"in", "out", "status_in"}
    BY DEF FirstStage
  <1> HIDE DEF ans
  <1>9. CASE ans.a = "send"
    <2>1. Chunk' = MinOf(Expected(hreq), MaxPacket)
      BY <1>2, <1>3, <1>9 DEF Chunk
    <2>2. DataIn'
      BY <1>1, <1>2, <1>3, <1>9 DEF DataIn
    <2>3. Ready' /\ in'.len = Chunk'
      BY <1>0, <1>2, <1>3, <1>5, <1>9, <2>1 DEF Ready, Offers
    <2>4. Offered'
      BY <1>1, <1>2, <1>3, <1>6, <1>9, <2>1, <2>2, <2>3 DEF Offered
    <2>5. QED
      BY <2>4 DEF InTransfer
  <1>10. CASE ans.a = "recv"
    <2>1. \A m : Sent(rxfifo', out'.xferc, m) => Sent(rxfifo, out.xferc, m)
      BY <1>3, <1>5 DEF Sent
    <2>2. hreq.wlen - ctl'.orem = 0
      BY <1>1, <1>2, <1>3, <1>10
    <2>3. \A m \in Nat : Sent(rxfifo', out'.xferc, m) => Packets(m, hreq.wlen - ctl.orem)'
      BY <1>2, <1>6, <1>10, <2>1, <2>2 DEF Packets
    <2>4. Writing'
      BY <1>0, <1>1, <1>2, <1>3, <1>10, <2>3 DEF Writing
    <2>5. QED
      BY <2>4 DEF InTransfer
  <1>11. CASE ans.a = "status"
    <2>1. Ready' /\ in'.len = 0
      BY <1>0, <1>1, <1>3, <1>5, <1>11 DEF Ready, Offers, MinOf
    <2>2. QED
      BY <1>2, <1>3, <1>6, <1>11, <2>1 DEF Ending, InTransfer
  <1>12. CASE ans.a \in {"stall", "stall_status"}
    BY <1>3, <1>6, <1>7, <1>8, <1>12 DEF Stalled, InTransfer
  <1>13. CASE ans.a = "nothing"
    BY <1>2, <1>3, <1>6, <1>7, <1>8, <1>13 DEF Dropped, InTransfer
  <1>14. QED
    BY <1>4, <1>9, <1>10, <1>11, <1>12, <1>13

\* The host takes a packet of its read.
LEMMA HostInTransfer ==
  ASSUME IInv, Waiting, HostIn, InTransfer, Served
  PROVE  InTransfer'
  <1>1. /\ in \in InEpts /\ out \in OutEpts /\ ctl \in Ctls /\ MaxPacket \in Nat /\ MaxPacket > 0
        /\ ctl.rem \in Nat /\ in.len \in Nat /\ got \in Nat
        /\ hreq.wlen \in Nat /\ Expected(hreq) \in Nat /\ Expected(hreq) <= hreq.wlen
        /\ Chunk \in Nat /\ Chunk <= ctl.rem /\ Chunk <= MaxPacket
    BY TransferTypes
  <1>2. /\ stage = "in" /\ in.ena /\ ~in.stall /\ got' = got + in.len /\ hreq' = hreq
        /\ ctl' = ctl /\ out' = out
        /\ stage' = IF in.len < MaxPacket \/ got + in.len >= hreq.wlen
                    THEN "status_out" ELSE "in"
    BY DEF HostIn, TakePacket, InReady
  <1>3. in'.xferc /\ ~in'.ena
    BY TakeEffect DEF IInv, HostIn
  <1>4. ~Writing
    <2>1. Len(rxfifo) \in Nat /\ NoSetup(rxfifo)
      BY FifoLen, Types DEF IInv, Typed, Fifos, Served
    <2>2. \E m \in Nat : Sent(rxfifo, out.xferc, m)
      BY <2>1 DEF Sent
    <2>3. QED
      BY <1>2, <2>2 DEF Writing, Packets
  <1>5. Offered \/ ZlpOffered
    BY <1>2, <1>4 DEF InTransfer, Stalled, Dropped, Taken, ZlpTaken, ReadDone, Ending
  <1>6. Chunk' = Chunk /\ (DataIn => DataIn')
    BY <1>2 DEF Chunk, DataIn
  <1>7. CASE Offered
    <2>1. Taken'
      BY <1>1, <1>2, <1>3, <1>6, <1>7 DEF Offered, Taken
    <2>2. QED
      BY <2>1 DEF InTransfer
  <1>8. CASE ZlpOffered
    <2>1. ZlpTaken'
      BY <1>1, <1>2, <1>3, <1>6, <1>8 DEF ZlpOffered, ZlpTaken
    <2>2. QED
      BY <2>1 DEF InTransfer
  <1>9. QED
    BY <1>5, <1>7, <1>8

\* The host sends a packet of its write.
LEMMA HostOutTransfer ==
  ASSUME IInv, Waiting, HostOut, InTransfer
  PROVE  InTransfer'
  <1>1. /\ ctl.orem \in Nat /\ got \in Nat /\ hreq.wlen \in Nat /\ rxfifo \in Fifos
    BY TransferTypes, Types DEF IInv, Typed, Fifos
  <1>2. /\ stage = "out" /\ ~out.stall /\ hreq' = hreq /\ ctl' = ctl /\ in' = in /\ mute' = mute
        /\ got' = MinOf(got + MaxPacket, hreq.wlen)
        /\ stage' = IF got' = hreq.wlen THEN "status_in" ELSE "out"
        /\ rxfifo' = Append(rxfifo, NoReq) /\ out'.xferc = out.xferc
    BY OutEffect DEF HostOut, OutReady, hist, IInv
  <1>3. Dropped \/ Writing
    BY <1>2 DEF InTransfer, Stalled, Offered, Taken, ZlpOffered, ZlpTaken, ReadDone, Ending
  <1>4. CASE Dropped
    BY <1>2, <1>4 DEF Dropped, InTransfer
  <1>5. CASE Writing
    <2>1. ASSUME NEW m \in Nat, Sent(rxfifo', out'.xferc, m)
          PROVE  Packets(m, hreq.wlen - ctl.orem)' /\ m > 0
      <3>1. m > 0 /\ m - 1 \in Nat /\ Sent(rxfifo, out.xferc, m - 1)
        BY <1>1, <1>2, <2>1, FifoData
      <3>2. got = MinOf((hreq.wlen - ctl.orem) + (m - 1) * MaxPacket, hreq.wlen)
            /\ hreq.wlen - ctl.orem \in Nat
        BY <1>1, <1>5, <3>1 DEF Writing, Packets
      <3>3. got' = MinOf((hreq.wlen - ctl.orem) + m * MaxPacket, hreq.wlen)
        BY <1>1, <1>2, <3>1, <3>2, MorePackets
      <3>4. QED
        BY <1>2, <3>1, <3>3 DEF Packets
    <2>2. Writing'
      BY <1>2, <1>5, <2>1 DEF Writing
    <2>3. QED
      BY <2>2 DEF InTransfer
  <1>6. QED
    BY <1>3, <1>4, <1>5

\* A step that changes none of this, but for a packet that is read.
LEMMA SameTransfer ==
  ASSUME InTransfer, hreq' = hreq, stage' = stage, got' = got, mute' = mute,
         in' = in, ctl' = ctl, out'.armed = out.armed, out'.stall = out.stall,
         \A m : Sent(rxfifo', out'.xferc, m) => Sent(rxfifo, out.xferc, m)
  PROVE  InTransfer'
  <1>1. CASE Writing
    <2>1. \A m, d : Packets(m, d) => got' = MinOf(d + m * MaxPacket, hreq'.wlen)
                                     /\ stage' = IF got' = hreq'.wlen THEN "status_in" ELSE "out"
      BY DEF Packets
    <2>2. Writing'
      BY <1>1, <2>1 DEF Writing, Packets
    <2>3. QED
      BY <2>2 DEF InTransfer
  <1>2. CASE ~Writing
    BY <1>2 DEF InTransfer, Stalled, Dropped, Offered, Taken, ZlpOffered, ZlpTaken, ReadDone, Ending,
                DataIn, Chunk, Ready
  <1>3. QED
    BY <1>1, <1>2

\* Every step keeps the transfer.
LEMMA StepTransfer ==
  ASSUME \A r \in Requests : WellFormed(r)
  PROVE  IInv /\ QueueInv /\ TransferInv /\ [Next]_vars => TransferInv'
  <1> SUFFICES ASSUME IInv, QueueInv, TransferInv, [Next]_vars, Waiting', Served', ~wrong'
               PROVE  InTransfer'
    BY DEF TransferInv
  <1>0. TypeOK /\ Typed /\ IrqInv /\ PipeInv /\ AskInv /\ FlagInv /\ OwnInv /\ StartInv
    BY Types DEF IInv, QueueInv
  <1>1. CASE Waiting /\ UNCHANGED host /\ UNCHANGED <<wrong, late>>
             /\ (IrqEnter \/ Wakeup \/ Suspend \/ UNCHANGED vars)
    <2>1. /\ hreq' = hreq /\ stage' = stage /\ got' = got /\ mute' = mute
          /\ in' = in /\ ctl' = ctl /\ out' = out /\ rxfifo' = rxfifo
      BY <1>1 DEF IrqEnter, Wakeup, Suspend, vars, host, hist
    <2>2. InTransfer
      BY <1>1, <2>1 DEF TransferInv, Served
    <2>3. QED
      BY <2>1, <2>2, SameTransfer
  <1>2. CASE Waiting /\ UNCHANGED host /\ UNCHANGED <<wrong, late>> /\ (Reset \/ EnumDone)
    <2>1. "rst" \in flags \/ "enumdone" \in flags
      BY <1>0, <1>2, ServingOrder DEF Reset, EnumDone, IrqInv, Flags
    <2>2. ~NoSetup(rxfifo) /\ rxfifo' = rxfifo
      BY <1>0, <1>2, <2>1 DEF FlagInv, Reset, EnumDone
    <2>3. QED
      BY <2>2 DEF Served
  <1>3. CASE Waiting /\ UNCHANGED host /\ UNCHANGED <<wrong, late>> /\ InEpt
    <2>1. /\ hreq' = hreq /\ stage' = stage /\ got' = got /\ Served
      BY <1>0, <1>3, InEptEffect DEF host, InEpt, Served, SameOut
    <2>2. QED
      BY <1>3, <2>1, InEptTransfer DEF TransferInv
  <1>4. CASE Waiting /\ UNCHANGED host /\ UNCHANGED <<wrong, late>> /\ OutDone
    <2>1. /\ hreq' = hreq /\ stage' = stage /\ got' = got /\ Served
      BY <1>0, <1>4, OutDoneEffect DEF host, OutDone, Served
    <2>2. QED
      BY <1>4, <2>1, OutDoneTransfer DEF TransferInv
  <1>5. CASE Waiting /\ UNCHANGED host /\ UNCHANGED <<wrong, late>> /\ SetupDone
    <2>1. /\ hreq' = hreq /\ stage' = stage /\ got' = got /\ NoSetup(rxfifo) /\ ~wrong
      BY <1>0, <1>5 DEF host, SetupDone, Served
    <2>2. QED
      BY <1>5, <2>1, SetupTransfer
  <1>6. CASE Waiting /\ UNCHANGED host /\ UNCHANGED <<wrong, late>> /\ RxFlvl
    <2>1. /\ hreq' = hreq /\ stage' = stage /\ got' = got /\ mute' = mute /\ in' = in /\ ctl' = ctl
      BY <1>6 DEF host, RxFlvl, hist
    <2>2. /\ rxfifo' = Tail(rxfifo) /\ ~out.xferc /\ ~out.setup
          /\ (out'.xferc <=> Head(rxfifo) = NoReq) /\ (out'.setup <=> Head(rxfifo) # NoReq)
          /\ out'.armed = out.armed /\ out'.stall = out.stall
      BY <1>0, <1>6, RxFlvlEffect
    <2>3. rxfifo \in Fifos /\ rxfifo # <<>>
      BY <1>0, <1>6, RxFlvlEffect DEF Typed, Fifos
    <2>4. /\ \A m : Sent(rxfifo', out'.xferc, m) <=> Sent(rxfifo, out.xferc, m)
          /\ NoSetup(rxfifo) <=> NoSetup(rxfifo') /\ Head(rxfifo) = NoReq
      BY <2>2, <2>3, FifoRead
    <2>5. InTransfer
      BY <1>6, <2>2, <2>4 DEF Served, TransferInv
    <2>6. QED
      BY <2>1, <2>2, <2>4, <2>5, SameTransfer
  <1>7. ASSUME NEW r \in Requests, HostSetup(r) PROVE InTransfer'
    BY <1>0, <1>7, HostSetupEffect, CurrentIs DEF Served
  <1>8. CASE Waiting /\ HostIn
    <2>1. Served /\ ~wrong
      BY <1>8 DEF HostIn, Served
    <2>2. QED
      BY <1>8, <2>1, HostInTransfer DEF TransferInv
  <1>9. CASE Waiting /\ HostOut
    <2>1. Served /\ ~wrong
      BY <1>0, <1>9, OutEffect, CurrentIs DEF HostOut, Served, hist
    <2>2. QED
      BY <1>9, <2>1, HostOutTransfer DEF TransferInv
  <1>10. QED
    BY <1>1, <1>2, <1>3, <1>4, <1>5, <1>6, <1>7, <1>8, <1>9, WaitingSteps

\* The initial state.
LEMMA InitInv == Init => IInv /\ QueueInv /\ TransferInv
  <1> SUFFICES ASSUME Init PROVE IInv /\ QueueInv /\ TransferInv
    OBVIOUS
  <1>1. Typed
    <2>1. <<>> \in Seq(Requests \cup {NoReq}) /\ 0 \in 0..MaxPacket /\ 0 \in 0..MaxEvents
      BY CtrlAssumption
    <2>2. QED
      BY <2>1 DEF Init, Typed, States, Flags, InEpts, OutEpts, Ctls, Stages
  <1>2. IrqInv /\ PipeInv
    BY DEF Init, IrqInv, PipeInv, Waiting, Flags
  <1>3. ~Waiting
    BY DEF Init, Waiting
  <1>4. QED
    BY <1>1, <1>2, <1>3, Types
      DEF IInv, QueueInv, AskInv, FlagInv, OwnInv, StartInv, TransferInv

\* The three parts hold of every behaviour.
LEMMA Invariants ==
  ASSUME \A r \in Requests : WellFormed(r)
  PROVE  Spec => [](IInv /\ QueueInv /\ TransferInv)
  <1>1. IInv /\ QueueInv /\ TransferInv /\ [Next]_vars => (IInv /\ QueueInv /\ TransferInv)'
    BY StepIInv, StepQueue, StepTransfer
  <1>2. QED
    BY <1>1, InitInv, PTL DEF Spec

-----------------------------------------------------------------------------
(* Theorems.                                                               *)

\* The types hold, and endpoint 0 never has a SETUP and a completed transfer
\* of OUT at once, whatever the requests are.
THEOREM TypeCorrect == Spec => []TypeOK
  <1>1. Spec => []IInv
    BY InitInv, StepIInv, PTL DEF Spec
  <1>2. IInv => TypeOK
    BY DEF IInv
  <1>3. QED
    BY <1>1, <1>2, PTL

\* usbd_core_in_handler, usbd_ctrl_send and usb_write_empty_txfifo: a read that
\* the host ends has given it the whole answer, for every length of answer,
\* packet and request.
THEOREM ReadsAreWhole ==
  ASSUME \A r \in Requests : WellFormed(r)
  PROVE  Spec => []ReadsWhole
  <1>1. IInv /\ QueueInv /\ TransferInv => ReadsWhole
    <2> SUFFICES ASSUME IInv, QueueInv, TransferInv, stage = "status_out", ~wrong
                 PROVE  got = Expected(hreq)
      BY DEF ReadsWhole
    <2>1. Waiting
      BY DEF Waiting
    <2>2. /\ MaxPacket \in Nat /\ MaxPacket > 0 /\ ctl.rem \in Nat /\ got \in Nat
          /\ hreq.wlen \in Nat /\ Expected(hreq) \in Nat /\ Expected(hreq) <= hreq.wlen
          /\ Chunk \in Nat /\ Chunk <= ctl.rem /\ Chunk <= MaxPacket
          /\ Chunk = ctl.rem \/ Chunk = MaxPacket
      BY <2>1, TransferTypes
    <2>3. Len(rxfifo) \in Nat /\ rxfifo \in Fifos
      BY FifoLen, Types DEF IInv, Typed, Fifos
    <2>4. Served
      <3>1. SUFFICES ASSUME ~Served PROVE FALSE
        OBVIOUS
      <3>2. stage \in {"out", "status_in", FirstStage(hreq)}
        BY <2>1, <3>1 DEF QueueInv, StartInv
      <3>3. QED
        BY <3>2 DEF FirstStage
    <2>5. InTransfer /\ ~Writing
      <3>1. InTransfer
        BY <2>1, <2>4 DEF TransferInv
      <3>2. \E m \in Nat : Sent(rxfifo, out.xferc, m)
        BY <2>3, <2>4 DEF Sent, Served
      <3>3. QED
        BY <3>1, <3>2 DEF Writing, Packets
    <2>6. Taken \/ ZlpTaken \/ ReadDone
      BY <2>5 DEF InTransfer, Stalled, Dropped, Offered, ZlpOffered, Ending
    <2>7. QED
      BY <2>2, <2>6 DEF Taken, ZlpTaken, ReadDone, DataIn
  <1>2. QED
    BY <1>1, Invariants, PTL

\* usbd_core.c and usbd_int.c: the device never waits for a host that waits
\* for it, in whatever order the handlers and the host take their steps.
THEOREM NeverBothWait ==
  ASSUME \A r \in Requests : WellFormed(r)
  PROVE  Spec => []NoMutualWait
  <1>1. IInv /\ QueueInv /\ TransferInv => NoMutualWait
    <2> SUFFICES ASSUME IInv, QueueInv, TransferInv, Waiting, Quiet, ~mute, ~wrong
                 PROVE  \/ stage \in {"in", "status_in"} /\ (InReady \/ in.stall)
                        \/ stage \in {"out", "status_out"} /\ (out.armed \/ out.stall)
      BY DEF NoMutualWait
    <2>1. rxfifo = <<>> /\ ~in.xferc /\ ~Femp /\ ~out.xferc /\ ~out.setup
      BY DEF Quiet, Pending
    <2>2. NoSetup(rxfifo) /\ Len(rxfifo) = 0
      BY <2>1 DEF NoSetup
    <2>3. InTransfer
      BY <2>1, <2>2 DEF TransferInv, Served
    <2>4. Ready => InReady \/ in.stall
      <3>1. in.len \in Nat /\ in.fifo \in Nat
        BY TransferTypes DEF InEpts
      <3>2. QED
        BY <2>1, <3>1 DEF Ready, InReady, Femp, IInv, PipeInv
    <2>5. CASE Writing
      <3>1. Sent(rxfifo, out.xferc, 0)
        BY <2>1, <2>2 DEF Sent
      <3>2. out.armed /\ Packets(0, hreq.wlen - ctl.orem) /\ ctl.orem \in 1..hreq.wlen
        BY <2>5, <3>1 DEF Writing
      <3>3. stage \in {"out", "status_in"} /\ got = MinOf(hreq.wlen - ctl.orem, hreq.wlen)
            /\ (stage = "status_in" => got = hreq.wlen)
        <4>1. (hreq.wlen - ctl.orem) + 0 * MaxPacket = hreq.wlen - ctl.orem
          BY <3>2, TransferTypes
        <4>2. QED
          BY <3>2, <4>1 DEF Packets
      <3>4. stage = "out"
        BY <3>2, <3>3, TransferTypes DEF MinOf
      <3>5. QED
        BY <3>2, <3>4
    <2>6. CASE ~Writing
      BY <2>1, <2>3, <2>4, <2>6
        DEF InTransfer, Stalled, Dropped, Offered, Taken, ZlpOffered, ZlpTaken, ReadDone, Ending
    <2>7. QED
      BY <2>5, <2>6
  <1>2. QED
    BY <1>1, Invariants, PTL

-----------------------------------------------------------------------------
(* A host that abandons nothing.                                           *)

\* The FIFO holds one SETUP at most; a packet is at its head.
AtMostOne(s) ==
  \A i, j \in 1..Len(s) : s[i] # NoReq /\ s[j] # NoReq => i = j
Leads(s) == s # <<>> /\ Head(s) = NoReq

\* Such a FIFO stays one as packets are read and appended.
LEMMA FifoOne ==
  ASSUME NEW s \in Fifos
  PROVE  /\ NoSetup(s) => AtMostOne(s)
         /\ s # <<>> /\ AtMostOne(s) => AtMostOne(Tail(s))
         /\ s # <<>> /\ AtMostOne(s) /\ Head(s) # NoReq => NoSetup(Tail(s))
         /\ \A r \in Requests : NoSetup(s) => AtMostOne(Append(s, r))
         /\ \A r \in Requests : Leads(Append(s, r)) => Leads(s)
         /\ AtMostOne(s) => AtMostOne(Append(s, NoReq))
         /\ ~NoSetup(s) /\ Leads(Append(s, NoReq)) => Leads(s)
  <1>1. /\ Len(s) \in Nat /\ (NoSetup(s) <=> \A i \in 1..Len(s) : s[i] = NoReq)
        /\ (s # <<>> => Len(s) > 0) /\ (s = <<>> => Len(s) = 0)
    BY FifoLen
  <1>2. NoSetup(s) => AtMostOne(s)
    BY <1>1 DEF AtMostOne
  <1>3. ASSUME s # <<>>, AtMostOne(s)
        PROVE  AtMostOne(Tail(s)) /\ (Head(s) # NoReq => NoSetup(Tail(s)))
    <2>1. /\ Tail(s) \in Fifos /\ Len(Tail(s)) = Len(s) - 1
          /\ \A i \in 1..(Len(s) - 1) : Tail(s)[i] = s[i + 1] /\ i + 1 \in 1..Len(s)
          /\ Head(s) = s[1]
      BY <1>1, <1>3, FifoTail DEF Fifos
    <2>2. AtMostOne(Tail(s))
      BY <1>1, <1>3, <2>1 DEF AtMostOne
    <2>3. ASSUME Head(s) # NoReq, NEW i \in 1..(Len(s) - 1) PROVE Tail(s)[i] = NoReq
      <3>1. i + 1 # 1 /\ 1 \in 1..Len(s) /\ i + 1 \in 1..Len(s)
        BY <1>1, <2>1
      <3>2. s[i + 1] = NoReq
        BY <1>3, <2>1, <2>3, <3>1 DEF AtMostOne
      <3>3. QED
        BY <2>1, <3>2
    <2>4. NoSetup(Tail(s)) <=> \A i \in 1..(Len(s) - 1) : Tail(s)[i] = NoReq
      BY <2>1, FifoLen
    <2>5. QED
      BY <2>2, <2>3, <2>4
  <1>4. ASSUME NEW x \in Requests \cup {NoReq}
        PROVE  /\ Len(Append(s, x)) = Len(s) + 1 /\ Append(s, x)[Len(s) + 1] = x
               /\ \A i \in 1..Len(s) : Append(s, x)[i] = s[i]
               /\ Append(s, x) # <<>> /\ Head(Append(s, x)) = Append(s, x)[1]
               /\ Head(Append(s, x)) = IF s = <<>> THEN x ELSE Head(s)
    <2>1. /\ Append(s, x) \in Fifos /\ Len(Append(s, x)) = Len(s) + 1
          /\ Append(s, x)[Len(s) + 1] = x /\ Append(s, x) # <<>>
          /\ \A i \in 1..Len(s) : Append(s, x)[i] = s[i]
      BY <1>4, FifoAppend DEF Fifos
    <2>2. Head(Append(s, x)) = Append(s, x)[1]
      BY <2>1, FifoTail DEF Fifos
    <2>3. s # <<>> => Head(s) = s[1]
      BY FifoTail DEF Fifos
    <2>4. QED
      BY <1>1, <2>1, <2>2, <2>3
  <1>5. ASSUME NEW r \in Requests
        PROVE  /\ NoSetup(s) => AtMostOne(Append(s, r))
               /\ Leads(Append(s, r)) => Leads(s)
    <2>1. r # NoReq
      BY CtrlAssumption
    <2>2. QED
      BY <1>1, <1>4, <2>1 DEF AtMostOne, Leads
  <1>6. /\ AtMostOne(s) => AtMostOne(Append(s, NoReq))
        /\ ~NoSetup(s) /\ Leads(Append(s, NoReq)) => Leads(s)
    <2>1. ~NoSetup(s) => s # <<>>
      BY <1>1
    <2>2. QED
      BY <1>1, <1>4, <2>1 DEF AtMostOne, Leads
  <1>7. QED
    BY <1>2, <1>3, <1>5, <1>6

\* usbd_core_in_handler would send a packet.
Sends == ctl.sts = "DATA_IN" /\ (ctl.rem > MaxPacket \/ ZlpDue)

\* A request is answered before the host ends it, and until then nothing of
\* an older one is sent, asked for or stalled.
QuietInv ==
  /\ ~wrong
  /\ ~Waiting => Served
  /\ ~Served => in.nak /\ ~in.stall /\ ~out.stall
  /\ in.xferc /\ (~Waiting \/ ~Served) => ~Sends
  /\ (out.xferc \/ Leads(rxfifo)) /\ (~Waiting \/ ~NoSetup(rxfifo)) => ctl.sts # "DATA_OUT"
  /\ out.setup => NoSetup(rxfifo)
  /\ AtMostOne(rxfifo)

\* The endpoint sends nothing for a write that is not served or is dropped,
\* and OUT is stalled with IN.
AnsweredInv ==
  Waiting /\ Served =>
    /\ ctl.sts = "DATA_OUT" \/ (ctl.sts = "SETUP" /\ mute) => in.nak
    /\ Stalled \/ (~in.stall /\ ~out.stall)

OrderInv == ~late => QuietInv /\ AnsweredInv

\* What the host finds when it ends a transfer.
LEMMA EndsServed ==
  ASSUME IInv, QueueInv, TransferInv, QuietInv, AnsweredInv, ~late
  PROVE  /\ HostIn => Served /\ in.own /\ ~Stalled
         /\ HostStatusIn => Served /\ in.own /\ in.len = 0 /\ ctl.sts = "STATUS_IN" /\ ~Stalled
         /\ HostStatusOut => /\ Served /\ ctl.sts # "DATA_OUT" /\ ~Sends /\ ~Stalled
                             /\ FirstStage(hreq) = "in"
         /\ HostStalled => Served /\ Stalled
  <1>0. Waiting => stage \in {"out", "status_in", FirstStage(hreq)} \/ Served
    BY DEF QueueInv, StartInv, QuietInv
  <1>1. Waiting /\ Served => InTransfer
    BY DEF TransferInv, QuietInv
  <1>2. Waiting /\ Served => \E m \in Nat : Sent(rxfifo, out.xferc, m)
    <2>1. Len(rxfifo) \in Nat
      BY FifoLen, Types DEF IInv, Typed, Fifos
    <2>2. QED
      BY <2>1 DEF Sent, Served
  <1>3. Waiting /\ Served /\ Writing => stage \in {"out", "status_in"}
    BY <1>2 DEF Writing, Packets
  <1>4. ASSUME HostIn PROVE Served /\ in.own /\ ~Stalled
    <2>1. Waiting /\ stage = "in" /\ in.ena /\ ~in.nak /\ ~in.stall
      BY <1>4 DEF HostIn, Waiting, TakePacket, InReady
    <2>2. Served
      BY <2>1 DEF QuietInv
    <2>3. QED
      BY <1>1, <1>3, <2>1, <2>2
        DEF InTransfer, Stalled, Dropped, Offered, Taken, ZlpOffered, ZlpTaken, ReadDone, Ending, Ready
  <1>5. ASSUME HostStatusIn
        PROVE  Served /\ in.own /\ in.len = 0 /\ ctl.sts = "STATUS_IN" /\ ~Stalled
    <2>1. Waiting /\ stage = "status_in" /\ in.ena /\ ~in.nak /\ ~in.stall
      BY <1>5 DEF HostStatusIn, Waiting, TakePacket, InReady
    <2>2. Served
      BY <2>1 DEF QuietInv
    <2>3. ~Writing /\ ~Dropped
      BY <2>1, <2>2 DEF AnsweredInv, Writing, Dropped
    <2>4. ~Taken
      BY <2>1 DEF Taken
    <2>5. Ending
      BY <1>1, <2>1, <2>2, <2>3, <2>4
        DEF InTransfer, Stalled, Offered, ZlpOffered, ZlpTaken, ReadDone
    <2>6. QED
      BY <2>1, <2>2, <2>5 DEF Ending, Ready, Stalled
  <1>6. ASSUME HostStatusOut
        PROVE  Served /\ ctl.sts # "DATA_OUT" /\ ~Sends /\ ~Stalled /\ FirstStage(hreq) = "in"
    <2>1. Waiting /\ stage = "status_out" /\ ~out.stall
      BY <1>6 DEF HostStatusOut, Waiting, OutReady
    <2>2. Served
      BY <1>0, <2>1 DEF FirstStage
    <2>3. Taken \/ ZlpTaken \/ ReadDone
      BY <1>1, <1>3, <2>1, <2>2 DEF InTransfer, Stalled, Dropped, Offered, ZlpOffered, Ending
    <2>4. /\ MaxPacket \in Nat /\ MaxPacket > 0 /\ ctl.rem \in Nat /\ got \in Nat
          /\ hreq.wlen \in Nat /\ Expected(hreq) \in Nat /\ Expected(hreq) <= hreq.wlen
          /\ Chunk \in Nat /\ Chunk <= ctl.rem /\ Chunk <= MaxPacket
          /\ Chunk = ctl.rem \/ Chunk = MaxPacket
      BY <2>1, TransferTypes
    <2>5. CASE ReadDone
      BY <2>1, <2>2, <2>5 DEF ReadDone, Sends, Stalled
    <2>6. CASE ZlpTaken
      BY <2>1, <2>2, <2>4, <2>6 DEF ZlpTaken, DataIn, Sends, ZlpDue, Stalled
    <2>7. CASE Taken
      <3>1. DataIn /\ (Chunk < MaxPacket \/ got >= hreq.wlen)
        BY <2>1, <2>7 DEF Taken
      <3>2. ~(ctl.rem > MaxPacket)
        BY <2>4, <2>7, <3>1 DEF Taken, DataIn
      <3>3. ~ZlpDue
        BY <2>4, <2>7, <3>1 DEF Taken, DataIn, ZlpDue
      <3>4. QED
        BY <2>1, <2>2, <2>7, <3>2, <3>3 DEF Taken, DataIn, Sends, Stalled
    <2>8. QED
      BY <2>3, <2>5, <2>6, <2>7
  <1>7. ASSUME HostStalled PROVE Served /\ Stalled
    <2>1. Waiting /\ (in.stall \/ out.stall)
      BY <1>7 DEF HostStalled, Waiting
    <2>2. QED
      BY <2>1 DEF QuietInv, AnsweredInv
  <1>8. QED
    BY <1>4, <1>5, <1>6, <1>7

\* A step of the host or the bus.
LEMMA StepOrderHost ==
  ASSUME IInv, QueueInv, TransferInv, QuietInv, AnsweredInv, ~late,
         \/ \E r \in Requests : HostSetup(r)
         \/ HostIn \/ HostStatusIn \/ HostOut \/ HostStatusOut \/ HostStalled
         \/ BusEnumDone \/ HostSuspend \/ HostResume
  PROVE  QuietInv' /\ AnsweredInv'
  <1>0. TypeOK /\ Typed /\ IrqInv /\ rxfifo \in Fifos
    BY Types DEF IInv, Typed, Fifos
  <1>1. ASSUME NEW r \in Requests, HostSetup(r) PROVE QuietInv' /\ AnsweredInv'
    <2>1. /\ ~Waiting /\ ~wrong' /\ ctl' = ctl
          /\ stage' = FirstStage(r)
      BY <1>1 DEF HostSetup, Waiting
    <2>2. /\ rxfifo' = Append(rxfifo, r) /\ ~NoSetup(rxfifo')
          /\ in'.nak /\ ~in'.stall /\ ~out'.stall /\ in'.xferc = in.xferc
          /\ out'.xferc = out.xferc /\ out'.setup = out.setup
          /\ FirstStage(r) \in {"in", "out", "status_in"}
      BY <1>0, <1>1, HostSetupEffect, CurrentIs
    <2>3. Served
      BY <2>1 DEF QuietInv
    <2>4. AtMostOne(rxfifo') /\ (Leads(rxfifo') => Leads(rxfifo))
      BY <1>0, <2>2, <2>3, FifoOne DEF Served
    <2>5. Sends' = Sends
      BY <2>1 DEF Sends, ZlpDue
    <2>6. QuietInv'
      BY <2>1, <2>2, <2>3, <2>4, <2>5 DEF QuietInv, Served, Waiting
    <2>7. AnsweredInv'
      BY <2>2 DEF AnsweredInv, Served
    <2>8. QED
      BY <2>6, <2>7
  <1>2. CASE HostIn
    <2>1. Served /\ in.own /\ ~Stalled /\ stage = "in"
      BY <1>2, EndsServed DEF HostIn
    <2>2. /\ ~wrong' /\ ctl' = ctl /\ out' = out /\ rxfifo' = rxfifo
          /\ stage' \in {"in", "status_out"} /\ mute' = mute
      BY <1>2, <2>1 DEF HostIn, QuietInv
    <2>3. in'.nak = in.nak /\ in'.stall = in.stall /\ in'.xferc
      BY <1>0, <1>2, TakeEffect DEF HostIn
    <2>4. QuietInv'
      BY <2>1, <2>2 DEF QuietInv, Served, Waiting
    <2>5. AnsweredInv'
      BY <2>1, <2>2, <2>3 DEF AnsweredInv, Served, Waiting
    <2>6. QED
      BY <2>4, <2>5
  <1>3. CASE HostStatusIn
    <2>1. Served /\ in.own /\ in.len = 0 /\ ctl.sts = "STATUS_IN" /\ stage = "status_in"
      BY <1>3, EndsServed DEF HostStatusIn
    <2>2. /\ ~wrong' /\ ctl' = ctl /\ out' = out /\ rxfifo' = rxfifo /\ stage' = "idle"
      BY <1>3, <2>1 DEF HostStatusIn, QuietInv
    <2>3. QED
      BY <2>1, <2>2 DEF QuietInv, AnsweredInv, Served, Waiting, Sends
  <1>4. CASE HostOut
    <2>1. /\ stage = "out" /\ ctl' = ctl /\ in' = in /\ wrong' = wrong /\ mute' = mute
          /\ stage' \in {"out", "status_in"}
      BY <1>4 DEF HostOut, hist
    <2>2. /\ rxfifo' = Append(rxfifo, NoReq)
          /\ ~out.stall /\ ~out'.stall /\ out'.xferc = out.xferc /\ out'.setup = out.setup
      BY <1>0, <1>4, OutEffect
    <2>3. NoSetup(rxfifo') <=> NoSetup(rxfifo)
      BY <1>0, <2>2, FifoData
    <2>4. /\ AtMostOne(rxfifo) => AtMostOne(rxfifo')
          /\ ~NoSetup(rxfifo) /\ Leads(rxfifo') => Leads(rxfifo)
      BY <1>0, <2>2, FifoOne
    <2>5. Sends' = Sends
      BY <2>1 DEF Sends, ZlpDue
    <2>6. QuietInv'
      BY <2>1, <2>2, <2>3, <2>4, <2>5 DEF QuietInv, Served, Waiting
    <2>7. AnsweredInv'
      BY <2>1, <2>2, <2>3 DEF AnsweredInv, Served, Waiting, Stalled
    <2>8. QED
      BY <2>6, <2>7
  <1>5. CASE HostStatusOut
    <2>1. Served /\ ctl.sts # "DATA_OUT" /\ ~Sends
      BY <1>5, EndsServed
    <2>2. /\ ctl' = ctl /\ in' = in /\ wrong' = wrong /\ stage' = "idle"
      BY <1>5 DEF HostStatusOut, hist
    <2>3. /\ rxfifo' = Append(rxfifo, NoReq) /\ out'.setup = out.setup
      BY <1>0, <1>5, OutEffect
    <2>4. NoSetup(rxfifo') <=> NoSetup(rxfifo)
      BY <1>0, <2>3, FifoData
    <2>5. AtMostOne(rxfifo) => AtMostOne(rxfifo')
      BY <1>0, <2>3, FifoOne
    <2>6. Sends' = Sends
      BY <2>2 DEF Sends, ZlpDue
    <2>7. QED
      BY <2>1, <2>2, <2>3, <2>4, <2>5, <2>6 DEF QuietInv, AnsweredInv, Served, Waiting
  <1>6. CASE HostStalled
    <2>1. Served /\ Stalled
      BY <1>6, EndsServed
    <2>2. /\ ctl' = ctl /\ in' = in /\ out' = out /\ rxfifo' = rxfifo /\ wrong' = wrong /\ stage' = "idle"
      BY <1>6 DEF HostStalled, hist
    <2>3. QED
      BY <2>1, <2>2 DEF QuietInv, AnsweredInv, Served, Waiting, Sends, Stalled
  <1>7. CASE BusEnumDone \/ HostSuspend \/ HostResume
    <2>1. /\ ctl' = ctl /\ in' = in /\ out' = out /\ rxfifo' = rxfifo /\ wrong' = wrong
          /\ ~Waiting /\ ~Waiting'
      BY <1>0, <1>7 DEF BusEnumDone, HostSuspend, HostResume, host, hist, Waiting, IrqInv
    <2>2. QED
      BY <2>1 DEF QuietInv, AnsweredInv, Served, Sends, ZlpDue
  <1>8. QED
    BY <1>1, <1>2, <1>3, <1>4, <1>5, <1>6, <1>7

\* A step of the interrupt handler, or none.
LEMMA StepOrderIrq ==
  ASSUME IInv, QueueInv, TransferInv, QuietInv, AnsweredInv, ~late, Irq \/ UNCHANGED vars
  PROVE  QuietInv' /\ AnsweredInv'
  <1>0. TypeOK /\ Typed /\ IrqInv /\ PipeInv /\ rxfifo \in Fifos
    BY Types DEF IInv, Typed, Fifos
  <1>1. stage' = stage /\ wrong' = wrong /\ hreq' = hreq /\ got' = got /\ (Waiting' <=> Waiting)
    BY DEF Irq, IrqEnter, InEpt, OutDone, SetupDone, Reset, EnumDone, RxFlvl, Wakeup, Suspend,
           vars, host, hist, Waiting
  <1>2. CASE IrqEnter \/ EnumDone \/ Wakeup \/ Suspend \/ UNCHANGED vars
    <2>1. ctl' = ctl /\ in' = in /\ out' = out /\ rxfifo' = rxfifo /\ mute' = mute
      BY <1>2 DEF IrqEnter, EnumDone, Wakeup, Suspend, vars, hist
    <2>2. QED
      BY <1>1, <2>1 DEF QuietInv, AnsweredInv, Served, Sends, ZlpDue, Stalled
  <1>3. CASE Reset
    <2>1. /\ in'.nak /\ ~in'.xferc /\ ~in'.stall /\ ~out'.stall /\ ~out'.xferc /\ ~out'.setup
          /\ rxfifo' = rxfifo /\ ctl' = ctl
      BY <1>0, <1>3, ResetEffect DEF Reset
    <2>2. QED
      BY <1>1, <2>1 DEF QuietInv, AnsweredInv, Served
  <1>4. CASE InEpt
    <2>0. /\ rxfifo' = rxfifo /\ mute' = mute
      BY <1>4 DEF InEpt, hist
    <2>1. /\ ~in'.xferc /\ in'.stall = in.stall /\ out'.stall = out.stall
          /\ out'.xferc = out.xferc /\ out'.setup = out.setup
      BY <1>0, <1>4, InEptEffect DEF SameOut
    <2>2. \/ SameIn /\ ctl' = ctl
          \/ in.xferc /\ ctl.sts = "DATA_IN" /\ Sends /\ ctl'.sts = "DATA_IN"
          \/ SameIn /\ ctl.sts = "DATA_IN" /\ ctl'.sts = "STATUS_OUT"
      BY <1>0, <1>4, InEptEffect DEF Sends, Typed, Ctls
    <2>3. ~Waiting \/ ~Served => SameIn
      BY <2>2 DEF QuietInv
    <2>4. ctl'.sts \in {"DATA_OUT", "SETUP", "STATUS_IN"} => SameIn /\ ctl' = ctl
      BY <2>2
    <2>5. ctl.sts \in {"SETUP", "STATUS_IN"} => ctl' = ctl
      BY <2>2
    <2>6. QuietInv'
      BY <1>1, <2>0, <2>1, <2>3, <2>4 DEF QuietInv, Served, SameIn
    <2>7. AnsweredInv'
      BY <1>1, <2>0, <2>1, <2>4, <2>5 DEF AnsweredInv, Served, SameIn, Stalled
    <2>8. QED
      BY <2>6, <2>7
  <1>5. CASE OutDone
    <2>0. /\ rxfifo' = rxfifo /\ mute' = mute
      BY <1>5 DEF OutDone, hist
    <2>1. /\ out.xferc /\ ~out.setup /\ ~out'.xferc /\ ~out'.setup
          /\ in'.xferc = in.xferc /\ in'.stall = in.stall /\ out'.stall = out.stall
      BY <1>0, <1>5, OutDoneEffect
    <2>2. \/ ctl.sts # "DATA_OUT" /\ in' = in /\ ctl' = ctl
          \/ ctl.sts = "DATA_OUT" /\ in' = in /\ ctl'.sts = "DATA_OUT"
          \/ ctl.sts = "DATA_OUT" /\ ctl'.sts = "STATUS_IN"
      BY <1>0, <1>5, OutDoneEffect DEF Typed, Ctls
    <2>3. ~Waiting \/ ~Served => in' = in /\ ctl' = ctl
      BY <2>1, <2>2 DEF QuietInv, Served
    <2>4. ctl'.sts \in {"DATA_OUT", "SETUP"} => in' = in /\ ctl'.sts = ctl.sts
      BY <2>2
    <2>5. ctl.sts \in {"SETUP", "STATUS_IN"} => ctl' = ctl
      BY <2>2
    <2>6. ctl' = ctl => Sends' = Sends
      BY DEF Sends, ZlpDue
    <2>7. Leads(rxfifo') = Leads(rxfifo) /\ NoSetup(rxfifo') = NoSetup(rxfifo)
      BY <2>0
    <2>8. QuietInv'
      BY <1>1, <2>0, <2>1, <2>3, <2>6 DEF QuietInv, Served
    <2>9. AnsweredInv'
      BY <1>1, <2>0, <2>1, <2>4, <2>5 DEF AnsweredInv, Served, Stalled
    <2>10. QED
      BY <2>8, <2>9
  <1>6. CASE SetupDone
    <2>0. /\ rxfifo' = rxfifo /\ out.setup
      BY <1>6 DEF SetupDone
    <2>1. NoSetup(rxfifo) /\ ~Served /\ Waiting /\ in.nak /\ ~in.stall /\ ~out.stall
      BY <2>0 DEF QuietInv, Served
    <2> DEFINE ans == Answer(setup)
    <2>2. /\ ans \in Answers /\ ~out'.xferc /\ ~out'.setup
          /\ mute' = (ans.a = "nothing")
          /\ IF ans.a \in {"stall", "stall_status"}
             THEN in'.stall /\ out'.stall /\ ctl'.sts \in {"SETUP", "STATUS_IN"}
             ELSE in'.stall = in.stall /\ out'.stall = out.stall
          /\ ans.a = "send" => ctl'.sts = "DATA_IN"
          /\ ans.a = "recv" => in' = in
          /\ ans.a = "status" => ctl'.sts = "STATUS_IN"
          /\ ans.a = "nothing" => in' = in
      BY <1>0, <1>6, SetupEffect
    <2>3. ans.a \in {"send", "recv", "status", "stall", "stall_status", "nothing"}
      BY <2>2 DEF Answers
    <2>4. stage \in {"in", "out", "status_in"}
      BY <2>1 DEF QueueInv, StartInv, QuietInv, FirstStage
    <2> HIDE DEF ans
    <2>5. QuietInv'
      BY <1>1, <2>0, <2>1, <2>2 DEF QuietInv, Served
    <2>6. AnsweredInv'
      BY <1>1, <2>1, <2>2, <2>3, <2>4 DEF AnsweredInv, Stalled
    <2>7. QED
      BY <2>5, <2>6
  <1>7. CASE RxFlvl
    <2>1. /\ ctl' = ctl /\ in' = in /\ mute' = mute
      BY <1>7 DEF RxFlvl, hist
    <2>2. /\ rxfifo' = Tail(rxfifo) /\ rxfifo # <<>> /\ ~out.xferc /\ ~out.setup
          /\ (out'.xferc <=> Head(rxfifo) = NoReq) /\ (out'.setup <=> Head(rxfifo) # NoReq)
          /\ out'.stall = out.stall
      BY <1>0, <1>7, RxFlvlEffect
    <2>3. NoSetup(rxfifo) <=> NoSetup(rxfifo') /\ Head(rxfifo) = NoReq
      BY <1>0, <2>2, FifoRead
    <2>4. /\ AtMostOne(rxfifo')
          /\ Head(rxfifo) # NoReq => NoSetup(rxfifo')
      BY <1>0, <2>2, FifoOne DEF QuietInv
    <2>5. Served' <=> Served
      BY <2>2, <2>3 DEF Served
    <2>6. Sends' = Sends
      BY <2>1 DEF Sends, ZlpDue
    <2>7. (out'.xferc \/ Leads(rxfifo')) /\ (~Waiting \/ ~NoSetup(rxfifo')) => ctl.sts # "DATA_OUT"
      <3>1. SUFFICES ASSUME out'.xferc \/ Leads(rxfifo'), ~Waiting \/ ~NoSetup(rxfifo')
                     PROVE  Leads(rxfifo) /\ (~Waiting \/ ~NoSetup(rxfifo))
        BY DEF QuietInv
      <3>2. ~Waiting => NoSetup(rxfifo)
        BY DEF QuietInv, Served
      <3>3. Head(rxfifo) = NoReq
        BY <2>3, <2>4, <3>1, <3>2
      <3>4. QED
        BY <2>2, <2>3, <3>1, <3>3 DEF Leads
    <2>8. QuietInv'
      BY <1>1, <2>1, <2>2, <2>4, <2>5, <2>6, <2>7 DEF QuietInv
    <2>9. AnsweredInv'
      BY <1>1, <2>1, <2>2, <2>5 DEF AnsweredInv, Stalled
    <2>10. QED
      BY <2>8, <2>9
  <1>8. QED
    BY <1>2, <1>3, <1>4, <1>5, <1>6, <1>7 DEF Irq

\* The steps keep the order, if no request was abandoned.
LEMMA StepOrder ==
  ASSUME \A r \in Requests : WellFormed(r)
  PROVE  /\ IInv /\ QueueInv /\ TransferInv /\ OrderInv
         /\ IInv' /\ QueueInv' /\ TransferInv' /\ [Next]_vars
         => OrderInv'
  <1> SUFFICES ASSUME IInv, QueueInv, TransferInv, OrderInv,
                      IInv', QueueInv', TransferInv', [Next]_vars, ~late'
               PROVE  QuietInv' /\ AnsweredInv'
    BY DEF OrderInv
  <1>1. CASE HostReset
    <2>1. rxfifo = <<>> /\ ~out.setup /\ ~out.xferc /\ ~in.xferc
      BY <1>1 DEF HostReset
    <2>2. /\ stage' = "reset" /\ ~wrong' /\ rxfifo' = rxfifo /\ out' = out /\ in' = in
      BY <1>1 DEF HostReset
    <2>3. NoSetup(rxfifo) /\ AtMostOne(rxfifo) /\ ~Leads(rxfifo)
      <3>1. rxfifo \in Fifos
        BY Types DEF IInv, Typed, Fifos
      <3>2. NoSetup(rxfifo) /\ ~Leads(rxfifo)
        BY <2>1 DEF NoSetup, Leads
      <3>3. QED
        BY <3>1, <3>2, FifoOne
    <2>4. QED
      BY <2>1, <2>2, <2>3 DEF QuietInv, AnsweredInv, Waiting, Served
  <1>2. CASE ~HostReset
    <2>1. ~late /\ ~HostAbandon
      BY <1>2 DEF Next, Irq, HostStage, IrqEnter, InEpt, OutDone, SetupDone, Reset, EnumDone, RxFlvl,
                  Wakeup, Suspend, HostSetup, HostIn, HostStatusIn, HostOut, HostStatusOut,
                  HostStalled, HostAbandon, BusEnumDone, HostSuspend, HostResume, vars, hist
    <2>2. QuietInv /\ AnsweredInv
      BY <2>1 DEF OrderInv
    <2>3. QED
      BY <1>2, <2>1, <2>2, StepOrderHost, StepOrderIrq DEF Next, HostStage
  <1>3. QED
    BY <1>1, <1>2

-----------------------------------------------------------------------------
(* The state of the device.                                                *)

\* usbd_suspend_handler keeps a state that is not SUSPENDED: a wakeup, or the
\* reset that takes its place, is served before the next suspend.
SuspInv ==
  /\ hstate # "SUSPENDED" /\ (stage = "reset" => hstate = "DEFAULT")
  /\ old_conn_state # "SUSPENDED"
  /\ conn_state = "SUSPENDED" =>
       /\ suspsts \/ "wkup" \in flags \/ "rst" \in flags
       /\ "susp" \in flags => "wkup" \in flags \/ "rst" \in flags
       /\ "susp" \in pass => "wkup" \in pass \/ "rst" \in pass

\* The device's state and address when what is pending of resets and wakeups
\* is served.
DevState == IF {"rst", "enumdone"} \cap flags # {} THEN "DEFAULT"
            ELSE IF conn_state = "SUSPENDED" THEN old_conn_state ELSE conn_state
DevAddr == IF "rst" \in flags THEN 0 ELSE addr

\* The host's view when its request is done.
Target == CASE hreq.kind = "set_address" -> IF hreq.n = 0 THEN "DEFAULT" ELSE "ADDRESSED"
            [] hreq.kind = "set_config" -> IF hreq.n = 0 THEN "ADDRESSED" ELSE "CONFIGURED"
            [] OTHER -> hstate
TargetAddr == IF hreq.kind = "set_address" THEN hreq.n ELSE haddr

\* A request that is answered has changed the device's state, if it is not
\* stalled; the host's follows at its end.
Refused == in.stall /\ out.stall /\ conn_state = hstate /\ addr = haddr
Granted == ~in.stall /\ ~out.stall /\ conn_state = Target /\ addr = TargetAddr

StateInv ==
  ~late /\ ~stale =>
    IF Waiting /\ Served THEN Refused \/ Granted
    ELSE DevState = hstate /\ DevAddr = haddr

\* A request keeps the state or leads to one that is not SUSPENDED.
LEMMA NextStateIs ==
  \A r : \/ NextState(r) = conn_state
         \/ NextState(r) \in {"DEFAULT", "ADDRESSED", "CONFIGURED"}
  BY DEF NextState

\* Every step keeps the order of suspend and wakeup.
LEMMA StepSusp == IInv /\ SuspInv /\ [Next]_vars => SuspInv'
  <1> SUFFICES ASSUME IInv, SuspInv, [Next]_vars PROVE SuspInv'
    OBVIOUS
  <1>0. Typed /\ IrqInv
    BY Types DEF IInv
  <1>1. CASE IrqEnter
    BY <1>1 DEF IrqEnter, Pending, SuspInv, dev, host, view
  <1>2. CASE InEpt \/ OutDone \/ RxFlvl
    <2>1. /\ conn_state' = conn_state /\ old_conn_state' = old_conn_state /\ suspsts' = suspsts
          /\ flags' = flags /\ hstate' = hstate /\ stage' = stage
      BY <1>2 DEF InEpt, OutDone, RxFlvl, dev, host, view
    <2>2. pass' \subseteq pass /\ pass \cap {"wkup", "rst"} \subseteq pass'
      BY <1>2 DEF InEpt, OutDone, RxFlvl
    <2>3. QED
      BY <2>1, <2>2 DEF SuspInv
  <1>3. CASE SetupDone
    <2>1. /\ conn_state' = NextState(setup) /\ old_conn_state' = old_conn_state /\ suspsts' = suspsts
          /\ flags' = flags /\ hstate' = hstate /\ stage' = stage /\ pass' = pass \ {"oept"}
      BY <1>3 DEF SetupDone, host, view
    <2>2. QED
      BY <2>1, NextStateIs DEF SuspInv
  <1>4. CASE Reset \/ EnumDone
    BY <1>4 DEF Reset, EnumDone, SuspInv, host, view
  <1>5. CASE Wakeup
    BY <1>5 DEF Wakeup, SuspInv, host, view
  <1>6. CASE Suspend
    <2>1. "susp" \in pass /\ "wkup" \notin pass /\ "rst" \notin pass
      BY <1>6, ServingOrder DEF Suspend
    <2>2. conn_state # "SUSPENDED"
      BY <2>1 DEF SuspInv
    <2>3. QED
      BY <1>6, <2>2 DEF Suspend, SuspInv, host, view
  <1>7. ASSUME NEW r \in Requests, HostSetup(r) PROVE SuspInv'
    BY <1>7 DEF HostSetup, FirstStage, SuspInv, dev, view
  <1>8. CASE HostIn \/ HostOut \/ HostStatusOut \/ HostStalled
    BY <1>8 DEF HostIn, HostOut, HostStatusOut, HostStalled, SuspInv, dev, view
  <1>9. CASE HostStatusIn
    BY <1>9 DEF HostStatusIn, SuspInv, dev
  <1>10. CASE HostAbandon \/ BusEnumDone
    BY <1>10 DEF HostAbandon, BusEnumDone, SuspInv, dev, view
  <1>11. CASE HostReset
    BY <1>11 DEF HostReset, SuspInv, dev
  <1>12. CASE HostSuspend \/ HostResume
    BY <1>12 DEF HostSuspend, HostResume, SuspInv, dev, host, view
  <1>13. CASE UNCHANGED vars
    BY <1>13 DEF vars, SuspInv, dev, host, view
  <1>14. QED
    BY <1>1, <1>2, <1>3, <1>4, <1>5, <1>6, <1>7, <1>8, <1>9, <1>10, <1>11, <1>12, <1>13
      DEF Next, Irq, HostStage

\* usbd_set_address and usbd_set_configuration: the state that an answer goes
\* with.
LEMMA AnswerState ==
  ASSUME NEW r \in Requests, hreq = r, conn_state = hstate, addr = haddr
  PROVE  LET ans == Answer(r)
             new == IF r.kind = "set_address" /\ ans = Status THEN r.n ELSE addr
         IN IF ans.a \in {"stall", "stall_status"}
            THEN NextState(r) = hstate /\ new = haddr
            ELSE NextState(r) = Target /\ new = TargetAddr
  <1>1. Unsupport.a = "stall" /\ Status.a = "status" /\ Unsupport # Status
    BY DEF Unsupport, Status
  <1> HIDE DEF Unsupport, Status
  <1>2. CASE r.kind = "set_address"
    <2>1. Answer(r) = SetAddress(r) /\ SetAddress(r) \in {Status, Unsupport}
      BY <1>2 DEF Answer, SetAddress
    <2>2. NextState(r) = IF SetAddress(r) = Status
                         THEN IF r.n = 0 THEN "DEFAULT" ELSE "ADDRESSED" ELSE conn_state
      BY <1>2 DEF NextState
    <2>3. QED
      BY <1>1, <1>2, <2>1, <2>2 DEF Target, TargetAddr
  <1>3. CASE r.kind = "set_config"
    <2>1. Answer(r) = SetConfiguration(r) /\ SetConfiguration(r) \in {Status, Unsupport}
      BY <1>3 DEF Answer, SetConfiguration
    <2>2. NextState(r) = IF SetConfiguration(r) = Status
                         THEN IF r.n = 0 THEN "ADDRESSED" ELSE "CONFIGURED" ELSE conn_state
      BY <1>3 DEF NextState
    <2>3. QED
      BY <1>1, <1>3, <2>1, <2>2 DEF Target, TargetAddr
  <1>4. CASE r.kind \notin {"set_address", "set_config"}
    BY <1>4 DEF NextState, Target, TargetAddr
  <1>5. QED
    BY <1>2, <1>3, <1>4

\* While the host waits for a request the device has answered, nothing is
\* pending that changes the state.
LEMMA NothingPending ==
  ASSUME IInv, QueueInv, SuspInv, Waiting, NoSetup(rxfifo),
         Served \/ "oept" \in pass
  PROVE  /\ {"rst", "enumdone", "wkup"} \cap flags = {} /\ ~suspsts
         /\ conn_state # "SUSPENDED"
         /\ DevState = conn_state /\ DevAddr = addr
  <1>1. "rst" \notin flags /\ "enumdone" \notin flags /\ "wkup" \notin flags
    BY DEF QueueInv, FlagInv, Served
  <1>2. ~suspsts
    BY DEF IInv, IrqInv, Waiting
  <1>3. conn_state # "SUSPENDED"
    BY <1>1, <1>2 DEF SuspInv
  <1>4. QED
    BY <1>1, <1>2, <1>3 DEF DevState, DevAddr

\* A step of the host or the bus.
LEMMA StepStateHost ==
  ASSUME IInv, QueueInv, TransferInv, QuietInv, AnsweredInv, SuspInv, StateInv, ~late, ~stale,
         \/ \E r \in Requests : HostSetup(r)
         \/ HostIn \/ HostStatusIn \/ HostOut \/ HostStatusOut \/ HostStalled
         \/ BusEnumDone \/ HostSuspend \/ HostResume
  PROVE  StateInv'
  <1>0. TypeOK /\ Typed /\ IrqInv /\ rxfifo \in Fifos
    BY Types DEF IInv, Typed, Fifos
  <1>1. ASSUME NEW r \in Requests, HostSetup(r) PROVE StateInv'
    <2>1. /\ ~Waiting /\ conn_state' = conn_state /\ old_conn_state' = old_conn_state
          /\ addr' = addr /\ flags' = flags /\ hstate' = hstate /\ haddr' = haddr
      BY <1>1 DEF HostSetup, Waiting, dev, view
    <2>2. ~Served'
      BY <1>0, <1>1, HostSetupEffect, CurrentIs DEF Served
    <2>3. QED
      BY <2>1, <2>2 DEF StateInv, DevState, DevAddr
  <1>2. CASE HostIn \/ HostOut
    <2>1. /\ Waiting /\ Waiting' /\ hreq' = hreq
          /\ conn_state' = conn_state /\ old_conn_state' = old_conn_state
          /\ addr' = addr /\ flags' = flags /\ hstate' = hstate /\ haddr' = haddr
      BY <1>2 DEF HostIn, HostOut, Waiting, dev, view
    <2>2. in'.stall = in.stall /\ out'.stall = out.stall /\ (Served' <=> Served)
      <3>1. CASE HostIn
        BY <1>0, <3>1, TakeEffect DEF HostIn, Served
      <3>2. CASE HostOut
        BY <1>0, <3>2, OutEffect, CurrentIs DEF HostOut, Served
      <3>3. QED
        BY <1>2, <3>1, <3>2
    <2>3. Target' = Target /\ TargetAddr' = TargetAddr
      BY <2>1 DEF Target, TargetAddr
    <2>4. QED
      BY <1>2, <2>1, <2>2, <2>3
        DEF StateInv, DevState, DevAddr, Refused, Granted, HostIn, HostOut, hist
  <1>3. CASE HostStatusIn
    <2>1. Waiting /\ Served /\ in.len = 0 /\ ~in.stall
      BY <1>3, EndsServed DEF HostStatusIn, Waiting, TakePacket, InReady
    <2>2. conn_state = Target /\ addr = TargetAddr
      BY <2>1 DEF StateInv, Refused, Granted
    <2>3. hstate' = Target /\ haddr' = TargetAddr
      BY <1>3, <2>1 DEF HostStatusIn, Target, TargetAddr
    <2>4. DevState = conn_state /\ DevAddr = addr
      BY <2>1, NothingPending DEF Served
    <2>5. /\ conn_state' = conn_state /\ old_conn_state' = old_conn_state
          /\ addr' = addr /\ flags' = flags /\ ~Waiting'
      BY <1>3 DEF HostStatusIn, dev, Waiting
    <2>6. DevState' = DevState /\ DevAddr' = DevAddr
      BY <2>5 DEF DevState, DevAddr
    <2>7. QED
      BY <2>2, <2>3, <2>4, <2>5, <2>6 DEF StateInv
  <1>4. CASE HostStatusOut \/ HostStalled
    <2>1. Waiting /\ Served
      BY <1>4, EndsServed DEF HostStatusOut, HostStalled, Waiting
    <2>2. conn_state = hstate /\ addr = haddr
      <3>1. CASE HostStalled
        <4>1. in.stall
          BY <3>1, EndsServed DEF Stalled
        <4>2. QED
          BY <2>1, <4>1 DEF StateInv, Refused, Granted
      <3>2. CASE HostStatusOut
        <4>1. ~out.stall /\ FirstStage(hreq) = "in"
          BY <3>2, EndsServed DEF HostStatusOut, OutReady
        <4>2. Target = hstate /\ TargetAddr = haddr
          BY <4>1 DEF FirstStage, Reads, Target, TargetAddr
        <4>3. QED
          BY <2>1, <4>1, <4>2 DEF StateInv, Refused, Granted
      <3>3. QED
        BY <1>4, <3>1, <3>2
    <2>3. DevState = conn_state /\ DevAddr = addr
      BY <2>1, NothingPending DEF Served
    <2>4. /\ conn_state' = conn_state /\ old_conn_state' = old_conn_state
          /\ addr' = addr /\ flags' = flags /\ hstate' = hstate /\ haddr' = haddr /\ ~Waiting'
      BY <1>4 DEF HostStatusOut, HostStalled, dev, view, Waiting
    <2>5. DevState' = DevState /\ DevAddr' = DevAddr
      BY <2>4 DEF DevState, DevAddr
    <2>6. QED
      BY <2>2, <2>3, <2>4, <2>5 DEF StateInv
  <1>5. CASE BusEnumDone
    <2>1. /\ conn_state' = conn_state /\ old_conn_state' = old_conn_state
          /\ addr' = addr /\ flags' = flags \cup {"enumdone"} /\ hstate' = hstate /\ haddr' = haddr
          /\ ~Waiting /\ ~Waiting' /\ hstate = "DEFAULT"
      BY <1>5 DEF BusEnumDone, dev, view, Waiting, SuspInv
    <2>2. DevState' = "DEFAULT" /\ DevAddr' = DevAddr
      BY <2>1 DEF DevState, DevAddr
    <2>3. QED
      BY <2>1, <2>2 DEF StateInv
  <1>6. CASE HostSuspend \/ HostResume
    <2>1. /\ conn_state' = conn_state /\ old_conn_state' = old_conn_state
          /\ addr' = addr /\ flags' \in {flags \cup {"susp"}, flags \cup {"wkup"}}
          /\ hstate' = hstate /\ haddr' = haddr
          /\ ~Waiting /\ ~Waiting'
      BY <1>0, <1>6 DEF HostSuspend, HostResume, dev, host, view, Waiting, IrqInv
    <2>2. DevState' = DevState /\ DevAddr' = DevAddr
      BY <2>1 DEF DevState, DevAddr
    <2>3. QED
      BY <2>1, <2>2 DEF StateInv
  <1>7. QED
    BY <1>1, <1>2, <1>3, <1>4, <1>5, <1>6

\* A step of the interrupt handler, or none.
LEMMA StepStateIrq ==
  ASSUME IInv, QueueInv, TransferInv, QuietInv, AnsweredInv, SuspInv, StateInv, ~late,
         ~stale, ~stale', Irq \/ UNCHANGED vars
  PROVE  StateInv'
  <1>0. TypeOK /\ Typed /\ IrqInv /\ PipeInv /\ rxfifo \in Fifos
    BY Types DEF IInv, Typed, Fifos
  <1>1. hreq' = hreq /\ hstate' = hstate /\ haddr' = haddr /\ (Waiting' <=> Waiting)
    BY DEF Irq, IrqEnter, InEpt, OutDone, SetupDone, Reset, EnumDone, RxFlvl, Wakeup, Suspend,
           vars, host, view, Waiting
  <1>2. Target' = Target /\ TargetAddr' = TargetAddr
    BY <1>1 DEF Target, TargetAddr
  <1>3. CASE IrqEnter \/ InEpt \/ OutDone \/ RxFlvl \/ UNCHANGED vars
    <2>1. /\ conn_state' = conn_state /\ old_conn_state' = old_conn_state
          /\ addr' = addr /\ flags' = flags
      BY <1>3 DEF IrqEnter, InEpt, OutDone, RxFlvl, vars, dev
    <2>2. in'.stall = in.stall /\ out'.stall = out.stall /\ (Served' <=> Served)
      <3>1. CASE IrqEnter \/ UNCHANGED vars
        BY <3>1 DEF IrqEnter, vars, Served
      <3>2. CASE InEpt
        BY <1>0, <3>2, InEptEffect DEF InEpt, SameOut, Served
      <3>3. CASE OutDone
        BY <1>0, <3>3, OutDoneEffect DEF OutDone, Served
      <3>4. CASE RxFlvl
        <4>1. /\ rxfifo' = Tail(rxfifo) /\ rxfifo # <<>> /\ ~out.setup
              /\ (out'.setup <=> Head(rxfifo) # NoReq) /\ out'.stall = out.stall
          BY <1>0, <3>4, RxFlvlEffect
        <4>2. NoSetup(rxfifo) <=> NoSetup(rxfifo') /\ Head(rxfifo) = NoReq
          BY <1>0, <4>1, FifoRead
        <4>3. QED
          BY <3>4, <4>1, <4>2 DEF RxFlvl, Served
      <3>5. QED
        BY <1>3, <3>1, <3>2, <3>3, <3>4
    <2>3. DevState' = DevState /\ DevAddr' = DevAddr
      BY <2>1 DEF DevState, DevAddr
    <2>4. QED
      BY <1>1, <1>2, <2>1, <2>2, <2>3 DEF StateInv, Refused, Granted
  <1>4. CASE SetupDone
    <2>0. /\ rxfifo' = rxfifo /\ out.setup /\ flags' = flags
      BY <1>4 DEF SetupDone
    <2>1. NoSetup(rxfifo) /\ ~Served /\ Waiting /\ ~in.stall /\ ~out.stall
      BY <2>0 DEF QuietInv, Served
    <2>2. "oept" \in pass
      BY <1>0, <1>4, SetupEffect
    <2>3. setup = hreq /\ hreq \in Requests
      BY <2>0, <2>1, HostReqType DEF QueueInv, AskInv
    <2>4. conn_state = hstate /\ addr = haddr
      BY <2>1, <2>2, NothingPending DEF StateInv
    <2> DEFINE ans == Answer(hreq)
               new == IF hreq.kind = "set_address" /\ ans = Status THEN hreq.n ELSE addr
    <2>5. conn_state' = NextState(hreq) /\ addr' = new
      BY <1>4, <2>3 DEF SetupDone
    <2>6. /\ ~out'.setup
          /\ IF ans.a \in {"stall", "stall_status"}
             THEN in'.stall /\ out'.stall
             ELSE in'.stall = in.stall /\ out'.stall = out.stall
      BY <1>0, <1>4, <2>3, SetupEffect
    <2>7. IF ans.a \in {"stall", "stall_status"}
          THEN NextState(hreq) = hstate /\ new = haddr
          ELSE NextState(hreq) = Target /\ new = TargetAddr
      BY <2>3, <2>4, AnswerState
    <2> HIDE DEF ans, new
    <2>8. Refused' \/ Granted'
      BY <1>1, <1>2, <2>1, <2>5, <2>6, <2>7 DEF Refused, Granted
    <2>9. Waiting' /\ Served'
      BY <1>1, <2>0, <2>1, <2>6 DEF Served
    <2>10. QED
      BY <2>8, <2>9 DEF StateInv
  <1>5. CASE Reset \/ EnumDone
    <2>1. "rst" \in flags \/ "enumdone" \in flags
      BY <1>0, <1>5, ServingOrder DEF Reset, EnumDone, IrqInv, Flags
    <2>2. ~(Waiting /\ Served) /\ rxfifo' = rxfifo
      BY <1>5, <2>1 DEF QueueInv, FlagInv, Served, Reset, EnumDone
    <2>3. ~(Waiting' /\ Served')
      <3>1. Waiting => ~NoSetup(rxfifo)
        BY <2>1 DEF QueueInv, FlagInv
      <3>2. QED
        BY <1>1, <2>2, <3>1 DEF Served
    <2>4. hstate = "DEFAULT" /\ DevAddr = haddr
      BY <2>1, <2>2 DEF StateInv, DevState
    <2>5. DevState' = "DEFAULT"
      BY <1>5 DEF Reset, EnumDone, DevState
    <2>6. DevAddr' = DevAddr
      <3>1. CASE Reset
        <4>1. "rst" \in flags
          BY <1>0, <3>1, ServingOrder DEF Reset, IrqInv, Flags
        <4>2. QED
          BY <3>1, <4>1 DEF Reset, DevAddr
      <3>2. CASE EnumDone
        BY <3>2 DEF EnumDone, DevAddr
      <3>3. QED
        BY <1>5, <3>1, <3>2
    <2>7. QED
      BY <1>1, <2>3, <2>4, <2>5, <2>6 DEF StateInv
  <1>6. CASE Wakeup
    <2>1. conn_state = "SUSPENDED" /\ "wkup" \in flags
      BY <1>0, <1>6, ServingOrder DEF Wakeup, IrqInv, Flags
    <2>2. /\ conn_state' = old_conn_state /\ old_conn_state' = old_conn_state /\ addr' = addr
          /\ flags' = flags \ {"wkup"} /\ rxfifo' = rxfifo /\ out' = out
      BY <1>6 DEF Wakeup
    <2>3. ~(Waiting /\ Served)
      BY <2>1, NothingPending DEF Served
    <2>4. old_conn_state # "SUSPENDED"
      BY DEF SuspInv
    <2>5. DevState' = DevState /\ DevAddr' = DevAddr
      BY <2>1, <2>2, <2>4 DEF DevState, DevAddr
    <2>6. QED
      BY <1>1, <2>2, <2>3, <2>5 DEF StateInv, Served
  <1>7. CASE Suspend
    <2>1. conn_state # "SUSPENDED"
      BY <1>7, ServingOrder DEF Suspend, SuspInv
    <2>2. /\ addr' = addr /\ flags' = flags \ {"susp"} /\ rxfifo' = rxfifo /\ out' = out /\ in' = in
          /\ (suspsts /\ old_conn_state' = conn_state /\ conn_state' = "SUSPENDED")
             \/ (~suspsts /\ old_conn_state' = old_conn_state /\ conn_state' = conn_state)
      BY <1>7 DEF Suspend
    <2>3. Waiting => conn_state' = conn_state
      BY <1>0, <2>2 DEF IrqInv, Waiting
    <2>4. DevState' = DevState /\ DevAddr' = DevAddr
      BY <2>1, <2>2 DEF DevState, DevAddr
    <2>5. QED
      BY <1>1, <1>2, <2>2, <2>3, <2>4 DEF StateInv, Served, Refused, Granted
  <1>8. QED
    BY <1>3, <1>4, <1>5, <1>6, <1>7 DEF Irq

\* Every step keeps host and device together.
LEMMA StepState ==
  IInv /\ QueueInv /\ TransferInv /\ OrderInv /\ SuspInv /\ StateInv /\ [Next]_vars => StateInv'
  <1> SUFFICES ASSUME IInv, QueueInv, TransferInv, OrderInv, SuspInv, StateInv, [Next]_vars,
                      ~late', ~stale'
               PROVE  StateInv'
    BY DEF StateInv
  <1>1. CASE HostReset
    BY <1>1 DEF HostReset, StateInv, DevState, DevAddr, Waiting
  <1>2. CASE ~HostReset
    <2>1. ~late /\ ~stale /\ ~HostAbandon
      <3>1. ~HostAbandon
        BY DEF HostAbandon
      <3>2. CASE Wakeup
        <4>1. stale' = (stale \/ conn_state # "SUSPENDED") /\ late' = late
          BY <3>2, Zenon DEF Wakeup
        <4>2. ~stale
          BY <4>1, Zenon
        <4>3. QED
          BY <3>1, <4>1, <4>2
      <3>3. CASE ~Wakeup
        BY <1>2, <3>1, <3>3
          DEF Next, Irq, HostStage, IrqEnter, InEpt, OutDone, SetupDone, Reset, EnumDone, RxFlvl,
              Suspend, HostSetup, HostIn, HostStatusIn, HostOut, HostStatusOut,
              HostStalled, BusEnumDone, HostSuspend, HostResume, vars, host, hist
      <3>4. QED
        BY <3>1, <3>2, <3>3
    <2>2. QuietInv /\ AnsweredInv
      BY <2>1 DEF OrderInv
    <2>3. QED
      BY <1>2, <2>1, <2>2, StepStateHost, StepStateIrq DEF Next, HostStage
  <1>3. QED
    BY <1>1, <1>2

\* The invariants of the device's state hold at the start.
LEMMA InitOrder == Init => OrderInv /\ SuspInv /\ StateInv
  <1> SUFFICES ASSUME Init PROVE OrderInv /\ SuspInv /\ StateInv
    OBVIOUS
  <1>1. ~Waiting /\ NoSetup(rxfifo) /\ Len(rxfifo) = 0 /\ ~Leads(rxfifo)
    BY DEF Init, Waiting, NoSetup, Leads
  <1>2. OrderInv
    BY <1>1 DEF Init, OrderInv, QuietInv, AnsweredInv, Served, AtMostOne
  <1>3. SuspInv /\ StateInv
    BY <1>1 DEF Init, SuspInv, StateInv, DevState, DevAddr
  <1>4. QED
    BY <1>2, <1>3

\* usbd_reset_handler, usbd_enumdone_handler, usbd_suspend_handler,
\* usbd_wakeup_handler, usbd_set_address and usbd_set_configuration: between
\* transfers host and device agree on the device's state and address.
THEOREM HostAndDeviceAgree ==
  ASSUME \A r \in Requests : WellFormed(r)
  PROVE  Spec => []StateAgrees
  <1> DEFINE J == IInv /\ QueueInv /\ TransferInv /\ OrderInv /\ SuspInv /\ StateInv
  <1>1. Init => J
    BY InitInv, InitOrder
  <1>2. J /\ [Next]_vars => J'
    BY StepIInv, StepQueue, StepTransfer, StepOrder, StepSusp, StepState
  <1>3. J => StateAgrees
    <2> SUFFICES ASSUME J, stage = "idle", Quiet, ~suspsts, ~late, ~stale
                 PROVE  conn_state = hstate /\ addr = haddr
      BY DEF StateAgrees, IInv
    <2>1. flags = {} /\ ~Waiting
      BY DEF Quiet, Pending, Waiting
    <2>2. conn_state # "SUSPENDED"
      BY <2>1 DEF SuspInv
    <2>3. QED
      BY <2>1, <2>2 DEF StateInv, DevState, DevAddr
  <1> HIDE DEF J
  <1>4. QED
    BY <1>1, <1>2, <1>3, PTL DEF Spec
=============================================================================
