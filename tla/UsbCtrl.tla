------------------------------ MODULE UsbCtrl ------------------------------
(***************************************************************************)
(* Control transfers on endpoint 0 and the connection state of the USB     *)
(* device: usbd_core.c (the stages of a transfer), usbd_sdr.c (standard    *)
(* requests), the requests of cdc_msc_class.c, and usbd_int.c, whose       *)
(* interrupt handler serves what is pending in a fixed order: endpoints    *)
(* before a bus reset, a reset before the receive FIFO, a wakeup before a  *)
(* suspend.  The interrupt may be late: a disk write inside it takes as    *)
(* long as the flash needs to erase a sector.                              *)
(*                                                                         *)
(* A pass of the interrupt handler is a snapshot of the flags and one step *)
(* per handler.  The host is a USB host: one request at a time, which it   *)
(* may abandon (a timeout), bus reset, suspend and resume.                 *)
(*                                                                         *)
(* Data abstraction: a request is what it asks for, its operand n and      *)
(* wLength; data are lengths.  remote_wakup, linecoding, alt_setting and   *)
(* the halts of the bulk endpoints are left out (MscBot has the latter).   *)
(***************************************************************************)
EXTENDS Naturals, Sequences

CONSTANTS
  MaxPacket,  \* of endpoint 0: 64
  Requests,   \* the requests of the host
  NoReq,
  MaxFifo,    \* bound: entries of the receive FIFO
  MaxEvents   \* bound: resets, suspends and abandoned requests

Kinds == {"descriptor", "unknown", "set_address", "set_config", "get_config",
          "get_status", "clear_feature", "other_feature", "set_feature",
          "device_class", "class_in", "class_out", "class_none", "class_bad",
          "ep_status", "ep_feature", "ep_other_feature"}

Request == [kind : Kinds, n : Nat, wlen : Nat]

ASSUME CtrlAssumption ==
  /\ MaxPacket \in Nat \ {0} /\ MaxFifo \in Nat \ {0} /\ MaxEvents \in Nat
  /\ Requests \subseteq Request /\ NoReq \notin Requests

States == {"ZERO", "DEFAULT", "ADDRESSED", "CONFIGURED", "SUSPENDED"}
Flags == {"rst", "enumdone", "wkup", "susp"}

VARIABLES
  conn_state, old_conn_state, addr, suspsts,
  flags, pass,          \* gintsts; what is left of the handler's snapshot
  in, out,              \* endpoint 0
  ctl,                  \* ept0_sts, rem0_len, last_len, ept0_slen, ept0_wlength
  rxfifo, setup,        \* the receive FIFO; setup_buffer
  hreq, stage, got,     \* the host's transfer
  hstate, haddr,        \* what the host knows of the device
  events,               \* resets, suspends and abandoned requests so far
  mute, wrong, stale, late  \* history

dev  == <<conn_state, old_conn_state, addr>>
view == <<hstate, haddr, events>>
host == <<hreq, stage, got, view>>
hist == <<mute, wrong, stale, late>>
vars == <<dev, suspsts, flags, pass, in, out, ctl, rxfifo, setup, host, hist>>

MinOf(a, b) == IF a < b THEN a ELSE b

-----------------------------------------------------------------------------
(* Endpoint 0.                                                             *)

\* No newer SETUP is on its way to the device.
Current == \A i \in DOMAIN rxfifo : rxfifo[i] = NoReq

\* usbd_ept_send: an enabled endpoint is disabled and its FIFO flushed; one
\* packet; the FIFO-empty interrupt is only wanted for data.
EptSend(e, n) ==
  LET k == MinOf(n, MaxPacket)
  IN [e EXCEPT !.ena = TRUE, !.nak = FALSE, !.len = k, !.written = FALSE,
               !.fifo = IF e.ena THEN 0 ELSE @, !.emp = @ \/ k > 0,
               !.own = Current]

\* usbd_ept_recv.
EptRecv(e) == [e EXCEPT !.armed = TRUE]

Stall(e) == [e EXCEPT !.stall = TRUE]

-----------------------------------------------------------------------------
(* Requests: usbd_sdr.c and class_setup_handler.                           *)

Send(k)  == [a |-> "send", n |-> k]
Recv(k)  == [a |-> "recv", n |-> k]
Status   == [a |-> "status", n |-> 0]
Unsupport == [a |-> "stall", n |-> 0]
StallStatus == [a |-> "stall_status", n |-> 0]
Nothing  == [a |-> "nothing", n |-> 0]

InDevice == conn_state \in {"ADDRESSED", "CONFIGURED"}

\* Mutant of Descriptor: the length is cut to one packet.
DescriptorOnePacket(r) ==
  IF r.wlen = 0 THEN Nothing ELSE Send(MinOf(MinOf(r.n, r.wlen), MaxPacket))

\* usbd_get_descriptor sends nothing when wLength is 0.
Descriptor(r) == IF r.wlen = 0 THEN Nothing ELSE Send(MinOf(r.n, r.wlen))

\* usbd_set_address, usbd_set_configuration: wIndex is 0 in the requests.
SetAddress(r) ==
  IF r.wlen = 0 /\ conn_state # "CONFIGURED" THEN Status ELSE Unsupport

SetConfiguration(r) == IF r.wlen = 0 /\ InDevice THEN Status ELSE Unsupport

GetConfiguration(r) ==
  IF r.wlen = 1 /\ InDevice THEN Send(1) ELSE Unsupport

\* usbd_interface_request; class_none ends in a status, class_bad in a stall
\* and a status behind it that the host never sees.
InterfaceRequest(r) ==
  CASE conn_state \notin {"DEFAULT", "ADDRESSED", "CONFIGURED"} -> Unsupport
    [] r.kind = "class_in"   -> Send(r.wlen)
    [] r.kind = "class_out"  -> Recv(r.wlen)
    [] r.kind = "class_none" -> Status
    [] OTHER -> IF r.wlen = 0 THEN StallStatus ELSE Unsupport

\* usbd_endpoint_request.  ep_other_feature is a CLEAR_FEATURE of something
\* else than ENDPOINT_HALT.
EndpointRequest(r) ==
  CASE ~InDevice -> Unsupport
    [] r.kind = "ep_status" -> Send(2)
    [] r.kind = "ep_feature" ->
         IF conn_state = "CONFIGURED" THEN Status ELSE Nothing
    [] OTHER -> Nothing

\* usbd_clear_feature of the remote wakeup, or of something else.
ClearFeature(r) ==
  CASE ~InDevice -> Unsupport
    [] r.kind = "clear_feature" -> Status
    [] OTHER -> Nothing

Answer(r) ==
  CASE r.kind = "descriptor"  -> Descriptor(r)
    [] r.kind = "set_address" -> SetAddress(r)
    [] r.kind = "set_config"  -> SetConfiguration(r)
    [] r.kind = "get_config"  -> GetConfiguration(r)
    [] r.kind = "get_status"  -> IF InDevice THEN Send(2) ELSE Unsupport
    [] r.kind \in {"clear_feature", "other_feature"} -> ClearFeature(r)
    [] r.kind = "set_feature"  -> Status     \* the remote wakeup
    [] r.kind = "device_class" -> Nothing    \* class_setup_handler: no case
    [] r.kind \in {"class_in", "class_out", "class_none", "class_bad"} ->
         InterfaceRequest(r)
    [] r.kind \in {"ep_status", "ep_feature", "ep_other_feature"} ->
         EndpointRequest(r)
    [] OTHER -> Unsupport

\* The device state a request leads to.
NextState(r) ==
  CASE r.kind = "set_address" /\ SetAddress(r) = Status ->
         IF r.n = 0 THEN "DEFAULT" ELSE "ADDRESSED"
    [] r.kind = "set_config" /\ SetConfiguration(r) = Status ->
         IF r.n = 0 THEN "ADDRESSED" ELSE "CONFIGURED"
    [] OTHER -> conn_state

-----------------------------------------------------------------------------
(* The interrupt handler.                                                  *)

\* The FIFO-empty interrupt of endpoint 0 is due.
Femp == in.emp /\ in.fifo = 0

Pending ==
  flags \cup (IF in.xferc \/ Femp THEN {"iept"} ELSE {})
        \cup (IF out.xferc \/ out.setup THEN {"oept"} ELSE {})
        \cup (IF rxfifo # <<>> THEN {"rxflvl"} ELSE {})

Order == <<"iept", "oept", "rst", "enumdone", "rxflvl", "wkup", "susp">>

\* f is the next of the snapshot to be served.
Serving(f) ==
  /\ f \in pass
  /\ \E i \in DOMAIN Order :
       Order[i] = f /\ \A j \in 1..(i - 1) : Order[j] \notin pass

IrqEnter ==
  /\ pass = {} /\ Pending # {}
  /\ pass' = Pending
  /\ UNCHANGED <<dev, suspsts, flags, in, out, ctl, rxfifo, setup, host, hist>>

\* usb_write_empty_txfifo: the packet, or nothing left and the bit is cleared.
WriteFifo(e) ==
  IF e.len > 0 /\ ~e.written
  THEN [e EXCEPT !.written = TRUE, !.fifo = e.len]
  ELSE [e EXCEPT !.emp = FALSE]

\* Mutant of ZlpDue: never.
ZlpNever == FALSE

\* usbd_core_in_handler: a read whose data fill their packets and are shorter
\* than what the host asked for ends with a zero-length packet.
ZlpDue ==
  /\ ctl.last = MaxPacket
  /\ ctl.slen >= MaxPacket /\ ctl.slen < ctl.wlen

\* usbd_core_in_handler: nothing outside a read; the next packet, the
\* zero-length packet, or the status stage.
InDone(e) ==
  LET rest == ctl.rem - MaxPacket
  IN CASE ctl.sts # "DATA_IN" -> [in |-> e, out |-> out, ctl |-> ctl]
       [] ctl.sts = "DATA_IN" /\ ctl.rem > MaxPacket ->
            [in |-> EptSend(e, rest), out |-> out,
             ctl |-> [ctl EXCEPT !.rem = rest, !.last = MinOf(rest, MaxPacket)]]
       [] ctl.sts = "DATA_IN" /\ ctl.rem <= MaxPacket /\ ZlpDue ->
            [in |-> EptSend(e, 0), out |-> EptRecv(out),
             ctl |-> [ctl EXCEPT !.last = 0]]
       [] OTHER ->
            [in |-> e, out |-> EptRecv(out),
             ctl |-> [ctl EXCEPT !.sts = "STATUS_OUT"]]

\* usbd_inept_handler: the flags are read once, a completion is served before
\* the FIFO-empty interrupt.
InEpt ==
  LET done == IF in.xferc
              THEN InDone([in EXCEPT !.xferc = FALSE, !.emp = FALSE])
              ELSE [in |-> in, out |-> out, ctl |-> ctl]
  IN /\ Serving("iept")
     /\ in' = IF Femp THEN WriteFifo(done.in) ELSE done.in
     /\ out' = done.out /\ ctl' = done.ctl
     /\ pass' = pass \ {"iept"}
     /\ UNCHANGED <<dev, suspsts, flags, rxfifo, setup, host, hist>>

\* usbd_outept_handler, completion: usbd_core_out_handler.  More data are
\* asked for, or the status is sent.
OutDone ==
  /\ Serving("oept") /\ out.xferc
  /\ LET e == [out EXCEPT !.xferc = FALSE]
     IN CASE ctl.sts # "DATA_OUT" -> out' = e /\ UNCHANGED <<in, ctl>>
          [] ctl.sts = "DATA_OUT" /\ ctl.orem > MaxPacket ->
               /\ out' = EptRecv(e)
               /\ ctl' = [ctl EXCEPT !.orem = @ - MaxPacket]
               /\ UNCHANGED in
          [] OTHER ->
               /\ out' = e /\ in' = EptSend(in, 0)
               /\ ctl' = [ctl EXCEPT !.sts = "STATUS_IN"]
  /\ pass' = IF out.setup THEN pass ELSE pass \ {"oept"}
  /\ UNCHANGED <<dev, suspsts, flags, rxfifo, setup, host, hist>>

\* usbd_core_setup_handler: the answer to a request, the new state and address.
\* The lengths of the last data stage are not kept.
SetupDone ==
  LET r == setup
      ans == Answer(r)
      o == [out EXCEPT !.setup = FALSE]
      c == [sts |-> "SETUP", rem |-> 0, last |-> ctl.last, slen |-> 0,
            wlen |-> r.wlen, orem |-> 0]
  IN /\ Serving("oept") /\ ~out.xferc /\ out.setup
     /\ in' = CASE ans.a \in {"send", "status"} -> EptSend(in, ans.n)
                [] ans.a = "stall"        -> Stall(in)
                [] ans.a = "stall_status" -> EptSend(Stall(in), 0)
                [] OTHER -> in
     /\ out' = CASE ans.a = "recv" -> EptRecv(o)
                 [] ans.a \in {"stall", "stall_status"} -> Stall(o)
                 [] OTHER -> o
     /\ ctl' = CASE ans.a = "send" ->
                      [c EXCEPT !.sts = "DATA_IN", !.slen = ans.n, !.rem = ans.n,
                                !.last = IF ans.n = 0 THEN @
                                         ELSE MinOf(ans.n, MaxPacket)]
                 [] ans.a = "recv" -> [c EXCEPT !.sts = "DATA_OUT", !.orem = ans.n]
                 [] ans.a \in {"status", "stall_status"} ->
                      [c EXCEPT !.sts = "STATUS_IN"]
                 [] OTHER -> c
     /\ conn_state' = NextState(r)
     /\ addr' = IF r.kind = "set_address" /\ ans = Status THEN r.n ELSE addr
     /\ mute' = (ans = Nothing)
     /\ setup' = NoReq
     /\ pass' = pass \ {"oept"}
     /\ UNCHANGED <<old_conn_state, suspsts, flags, rxfifo, host, wrong, stale, late>>

\* Mutant of Reset: the flag is not cleared.
ResetKeepsFlag ==
  /\ Serving("rst")
  /\ in' = [in EXCEPT !.fifo = 0, !.xferc = FALSE, !.stall = FALSE, !.nak = TRUE]
  /\ out' = [armed |-> FALSE, stall |-> FALSE, xferc |-> FALSE, setup |-> FALSE]
  /\ addr' = 0 /\ conn_state' = "DEFAULT"
  /\ pass' = pass \ {"rst"}
  /\ UNCHANGED <<old_conn_state, suspsts, flags, ctl, rxfifo, setup, host, hist>>

\* usbd_reset_handler.  Neither the transfers nor diepempmsk nor the receive
\* FIFO are touched.
Reset ==
  /\ Serving("rst")
  /\ in' = [in EXCEPT !.fifo = 0, !.xferc = FALSE, !.stall = FALSE, !.nak = TRUE]
  /\ out' = [armed |-> FALSE, stall |-> FALSE, xferc |-> FALSE, setup |-> FALSE]
  /\ addr' = 0 /\ conn_state' = "DEFAULT"
  /\ flags' = flags \ {"rst"} /\ pass' = pass \ {"rst"}
  /\ UNCHANGED <<old_conn_state, suspsts, ctl, rxfifo, setup, host, hist>>

\* usbd_enumdone_handler.
EnumDone ==
  /\ Serving("enumdone")
  /\ conn_state' = "DEFAULT"
  /\ flags' = flags \ {"enumdone"} /\ pass' = pass \ {"enumdone"}
  /\ UNCHANGED <<old_conn_state, addr, suspsts, in, out, ctl, rxfifo, setup,
                 host, hist>>

\* usbd_rxflvl_handler: a SETUP goes to setup_buffer, other packets end a
\* transfer of endpoint 0.
RxFlvl ==
  /\ Serving("rxflvl")
  /\ IF Head(rxfifo) # NoReq
     THEN setup' = Head(rxfifo) /\ out' = [out EXCEPT !.setup = TRUE]
     ELSE out' = [out EXCEPT !.xferc = TRUE] /\ UNCHANGED setup
  /\ rxfifo' = Tail(rxfifo)
  /\ pass' = pass \ {"rxflvl"}
  /\ UNCHANGED <<dev, suspsts, flags, in, ctl, host, hist>>

\* Mutant of Wakeup: conn_state is left as it is.
WakeupKeeps ==
  /\ Serving("wkup")
  /\ stale' = (stale \/ conn_state # "SUSPENDED")
  /\ flags' = flags \ {"wkup"} /\ pass' = pass \ {"wkup"}
  /\ UNCHANGED <<dev, suspsts, in, out, ctl, rxfifo, setup, host, mute, wrong, late>>

\* usbd_wakeup_handler.
Wakeup ==
  /\ Serving("wkup")
  /\ conn_state' = old_conn_state
  /\ stale' = (stale \/ conn_state # "SUSPENDED")
  /\ flags' = flags \ {"wkup"} /\ pass' = pass \ {"wkup"}
  /\ UNCHANGED <<old_conn_state, addr, suspsts, in, out, ctl, rxfifo, setup,
                 host, mute, wrong, late>>

\* usbd_suspend_handler.
Suspend ==
  /\ Serving("susp")
  /\ IF suspsts
     THEN old_conn_state' = conn_state /\ conn_state' = "SUSPENDED"
     ELSE UNCHANGED <<conn_state, old_conn_state>>
  /\ flags' = flags \ {"susp"} /\ pass' = pass \ {"susp"}
  /\ UNCHANGED <<addr, suspsts, in, out, ctl, rxfifo, setup, host, hist>>

-----------------------------------------------------------------------------
(* The host and the bus (external).                                        *)

Reads == {"descriptor", "unknown", "get_config", "get_status", "class_in", "ep_status"}

FirstStage(r) ==
  CASE r.wlen = 0 -> "status_in"
    [] r.wlen > 0 /\ r.kind \in Reads -> "in"
    [] OTHER -> "out"

\* The core answers a SETUP by itself, takes the stall off endpoint 0 and
\* answers NAK on it until the software clears that.
HostSetup(r) ==
  /\ stage = "idle" /\ ~suspsts /\ addr = haddr
  /\ Len(rxfifo) < MaxFifo
  /\ rxfifo' = Append(rxfifo, r)
  /\ in' = [in EXCEPT !.nak = TRUE, !.stall = FALSE, !.own = FALSE]
  /\ out' = [out EXCEPT !.armed = FALSE, !.stall = FALSE]
  /\ hreq' = r /\ got' = 0 /\ stage' = FirstStage(r)
  /\ mute' = FALSE /\ wrong' = FALSE
  /\ UNCHANGED <<dev, suspsts, flags, pass, ctl, setup, view, stale,
                 late>>

InReady == in.ena /\ ~in.nak /\ ~in.stall /\ (in.len = 0 \/ in.fifo = in.len)
OutReady == out.armed /\ ~out.stall /\ Len(rxfifo) < MaxFifo

\* A packet leaves endpoint 0.
TakePacket ==
  /\ InReady
  /\ in' = [in EXCEPT !.ena = FALSE, !.xferc = TRUE, !.fifo = 0]

\* The host reads until it has wLength bytes or a short packet.
HostIn ==
  /\ stage = "in" /\ TakePacket
  /\ got' = got + in.len
  /\ wrong' = (wrong \/ ~in.own)
  /\ stage' = IF in.len < MaxPacket \/ got + in.len >= hreq.wlen
              THEN "status_out" ELSE "in"
  /\ UNCHANGED <<dev, suspsts, flags, pass, out, ctl, rxfifo, setup, hreq,
                 view, mute, stale, late>>

\* The status of a write: the request is done, or has failed if the packet is
\* not empty.
HostStatusIn ==
  /\ stage = "status_in" /\ TakePacket
  /\ wrong' = (wrong \/ ~in.own \/ in.len # 0)
  /\ stage' = "idle" /\ hreq' = NoReq /\ got' = 0
  /\ haddr' = IF hreq.kind = "set_address" /\ in.len = 0 THEN hreq.n ELSE haddr
  /\ hstate' = CASE in.len # 0 -> hstate
                 [] in.len = 0 /\ hreq.kind = "set_address" ->
                      IF hreq.n = 0 THEN "DEFAULT" ELSE "ADDRESSED"
                 [] in.len = 0 /\ hreq.kind = "set_config" ->
                      IF hreq.n = 0 THEN "ADDRESSED" ELSE "CONFIGURED"
                 [] OTHER -> hstate
  /\ UNCHANGED <<dev, suspsts, flags, pass, out, ctl, rxfifo, setup, events, mute,
                 stale, late>>

HostOut ==
  /\ stage = "out" /\ OutReady
  /\ out' = [out EXCEPT !.armed = FALSE]
  /\ rxfifo' = Append(rxfifo, NoReq)
  /\ got' = MinOf(got + MaxPacket, hreq.wlen)
  /\ stage' = IF got' = hreq.wlen THEN "status_in" ELSE "out"
  /\ UNCHANGED <<dev, suspsts, flags, pass, in, ctl, setup, hreq, view,
                 hist>>

HostStatusOut ==
  /\ stage = "status_out" /\ OutReady
  /\ out' = [out EXCEPT !.armed = FALSE]
  /\ rxfifo' = Append(rxfifo, NoReq)
  /\ stage' = "idle" /\ hreq' = NoReq /\ got' = 0
  /\ UNCHANGED <<dev, suspsts, flags, pass, in, ctl, setup, view, hist>>

HostStalled ==
  /\ \/ stage \in {"in", "status_in"} /\ in.stall
     \/ stage \in {"out", "status_out"} /\ out.stall
  /\ stage' = "idle" /\ hreq' = NoReq /\ got' = 0
  /\ UNCHANGED <<dev, suspsts, flags, pass, in, out, ctl, rxfifo, setup, view,
                 hist>>

Waiting == stage \in {"in", "out", "status_in", "status_out"}

\* The host's timeout.
HostAbandon ==
  /\ events < MaxEvents /\ events' = events + 1
  /\ Waiting
  /\ stage' = "idle" /\ hreq' = NoReq /\ got' = 0
  /\ late' = TRUE
  /\ UNCHANGED <<dev, suspsts, flags, pass, in, out, ctl, rxfifo, setup, hstate,
                 haddr, mute, wrong, stale>>

\* A bus reset; it also ends a suspend, and the core may or may not flag that
\* as a wakeup.
HostReset ==
  /\ events < MaxEvents /\ events' = events + 1
  /\ flags' \in {flags \cup {"rst"}} \cup
                (IF suspsts THEN {flags \cup {"rst", "wkup"}} ELSE {})
  /\ suspsts' = FALSE
  /\ stage' = "reset" /\ hreq' = NoReq /\ got' = 0
  /\ hstate' = "DEFAULT" /\ haddr' = 0
  /\ mute' = FALSE /\ wrong' = FALSE /\ stale' = FALSE
  /\ late' = (rxfifo # <<>> \/ out.setup \/ out.xferc \/ in.xferc)
  /\ UNCHANGED <<dev, pass, in, out, ctl, rxfifo, setup>>

BusEnumDone ==
  /\ stage = "reset"
  /\ flags' = flags \cup {"enumdone"}
  /\ stage' = "idle"
  /\ UNCHANGED <<dev, suspsts, pass, in, out, ctl, rxfifo, setup, hreq, got,
                 view, hist>>

HostSuspend ==
  /\ events < MaxEvents /\ events' = events + 1
  /\ stage = "idle" /\ ~suspsts
  /\ suspsts' = TRUE /\ flags' = flags \cup {"susp"}
  /\ UNCHANGED <<dev, pass, in, out, ctl, rxfifo, setup, hreq, stage, got,
                 hstate, haddr, hist>>

HostResume ==
  /\ suspsts
  /\ suspsts' = FALSE /\ flags' = flags \cup {"wkup"}
  /\ UNCHANGED <<dev, pass, in, out, ctl, rxfifo, setup, host, hist>>

-----------------------------------------------------------------------------
Init ==
  /\ conn_state = "DEFAULT" /\ old_conn_state = "ZERO" /\ addr = 0
  /\ suspsts = FALSE /\ flags = {} /\ pass = {}
  /\ in = [ena |-> FALSE, nak |-> TRUE, stall |-> FALSE, xferc |-> FALSE,
           emp |-> FALSE, written |-> FALSE, own |-> FALSE, len |-> 0, fifo |-> 0]
  /\ out = [armed |-> FALSE, stall |-> FALSE, xferc |-> FALSE, setup |-> FALSE]
  /\ ctl = [sts |-> "SETUP", rem |-> 0, last |-> 0, slen |-> 0, wlen |-> 0, orem |-> 0]
  /\ rxfifo = <<>> /\ setup = NoReq
  /\ hreq = NoReq /\ stage = "off" /\ got = 0
  /\ hstate = "DEFAULT" /\ haddr = 0 /\ events = 0
  /\ mute = FALSE /\ wrong = FALSE /\ stale = FALSE /\ late = FALSE

Irq ==
  \/ IrqEnter
  \/ InEpt \/ OutDone \/ SetupDone \/ Reset \/ EnumDone
  \/ RxFlvl \/ Wakeup \/ Suspend

HostStage == HostIn \/ HostStatusIn \/ HostOut \/ HostStatusOut \/ HostStalled

Next ==
  \/ Irq
  \/ HostStage \/ \E r \in Requests : HostSetup(r)
  \/ HostAbandon \/ HostReset \/ BusEnumDone \/ HostSuspend \/ HostResume

Spec == Init /\ [][Next]_vars

\* The interrupt is served and the host goes on with its transfer.
FairSpec == Spec /\ WF_vars(Irq) /\ WF_vars(HostStage)

-----------------------------------------------------------------------------
(* Properties.                                                             *)

\* Every variable has its type.
TypeOK ==
  /\ {conn_state, old_conn_state, hstate} \subseteq States
  /\ addr \in Nat /\ haddr \in Nat /\ events \in 0..MaxEvents
  /\ suspsts \in BOOLEAN
  /\ flags \subseteq Flags
  /\ pass \subseteq {Order[i] : i \in DOMAIN Order}
  /\ in \in [ena : BOOLEAN, nak : BOOLEAN, stall : BOOLEAN, xferc : BOOLEAN,
             emp : BOOLEAN, written : BOOLEAN, own : BOOLEAN,
             len : 0..MaxPacket, fifo : 0..MaxPacket]
  /\ out \in [armed : BOOLEAN, stall : BOOLEAN, xferc : BOOLEAN, setup : BOOLEAN]
  /\ ctl \in [sts : {"SETUP", "DATA_IN", "DATA_OUT", "STATUS_IN", "STATUS_OUT"},
              rem : Nat, last : 0..MaxPacket, slen : Nat, wlen : Nat, orem : Nat]
  /\ rxfifo \in Seq(Requests \cup {NoReq}) /\ setup \in Requests \cup {NoReq}
  /\ hreq \in Requests \cup {NoReq} /\ got \in Nat
  /\ stage \in {"off", "idle", "reset", "in", "out", "status_in", "status_out"}
  /\ {mute, wrong, stale, late} \subseteq BOOLEAN

Quiet == pass = {} /\ Pending = {}

\* A request as chapter 9 of the USB specification and the class have it: the
\* wLength of a request whose handler does not look at it.
WellFormed(r) ==
  /\ r.kind \in {"get_status", "ep_status"} => r.wlen = 2
  /\ r.kind \in {"set_feature", "clear_feature", "class_none", "ep_feature"} => r.wlen = 0
  /\ r.kind \in {"class_in", "class_out"} => r.wlen > 0

\* The length of the answer to a read.
Expected(r) == IF r.kind = "descriptor" THEN MinOf(r.n, r.wlen) ELSE r.wlen

\* What the host has read when it ends the data stage is the whole answer, cut
\* to wLength, however the packets fill and however late they are served.  The
\* exception (wrong) is a host that abandons a request: a packet of the old
\* request, queued after the core has seen the new SETUP and before the
\* software has, is taken for the answer to the new one.
ReadsWhole ==
  stage = "status_out" /\ ~wrong => got = Expected(hreq)

\* The device never leaves the host waiting with nothing to serve: every
\* request is answered, stalled or ended, except those the request handlers
\* drop (mute: a descriptor of length 0, a feature they do not know, a feature
\* of an endpoint before the configuration, a class request to the device),
\* which the host must abandon, and except after a packet of another request
\* (wrong).
NoMutualWait ==
  Waiting /\ Quiet /\ ~mute /\ ~wrong =>
    \/ stage \in {"in", "status_in"} /\ (InReady \/ in.stall)
    \/ stage \in {"out", "status_out"} /\ (out.armed \/ out.stall)

\* Host and device agree on the device's state and address between transfers,
\* whatever order resets, wakeups and requests were served in.  Exceptions: an
\* abandoned request or one that a bus reset found unserved (late), and a
\* wakeup that was served with no suspend before it (stale), which restores a
\* state of long ago.
StateAgrees ==
  TypeOK /\ (stage = "idle" /\ Quiet /\ ~suspsts /\ ~late /\ ~stale =>
    conn_state = hstate /\ addr = haddr)

\* A request that the device did not drop, and that did not begin with a packet
\* of another one, ends without the host's timeout.
RequestsEnd == Waiting ~> ~Waiting \/ mute \/ wrong
=============================================================================
