------------------------------ MODULE NetLink ------------------------------
(***************************************************************************)
(* Link supervision and the address of the interface: the task             *)
(* ethernetif_set_link of at32_emac_phy.c polls the PHY and, when the link  *)
(* changes, configures the MAC (emac_speed_config), starts or stops it and *)
(* brings the lwIP interface up or down; the DHCP client of lwIP runs      *)
(* beside it, on its timers and on the frames received, and writes the     *)
(* same interface flags.  A call of the task that blocks (vTaskDelay) or   *)
(* waits for the PHY is a step of its own; everything else it does in a    *)
(* row is one step.  One call of the DHCP client is one step.              *)
(*                                                                         *)
(* Data abstraction: the address is set or not; times are left out, so a   *)
(* timer that runs may expire at any moment; the answers kept are those to *)
(* the client's current transaction, as dhcp_recv drops all others.        *)
(***************************************************************************)
EXTENDS Naturals

CONSTANTS
  Modes,        \* what the PHY may negotiate
  RequestTries, \* dhcp_timeout: 5 in the code
  RebindTries,  \* dhcp_timeout: 8
  CheckTries,   \* dhcp_timeout: 1
  RebootTries,  \* REBOOT_TRIES: 2
  MaxFaults     \* bound: failed accesses, refusals and allocation failures

PhyModes == {"full100", "half100", "full10", "half10"}

ASSUME NetLinkAssumption ==
  /\ Modes \subseteq PhyModes
  /\ {RequestTries, RebindTries, CheckTries, RebootTries, MaxFaults} \subseteq Nat

VARIABLES
  phy,     \* link, latch (it failed since the last read), nego, mode
  mac,     \* run, mode
  net,     \* flags of the interface: link, up; addr: it has an address
  dhcp,    \* state, tries, timer (request_timeout # 0)
  t1t2,    \* coarse timers of the lease that still run
  msg,     \* answer received, until the network task takes it from the MAC
  pc,      \* where the link task waits
  faults,  \* faults so far
  ignored,   \* history: emac_speed_config failed for the present link
  unverified \* history: the client was restarted under an address

vars == <<phy, mac, net, dhcp, t1t2, msg, pc, faults, ignored, unverified>>

DhcpStates == {"OFF", "SELECTING", "REQUESTING", "CHECKING", "BOUND", "RENEWING",
               "REBINDING", "REBOOTING", "BACKING_OFF"}
Leased == {"BOUND", "RENEWING", "REBINDING"}
TriesBound == RequestTries + RebindTries + CheckTries + RebootTries + 1

Speed(m) == IF m \in {"full100", "half100"} THEN 100 ELSE 10

\* Frames pass between the cable and the MAC: it runs at the speed of the PHY.
\* Another duplex mode costs collisions only.
Hears == phy.link /\ mac.run /\ Speed(mac.mode) = Speed(phy.mode)

-----------------------------------------------------------------------------
(* The DHCP client, as functions of its state.                             *)

\* dhcp_set_state: a new state forgets the tries.
SetState(d, s) == IF s = d.state THEN d ELSE [state |-> s, tries |-> 0, timer |-> FALSE]

\* The end of every request: one more try, and the time-out runs.  tries of
\* the states that no limit ends stays at the bound.
Tried(d, s) ==
  [state |-> s, timer |-> TRUE,
   tries |-> IF s \in {"SELECTING", "RENEWING", "BACKING_OFF"} /\ d.tries = TriesBound
             THEN TriesBound ELSE d.tries + 1]

\* dhcp_discover, dhcp_select, dhcp_check, dhcp_renew, dhcp_rebind,
\* dhcp_reboot, dhcp_decline.
Ask(d, s) == Tried(SetState(d, s), s)

\* A message sent with no try behind it has a new transaction identifier,
\* and the answers to the former one are dropped.
NewXid(d, s) == SetState(d, s).tries = 0

\* One call that asks: the state it enters, and the answers it outdates.
Asks(s) ==
  /\ dhcp' = Ask(dhcp, s)
  /\ msg' = IF s # "CHECKING" /\ NewXid(dhcp, s) THEN "none" ELSE msg

NoAddress == net' = [net EXCEPT !.up = FALSE, !.addr = FALSE]

\* dhcp_release and dhcp_discover: the interface goes down without address.
Release == Asks("SELECTING") /\ NoAddress /\ unverified' = FALSE

\* dhcp_bind.
Bind ==
  /\ net' = [net EXCEPT !.up = TRUE, !.addr = TRUE]
  /\ dhcp' = SetState(dhcp, "BOUND")
  /\ t1t2' = {"t1", "t2"}
  /\ unverified' = FALSE

KeepNet == UNCHANGED <<net, unverified>>
KeepLink == UNCHANGED <<phy, mac, pc, ignored>>

GivesUp ==
  \/ dhcp.state = "REQUESTING" /\ dhcp.tries > RequestTries
  \/ dhcp.state = "REBINDING" /\ dhcp.tries > RebindTries

\* Mutant of AsksAfter: the end of a back-off is not handled.
AsksAfterNotBackOff ==
  CASE dhcp.state = "REBOOTING" /\ dhcp.tries >= RebootTries -> "SELECTING"
    [] OTHER -> dhcp.state

\* The state in which dhcp_timeout asks again.
AsksAfter ==
  CASE dhcp.state = "BACKING_OFF" -> "SELECTING"
    [] dhcp.state = "REBOOTING" /\ dhcp.tries >= RebootTries -> "SELECTING"
    [] OTHER -> dhcp.state

\* dhcp_fine_tmr, dhcp_timeout.
DhcpTimeout ==
  /\ dhcp.timer
  /\ \/ /\ dhcp.state = "CHECKING" /\ dhcp.tries > CheckTries
        /\ Bind
        /\ UNCHANGED msg
     \/ GivesUp /\ Release /\ UNCHANGED t1t2
     \/ /\ ~(dhcp.state = "CHECKING" /\ dhcp.tries > CheckTries)
        /\ ~GivesUp
        /\ Asks(AsksAfter)
        /\ KeepNet /\ UNCHANGED t1t2
  /\ KeepLink /\ UNCHANGED faults

\* dhcp_coarse_tmr, dhcp_t1_timeout, dhcp_t2_timeout: a lease to renew, or to
\* ask of any server.
CoarseTimer(t) ==
  /\ t \in t1t2
  /\ t1t2' = t1t2 \ {t}
  /\ IF dhcp.state \in {"REQUESTING", "BOUND", "RENEWING"}
     THEN Asks(IF t = "t1" THEN "RENEWING" ELSE "REBINDING")
     ELSE UNCHANGED <<dhcp, msg>>
  /\ KeepNet /\ KeepLink /\ UNCHANGED faults

\* dhcp_handle_offer: without a server identifier the offer is left, after
\* dhcp_recv has stopped the time-out.
RecvOffer ==
  /\ dhcp.state = "SELECTING"
  /\ IF msg = "offer" THEN dhcp' = Ask(dhcp, "REQUESTING")
                      ELSE dhcp' = [dhcp EXCEPT !.timer = FALSE]
  /\ KeepNet /\ UNCHANGED t1t2

\* DHCP_ACK: a requested address is checked first, a known one is bound.
RecvAck ==
  \/ /\ dhcp.state = "REQUESTING"
     /\ dhcp' = Ask(dhcp, "CHECKING")
     /\ KeepNet /\ UNCHANGED t1t2
  \/ dhcp.state \in {"REBOOTING", "REBINDING", "RENEWING"} /\ Bind

\* Mutant of RecvNak: the address stays on the interface.
RecvNakKeepsAddress ==
  /\ dhcp.state \in {"REBOOTING", "REQUESTING", "REBINDING", "RENEWING"}
  /\ dhcp' = Ask(dhcp, "SELECTING")
  /\ UNCHANGED <<net, unverified, t1t2>>

\* dhcp_handle_nak.
RecvNak ==
  /\ dhcp.state \in {"REBOOTING", "REQUESTING", "REBINDING", "RENEWING"}
  /\ dhcp' = Ask(dhcp, "SELECTING")
  /\ NoAddress /\ unverified' = FALSE
  /\ UNCHANGED t1t2

\* dhcp_recv: what the state does not expect is dropped.
DhcpRecv(m) ==
  /\ msg = m /\ m # "none"
  /\ msg' = "none"
  /\ \/ m \in {"offer", "offer_noid"} /\ RecvOffer
     \/ m = "ack" /\ RecvAck
     \/ m = "nak" /\ RecvNak
     \/ /\ ~(m \in {"offer", "offer_noid"} /\ dhcp.state = "SELECTING")
        /\ ~(m = "ack" /\ dhcp.state \in {"REQUESTING", "REBOOTING", "REBINDING", "RENEWING"})
        /\ ~(m = "nak" /\ dhcp.state \in {"REBOOTING", "REQUESTING", "REBINDING", "RENEWING"})
        /\ UNCHANGED <<net, dhcp, t1t2, unverified>>
  /\ KeepLink /\ UNCHANGED faults

\* dhcp_arp_reply, dhcp_decline: another host has the address.
ArpReply ==
  /\ faults < MaxFaults
  /\ dhcp.state = "CHECKING" /\ Hears
  /\ faults' = faults + 1
  /\ Asks("BACKING_OFF")
  /\ KeepNet /\ KeepLink /\ UNCHANGED t1t2

-----------------------------------------------------------------------------
(* The link task.                                                          *)

\* The status register: the link bit shows a failure until it is read.  A
\* PHY may go on latching while the link is down, or not.
StatusRead ==
  \E l \in BOOLEAN :
    /\ phy.link => ~l
    /\ phy' = [phy EXCEPT !.latch = l]

\* dhcp_network_changed.
NetworkChanged ==
  LET d == [dhcp EXCEPT !.tries = 0] IN
  CASE dhcp.state \in Leased \union {"REBOOTING"} -> Ask(d, "REBOOTING")
    [] dhcp.state = "OFF" -> dhcp
    [] OTHER -> Ask(d, "SELECTING")

\* netif_set_link_up, up to the link callback.
SetLinkUp ==
  /\ dhcp' = NetworkChanged
  /\ net' = [net EXCEPT !.link = TRUE,
                        !.up = @ /\ dhcp.state \notin Leased \union {"REBOOTING"}]
  /\ msg' = IF dhcp.state = "OFF" THEN msg ELSE "none"
  /\ pc' = "linked"
  /\ ignored' = FALSE
  /\ UNCHANGED mac

\* Mutant of SetLinkDown: the interface is left up.
SetLinkDownStaysUp ==
  /\ net' = [net EXCEPT !.link = FALSE]
  /\ mac' = [mac EXCEPT !.run = FALSE]
  /\ UNCHANGED <<dhcp, msg, pc, ignored>>

\* netif_set_link_down: emac_stop, netif_set_down.  The DHCP client goes on.
SetLinkDown ==
  /\ net' = [net EXCEPT !.link = FALSE, !.up = FALSE]
  /\ mac' = [mac EXCEPT !.run = FALSE]
  /\ UNCHANGED <<dhcp, msg, pc, ignored>>

\* Mutant of LinkBit: a second read hides a failure that is over.
LinkBitTwice == phy.link

\* link_update: the bit of the first read.
LinkBit == phy.link /\ ~phy.latch

\* ethernetif_set_link with the value of link_update, which is 0 when the
\* PHY cannot be read.
ActOn(reg) ==
  /\ pc = "poll"
  /\ \/ ~net.link /\ reg /\ SetLinkUp
     \/ net.link /\ ~reg /\ SetLinkDown
     \/ net.link = reg /\ UNCHANGED <<mac, net, dhcp, msg, pc, ignored>>
  /\ UNCHANGED <<t1t2, unverified>>

Poll == ActOn(LinkBit) /\ StatusRead /\ UNCHANGED faults

PollFails ==
  /\ faults < MaxFaults
  /\ ActOn(FALSE)
  /\ faults' = faults + 1
  /\ UNCHANGED phy

KeepStack == UNCHANGED <<net, dhcp, t1t2, msg, unverified>>

\* Mutant of SpeedError: the callback returns with the error, unstarted.
SpeedErrorReturns == pc' = "poll" /\ ignored' = TRUE

\* emac_speed_config returns ERROR and ethernetif_update_config goes on.
SpeedError == pc' = "start" /\ ignored' = TRUE

\* The loop on the link bit ends with the link, or at PHY_TIMEOUT; then
\* auto-negotiation is enabled and the task sleeps for a second.
WaitLinked ==
  /\ pc = "linked"
  /\ StatusRead
  /\ IF phy.link THEN pc' = "nego" /\ UNCHANGED ignored ELSE SpeedError
  /\ KeepStack /\ UNCHANGED <<mac, faults>>

\* The loop on the negotiation bit.
WaitNego ==
  /\ pc = "nego"
  /\ StatusRead
  /\ IF phy.link /\ phy.nego THEN pc' = "mode" /\ UNCHANGED ignored ELSE SpeedError
  /\ KeepStack /\ UNCHANGED <<mac, faults>>

\* The mode the LAN8720 branch sets: of the two tests for 10 Mbit/s both are
\* for full duplex, and both set 100 Mbit/s.
MacMode(m) ==
  CASE m \in {"full100", "half100"} -> m
    [] m = "full10" -> "half100"
    [] OTHER -> mac.mode

\* The specified control and status register says what was negotiated; of a
\* link that is down again it says anything.
ReadMode ==
  /\ pc = "mode"
  /\ \E m \in Modes :
       /\ phy.link => m = phy.mode
       /\ mac' = [mac EXCEPT !.mode = MacMode(m)]
  /\ pc' = "start"
  /\ KeepStack /\ UNCHANGED <<phy, faults, ignored>>

\* An access of emac_speed_config to the PHY fails.
SpeedFails ==
  /\ pc \in {"linked", "nego", "mode"}
  /\ faults < MaxFaults
  /\ faults' = faults + 1
  /\ SpeedError
  /\ KeepStack /\ UNCHANGED <<phy, mac>>

\* After 300 ms: emac_start, and netif_set_up of
\* ethernetif_notify_conn_changed.
Start ==
  /\ pc = "start"
  /\ mac' = [mac EXCEPT !.run = TRUE]
  /\ net' = [net EXCEPT !.up = TRUE]
  /\ unverified' = net.addr
  /\ pc' = "dhcp"
  /\ UNCHANGED <<phy, dhcp, t1t2, msg, faults, ignored>>

\* dhcp_start: the client forgets everything and discovers.  It stays off
\* when memory runs out, and nobody looks at the result.
DhcpStart ==
  /\ pc = "dhcp"
  /\ \/ /\ dhcp' = [state |-> "SELECTING", tries |-> 1, timer |-> TRUE]
        /\ UNCHANGED faults
     \/ /\ faults < MaxFaults
        /\ faults' = faults + 1
        /\ dhcp' = [state |-> "OFF", tries |-> 0, timer |-> FALSE]
  /\ t1t2' = {} /\ msg' = "none"
  /\ unverified' = net.addr
  /\ pc' = "poll"
  /\ UNCHANGED <<phy, mac, net, ignored>>

-----------------------------------------------------------------------------
(* The cable and the server.                                               *)

KeepDevice == UNCHANGED <<mac, net, dhcp, t1t2, pc, ignored, unverified>>

LinkUp ==
  /\ ~phy.link
  /\ \E m \in Modes, n \in BOOLEAN :
       phy' = [phy EXCEPT !.link = TRUE, !.mode = m, !.nego = n]
  /\ KeepDevice /\ UNCHANGED <<msg, faults>>

LinkDown ==
  /\ phy.link
  /\ phy' = [phy EXCEPT !.link = FALSE, !.latch = TRUE]
  /\ KeepDevice /\ UNCHANGED <<msg, faults>>

\* An answer to the client's message is received.
Answers(m) ==
  /\ msg = "none" /\ Hears
  /\ \/ m \in {"offer", "offer_noid"} /\ dhcp.state = "SELECTING"
     \/ m \in {"ack", "nak"}
        /\ dhcp.state \in {"REQUESTING", "RENEWING", "REBINDING", "REBOOTING"}
  /\ m \in {"nak", "offer_noid"} => faults < MaxFaults
  /\ faults' = IF m \in {"nak", "offer_noid"} THEN faults + 1 ELSE faults
  /\ msg' = m
  /\ KeepDevice /\ UNCHANGED phy

-----------------------------------------------------------------------------
\* tcpip_stack_init has started the client and set the interface up.  The
\* driver has set the link flag and started the MAC, which is as it was
\* reset; the PHY has been reset, so its link has failed.
Init ==
  /\ phy \in [link : {FALSE}, latch : {TRUE}, nego : {FALSE}, mode : Modes]
  /\ mac = [run |-> TRUE, mode |-> "half10"]
  /\ net = [link |-> TRUE, up |-> TRUE, addr |-> FALSE]
  /\ dhcp = [state |-> "SELECTING", tries |-> 1, timer |-> TRUE]
  /\ t1t2 = {}
  /\ msg = "none"
  /\ pc = "poll"
  /\ faults = 0
  /\ ignored = FALSE
  /\ unverified = FALSE

LinkTask == Poll \/ WaitLinked \/ WaitNego \/ ReadMode \/ Start \/ DhcpStart

Next ==
  \/ DhcpTimeout
  \/ \E t \in {"t1", "t2"} : CoarseTimer(t)
  \/ \E m \in {"offer", "offer_noid", "ack", "nak"} : DhcpRecv(m) \/ Answers(m)
  \/ ArpReply
  \/ Poll \/ PollFails
  \/ WaitLinked \/ WaitNego \/ ReadMode \/ SpeedFails
  \/ Start \/ DhcpStart
  \/ LinkUp \/ LinkDown

\* The scheduler runs the link task and the timers.  A server that is asked
\* again and again over a link that passes frames answers, and the network task
\* takes the answer before the time-outs, which are seconds, have given up.
Fairness ==
  /\ WF_vars(LinkTask)
  /\ WF_vars(DhcpTimeout)
  /\ \A m \in {"offer", "ack"} : SF_vars(Answers(m)) /\ SF_vars(DhcpRecv(m))
  /\ \A m \in {"offer_noid", "nak"} : WF_vars(DhcpRecv(m))

Spec == Init /\ [][Next]_vars /\ Fairness

-----------------------------------------------------------------------------
(* Properties.                                                             *)

\* Every variable has its type; a request is tried a bounded number of times.
TypeOK ==
  /\ phy \in [link : BOOLEAN, latch : BOOLEAN, nego : BOOLEAN, mode : Modes]
  /\ mac \in [run : BOOLEAN, mode : PhyModes]
  /\ net \in [link : BOOLEAN, up : BOOLEAN, addr : BOOLEAN]
  /\ dhcp \in [state : DhcpStates, tries : 0..TriesBound, timer : BOOLEAN]
  /\ t1t2 \subseteq {"t1", "t2"}
  /\ msg \in {"none", "offer", "offer_noid", "ack", "nak"}
  /\ pc \in {"poll", "linked", "nego", "mode", "start", "dhcp"}
  /\ faults \in 0..MaxFaults
  /\ ignored \in BOOLEAN /\ unverified \in BOOLEAN

\* Between two polls that see the link, the MAC has the mode that was
\* negotiated, however often the link failed and came back in another mode.
\* It holds for 100 Mbit/s, the only speed emac_speed_config sets, and when
\* its error, which ethernetif_update_config ignores, did not come up.
ModeAgrees ==
  (/\ pc = "poll" /\ net.link
   /\ phy.link /\ ~phy.latch /\ phy.mode \in {"full100", "half100"}
   /\ ~ignored)
  => mac.run /\ mac.mode = phy.mode

\* Without a link the MAC is stopped and the interface is down, unless the
\* DHCP client ended its check of an address after the link had gone: then
\* dhcp_bind has brought the interface up, with a lease.
DownWithoutLink ==
  pc = "poll" /\ ~net.link => ~mac.run /\ (net.up => dhcp.state \in Leased)

\* The interface is up with an address only while the client has a lease for
\* it, unless the link came back: ethernetif_notify_conn_changed brings the
\* interface up with the former address and starts the client anew.
AddressIsLeased ==
  net.up /\ net.addr /\ ~unverified => dhcp.state \in Leased

\* A link that stays is found, and so is one that is gone for good: the flag
\* of the interface and the MAC follow it.
LinkFollows ==
  /\ <>[](phy.link) => <>[](net.link /\ mac.run)
  /\ <>[](~phy.link) => <>[](~net.link /\ ~mac.run)

\* The client that will not ask again by itself: off, or at an offer without
\* a server identifier, for which dhcp_recv has stopped the time-out.
Stuck == dhcp.state = "OFF" \/ (dhcp.state = "SELECTING" /\ ~dhcp.timer)

\* The MAC runs at another speed than the link and receives nothing:
\* emac_speed_config has set 100 Mbit/s for a link at 10, or has failed, which
\* ethernetif_update_config ignores.
Deaf == Speed(mac.mode) # Speed(phy.mode)

\* With a link that stays, the interface is up with a leased address again
\* and again, whatever was refused or lost before, unless the client is stuck
\* or the MAC is left deaf.
LeaseObtained ==
  <>[](phy.link) =>
    \/ <>[]Stuck
    \/ <>[]Deaf
    \/ []<>(net.up /\ net.addr /\ dhcp.state = "BOUND")
=============================================================================
