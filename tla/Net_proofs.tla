----------------------------- MODULE Net_proofs -----------------------------
(***************************************************************************)
(* Proofs about the network task's two services: link supervision with the *)
(* DHCP client, for all limits of tries, all modes of the PHY and any      *)
(* number of faults, and the timeout list, for any timers and periods, any *)
(* pool with a node for each, any word and any lag.  The two have no state *)
(* in common; each part is about the specification of its own module.      *)
(*                                                                         *)
(* Link: the MAC has the mode of the link, the interface is down without a *)
(* link, and an address is a leased one.  Timeout list: no timer and no    *)
(* node is lost, and none is listed for later than it is due.              *)
(***************************************************************************)
EXTENDS NetLink, LwipTimers, FiniteSetTheorems, TLAPS

-----------------------------------------------------------------------------
(* Link supervision and the DHCP client.                                   *)

Retried == {"SELECTING", "REQUESTING", "CHECKING", "RENEWING", "REBINDING", "REBOOTING",
            "BACKING_OFF"}

\* A client that is off or bound has no request to repeat.
TimerStates == dhcp.timer => dhcp.state \in Retried

\* The task leaves its poll only with a link, and the MAC runs when it is back.
TaskAndLink ==
  /\ pc # "poll" => net.link
  /\ net.link /\ pc \in {"poll", "dhcp"} => mac.run

\* Without a link flag: MAC stopped, interface down or leased.
NoLink == ~net.link => ~mac.run /\ (net.up => dhcp.state \in Leased)

\* From the read of the mode on, a failure of the link is latched until a poll
\* sees it, and without one the mode in the MAC is the one negotiated.
ModeKnown ==
  /\ pc = "mode" /\ ~phy.link => phy.latch
  /\ net.link /\ ~ignored /\ pc \in {"start", "dhcp", "poll"} =>
       /\ ~phy.link => phy.latch
       /\ phy.link /\ ~phy.latch /\ phy.mode \in {"full100", "half100"} =>
            mac.mode = phy.mode

IInv == TypeOK /\ TimerStates /\ TaskAndLink /\ NoLink /\ ModeKnown /\ AddressIsLeased

-----------------------------------------------------------------------------
(* The client's requests.                                                  *)

\* A request is tried once more within the bound, and its time-out runs.
LEMMA AskType ==
  ASSUME NEW d \in [state : DhcpStates, tries : 0..TriesBound, timer : BOOLEAN],
         NEW s \in Retried,
         \/ s # d.state \/ s \in {"SELECTING", "RENEWING", "BACKING_OFF"}
         \/ d.tries < TriesBound
  PROVE  /\ Ask(d, s) \in [state : DhcpStates, tries : 0..TriesBound, timer : BOOLEAN]
         /\ Ask(d, s).state = s
  <1>1. TriesBound \in Nat /\ 1 <= TriesBound
    BY NetLinkAssumption DEF TriesBound
  <1>2. SetState(d, s) \in [state : DhcpStates, tries : 0..TriesBound, timer : BOOLEAN]
    BY <1>1 DEF SetState, Retried, DhcpStates
  <1>3. /\ SetState(d, s).tries < TriesBound
        \/ s \in {"SELECTING", "RENEWING", "BACKING_OFF"}
    BY <1>1 DEF SetState
  <1> QED
    BY <1>1, <1>2, <1>3 DEF Ask, Tried, Retried, DhcpStates

DhcpType == [state : DhcpStates, tries : 0..TriesBound, timer : BOOLEAN]

\* A bound client has its type, and no time-out.
LEMMA BoundType ==
  ASSUME NEW d \in DhcpType, d.state # "BOUND"
  PROVE  /\ SetState(d, "BOUND") = [state |-> "BOUND", tries |-> 0, timer |-> FALSE]
         /\ SetState(d, "BOUND") \in DhcpType
  <1>1. 0 \in 0..TriesBound
    BY NetLinkAssumption DEF TriesBound
  <1> QED
    BY <1>1 DEF SetState, DhcpType, DhcpStates

\* What the client does leaves the task, the MAC and the link alone.
LEMMA ClientKeepsLink ==
  ASSUME TaskAndLink, ModeKnown, KeepLink, net'.link = net.link
  PROVE  TaskAndLink' /\ ModeKnown'
  BY DEF TaskAndLink, ModeKnown, KeepLink

-----------------------------------------------------------------------------
(* Each action preserves the invariant.                                    *)

LEMMA InitInv == Init => IInv
  <1> SUFFICES ASSUME Init PROVE IInv
    OBVIOUS
  <1>1. TriesBound \in Nat /\ 1 <= TriesBound
    BY NetLinkAssumption DEF TriesBound
  <1>2. dhcp \in [state : DhcpStates, tries : 0..TriesBound, timer : BOOLEAN]
    BY <1>1 DEF Init, DhcpStates
  <1>3. /\ phy \in [link : BOOLEAN, latch : BOOLEAN, nego : BOOLEAN, mode : Modes]
        /\ mac \in [run : BOOLEAN, mode : PhyModes]
        /\ net \in [link : BOOLEAN, up : BOOLEAN, addr : BOOLEAN]
    <2>1. phy \in [link : {FALSE}, latch : {TRUE}, nego : {FALSE}, mode : Modes]
      BY DEF Init
    <2>2. mac = [run |-> TRUE, mode |-> "half10"]
      BY DEF Init
    <2>3. net = [link |-> TRUE, up |-> TRUE, addr |-> FALSE]
      BY DEF Init
    <2> QED
      BY <2>1, <2>2, <2>3 DEF PhyModes
  <1>4. TypeOK
    <2>1. t1t2 \subseteq {"t1", "t2"} /\ ignored \in BOOLEAN /\ unverified \in BOOLEAN
      BY DEF Init
    <2>2. msg = "none" /\ pc = "poll" /\ faults \in 0..MaxFaults
      BY NetLinkAssumption DEF Init
    <2> QED
      BY <1>2, <1>3, <2>1, <2>2 DEF TypeOK
  <1> QED
    BY <1>4 DEF Init, IInv, TimerStates, Retried, TaskAndLink, NoLink, ModeKnown,
                AddressIsLeased

LEMMA DhcpTimeoutInv == IInv /\ DhcpTimeout => IInv'
  <1> SUFFICES ASSUME IInv, DhcpTimeout PROVE IInv'
    OBVIOUS
  <1>1. dhcp \in DhcpType /\ dhcp.state \in Retried
    BY DEF IInv, TypeOK, DhcpType, TimerStates, DhcpTimeout
  <1>2. KeepLink /\ faults' = faults /\ dhcp.timer
    BY DEF DhcpTimeout
  <1>3. CASE dhcp.state = "CHECKING" /\ dhcp.tries > CheckTries /\ Bind /\ UNCHANGED msg
    <2>1. /\ dhcp' = [state |-> "BOUND", tries |-> 0, timer |-> FALSE]
          /\ dhcp' \in DhcpType
      BY <1>1, <1>3, BoundType DEF Bind
    <2>2. /\ net' = [net EXCEPT !.up = TRUE, !.addr = TRUE]
          /\ t1t2' = {"t1", "t2"} /\ unverified' = FALSE
      BY <1>3 DEF Bind
    <2>3. TypeOK'
      BY <1>2, <1>3, <2>1, <2>2, ZenonT(60) DEF IInv, TypeOK, KeepLink, DhcpType
    <2>4. TaskAndLink' /\ ModeKnown'
      BY <1>2, <2>2, ClientKeepsLink DEF IInv, TypeOK
    <2> QED
      BY <1>2, <2>1, <2>2, <2>3, <2>4
      DEF IInv, TypeOK, TimerStates, NoLink, AddressIsLeased, Leased, KeepLink
  <1>4. CASE GivesUp /\ Release /\ UNCHANGED t1t2
    <2>1. dhcp' = Ask(dhcp, "SELECTING") /\ dhcp' \in DhcpType /\ dhcp'.state = "SELECTING"
      BY <1>1, <1>4, AskType DEF Release, Asks, DhcpType, Retried
    <2>2. /\ net' = [net EXCEPT !.up = FALSE, !.addr = FALSE]
          /\ unverified' = FALSE /\ t1t2' = t1t2 /\ msg' \in {"none", msg}
      BY <1>4 DEF Release, NoAddress, Asks
    <2>3. TypeOK'
      BY <1>2, <2>1, <2>2, ZenonT(60) DEF IInv, TypeOK, KeepLink, DhcpType
    <2>4. TaskAndLink' /\ ModeKnown'
      BY <1>2, <2>2, ClientKeepsLink DEF IInv, TypeOK
    <2> QED
      BY <1>2, <2>1, <2>2, <2>3, <2>4
      DEF IInv, TypeOK, TimerStates, Retried, NoLink, AddressIsLeased, KeepLink
  <1>5. CASE /\ ~(dhcp.state = "CHECKING" /\ dhcp.tries > CheckTries)
             /\ ~GivesUp
             /\ Asks(AsksAfter)
             /\ KeepNet /\ UNCHANGED t1t2
    <2>1. /\ AsksAfter \in Retried
          /\ dhcp.state \in Leased => AsksAfter = dhcp.state
      BY <1>1 DEF AsksAfter, Retried, Leased
    <2>2. \/ AsksAfter # dhcp.state \/ AsksAfter \in {"SELECTING", "RENEWING", "BACKING_OFF"}
          \/ dhcp.tries < TriesBound
      BY <1>1, <1>5, NetLinkAssumption DEF AsksAfter, Retried, GivesUp, TriesBound, DhcpType
    <2>3. dhcp' = Ask(dhcp, AsksAfter) /\ dhcp' \in DhcpType /\ dhcp'.state = AsksAfter
      BY <1>1, <1>5, <2>1, <2>2, AskType DEF Asks, DhcpType
    <2>4. net' = net /\ unverified' = unverified /\ t1t2' = t1t2 /\ msg' \in {"none", msg}
      BY <1>5 DEF KeepNet, Asks
    <2>5. TypeOK'
      BY <1>2, <2>3, <2>4 DEF IInv, TypeOK, KeepLink, DhcpType
    <2>6. TaskAndLink' /\ ModeKnown'
      BY <1>2, <2>4, ClientKeepsLink DEF IInv
    <2> QED
      BY <1>2, <2>1, <2>3, <2>4, <2>5, <2>6
      DEF IInv, TimerStates, NoLink, AddressIsLeased, KeepLink
  <1> QED
    BY <1>3, <1>4, <1>5 DEF DhcpTimeout

LEMMA CoarseTimerInv ==
  ASSUME IInv, NEW which \in {"t1", "t2"}, CoarseTimer(which)
  PROVE  IInv'
  <1>1. /\ KeepLink /\ faults' = faults /\ net' = net /\ unverified' = unverified
        /\ t1t2' \subseteq t1t2
    BY DEF CoarseTimer, KeepNet
  <1>2. /\ dhcp' \in DhcpType /\ msg' \in {"none", msg}
        /\ (dhcp' = dhcp \/ dhcp'.state \in {"RENEWING", "REBINDING"})
    <2>1. CASE dhcp.state \in {"REQUESTING", "BOUND", "RENEWING"}
      <3> DEFINE s == IF which = "t1" THEN "RENEWING" ELSE "REBINDING"
      <3>1. Asks(s)
        BY <2>1 DEF CoarseTimer
      <3>2. s \in Retried /\ s \in {"RENEWING", "REBINDING"}
            /\ (s # dhcp.state \/ s \in {"SELECTING", "RENEWING", "BACKING_OFF"})
        BY <2>1 DEF Retried
      <3> HIDE DEF s
      <3>3. dhcp' = Ask(dhcp, s) /\ msg' \in {"none", msg}
        BY <3>1 DEF Asks
      <3> QED
        BY <3>2, <3>3, AskType DEF IInv, TypeOK, DhcpType
    <2>2. CASE dhcp.state \notin {"REQUESTING", "BOUND", "RENEWING"}
      BY <2>2 DEF CoarseTimer, IInv, TypeOK, DhcpType
    <2> QED
      BY <2>1, <2>2
  <1>3. TypeOK'
    BY <1>1, <1>2 DEF IInv, TypeOK, KeepLink, DhcpType
  <1>4. TaskAndLink' /\ ModeKnown'
    BY <1>1, ClientKeepsLink DEF IInv
  <1> QED
    BY <1>1, <1>2, <1>3, <1>4
    DEF IInv, TimerStates, Retried, NoLink, AddressIsLeased, Leased, KeepLink

LEMMA DhcpRecvInv ==
  ASSUME IInv, NEW m \in {"offer", "offer_noid", "ack", "nak"}, DhcpRecv(m)
  PROVE  IInv'
  <1>1. KeepLink /\ faults' = faults /\ msg' = "none" /\ dhcp \in DhcpType
    BY DEF DhcpRecv, IInv, TypeOK, DhcpType
  <1>2. CASE RecvOffer
    <2>1. dhcp.state = "SELECTING" /\ net' = net /\ unverified' = unverified /\ t1t2' = t1t2
      BY <1>2 DEF RecvOffer, KeepNet
    <2>2. dhcp' \in DhcpType /\ dhcp'.state \in {"SELECTING", "REQUESTING"}
      <3>1. CASE dhcp' = Ask(dhcp, "REQUESTING")
        BY <1>1, <2>1, <3>1, AskType DEF DhcpType, Retried
      <3>2. CASE dhcp' = [dhcp EXCEPT !.timer = FALSE]
        BY <1>1, <2>1, <3>2 DEF DhcpType
      <3> QED
        BY <1>2, <3>1, <3>2 DEF RecvOffer
    <2>3. TypeOK'
      BY <1>1, <2>1, <2>2 DEF IInv, TypeOK, KeepLink, DhcpType
    <2>4. TaskAndLink' /\ ModeKnown'
      BY <1>1, <2>1, ClientKeepsLink DEF IInv
    <2> QED
      BY <1>1, <2>1, <2>2, <2>3, <2>4
      DEF IInv, TimerStates, Retried, NoLink, AddressIsLeased, Leased, KeepLink
  <1>3. CASE RecvAck
    <2>1. CASE /\ dhcp.state = "REQUESTING" /\ dhcp' = Ask(dhcp, "CHECKING")
               /\ KeepNet /\ UNCHANGED t1t2
      <3>1. dhcp' \in DhcpType /\ dhcp'.state = "CHECKING"
        BY <1>1, <2>1, AskType DEF DhcpType, Retried
      <3>2. net' = net /\ unverified' = unverified /\ t1t2' = t1t2
        BY <2>1 DEF KeepNet
      <3>3. TypeOK'
        BY <1>1, <3>1, <3>2 DEF IInv, TypeOK, KeepLink, DhcpType
      <3>4. TaskAndLink' /\ ModeKnown'
        BY <1>1, <3>2, ClientKeepsLink DEF IInv
      <3> QED
        BY <1>1, <2>1, <3>1, <3>2, <3>3, <3>4
        DEF IInv, TimerStates, Retried, NoLink, AddressIsLeased, Leased, KeepLink
    <2>2. CASE dhcp.state \in {"REBOOTING", "REBINDING", "RENEWING"} /\ Bind
      <3>1. /\ dhcp' = [state |-> "BOUND", tries |-> 0, timer |-> FALSE]
            /\ dhcp' \in DhcpType
        BY <1>1, <2>2, BoundType DEF Bind
      <3>2. /\ net' = [net EXCEPT !.up = TRUE, !.addr = TRUE]
            /\ t1t2' = {"t1", "t2"} /\ unverified' = FALSE
        BY <2>2 DEF Bind
      <3>3. TypeOK'
        BY <1>1, <3>1, <3>2 DEF IInv, TypeOK, KeepLink, DhcpType
      <3>4. TaskAndLink' /\ ModeKnown'
        BY <1>1, <3>2, ClientKeepsLink DEF IInv, TypeOK
      <3> QED
        BY <1>1, <3>1, <3>2, <3>3, <3>4
        DEF IInv, TypeOK, TimerStates, NoLink, AddressIsLeased, Leased, KeepLink
    <2> QED
      BY <1>3, <2>1, <2>2 DEF RecvAck
  <1>4. CASE RecvNak
    <2>1. dhcp' \in DhcpType /\ dhcp'.state = "SELECTING"
      BY <1>1, <1>4, AskType DEF RecvNak, DhcpType, Retried
    <2>2. /\ net' = [net EXCEPT !.up = FALSE, !.addr = FALSE]
          /\ unverified' = FALSE /\ t1t2' = t1t2
      BY <1>4 DEF RecvNak, NoAddress
    <2>3. TypeOK'
      BY <1>1, <2>1, <2>2 DEF IInv, TypeOK, KeepLink, DhcpType
    <2>4. TaskAndLink' /\ ModeKnown'
      BY <1>1, <2>2, ClientKeepsLink DEF IInv, TypeOK
    <2> QED
      BY <1>1, <2>1, <2>2, <2>3, <2>4
      DEF IInv, TypeOK, TimerStates, Retried, NoLink, AddressIsLeased, KeepLink
  <1>5. CASE UNCHANGED <<net, dhcp, t1t2, unverified>>
    <2>1. TypeOK' /\ TimerStates' /\ NoLink' /\ AddressIsLeased'
      BY <1>1, <1>5 DEF IInv, TypeOK, TimerStates, NoLink, AddressIsLeased, KeepLink
    <2> QED
      BY <1>1, <1>5, <2>1, ClientKeepsLink DEF IInv
  <1> QED
    BY <1>2, <1>3, <1>4, <1>5 DEF DhcpRecv

LEMMA ArpReplyInv == IInv /\ ArpReply => IInv'
  <1> SUFFICES ASSUME IInv, ArpReply PROVE IInv'
    OBVIOUS
  <1>1. /\ KeepLink /\ net' = net /\ unverified' = unverified /\ t1t2' = t1t2
        /\ faults' \in 0..MaxFaults /\ msg' \in {"none", msg}
        /\ dhcp.state = "CHECKING" /\ dhcp' = Ask(dhcp, "BACKING_OFF")
    BY NetLinkAssumption DEF ArpReply, KeepNet, Asks, IInv, TypeOK
  <1>2. dhcp' \in DhcpType /\ dhcp'.state = "BACKING_OFF"
    BY <1>1, AskType DEF IInv, TypeOK, DhcpType, Retried
  <1>3. TypeOK'
    BY <1>1, <1>2 DEF IInv, TypeOK, KeepLink, DhcpType
  <1>4. TaskAndLink' /\ ModeKnown'
    BY <1>1, ClientKeepsLink DEF IInv
  <1> QED
    BY <1>1, <1>2, <1>3, <1>4
    DEF IInv, TimerStates, Retried, NoLink, AddressIsLeased, Leased, KeepLink

\* Steps of the task that leave the lwIP client and its answers alone.
LEMMA StackKept ==
  ASSUME IInv, KeepStack, mac'.run = mac.run \/ net.link
  PROVE  TimerStates' /\ NoLink' /\ AddressIsLeased'
  BY DEF IInv, TimerStates, NoLink, AddressIsLeased, KeepStack

LEMMA StatusReadType ==
  ASSUME TypeOK, StatusRead
  PROVE  /\ phy' \in [link : BOOLEAN, latch : BOOLEAN, nego : BOOLEAN, mode : Modes]
         /\ phy'.link = phy.link /\ phy'.mode = phy.mode /\ (phy.link => ~phy'.latch)
  <1>1. PICK l \in BOOLEAN : (phy.link => ~l) /\ phy' = [phy EXCEPT !.latch = l]
    BY DEF StatusRead
  <1> QED
    BY <1>1 DEF TypeOK

\* What a poll does with the value of the link bit.
LEMMA ActOnInv ==
  ASSUME IInv, NEW reg, reg \in BOOLEAN, ActOn(reg),
         phy' \in [link : BOOLEAN, latch : BOOLEAN, nego : BOOLEAN, mode : Modes],
         phy'.link = phy.link, phy'.mode = phy.mode,
         phy' = phy \/ (phy.link => ~phy'.latch),
         reg => phy.link /\ ~phy.latch,
         faults' \in 0..MaxFaults
  PROVE  IInv'
  <1>1. pc = "poll" /\ t1t2' = t1t2 /\ unverified' = unverified
    BY DEF ActOn
  <1>2. CASE ~net.link /\ reg /\ SetLinkUp
    <2>1. /\ dhcp' = NetworkChanged /\ pc' = "linked" /\ ignored' = FALSE /\ mac' = mac
          /\ msg' \in {"none", msg}
          /\ net' = [net EXCEPT !.link = TRUE,
                        !.up = @ /\ dhcp.state \notin Leased \union {"REBOOTING"}]
      BY <1>2 DEF SetLinkUp
    <2>2. /\ dhcp' \in DhcpType
          /\ dhcp'.state # "OFF" \/ dhcp' = dhcp
          /\ dhcp'.timer => dhcp'.state \in Retried
      <3> DEFINE d == [dhcp EXCEPT !.tries = 0]
      <3>1. TriesBound \in Nat /\ 1 <= TriesBound
        BY NetLinkAssumption DEF TriesBound
      <3>2. d \in DhcpType /\ d.tries < TriesBound
        BY <3>1 DEF IInv, TypeOK, DhcpType
      <3> HIDE DEF d
      <3>3. \/ dhcp' = Ask(d, "REBOOTING") \/ dhcp' = Ask(d, "SELECTING")
            \/ dhcp' = dhcp
        BY <2>1 DEF NetworkChanged, d
      <3>4. CASE dhcp' = Ask(d, "REBOOTING")
        BY <3>2, <3>4, AskType DEF DhcpType, Retried
      <3>5. CASE dhcp' = Ask(d, "SELECTING")
        BY <3>2, <3>5, AskType DEF DhcpType, Retried
      <3>6. CASE dhcp' = dhcp
        BY <3>6 DEF IInv, TypeOK, DhcpType, TimerStates
      <3> QED
        BY <3>3, <3>4, <3>5, <3>6
    <2>3. /\ net' \in [link : BOOLEAN, up : BOOLEAN, addr : BOOLEAN]
          /\ net'.link /\ net'.addr = net.addr
          /\ net'.up => net.up /\ dhcp.state \notin Leased
      BY <2>1 DEF IInv, TypeOK
    <2>4. TypeOK'
      BY <1>1, <2>1, <2>2, <2>3 DEF IInv, TypeOK, DhcpType
    <2>5. TaskAndLink' /\ ModeKnown' /\ NoLink'
      BY <2>1, <2>3 DEF TaskAndLink, ModeKnown, NoLink
    <2>6. AddressIsLeased'
      BY <1>1, <2>3 DEF IInv, AddressIsLeased
    <2> QED
      BY <2>2, <2>4, <2>5, <2>6 DEF IInv, TimerStates
  <1>3. CASE net.link /\ ~reg /\ SetLinkDown
    <2>1. /\ net' = [net EXCEPT !.link = FALSE, !.up = FALSE]
          /\ mac' = [mac EXCEPT !.run = FALSE]
          /\ UNCHANGED <<dhcp, msg, pc, ignored>>
      BY <1>3 DEF SetLinkDown
    <2>2. TypeOK'
      BY <1>1, <2>1 DEF IInv, TypeOK
    <2> QED
      BY <1>1, <2>1, <2>2
      DEF IInv, TypeOK, TimerStates, TaskAndLink, NoLink, ModeKnown, AddressIsLeased
  <1>4. CASE net.link = reg /\ UNCHANGED <<mac, net, dhcp, msg, pc, ignored>>
    <2>1. TypeOK'
      BY <1>1, <1>4 DEF IInv, TypeOK
    <2>2. TimerStates' /\ TaskAndLink' /\ NoLink' /\ AddressIsLeased'
      BY <1>1, <1>4 DEF IInv, TimerStates, TaskAndLink, NoLink, AddressIsLeased
    <2>3. ModeKnown'
      BY <1>1, <1>4 DEF IInv, TypeOK, ModeKnown
    <2> QED
      BY <2>1, <2>2, <2>3 DEF IInv
  <1> QED
    BY <1>2, <1>3, <1>4 DEF ActOn

LEMMA PollInv == IInv /\ (Poll \/ PollFails) => IInv'
  <1>1. ASSUME IInv, Poll PROVE IInv'
    <2>1. ActOn(LinkBit) /\ StatusRead /\ faults' = faults
      BY <1>1 DEF Poll
    <2>2. LinkBit \in BOOLEAN /\ (LinkBit => phy.link /\ ~phy.latch)
      BY <1>1 DEF LinkBit, IInv, TypeOK
    <2>3. /\ phy' \in [link : BOOLEAN, latch : BOOLEAN, nego : BOOLEAN, mode : Modes]
          /\ phy'.link = phy.link /\ phy'.mode = phy.mode /\ (phy.link => ~phy'.latch)
          /\ faults' \in 0..MaxFaults
      BY <1>1, <2>1, StatusReadType DEF IInv, TypeOK
    <2> QED
      BY <1>1, <2>1, <2>2, <2>3, ActOnInv
  <1>2. ASSUME IInv, PollFails PROVE IInv'
    <2>1. ActOn(FALSE) /\ phy' = phy /\ faults < MaxFaults /\ faults' = faults + 1
      BY <1>2 DEF PollFails
    <2>2. phy' \in [link : BOOLEAN, latch : BOOLEAN, nego : BOOLEAN, mode : Modes]
      BY <1>2, <2>1 DEF IInv, TypeOK
    <2>3. faults' \in 0..MaxFaults
      <3>1. faults < MaxFaults /\ faults' = faults + 1 /\ faults \in 0..MaxFaults
        BY <1>2, <2>1 DEF IInv, TypeOK
      <3> QED
        BY <3>1, NetLinkAssumption
    <2> QED
      BY <1>2, <2>1, <2>2, <2>3, ActOnInv
  <1> QED
    BY <1>1, <1>2

LEMMA WaitLinkedInv == IInv /\ WaitLinked => IInv'
  <1> SUFFICES ASSUME IInv, WaitLinked PROVE IInv'
    OBVIOUS
  <1>1. /\ pc = "linked" /\ KeepStack /\ mac' = mac /\ faults' = faults /\ StatusRead
        /\ \/ pc' = "nego" /\ ignored' = ignored
           \/ pc' = "start" /\ ignored' = TRUE
    BY DEF WaitLinked, SpeedError
  <1>2. TypeOK'
    BY <1>1, StatusReadType, ZenonT(60) DEF IInv, TypeOK, KeepStack
  <1>3. TaskAndLink' /\ ModeKnown'
    BY <1>1 DEF IInv, TaskAndLink, ModeKnown, KeepStack
  <1> QED
    BY <1>1, <1>2, <1>3, StackKept DEF IInv

LEMMA WaitNegoInv == IInv /\ WaitNego => IInv'
  <1> SUFFICES ASSUME IInv, WaitNego PROVE IInv'
    OBVIOUS
  <1>1. /\ pc = "nego" /\ KeepStack /\ mac' = mac /\ faults' = faults /\ StatusRead
        /\ \/ pc' = "mode" /\ ignored' = ignored /\ phy.link
           \/ pc' = "start" /\ ignored' = TRUE
    BY DEF WaitNego, SpeedError
  <1>2. TypeOK'
    BY <1>1, StatusReadType, ZenonT(60) DEF IInv, TypeOK, KeepStack
  <1>3. TaskAndLink' /\ ModeKnown'
    BY <1>1, StatusReadType DEF IInv, TaskAndLink, ModeKnown, KeepStack
  <1> QED
    BY <1>1, <1>2, <1>3, StackKept DEF IInv

LEMMA ReadModeInv == IInv /\ ReadMode => IInv'
  <1> SUFFICES ASSUME IInv, ReadMode PROVE IInv'
    OBVIOUS
  <1>1. pc = "mode" /\ KeepStack /\ pc' = "start" /\ UNCHANGED <<phy, faults, ignored>>
    BY DEF ReadMode
  <1>2. PICK m \in Modes : /\ phy.link => m = phy.mode
                           /\ mac' = [mac EXCEPT !.mode = MacMode(m)]
    BY DEF ReadMode
  <1>3. /\ MacMode(m) \in PhyModes
        /\ m \in {"full100", "half100"} => MacMode(m) = m
    BY DEF MacMode, IInv, TypeOK, PhyModes
  <1>4. /\ mac' \in [run : BOOLEAN, mode : PhyModes]
        /\ mac'.run = mac.run /\ mac'.mode = MacMode(m)
    BY <1>2, <1>3 DEF IInv, TypeOK
  <1>5. TypeOK'
    BY <1>1, <1>4 DEF IInv, TypeOK, KeepStack
  <1>6. TaskAndLink' /\ ModeKnown'
    BY <1>1, <1>2, <1>3, <1>4 DEF IInv, TaskAndLink, ModeKnown, KeepStack
  <1> QED
    BY <1>1, <1>4, <1>5, <1>6, StackKept DEF IInv

LEMMA SpeedFailsInv == IInv /\ SpeedFails => IInv'
  <1> SUFFICES ASSUME IInv, SpeedFails PROVE IInv'
    OBVIOUS
  <1>1. /\ pc \in {"linked", "nego", "mode"} /\ KeepStack /\ phy' = phy /\ mac' = mac
        /\ pc' = "start" /\ ignored' = TRUE /\ faults' \in 0..MaxFaults
    BY NetLinkAssumption DEF SpeedFails, SpeedError, IInv, TypeOK
  <1>2. TypeOK'
    BY <1>1 DEF IInv, TypeOK, KeepStack
  <1>3. TaskAndLink' /\ ModeKnown'
    BY <1>1 DEF IInv, TaskAndLink, ModeKnown, KeepStack
  <1> QED
    BY <1>1, <1>2, <1>3, StackKept DEF IInv

LEMMA StartInv == IInv /\ Start => IInv'
  <1> SUFFICES ASSUME IInv, Start PROVE IInv'
    OBVIOUS
  <1>1. /\ mac' \in [run : BOOLEAN, mode : PhyModes] /\ mac'.run /\ mac'.mode = mac.mode
        /\ net' \in [link : BOOLEAN, up : BOOLEAN, addr : BOOLEAN]
        /\ net'.link = net.link /\ net'.addr = net.addr
        /\ unverified' \in BOOLEAN /\ (net.addr => unverified')
    BY DEF Start, IInv, TypeOK
  <1>2. pc = "start" /\ pc' = "dhcp" /\ UNCHANGED <<phy, dhcp, t1t2, msg, faults, ignored>>
    BY DEF Start
  <1>3. TypeOK'
    BY <1>1, <1>2 DEF IInv, TypeOK
  <1>4. TimerStates' /\ TaskAndLink' /\ ModeKnown'
    BY <1>1, <1>2 DEF IInv, TimerStates, TaskAndLink, ModeKnown
  <1>5. NoLink' /\ AddressIsLeased'
    BY <1>1, <1>2 DEF IInv, TaskAndLink, NoLink, AddressIsLeased
  <1> QED
    BY <1>3, <1>4, <1>5 DEF IInv

LEMMA DhcpStartInv == IInv /\ DhcpStart => IInv'
  <1> SUFFICES ASSUME IInv, DhcpStart PROVE IInv'
    OBVIOUS
  <1>1. /\ pc = "dhcp" /\ pc' = "poll" /\ t1t2' = {} /\ msg' = "none"
        /\ UNCHANGED <<phy, mac, net, ignored>>
    BY DEF DhcpStart
  <1>2. /\ faults' \in 0..MaxFaults
        /\ unverified' \in BOOLEAN /\ (net.addr => unverified')
    BY NetLinkAssumption DEF DhcpStart, IInv, TypeOK
  <1>3. dhcp' \in DhcpType /\ (dhcp'.timer => dhcp'.state \in Retried)
    <2>1. 0 \in 0..TriesBound /\ 1 \in 0..TriesBound
      BY NetLinkAssumption DEF TriesBound
    <2>2. \/ dhcp' = [state |-> "SELECTING", tries |-> 1, timer |-> TRUE]
          \/ dhcp' = [state |-> "OFF", tries |-> 0, timer |-> FALSE]
      BY DEF DhcpStart
    <2> QED
      <3>1. CASE dhcp' = [state |-> "SELECTING", tries |-> 1, timer |-> TRUE]
        BY <2>1, <3>1 DEF DhcpType, DhcpStates, Retried
      <3>2. CASE dhcp' = [state |-> "OFF", tries |-> 0, timer |-> FALSE]
        BY <2>1, <3>2 DEF DhcpType, DhcpStates
      <3> QED
        BY <2>2, <3>1, <3>2
  <1>4. TypeOK'
    BY <1>1, <1>2, <1>3 DEF IInv, TypeOK, DhcpType
  <1>5. TimerStates' /\ TaskAndLink' /\ ModeKnown'
    BY <1>1, <1>3 DEF IInv, TimerStates, TaskAndLink, ModeKnown
  <1>6. NoLink' /\ AddressIsLeased'
    BY <1>1, <1>2 DEF IInv, TaskAndLink, NoLink, AddressIsLeased
  <1> QED
    BY <1>4, <1>5, <1>6 DEF IInv

LEMMA CableInv == IInv /\ (LinkUp \/ LinkDown) => IInv'
  <1> SUFFICES ASSUME IInv, LinkUp \/ LinkDown PROVE IInv'
    OBVIOUS
  <1>1. KeepDevice /\ msg' = msg /\ faults' = faults
    BY DEF LinkUp, LinkDown
  <1>2. /\ phy' \in [link : BOOLEAN, latch : BOOLEAN, nego : BOOLEAN, mode : Modes]
        /\ \/ ~phy.link /\ phy'.link /\ phy'.latch = phy.latch
           \/ ~phy'.link /\ phy'.latch
    <2>1. phy \in [link : BOOLEAN, latch : BOOLEAN, nego : BOOLEAN, mode : Modes]
      BY DEF IInv, TypeOK
    <2>2. CASE LinkUp
      BY <2>1, <2>2 DEF LinkUp
    <2>3. CASE LinkDown
      BY <2>1, <2>3 DEF LinkDown
    <2> QED
      BY <2>2, <2>3
  <1>3. TypeOK'
    BY <1>1, <1>2 DEF IInv, TypeOK, KeepDevice
  <1>4. TimerStates' /\ TaskAndLink' /\ NoLink' /\ AddressIsLeased'
    BY <1>1 DEF IInv, TimerStates, TaskAndLink, NoLink, AddressIsLeased, KeepDevice
  <1>5. ModeKnown'
    BY <1>1, <1>2 DEF IInv, ModeKnown, KeepDevice
  <1> QED
    BY <1>3, <1>4, <1>5 DEF IInv

LEMMA AnswersInv ==
  ASSUME IInv, NEW m \in {"offer", "offer_noid", "ack", "nak"}, Answers(m)
  PROVE  IInv'
  <1>1. KeepDevice /\ msg' = m /\ faults' \in 0..MaxFaults /\ phy' = phy
    BY NetLinkAssumption DEF Answers, IInv, TypeOK
  <1>2. TypeOK'
    BY <1>1 DEF IInv, TypeOK, KeepDevice
  <1> QED
    BY <1>1, <1>2
    DEF IInv, TimerStates, TaskAndLink, NoLink, AddressIsLeased, ModeKnown, KeepDevice

LEMMA NextInv == IInv /\ [Next]_vars => IInv'
  <1> SUFFICES ASSUME IInv, [Next]_vars PROVE IInv'
    OBVIOUS
  <1>1. CASE UNCHANGED vars
    BY <1>1 DEF IInv, TypeOK, TimerStates, TaskAndLink, NoLink, AddressIsLeased, ModeKnown,
                vars
  <1>2. CASE \E which \in {"t1", "t2"} : CoarseTimer(which)
    BY <1>2, CoarseTimerInv
  <1>3. CASE \E m \in {"offer", "offer_noid", "ack", "nak"} : DhcpRecv(m) \/ Answers(m)
    BY <1>3, DhcpRecvInv, AnswersInv
  <1> QED
    BY <1>1, <1>2, <1>3, DhcpTimeoutInv, ArpReplyInv, PollInv, WaitLinkedInv, WaitNegoInv,
       ReadModeInv, SpeedFailsInv, StartInv, DhcpStartInv, CableInv DEF Next

\* The invariant of the steps above holds.
THEOREM Invariant == Spec => []IInv
  BY InitInv, NextInv, PTL DEF Spec

-----------------------------------------------------------------------------
(* The properties.                                                         *)

\* Every variable keeps its type; dhcp_timeout bounds the tries of a request.
THEOREM TypeCorrect == Spec => []TypeOK
  <1>1. IInv => TypeOK
    BY DEF IInv
  <1> QED
    BY <1>1, Invariant, PTL

\* The MAC has the mode of the link whenever the task polls an unbroken link
\* that emac_speed_config configured for 100 Mbit/s.
THEOREM ModeStaysAgreed == Spec => []ModeAgrees
  <1>1. IInv => ModeAgrees
    BY DEF IInv, TaskAndLink, ModeKnown, ModeAgrees
  <1> QED
    BY <1>1, Invariant, PTL

\* netif_set_link_down stops what only dhcp_bind starts again.
THEOREM StaysDownWithoutLink == Spec => []DownWithoutLink
  <1>1. IInv => DownWithoutLink
    BY DEF IInv, NoLink, DownWithoutLink
  <1> QED
    BY <1>1, Invariant, PTL

\* An interface that is up uses a leased address, but for the restart of the
\* client by the link task.
THEOREM AddressStaysLeased == Spec => []AddressIsLeased
  <1>1. IInv => AddressIsLeased
    BY DEF IInv
  <1> QED
    BY <1>1, Invariant, PTL

-----------------------------------------------------------------------------
(* Lists: a set of nodes that the links lead through from the head on, once.*)

\* A set of naturals that is not empty has a least element.
LEMMA NatMin ==
  ASSUME NEW T, T \subseteq Nat, T # {}
  PROVE  \E x \in T : \A y \in T : x <= y
  <1>1. PICK x \in T : \A y \in T : <<y, x>> \notin OpToRel(<, Nat)
    BY NatLessThanWellFounded, WFMin
  <1>2. \A y \in T : ~(y < x)
    BY <1>1 DEF OpToRel
  <1>3. QED
    BY <1>2

\* Induction, for a set of naturals.
LEMMA NatInd ==
  ASSUME NEW S, 0 \in S, \A n \in Nat : n \in S => n + 1 \in S
  PROVE  Nat \subseteq S
  <1> SUFFICES ASSUME Nat \ S # {} PROVE FALSE
    OBVIOUS
  <1>1. PICK m \in Nat \ S : \A y \in Nat \ S : m <= y
    BY NatMin
  <1>2. m # 0 /\ m - 1 \in Nat
    BY <1>1
  <1>3. m - 1 \in S
    BY <1>1, <1>2
  <1>4. QED
    BY <1>1, <1>2, <1>3

\* The nodes of S, in the order of s.
Enumerates(s, k, S) ==
  /\ s \in [1..k -> S]
  /\ \A n \in S : \E i \in 1..k : s[i] = n
  /\ \A i, j \in 1..k : s[i] = s[j] => i = j

\* nx leads along s from head, and from its end to Null.
LinksAs(s, k, head, nx) ==
  /\ head = IF k = 0 THEN Null ELSE s[1]
  /\ \A i \in 1..k : nx[s[i]] = IF i = k THEN Null ELSE s[i + 1]

\* S are the nodes of the list that begins at head.
Chain(head, nx, S) ==
  \E k \in Nat : \E s \in [1..k -> S] : Enumerates(s, k, S) /\ LinksAs(s, k, head, nx)

\* A list is one by its enumeration.
LEMMA ChainIntro ==
  ASSUME NEW S, NEW head, NEW nx, NEW k \in Nat, NEW s,
         Enumerates(s, k, S), LinksAs(s, k, head, nx)
  PROVE  Chain(head, nx, S)
  <1>1. s \in [1..k -> S]
    BY DEF Enumerates
  <1> QED
    BY <1>1 DEF Chain

\* The list without nodes.
LEMMA ChainEmpty ==
  ASSUME NEW nx
  PROVE  Chain(Null, nx, {})
  <1>1. Enumerates([i \in 1..0 |-> Null], 0, {}) /\ LinksAs([i \in 1..0 |-> Null], 0, Null, nx)
    BY DEF Enumerates, LinksAs
  <1> QED
    BY <1>1, ChainIntro

\* What a list gives of its head and of its links: one node leads to a node,
\* none to the head or to itself.
LEMMA ChainShape ==
  ASSUME NEW S \in SUBSET Nodes, NEW head, NEW nx, Chain(head, nx, S)
  PROVE  /\ head \in S \cup {Null} /\ (head = Null <=> S = {})
         /\ \A m \in S : nx[m] \in S \cup {Null} /\ nx[m] # head /\ nx[m] # m
         /\ \A m, n \in S : nx[m] = nx[n] /\ nx[m] # Null => m = n
  <1>0. PICK k \in Nat : \E s \in [1..k -> S] : Enumerates(s, k, S) /\ LinksAs(s, k, head, nx)
    BY DEF Chain
  <1>1. PICK s \in [1..k -> S] : Enumerates(s, k, S) /\ LinksAs(s, k, head, nx)
    BY <1>0
  <1>2. Null \notin S
    BY TimersAssumption
  <1>3. head \in S \cup {Null} /\ (head = Null <=> S = {})
    BY <1>1, <1>2 DEF Enumerates, LinksAs
  <1>4. \A m \in S : nx[m] \in S \cup {Null} /\ nx[m] # head /\ nx[m] # m
    BY <1>1, <1>2 DEF Enumerates, LinksAs
  <1>5. \A m, n \in S : nx[m] = nx[n] /\ nx[m] # Null => m = n
    BY <1>1, <1>2 DEF Enumerates, LinksAs
  <1> QED
    BY <1>3, <1>4, <1>5

\* What a change elsewhere leaves alone.
LEMMA ChainFrame ==
  ASSUME NEW S, NEW head, NEW nx, NEW nx1, Chain(head, nx, S),
         \A m \in S : nx1[m] = nx[m]
  PROVE  Chain(head, nx1, S)
  <1>0. PICK k \in Nat : \E s \in [1..k -> S] : Enumerates(s, k, S) /\ LinksAs(s, k, head, nx)
    BY DEF Chain
  <1>1. PICK s \in [1..k -> S] : Enumerates(s, k, S) /\ LinksAs(s, k, head, nx)
    BY <1>0
  <1>2. LinksAs(s, k, head, nx1)
    BY <1>1 DEF Enumerates, LinksAs
  <1> QED
    BY <1>1, <1>2, ChainIntro

\* The head leaves.
LEMMA ChainPop ==
  ASSUME NEW S \in SUBSET Nodes, NEW head, NEW nx, Chain(head, nx, S), head # Null
  PROVE  Chain(nx[head], nx, S \ {head})
  <1>0. PICK k \in Nat : \E s \in [1..k -> S] : Enumerates(s, k, S) /\ LinksAs(s, k, head, nx)
    BY DEF Chain
  <1>1. PICK s \in [1..k -> S] : Enumerates(s, k, S) /\ LinksAs(s, k, head, nx)
    BY <1>0
  <1>2. k \in Nat \ {0} /\ k - 1 \in Nat /\ head = s[1]
    BY <1>1 DEF LinksAs
  <1> DEFINE r == [i \in 1..(k - 1) |-> s[i + 1]]
  <1>3. Enumerates(r, k - 1, S \ {head})
    <2>1. r \in [1..(k - 1) -> S \ {head}]
      BY <1>1, <1>2 DEF Enumerates
    <2>2. ASSUME NEW n \in S \ {head} PROVE \E i \in 1..(k - 1) : r[i] = n
      <3>1. PICK i \in 1..k : s[i] = n
        BY <1>1 DEF Enumerates
      <3>2. i - 1 \in 1..(k - 1) /\ r[i - 1] = n
        BY <3>1, <1>2
      <3> QED
        BY <3>2
    <2>3. \A i, j \in 1..(k - 1) : r[i] = r[j] => i = j
      BY <1>1, <1>2 DEF Enumerates
    <2> QED
      BY <2>1, <2>2, <2>3 DEF Enumerates
  <1>4. LinksAs(r, k - 1, nx[head], nx)
    BY <1>1, <1>2 DEF LinksAs
  <1> HIDE DEF r
  <1> QED
    BY <1>2, <1>3, <1>4, ChainIntro

\* A node comes before the head.
LEMMA ChainPush ==
  ASSUME NEW S \in SUBSET Nodes, NEW head, NEW nx, Chain(head, nx, S), NEW n \in Nodes \ S,
         NEW nx1, \A m \in S : nx1[m] = nx[m], nx1[n] = head
  PROVE  Chain(n, nx1, S \cup {n})
  <1>0. PICK k \in Nat : \E s \in [1..k -> S] : Enumerates(s, k, S) /\ LinksAs(s, k, head, nx)
    BY DEF Chain
  <1>1. PICK s \in [1..k -> S] : Enumerates(s, k, S) /\ LinksAs(s, k, head, nx)
    BY <1>0
  <1> DEFINE r == [i \in 1..(k + 1) |-> IF i = 1 THEN n ELSE s[i - 1]]
  <1>3. Enumerates(r, k + 1, S \cup {n})
    <2>1. r \in [1..(k + 1) -> S \cup {n}]
      BY <1>1 DEF Enumerates
    <2>2. ASSUME NEW m \in S PROVE \E i \in 1..(k + 1) : r[i] = m
      <3>1. PICK i \in 1..k : s[i] = m
        BY <1>1 DEF Enumerates
      <3>2. i + 1 \in 1..(k + 1) /\ r[i + 1] = m
        BY <3>1
      <3> QED
        BY <3>2
    <2>3. 1 \in 1..(k + 1) /\ r[1] = n
      OBVIOUS
    <2>4. \A i, j \in 1..(k + 1) : r[i] = r[j] => i = j
      BY <1>1 DEF Enumerates
    <2> QED
      BY <2>1, <2>2, <2>3, <2>4 DEF Enumerates
  <1>4. LinksAs(r, k + 1, n, nx1)
    <2>1. n = r[1]
      OBVIOUS
    <2>2. ASSUME NEW i \in 1..(k + 1)
          PROVE  nx1[r[i]] = IF i = k + 1 THEN Null ELSE r[i + 1]
      <3>1. CASE i = 1
        BY <3>1, <1>1 DEF LinksAs
      <3>2. CASE i # 1
        <4>1. i - 1 \in 1..k /\ i - 1 + 1 = i
          BY <3>2
        <4>2. s[i - 1] \in S /\ nx[s[i - 1]] = IF i - 1 = k THEN Null ELSE s[i]
          BY <1>1, <4>1 DEF LinksAs, Enumerates
        <4>3. r[i] = s[i - 1] /\ (i # k + 1 => r[i + 1] = s[i])
          BY <3>2
        <4> QED
          BY <4>2, <4>3
      <3> QED
        BY <3>1, <3>2
    <2>3. k + 1 # 0
      OBVIOUS
    <2> HIDE DEF r
    <2> QED
      BY <2>1, <2>2, <2>3 DEF LinksAs
  <1> HIDE DEF r
  <1>5. k + 1 \in Nat
    OBVIOUS
  <1> QED
    BY <1>3, <1>4, <1>5, ChainIntro

\* A node comes behind another.
LEMMA ChainSplice ==
  ASSUME NEW S \in SUBSET Nodes, NEW head, NEW nx, Chain(head, nx, S), NEW n \in Nodes \ S,
         NEW a \in S, NEW nx1, \A m \in S \ {a} : nx1[m] = nx[m],
         nx1[a] = n, nx1[n] = nx[a]
  PROVE  Chain(head, nx1, S \cup {n})
  <1>0. PICK k \in Nat : \E s \in [1..k -> S] : Enumerates(s, k, S) /\ LinksAs(s, k, head, nx)
    BY DEF Chain
  <1>1. PICK s \in [1..k -> S] : Enumerates(s, k, S) /\ LinksAs(s, k, head, nx)
    BY <1>0
  <1>2. PICK j \in 1..k : s[j] = a
    BY <1>1 DEF Enumerates
  <1> DEFINE r == [i \in 1..(k + 1) |-> IF i <= j THEN s[i]
                                        ELSE IF i = j + 1 THEN n ELSE s[i - 1]]
  <1>3. Enumerates(r, k + 1, S \cup {n})
    <2>1. r \in [1..(k + 1) -> S \cup {n}]
      BY <1>1, <1>2 DEF Enumerates
    <2>2. ASSUME NEW m \in S PROVE \E i \in 1..(k + 1) : r[i] = m
      <3>1. PICK i \in 1..k : s[i] = m
        BY <1>1 DEF Enumerates
      <3>2. CASE i <= j
        <4>1. i \in 1..(k + 1) /\ r[i] = m
          BY <3>1, <3>2
        <4> QED
          BY <4>1
      <3>3. CASE j < i
        <4>1. i + 1 \in 1..(k + 1) /\ r[i + 1] = m
          BY <3>1, <3>3
        <4> QED
          BY <4>1
      <3> QED
        BY <3>2, <3>3
    <2>3. j + 1 \in 1..(k + 1) /\ r[j + 1] = n
      BY <1>2
    <2>4. \A i, i1 \in 1..(k + 1) : r[i] = r[i1] => i = i1
      BY <1>1, <1>2 DEF Enumerates
    <2> QED
      BY <2>1, <2>2, <2>3, <2>4 DEF Enumerates
  <1>4. LinksAs(r, k + 1, head, nx1)
    <2>1. head = r[1]
      BY <1>1, <1>2 DEF LinksAs
    <2>2. ASSUME NEW i \in 1..(k + 1)
          PROVE  nx1[r[i]] = IF i = k + 1 THEN Null ELSE r[i + 1]
      <3>1. CASE i < j
        <4>1. s[i] \in S \ {a} /\ nx[s[i]] = s[i + 1]
          BY <1>1, <1>2, <3>1 DEF LinksAs, Enumerates
        <4> QED
          BY <4>1, <3>1
      <3>2. CASE i = j
        BY <1>2, <3>2
      <3>3. CASE i = j + 1
        <4>1. nx[s[j]] = IF j = k THEN Null ELSE s[j + 1]
          BY <1>1, <1>2 DEF LinksAs
        <4> QED
          BY <4>1, <1>2, <3>3
      <3>4. CASE i > j + 1
        <4>1. i - 1 \in 1..k /\ i - 1 # j
          BY <3>4
        <4>2. s[i - 1] \in S \ {a} /\ nx[s[i - 1]] = IF i - 1 = k THEN Null ELSE s[i - 1 + 1]
          BY <1>1, <1>2, <4>1 DEF LinksAs, Enumerates
        <4>3. i - 1 + 1 = i /\ (i - 1 = k <=> i = k + 1)
          OBVIOUS
        <4>4. r[i] = s[i - 1]
          BY <3>4
        <4>5. ASSUME i # k + 1 PROVE r[i + 1] = s[i]
          <5>1. i + 1 \in 1..(k + 1) /\ ~(i + 1 <= j) /\ i + 1 # j + 1 /\ (i + 1) - 1 = i
            BY <3>4, <4>5
          <5> QED
            BY <5>1
        <4> QED
          BY <4>2, <4>3, <4>4, <4>5
      <3> QED
        BY <3>1, <3>2, <3>3, <3>4
    <2>3. k + 1 # 0
      OBVIOUS
    <2> HIDE DEF r
    <2> QED
      BY <2>1, <2>2, <2>3 DEF LinksAs
  <1> HIDE DEF r
  <1>5. k + 1 \in Nat
    OBVIOUS
  <1> QED
    BY <1>3, <1>4, <1>5, ChainIntro

-----------------------------------------------------------------------------
(* The functions OnList and OnPool go through these lists.                 *)

\* The links of the timeout list.
NextOf == [n \in Nodes |-> node[n].next]
\* The size of MEMP_SYS_TIMEOUT.
N == Cardinality(Nodes)

\* The pool is finite.
LEMMA NodesCount == N \in Nat
  BY TimersAssumption, FS_CardinalityType DEF N

\* A list has no more elements than there are nodes.
LEMMA ChainLength ==
  ASSUME NEW S \in SUBSET Nodes, NEW k \in Nat, NEW s, Enumerates(s, k, S)
  PROVE  k <= N
  <1>1. s \in Bijection(1..k, S)
    BY DEF Enumerates, Bijection, Injection, Surjection, IsInjective
  <1>2. Cardinality(S) = k
    BY <1>1, FS_CountingElements DEF ExistsBijection
  <1>3. Cardinality(S) <= N
    BY TimersAssumption, FS_Subset DEF N
  <1> QED
    BY <1>2, <1>3

\* f goes from head along nx.
Follows(f, head, nx) ==
  /\ f[0] = head
  /\ \A k \in 0..(N - 1) : /\ f[k] = Null => f[k + 1] = Null
                           /\ f[k] \in Nodes => f[k + 1] = nx[f[k]]

\* The nodes that Enumerates has counted from 1, counted from 0; then Null.
Places(s, k) == [i \in 0..N |-> IF i < k THEN s[i + 1] ELSE Null]

\* The nodes that f comes to.
Visited(f) == {f[i] : i \in 0..N} \ {Null}

\* An enumeration of a list goes along it and comes to all its nodes.
LEMMA PlacesFollow ==
  ASSUME NEW S \in SUBSET Nodes, NEW k \in Nat, NEW s, NEW head, NEW nx,
         Enumerates(s, k, S), LinksAs(s, k, head, nx)
  PROVE  /\ Follows(Places(s, k), head, nx)
         /\ \A i \in 0..N : Places(s, k)[i] \in S \cup {Null}
         /\ S = Visited(Places(s, k))
  <1> DEFINE f == Places(s, k)
  <1>1. k <= N /\ N \in Nat
    BY ChainLength, NodesCount
  <1>2. Null \notin Nodes
    BY TimersAssumption
  <1>3. \A i \in 0..N : f[i] = IF i < k THEN s[i + 1] ELSE Null
    BY DEF Places
  <1>4. \A i \in 0..N : i < k => f[i] \in S
    BY <1>3, <1>1 DEF Enumerates
  <1>5. f[0] = head
    BY <1>1, <1>3 DEF LinksAs
  <1>6. ASSUME NEW i \in 0..(N - 1)
        PROVE  /\ f[i] = Null => f[i + 1] = Null
               /\ f[i] \in Nodes => f[i + 1] = nx[f[i]]
    <2>1. i \in 0..N /\ i + 1 \in 0..N /\ i \in Nat
      BY <1>1
    <2>2. CASE i < k
      <3>1. i + 1 \in 1..k /\ (i + 1 < k <=> i + 1 # k)
        BY <2>1, <2>2
      <3>2. f[i] = s[i + 1] /\ f[i] # Null
        BY <2>1, <2>2, <1>2, <1>3, <1>4
      <3>3. nx[s[i + 1]] = IF i + 1 = k THEN Null ELSE s[(i + 1) + 1]
        BY <3>1 DEF LinksAs
      <3>4. f[i + 1] = IF i + 1 < k THEN s[(i + 1) + 1] ELSE Null
        BY <1>3, <2>1
      <3> HIDE DEF f
      <3> QED
        BY <3>1, <3>2, <3>3, <3>4
    <2>3. CASE ~(i < k)
      <3>1. ~(i + 1 < k)
        BY <2>1, <2>3
      <3> QED
        BY <3>1, <2>1, <1>2, <1>3, <2>3
    <2> QED
      BY <2>2, <2>3
  <1>7. ASSUME NEW n \in S PROVE \E i \in 0..N : f[i] = n
    <2>1. PICK i \in 1..k : s[i] = n
      BY DEF Enumerates
    <2>2. i - 1 \in 0..N /\ i - 1 < k /\ (i - 1) + 1 = i
      BY <1>1
    <2>3. f[i - 1] = n
      BY <2>1, <2>2, <1>3
    <2> QED
      BY <2>2, <2>3
  <1>8. \A i \in 0..N : f[i] \in S \cup {Null}
    BY <1>3, <1>4
  <1> HIDE DEF f
  <1>9. Follows(f, head, nx)
    BY <1>5, <1>6 DEF Follows
  <1>10. S = Visited(f)
    BY <1>2, <1>7, <1>8 DEF Visited
  <1> QED
    BY <1>8, <1>9, <1>10 DEF f

\* There is one way along a list.
LEMMA FollowsUnique ==
  ASSUME NEW f, NEW g, NEW head, NEW nx, Follows(f, head, nx), Follows(g, head, nx),
         \A i \in 0..N : f[i] \in Nodes \cup {Null}
  PROVE  \A i \in 0..N : g[i] = f[i]
  <1>1. N \in Nat
    BY NodesCount
  <1> DEFINE T == {i \in Nat : i \in 0..N => f[i] = g[i]}
  <1>2. 0 \in T
    BY <1>1 DEF Follows
  <1>3. ASSUME NEW i \in Nat, i \in T PROVE i + 1 \in T
    <2>1. CASE i + 1 \in 0..N
      <3>1. i \in 0..N /\ i \in 0..(N - 1)
        BY <1>1, <2>1
      <3>2. f[i] = g[i] /\ f[i] \in Nodes \cup {Null}
        BY <3>1, <1>3
      <3> QED
        BY <3>1, <3>2 DEF Follows
    <2> QED
      BY <2>1
  <1>4. Nat \subseteq T
    <2> HIDE DEF T
    <2> QED
      BY <1>2, <1>3, NatInd
  <1> QED
    BY <1>4, <1>1

\* What OnList goes through is the list.
LEMMA OnListUnfolds ==
  ASSUME NEW S \in SUBSET Nodes, NEW k \in Nat, NEW s,
         Enumerates(s, k, S), LinksAs(s, k, next_timeout, NextOf)
  PROVE  OnList = Places(s, k)
  <1> DEFINE E(q) == [i \in 0..Cardinality(Nodes) |->
                        IF i = 0 THEN next_timeout
                        ELSE IF q[i - 1] = Null THEN Null ELSE node[q[i - 1]].next]
  <1> DEFINE f == Places(s, k)
  <1>1. N \in Nat /\ N = Cardinality(Nodes)
    BY NodesCount DEF N
  <1>2. Follows(f, next_timeout, NextOf) /\ \A i \in 0..N : f[i] \in Nodes \cup {Null}
    BY PlacesFollow
  <1>3. f = E(f)
    <2>1. f = [i \in 0..N |-> f[i]]
      BY DEF Places
    <2>2. ASSUME NEW i \in 0..N
          PROVE  f[i] = IF i = 0 THEN next_timeout
                        ELSE IF f[i - 1] = Null THEN Null ELSE node[f[i - 1]].next
      <3> HIDE DEF f
      <3>1. CASE i = 0
        BY <3>1, <1>2 DEF Follows
      <3>2. CASE i # 0
        <4>1. i - 1 \in 0..N /\ i - 1 \in 0..(N - 1) /\ (i - 1) + 1 = i
          BY <1>1, <3>2
        <4> QED
          BY <4>1, <1>2, <3>2 DEF Follows, NextOf
      <3> QED
        BY <3>1, <3>2
    <2> HIDE DEF f
    <2> QED
      BY <2>1, <2>2, <1>1
  <1>4. OnList = E(OnList)
    <2>1. OnList = CHOOSE q : q = E(q)
      BY DEF OnList
    <2> HIDE DEF E
    <2> QED
      BY <2>1, <1>3
  <1>5. OnList = [i \in 0..N |-> OnList[i]]
    BY <1>4, <1>1
  <1>6. Follows(OnList, next_timeout, NextOf)
    <2>1. OnList[0] = next_timeout
      BY <1>1, <1>4
    <2>2. ASSUME NEW i \in 0..(N - 1)
          PROVE  /\ OnList[i] = Null => OnList[i + 1] = Null
                 /\ OnList[i] \in Nodes => OnList[i + 1] = NextOf[OnList[i]]
      <3>1. i + 1 \in 0..N /\ i + 1 # 0 /\ (i + 1) - 1 = i
        BY <1>1
      <3>2. OnList[i + 1] = IF OnList[i] = Null THEN Null ELSE node[OnList[i]].next
        BY <3>1, <1>1, <1>4
      <3> QED
        BY <3>2, TimersAssumption DEF NextOf
    <2> QED
      BY <2>1, <2>2 DEF Follows
  <1>7. \A i \in 0..N : OnList[i] = f[i]
    <2> HIDE DEF f
    <2> QED
      BY <1>2, <1>6, FollowsUnique
  <1> QED
    BY <1>1, <1>5, <1>7 DEF Places

\* Listed is the set of the nodes of the list.
LEMMA ListedIs ==
  ASSUME NEW S \in SUBSET Nodes, Chain(next_timeout, NextOf, S)
  PROVE  Listed = S
  <1>0. PICK k \in Nat : \E s \in [1..k -> S] :
               Enumerates(s, k, S) /\ LinksAs(s, k, next_timeout, NextOf)
    BY DEF Chain
  <1>1. PICK s \in [1..k -> S] : Enumerates(s, k, S) /\ LinksAs(s, k, next_timeout, NextOf)
    BY <1>0
  <1>2. OnList = Places(s, k) /\ DOMAIN OnList = 0..N
    BY <1>1, OnListUnfolds DEF Places
  <1>3. S = Visited(Places(s, k))
    BY <1>1, PlacesFollow
  <1> QED
    BY <1>2, <1>3 DEF Listed, Visited

\* The same for the pool.
LEMMA OnPoolUnfolds ==
  ASSUME NEW S \in SUBSET Nodes, NEW k \in Nat, NEW s,
         Enumerates(s, k, S), LinksAs(s, k, memp_tab, memp_next)
  PROVE  OnPool = Places(s, k)
  <1> DEFINE E(q) == [i \in 0..Cardinality(Nodes) |->
                        IF i = 0 THEN memp_tab
                        ELSE IF q[i - 1] = Null THEN Null ELSE memp_next[q[i - 1]]]
  <1> DEFINE f == Places(s, k)
  <1>1. N \in Nat /\ N = Cardinality(Nodes)
    BY NodesCount DEF N
  <1>2. Follows(f, memp_tab, memp_next) /\ \A i \in 0..N : f[i] \in Nodes \cup {Null}
    BY PlacesFollow
  <1>3. f = E(f)
    <2>1. f = [i \in 0..N |-> f[i]]
      BY DEF Places
    <2>2. ASSUME NEW i \in 0..N
          PROVE  f[i] = IF i = 0 THEN memp_tab
                        ELSE IF f[i - 1] = Null THEN Null ELSE memp_next[f[i - 1]]
      <3> HIDE DEF f
      <3>1. CASE i = 0
        BY <3>1, <1>2 DEF Follows
      <3>2. CASE i # 0
        <4>1. i - 1 \in 0..N /\ i - 1 \in 0..(N - 1) /\ (i - 1) + 1 = i
          BY <1>1, <3>2
        <4> QED
          BY <4>1, <1>2, <3>2 DEF Follows
      <3> QED
        BY <3>1, <3>2
    <2> HIDE DEF f
    <2> QED
      BY <2>1, <2>2, <1>1
  <1>4. OnPool = E(OnPool)
    <2>1. OnPool = CHOOSE q : q = E(q)
      BY DEF OnPool
    <2> HIDE DEF E
    <2> QED
      BY <2>1, <1>3
  <1>5. OnPool = [i \in 0..N |-> OnPool[i]]
    BY <1>4, <1>1
  <1>6. Follows(OnPool, memp_tab, memp_next)
    <2>1. OnPool[0] = memp_tab
      BY <1>1, <1>4
    <2>2. ASSUME NEW i \in 0..(N - 1)
          PROVE  /\ OnPool[i] = Null => OnPool[i + 1] = Null
                 /\ OnPool[i] \in Nodes => OnPool[i + 1] = memp_next[OnPool[i]]
      <3>1. i + 1 \in 0..N /\ i + 1 # 0 /\ (i + 1) - 1 = i
        BY <1>1
      <3>2. OnPool[i + 1] = IF OnPool[i] = Null THEN Null ELSE memp_next[OnPool[i]]
        BY <3>1, <1>1, <1>4
      <3> QED
        BY <3>2, TimersAssumption
    <2> QED
      BY <2>1, <2>2 DEF Follows
  <1>7. \A i \in 0..N : OnPool[i] = f[i]
    <2> HIDE DEF f
    <2> QED
      BY <1>2, <1>6, FollowsUnique
  <1> QED
    BY <1>1, <1>5, <1>7 DEF Places

\* Free is the set of the nodes of the pool.
LEMMA FreeIs ==
  ASSUME NEW S \in SUBSET Nodes, Chain(memp_tab, memp_next, S)
  PROVE  Free = S
  <1>0. PICK k \in Nat : \E s \in [1..k -> S] :
               Enumerates(s, k, S) /\ LinksAs(s, k, memp_tab, memp_next)
    BY DEF Chain
  <1>1. PICK s \in [1..k -> S] : Enumerates(s, k, S) /\ LinksAs(s, k, memp_tab, memp_next)
    BY <1>0
  <1>2. OnPool = Places(s, k) /\ DOMAIN OnPool = 0..N
    BY <1>1, OnPoolUnfolds DEF Places
  <1>3. S = Visited(Places(s, k))
    BY <1>1, PlacesFollow
  <1> QED
    BY <1>2, <1>3 DEF Free, Visited

-----------------------------------------------------------------------------
(* The invariant of the timeout list and the pool.                         *)

\* The two tasks, and the order the priorities give them.
Control ==
  /\ where["network"] \in {"init", "idle", "test", "free", "malloc", "insert", "walk"}
  /\ where["tcpip"] \in {"off", "again", "wait", "forever", "pop", "unlink", "take", "free",
                         "malloc", "insert", "walk"}
  /\ where["tcpip"] = "off" => where["network"] \in {"init", "malloc", "insert", "walk"}
  /\ where["tcpip"] # "off" => where["network"] # "init" /\ todo = <<>>
  /\ Changing => where["network"] = "idle"

\* The waits and the lag are within their words.
Clocks ==
  left + waited < Word /\ diff <= lag /\ lag <= MaxLag

\* Task p holds node n: Held, node by node.
Has(p, n) ==
  \/ where[p] \in {"take", "free"} /\ n = tmp[p]
  \/ where[p] \in {"insert", "walk"} /\ n = new[p]

\* The list and the pool are lists, and with what the tasks hold they share
\* the nodes out.
Shares ==
  /\ Listed \in SUBSET Nodes /\ Free \in SUBSET Nodes
  /\ Chain(next_timeout, NextOf, Listed) /\ Chain(memp_tab, memp_next, Free)
  /\ \A n \in Nodes : n \in Listed \/ n \in Free \/ \E p \in Tasks : Has(p, n)
  /\ \A n \in Nodes : ~(n \in Listed /\ n \in Free)
  /\ \A p \in Tasks : \A n : Has(p, n) => n \in Nodes /\ n \notin Listed /\ n \notin Free
  /\ \A n \in Nodes : ~(Has("tcpip", n) /\ Has("network", n))

\* A task's nodes are the ones its next step expects.
Hands ==
  /\ where["tcpip"] = "unlink" => tmp["tcpip"] = next_timeout /\ next_timeout # Null
  /\ \A p \in Tasks :
       /\ where[p] = "walk" => t[p] \in Listed
       /\ where[p] = "free" => node[tmp[p]].h = h[p]
       /\ where[p] \in {"insert", "walk"} => node[new[p]].h = h[p]
       /\ where[p] = "insert" => node[new[p]].next = Null

\* A timer is in one place.
Single ==
  /\ \A m, n \in Listed : node[m].h = node[n].h => m = n
  /\ \A p \in Tasks : \A n \in Listed : ~InHand(p, node[n].h)
  /\ \A x \in Timers : ~(InHand("tcpip", x) /\ InHand("network", x))
  /\ \A i, j \in 1..Len(todo) : todo[i] = todo[j] => i = j
  /\ \A i \in 1..Len(todo) :
       /\ \A p \in Tasks : ~InHand(p, todo[i])
       /\ \A n \in Listed : node[n].h # todo[i]

\* A timer is somewhere.
Present ==
  \A x \in Timers : \/ \E n \in Listed : node[n].h = x
                    \/ \E p \in Tasks : InHand(p, x)
                    \/ \E i \in 1..Len(todo) : todo[i] = x

\* What holds as long as no change of the list was cut in two.
Whole == Control /\ Shares /\ Hands /\ Single /\ Present

\* The inductive invariant behind ListIntact.
TimersInv == TimersTypeOK /\ Clocks /\ (torn \/ Whole)

\* ListedIs and FreeIs after a step.
LEMMA ListedNext ==
  \A S \in SUBSET Nodes : Chain(next_timeout', NextOf', S) => Listed' = S
  <1> DEFINE P == \A S \in SUBSET Nodes : Chain(next_timeout, NextOf, S) => Listed = S
  <1>1. P
    BY ListedIs
  <1>2. P'
    BY <1>1, PTL
  <1> QED
    BY <1>2

LEMMA FreeNext ==
  \A S \in SUBSET Nodes : Chain(memp_tab', memp_next', S) => Free' = S
  <1> DEFINE P == \A S \in SUBSET Nodes : Chain(memp_tab, memp_next, S) => Free = S
  <1>1. P
    BY FreeIs
  <1>2. P'
    BY <1>1, PTL
  <1> QED
    BY <1>2

\* A list, or a pool, that a step leaves alone.
LEMMA ListKept ==
  ASSUME Shares, next_timeout' = next_timeout, \A n \in Listed : node'[n].next = node[n].next
  PROVE  Listed' = Listed /\ Chain(next_timeout', NextOf', Listed')
  <1>1. \A n \in Listed : NextOf'[n] = NextOf[n]
    BY DEF NextOf, Shares
  <1>2. Chain(next_timeout', NextOf', Listed)
    <2>1. Chain(next_timeout, NextOf, Listed)
      BY DEF Shares
    <2>2. Chain(next_timeout, NextOf', Listed)
      BY <1>1, <2>1, ChainFrame
    <2> QED
      BY <2>2
  <1> QED
    BY <1>2, ListedNext DEF Shares

LEMMA PoolKept ==
  ASSUME Shares, memp_tab' = memp_tab, memp_next' = memp_next
  PROVE  Free' = Free /\ Chain(memp_tab', memp_next', Free')
  BY FreeNext DEF Shares

\* Where a task has nothing in hand.
Rests == {"off", "init", "idle", "test", "again", "wait", "forever", "pop"}

\* A step that moves no node and no timer keeps their places.
LEMMA Quiet ==
  ASSUME TimersTypeOK, Shares, Hands, Single, Present,
         next_timeout' = next_timeout, UNCHANGED pool, UNCHANGED <<todo, h, tmp, new, t>>,
         \A n \in Nodes : node'[n].next = node[n].next /\ node'[n].h = node[n].h,
         \A p \in Tasks : where'[p] = where[p] \/ (where[p] \in Rests /\ where'[p] \in Rests)
  PROVE  Shares' /\ Hands' /\ Single' /\ Present'
  <1>1. Listed' = Listed /\ Chain(next_timeout', NextOf', Listed')
    BY ListKept DEF Shares
  <1>2. Free' = Free /\ Chain(memp_tab', memp_next', Free')
    BY PoolKept DEF pool
  <1>3. \A p \in Tasks : \A n : Has(p, n)' <=> Has(p, n)
    BY DEF Has, Rests
  <1>4. \A p \in Tasks : \A n : Has(p, n) => n \in Nodes
    BY DEF Shares
  <1>5. \A p \in Tasks : \A x : InHand(p, x)' <=> InHand(p, x)
    BY <1>4 DEF InHand, Has, Rests
  <1>6. "tcpip" \in Tasks /\ "network" \in Tasks
    BY DEF Tasks
  <1>7. Shares'
    BY <1>1, <1>2, <1>3, <1>6 DEF Shares
  <1>8. Hands'
    BY <1>1, <1>4, <1>6 DEF Hands, Has, Rests
  <1>9. Single'
    BY <1>1, <1>5, <1>6 DEF Single, Shares
  <1>10. Present'
    BY <1>1, <1>5 DEF Present, Shares
  <1> QED
    BY <1>7, <1>8, <1>9, <1>10

-----------------------------------------------------------------------------
(* The steps that leave the list alone.                                    *)

\* The words are words.
LEMMA Words ==
  /\ Word \in Nat \ {0} /\ MaxLag \in Nat /\ MaxLag < Word /\ MaxMsgs \in Nat
  /\ Null \notin Nodes
  /\ \A x \in Timers : Period[x] \in 1..(Word - 1)
  BY TimersAssumption

\* u32_t subtraction of what is not greater is subtraction.
LEMMA SubType ==
  ASSUME NEW a \in 0..(Word - 1), NEW b \in 0..(Word - 1)
  PROVE  Sub(a, b) \in 0..(Word - 1) /\ (b <= a => Sub(a, b) = a - b)
  <1>1. Word \in Nat \ {0} /\ a - b \in Int
    BY Words
  <1>2. (a - b) % Word \in 0..(Word - 1)
    BY <1>1
  <1>3. b <= a => (a - b) % Word = a - b
    BY <1>1
  <1> QED
    BY <1>2, <1>3 DEF Sub

\* What a node holds.
NodeType == [next : Nodes \cup {Null}, h : Timers, time : 0..(Word - 1)]

\* The nodes when one has a new time.
Timed(f, n, ms) == [f EXCEPT ![n].time = ms]

\* Nothing else of them changes.
LEMMA TimedIs ==
  ASSUME NEW f \in [Nodes -> NodeType], NEW n \in Nodes, NEW ms \in 0..(Word - 1)
  PROVE  /\ Timed(f, n, ms) \in [Nodes -> NodeType] /\ Timed(f, n, ms)[n].time = ms
         /\ \A m \in Nodes : /\ Timed(f, n, ms)[m].next = f[m].next
                             /\ Timed(f, n, ms)[m].h = f[m].h
         /\ \A m \in Nodes : m # n => Timed(f, n, ms)[m].time = f[m].time
  BY DEF NodeType, Timed

\* A tick changes the clocks only.
LEMMA TickStep ==
  ASSUME TimersInv, Tick
  PROVE  TimersInv'
  <1>1. ~torn /\ ~torn'
    BY DEF Tick
  <1>2. TimersTypeOK /\ Clocks /\ Control /\ Shares /\ Hands /\ Single /\ Present
    BY <1>1 DEF TimersInv, Whole
  <1>3. Shares' /\ Hands' /\ Single' /\ Present'
    BY <1>2, Quiet DEF Tick, list
  <1>4. Control'
    BY <1>2 DEF Tick, Control, Changing
  <1>5. Clocks'
    <2>1. left' + waited' < Word
      BY <1>2, Words DEF Tick, Clocks, TimersTypeOK
    <2>2. diff' <= lag' /\ lag' <= MaxLag
      BY <1>2, Words DEF Tick, Clocks, TimersTypeOK
    <2> QED
      BY <2>1, <2>2 DEF Clocks
  <1>6. TimersTypeOK'
    <2>1. left' \in 0..(Word - 1) /\ waited' \in 0..(Word - 1)
      BY <1>2, Words DEF Tick, Clocks, TimersTypeOK
    <2>2. lag' \in 0..(Word - 1)
      BY <1>2, Words DEF Tick, Clocks, TimersTypeOK
    <2>3. due' \in [Timers -> Int]
      BY <1>2, Words DEF Tick, TimersTypeOK, MaxOf
    <2> QED
      BY <1>2, <2>1, <2>2, <2>3 DEF Tick, TimersTypeOK, list, pool
  <1> QED
    BY <1>3, <1>4, <1>5, <1>6 DEF TimersInv, Whole

\* The thread looks at the head.
LEMMA AgainStep ==
  ASSUME TimersInv, Again
  PROVE  TimersInv'
  <1>1. ~torn /\ ~torn' /\ where["network"] = "idle"
    BY DEF Again, At, Runs, hist
  <1>2. TimersTypeOK /\ Clocks /\ Control /\ Shares /\ Hands /\ Single /\ Present
    BY <1>1 DEF TimersInv, Whole
  <1>3. \E there \in {"forever", "wait", "pop"} : where' = [where EXCEPT !["tcpip"] = there]
    BY DEF Again, Goto
  <1>4. where["tcpip"] = "again"
    BY DEF Again, At
  <1>5. /\ where' \in [Tasks -> {"off", "init", "idle", "test", "again", "wait", "forever",
                          "pop", "unlink", "take", "free", "malloc", "insert", "walk"}]
        /\ where'["network"] = "idle" /\ where'["tcpip"] \in {"forever", "wait", "pop"}
    BY <1>1, <1>2, <1>3 DEF TimersTypeOK, Tasks
  <1>6. Shares' /\ Hands' /\ Single' /\ Present'
    <2>1. \A p \in Tasks : where'[p] = where[p] \/ (where[p] \in Rests /\ where'[p] \in Rests)
      BY <1>1, <1>4, <1>5 DEF Tasks, Rests
    <2> QED
      BY <1>2, <2>1, Quiet DEF Again, list
  <1>7. Control'
    BY <1>2, <1>4, <1>5 DEF Again, Control, Changing
  <1>8. left' \in 0..(Word - 1)
    <2>1. CASE UNCHANGED left
      BY <2>1, <1>2 DEF TimersTypeOK
    <2>2. CASE next_timeout # Null /\ left' = node[next_timeout].time
      BY <2>2, <1>2 DEF TimersTypeOK
    <2> QED
      BY <2>1, <2>2 DEF Again
  <1>9. Clocks'
    BY <1>2, <1>8, Words DEF Again, Clocks, hist
  <1>10. TimersTypeOK'
    <2>1. /\ UNCHANGED <<next_timeout, node, memp_tab, memp_next, todo, h, tmp, new, t>>
          /\ UNCHANGED <<msgs, lag, diff, due, torn>> /\ waited' = 0
      BY DEF Again, list, pool, hist
    <2>2. waited' \in 0..(Word - 1)
      BY <2>1, Words
    <2> QED
      BY <1>2, <1>5, <1>8, <2>1, <2>2 DEF TimersTypeOK
  <1> QED
    BY <1>6, <1>7, <1>9, <1>10 DEF TimersInv, Whole

\* The wait of the thread ends with its time.
LEMMA TimeoutStep ==
  ASSUME TimersInv, Timeout
  PROVE  TimersInv'
  <1>1. ~torn /\ ~torn' /\ where["network"] = "idle" /\ where["tcpip"] = "wait"
    BY DEF Timeout, At, Runs, hist
  <1>2. TimersTypeOK /\ Clocks /\ Control /\ Shares /\ Hands /\ Single /\ Present
    BY <1>1 DEF TimersInv, Whole
  <1>3. /\ where' \in [Tasks -> {"off", "init", "idle", "test", "again", "wait", "forever",
                          "pop", "unlink", "take", "free", "malloc", "insert", "walk"}]
        /\ where'["network"] = "idle" /\ where'["tcpip"] = "pop"
    BY <1>1, <1>2 DEF Timeout, Goto, TimersTypeOK, Tasks
  <1>4. Shares' /\ Hands' /\ Single' /\ Present'
    <2>1. \A p \in Tasks : where'[p] = where[p] \/ (where[p] \in Rests /\ where'[p] \in Rests)
      BY <1>1, <1>3 DEF Tasks, Rests
    <2> QED
      BY <1>2, <2>1, Quiet DEF Timeout, list
  <1>5. Control'
    BY <1>1, <1>2, <1>3 DEF Timeout, Control, Changing
  <1>6. Clocks' /\ TimersTypeOK'
    BY <1>2, <1>3 DEF Timeout, Clocks, TimersTypeOK, list, pool, wait, hist
  <1> QED
    BY <1>4, <1>5, <1>6 DEF TimersInv, Whole

\* A message ends it; the head keeps what is left of its time.
LEMMA MessageStep ==
  ASSUME TimersInv, Message
  PROVE  TimersInv'
  <1>1. /\ ~torn /\ ~torn' /\ where["network"] = "idle"
        /\ where["tcpip"] \in {"wait", "forever"}
    BY DEF Message, Runs, hist
  <1>2. TimersTypeOK /\ Clocks /\ Control /\ Shares /\ Hands /\ Single /\ Present
    BY <1>1 DEF TimersInv, Whole
  <1>3. /\ where' \in [Tasks -> {"off", "init", "idle", "test", "again", "wait", "forever",
                          "pop", "unlink", "take", "free", "malloc", "insert", "walk"}]
        /\ where'["network"] = "idle" /\ where'["tcpip"] = "again"
    BY <1>1, <1>2 DEF Message, Goto, TimersTypeOK, Tasks
  <1>4. /\ node' \in [Nodes -> [next : Nodes \cup {Null}, h : Timers, time : 0..(Word - 1)]]
        /\ \A n \in Nodes : node'[n].next = node[n].next /\ node'[n].h = node[n].h
    <2>1. CASE next_timeout # Null /\ node' = [node EXCEPT ![next_timeout].time = Rest(@)]
      <3>1. next_timeout \in Nodes /\ node[next_timeout].time \in 0..(Word - 1) /\ waited \in Nat
        BY <1>2, <2>1, Words DEF TimersTypeOK
      <3>2. Rest(node[next_timeout].time) \in 0..(Word - 1)
        BY <3>1, Words DEF Rest
      <3>3. node' = Timed(node, next_timeout, Rest(node[next_timeout].time))
        BY <2>1 DEF Timed
      <3>4. node \in [Nodes -> NodeType]
        BY <1>2 DEF TimersTypeOK, NodeType
      <3>5. node' \in [Nodes -> NodeType]
            /\ \A n \in Nodes : node'[n].next = node[n].next /\ node'[n].h = node[n].h
        BY <3>1, <3>2, <3>3, <3>4, TimedIs
      <3> QED
        BY <3>5 DEF NodeType
    <2>2. CASE node' = node
      BY <1>2, <2>2 DEF TimersTypeOK
    <2> QED
      BY <2>1, <2>2 DEF Message
  <1>5. Shares' /\ Hands' /\ Single' /\ Present'
    <2>1. \A p \in Tasks : where'[p] = where[p] \/ (where[p] \in Rests /\ where'[p] \in Rests)
      BY <1>1, <1>3 DEF Tasks, Rests
    <2> QED
      BY <1>2, <1>4, <2>1, Quiet DEF Message
  <1>6. Control'
    BY <1>1, <1>2, <1>3 DEF Message, Control, Changing
  <1>7. Clocks'
    BY <1>2, Words DEF Message, Clocks, hist
  <1>8. TimersTypeOK'
    <2>1. /\ UNCHANGED <<next_timeout, memp_tab, memp_next, todo, h, tmp, new, t, lag, diff>>
          /\ UNCHANGED <<due, torn>> /\ waited' = 0 /\ left' = 0
          /\ msgs < MaxMsgs /\ msgs' = msgs + 1
      BY DEF Message, pool, hist
    <2>2. left' \in 0..(Word - 1) /\ waited' \in 0..(Word - 1) /\ msgs' \in 0..MaxMsgs
      BY <1>2, <2>1, Words DEF TimersTypeOK
    <2> QED
      BY <1>2, <1>3, <1>4, <2>1, <2>2 DEF TimersTypeOK
  <1> QED
    BY <1>5, <1>6, <1>7, <1>8 DEF TimersInv, Whole

\* The poll begins, and is the one step that can meet a half-made change.
LEMMA PollStep ==
  ASSUME TimersInv, PollTimeouts
  PROVE  TimersInv'
  <1>1. ~torn /\ where["network"] = "idle"
    BY DEF PollTimeouts, At, Runs
  <1>2. TimersTypeOK /\ Clocks /\ Control /\ Shares /\ Hands /\ Single /\ Present
    BY <1>1 DEF TimersInv, Whole
  <1>3. /\ where' \in [Tasks -> {"off", "init", "idle", "test", "again", "wait", "forever",
                          "pop", "unlink", "take", "free", "malloc", "insert", "walk"}]
        /\ where'["network"] = "test" /\ where'["tcpip"] = where["tcpip"]
    BY <1>1, <1>2 DEF PollTimeouts, Goto, TimersTypeOK, Tasks
  <1>4. Shares' /\ Hands' /\ Single' /\ Present'
    <2>1. \A p \in Tasks : where'[p] = where[p] \/ (where[p] \in Rests /\ where'[p] \in Rests)
      BY <1>1, <1>3 DEF Tasks, Rests
    <2> QED
      BY <1>2, <2>1, Quiet DEF PollTimeouts, list
  <1>5. torn' \/ Control'
    BY <1>1, <1>2, <1>3 DEF PollTimeouts, Control, Changing
  <1>6. Clocks'
    BY <1>2, Words DEF PollTimeouts, Clocks, wait, TimersTypeOK
  <1>7. torn' \in BOOLEAN
    BY DEF PollTimeouts, Changing
  <1>8. TimersTypeOK'
    BY <1>2, <1>3, <1>7 DEF PollTimeouts, TimersTypeOK, list, pool, wait
  <1> QED
    BY <1>4, <1>5, <1>6, <1>8 DEF TimersInv, Whole

-----------------------------------------------------------------------------
(* The steps that take from the list.                                      *)

\* Where a task can be.
Points == {"off", "init", "idle", "test", "again", "wait", "forever",
                          "pop", "unlink", "take", "free", "malloc", "insert", "walk"}

\* The head leaves the list.
LEMMA ListPopped ==
  ASSUME TimersTypeOK, Shares, next_timeout # Null,
         next_timeout' = node[next_timeout].next, node' = node
  PROVE  /\ next_timeout \in Listed
         /\ Listed' = Listed \ {next_timeout} /\ Chain(next_timeout', NextOf', Listed')
  <1>1. next_timeout \in Listed /\ next_timeout \in Nodes
    BY ChainShape DEF Shares
  <1>2. NextOf' = NextOf /\ NextOf[next_timeout] = node[next_timeout].next
    BY <1>1 DEF NextOf
  <1>3. Chain(NextOf[next_timeout], NextOf, Listed \ {next_timeout})
    BY ChainPop DEF Shares
  <1>4. Chain(next_timeout', NextOf', Listed \ {next_timeout})
    BY <1>2, <1>3
  <1> QED
    BY <1>1, <1>4, ListedNext DEF Shares

\* sys_timeouts_init hands out the next timer, or is done.
LEMMA InitTimerStep ==
  ASSUME TimersInv, InitTimer
  PROVE  TimersInv'
  <1>1. ~torn /\ ~torn' /\ where["network"] = "init"
    BY DEF InitTimer, At, Runs, hist
  <1>2. TimersTypeOK /\ Clocks /\ Control /\ Shares /\ Hands /\ Single /\ Present
    BY <1>1 DEF TimersInv, Whole
  <1>3. where["tcpip"] = "off"
    BY <1>1, <1>2 DEF Control
  <1>4. Clocks'
    BY <1>2 DEF InitTimer, Clocks, wait, hist
  <1>5. CASE todo = <<>>
    <2>1. where' = [network |-> "idle", tcpip |-> "again"] /\ UNCHANGED <<todo, h>>
      BY <1>5 DEF InitTimer
    <2>2. /\ where' \in [Tasks -> Points]
          /\ where'["network"] = "idle" /\ where'["tcpip"] = "again"
      BY <2>1 DEF Tasks, Points
    <2>3. Shares' /\ Hands' /\ Single' /\ Present'
      <3>1. \A p \in Tasks : where'[p] = where[p] \/ (where[p] \in Rests /\ where'[p] \in Rests)
        BY <1>1, <1>3, <2>2 DEF Tasks, Rests
      <3> QED
        BY <1>2, <2>1, <3>1, Quiet DEF InitTimer, list
    <2>4. Control'
      BY <2>1, <2>2, <1>5 DEF Control, Changing
    <2>5. TimersTypeOK'
      BY <1>2, <2>1, <2>2 DEF InitTimer, TimersTypeOK, list, pool, wait, hist, Points
    <2> QED
      BY <1>4, <2>3, <2>4, <2>5 DEF TimersInv, Whole
  <1>6. CASE todo # <<>>
    <2>1. /\ h' = [h EXCEPT !["network"] = Head(todo)] /\ todo' = Tail(todo)
          /\ where' = [where EXCEPT !["network"] = "malloc"]
      BY <1>6 DEF InitTimer, Goto
    <2>2. /\ todo \in Seq(Timers) /\ Len(todo) \in Nat \ {0} /\ Head(todo) = todo[1]
          /\ Head(todo) \in Timers /\ Tail(todo) \in Seq(Timers)
          /\ Len(Tail(todo)) = Len(todo) - 1
          /\ \A i \in 1..(Len(todo) - 1) : Tail(todo)[i] = todo[i + 1]
      BY <1>2, <1>6 DEF TimersTypeOK
    <2>3. /\ where' \in [Tasks -> Points]
          /\ where'["network"] = "malloc" /\ where'["tcpip"] = "off"
          /\ h' \in [Tasks -> Timers] /\ h'["network"] = Head(todo) /\ h'["tcpip"] = h["tcpip"]
      BY <1>2, <1>3, <2>1, <2>2 DEF TimersTypeOK, Tasks, Points
    <2>4. Listed' = Listed /\ Chain(next_timeout', NextOf', Listed')
      BY <1>2, ListKept DEF InitTimer, list
    <2>5. Free' = Free /\ Chain(memp_tab', memp_next', Free')
      BY <1>2, PoolKept DEF InitTimer, pool
    <2>6. \A p \in Tasks : \A n : ~Has(p, n) /\ ~Has(p, n)'
      BY <1>1, <1>3, <2>3 DEF Has, Tasks
    <2>7. /\ \A p \in Tasks : \A x : ~InHand(p, x)
          /\ \A x : ~InHand("tcpip", x)' /\ (InHand("network", x)' <=> x = Head(todo))
      BY <1>1, <1>3, <2>3 DEF InHand, Tasks
    <2>8. Shares'
      BY <1>2, <2>4, <2>5, <2>6 DEF Shares, Tasks
    <2>9. Hands'
      BY <2>3 DEF Hands, Tasks
    <2>10. node' = node
      BY DEF InitTimer, list
    <2>11. Single'
      <3>1. \A n \in Listed : node[n].h # Head(todo) /\ \A i \in 1..Len(todo) : node[n].h # todo[i]
        BY <1>2, <2>2 DEF Single
      <3>2. \A i, j \in 1..Len(todo') : todo'[i] = todo'[j] => i = j
        BY <1>2, <2>1, <2>2 DEF Single
      <3>3. \A i \in 1..Len(todo') : \E j \in 1..Len(todo) : j # 1 /\ todo'[i] = todo[j]
        <4> TAKE i \in 1..Len(todo')
        <4>1. i + 1 \in 1..Len(todo) /\ i + 1 # 1 /\ todo'[i] = todo[i + 1]
          BY <2>1, <2>2
        <4> QED
          BY <4>1
      <3>4. \A j \in 1..Len(todo) : j # 1 => todo[j] # Head(todo)
        BY <1>2, <2>2 DEF Single
      <3>5. \A i \in 1..Len(todo') : todo'[i] # Head(todo) /\ \A n \in Listed : node[n].h # todo'[i]
        BY <3>1, <3>3, <3>4
      <3>6. \A m, n \in Listed : node[m].h = node[n].h => m = n
        BY <1>2 DEF Single
      <3> QED
        BY <2>4, <2>7, <2>10, <3>1, <3>2, <3>5, <3>6 DEF Single, Tasks
    <2>12. Present'
      <3> SUFFICES ASSUME NEW x \in Timers
                   PROVE  \/ \E n \in Listed' : node'[n].h = x
                          \/ \E p \in Tasks : InHand(p, x)'
                          \/ \E i \in 1..Len(todo') : todo'[i] = x
        BY DEF Present
      <3>1. CASE x = Head(todo)
        BY <2>7, <3>1 DEF Tasks
      <3>2. CASE \E i \in 1..Len(todo) : todo[i] = x /\ i # 1
        <4>1. PICK i \in 1..Len(todo) : todo[i] = x /\ i # 1
          BY <3>2
        <4>2. i - 1 \in 1..Len(todo') /\ todo'[i - 1] = x
          BY <2>1, <2>2, <4>1
        <4> QED
          BY <4>2
      <3>3. CASE \E n \in Listed : node[n].h = x
        BY <3>3, <2>4, <2>10
      <3> QED
        BY <1>2, <2>2, <2>7, <3>1, <3>2, <3>3 DEF Present
    <2>13. Control'
      BY <2>3 DEF Control, Changing
    <2>14. TimersTypeOK'
      BY <1>2, <2>1, <2>2, <2>3 DEF InitTimer, TimersTypeOK, list, pool, wait, hist, Points
    <2> QED
      BY <1>4, <2>8, <2>9, <2>11, <2>12, <2>13, <2>14 DEF TimersInv, Whole
  <1> QED
    BY <1>5, <1>6

\* The thread takes note of the head.
LEMMA PopStep ==
  ASSUME TimersInv, Pop
  PROVE  TimersInv'
  <1>1. /\ ~torn /\ ~torn' /\ where["network"] = "idle" /\ where["tcpip"] = "pop"
        /\ next_timeout # Null
    BY DEF Pop, At, Runs, hist
  <1>2. TimersTypeOK /\ Clocks /\ Control /\ Shares /\ Hands /\ Single /\ Present
    BY <1>1 DEF TimersInv, Whole
  <1>3. /\ where' \in [Tasks -> Points]
        /\ where'["network"] = "idle" /\ where'["tcpip"] = "unlink"
        /\ tmp' \in [Tasks -> Nodes \cup {Null}] /\ tmp'["tcpip"] = next_timeout
    BY <1>1, <1>2 DEF Pop, Goto, TimersTypeOK, Tasks, Points
  <1>4. Listed' = Listed /\ Chain(next_timeout', NextOf', Listed')
    BY <1>2, ListKept DEF Pop, list
  <1>5. Free' = Free /\ Chain(memp_tab', memp_next', Free')
    BY <1>2, PoolKept DEF Pop, pool
  <1>6. \A p \in Tasks : \A n : ~Has(p, n) /\ ~Has(p, n)'
    BY <1>1, <1>3 DEF Has, Tasks
  <1>7. \A p \in Tasks : \A x : ~InHand(p, x) /\ ~InHand(p, x)'
    BY <1>1, <1>3 DEF InHand, Tasks
  <1>8. node' = node /\ next_timeout' = next_timeout /\ todo' = todo
    BY DEF Pop, list
  <1>9. Shares'
    BY <1>2, <1>4, <1>5, <1>6 DEF Shares, Tasks
  <1>10. Hands'
    BY <1>1, <1>3, <1>8 DEF Hands, Tasks
  <1>11. Single' /\ Present'
    BY <1>2, <1>4, <1>7, <1>8 DEF Single, Present, Tasks
  <1>12. Control'
    BY <1>1, <1>2, <1>3, <1>8 DEF Control, Changing
  <1>13. Clocks' /\ TimersTypeOK'
    BY <1>2, <1>3 DEF Pop, Clocks, TimersTypeOK, list, pool, wait, hist, Points
  <1> QED
    BY <1>9, <1>10, <1>11, <1>12, <1>13 DEF TimersInv, Whole

\* The head leaves the list: it is still the one the thread took note of.
LEMMA UnlinkStep ==
  ASSUME TimersInv, Unlink
  PROVE  TimersInv'
  <1>1. ~torn /\ ~torn' /\ where["network"] = "idle" /\ where["tcpip"] = "unlink"
    BY DEF Unlink, At, Runs, hist
  <1>2. TimersTypeOK /\ Clocks /\ Control /\ Shares /\ Hands /\ Single /\ Present
    BY <1>1 DEF TimersInv, Whole
  <1>3. tmp["tcpip"] = next_timeout /\ next_timeout # Null
    BY <1>1, <1>2 DEF Hands
  <1>4. /\ where' \in [Tasks -> Points]
        /\ where'["network"] = "idle" /\ where'["tcpip"] = "take"
    BY <1>1, <1>2 DEF Unlink, Goto, TimersTypeOK, Tasks, Points
  <1>5. node' = node /\ next_timeout' = node[next_timeout].next /\ todo' = todo /\ tmp' = tmp
    BY <1>3 DEF Unlink
  <1>6. /\ next_timeout \in Listed /\ next_timeout \in Nodes
        /\ Listed' = Listed \ {next_timeout} /\ Chain(next_timeout', NextOf', Listed')
    BY <1>2, <1>3, <1>5, ListPopped DEF Shares
  <1>7. Free' = Free /\ Chain(memp_tab', memp_next', Free')
    BY <1>2, PoolKept DEF Unlink, pool
  <1>8. \A n : ~Has("tcpip", n) /\ ~Has("network", n) /\ ~Has("network", n)'
               /\ (Has("tcpip", n)' <=> n = next_timeout)
    BY <1>1, <1>3, <1>4, <1>5 DEF Has, Tasks
  <1>9. \A x : ~InHand("tcpip", x) /\ ~InHand("network", x) /\ ~InHand("network", x)'
               /\ (InHand("tcpip", x)' <=> x = node[next_timeout].h)
    BY <1>1, <1>3, <1>4, <1>5 DEF InHand, Tasks
  <1>10. Shares'
    BY <1>2, <1>6, <1>7, <1>8 DEF Shares, Tasks
  <1>11. Hands'
    BY <1>4 DEF Hands, Tasks
  <1>12. Single'
    BY <1>2, <1>5, <1>6, <1>9 DEF Single, Tasks
  <1>13. Present'
    BY <1>2, <1>5, <1>6, <1>9 DEF Present, Tasks
  <1>14. Control'
    BY <1>1, <1>2, <1>4, <1>5 DEF Control, Changing
  <1>15. Clocks'
    BY <1>2, Words DEF Unlink, Clocks, TimersTypeOK, hist
  <1>16. next_timeout' \in Nodes \cup {Null}
    BY <1>2, <1>5, <1>6 DEF TimersTypeOK
  <1>17. TimersTypeOK'
    <2>1. UNCHANGED <<node, memp_tab, memp_next, todo, h, tmp, new, t, left, msgs, lag, diff>>
          /\ UNCHANGED <<due, torn>> /\ waited' = 0
      BY DEF Unlink, pool, hist
    <2>2. waited' \in 0..(Word - 1)
      BY <2>1, Words
    <2> QED
      BY <1>2, <1>4, <1>16, <2>1, <2>2 DEF TimersTypeOK, Points
  <1> QED
    BY <1>10, <1>11, <1>12, <1>13, <1>14, <1>15, <1>17 DEF TimersInv, Whole

\* The thread reads the handler of the node it has taken off.
LEMMA TakeStep ==
  ASSUME TimersInv, Take
  PROVE  TimersInv'
  <1>1. ~torn /\ ~torn' /\ where["network"] = "idle" /\ where["tcpip"] = "take"
    BY DEF Take, At, Runs, hist
  <1>2. TimersTypeOK /\ Clocks /\ Control /\ Shares /\ Hands /\ Single /\ Present
    BY <1>1 DEF TimersInv, Whole
  <1>3. Has("tcpip", tmp["tcpip"])
    BY <1>1 DEF Has
  <1>4. tmp["tcpip"] \in Nodes
    BY <1>2, <1>3 DEF Shares, Tasks
  <1>5. /\ where' \in [Tasks -> Points]
        /\ where'["network"] = "idle" /\ where'["tcpip"] = "free"
        /\ h' \in [Tasks -> Timers] /\ h'["tcpip"] = node[tmp["tcpip"]].h
    BY <1>1, <1>2, <1>4 DEF Take, Goto, TimersTypeOK, Tasks, Points
  <1>6. node' = node /\ todo' = todo /\ tmp' = tmp
    BY DEF Take, list
  <1>7. Listed' = Listed /\ Chain(next_timeout', NextOf', Listed')
    BY <1>2, ListKept DEF Take, list
  <1>8. Free' = Free /\ Chain(memp_tab', memp_next', Free')
    BY <1>2, PoolKept DEF Take, pool
  <1>9. \A p \in Tasks : \A n : Has(p, n)' <=> Has(p, n)
    BY <1>1, <1>5, <1>6 DEF Has, Tasks
  <1>10. \A p \in Tasks : \A x : InHand(p, x)' <=> InHand(p, x)
    BY <1>1, <1>5, <1>6 DEF InHand, Tasks
  <1>11. Shares'
    BY <1>2, <1>7, <1>8, <1>9 DEF Shares, Tasks
  <1>12. Hands'
    BY <1>5, <1>6 DEF Hands, Tasks
  <1>13. Single' /\ Present'
    BY <1>2, <1>6, <1>7, <1>10 DEF Single, Present, Tasks
  <1>14. Control'
    BY <1>1, <1>2, <1>5, <1>6 DEF Control, Changing
  <1>15. Clocks' /\ TimersTypeOK'
    BY <1>2, <1>5 DEF Take, Clocks, TimersTypeOK, list, pool, wait, hist, Points
  <1> QED
    BY <1>11, <1>12, <1>13, <1>14, <1>15 DEF TimersInv, Whole

\* The poll takes the head off, or is done.
LEMMA PollTestStep ==
  ASSUME TimersInv, PollTest
  PROVE  TimersInv'
  <1>1. ~torn /\ ~torn' /\ where["network"] = "test"
    BY DEF PollTest, At, Runs, hist
  <1>2. TimersTypeOK /\ Clocks /\ Control /\ Shares /\ Hands /\ Single /\ Present
    BY <1>1 DEF TimersInv, Whole
  <1>3. /\ where["tcpip"] \notin {"off", "unlink", "insert", "walk"}
        /\ todo = <<>> /\ todo' = todo /\ node' = node
    BY <1>1, <1>2 DEF Control, Changing, PollTest
  <1>4. Free' = Free /\ Chain(memp_tab', memp_next', Free')
    BY <1>2, PoolKept DEF PollTest, pool
  <1>5. CASE ~Expired
    <2>1. /\ where' = [where EXCEPT !["network"] = "idle"] /\ diff' = 0
          /\ UNCHANGED <<tmp, h, lag, next_timeout>>
      BY <1>5 DEF PollTest, Goto
    <2>2. /\ where' \in [Tasks -> Points]
          /\ where'["network"] = "idle" /\ where'["tcpip"] = where["tcpip"]
      BY <1>2, <2>1 DEF TimersTypeOK, Tasks, Points
    <2>3. Shares' /\ Hands' /\ Single' /\ Present'
      <3>1. \A p \in Tasks : where'[p] = where[p] \/ (where[p] \in Rests /\ where'[p] \in Rests)
        BY <1>1, <2>2 DEF Tasks, Rests
      <3> QED
        BY <1>2, <2>1, <3>1, Quiet DEF PollTest
    <2>4. Control'
      BY <1>2, <1>3, <2>2 DEF Control, Changing
    <2>5. Clocks'
      BY <1>2, <2>1, Words DEF PollTest, Clocks, TimersTypeOK, wait, hist
    <2>6. TimersTypeOK'
      BY <1>2, <2>1, <2>2, Words DEF PollTest, TimersTypeOK, pool, wait, hist, Points
    <2> QED
      BY <2>3, <2>4, <2>5, <2>6 DEF TimersInv, Whole
  <1>6. CASE Expired
    <2>1. /\ tmp' = [tmp EXCEPT !["network"] = next_timeout]
          /\ h' = [h EXCEPT !["network"] = node[next_timeout].h]
          /\ Elapsed(node[next_timeout].time)
          /\ next_timeout' = node[next_timeout].next
          /\ where' = [where EXCEPT !["network"] = "free"]
      BY <1>6 DEF PollTest, Goto
    <2>2. next_timeout # Null /\ node[next_timeout].time <= diff
      BY <1>6 DEF Expired
    <2>3. /\ next_timeout \in Listed /\ next_timeout \in Nodes
          /\ Listed' = Listed \ {next_timeout} /\ Chain(next_timeout', NextOf', Listed')
      BY <1>2, <1>3, <2>1, <2>2, ListPopped DEF Shares
    <2>4. /\ where' \in [Tasks -> Points]
          /\ where'["network"] = "free" /\ where'["tcpip"] = where["tcpip"]
          /\ h' \in [Tasks -> Timers] /\ h'["network"] = node[next_timeout].h
          /\ h'["tcpip"] = h["tcpip"]
          /\ tmp' \in [Tasks -> Nodes \cup {Null}] /\ tmp'["network"] = next_timeout
          /\ tmp'["tcpip"] = tmp["tcpip"]
          /\ next_timeout' \in Nodes \cup {Null}
      BY <1>2, <2>1, <2>3 DEF TimersTypeOK, Tasks, Points
    <2>5. new' = new /\ t' = t
      BY DEF PollTest
    <2>6. \A n : /\ ~Has("network", n) /\ (Has("network", n)' <=> n = next_timeout)
                 /\ Has("tcpip", n)' <=> Has("tcpip", n)
      BY <1>1, <2>4, <2>5 DEF Has
    <2>7. \A x : /\ ~InHand("network", x) /\ (InHand("network", x)' <=> x = node[next_timeout].h)
                 /\ InHand("tcpip", x)' <=> InHand("tcpip", x)
      BY <1>1, <1>3, <2>4 DEF InHand
    <2>8. Shares'
      BY <1>2, <1>4, <2>3, <2>6 DEF Shares, Tasks
    <2>9. Hands'
      BY <1>2, <1>3, <2>4, <2>5 DEF Hands, Tasks
    <2>10. Single'
      BY <1>2, <1>3, <2>3, <2>7 DEF Single, Tasks
    <2>11. Present'
      BY <1>2, <1>3, <2>3, <2>7 DEF Present, Tasks
    <2>12. Control'
      BY <1>2, <1>3, <2>4 DEF Control, Changing
    <2>13. /\ lag' = lag - node[next_timeout].time /\ diff' = diff - node[next_timeout].time
           /\ node[next_timeout].time \in 0..(Word - 1) /\ lag \in Nat /\ diff \in Nat
      <3>1. node[next_timeout].time \in 0..(Word - 1) /\ lag \in 0..(Word - 1)
            /\ diff \in 0..(Word - 1)
        BY <1>2, <2>3 DEF TimersTypeOK
      <3>2. node[next_timeout].time <= lag
        BY <1>2, <2>2, <3>1, Words DEF Clocks
      <3>3. Sub(lag, node[next_timeout].time) = lag - node[next_timeout].time
        BY <3>1, <3>2, SubType
      <3> QED
        BY <2>1, <3>1, <3>3, Words DEF Elapsed
    <2>14. Clocks'
      BY <1>2, <2>2, <2>13, Words DEF PollTest, Clocks, wait, hist
    <2>15. lag' \in 0..(Word - 1) /\ diff' \in 0..(Word - 1)
      BY <1>2, <2>2, <2>13, Words DEF Clocks
    <2>16. TimersTypeOK'
      BY <1>2, <2>4, <2>15 DEF PollTest, TimersTypeOK, pool, wait, hist, Points
    <2> QED
      BY <2>8, <2>9, <2>10, <2>11, <2>12, <2>14, <2>16 DEF TimersInv, Whole
  <1> QED
    BY <1>5, <1>6

-----------------------------------------------------------------------------
(* sys_timeout: a node is freed, taken from the pool                       *)

\* While a task is at work on a timer the other one is not in a change.
LEMMA Other ==
  ASSUME Control, NEW p \in Tasks, Runs(p), where[p] \in {"free", "malloc", "insert", "walk"}
  PROVE  \E q \in Tasks : /\ q # p /\ Tasks = {p, q}
                          /\ where[q] \notin {"unlink", "insert", "walk"}
                          /\ p = "tcpip" => where[q] = "idle"
  <1>1. CASE p = "tcpip"
    BY <1>1 DEF Tasks, Runs
  <1>2. CASE p = "network"
    BY <1>2 DEF Tasks, Control, Changing
  <1> QED
    BY <1>1, <1>2 DEF Tasks

\* Where the tasks are when one goes on in sys_timeout, or leaves it.
LEMMA MovesOn ==
  ASSUME TimersTypeOK, Control, NEW p \in Tasks, Runs(p), todo' = todo,
         where[p] \in {"free", "malloc", "insert"}, NEW there \in {"malloc", "insert", "walk"},
         Goto(p, there)
  PROVE  /\ where' \in [Tasks -> Points] /\ where'[p] = there
         /\ \A q \in Tasks : q # p => where'[q] = where[q]
         /\ Control'
  <1>1. /\ where' \in [Tasks -> Points] /\ where'[p] = there
        /\ \A q \in Tasks : q # p => where'[q] = where[q]
    BY DEF TimersTypeOK, Goto, Points
  <1>2. CASE p = "tcpip"
    BY <1>1, <1>2 DEF Tasks, Runs, Control, Changing
  <1>3. CASE p = "network"
    BY <1>1, <1>3 DEF Tasks, Control, Changing
  <1> QED
    BY <1>1, <1>2, <1>3 DEF Tasks

LEMMA Returned ==
  ASSUME TimersTypeOK, Control, NEW p \in Tasks, Runs(p), todo' = todo,
         where[p] \in {"malloc", "insert", "walk"}, Return(p)
  PROVE  /\ where' \in [Tasks -> Points] /\ where'[p] \in {"again", "init", "test"}
         /\ \A q \in Tasks : q # p => where'[q] = where[q]
         /\ Control'
  <1>1. CASE p = "tcpip"
    <2>1. where' = [where EXCEPT !["tcpip"] = "again"]
      BY <1>1 DEF Return, Goto
    <2> QED
      BY <1>1, <2>1 DEF TimersTypeOK, Points, Tasks, Control, Changing, Runs
  <1>2. CASE p = "network" /\ where["tcpip"] = "off"
    <2>1. where' = [where EXCEPT !["network"] = "init"]
      BY <1>2 DEF Return, Goto
    <2> QED
      BY <1>2, <2>1 DEF TimersTypeOK, Points, Tasks, Control, Changing, Runs
  <1>3. CASE p = "network" /\ where["tcpip"] # "off"
    <2>1. where' = [where EXCEPT !["network"] = "test"]
      BY <1>3 DEF Return, Goto
    <2> QED
      BY <1>3, <2>1 DEF TimersTypeOK, Points, Tasks, Control, Changing, Runs
  <1> QED
    BY <1>1, <1>2, <1>3 DEF Tasks

\* The node goes back to the pool and the handler is called.
LEMMA CallStep ==
  ASSUME TimersInv, NEW p \in Tasks, Call(p)
  PROVE  TimersInv'
  <1>1. ~torn /\ ~torn' /\ where[p] = "free" /\ Runs(p)
    BY DEF Call, At, Runs, hist
  <1>2. TimersTypeOK /\ Clocks /\ Control /\ Shares /\ Hands /\ Single /\ Present
    BY <1>1 DEF TimersInv, Whole
  <1>3. PICK q \in Tasks : /\ q # p /\ Tasks = {p, q}
                           /\ where[q] \notin {"unlink", "insert", "walk"}
    BY <1>1, <1>2, Other
  <1>4. UNCHANGED <<todo, h, tmp, new, t, next_timeout, node>>
    BY DEF Call, list
  <1>5. /\ where' \in [Tasks -> Points] /\ where'[p] = "malloc" /\ where'[q] = where[q]
        /\ Control'
    BY <1>1, <1>2, <1>3, <1>4, MovesOn DEF Call
  <1>6. tmp[p] \in Nodes /\ tmp[p] \notin Listed /\ tmp[p] \notin Free
    BY <1>1, <1>2 DEF Shares, Has
  <1>7. Free' = Free \cup {tmp[p]} /\ Chain(memp_tab', memp_next', Free')
    <2>1. /\ memp_next' = [memp_next EXCEPT ![tmp[p]] = memp_tab]
          /\ memp_tab' = tmp[p]
      BY DEF Call, FreeNode
    <2>2. memp_next'[tmp[p]] = memp_tab /\ \A m \in Free : memp_next'[m] = memp_next[m]
      BY <1>2, <1>6, <2>1 DEF TimersTypeOK, Shares
    <2>3. Chain(tmp[p], memp_next', Free \cup {tmp[p]})
      BY <1>2, <1>6, <2>2, ChainPush DEF Shares
    <2> QED
      BY <1>2, <1>6, <2>1, <2>3, FreeNext DEF Shares
  <1>8. Listed' = Listed /\ Chain(next_timeout', NextOf', Listed')
    BY <1>2, <1>4, ListKept
  <1>9. \A n : /\ ~Has(p, n)' /\ (Has(p, n) <=> n = tmp[p])
               /\ Has(q, n)' <=> Has(q, n)
    BY <1>1, <1>4, <1>5 DEF Has
  <1>10. \A x : \A r \in Tasks : InHand(r, x)' <=> InHand(r, x)
    BY <1>1, <1>3, <1>4, <1>5 DEF InHand
  <1>11. \A n : ~(Has(p, n) /\ Has(q, n))
    BY <1>2, <1>3 DEF Shares, Tasks
  <1>12. Shares'
    <2>1. \A n \in Nodes : n \in Listed' \/ n \in Free' \/ \E r \in Tasks : Has(r, n)'
      BY <1>2, <1>3, <1>7, <1>8, <1>9 DEF Shares
    <2>2. \A n \in Nodes : ~(n \in Listed' /\ n \in Free')
      BY <1>2, <1>6, <1>7, <1>8 DEF Shares
    <2>3. \A r \in Tasks : \A n : Has(r, n)' => n \in Nodes /\ n \notin Listed' /\ n \notin Free'
      BY <1>2, <1>3, <1>7, <1>8, <1>9, <1>11 DEF Shares
    <2>4. \A n \in Nodes : ~(Has("tcpip", n)' /\ Has("network", n)')
      BY <1>3, <1>9 DEF Tasks
    <2>5. Listed' \in SUBSET Nodes /\ Free' \in SUBSET Nodes
      BY <1>2, <1>6, <1>7, <1>8 DEF Shares
    <2> QED
      BY <1>7, <1>8, <2>1, <2>2, <2>3, <2>4, <2>5 DEF Shares
  <1>13. Hands'
    BY <1>2, <1>3, <1>4, <1>5, <1>8 DEF Hands, Tasks
  <1>14. Single' /\ Present'
    BY <1>2, <1>4, <1>8, <1>10 DEF Single, Present, Tasks
  <1>15. Clocks'
    BY <1>2 DEF Call, Clocks, wait
  <1>16. TimersTypeOK'
    <2>1. /\ memp_next' \in [Nodes -> Nodes \cup {Null}]
          /\ memp_tab' \in Nodes \cup {Null}
      BY <1>2, <1>6 DEF Call, FreeNode, TimersTypeOK
    <2> QED
      BY <1>2, <1>4, <1>5, <2>1 DEF Call, TimersTypeOK, wait, hist, Points
  <1> QED
    BY <1>5, <1>12, <1>13, <1>14, <1>15, <1>16 DEF TimersInv, Whole

\* The pool has a node for the timer that is to be set: every other node has
\* another timer.
LEMMA NodeForAll ==
  ASSUME TimersTypeOK, Control, Shares, Hands, Single,
         NEW p \in Tasks, where[p] = "malloc", Runs(p)
  PROVE  memp_tab # Null
  <1> SUFFICES ASSUME memp_tab = Null PROVE FALSE
    OBVIOUS
  <1>1. PICK q \in Tasks : q # p /\ Tasks = {p, q}
    BY Other
  <1>2. Free = {}
    BY ChainShape DEF Shares
  <1>3. \A n \in Nodes : n \in Listed \/ Has(q, n)
    BY <1>1, <1>2 DEF Shares, Has
  <1>4. \A n : Has(q, n) => n \in Nodes /\ InHand(q, node[n].h)
    BY DEF Has, InHand, Hands, Shares
  <1>5. InHand(p, h[p]) /\ h[p] \in Timers
    BY DEF InHand, TimersTypeOK
  <1>6. \A x \in Timers : ~(InHand(p, x) /\ InHand(q, x))
    BY <1>1 DEF Single, Tasks
  <1>7. \A m, n : Has(q, m) /\ Has(q, n) => m = n
    BY DEF Has
  <1> DEFINE f == [n \in Nodes |-> node[n].h]
  <1>8. \A n \in Nodes : node[n].h \in Timers \ {h[p]}
    BY <1>3, <1>4, <1>5, <1>6 DEF Single, TimersTypeOK
  <1>9. \A m, n \in Nodes : node[m].h = node[n].h => m = n
    BY <1>3, <1>4, <1>7 DEF Single
  <1>10. f \in Injection(Nodes, Timers \ {h[p]})
    BY <1>8, <1>9 DEF Injection, IsInjective
  <1>11. /\ IsFiniteSet(Timers \ {h[p]})
         /\ Cardinality(Timers \ {h[p]}) = Cardinality(Timers) - 1
    <2>1. IsFiniteSet(Timers)
      BY TimersAssumption
    <2> QED
      BY <1>5, <2>1, FS_RemoveElement
  <1>12. Cardinality(Nodes) <= Cardinality(Timers \ {h[p]})
    BY <1>10, <1>11, FS_Injection
  <1>13. Cardinality(Timers) \in Nat /\ Cardinality(Nodes) \in Nat
    BY TimersAssumption, FS_CardinalityType
  <1> QED
    BY <1>11, <1>12, <1>13, TimersAssumption

\* The timer gets a node of the pool.
LEMMA MallocStep ==
  ASSUME TimersInv, NEW p \in Tasks, Malloc(p)
  PROVE  TimersInv'
  <1>1. ~torn /\ ~torn' /\ where[p] = "malloc" /\ Runs(p)
    BY DEF Malloc, At, Runs
  <1>2. TimersTypeOK /\ Clocks /\ Control /\ Shares /\ Hands /\ Single /\ Present
    BY <1>1 DEF TimersInv, Whole
  <1>3. PICK q \in Tasks : /\ q # p /\ Tasks = {p, q}
                           /\ where[q] \notin {"unlink", "insert", "walk"}
    BY <1>1, <1>2, Other
  <1>4. UNCHANGED <<todo, h, tmp, t, next_timeout, memp_next>>
    BY DEF Malloc
  <1>5. memp_tab # Null
    BY <1>1, <1>2, NodeForAll
  <1>6. /\ new' = [new EXCEPT ![p] = memp_tab] /\ memp_tab' = memp_next[memp_tab]
        /\ node' = [node EXCEPT ![memp_tab] =
                      [next |-> Null, h |-> h[p], time |-> Period[h[p]]]]
        /\ Goto(p, "insert")
    BY <1>5 DEF Malloc
  <1>7. /\ where' \in [Tasks -> Points] /\ where'[p] = "insert" /\ where'[q] = where[q]
        /\ Control'
    BY <1>1, <1>2, <1>3, <1>4, <1>6, MovesOn
  <1>8. /\ memp_tab \in Free /\ memp_tab \in Nodes /\ memp_tab \notin Listed
        /\ Free' = Free \ {memp_tab} /\ Chain(memp_tab', memp_next', Free')
    <2>1. memp_tab \in Free
      BY <1>2, <1>5, ChainShape DEF Shares
    <2>2. Chain(memp_next[memp_tab], memp_next, Free \ {memp_tab})
      BY <1>2, <1>5, ChainPop DEF Shares
    <2>3. Chain(memp_tab', memp_next', Free \ {memp_tab})
      BY <1>4, <1>6, <2>2
    <2> QED
      BY <1>2, <2>1, <2>3, FreeNext DEF Shares
  <1>9. /\ node' \in [Nodes -> NodeType]
        /\ \A n \in Nodes : n # memp_tab => node'[n] = node[n]
        /\ node'[memp_tab].h = h[p] /\ node'[memp_tab].next = Null
        /\ new' \in [Tasks -> Nodes \cup {Null}] /\ new'[p] = memp_tab /\ new'[q] = new[q]
    <2>1. [next |-> Null, h |-> h[p], time |-> Period[h[p]]] \in NodeType
      BY <1>2, Words DEF NodeType, TimersTypeOK
    <2> QED
      BY <1>2, <1>3, <1>6, <1>8, <2>1 DEF TimersTypeOK, NodeType
  <1>10. Listed' = Listed /\ Chain(next_timeout', NextOf', Listed')
    BY <1>2, <1>4, <1>8, <1>9, ListKept DEF Shares
  <1>11. \A n : /\ ~Has(p, n) /\ (Has(p, n)' <=> n = memp_tab)
                /\ Has(q, n)' <=> Has(q, n)
    BY <1>1, <1>3, <1>4, <1>7, <1>9 DEF Has
  <1>12. \A n : Has(q, n) => n \in Nodes /\ n # memp_tab
    BY <1>2, <1>8 DEF Shares
  <1>13. \A x : \A r \in Tasks : InHand(r, x)' <=> InHand(r, x)
    BY <1>1, <1>3, <1>4, <1>7, <1>9, <1>12 DEF InHand, Has
  <1>14. \A n \in Listed : node'[n] = node[n]
    BY <1>2, <1>8, <1>9 DEF Shares
  <1>15. Shares'
    <2>1. \A n \in Nodes : n \in Listed' \/ n \in Free' \/ \E r \in Tasks : Has(r, n)'
      BY <1>2, <1>3, <1>8, <1>10, <1>11 DEF Shares
    <2>2. \A n \in Nodes : ~(n \in Listed' /\ n \in Free')
      BY <1>2, <1>8, <1>10 DEF Shares
    <2>3. \A r \in Tasks : \A n : Has(r, n)' => n \in Nodes /\ n \notin Listed' /\ n \notin Free'
      BY <1>2, <1>3, <1>8, <1>10, <1>11 DEF Shares
    <2>4. \A n \in Nodes : ~(Has("tcpip", n)' /\ Has("network", n)')
      BY <1>3, <1>11, <1>12 DEF Tasks
    <2>5. Listed' \in SUBSET Nodes /\ Free' \in SUBSET Nodes
      BY <1>2, <1>8, <1>10 DEF Shares
    <2> QED
      BY <1>8, <1>10, <2>1, <2>2, <2>3, <2>4, <2>5 DEF Shares
  <1>16. Hands'
    <2>1. where'["tcpip"] # "unlink"
      BY <1>3, <1>7 DEF Tasks
    <2>2. ASSUME NEW r \in Tasks
          PROVE  /\ where'[r] = "walk" => t'[r] \in Listed'
                 /\ where'[r] = "free" => node'[tmp'[r]].h = h'[r]
                 /\ where'[r] \in {"insert", "walk"} => node'[new'[r]].h = h'[r]
                 /\ where'[r] = "insert" => node'[new'[r]].next = Null
      <3>1. CASE r = p
        BY <3>1, <1>4, <1>7, <1>9
      <3>2. CASE r = q
        BY <3>2, <1>2, <1>3, <1>4, <1>7, <1>9, <1>12 DEF Hands, Has
      <3> QED
        BY <3>1, <3>2, <1>3
    <2> QED
      BY <2>1, <2>2 DEF Hands
  <1>17. Single' /\ Present'
    BY <1>2, <1>4, <1>10, <1>13, <1>14 DEF Single, Present, Tasks
  <1>18. Clocks'
    BY <1>2 DEF Malloc, Clocks, wait
  <1>19. memp_tab' \in Nodes \cup {Null} /\ due' \in [Timers -> Int]
    <2>1. DueIn(p) \in Int /\ due' = [due EXCEPT ![h[p]] = DueIn(p)]
      BY <1>2, <1>5, Words DEF Malloc, DueIn, TimersTypeOK
    <2> QED
      BY <1>2, <1>6, <1>8, <2>1 DEF TimersTypeOK
  <1>20. TimersTypeOK'
    <2>1. UNCHANGED <<left, waited, msgs, lag, diff, torn>>
      BY DEF Malloc, wait
    <2>2. {tmp', new', t'} \subseteq [Tasks -> Nodes \cup {Null}]
      BY <1>2, <1>4, <1>9 DEF TimersTypeOK
    <2>3. /\ left' \in 0..(Word - 1) /\ waited' \in 0..(Word - 1) /\ lag' \in 0..(Word - 1)
          /\ diff' \in 0..(Word - 1) /\ msgs' \in 0..MaxMsgs /\ torn' \in BOOLEAN
      BY <1>2, <2>1 DEF TimersTypeOK
    <2>4. /\ next_timeout' \in Nodes \cup {Null} /\ memp_next' \in [Nodes -> Nodes \cup {Null}]
          /\ todo' \in Seq(Timers) /\ h' \in [Tasks -> Timers]
      BY <1>2, <1>4 DEF TimersTypeOK
    <2> QED
      BY <1>7, <1>9, <1>19, <2>2, <2>3, <2>4 DEF TimersTypeOK, Points, NodeType
  <1> QED
    BY <1>7, <1>15, <1>16, <1>17, <1>18, <1>20 DEF TimersInv, Whole

-----------------------------------------------------------------------------
(* and linked.                                                             *)

\* The new node is on the list, and its task goes on.
LEMMA Linked ==
  ASSUME TimersTypeOK, Control, Shares, Hands, Single, Present,
         NEW p \in Tasks, Runs(p), where[p] \in {"insert", "walk"}, Return(p),
         Listed' = Listed \cup {new[p]}, Chain(next_timeout', NextOf', Listed'),
         UNCHANGED pool, UNCHANGED <<todo, h, tmp, new, t>>,
         \A n \in Nodes : node'[n].h = node[n].h
  PROVE  Control' /\ Shares' /\ Hands' /\ Single' /\ Present' /\ where' \in [Tasks -> Points]
  <1>1. PICK q \in Tasks : /\ q # p /\ Tasks = {p, q}
                           /\ where[q] \notin {"unlink", "insert", "walk"}
    BY Other
  <1>2. /\ where' \in [Tasks -> Points] /\ where'[p] \in {"again", "init", "test"}
        /\ where'[q] = where[q] /\ Control'
    BY <1>1, Returned
  <1>3. /\ new[p] \in Nodes /\ new[p] \notin Listed /\ new[p] \notin Free
        /\ node[new[p]].h = h[p]
    BY DEF Shares, Has, Hands
  <1>4. Free' = Free /\ Chain(memp_tab', memp_next', Free')
    BY PoolKept DEF pool
  <1>5. \A n : /\ ~Has(p, n)' /\ (Has(p, n) <=> n = new[p])
               /\ Has(q, n)' <=> Has(q, n)
    BY <1>1, <1>2 DEF Has
  <1>6. \A n : Has(q, n) => n \in Nodes /\ n # new[p]
    <2>1. \A n \in Nodes : ~(Has(p, n) /\ Has(q, n))
      BY <1>1 DEF Shares, Tasks
    <2> QED
      BY <1>5, <2>1 DEF Shares
  <1>7. \A x : /\ ~InHand(p, x)' /\ (InHand(p, x) <=> x = h[p])
               /\ InHand(q, x)' <=> InHand(q, x)
    BY <1>1, <1>2, <1>6 DEF InHand, Has
  <1>8. Shares'
    <2>1. \A n \in Nodes : n \in Listed' \/ n \in Free' \/ \E r \in Tasks : Has(r, n)'
      BY <1>1, <1>4, <1>5 DEF Shares
    <2>2. \A n \in Nodes : ~(n \in Listed' /\ n \in Free')
      BY <1>3, <1>4 DEF Shares
    <2>3. \A r \in Tasks : \A n : Has(r, n)' => n \in Nodes /\ n \notin Listed' /\ n \notin Free'
      BY <1>1, <1>4, <1>5, <1>6 DEF Shares
    <2>4. \A n \in Nodes : ~(Has("tcpip", n)' /\ Has("network", n)')
      BY <1>1, <1>5 DEF Tasks
    <2>5. Listed' \in SUBSET Nodes /\ Free' \in SUBSET Nodes
      BY <1>3, <1>4 DEF Shares
    <2> QED
      BY <1>4, <2>1, <2>2, <2>3, <2>4, <2>5 DEF Shares
  <1>9. Hands'
    <2>1. where'["tcpip"] # "unlink"
      BY <1>1, <1>2 DEF Tasks
    <2> QED
      BY <1>1, <1>2, <1>6, <2>1 DEF Hands, Has
  <1>10. h[p] \in Timers /\ "tcpip" \in Tasks /\ "network" \in Tasks
    BY DEF TimersTypeOK, Tasks
  <1>11. ~InHand(q, h[p]) /\ (\A n \in Listed : node[n].h # h[p])
         /\ \A i \in 1..Len(todo) : todo[i] # h[p]
    <2>1. \A x \in Timers : ~(InHand(p, x) /\ InHand(q, x))
      BY <1>1 DEF Single, Tasks
    <2> QED
      BY <1>7, <1>10, <2>1 DEF Single
  <1>12. \A n \in Listed' : (n = new[p] /\ node'[n].h = h[p])
                            \/ (n \in Listed /\ n # new[p] /\ node'[n].h = node[n].h)
    BY <1>3 DEF Shares
  <1>13. Single'
    <2>1. \A m, n \in Listed' : node'[m].h = node'[n].h => m = n
      BY <1>11, <1>12 DEF Single
    <2>2. (\A r \in Tasks : \A n \in Listed : ~InHand(r, node[n].h))'
      BY <1>1, <1>7, <1>11, <1>12 DEF Single
    <2>3. \A x \in Timers : ~(InHand("tcpip", x)' /\ InHand("network", x)')
      BY <1>1, <1>7 DEF Tasks
    <2>4. \A i \in 1..Len(todo) : \A n \in Listed' : node'[n].h # todo[i]
      BY <1>11, <1>12 DEF Single
    <2>5. \A i \in 1..Len(todo) : \A r \in Tasks : ~InHand(r, todo[i])
      BY DEF Single
    <2>6. \A i \in 1..Len(todo) : \A r \in Tasks : \A x : x = todo[i] => ~InHand(r, x)'
      BY <1>1, <1>7, <2>5
    <2> QED
      BY <2>1, <2>2, <2>3, <2>4, <2>6 DEF Single
  <1>14. Present'
    <2> SUFFICES ASSUME NEW x \in Timers
                 PROVE  \/ \E n \in Listed' : node'[n].h = x
                        \/ \E r \in Tasks : InHand(r, x)'
                        \/ \E i \in 1..Len(todo) : todo[i] = x
      BY DEF Present
    <2>1. CASE \E n \in Listed : node[n].h = x
      BY <2>1 DEF Shares
    <2>2. CASE InHand(p, x)
      BY <2>2, <1>3, <1>7
    <2>3. CASE InHand(q, x)
      BY <2>3, <1>7
    <2>4. CASE \E i \in 1..Len(todo) : todo[i] = x
      BY <2>4
    <2> QED
      BY <1>1, <2>1, <2>2, <2>3, <2>4 DEF Present
  <1> QED
    BY <1>2, <1>8, <1>9, <1>13, <1>14

\* The new node comes before the head, which then counts from it, or is the
\* only one.
LEMMA FrontEffect ==
  ASSUME TimersTypeOK, Shares, Hands, NEW p \in Tasks, where[p] = "insert", Insert(p),
         next_timeout = Null \/ node[next_timeout].time > node[new[p]].time
  PROVE  /\ new[p] \in Nodes /\ new[p] \notin Listed
         /\ Listed' = Listed \cup {new[p]} /\ Chain(next_timeout', NextOf', Listed')
         /\ next_timeout' = new[p] /\ Return(p) /\ t' = t
         /\ node' \in [Nodes -> NodeType] /\ node'[new[p]].next = next_timeout
         /\ node'[new[p]].time = node[new[p]].time
         /\ \A m \in Nodes : node'[m].h = node[m].h
         /\ \A m \in Nodes : m # new[p] => node'[m].next = node[m].next
         /\ \A m \in Nodes : m # new[p] /\ m # next_timeout => node'[m].time = node[m].time
         /\ next_timeout # Null => /\ next_timeout \in Listed /\ next_timeout # new[p]
                                   /\ node'[next_timeout].time
                                        = node[next_timeout].time - node[new[p]].time
  <1> DEFINE n == new[p]
             ms == node[n].time
  <1>1. n \in Nodes /\ n \notin Listed /\ ms \in 0..(Word - 1) /\ node \in [Nodes -> NodeType]
    BY DEF Shares, Has, TimersTypeOK, NodeType
  <1>2. /\ next_timeout # Null => next_timeout \in Listed /\ next_timeout \in Nodes
                                   /\ next_timeout # n
        /\ next_timeout = Null => Listed = {}
    <2>1. /\ next_timeout \in Listed \cup {Null}
          /\ (next_timeout = Null <=> Listed = {})
      BY ChainShape DEF Shares
    <2> QED
      BY <1>1, <2>1 DEF Shares
  <1>3. /\ next_timeout' = n /\ Return(p) /\ t' = t
        /\ node' \in [Nodes -> NodeType] /\ node'[n].next = next_timeout
        /\ node'[n].time = ms
        /\ \A m \in Nodes : node'[m].h = node[m].h
        /\ \A m \in Nodes : m # n => node'[m].next = node[m].next
        /\ \A m \in Nodes : m # n /\ m # next_timeout => node'[m].time = node[m].time
        /\ next_timeout # Null => node'[next_timeout].time = node[next_timeout].time - ms
    <2>1. CASE next_timeout = Null
      <3>1. next_timeout' = n /\ Return(p) /\ UNCHANGED <<node, t>>
        BY <2>1 DEF Insert
      <3>2. node[n].next = Null
        BY DEF Hands
      <3> QED
        BY <1>1, <2>1, <3>1, <3>2
    <2>2. CASE next_timeout # Null
      <3>1. /\ node' = [node EXCEPT ![next_timeout].time = Sub(@, ms), ![n].next = next_timeout]
            /\ next_timeout' = n /\ Return(p) /\ t' = t
        BY <2>2 DEF Insert
      <3>2. node[next_timeout] \in NodeType /\ node[n] \in NodeType
        BY <1>1, <1>2, <2>2
      <3>3. /\ Sub(node[next_timeout].time, ms) \in 0..(Word - 1)
            /\ Sub(node[next_timeout].time, ms) = node[next_timeout].time - ms
        <4>1. node[next_timeout].time \in 0..(Word - 1) /\ ms <= node[next_timeout].time
          BY <1>1, <2>2, <3>2, Words DEF NodeType
        <4> QED
          BY <1>1, <4>1, SubType
      <3> HIDE DEF ms
      <3> QED
        BY <1>1, <1>2, <2>2, <3>1, <3>2, <3>3 DEF NodeType, ms
    <2> QED
      BY <2>1, <2>2
  <1> HIDE DEF ms
  <1>4. Listed' = Listed \cup {n} /\ Chain(next_timeout', NextOf', Listed')
    <2>1. NextOf'[n] = next_timeout /\ \A m \in Listed : NextOf'[m] = NextOf[m]
      BY <1>1, <1>3 DEF NextOf, Shares
    <2>2. Chain(n, NextOf', Listed \cup {n})
      BY <1>1, <2>1, ChainPush DEF Shares
    <2> QED
      BY <1>1, <1>3, <2>2, ListedNext DEF Shares
  <1> QED
    BY <1>1, <1>2, <1>3, <1>4 DEF ms

\* The new node comes behind node t[p], and the node behind counts from it.
LEMMA SpliceEffect ==
  ASSUME TimersTypeOK, Shares, Hands, NEW p \in Tasks, where[p] = "walk", Walk(p),
         NEW ms, ms = Sub(node[new[p]].time, node[t[p]].time),
         NEW behind, behind = node[t[p]].next,
         behind = Null \/ node[behind].time > ms
  PROVE  /\ new[p] \in Nodes /\ new[p] \notin Listed /\ t[p] \in Listed /\ t[p] # new[p]
         /\ behind \in Listed \cup {Null} /\ behind # t[p] /\ behind # new[p]
         /\ Listed' = Listed \cup {new[p]} /\ Chain(next_timeout', NextOf', Listed')
         /\ Return(p) /\ t' = t
         /\ node' \in [Nodes -> NodeType] /\ node'[new[p]].next = behind
         /\ node'[t[p]].next = new[p] /\ node'[new[p]].time = ms
         /\ \A m \in Nodes : node'[m].h = node[m].h
         /\ \A m \in Nodes : m \notin {new[p], t[p]} => node'[m].next = node[m].next
         /\ \A m \in Nodes : m \notin {new[p], behind} => node'[m].time = node[m].time
         /\ behind # Null => node'[behind].time = node[behind].time - ms
  <1> DEFINE n == new[p]
             a == t[p]
  <1>1. /\ n \in Nodes /\ n \notin Listed /\ a \in Listed /\ a \in Nodes /\ a # n
        /\ node \in [Nodes -> NodeType] /\ node[n] \in NodeType /\ node[a] \in NodeType
    BY DEF Shares, Has, Hands, TimersTypeOK, NodeType
  <1>2. ms \in 0..(Word - 1)
    BY <1>1, SubType DEF NodeType
  <1>3. behind \in Listed \cup {Null} /\ behind # a /\ behind # n
    <2>1. NextOf[a] = behind
      BY <1>1 DEF NextOf
    <2>2. NextOf[a] \in Listed \cup {Null} /\ NextOf[a] # a
      <3>1. Listed \in SUBSET Nodes /\ Chain(next_timeout, NextOf, Listed)
        BY DEF Shares
      <3>2. \A m \in Listed : NextOf[m] \in Listed \cup {Null} /\ NextOf[m] # m
        BY <3>1, ChainShape
      <3> QED
        BY <1>1, <3>2
    <2> QED
      BY <1>1, <2>1, <2>2, Words
  <1>4. node' = Splice(n, a, ms) /\ Return(p) /\ t' = t /\ next_timeout' = next_timeout
    BY DEF Walk
  <1> DEFINE linked == [node EXCEPT ![n].time = ms, ![n].next = behind, ![a].next = n]
  <1>5. /\ linked \in [Nodes -> NodeType] /\ linked[n].next = behind /\ linked[a].next = n
        /\ linked[n].time = ms
        /\ \A m \in Nodes : linked[m].h = node[m].h
        /\ \A m \in Nodes : m \notin {n, a} => linked[m].next = node[m].next
        /\ \A m \in Nodes : m # n => linked[m].time = node[m].time
    BY <1>1, <1>2, <1>3 DEF NodeType, Shares
  <1>6. /\ node' \in [Nodes -> NodeType] /\ node'[n].next = behind /\ node'[a].next = n
        /\ node'[n].time = ms
        /\ \A m \in Nodes : node'[m].h = node[m].h
        /\ \A m \in Nodes : m \notin {n, a} => node'[m].next = node[m].next
        /\ \A m \in Nodes : m \notin {n, behind} => node'[m].time = node[m].time
        /\ behind # Null => node'[behind].time = node[behind].time - ms
    <2>1. CASE behind = Null
      <3>1. node' = linked
        BY <1>4, <2>1 DEF Splice
      <3> HIDE DEF linked
      <3> QED
        BY <1>5, <2>1, <3>1
    <2>2. CASE behind # Null
      <3>1. node' = [linked EXCEPT ![behind].time = Sub(@, ms)]
        BY <1>4, <2>2 DEF Splice
      <3> HIDE DEF linked
      <3>2. behind \in Nodes /\ linked[behind].time = node[behind].time
            /\ node[behind].time \in 0..(Word - 1) /\ ms <= node[behind].time
        BY <1>1, <1>2, <1>3, <1>5, <2>2, Words DEF Shares, NodeType
      <3>3. /\ Sub(linked[behind].time, ms) \in 0..(Word - 1)
            /\ Sub(linked[behind].time, ms) = node[behind].time - ms
        BY <1>2, <3>2, SubType
      <3>4. /\ node' \in [Nodes -> NodeType] /\ node'[behind].time = Sub(linked[behind].time, ms)
            /\ \A m \in Nodes : node'[m].next = linked[m].next /\ node'[m].h = linked[m].h
            /\ \A m \in Nodes : m # behind => node'[m].time = linked[m].time
        <4>1. linked \in [Nodes -> NodeType]
          BY <1>5
        <4>2. node' = Timed(linked, behind, Sub(linked[behind].time, ms))
          BY <3>1 DEF Timed
        <4> DEFINE ticks == Sub(linked[behind].time, ms)
                   g == Timed(linked, behind, ticks)
        <4>3. ticks \in 0..(Word - 1) /\ behind \in Nodes
          BY <3>2, <3>3
        <4> HIDE DEF ticks
        <4>4. /\ g \in [Nodes -> NodeType] /\ g[behind].time = ticks
              /\ \A m \in Nodes : g[m].next = linked[m].next /\ g[m].h = linked[m].h
              /\ \A m \in Nodes : m # behind => g[m].time = linked[m].time
          BY <4>1, <4>3, TimedIs
        <4> HIDE DEF g
        <4>5. node' = g
          BY <4>2 DEF g, ticks
        <4> QED
          BY <4>4, <4>5 DEF ticks
      <3> QED
        BY <1>1, <1>3, <1>5, <3>2, <3>3, <3>4
    <2> QED
      BY <2>1, <2>2
  <1>7. Listed' = Listed \cup {n} /\ Chain(next_timeout', NextOf', Listed')
    <2>1. /\ NextOf'[a] = n /\ NextOf'[n] = NextOf[a]
          /\ \A m \in Listed \ {a} : NextOf'[m] = NextOf[m]
      BY <1>1, <1>6 DEF NextOf, Shares
    <2>2. Chain(next_timeout, NextOf', Listed \cup {n})
      BY <1>1, <2>1, ChainSplice DEF Shares
    <2>3. Chain(next_timeout', NextOf', Listed \cup {n})
      BY <1>4, <2>2
    <2> QED
      BY <1>1, <2>3, ListedNext DEF Shares
  <1> HIDE DEF linked
  <1> QED
    BY <1>1, <1>3, <1>4, <1>6, <1>7

\* The node goes to the front of the list, or the walk begins.
LEMMA InsertStep ==
  ASSUME TimersInv, NEW p \in Tasks, Insert(p)
  PROVE  TimersInv'
  <1>1. ~torn /\ ~torn' /\ where[p] = "insert" /\ Runs(p)
    BY DEF Insert, At, Runs, hist
  <1>2. TimersTypeOK /\ Clocks /\ Control /\ Shares /\ Hands /\ Single /\ Present
    BY <1>1 DEF TimersInv, Whole
  <1>3. PICK q \in Tasks : /\ q # p /\ Tasks = {p, q}
                           /\ where[q] \notin {"unlink", "insert", "walk"}
    BY <1>1, <1>2, Other
  <1>4. UNCHANGED pool /\ UNCHANGED <<todo, h, tmp, new>>
    BY DEF Insert
  <1>5. Clocks'
    BY <1>2 DEF Insert, Clocks, wait, hist
  <1>6. CASE next_timeout = Null \/ node[next_timeout].time > node[new[p]].time
    <2>1. /\ new[p] \in Nodes /\ next_timeout' = new[p] /\ Return(p) /\ t' = t
          /\ Listed' = Listed \cup {new[p]} /\ Chain(next_timeout', NextOf', Listed')
          /\ node' \in [Nodes -> NodeType] /\ \A m \in Nodes : node'[m].h = node[m].h
      BY <1>1, <1>2, <1>6, FrontEffect
    <2>2. Control' /\ Shares' /\ Hands' /\ Single' /\ Present' /\ where' \in [Tasks -> Points]
      BY <1>1, <1>2, <1>4, <2>1, Linked
    <2>3. TimersTypeOK'
      BY <1>2, <2>1, <2>2 DEF Insert, TimersTypeOK, pool, wait, hist, Points, NodeType
    <2> QED
      BY <1>5, <2>2, <2>3 DEF TimersInv, Whole
  <1>7. CASE next_timeout # Null /\ ~(node[next_timeout].time > node[new[p]].time)
    <2>1. t' = [t EXCEPT ![p] = next_timeout] /\ Goto(p, "walk") /\ UNCHANGED list
      BY <1>7 DEF Insert
    <2>2. /\ where' \in [Tasks -> Points] /\ where'[p] = "walk" /\ where'[q] = where[q]
          /\ Control'
      BY <1>1, <1>2, <1>3, <1>4, <2>1, MovesOn
    <2>3. t' \in [Tasks -> Nodes \cup {Null}] /\ t'[p] = next_timeout /\ t'[q] = t[q]
      BY <1>2, <1>3, <2>1 DEF TimersTypeOK
    <2>4. Listed' = Listed /\ Chain(next_timeout', NextOf', Listed')
      BY <1>2, <2>1, ListKept DEF list
    <2>5. Free' = Free /\ Chain(memp_tab', memp_next', Free')
      BY <1>2, <1>4, PoolKept DEF pool
    <2>6. \A m : \A r \in Tasks : Has(r, m)' <=> Has(r, m)
      BY <1>1, <1>3, <1>4, <2>2 DEF Has
    <2>7. node' = node /\ next_timeout \in Listed
      BY <1>2, <1>7, <2>1, ChainShape DEF list, Shares
    <2>8. \A x : \A r \in Tasks : InHand(r, x)' <=> InHand(r, x)
      BY <1>1, <1>3, <1>4, <2>2, <2>7 DEF InHand
    <2>9. Shares'
      BY <1>2, <2>4, <2>5, <2>6 DEF Shares, Tasks
    <2>10. Hands'
      <3>1. where'["tcpip"] # "unlink"
        BY <1>3, <2>2 DEF Tasks
      <3> QED
        BY <1>1, <1>2, <1>3, <1>4, <2>2, <2>3, <2>4, <2>7, <3>1 DEF Hands
    <2>11. Single' /\ Present'
      BY <1>2, <1>4, <2>4, <2>7, <2>8 DEF Single, Present, Tasks
    <2>12. TimersTypeOK'
      BY <1>2, <2>1, <2>2, <2>3 DEF Insert, TimersTypeOK, list, pool, wait, hist, Points
    <2> QED
      BY <1>5, <2>2, <2>9, <2>10, <2>11, <2>12 DEF TimersInv, Whole
  <1> QED
    BY <1>6, <1>7

\* The node goes behind one of the list, or the walk goes on.
LEMMA WalkStep ==
  ASSUME TimersInv, NEW p \in Tasks, Walk(p)
  PROVE  TimersInv'
  <1>1. ~torn /\ ~torn' /\ where[p] = "walk" /\ Runs(p)
    BY DEF Walk, At, Runs, hist
  <1>2. TimersTypeOK /\ Clocks /\ Control /\ Shares /\ Hands /\ Single /\ Present
    BY <1>1 DEF TimersInv, Whole
  <1>3. PICK q \in Tasks : /\ q # p /\ Tasks = {p, q}
                           /\ where[q] \notin {"unlink", "insert", "walk"}
    BY <1>1, <1>2, Other
  <1>4. UNCHANGED pool /\ UNCHANGED <<todo, h, tmp, new, next_timeout>>
    BY DEF Walk
  <1>w. /\ UNCHANGED <<next_timeout, memp_tab, memp_next, todo, h, tmp, new>>
        /\ UNCHANGED <<left, waited, msgs, lag, diff, due, torn>>
    BY DEF Walk, pool, wait, hist
  <1>5. Clocks'
    BY <1>2, <1>w DEF Clocks
  <1> DEFINE n == new[p]
             a == t[p]
             ms == Sub(node[n].time, node[a].time)
             behind == node[a].next
  <1>6. /\ n \in Nodes /\ n \notin Listed /\ a \in Listed /\ a \in Nodes /\ a # n
        /\ node[n] \in NodeType /\ node[a] \in NodeType
    BY <1>1, <1>2 DEF Shares, Has, Hands, TimersTypeOK, NodeType
  <1>7. ms \in 0..(Word - 1)
    BY <1>6, SubType DEF NodeType
  <1>8. behind \in Listed \cup {Null} /\ behind # a /\ behind # n
    <2>1. NextOf[a] = behind
      BY <1>6 DEF NextOf
    <2>2. NextOf[a] \in Listed \cup {Null} /\ NextOf[a] # a
      <3>1. Listed \in SUBSET Nodes /\ Chain(next_timeout, NextOf, Listed)
        BY <1>2 DEF Shares
      <3>2. \A m \in Listed : NextOf[m] \in Listed \cup {Null} /\ NextOf[m] # m
        BY <3>1, ChainShape
      <3> QED
        BY <1>6, <3>2
    <2> QED
      BY <1>6, <2>1, <2>2, Words
  <1>9. CASE behind = Null \/ node[behind].time > ms
    <2>1. /\ Return(p) /\ t' = t
          /\ Listed' = Listed \cup {new[p]} /\ Chain(next_timeout', NextOf', Listed')
          /\ node' \in [Nodes -> NodeType] /\ \A m \in Nodes : node'[m].h = node[m].h
      BY <1>1, <1>2, <1>9, SpliceEffect
    <2>2. Control' /\ Shares' /\ Hands' /\ Single' /\ Present' /\ where' \in [Tasks -> Points]
      BY <1>1, <1>2, <1>4, <2>1, Linked
    <2>3. TimersTypeOK'
      <3> HIDE DEF n, a, ms, behind
      <3> QED
        BY <1>2, <1>w, <2>1, <2>2 DEF TimersTypeOK, Points, NodeType
    <2> QED
      BY <1>5, <2>2, <2>3 DEF TimersInv, Whole
  <1>10. CASE ~(behind = Null \/ node[behind].time > ms)
    <2>1. /\ node' = [node EXCEPT ![n].time = ms] /\ t' = [t EXCEPT ![p] = behind]
          /\ where' = where
      BY <1>10 DEF Walk
    <2>2. /\ node' \in [Nodes -> NodeType]
          /\ \A m \in Nodes : node'[m].h = node[m].h /\ node'[m].next = node[m].next
      BY <1>2, <1>6, <1>7, <2>1 DEF TimersTypeOK, NodeType
    <2>3. behind \in Listed /\ t' \in [Tasks -> Nodes \cup {Null}] /\ t'[p] = behind
          /\ t'[q] = t[q]
      BY <1>2, <1>3, <1>8, <1>10, <2>1 DEF TimersTypeOK, Shares
    <2>4. Listed' = Listed /\ Chain(next_timeout', NextOf', Listed')
      BY <1>2, <1>4, <2>2, ListKept DEF Shares
    <2>5. Free' = Free /\ Chain(memp_tab', memp_next', Free')
      BY <1>2, <1>4, PoolKept DEF pool
    <2>6. \A m : \A r \in Tasks : Has(r, m)' <=> Has(r, m)
      BY <1>4, <2>1 DEF Has
    <2>7. \A x : \A r \in Tasks : InHand(r, x)' <=> InHand(r, x)
      <3>1. \A r \in Tasks : where[r] = "take" => tmp[r] \in Nodes
        BY <1>2 DEF Shares, Has
      <3> QED
        BY <1>4, <2>1, <2>2, <3>1 DEF InHand
    <2>8. Shares'
      BY <1>2, <2>4, <2>5, <2>6 DEF Shares, Tasks
    <2>9. Hands'
      <3>1. where'["tcpip"] # "unlink"
        BY <1>1, <1>3, <2>1 DEF Tasks
      <3>2. \A r \in Tasks : \A m : Has(r, m) => m \in Nodes
        BY <1>2 DEF Shares
      <3> QED
        BY <1>1, <1>2, <1>3, <1>4, <2>1, <2>2, <2>3, <2>4, <3>1, <3>2 DEF Hands, Has
    <2>10. Single' /\ Present'
      BY <1>2, <1>4, <2>2, <2>4, <2>7 DEF Single, Present, Tasks, Shares
    <2>11. Control'
      BY <1>2, <1>4, <2>1 DEF Control, Changing
    <2>12. TimersTypeOK'
      <3> HIDE DEF n, a, ms, behind
      <3>1. /\ left' \in 0..(Word - 1) /\ waited' \in 0..(Word - 1) /\ lag' \in 0..(Word - 1)
            /\ diff' \in 0..(Word - 1) /\ msgs' \in 0..MaxMsgs
            /\ due' \in [Timers -> Int] /\ torn' \in BOOLEAN
        BY <1>2, <1>w DEF TimersTypeOK
      <3>2. where' \in [Tasks -> Points] /\ {tmp', new', t'} \subseteq [Tasks -> Nodes \cup {Null}]
        <4>1. where' \in [Tasks -> Points] /\ {tmp, new, t} \subseteq [Tasks -> Nodes \cup {Null}]
          BY <1>2, <2>1 DEF TimersTypeOK, Points
        <4> QED
          BY <1>w, <2>3, <4>1
      <3>3. /\ next_timeout' \in Nodes \cup {Null} /\ memp_tab' \in Nodes \cup {Null}
            /\ memp_next' \in [Nodes -> Nodes \cup {Null}]
            /\ todo' \in Seq(Timers) /\ h' \in [Tasks -> Timers]
        BY <1>2, <1>w DEF TimersTypeOK
      <3> QED
        BY <2>2, <3>1, <3>2, <3>3 DEF TimersTypeOK, Points, NodeType
    <2> QED
      BY <1>5, <2>8, <2>9, <2>10, <2>11, <2>12 DEF TimersInv, Whole
  <1> QED
    BY <1>9, <1>10

-----------------------------------------------------------------------------
(* The list keeps its timers.                                              *)

\* The order of memp_init.
FirstOrder == CHOOSE s \in [1..Cardinality(Nodes) -> Nodes] :
                \A n \in Nodes : \E i \in DOMAIN s : s[i] = n

\* That order has every node once.
LEMMA FirstOrderEnumerates ==
  /\ N \in Nat \ {0} /\ Enumerates(FirstOrder, N, Nodes) /\ Len(FirstOrder) = N
  /\ DOMAIN FirstOrder = 1..N
  <1>1. N \in Nat /\ Cardinality(Timers) \in Nat /\ IsFiniteSet(Timers) /\ Timers # {}
        /\ IsFiniteSet(Nodes) /\ Cardinality(Timers) <= N
    BY TimersAssumption, NodesCount, FS_CardinalityType DEF N
  <1>2. Cardinality(Timers) # 0
    BY <1>1, FS_EmptySet
  <1>3. N \in Nat \ {0}
    BY <1>1, <1>2
  <1>4. ExistsBijection(1..N, Nodes)
    BY <1>1, FS_CardinalityType DEF N
  <1>5. \E s \in [1..N -> Nodes] : \A n \in Nodes : \E i \in DOMAIN s : s[i] = n
    BY <1>4 DEF ExistsBijection, Bijection, Surjection
  <1>6. FirstOrder \in [1..N -> Nodes] /\ \A n \in Nodes : \E i \in DOMAIN FirstOrder : FirstOrder[i] = n
    BY <1>5 DEF FirstOrder, N
  <1>7. FirstOrder \in Surjection(1..N, Nodes)
    BY <1>6 DEF Surjection
  <1>8. IsFiniteSet(1..N) /\ Cardinality(1..N) = N
    BY <1>3, FS_Interval
  <1>9. FirstOrder \in Injection(1..N, Nodes)
    BY <1>7, <1>8, FS_SurjSameCardinalityImpliesInj DEF N
  <1>10. Enumerates(FirstOrder, N, Nodes)
    BY <1>6, <1>9 DEF Enumerates, Injection, IsInjective
  <1>11. Len(FirstOrder) = N
    BY <1>1, <1>6
  <1> QED
    BY <1>3, <1>6, <1>10, <1>11

\* The pool of memp_init is a list of all nodes.
LEMMA FirstPool ==
  ASSUME PoolOf(FirstOrder)
  PROVE  /\ Chain(memp_tab, memp_next, Nodes)
         /\ memp_tab \in Nodes /\ memp_next \in [Nodes -> Nodes \cup {Null}]
  <1>1. /\ N \in Nat \ {0} /\ Enumerates(FirstOrder, N, Nodes) /\ Len(FirstOrder) = N
        /\ DOMAIN FirstOrder = 1..N
    BY FirstOrderEnumerates
  <1> DEFINE ix(n) == CHOOSE i \in 1..N : FirstOrder[i] = n
  <1>2. /\ memp_tab = FirstOrder[1]
        /\ memp_next = [n \in Nodes |-> IF ix(n) = N THEN Null ELSE FirstOrder[ix(n) + 1]]
    BY <1>1 DEF PoolOf
  <1>3. \A n \in Nodes : ix(n) \in 1..N /\ FirstOrder[ix(n)] = n
    BY <1>1 DEF Enumerates
  <1>4. \A i \in 1..N : ix(FirstOrder[i]) = i /\ FirstOrder[i] \in Nodes
    BY <1>1, <1>3 DEF Enumerates
  <1> HIDE DEF ix
  <1>5. \A i \in 1..N : memp_next[FirstOrder[i]] = IF i = N THEN Null ELSE FirstOrder[i + 1]
    BY <1>2, <1>4
  <1>6. LinksAs(FirstOrder, N, memp_tab, memp_next)
    BY <1>1, <1>2, <1>5 DEF LinksAs
  <1>7. Chain(memp_tab, memp_next, Nodes)
    BY <1>1, <1>6, ChainIntro
  <1>8. memp_next \in [Nodes -> Nodes \cup {Null}]
    BY <1>1, <1>2, <1>3, <1>4
  <1> QED
    BY <1>1, <1>2, <1>4, <1>7, <1>8

\* The invariant holds when the first timer is to be set.
LEMMA TimersInitInv ==
  ASSUME TimersInit
  PROVE  TimersInv
  <1>1. PoolOf(FirstOrder)
    BY DEF TimersInit, FirstOrder
  <1>2. InitOrder \in Seq(Timers) /\ Len(InitOrder) \in Nat /\ 1 \in 1..Len(InitOrder)
        /\ InitOrder[1] \in Timers
    <2>1. PICK x \in Timers : TRUE
      BY TimersAssumption
    <2>2. PICK i \in 1..Len(InitOrder) : InitOrder[i] = x
      BY TimersAssumption
    <2>3. InitOrder \in Seq(Timers) /\ Len(InitOrder) \in Nat
      BY TimersAssumption
    <2>4. 1 \in 1..Len(InitOrder)
      BY <2>2, <2>3
    <2> QED
      BY <2>3, <2>4
  <1>3. /\ Chain(memp_tab, memp_next, Nodes)
        /\ memp_tab \in Nodes /\ memp_next \in [Nodes -> Nodes \cup {Null}]
    BY <1>1, FirstPool
  <1>4. Free = Nodes
    BY <1>3, FreeIs
  <1>5. Chain(next_timeout, NextOf, {})
    BY ChainEmpty DEF TimersInit
  <1>6. Listed = {}
    BY <1>5, ListedIs
  <1>7. where["network"] = "init" /\ where["tcpip"] = "off" /\ where \in [Tasks -> Points]
    BY DEF TimersInit, Tasks, Points
  <1>8. \A p \in Tasks : \A n : ~Has(p, n) /\ ~InHand(p, n)
    BY <1>7 DEF Has, InHand, Tasks
  <1>9. Shares
    BY <1>3, <1>4, <1>5, <1>6, <1>8 DEF Shares, Tasks
  <1>10. Hands
    BY <1>7 DEF Hands, Tasks
  <1>11. Single /\ Present
    BY <1>6, <1>8, TimersAssumption DEF Single, Present, TimersInit, Tasks
  <1>12. Control
    BY <1>7 DEF Control, Changing
  <1>13. Clocks
    BY Words, TimersAssumption DEF Clocks, TimersInit
  <1>14. node \in [Nodes -> NodeType]
    <2>1. [next |-> Null, h |-> InitOrder[1], time |-> 0] \in NodeType
      BY <1>2, Words DEF NodeType
    <2> QED
      BY <2>1 DEF TimersInit
  <1>15. /\ h \in [Tasks -> Timers] /\ {tmp, new, t} \subseteq [Tasks -> Nodes \cup {Null}]
    BY <1>2 DEF TimersInit
  <1>16. due \in [Timers -> Int]
    BY Words, TimersAssumption DEF TimersInit
  <1>17. TimersTypeOK
    <2>1. /\ next_timeout = Null /\ todo = InitOrder /\ left = 0 /\ waited = 0 /\ msgs = 0
          /\ lag = 0 /\ diff = 0 /\ torn = FALSE
      BY DEF TimersInit
    <2>2. 0 \in 0..(Word - 1) /\ 0 \in 0..MaxMsgs
      BY Words
    <2>3. /\ left \in 0..(Word - 1) /\ waited \in 0..(Word - 1) /\ lag \in 0..(Word - 1)
          /\ diff \in 0..(Word - 1) /\ msgs \in 0..MaxMsgs
      BY <2>1, <2>2
    <2>4. todo \in Seq(Timers)
      BY <1>2, <2>1
    <2>5. next_timeout \in Nodes \cup {Null} /\ memp_tab \in Nodes \cup {Null}
      BY <1>3, <2>1
    <2> QED
      BY <1>3, <1>7, <1>14, <1>15, <1>16, <2>1, <2>3, <2>4, <2>5
         DEF TimersTypeOK, NodeType, Points
  <1> QED
    BY <1>9, <1>10, <1>11, <1>12, <1>13, <1>17 DEF TimersInv, Whole

\* A stuttering step keeps it.
LEMMA StutterInv ==
  ASSUME TimersInv, UNCHANGED timersvars
  PROVE  TimersInv'
  <1> USE DEF timersvars, list, pool, wait, hist
  <1>1. TimersTypeOK' /\ Clocks' /\ torn' = torn
    BY DEF TimersInv, TimersTypeOK, Clocks
  <1>2. CASE torn
    BY <1>1, <1>2 DEF TimersInv
  <1>3. CASE ~torn
    <2>1. TimersTypeOK /\ Control /\ Shares /\ Hands /\ Single /\ Present
      BY <1>3 DEF TimersInv, Whole
    <2>2. Shares' /\ Hands' /\ Single' /\ Present'
      BY <2>1, Quiet
    <2>3. Control'
      BY <2>1 DEF Control, Changing
    <2> QED
      BY <1>1, <2>2, <2>3 DEF TimersInv, Whole
  <1> QED
    BY <1>2, <1>3

\* Every step keeps it.
LEMMA StepInv ==
  ASSUME TimersInv, [TimersNext]_timersvars
  PROVE  TimersInv'
  <1>1. "tcpip" \in Tasks /\ "network" \in Tasks
    BY DEF Tasks
  <1>2. ASSUME NEW p \in Tasks, SysTimeout(p) PROVE TimersInv'
    BY <1>2, MallocStep, InsertStep, WalkStep DEF SysTimeout
  <1>3. CASE TcpipThread
    BY <1>1, <1>2, <1>3, AgainStep, TimeoutStep, PopStep, UnlinkStep, TakeStep, CallStep
       DEF TcpipThread
  <1>4. CASE NetworkTask
    BY <1>1, <1>2, <1>4, InitTimerStep, PollStep, PollTestStep, CallStep DEF NetworkTask
  <1> QED
    BY <1>3, <1>4, MessageStep, TickStep, StutterInv DEF TimersNext

\* Held, node by node.
LEMMA HeldIs ==
  ASSUME NEW p \in Tasks
  PROVE  /\ where[p] \in {"take", "free"} => Held(p) = {tmp[p]}
         /\ where[p] \in {"insert", "walk"} => Held(p) = {new[p]}
         /\ where[p] \notin {"take", "free", "insert", "walk"} => Held(p) = {}
  <1>1. CASE where[p] \in {"take", "free"}
    BY <1>1 DEF Held
  <1>2. CASE where[p] \in {"insert", "walk"}
    BY <1>2 DEF Held
  <1>3. CASE where[p] \notin {"take", "free", "insert", "walk"}
    BY <1>3 DEF Held
  <1> QED
    BY <1>1, <1>2, <1>3

\* The nodes that are held, by either reading.
LEMMA HeldHas ==
  ASSUME NEW p \in Tasks
  PROVE  /\ \A n : n \in Held(p) <=> Has(p, n)
         /\ IsFiniteSet(Held(p))
  <1>1. \A n : n \in Held(p) <=> Has(p, n)
    BY HeldIs DEF Has
  <1>2. Held(p) = {} \/ \E n : Held(p) = {n}
    BY HeldIs
  <1>3. IsFiniteSet(Held(p))
    BY <1>2, FS_Singleton, FS_EmptySet
  <1> QED
    BY <1>1, <1>3

\* The count of four sets that have no node in common.
LEMMA DisjointCount ==
  ASSUME NEW A, NEW B, IsFiniteSet(A), IsFiniteSet(B), A \cap B = {}
  PROVE  /\ IsFiniteSet(A \cup B)
         /\ Cardinality(A \cup B) = Cardinality(A) + Cardinality(B)
  <1>1. Cardinality(A) \in Nat /\ Cardinality(B) \in Nat /\ Cardinality(A \cap B) = 0
    BY FS_CardinalityType, FS_EmptySet
  <1>2. /\ IsFiniteSet(A \cup B)
        /\ Cardinality(A \cup B) = Cardinality(A) + Cardinality(B) - Cardinality(A \cap B)
    BY FS_Union
  <1> QED
    BY <1>1, <1>2

\* The nodes are shared out: PoolIntact.
LEMMA SharesCount ==
  ASSUME Shares
  PROVE  PoolIntact
  <1>1. "tcpip" \in Tasks /\ "network" \in Tasks /\ \A p \in Tasks : p \in {"tcpip", "network"}
    BY DEF Tasks
  <1> DEFINE A == Listed
             B == Free
             C == Held("tcpip")
             D == Held("network")
  <1>2. /\ \A n : (n \in C <=> Has("tcpip", n)) /\ (n \in D <=> Has("network", n))
        /\ IsFiniteSet(C) /\ IsFiniteSet(D)
    BY <1>1, HeldHas
  <1>3. A \cup B \cup C \cup D = Nodes
    BY <1>1, <1>2 DEF Shares
  <1>4. A \cap B = {} /\ (A \cup B) \cap C = {} /\ (A \cup B \cup C) \cap D = {}
    BY <1>1, <1>2 DEF Shares
  <1>5. IsFiniteSet(A) /\ IsFiniteSet(B)
    <2>1. IsFiniteSet(Nodes)
      BY TimersAssumption
    <2> QED
      BY <2>1, FS_Subset DEF Shares
  <1> HIDE DEF A, B, C, D
  <1>6. IsFiniteSet(A \cup B) /\ Cardinality(A \cup B) = Cardinality(A) + Cardinality(B)
    BY <1>4, <1>5, DisjointCount
  <1>7. /\ IsFiniteSet(A \cup B \cup C)
        /\ Cardinality(A \cup B \cup C) = Cardinality(A \cup B) + Cardinality(C)
    BY <1>2, <1>4, <1>6, DisjointCount
  <1>8. Cardinality(A \cup B \cup C \cup D) = Cardinality(A \cup B \cup C) + Cardinality(D)
    BY <1>2, <1>4, <1>7, DisjointCount
  <1>9. Cardinality(A) + Cardinality(B) + Cardinality(C) + Cardinality(D) = Cardinality(Nodes)
    BY <1>3, <1>6, <1>7, <1>8
  <1> QED
    BY <1>3, <1>9 DEF PoolIntact, A, B, C, D

\* A timer is in one place: EveryTimerScheduled.
LEMMA OnePlace ==
  ASSUME TimersTypeOK, Shares, Single, Present
  PROVE  EveryTimerScheduled
  <1> SUFFICES ASSUME NEW x \in Timers
               PROVE  Cardinality({n \in Listed : node[n].h = x})
                        + Cardinality({p \in Tasks : InHand(p, x)})
                        + Cardinality({i \in DOMAIN todo : todo[i] = x}) = 1
    BY DEF EveryTimerScheduled
  <1> DEFINE A == {n \in Listed : node[n].h = x}
             B == {p \in Tasks : InHand(p, x)}
             C == {i \in DOMAIN todo : todo[i] = x}
  <1>1. DOMAIN todo = 1..Len(todo)
    BY DEF TimersTypeOK
  <1>2. \A m, n \in A : m = n
    BY DEF Single
  <1>3. \A p, q \in B : p = q
    BY DEF Single, Tasks
  <1>4. \A i, j \in C : i = j
    BY <1>1 DEF Single
  <1>5. (A = {} \/ B = {}) /\ (A = {} \/ C = {}) /\ (B = {} \/ C = {})
    BY <1>1 DEF Single
  <1>6. A # {} \/ B # {} \/ C # {}
    BY <1>1 DEF Present
  <1> SUFFICES Cardinality(A) + Cardinality(B) + Cardinality(C) = 1
    OBVIOUS
  <1> HIDE DEF A, B, C
  <1>7. Cardinality({}) = 0
    BY FS_EmptySet
  <1>8. CASE A # {}
    <2>1. \E a : A = {a}
      BY <1>2, <1>8
    <2>2. Cardinality(A) = 1
      BY <2>1, FS_Singleton
    <2> QED
      BY <1>5, <1>7, <1>8, <2>2
  <1>9. CASE B # {}
    <2>1. \E a : B = {a}
      BY <1>3, <1>9
    <2>2. Cardinality(B) = 1
      BY <2>1, FS_Singleton
    <2> QED
      BY <1>5, <1>7, <1>9, <2>2
  <1>10. CASE C # {}
    <2>1. \E a : C = {a}
      BY <1>4, <1>10
    <2>2. Cardinality(C) = 1
      BY <2>1, FS_Singleton
    <2> QED
      BY <1>5, <1>7, <1>10, <2>2
  <1> QED
    BY <1>6, <1>8, <1>9, <1>10

\* No cyclic timer is lost or set twice, no node of MEMP_SYS_TIMEOUT leaks or is
\* freed twice, with any of the tasks serving the list, as long as the poll does
\* not begin between the look of the tcpip thread at the list and its change.
THEOREM ListKeepsTimers == TimersSpec => []ListIntact
  <1>1. TimersInit => TimersInv
    BY TimersInitInv
  <1>2. TimersInv /\ [TimersNext]_timersvars => TimersInv'
    BY StepInv
  <1>3. TimersInv => ListIntact
    BY SharesCount, OnePlace DEF TimersInv, Whole, ListIntact
  <1> QED
    BY <1>1, <1>2, <1>3, PTL DEF TimersSpec

-----------------------------------------------------------------------------
(* The times of the list: when its nodes expire, from the moment it counts from.*)

\* Node n expires at[n] ticks after the moment the list counts from.
Deltas(at) ==
  /\ next_timeout # Null => node[next_timeout].time = at[next_timeout]
  /\ \A m \in Listed : node[m].next # Null =>
       node[node[m].next].time = at[node[m].next] - at[m]

\* For the poll, which takes that moment for timeouts_last_time, a timer that
\* expires after so many ticks is not late.
Agrees(ticks, x) == ticks - lag <= due[x]

\* The same for a timer that task p is setting.
HandAgrees(p, at) ==
  /\ where[p] = "insert" => Agrees(node[new[p]].time, h[p])
  /\ where[p] = "walk" =>
       /\ node[t[p]].time <= node[new[p]].time
       /\ Agrees(node[new[p]].time + at[t[p]] - node[t[p]].time, h[p])

\* The list, and what the tasks have in hand, agree with what is due.
Times(at) ==
  /\ Deltas(at)
  /\ \A n \in Listed : Agrees(at[n], node[n].h)
  /\ \A p \in Tasks : HandAgrees(p, at)

\* The inductive invariant behind NeverLate.
TimesInv == torn \/ \E at \in [Nodes -> Int] : Times(at)

\* ChainShape, of the timeout list.
LEMMA ListShape ==
  ASSUME Shares
  PROVE  /\ next_timeout \in Listed \cup {Null} /\ (next_timeout = Null <=> Listed = {})
         /\ \A m \in Listed : /\ node[m].next \in Listed \cup {Null}
                              /\ node[m].next # next_timeout /\ node[m].next # m
         /\ \A m, n \in Listed : node[m].next = node[n].next /\ node[m].next # Null => m = n
  <1>1. Listed \in SUBSET Nodes /\ Chain(next_timeout, NextOf, Listed)
    BY DEF Shares
  <1>2. /\ next_timeout \in Listed \cup {Null} /\ (next_timeout = Null <=> Listed = {})
        /\ \A m \in Listed : NextOf[m] \in Listed \cup {Null} /\ NextOf[m] # next_timeout
                              /\ NextOf[m] # m
        /\ \A m, n \in Listed : NextOf[m] = NextOf[n] /\ NextOf[m] # Null => m = n
    BY <1>1, ChainShape
  <1>3. \A m \in Listed : NextOf[m] = node[m].next
    BY <1>1 DEF NextOf
  <1> QED
    BY <1>2, <1>3

-----------------------------------------------------------------------------
(* The steps that leave the times alone.                                   *)

\* What a step starts from.
LEMMA Unfold ==
  ASSUME TimersInv, TimesInv, ~torn
  PROVE  /\ TimersTypeOK /\ Clocks /\ Control /\ Shares /\ Hands /\ Single
         /\ \E at \in [Nodes -> Int] : Times(at)
         /\ \A n \in Nodes : node[n].time \in Nat /\ node[n].h \in Timers
         /\ lag \in Nat /\ waited \in Nat /\ left \in Nat /\ diff \in Nat
         /\ \A x \in Timers : due[x] \in Int
  <1>1. \E at \in [Nodes -> Int] : Times(at)
    BY DEF TimesInv
  <1>2. TimersTypeOK /\ Clocks /\ Control /\ Shares /\ Hands /\ Single
    BY DEF TimersInv, Whole
  <1>3. /\ \A n \in Nodes : node[n].time \in Nat /\ node[n].h \in Timers
        /\ lag \in Nat /\ waited \in Nat /\ left \in Nat /\ diff \in Nat
        /\ \A x \in Timers : due[x] \in Int
    BY <1>2, Words DEF TimersTypeOK
  <1> QED
    BY <1>1, <1>2, <1>3

\* Without a change of the clocks, what agreed agrees.
LEMMA SameClock ==
  ASSUME UNCHANGED <<lag, due>>
  PROVE  \A ticks, x : Agrees(ticks, x)' <=> Agrees(ticks, x)
  BY DEF Agrees

\* A step that leaves the list and the clocks alone.
LEMMA SameTimes ==
  ASSUME NEW at, Times(at), Shares, UNCHANGED <<lag, due>>,
         next_timeout' = next_timeout, Listed' = Listed,
         \A n \in Listed : node'[n] = node[n],
         \A p \in Tasks : HandAgrees(p, at)'
  PROVE  Times(at)'
  <1>1. \A ticks, x : Agrees(ticks, x)' <=> Agrees(ticks, x)
    BY SameClock
  <1>2. /\ next_timeout \in Listed \cup {Null}
        /\ \A m \in Listed : node[m].next \in Listed \cup {Null}
    BY ListShape
  <1>3. Deltas(at)'
    BY <1>2 DEF Times, Deltas
  <1>4. (\A n \in Listed : Agrees(at[n], node[n].h))'
    BY <1>1 DEF Times
  <1> QED
    BY <1>3, <1>4 DEF Times

\* A task that sets no timer.
LEMMA EmptyHandNext ==
  ASSUME NEW p, NEW at, where'[p] \notin {"insert", "walk"}
  PROVE  HandAgrees(p, at)'
  BY DEF HandAgrees

\* A step that leaves the list and the clocks alone, and no timer half set.
LEMMA Still ==
  ASSUME TimersInv, TimesInv, ~torn, UNCHANGED list, UNCHANGED <<lag, due>>,
         \A p \in Tasks : where'[p] \notin {"insert", "walk"}
  PROVE  TimesInv'
  <1>1. Shares /\ \E at \in [Nodes -> Int] : Times(at)
    BY Unfold
  <1>2. PICK at \in [Nodes -> Int] : Times(at)
    BY <1>1
  <1>3. next_timeout' = next_timeout /\ node' = node /\ Listed' = Listed
    BY <1>1, ListKept DEF list
  <1>4. \A p \in Tasks : HandAgrees(p, at)'
    BY EmptyHandNext
  <1>5. Times(at)'
    BY <1>1, <1>2, <1>3, <1>4, SameTimes
  <1> QED
    BY <1>5 DEF TimesInv

\* The thread looks at the list, waits and takes its node in hand.
LEMMA ThreadTimes ==
  ASSUME TimersInv, TimesInv, Again \/ Timeout \/ Pop \/ Take
  PROVE  TimesInv'
  <1>1. ~torn /\ where["network"] = "idle" /\ UNCHANGED list /\ UNCHANGED <<lag, due>>
    BY DEF Again, Timeout, Pop, Take, At, Runs, hist
  <1>2. where \in [Tasks -> Points]
    BY DEF TimersInv, TimersTypeOK, Points
  <1>3. \E there \in {"forever", "wait", "pop", "unlink", "free"} : Goto("tcpip", there)
    BY DEF Again, Timeout, Pop, Take
  <1>4. \A p \in Tasks : where'[p] \notin {"insert", "walk"}
    BY <1>1, <1>2, <1>3 DEF Goto, Tasks
  <1> QED
    BY <1>1, <1>4, Still

\* The poll begins with the list as it is, or meets a half-made change.
LEMMA PollTimes ==
  ASSUME TimersInv, TimesInv, PollTimeouts
  PROVE  TimesInv'
  <1>1. ~torn /\ torn' = Changing /\ UNCHANGED list /\ UNCHANGED <<lag, due>>
    BY DEF PollTimeouts, At, Runs
  <1>2. where \in [Tasks -> Points]
    BY DEF TimersInv, TimersTypeOK, Points
  <1>3. where'["network"] = "test" /\ where'["tcpip"] = where["tcpip"]
    BY <1>2 DEF PollTimeouts, Goto, Tasks
  <1>4. CASE Changing
    BY <1>1, <1>4 DEF TimesInv
  <1>5. CASE ~Changing
    <2>1. \A p \in Tasks : where'[p] \notin {"insert", "walk"}
      BY <1>3, <1>5 DEF Changing, Tasks
    <2> QED
      BY <1>1, <2>1, Still
  <1> QED
    BY <1>4, <1>5

\* sys_timeouts_init goes on to its next timer.
LEMMA InitTimerTimes ==
  ASSUME TimersInv, TimesInv, InitTimer
  PROVE  TimesInv'
  <1>1. ~torn /\ where["network"] = "init" /\ UNCHANGED list /\ UNCHANGED <<lag, due>>
    BY DEF InitTimer, At, Runs, hist
  <1>2. where \in [Tasks -> Points] /\ where["tcpip"] = "off"
    BY <1>1 DEF TimersInv, TimersTypeOK, Whole, Control, Points
  <1>3. \A p \in Tasks : where'[p] \notin {"insert", "walk"}
    BY <1>2 DEF InitTimer, Goto, Tasks
  <1> QED
    BY <1>1, <1>3, Still

\* The handler is called; the timer is not set yet.
LEMMA CallTimes ==
  ASSUME TimersInv, TimesInv, NEW p \in Tasks, Call(p)
  PROVE  TimesInv'
  <1>1. ~torn /\ Runs(p) /\ where[p] = "free" /\ UNCHANGED list /\ UNCHANGED <<lag, due>>
    BY DEF Call, At, Runs, hist
  <1>2. TimersTypeOK /\ Control
    BY <1>1 DEF TimersInv, Whole
  <1>3. PICK q \in Tasks : /\ q # p /\ Tasks = {p, q}
                           /\ where[q] \notin {"unlink", "insert", "walk"}
    BY <1>1, <1>2, Other
  <1>4. where'[p] = "malloc" /\ where'[q] = where[q]
    BY <1>1, <1>2, <1>3, MovesOn DEF Call
  <1>5. \A r \in Tasks : where'[r] \notin {"insert", "walk"}
    BY <1>3, <1>4
  <1> QED
    BY <1>1, <1>5, Still

\* A tick brings every timer closer, and the poll is one tick further behind.
LEMMA TickTimes ==
  ASSUME TimersInv, TimesInv, Tick
  PROVE  TimesInv'
  <1>1. /\ ~torn /\ next_timeout' = next_timeout /\ node' = node /\ lag' = lag + 1
        /\ UNCHANGED <<where, h, tmp, new, t>>
        /\ due' = [x \in Timers |-> MaxOf(due[x] - 1, 0 - MaxLag)]
    BY DEF Tick, list
  <1>2. /\ TimersTypeOK /\ Shares /\ Hands /\ lag \in Nat
        /\ \E at \in [Nodes -> Int] : Times(at)
        /\ \A n \in Nodes : node[n].time \in Nat /\ node[n].h \in Timers
        /\ \A x \in Timers : due[x] \in Int
    BY <1>1, Unfold
  <1>3. PICK at \in [Nodes -> Int] : Times(at)
    BY <1>2
  <1>4. Listed' = Listed /\ Listed \subseteq Nodes
    BY <1>1, <1>2, ListKept DEF Shares
  <1>5. \A x \in Timers : due'[x] \in Int /\ due[x] - 1 <= due'[x]
    BY <1>1, <1>2, Words DEF MaxOf
  <1>6. ASSUME NEW x \in Timers, NEW ticks \in Int, Agrees(ticks, x)
        PROVE  ticks - lag' <= due'[x]
    <2>1. ticks - lag <= due[x] /\ due[x] - 1 <= due'[x] /\ due[x] \in Int /\ due'[x] \in Int
      BY <1>2, <1>5, <1>6 DEF Agrees
    <2> QED
      BY <1>1, <1>2, <2>1
  <1>7. (\A n \in Listed : Agrees(at[n], node[n].h))'
    <2>1. ASSUME NEW n \in Listed PROVE at[n] - lag' <= due'[node[n].h]
      <3>1. node[n].h \in Timers /\ at[n] \in Int /\ Agrees(at[n], node[n].h)
        BY <1>2, <1>3, <1>4 DEF Times
      <3> QED
        BY <1>6, <3>1
    <2> QED
      BY <1>1, <1>4, <2>1 DEF Agrees
  <1>8. ASSUME NEW p \in Tasks PROVE HandAgrees(p, at)'
    <2>1. HandAgrees(p, at) /\ h[p] \in Timers
      BY <1>2, <1>3 DEF Times, TimersTypeOK
    <2>2. CASE where[p] = "insert"
      <3>1. node[new[p]].time \in Int /\ Agrees(node[new[p]].time, h[p])
        BY <1>2, <2>1, <2>2 DEF HandAgrees, Shares, Has
      <3>2. node[new[p]].time - lag' <= due'[h[p]]
        BY <1>6, <2>1, <3>1
      <3> QED
        BY <1>1, <2>2, <3>2 DEF HandAgrees, Agrees
    <2>3. CASE where[p] = "walk"
      <3>1. t[p] \in Nodes /\ new[p] \in Nodes
        BY <1>2, <2>3 DEF Hands, Shares, Has
      <3>2. PICK k \in Int : k = node[new[p]].time + at[t[p]] - node[t[p]].time
        BY <1>2, <3>1
      <3>3. k - lag' <= due'[h[p]] /\ node[t[p]].time <= node[new[p]].time
        BY <1>6, <2>1, <2>3, <3>2 DEF HandAgrees
      <3> QED
        BY <1>1, <2>3, <3>2, <3>3 DEF HandAgrees, Agrees
    <2>4. CASE where[p] \notin {"insert", "walk"}
      BY <1>1, <2>4, EmptyHandNext
    <2> QED
      BY <2>2, <2>3, <2>4
  <1>9. Deltas(at)'
    BY <1>1, <1>3, <1>4 DEF Times, Deltas
  <1>10. Times(at)'
    BY <1>7, <1>8, <1>9 DEF Times
  <1> QED
    BY <1>10 DEF TimesInv

-----------------------------------------------------------------------------
(* The steps that take from the list, or from its times.                   *)

\* The same moments counted from d ticks later.
Shifted(at, d) == [n \in Nodes |-> at[n] - d]

\* The head is gone, and the list counts from the moment it was to expire.
LEMMA DeltasPopped ==
  ASSUME TimersTypeOK, Shares, NEW at \in [Nodes -> Int], Deltas(at), next_timeout # Null,
         next_timeout' = node[next_timeout].next, node' = node,
         Listed' = Listed \ {next_timeout},
         NEW d, d = node[next_timeout].time
  PROVE  /\ Shifted(at, d) \in [Nodes -> Int]
         /\ \A n \in Nodes : Shifted(at, d)[n] = at[n] - d
         /\ d = at[next_timeout] /\ d \in Nat
         /\ Deltas(Shifted(at, d))'
  <1>1. /\ next_timeout \in Listed
        /\ \A m \in Listed : node[m].next \in Listed \cup {Null}
    BY ListShape
  <1>2. Listed \subseteq Nodes
    BY DEF Shares
  <1>3. d \in Nat /\ d = at[next_timeout]
    BY <1>1, <1>2, Words DEF TimersTypeOK, Deltas
  <1>4. Shifted(at, d) \in [Nodes -> Int] /\ \A n \in Nodes : Shifted(at, d)[n] = at[n] - d
    BY <1>3 DEF Shifted
  <1> DEFINE b == Shifted(at, d)
  <1> HIDE DEF b
  <1>5. \A m \in Nodes : b[m] = at[m] - d /\ at[m] \in Int
    BY <1>4 DEF b
  <1>6. next_timeout' # Null => node[next_timeout'].time = b[next_timeout']
    <2> SUFFICES ASSUME next_timeout' # Null PROVE node[next_timeout'].time = b[next_timeout']
      OBVIOUS
    <2>1. next_timeout' \in Nodes
      BY <1>1, <1>2
    <2>2. node[next_timeout'].time = at[next_timeout'] - at[next_timeout]
      BY <1>1 DEF Deltas
    <2> QED
      BY <1>3, <1>5, <2>1, <2>2
  <1>7. ASSUME NEW m \in Listed', node[m].next # Null
        PROVE  node[node[m].next].time = b[node[m].next] - b[m]
    <2>1. m \in Nodes /\ m \in Listed /\ node[m].next \in Nodes
      BY <1>1, <1>2, <1>7
    <2>2. node[node[m].next].time = at[node[m].next] - at[m]
      BY <1>7, <2>1 DEF Deltas
    <2> QED
      BY <1>3, <1>5, <2>1, <2>2
  <1>8. Deltas(b)'
    BY <1>6, <1>7 DEF Deltas
  <1> QED
    BY <1>3, <1>4, <1>8 DEF b

\* The thread takes the head off, whatever is left of its time: the nodes
\* behind it come forward by as much.
LEMMA UnlinkTimes ==
  ASSUME TimersInv, TimesInv, Unlink
  PROVE  TimesInv'
  <1>1. ~torn /\ node' = node /\ UNCHANGED <<lag, due>>
    BY DEF Unlink, At, Runs, hist
  <1>2. /\ TimersTypeOK /\ Shares /\ Hands /\ lag \in Nat
        /\ \E at \in [Nodes -> Int] : Times(at)
        /\ \A n \in Nodes : node[n].time \in Nat /\ node[n].h \in Timers
        /\ \A x \in Timers : due[x] \in Int
    BY <1>1, Unfold
  <1>3. PICK at \in [Nodes -> Int] : Times(at)
    BY <1>2
  <1>4. where["tcpip"] = "unlink" /\ where["network"] = "idle"
    BY DEF Unlink, At, Runs
  <1>5. where'["network"] = "idle" /\ where'["tcpip"] = "take"
    BY <1>2, <1>4 DEF Unlink, Goto, Tasks, TimersTypeOK
  <1>6. next_timeout # Null /\ next_timeout' = node[next_timeout].next
    BY <1>2, <1>4 DEF Hands, Unlink
  <1>7. next_timeout \in Listed /\ Listed' = Listed \ {next_timeout}
    BY <1>1, <1>2, <1>6, ListPopped
  <1>8. PICK d \in Nat : d = node[next_timeout].time
    BY <1>2, <1>7 DEF Shares
  <1> DEFINE b == Shifted(at, d)
  <1>9. b \in [Nodes -> Int] /\ (\A n \in Nodes : b[n] = at[n] - d) /\ Deltas(b)'
    BY <1>1, <1>2, <1>3, <1>6, <1>7, <1>8, DeltasPopped DEF Times
  <1> HIDE DEF b
  <1>10. (\A n \in Listed : Agrees(b[n], node[n].h))'
    <2>1. ASSUME NEW n \in Listed' PROVE b[n] - lag <= due[node[n].h]
      <3>1. n \in Nodes /\ at[n] \in Int /\ b[n] = at[n] - d /\ due[node[n].h] \in Int
        BY <1>2, <1>7, <1>9, <2>1 DEF Shares
      <3>2. at[n] - lag <= due[node[n].h]
        BY <1>3, <1>7, <2>1 DEF Times, Agrees
      <3> QED
        BY <1>2, <1>8, <3>1, <3>2
    <2> QED
      BY <1>1, <2>1 DEF Agrees
  <1>11. \A p \in Tasks : HandAgrees(p, b)'
    BY <1>5, EmptyHandNext DEF Tasks
  <1>12. Times(b)'
    BY <1>9, <1>10, <1>11 DEF Times
  <1> QED
    BY <1>9, <1>12 DEF TimesInv

\* timeouts_last_time moves on by the time of the head, as the list does.
LEMMA PollTestTimes ==
  ASSUME TimersInv, TimesInv, PollTest
  PROVE  TimesInv'
  <1>1. ~torn /\ node' = node /\ due' = due /\ where["network"] = "test"
    BY DEF PollTest, At, Runs, hist
  <1>2. /\ TimersTypeOK /\ Clocks /\ Control /\ Shares /\ lag \in Nat
        /\ \E at \in [Nodes -> Int] : Times(at)
        /\ \A n \in Nodes : node[n].time \in Nat /\ node[n].h \in Timers
        /\ \A x \in Timers : due[x] \in Int
    BY <1>1, Unfold
  <1>3. PICK at \in [Nodes -> Int] : Times(at)
    BY <1>2
  <1>4. where["tcpip"] \notin {"insert", "walk"}
    BY <1>1, <1>2 DEF Control, Changing
  <1>5. \A p \in Tasks : where'[p] \notin {"insert", "walk"}
    <2>1. where' \in {[where EXCEPT !["network"] = "free"], [where EXCEPT !["network"] = "idle"]}
      BY DEF PollTest, Goto
    <2> QED
      BY <1>2, <1>4, <2>1 DEF TimersTypeOK, Tasks
  <1>6. CASE ~Expired
    <2>1. UNCHANGED <<lag, next_timeout>>
      BY <1>6 DEF PollTest
    <2> QED
      BY <1>1, <1>5, <2>1, Still DEF list
  <1>7. CASE Expired
    <2>1. /\ lag' = Sub(lag, node[next_timeout].time)
          /\ next_timeout' = node[next_timeout].next
      BY <1>7 DEF PollTest, Elapsed
    <2>2. next_timeout # Null /\ node[next_timeout].time <= diff
      BY <1>7 DEF Expired
    <2>3. next_timeout \in Listed /\ Listed' = Listed \ {next_timeout}
      BY <1>1, <1>2, <2>1, <2>2, ListPopped
    <2>4. PICK d \in Nat : d = node[next_timeout].time
      BY <1>2, <2>3 DEF Shares
    <2> DEFINE b == Shifted(at, d)
    <2>5. b \in [Nodes -> Int] /\ (\A n \in Nodes : b[n] = at[n] - d) /\ Deltas(b)'
      BY <1>1, <1>2, <1>3, <2>1, <2>2, <2>3, <2>4, DeltasPopped DEF Times
    <2> HIDE DEF b
    <2>6. lag' = lag - d
      <3>1. d \in 0..(Word - 1) /\ lag \in 0..(Word - 1) /\ d <= lag
        BY <1>2, <2>2, <2>3, <2>4, Words DEF TimersTypeOK, Clocks, Shares
      <3> QED
        BY <2>1, <2>4, <3>1, SubType
    <2>7. (\A n \in Listed : Agrees(b[n], node[n].h))'
      <3>1. ASSUME NEW n \in Listed' PROVE b[n] - lag' <= due[node[n].h]
        <4>1. n \in Nodes /\ at[n] \in Int /\ b[n] = at[n] - d
          BY <1>2, <2>3, <2>5, <3>1 DEF Shares
        <4>2. at[n] - lag <= due[node[n].h]
          BY <1>3, <2>3, <3>1 DEF Times, Agrees
        <4>3. b[n] - lag' = at[n] - lag
          BY <1>2, <2>4, <2>6, <4>1
        <4> QED
          BY <4>2, <4>3
      <3> QED
        BY <1>1, <3>1 DEF Agrees
    <2>8. \A p \in Tasks : HandAgrees(p, b)'
      BY <1>5, EmptyHandNext
    <2>9. Times(b)'
      BY <2>5, <2>7, <2>8 DEF Times
    <2> QED
      BY <2>5, <2>9 DEF TimesInv
  <1> QED
    BY <1>6, <1>7

\* What the wait has taken is taken from the head, whichever it is by now.
LEMMA MessageTimes ==
  ASSUME TimersInv, TimesInv, Message
  PROVE  TimesInv'
  <1>1. ~torn /\ next_timeout' = next_timeout /\ UNCHANGED <<lag, due>>
    BY DEF Message, Runs, hist
  <1>2. /\ TimersTypeOK /\ Shares /\ lag \in Nat /\ waited \in Nat
        /\ \E at \in [Nodes -> Int] : Times(at)
        /\ \A n \in Nodes : node[n].time \in Nat /\ node[n].h \in Timers
        /\ \A x \in Timers : due[x] \in Int
    BY <1>1, Unfold
  <1>3. PICK at \in [Nodes -> Int] : Times(at)
    BY <1>2
  <1>4. where["network"] = "idle"
    BY DEF Message, Runs
  <1>5. \A p \in Tasks : where'[p] \notin {"insert", "walk"}
    BY <1>2, <1>4 DEF Message, Goto, Tasks, TimersTypeOK
  <1>6. CASE ~(where["tcpip"] = "wait" /\ next_timeout # Null)
    <2>1. node' = node
      BY <1>6 DEF Message
    <2> QED
      BY <1>1, <1>5, <2>1, Still DEF list
  <1>7. CASE where["tcpip"] = "wait" /\ next_timeout # Null
    <2>1. /\ next_timeout \in Listed /\ next_timeout \in Nodes
          /\ \A m \in Listed : node[m].next \in Listed \cup {Null} /\ node[m].next # next_timeout
      BY <1>2, <1>7, ListShape DEF Shares
    <2> DEFINE d == node[next_timeout].time
    <2>2. PICK w \in Nat : Rest(d) = d - w
      <3>1. d \in Nat
        BY <1>2, <2>1
      <3>2. CASE waited < d
        BY <1>2, <3>1, <3>2 DEF Rest
      <3>3. CASE ~(waited < d)
        BY <3>1, <3>3 DEF Rest
      <3> QED
        BY <3>2, <3>3
    <2>3. node' = [node EXCEPT ![next_timeout].time = Rest(d)]
      BY <1>7 DEF Message
    <2>4. /\ \A m \in Nodes : node'[m].next = node[m].next /\ node'[m].h = node[m].h
          /\ node'[next_timeout].time = d - w
          /\ \A m \in Nodes : m # next_timeout => node'[m].time = node[m].time
      BY <1>2, <2>1, <2>2, <2>3 DEF TimersTypeOK
    <2>5. Listed' = Listed /\ Listed \subseteq Nodes
      BY <1>1, <1>2, <2>4, ListKept DEF Shares
    <2> DEFINE b == Shifted(at, w)
    <2>6. b \in [Nodes -> Int] /\ \A m \in Nodes : b[m] = at[m] - w /\ at[m] \in Int
      BY DEF Shifted
    <2> HIDE DEF b, d
    <2>7. Deltas(b)'
      <3>1. node'[next_timeout].time = b[next_timeout]
        BY <1>3, <1>7, <2>1, <2>4, <2>6 DEF Times, Deltas, d
      <3>2. ASSUME NEW m \in Listed, node[m].next # Null
            PROVE  node'[node[m].next].time = b[node[m].next] - b[m]
        <4>1. m \in Nodes /\ node[m].next \in Nodes /\ node[m].next # next_timeout
          BY <2>1, <2>5, <3>2
        <4>2. node[node[m].next].time = at[node[m].next] - at[m]
          BY <1>3, <3>2 DEF Times, Deltas
        <4> QED
          BY <2>4, <2>6, <4>1, <4>2
      <3> QED
        BY <1>1, <2>4, <2>5, <3>1, <3>2 DEF Deltas
    <2>8. (\A n \in Listed : Agrees(b[n], node[n].h))'
      <3>1. ASSUME NEW n \in Listed PROVE b[n] - lag <= due[node[n].h]
        <4>1. n \in Nodes /\ at[n] \in Int /\ b[n] = at[n] - w /\ due[node[n].h] \in Int
          BY <1>2, <2>5, <2>6
        <4>2. at[n] - lag <= due[node[n].h]
          BY <1>3 DEF Times, Agrees
        <4> QED
          BY <1>2, <4>1, <4>2
      <3> QED
        BY <1>1, <2>4, <2>5, <3>1 DEF Agrees
    <2>9. \A p \in Tasks : HandAgrees(p, b)'
      BY <1>5, EmptyHandNext
    <2>10. Times(b)'
      BY <2>7, <2>8, <2>9 DEF Times
    <2> QED
      BY <2>6, <2>10 DEF TimesInv
  <1> QED
    BY <1>6, <1>7

-----------------------------------------------------------------------------
(* sys_timeout.                                                            *)

\* A node is taken for the timer, which is due in its period: counted from now
\* by the thread, from timeouts_last_time by the poll.
LEMMA MallocTimes ==
  ASSUME TimersInv, TimesInv, NEW p \in Tasks, Malloc(p)
  PROVE  TimesInv'
  <1>1. ~torn /\ UNCHANGED <<todo, lag, h, next_timeout>> /\ where[p] = "malloc" /\ Runs(p)
    BY DEF Malloc, At, Runs
  <1>2. /\ TimersTypeOK /\ Control /\ Shares /\ Hands /\ Single /\ lag \in Nat
        /\ \E at \in [Nodes -> Int] : Times(at)
    BY <1>1, Unfold
  <1>3. PICK at \in [Nodes -> Int] : Times(at)
    BY <1>2
  <1>4. PICK q \in Tasks : /\ q # p /\ Tasks = {p, q}
                           /\ where[q] \notin {"unlink", "insert", "walk"}
    BY <1>1, <1>2, Other
  <1>5. memp_tab # Null
    BY <1>1, <1>2, NodeForAll
  <1>6. /\ new' = [new EXCEPT ![p] = memp_tab]
        /\ node' = [node EXCEPT ![memp_tab] =
                      [next |-> Null, h |-> h[p], time |-> Period[h[p]]]]
        /\ due' = [due EXCEPT ![h[p]] = DueIn(p)]
        /\ Goto(p, "insert")
    BY <1>5 DEF Malloc
  <1>7. where'[p] = "insert" /\ \A r \in Tasks : r # p => where'[r] = where[r]
    BY <1>1, <1>2, <1>6, MovesOn
  <1>8. memp_tab \in Nodes /\ memp_tab \notin Listed
    <2>1. Chain(memp_tab, memp_next, Free) /\ Free \in SUBSET Nodes
      BY <1>2 DEF Shares
    <2>2. memp_tab \in Free
      BY <1>5, <2>1, ChainShape
    <2> QED
      BY <1>2, <2>1, <2>2 DEF Shares
  <1>9. /\ \A n \in Listed : node'[n] = node[n]
        /\ new'[p] = memp_tab /\ node'[memp_tab].time = Period[h[p]]
    BY <1>2, <1>6, <1>8 DEF TimersTypeOK, Shares
  <1>10. Listed' = Listed /\ Listed \subseteq Nodes
    BY <1>1, <1>2, <1>9, ListKept DEF Shares
  <1>11. h[p] \in Timers /\ InHand(p, h[p]) /\ Period[h[p]] \in Nat
    BY <1>1, <1>2, Words DEF TimersTypeOK, InHand
  <1>12. due'[h[p]] = DueIn(p) /\ \A x \in Timers : x # h[p] => due'[x] = due[x]
    BY <1>2, <1>6, <1>11 DEF TimersTypeOK
  <1>13. Deltas(at)'
    <2>1. /\ next_timeout \in Listed \cup {Null}
          /\ \A m \in Listed : node[m].next \in Listed \cup {Null}
      BY <1>2, ListShape
    <2> QED
      BY <1>1, <1>3, <1>9, <1>10, <2>1 DEF Times, Deltas
  <1>14. (\A n \in Listed : Agrees(at[n], node[n].h))'
    <2>1. \A n \in Listed : node[n].h # h[p] /\ node[n].h \in Timers
      BY <1>2, <1>10, <1>11 DEF Single, TimersTypeOK
    <2>2. \A n \in Listed : due'[node[n].h] = due[node[n].h]
      BY <1>12, <2>1
    <2> QED
      BY <1>1, <1>3, <1>9, <1>10, <2>2 DEF Times, Agrees
  <1>15. \A r \in Tasks : HandAgrees(r, at)'
    <2>1. HandAgrees(q, at)'
      BY <1>4, <1>7, EmptyHandNext
    <2>2. Period[h[p]] - lag <= DueIn(p)
      BY <1>2, <1>11 DEF DueIn
    <2>3. Agrees(node[new[p]].time, h[p])'
      BY <1>1, <1>9, <1>12, <2>2 DEF Agrees
    <2>4. HandAgrees(p, at)'
      BY <1>7, <2>3 DEF HandAgrees
    <2> QED
      BY <1>4, <2>1, <2>4
  <1>16. Times(at)'
    BY <1>13, <1>14, <1>15 DEF Times
  <1> QED
    BY <1>16 DEF TimesInv

\* The moments with one for a new node.
Placed(at, n, d) == [at EXCEPT ![n] = d]

LEMMA PlacedIs ==
  ASSUME NEW at \in [Nodes -> Int], NEW n \in Nodes, NEW d \in Int
  PROVE  /\ Placed(at, n, d) \in [Nodes -> Int] /\ Placed(at, n, d)[n] = d
         /\ \A m \in Nodes : m # n => Placed(at, n, d)[m] = at[m]
  BY DEF Placed

\* A node is on the list that was in hand: what is left is that the deltas
\* add up.
LEMMA LinkedTimes ==
  ASSUME TimersTypeOK, Control, Shares, Hands,
         NEW p \in Tasks, Runs(p), where[p] \in {"insert", "walk"}, Return(p),
         UNCHANGED <<todo, lag, due>>,
         NEW n, n = new[p], NEW d \in Int, Agrees(d, h[p]),
         NEW at \in [Nodes -> Int], Times(at),
         Listed' = Listed \cup {n}, \A m \in Nodes : node'[m].h = node[m].h,
         Deltas(Placed(at, n, d))'
  PROVE  TimesInv'
  <1> DEFINE b == Placed(at, n, d)
  <1>1. n \in Nodes /\ n \notin Listed /\ node[n].h = h[p] /\ Listed \subseteq Nodes
    BY DEF Shares, Has, Hands
  <1>2. b \in [Nodes -> Int] /\ b[n] = d /\ \A m \in Nodes : m # n => b[m] = at[m]
    BY <1>1, PlacedIs
  <1>3. Deltas(b)'
    OBVIOUS
  <1> HIDE DEF b
  <1>4. PICK q \in Tasks : /\ q # p /\ Tasks = {p, q}
                           /\ where[q] \notin {"unlink", "insert", "walk"}
    BY Other
  <1>5. where'[p] \in {"again", "init", "test"} /\ \A r \in Tasks : r # p => where'[r] = where[r]
    BY Returned
  <1>6. \A ticks, x : Agrees(ticks, x)' <=> Agrees(ticks, x)
    BY SameClock
  <1>7. (\A m \in Listed : Agrees(b[m], node[m].h))'
    <2>1. ASSUME NEW m \in Listed' PROVE Agrees(b[m], node'[m].h)
      <3>1. CASE m = n
        BY <1>1, <1>2, <3>1
      <3>2. CASE m # n
        <4>1. m \in Listed /\ m \in Nodes /\ b[m] = at[m] /\ node'[m].h = node[m].h
          BY <1>1, <1>2, <2>1, <3>2
        <4>2. Agrees(at[m], node[m].h)
          BY <4>1 DEF Times
        <4> QED
          BY <4>1, <4>2
      <3> QED
        BY <3>1, <3>2
    <2>2. \A m \in Listed' : \A x : x = node'[m].h => Agrees(b[m], x)'
      BY <1>6, <2>1
    <2> QED
      BY <2>2
  <1>8. \A r \in Tasks : HandAgrees(r, b)'
    BY <1>4, <1>5, EmptyHandNext
  <1>9. Times(b)'
    BY <1>3, <1>7, <1>8 DEF Times
  <1> QED
    BY <1>2, <1>9 DEF TimesInv

\* The deltas with a new first node.
LEMMA DeltasFront ==
  ASSUME TimersTypeOK, Shares, NEW at \in [Nodes -> Int], Deltas(at),
         NEW n \in Nodes, n \notin Listed, NEW d \in Int, d = node[n].time,
         Listed' = Listed \cup {n}, next_timeout' = n,
         node'[n].next = next_timeout, node'[n].time = d,
         \A m \in Nodes : m # n => node'[m].next = node[m].next,
         \A m \in Nodes : m # n /\ m # next_timeout => node'[m].time = node[m].time,
         next_timeout # Null => node'[next_timeout].time = node[next_timeout].time - d
  PROVE  Deltas(Placed(at, n, d))'
  <1> DEFINE b == Placed(at, n, d)
  <1>1. b \in [Nodes -> Int] /\ b[n] = d /\ \A m \in Nodes : m # n => b[m] = at[m]
    BY PlacedIs
  <1> HIDE DEF b
  <1>2. /\ next_timeout \in Listed \cup {Null} /\ Listed \subseteq Nodes /\ Null \notin Nodes
        /\ \A m \in Listed : node[m].next \in Listed \cup {Null} /\ node[m].next # next_timeout
    BY ListShape, Words DEF Shares
  <1>3. ASSUME NEW m \in Listed', node'[m].next # Null
        PROVE  node'[node'[m].next].time = b[node'[m].next] - b[m]
    <2>1. CASE m = n
      <3>1. next_timeout \in Listed /\ next_timeout \in Nodes /\ next_timeout # n
        BY <1>2, <1>3, <2>1
      <3>2. node[next_timeout].time = at[next_timeout]
        BY <1>2, <3>1 DEF Deltas
      <3> QED
        BY <1>1, <1>2, <2>1, <3>1, <3>2
    <2>2. CASE m # n
      <3>1. m \in Listed /\ m \in Nodes /\ node'[m].next = node[m].next
        BY <1>2, <1>3, <2>2
      <3>2. node[m].next \in Listed /\ node[m].next # next_timeout /\ node[m].next # n
            /\ node[m].next \in Nodes
        BY <1>2, <1>3, <3>1
      <3>3. node[node[m].next].time = at[node[m].next] - at[m]
        BY <1>3, <3>1 DEF Deltas
      <3> QED
        BY <1>1, <2>2, <3>1, <3>2, <3>3
    <2> QED
      BY <2>1, <2>2
  <1>4. next_timeout' # Null => node'[next_timeout'].time = b[next_timeout']
    BY <1>1
  <1>5. Deltas(b)'
    BY <1>3, <1>4 DEF Deltas
  <1> QED
    BY <1>5 DEF b

\* The deltas with a new node behind node a.
LEMMA DeltasSpliced ==
  ASSUME TimersTypeOK, Shares, NEW at \in [Nodes -> Int], Deltas(at),
         NEW n \in Nodes, n \notin Listed, NEW a \in Listed, NEW ms \in Int,
         NEW behind, behind = node[a].next, NEW d \in Int, d = at[a] + ms,
         Listed' = Listed \cup {n}, next_timeout' = next_timeout,
         node'[n].next = behind, node'[a].next = n, node'[n].time = ms,
         \A m \in Nodes : m \notin {n, a} => node'[m].next = node[m].next,
         \A m \in Nodes : m \notin {n, behind} => node'[m].time = node[m].time,
         behind # Null => node'[behind].time = node[behind].time - ms
  PROVE  Deltas(Placed(at, n, d))'
  <1> DEFINE b == Placed(at, n, d)
  <1>1. b \in [Nodes -> Int] /\ b[n] = d /\ \A m \in Nodes : m # n => b[m] = at[m]
    BY PlacedIs
  <1> HIDE DEF b
  <1>2. /\ next_timeout \in Listed \cup {Null} /\ Listed \subseteq Nodes /\ Null \notin Nodes
        /\ \A m \in Listed : node[m].next \in Listed \cup {Null} /\ node[m].next # next_timeout
        /\ \A m, k \in Listed : node[m].next = node[k].next /\ node[m].next # Null => m = k
    BY ListShape, Words DEF Shares
  <1>3. ASSUME NEW m \in Listed', node'[m].next # Null
        PROVE  node'[node'[m].next].time = b[node'[m].next] - b[m]
    <2>1. CASE m = n
      <3>1. behind \in Listed /\ behind \in Nodes /\ behind # n /\ a \in Nodes
        BY <1>2, <1>3, <2>1
      <3>2. node[behind].time = at[behind] - at[a]
        BY <1>2, <3>1 DEF Deltas
      <3>3. at[behind] \in Int /\ at[a] \in Int
        BY <3>1
      <3>4. node'[behind].time = at[behind] - d
        BY <1>2, <3>1, <3>2, <3>3
      <3> QED
        BY <1>1, <2>1, <3>1, <3>4
    <2>2. CASE m = a
      <3>1. a \in Nodes /\ a # n /\ at[a] \in Int
        BY <1>2
      <3>2. ms = d - at[a]
        BY <3>1
      <3> QED
        BY <1>1, <2>2, <3>1, <3>2
    <2>3. CASE m # n /\ m # a
      <3>1. m \in Listed /\ m \in Nodes /\ node'[m].next = node[m].next
        BY <1>2, <1>3, <2>3
      <3>2. node[m].next \in Listed /\ node[m].next # behind /\ node[m].next # n
            /\ node[m].next \in Nodes
        BY <1>2, <1>3, <2>3, <3>1
      <3>3. node[node[m].next].time = at[node[m].next] - at[m]
        BY <1>3, <3>1 DEF Deltas
      <3> QED
        BY <1>1, <2>3, <3>1, <3>2, <3>3
    <2> QED
      BY <2>1, <2>2, <2>3
  <1>4. next_timeout' # Null => node'[next_timeout'].time = b[next_timeout']
    <2> SUFFICES ASSUME next_timeout # Null PROVE node'[next_timeout].time = b[next_timeout]
      OBVIOUS
    <2>1. next_timeout \in Nodes /\ next_timeout # n /\ next_timeout # behind
      BY <1>2
    <2> QED
      BY <1>1, <2>1 DEF Deltas
  <1>5. Deltas(b)'
    BY <1>3, <1>4 DEF Deltas
  <1> QED
    BY <1>5 DEF b

\* A timer that expires before the head goes before it and is subtracted from it.
LEMMA InsertTimes ==
  ASSUME TimersInv, TimesInv, NEW p \in Tasks, Insert(p)
  PROVE  TimesInv'
  <1>1. /\ ~torn /\ UNCHANGED <<todo, lag, due, h, new>>
        /\ where[p] = "insert" /\ Runs(p)
    BY DEF Insert, At, Runs, hist
  <1>2. /\ TimersTypeOK /\ Control /\ Shares /\ Hands
        /\ \E at \in [Nodes -> Int] : Times(at)
        /\ \A m \in Nodes : node[m].time \in Nat
    BY <1>1, Unfold
  <1>3. PICK at \in [Nodes -> Int] : Times(at)
    BY <1>2
  <1>4. PICK n \in Nodes : n = new[p] /\ n \notin Listed
    BY <1>1, <1>2 DEF Shares, Has
  <1>5. PICK d \in Nat : d = node[n].time
    BY <1>2
  <1>6. Agrees(d, h[p])
    BY <1>1, <1>3, <1>4, <1>5 DEF Times, HandAgrees
  <1>7. CASE next_timeout = Null \/ node[next_timeout].time > node[new[p]].time
    <2>1. /\ Listed' = Listed \cup {n} /\ next_timeout' = n /\ Return(p)
          /\ node'[n].next = next_timeout /\ node'[n].time = d
          /\ \A m \in Nodes : node'[m].h = node[m].h
          /\ \A m \in Nodes : m # n => node'[m].next = node[m].next
          /\ \A m \in Nodes : m # n /\ m # next_timeout => node'[m].time = node[m].time
          /\ next_timeout # Null => node'[next_timeout].time = node[next_timeout].time - d
      BY <1>1, <1>2, <1>4, <1>5, <1>7, FrontEffect
    <2>2. Deltas(at) /\ d \in Int
      BY <1>3 DEF Times
    <2>3. Deltas(Placed(at, n, d))'
      BY <1>2, <1>4, <1>5, <2>1, <2>2, DeltasFront
    <2> QED
      BY <1>1, <1>2, <1>3, <1>4, <1>6, <2>1, <2>2, <2>3, LinkedTimes
  <1>8. CASE next_timeout # Null /\ ~(node[next_timeout].time > node[new[p]].time)
    <2>1. t' = [t EXCEPT ![p] = next_timeout] /\ Goto(p, "walk") /\ UNCHANGED list
      BY <1>8 DEF Insert
    <2>2. where'[p] = "walk" /\ \A r \in Tasks : r # p => where'[r] = where[r]
      BY <1>1, <1>2, <2>1, MovesOn
    <2>3. /\ t'[p] = next_timeout /\ next_timeout \in Nodes /\ node' = node
          /\ next_timeout' = next_timeout
      BY <1>2, <1>8, <2>1 DEF TimersTypeOK, list
    <2>4. Listed' = Listed
      BY <1>2, <2>3, ListKept
    <2>5. node[next_timeout].time = at[next_timeout] /\ node[next_timeout].time <= d
      BY <1>2, <1>3, <1>4, <1>5, <1>8, <2>3 DEF Times, Deltas
    <2>6. d + at[next_timeout] - node[next_timeout].time = d
      BY <1>2, <2>3, <2>5
    <2>7. PICK q \in Tasks : /\ q # p /\ Tasks = {p, q}
                             /\ where[q] \notin {"unlink", "insert", "walk"}
      BY <1>1, <1>2, Other
    <2>8. \A r \in Tasks : HandAgrees(r, at)'
      <3>1. HandAgrees(q, at)'
        BY <2>2, <2>7, EmptyHandNext
      <3>2. node'[new'[p]].time = d /\ node'[t'[p]].time = node[next_timeout].time
            /\ at[t'[p]] = at[next_timeout] /\ h'[p] = h[p]
        BY <1>1, <1>4, <1>5, <2>3
      <3>3. Agrees(node[new[p]].time + at[t[p]] - node[t[p]].time, h[p])'
        <4>1. \A ticks, x : Agrees(ticks, x)' <=> Agrees(ticks, x)
          BY <1>1, SameClock
        <4>2. node'[new'[p]].time + at[t'[p]] - node'[t'[p]].time = d
          BY <2>6, <3>2
        <4>3. \A ticks, x : ticks = d /\ x = h[p] => Agrees(ticks, x)'
          BY <1>6, <4>1
        <4> QED
          BY <3>2, <4>2, <4>3
      <3>4. HandAgrees(p, at)'
        BY <2>2, <2>5, <3>2, <3>3 DEF HandAgrees
      <3> QED
        BY <2>7, <3>1, <3>4
    <2>9. Times(at)'
      BY <1>1, <1>2, <1>3, <2>3, <2>4, <2>8, SameTimes
    <2> QED
      BY <2>9 DEF TimesInv
  <1> QED
    BY <1>7, <1>8

\* The walk subtracts what it passes, and the node behind gives up what it gives.
LEMMA WalkTimes ==
  ASSUME TimersInv, TimesInv, NEW p \in Tasks, Walk(p)
  PROVE  TimesInv'
  <1>1. /\ ~torn /\ UNCHANGED <<todo, lag, due, h, new, next_timeout>>
        /\ where[p] = "walk" /\ Runs(p)
    BY DEF Walk, At, Runs, hist
  <1>2. /\ TimersTypeOK /\ Control /\ Shares /\ Hands
        /\ \E at \in [Nodes -> Int] : Times(at)
        /\ \A m \in Nodes : node[m].time \in Nat
    BY <1>1, Unfold
  <1>3. PICK at \in [Nodes -> Int] : Times(at)
    BY <1>2
  <1>4. PICK n \in Nodes : n = new[p] /\ n \notin Listed
    BY <1>1, <1>2 DEF Shares, Has
  <1>5. PICK a \in Listed : a = t[p]
    BY <1>1, <1>2 DEF Hands
  <1>6. a \in Nodes /\ a # n /\ node[n].time \in 0..(Word - 1) /\ node[a].time \in 0..(Word - 1)
    BY <1>2, <1>4, <1>5 DEF Shares, TimersTypeOK
  <1>7. /\ node[a].time <= node[n].time
        /\ Agrees(node[n].time + at[a] - node[a].time, h[p])
    BY <1>1, <1>3, <1>4, <1>5 DEF Times, HandAgrees
  <1>8. PICK ms \in Nat : ms = Sub(node[n].time, node[a].time) /\ ms = node[n].time - node[a].time
    <2>1. Sub(node[n].time, node[a].time) = node[n].time - node[a].time
      BY <1>6, <1>7, SubType
    <2>2. node[n].time - node[a].time \in Nat
      BY <1>2, <1>6, <1>7
    <2> QED
      BY <2>1, <2>2
  <1>9. PICK d \in Int : d = at[a] + ms /\ d = node[n].time + at[a] - node[a].time
    BY <1>2, <1>6, <1>8
  <1>10. Agrees(d, h[p]) /\ Deltas(at)
    BY <1>3, <1>7, <1>9 DEF Times
  <1>11. PICK behind : behind = node[a].next
    OBVIOUS
  <1>12. CASE behind = Null \/ node[behind].time > ms
    <2>1. /\ Listed' = Listed \cup {n} /\ Return(p)
          /\ node'[n].next = behind /\ node'[a].next = n /\ node'[n].time = ms
          /\ \A m \in Nodes : node'[m].h = node[m].h
          /\ \A m \in Nodes : m \notin {n, a} => node'[m].next = node[m].next
          /\ \A m \in Nodes : m \notin {n, behind} => node'[m].time = node[m].time
          /\ behind # Null => node'[behind].time = node[behind].time - ms
      <3>1. /\ ms = Sub(node[new[p]].time, node[t[p]].time) /\ behind = node[t[p]].next
        BY <1>4, <1>5, <1>8, <1>11
      <3>2. TimersTypeOK /\ Shares /\ Hands /\ where[p] = "walk" /\ Walk(p)
        BY <1>1, <1>2
      <3>3. /\ Listed' = Listed \cup {new[p]} /\ Return(p)
            /\ node'[new[p]].next = behind /\ node'[t[p]].next = new[p] /\ node'[new[p]].time = ms
            /\ \A m \in Nodes : node'[m].h = node[m].h
            /\ \A m \in Nodes : m \notin {new[p], t[p]} => node'[m].next = node[m].next
            /\ \A m \in Nodes : m \notin {new[p], behind} => node'[m].time = node[m].time
            /\ behind # Null => node'[behind].time = node[behind].time - ms
        BY <1>12, <3>1, <3>2, SpliceEffect
      <3> QED
        BY <1>4, <1>5, <3>3
    <2>2. Deltas(Placed(at, n, d))'
      BY <1>1, <1>2, <1>4, <1>9, <1>10, <1>11, <2>1, DeltasSpliced
    <2> QED
      BY <1>1, <1>2, <1>3, <1>4, <1>10, <2>1, <2>2, LinkedTimes
  <1>13. CASE ~(behind = Null \/ node[behind].time > ms)
    <2>1. /\ node' = [node EXCEPT ![n].time = ms] /\ t' = [t EXCEPT ![p] = behind]
          /\ where' = where
      BY <1>4, <1>5, <1>8, <1>11, <1>13 DEF Walk
    <2>2. behind \in Listed /\ behind \in Nodes /\ behind # n
      BY <1>2, <1>4, <1>11, <1>13, ListShape DEF Shares
    <2>3. /\ t'[p] = behind /\ node'[n].time = ms
          /\ \A m \in Nodes : m # n => node'[m] = node[m]
      BY <1>2, <2>1 DEF TimersTypeOK
    <2>4. \A m \in Listed : node'[m] = node[m]
      BY <1>2, <1>4, <2>3 DEF Shares
    <2>5. Listed' = Listed
      BY <1>1, <1>2, <2>4, ListKept
    <2>6. node[behind].time = at[behind] - at[a] /\ node[behind].time <= ms
      BY <1>2, <1>10, <1>11, <1>13, <2>2 DEF Deltas
    <2>7. ms + at[behind] - node[behind].time = d
      <3>1. at[behind] \in Int /\ at[a] \in Int
        BY <1>6, <2>2
      <3> QED
        BY <1>9, <2>6, <3>1
    <2>8. PICK q \in Tasks : /\ q # p /\ Tasks = {p, q}
                             /\ where[q] \notin {"unlink", "insert", "walk"}
      BY <1>1, <1>2, Other
    <2>9. \A r \in Tasks : HandAgrees(r, at)'
      <3>1. HandAgrees(q, at)'
        BY <2>1, <2>8, EmptyHandNext
      <3>2. node'[new'[p]].time = ms /\ node'[t'[p]].time = node[behind].time
            /\ at[t'[p]] = at[behind] /\ h'[p] = h[p]
        BY <1>1, <1>4, <2>2, <2>3
      <3>3. Agrees(node[new[p]].time + at[t[p]] - node[t[p]].time, h[p])'
        <4>1. \A ticks, x : Agrees(ticks, x)' <=> Agrees(ticks, x)
          BY <1>1, SameClock
        <4>2. node'[new'[p]].time + at[t'[p]] - node'[t'[p]].time = d
          BY <2>7, <3>2
        <4>3. \A ticks, x : ticks = d /\ x = h[p] => Agrees(ticks, x)'
          BY <1>10, <4>1
        <4> QED
          BY <3>2, <4>2, <4>3
      <3>4. HandAgrees(p, at)'
        BY <1>1, <2>1, <2>6, <3>2, <3>3 DEF HandAgrees
      <3> QED
        BY <2>8, <3>1, <3>4
    <2>10. Times(at)'
      BY <1>1, <1>2, <1>3, <2>4, <2>5, <2>9, SameTimes
    <2> QED
      BY <2>10 DEF TimesInv
  <1> QED
    BY <1>12, <1>13

-----------------------------------------------------------------------------
(* No timer is late.                                                       *)

\* Nothing is listed yet.
LEMMA InitTimes ==
  ASSUME TimersInit
  PROVE  TimesInv
  <1>1. TimersInv /\ ~torn
    BY TimersInitInv DEF TimersInit
  <1>2. TimersTypeOK /\ Shares
    BY <1>1 DEF TimersInv, Whole
  <1>3. next_timeout = Null /\ Listed = {}
    BY <1>2, ListShape DEF TimersInit
  <1>4. where["network"] = "init" /\ where["tcpip"] = "off"
    BY DEF TimersInit
  <1> DEFINE at == [n \in Nodes |-> 0]
  <1>5. at \in [Nodes -> Int]
    OBVIOUS
  <1> HIDE DEF at
  <1>6. \A p \in Tasks : HandAgrees(p, at)
    BY <1>4 DEF HandAgrees, Tasks
  <1>7. Times(at)
    BY <1>3, <1>6 DEF Times, Deltas
  <1> QED
    BY <1>5, <1>7 DEF TimesInv

\* A stuttering step changes no moment.
LEMMA StutterTimes ==
  ASSUME TimersInv, TimesInv, UNCHANGED timersvars
  PROVE  TimesInv'
  <1>1. UNCHANGED <<next_timeout, node, where, h, new, t, lag, due, torn>>
    BY DEF timersvars, list, hist
  <1>2. CASE torn
    BY <1>1, <1>2 DEF TimesInv
  <1>3. CASE ~torn
    <2>1. Shares /\ \E at \in [Nodes -> Int] : Times(at)
      BY <1>3, Unfold
    <2>2. PICK at \in [Nodes -> Int] : Times(at)
      BY <2>1
    <2>3. Listed' = Listed
      BY <1>1, <2>1, ListKept
    <2>4. \A ticks, x : Agrees(ticks, x)' <=> Agrees(ticks, x)
      BY <1>1, SameClock
    <2>5. \A p \in Tasks : HandAgrees(p, at)'
      BY <1>1, <2>2, <2>4 DEF Times, HandAgrees
    <2>6. Times(at)'
      BY <1>1, <2>1, <2>2, <2>3, <2>5, SameTimes
    <2> QED
      BY <2>6 DEF TimesInv
  <1> QED
    BY <1>2, <1>3

\* Every step keeps the moments.
LEMMA StepTimes ==
  ASSUME TimersInv, TimesInv, [TimersNext]_timersvars
  PROVE  TimesInv'
  <1>1. "tcpip" \in Tasks /\ "network" \in Tasks
    BY DEF Tasks
  <1>2. ASSUME NEW p \in Tasks, SysTimeout(p) PROVE TimesInv'
    BY <1>2, MallocTimes, InsertTimes, WalkTimes DEF SysTimeout
  <1>3. CASE TcpipThread
    BY <1>1, <1>2, <1>3, ThreadTimes, UnlinkTimes, CallTimes DEF TcpipThread
  <1>4. CASE NetworkTask
    BY <1>1, <1>2, <1>4, InitTimerTimes, PollTimes, PollTestTimes, CallTimes DEF NetworkTask
  <1> QED
    BY <1>3, <1>4, MessageTimes, TickTimes, StutterTimes DEF TimersNext

\* The deltas up to a node add up to its time.
LEMMA AheadIs ==
  ASSUME TimersTypeOK, Shares, NEW at \in [Nodes -> Int], Deltas(at), NEW n \in Listed
  PROVE  Ahead(n) = at[n]
  <1>1. PICK k \in Nat : \E s \in [1..k -> Listed] :
               Enumerates(s, k, Listed) /\ LinksAs(s, k, next_timeout, NextOf)
    BY DEF Shares, Chain
  <1>2. PICK s \in [1..k -> Listed] :
          Enumerates(s, k, Listed) /\ LinksAs(s, k, next_timeout, NextOf)
    BY <1>1
  <1>3. OnList = Places(s, k) /\ DOMAIN OnList = 0..N /\ N \in Nat
    <2>1. Listed \in SUBSET Nodes
      BY DEF Shares
    <2>2. OnList = Places(s, k)
      BY <1>2, <2>1, OnListUnfolds
    <2> QED
      BY <2>2, NodesCount DEF Places
  <1>4. /\ Follows(OnList, next_timeout, NextOf)
        /\ \A i \in 0..N : OnList[i] \in Listed \cup {Null}
        /\ Listed = Visited(OnList)
    BY <1>2, <1>3, PlacesFollow DEF Shares
  <1>5. Listed \subseteq Nodes /\ Null \notin Nodes
    BY Words DEF Shares
  <1> DEFINE j == CHOOSE i \in DOMAIN OnList : OnList[i] = n
  <1>6. j \in 0..N /\ OnList[j] = n
    <2>1. \E i \in 0..N : OnList[i] = n
      BY <1>4 DEF Visited
    <2> QED
      BY <1>3, <2>1
  <1> DEFINE E(q) == [i \in 0..j |-> IF i = 0 THEN node[OnList[0]].time
                                     ELSE q[i - 1] + node[OnList[i]].time]
  <1>7. Ahead(n) = (CHOOSE q : q = E(q))[j]
    BY DEF Ahead
  <1> HIDE DEF j
  \* No place before j is empty.
  <1>8. \A i \in 0..j : OnList[i] \in Listed
    <2> DEFINE T == {i \in Nat : i <= j => OnList[j - i] \in Listed}
    <2>1. 0 \in T
      BY <1>6
    <2>2. ASSUME NEW i \in Nat, i \in T PROVE i + 1 \in T
      <3>1. CASE i + 1 <= j
        <4>1. /\ OnList[j - i] \in Listed /\ j - (i + 1) \in 0..(N - 1)
              /\ j - (i + 1) \in 0..N /\ (j - (i + 1)) + 1 = j - i
          BY <1>3, <1>6, <2>2, <3>1
        <4>2. OnList[j - (i + 1)] # Null
          BY <1>4, <1>5, <4>1 DEF Follows
        <4> QED
          BY <1>4, <4>1, <4>2
      <3> QED
        BY <3>1
    <2>3. Nat \subseteq T
      <3> HIDE DEF T
      <3> QED
        BY <2>1, <2>2, NatInd
    <2> TAKE i \in 0..j
    <2>4. j - i \in Nat /\ j - i <= j /\ j - (j - i) = i
      BY <1>6
    <2> QED
      BY <2>3, <2>4
  <1>9. /\ node[OnList[0]].time = at[OnList[0]]
        /\ \A i \in 1..j : node[OnList[i]].time = at[OnList[i]] - at[OnList[i - 1]]
    <2>1. OnList[0] = next_timeout /\ OnList[0] \in Listed
      BY <1>4, <1>6, <1>8 DEF Follows
    <2>2. ASSUME NEW i \in 1..j
          PROVE  node[OnList[i]].time = at[OnList[i]] - at[OnList[i - 1]]
      <3>1. i - 1 \in 0..j /\ i \in 0..j /\ i - 1 \in 0..(N - 1) /\ (i - 1) + 1 = i
        BY <1>3, <1>6
      <3>2. OnList[i] \in Listed /\ OnList[i - 1] \in Listed
        BY <1>8, <3>1
      <3>3. OnList[i] = NextOf[OnList[i - 1]]
        BY <1>4, <1>5, <3>1, <3>2 DEF Follows
      <3>4. node[OnList[i - 1]].next = OnList[i] /\ OnList[i] # Null
        BY <1>5, <3>2, <3>3 DEF NextOf
      <3> QED
        BY <3>2, <3>4 DEF Deltas
    <2> QED
      BY <1>5, <2>1, <2>2 DEF Deltas
  <1>10. \A i \in 0..j : at[OnList[i]] \in Int
    BY <1>5, <1>8
  <1> DEFINE g == [i \in 0..j |-> at[OnList[i]]]
  <1>11. g = E(g)
    <2>1. ASSUME NEW i \in 0..j
          PROVE  at[OnList[i]] = IF i = 0 THEN node[OnList[0]].time
                                 ELSE g[i - 1] + node[OnList[i]].time
      <3>1. CASE i = 0
        BY <1>9, <3>1
      <3>2. CASE i # 0
        <4>1. i \in 1..j /\ i - 1 \in 0..j
          BY <1>6, <3>2
        <4>2. g[i - 1] = at[OnList[i - 1]]
          BY <4>1
        <4> HIDE DEF g
        <4> QED
          BY <1>9, <1>10, <3>2, <4>1, <4>2
      <3> QED
        BY <3>1, <3>2
    <2> QED
      BY <2>1
  <1> DEFINE Sum == CHOOSE q : q = E(q)
  <1>12. Sum = E(Sum)
    <2> HIDE DEF E, g
    <2> QED
      BY <1>11
  <1> HIDE DEF Sum
  <1>13. \A i \in 0..j : Sum[i] = at[OnList[i]]
    <2> DEFINE T == {i \in Nat : i <= j => Sum[i] = at[OnList[i]]}
    <2>1. 0 \in T
      <3>1. 0 \in 0..j
        BY <1>6
      <3>2. Sum[0] = node[OnList[0]].time
        BY <1>12, <3>1
      <3> QED
        BY <1>9, <3>2
    <2>2. ASSUME NEW i \in Nat, i \in T PROVE i + 1 \in T
      <3>1. CASE i + 1 <= j
        <4>1. i + 1 \in 1..j /\ i + 1 \in 0..j /\ i \in 0..j /\ (i + 1) - 1 = i /\ i + 1 # 0
          BY <1>6, <3>1
        <4>2. Sum[i + 1] = Sum[i] + node[OnList[i + 1]].time
          BY <1>12, <4>1
        <4>3. Sum[i] = at[OnList[i]]
          BY <2>2, <4>1
        <4>4. node[OnList[i + 1]].time = at[OnList[i + 1]] - at[OnList[i]]
          BY <1>9, <4>1
        <4>5. Sum[i + 1] = at[OnList[i + 1]]
          BY <1>10, <4>1, <4>2, <4>3, <4>4
        <4> QED
          BY <4>5
      <3> QED
        BY <3>1
    <2>3. Nat \subseteq T
      <3> HIDE DEF T
      <3> QED
        BY <2>1, <2>2, NatInd
    <2> QED
      BY <1>6, <2>3
  <1>14. j \in 0..j
    BY <1>6
  <1> QED
    BY <1>6, <1>7, <1>13, <1>14 DEF Sum

\* The invariants bound what is left of a listed timer.
LEMMA NeverLateHolds ==
  ASSUME TimersInv, TimesInv
  PROVE  NeverLate
  <1> SUFFICES ASSUME ~torn, NEW n \in Listed PROVE Ahead(n) - lag <= due[node[n].h]
    BY DEF NeverLate
  <1>1. TimersTypeOK /\ Shares /\ \E at \in [Nodes -> Int] : Times(at)
    BY Unfold
  <1>2. PICK at \in [Nodes -> Int] : Times(at)
    BY <1>1
  <1>3. Deltas(at) /\ Agrees(at[n], node[n].h)
    BY <1>2 DEF Times
  <1>4. Ahead(n) = at[n]
    BY <1>1, <1>3, AheadIs
  <1> QED
    BY <1>3, <1>4 DEF Agrees

\* As long as no change of the list is cut in two, no timer is listed for later
\* than it is due, in whichever order both tasks take heads off the list, set
\* timers and handle messages: lwip_timeout_poll finds every timer that is overdue.
THEOREM TimersNeverLate == TimersSpec => []NeverLate
  <1>1. TimersInit => TimersInv /\ TimesInv
    BY TimersInitInv, InitTimes
  <1>2. TimersInv /\ TimesInv /\ [TimersNext]_timersvars => (TimersInv /\ TimesInv)'
    BY StepInv, StepTimes
  <1>3. TimersInv /\ TimesInv => NeverLate
    BY NeverLateHolds
  <1> QED
    BY <1>1, <1>2, <1>3, PTL DEF TimersSpec
=============================================================================
