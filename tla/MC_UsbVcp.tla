----------------------------- MODULE MC_UsbVcp -----------------------------
(***************************************************************************)
(* UsbVcpRx and UsbVcpTx for TLC.  The two directions share no variable;   *)
(* a behaviour uses the one or the other, which is chosen at its start.    *)
(*                                                                         *)
(* Receiving: packets of up to two bytes and two identities, enough for a  *)
(* buffer that mixes two packets, a short packet and an empty one.         *)
(* Sending: three messages, so that a message of before a                  *)
(* SET_CONFIGURATION, the current one and the next one differ.             *)
(***************************************************************************)
EXTENDS UsbVcpRx, UsbVcpTx

VARIABLE direction

vcpvars == <<vars, txvars, direction>>

Receiving(A) == direction = "rx" /\ A /\ UNCHANGED <<txvars, direction>>
Sending(A)   == direction = "tx" /\ A /\ UNCHANGED <<vars, direction>>

VcpInit == Init /\ TxInit /\ direction \in {"rx", "tx"}

VcpNext == Receiving(Next) \/ Sending(TxNext)

\* The fairness of FairSpec and of TxFairSpec, for the direction that is used.
VcpSpec ==
  /\ VcpInit /\ [][VcpNext]_vcpvars
  /\ WF_vcpvars(Receiving(GetRxData))
  /\ WF_vcpvars(Receiving(RxFlvl))
  /\ WF_vcpvars(Receiving(OutXferc))
  /\ WF_vcpvars(Sending(SendData))
  /\ WF_vcpvars(Sending(TxFifoEmpty))
  /\ WF_vcpvars(Sending(InXferc))
  /\ WF_vcpvars(Sending(HostIn))
=============================================================================
