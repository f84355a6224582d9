----------------------------- MODULE MC_UsbCtrl -----------------------------
(***************************************************************************)
(* UsbCtrl for TLC.                                                        *)
(***************************************************************************)
EXTENDS UsbCtrl

Req(k, n, w) == [kind |-> k, n |-> n, wlen |-> w]

\* Packets of two bytes: a descriptor of two full packets asked for with room
\* to spare, a class request for exactly two packets, data to the device with
\* a short last packet, a request that is stalled, two that are dropped, and
\* those that change or tell the device's state.
SomeRequests ==
  {Req("descriptor", 4, 5), Req("class_in", 0, 4), Req("class_out", 0, 3),
   Req("class_bad", 0, 0), Req("other_feature", 0, 0), Req("ep_feature", 0, 0),
   Req("get_config", 0, 1), Req("set_address", 1, 0), Req("set_config", 1, 0)}

\* The hypothesis of the theorems.
ASSUME RequestsWellFormed == \A r \in Requests : WellFormed(r)
=============================================================================
