---------------------------- MODULE EmacTx_proofs ----------------------------
(***************************************************************************)
(* Proofs about the transmit ring, for every number of descriptors and     *)
(* every set of tasks that call low_level_output: no wakeup of the         *)
(* transmit DMA is lost, whatever else the missing lock breaks; and as     *)
(* long as no two calls have overlapped, the ring holds the accepted       *)
(* frames in order.                                                        *)
(***************************************************************************)
EXTENDS EmacTx, TLAPS

\* The inductive invariant.
IInv == TypeOK /\ NoLostWakeup

\* The chain of descriptors stays inside the ring.
LEMMA NextDescType == \A d \in Descs : NextDesc(d) \in Descs
  BY TxAssumption DEF NextDesc, Descs

\* The state low_level_init sets up satisfies the invariant.
LEMMA InitInv == Init => IInv
  <1> SUFFICES ASSUME Init PROVE IInv
    OBVIOUS
  <1> 0 \in Descs
    BY TxAssumption DEF Descs
  <1>1. TypeOK
    <2>1. own \in [Descs -> {"dma", "cpu"}] /\ buf \in [Descs -> Frames \cup {NoFrame}]
      BY DEF Init
    <2>2. /\ pc \in [Tasks -> {"idle", "copy", "check", "own", "kick", "demand", "advance"}]
          /\ frame \in [Tasks -> Frames \cup {NoFrame}] /\ loc \in [Tasks -> Descs]
      BY DEF Init
    <2>3. accepted \in Seq(Frames)
      BY DEF Init
    <2> QED
      BY <2>1, <2>2, <2>3 DEF Init, TypeOK
  <1>2. NoLostWakeup
    BY DEF Init, NoLostWakeup
  <1> QED
    BY <1>1, <1>2 DEF IInv

\* A frame a task is sending is one of Frames.
Sending == \A t \in Tasks : pc[t] # "idle" => frame[t] \in Frames

\* Every step keeps the frames in the tasks' hands real ones.
LEMMA StepSending == TypeOK /\ Sending /\ [Next]_vars => Sending'
  <1> SUFFICES ASSUME TypeOK, Sending, [Next]_vars PROVE Sending'
    OBVIOUS
  <1> USE DEF TypeOK, Sending
  <1>1. ASSUME NEW t \in Tasks, Step(t) PROVE Sending'
    BY <1>1 DEF Step, Copy, CheckOwn, SetOwn, ClearTbu, PollDemand, Advance, Goto
  <1>2. ASSUME NEW t \in Tasks, NEW f \in Frames, Output(t, f) PROVE Sending'
    BY <1>2 DEF Output, Goto
  <1>3. CASE Dma \/ Link \/ UNCHANGED vars
    BY <1>3 DEF Dma, Transmit, Suspend, Link, Stop, Start, vars, task
  <1> QED
    BY <1>1, <1>2, <1>3 DEF Next

\* Every step of the tasks, the DMA and the link task keeps the types.
LEMMA StepTypes == TypeOK /\ Sending /\ [Next]_vars => TypeOK'
  <1> SUFFICES ASSUME TypeOK, Sending, [Next]_vars PROVE TypeOK'
    OBVIOUS
  <1> USE NextDescType DEF TypeOK
  <1>1. ASSUME NEW t \in Tasks, NEW f \in Frames, Output(t, f) PROVE TypeOK'
    BY <1>1 DEF Output, Goto, dma
  <1>2. ASSUME NEW t \in Tasks, Copy(t) \/ CheckOwn(t) PROVE TypeOK'
    BY <1>2 DEF Copy, CheckOwn, Goto, dma
  <1>3. ASSUME NEW t \in Tasks, SetOwn(t) PROVE TypeOK'
    <2>1. PICK d \in {loc[t], dma_tx_desc_to_set} : own' = [own EXCEPT ![d] = "dma"]
      BY <1>3 DEF SetOwn
    <2>2. own' \in [Descs -> {"dma", "cpu"}]
      BY <2>1
    <2>3. accepted' \in Seq(Frames)
      BY <1>3 DEF SetOwn, Sending
    <2> QED
      BY <1>3, <2>2, <2>3 DEF SetOwn, Goto, dma
  <1>4. ASSUME NEW t \in Tasks, ClearTbu(t) \/ PollDemand(t) \/ Advance(t) PROVE TypeOK'
    BY <1>4 DEF ClearTbu, PollDemand, Advance, Goto, dma
  <1>5. CASE Dma
    <2>1. CASE Transmit
      <3>1. own' \in [Descs -> {"dma", "cpu"}] /\ hw' \in Descs
        BY <2>1 DEF Transmit
      <3>2. accepted' \in Seq(Frames)
        BY <2>1 DEF Transmit
      <3> QED
        BY <2>1, <3>1, <3>2 DEF Transmit, task
    <2>2. CASE Suspend
      BY <2>2 DEF Suspend, task
    <2> QED
      BY <1>5, <2>1, <2>2 DEF Dma
  <1>6. CASE Link \/ UNCHANGED vars
    BY <1>6 DEF Link, Stop, Start, vars, dma, task
  <1> QED
    BY <1>1, <1>2, <1>3, <1>4, <1>5, <1>6 DEF Next, Step

\* Every step keeps a suspended DMA within sight of its wakeup.
LEMMA StepWakeup == IInv /\ [Next]_vars => NoLostWakeup'
  <1> SUFFICES ASSUME IInv, [Next]_vars PROVE NoLostWakeup'
    OBVIOUS
  <1> USE DEF IInv, TypeOK, NoLostWakeup
  <1>1. ASSUME NEW t \in Tasks, NEW f \in Frames, Output(t, f) PROVE NoLostWakeup'
    BY <1>1 DEF Output, Goto, dma
  <1>2. ASSUME NEW t \in Tasks, Copy(t) \/ CheckOwn(t) \/ Advance(t) PROVE NoLostWakeup'
    BY <1>2 DEF Copy, CheckOwn, Advance, Goto, dma
  <1>3. ASSUME NEW t \in Tasks, SetOwn(t) PROVE NoLostWakeup'
    BY <1>3 DEF SetOwn, Goto, dma
  <1>4. ASSUME NEW t \in Tasks, ClearTbu(t) PROVE NoLostWakeup'
    BY <1>4 DEF ClearTbu, Goto
  <1>5. ASSUME NEW t \in Tasks, PollDemand(t) PROVE NoLostWakeup'
    BY <1>5 DEF PollDemand, Goto
  <1>6. CASE Dma
    BY <1>6 DEF Dma, Transmit, Suspend, task
  <1>7. CASE Link \/ UNCHANGED vars
    BY <1>7 DEF Link, Stop, Start, vars, dma, task
  <1> QED
    BY <1>1, <1>2, <1>3, <1>4, <1>5, <1>6, <1>7 DEF Next, Step

\* The inductive invariant holds in every reachable state.
THEOREM Invariant == Spec => [](IInv /\ Sending)
  <1>1. Init => IInv /\ Sending
    BY InitInv DEF Init, Sending
  <1>2. IInv /\ Sending /\ [Next]_vars => (IInv /\ Sending)'
    BY StepSending, StepTypes, StepWakeup DEF IInv
  <1> QED
    BY <1>1, <1>2, PTL DEF Spec

\* Every variable of the transmit path keeps its type: no index of a task or
\* of the DMA leaves the ring.
THEOREM TypeCorrect == Spec => []TypeOK
  <1>1. IInv => TypeOK
    BY DEF IInv
  <1> QED
    BY <1>1, Invariant, PTL

\* A transmit DMA that suspended with a frame in its ring is always about to
\* be resumed, for every number of descriptors and of tasks.
THEOREM TxWakeups == Spec => []NoLostWakeup
  <1>1. IInv => NoLostWakeup
    BY DEF IInv
  <1> QED
    BY <1>1, Invariant, PTL

-----------------------------------------------------------------------------
(* The ring and the accepted frames, as long as calls do not overlap.      *)

\* How many descriptors the DMA has to go before it comes to d.
Offset(d) == IF hw <= d THEN d - hw ELSE d - hw + NDesc

\* The place behind the last accepted frame, in a full ring the DMA's own.
Behind(d) == Offset(d) = IF Len(accepted) = NDesc THEN 0 ELSE Len(accepted)

\* The steps of emac_txpkt_chainmode between setting OWN and moving on.
Setting == {"kick", "demand", "advance"}

\* One call at a time is inside low_level_output.
Alone == \A t, u \in Tasks : pc[t] # "idle" /\ pc[u] # "idle" => t = u

\* The DMA owns the descriptors of the accepted frames, which lie one behind
\* the other from its own on.
Ordered ==
  /\ Len(accepted) <= NDesc
  /\ \A d \in Descs : own[d] = "dma" <=> Offset(d) < Len(accepted)

\* Their buffers hold these frames, but for the first of a full ring.
Stored ==
  \A d \in Descs : Offset(d) < Len(accepted) =>
    buf[d] = accepted[Offset(d) + 1] \/ (Offset(d) = 0 /\ Len(accepted) = NDesc)

\* The next frame goes behind the last one, and the call that is inside has
\* read this descriptor and, from a point on, filled its buffer.
AtTheEnd ==
  /\ (\A t \in Tasks : pc[t] \notin Setting) => Behind(dma_tx_desc_to_set)
  /\ \A t \in Tasks :
       /\ pc[t] \in Setting => Behind(NextDesc(dma_tx_desc_to_set))
       /\ pc[t] \in {"copy", "check", "own"} => loc[t] = dma_tx_desc_to_set
       /\ pc[t] \in {"check", "own"} => buf[dma_tx_desc_to_set] = frame[t]
       /\ pc[t] = "own" => own[dma_tx_desc_to_set] = "cpu"

RingInv == raced \/ (Alone /\ Ordered /\ Stored /\ AtTheEnd)

\* The offset of a descriptor is a place in the ring, and tells it from others.
LEMMA OffsetType ==
  ASSUME TypeOK
  PROVE  \A d, e \in Descs :
           /\ Offset(d) \in 0..(NDesc - 1) /\ Offset(hw) = 0
           /\ Offset(d) = Offset(e) => d = e
           /\ Offset(NextDesc(d)) = IF Offset(d) = NDesc - 1 THEN 0 ELSE Offset(d) + 1
  BY TxAssumption DEF TypeOK, Descs, Offset, NextDesc

\* Low_level_init leaves an empty ring.
LEMMA InitRing == Init => RingInv
  <1> SUFFICES ASSUME Init PROVE Alone /\ Ordered /\ Stored /\ AtTheEnd
    BY DEF RingInv
  <1>1. TypeOK /\ Len(accepted) = 0 /\ NDesc \in Nat \ {0}
    BY InitInv, TxAssumption DEF IInv, Init
  <1>2. Ordered /\ Stored
    BY <1>1, OffsetType DEF Ordered, Stored, Init
  <1>3. hw \in Descs /\ dma_tx_desc_to_set = hw /\ Offset(hw) = 0
    BY <1>1, OffsetType DEF Init, TypeOK
  <1>4. AtTheEnd
    BY <1>1, <1>3 DEF AtTheEnd, Init, Behind, Setting
  <1> QED
    BY <1>2, <1>4 DEF Alone, Init

\* Every step keeps ring and accepted frames in agreement, until calls overlap.
LEMMA StepRing == TypeOK /\ Sending /\ RingInv /\ [Next]_vars => RingInv'
  <1> SUFFICES ASSUME TypeOK, Sending, Alone, Ordered, Stored, AtTheEnd, ~raced,
                      [Next]_vars, ~raced'
               PROVE  Alone' /\ Ordered' /\ Stored' /\ AtTheEnd'
    <2>1. raced => raced' \/ ~[Next]_vars
      BY DEF TypeOK, Next, Step, Copy, CheckOwn, SetOwn, ClearTbu, PollDemand, Advance,
             Output, Dma, Transmit, Suspend, Link, Stop, Start, vars
    <2> QED
      BY <2>1 DEF RingInv
  <1>1. ASSUME NEW t \in Tasks, NEW f \in Frames, Output(t, f)
        PROVE  Alone' /\ Ordered' /\ Stored' /\ AtTheEnd'
    <2>1. \A u \in Tasks \ {t} : pc[u] = "idle"
      BY <1>1 DEF Output
    <2>2. /\ pc' = [pc EXCEPT ![t] = "copy"] /\ loc' = [loc EXCEPT ![t] = dma_tx_desc_to_set]
          /\ UNCHANGED <<own, buf, dma_tx_desc_to_set, hw, accepted>> /\ pc[t] = "idle"
      BY <1>1 DEF Output, Goto, dma
    <2>3. Alone'
      BY <2>1, <2>2 DEF Alone, TypeOK
    <2>4. Ordered' /\ Stored'
      BY <2>2 DEF Ordered, Stored, Offset
    <2>5. AtTheEnd'
      BY <2>1, <2>2 DEF AtTheEnd, Behind, Offset, Setting, TypeOK
    <2> QED
      BY <2>3, <2>4, <2>5
  <1>2. ASSUME NEW t \in Tasks, Copy(t)
        PROVE  Alone' /\ Ordered' /\ Stored' /\ AtTheEnd'
    <2>1. \A u \in Tasks \ {t} : pc[u] = "idle"
      BY <1>2 DEF Copy, Alone
    <2>2. /\ pc' = [pc EXCEPT ![t] = "check"] /\ pc[t] = "copy"
          /\ buf' = [buf EXCEPT ![dma_tx_desc_to_set] = frame[t]]
          /\ UNCHANGED <<own, dma_tx_desc_to_set, hw, accepted, loc, frame>>
      BY <1>2 DEF Copy, Goto, dma, AtTheEnd
    <2>3. Alone'
      BY <2>1, <2>2 DEF Alone, TypeOK
    <2>4. Ordered'
      BY <2>2 DEF Ordered, Offset
    <2>5. AtTheEnd'
      BY <2>1, <2>2 DEF AtTheEnd, Behind, Offset, Setting, TypeOK
    <2>6. Behind(dma_tx_desc_to_set)
      BY <2>1, <2>2 DEF AtTheEnd, Setting
    <2>7. Stored'
      <3> SUFFICES ASSUME NEW d \in Descs, Offset(d) < Len(accepted)
                   PROVE  \/ buf'[d] = accepted[Offset(d) + 1]
                          \/ Offset(d) = 0 /\ Len(accepted) = NDesc
        BY <2>2 DEF Stored, Offset
      <3>1. CASE d = dma_tx_desc_to_set
        BY <2>6, <3>1, OffsetType DEF Behind, TypeOK
      <3>2. CASE d # dma_tx_desc_to_set
        BY <2>2, <3>2 DEF Stored, TypeOK
      <3> QED
        BY <3>1, <3>2
    <2> QED
      BY <2>3, <2>4, <2>5, <2>7
  <1>3. ASSUME NEW t \in Tasks, CheckOwn(t)
        PROVE  Alone' /\ Ordered' /\ Stored' /\ AtTheEnd'
    <2>1. \A u \in Tasks \ {t} : pc[u] = "idle"
      BY <1>3 DEF CheckOwn, Alone
    <2>2. /\ pc[t] = "check" /\ loc' = [loc EXCEPT ![t] = dma_tx_desc_to_set]
          /\ pc' = [pc EXCEPT ![t] = IF own[dma_tx_desc_to_set] = "dma" THEN "idle" ELSE "own"]
          /\ UNCHANGED <<own, buf, dma_tx_desc_to_set, hw, accepted, frame>>
      BY <1>3 DEF CheckOwn, Goto, dma
    <2>3. Alone'
      BY <2>1, <2>2 DEF Alone, TypeOK
    <2>4. Ordered' /\ Stored'
      BY <2>2 DEF Ordered, Stored, Offset
    <2>5. AtTheEnd'
      BY <2>1, <2>2 DEF AtTheEnd, Behind, Offset, Setting, TypeOK
    <2> QED
      BY <2>3, <2>4, <2>5
  <1>4. ASSUME NEW t \in Tasks, SetOwn(t)
        PROVE  Alone' /\ Ordered' /\ Stored' /\ AtTheEnd'
    <2> DEFINE d0 == dma_tx_desc_to_set
    <2>1. \A u \in Tasks \ {t} : pc[u] = "idle"
      BY <1>4 DEF SetOwn, Alone
    <2>2. /\ pc[t] = "own" /\ pc' = [pc EXCEPT ![t] = "kick"]
          /\ own' = [own EXCEPT ![d0] = "dma"]
          /\ accepted' = Append(accepted, frame[t])
          /\ UNCHANGED <<buf, dma_tx_desc_to_set, hw, loc, frame>>
      BY <1>4 DEF SetOwn, Goto, dma, AtTheEnd
    <2>3. /\ d0 \in Descs /\ own[d0] = "cpu" /\ buf[d0] = frame[t] /\ Behind(d0)
          /\ frame[t] \in Frames
      BY <2>1, <2>2 DEF AtTheEnd, Setting, TypeOK, Sending
    <2>4. /\ Offset(d0) = Len(accepted) /\ Len(accepted) \in 0..(NDesc - 1)
          /\ NDesc \in Nat \ {0}
      BY <2>3, OffsetType, TxAssumption DEF Behind, Ordered, TypeOK
    <2>5. /\ Len(accepted') = Len(accepted) + 1 /\ accepted'[Len(accepted) + 1] = frame[t]
          /\ \A i \in 1..Len(accepted) : accepted'[i] = accepted[i]
      BY <2>2, <2>3 DEF TypeOK
    <2>6. \A d \in Descs : Offset(d)' = Offset(d) /\ (Offset(d) = Len(accepted) <=> d = d0)
      BY <2>2, <2>3, <2>4, OffsetType DEF Offset
    <2>7. Alone'
      BY <2>1, <2>2 DEF Alone, TypeOK
    <2>8. Ordered'
      BY <2>2, <2>3, <2>4, <2>5, <2>6, OffsetType DEF Ordered, TypeOK
    <2>9. Stored'
      <3> SUFFICES ASSUME NEW d \in Descs, Offset(d) < Len(accepted) + 1
                   PROVE  \/ buf[d] = accepted'[Offset(d) + 1]
                          \/ Offset(d) = 0 /\ Len(accepted) + 1 = NDesc
        BY <2>2, <2>5, <2>6 DEF Stored
      <3>1. CASE d = d0
        BY <3>1, <2>3, <2>4, <2>5
      <3>2. CASE d # d0
        BY <3>2, <2>4, <2>5, <2>6, OffsetType DEF Stored
      <3> QED
        BY <3>1, <3>2
    <2>10. Behind(NextDesc(d0))'
      <3> DEFINE e == NextDesc(d0)
      <3>1. e \in Descs /\ (IF d0 = NDesc - 1 THEN e = 0 ELSE e = d0 + 1)
        BY <2>3, NextDescType, TxAssumption DEF NextDesc, Descs
      <3> HIDE DEF e
      <3>2. Offset(e) = IF Len(accepted) + 1 = NDesc THEN 0 ELSE Len(accepted) + 1
        <4>1. hw \in 0..(NDesc - 1) /\ d0 \in 0..(NDesc - 1)
          BY <2>3 DEF Descs, TypeOK
        <4>2. CASE d0 = NDesc - 1
          BY <2>4, <3>1, <4>1, <4>2 DEF Offset
        <4>3. CASE d0 # NDesc - 1
          BY <2>4, <3>1, <4>1, <4>3 DEF Offset
        <4> QED
          BY <4>2, <4>3
      <3>3. e' = e
        BY <2>2, <2>3 DEF e, NextDesc
      <3>4. Offset(e)' = Offset(e)
        BY <2>2, <3>3 DEF Offset
      <3>5. Behind(e)'
        BY <2>5, <3>2, <3>3, <3>4 DEF Behind
      <3> QED
        BY <3>4, <3>5 DEF e
    <2>11. AtTheEnd'
      BY <2>1, <2>2, <2>10 DEF AtTheEnd, Setting, TypeOK
    <2> QED
      BY <2>7, <2>8, <2>9, <2>11
  <1>5. ASSUME NEW t \in Tasks, ClearTbu(t) \/ PollDemand(t)
        PROVE  Alone' /\ Ordered' /\ Stored' /\ AtTheEnd'
    <2>1. \A u \in Tasks \ {t} : pc[u] = "idle"
      BY <1>5 DEF ClearTbu, PollDemand, Alone
    <2>2. /\ pc[t] \in Setting /\ pc' \in {[pc EXCEPT ![t] = s] : s \in Setting}
          /\ UNCHANGED <<own, buf, dma_tx_desc_to_set, hw, accepted, loc, frame>>
      BY <1>5 DEF ClearTbu, PollDemand, Goto, Setting
    <2>3. Alone'
      BY <2>1, <2>2 DEF Alone, TypeOK, Setting
    <2>4. Ordered' /\ Stored'
      BY <2>2 DEF Ordered, Stored, Offset
    <2>5. AtTheEnd'
      BY <2>1, <2>2 DEF AtTheEnd, Behind, Offset, NextDesc, Setting, TypeOK
    <2> QED
      BY <2>3, <2>4, <2>5
  <1>6. ASSUME NEW t \in Tasks, Advance(t)
        PROVE  Alone' /\ Ordered' /\ Stored' /\ AtTheEnd'
    <2>1. \A u \in Tasks \ {t} : pc[u] = "idle"
      BY <1>6 DEF Advance, Alone
    <2>2. /\ pc[t] = "advance" /\ pc' = [pc EXCEPT ![t] = "idle"]
          /\ dma_tx_desc_to_set' = NextDesc(dma_tx_desc_to_set)
          /\ UNCHANGED <<own, buf, hw, accepted, loc, frame>>
      BY <1>6 DEF Advance, Goto, dma
    <2>3. Alone'
      BY <2>1, <2>2 DEF Alone, TypeOK
    <2>4. Ordered' /\ Stored'
      BY <2>2 DEF Ordered, Stored, Offset
    <2>5. AtTheEnd'
      BY <2>1, <2>2 DEF AtTheEnd, Behind, Offset, Setting, TypeOK
    <2> QED
      BY <2>3, <2>4, <2>5
  <1>7. CASE Transmit
    <2>1. /\ own[hw] = "dma" /\ own' = [own EXCEPT ![hw] = "cpu"] /\ hw' = NextDesc(hw)
          /\ accepted' = IF accepted = <<>> THEN accepted ELSE Tail(accepted)
          /\ UNCHANGED <<buf, dma_tx_desc_to_set, pc, frame, loc>>
      BY <1>7 DEF Transmit, task
    <2>2. /\ Len(accepted) \in 1..NDesc /\ accepted \in Seq(Frames) /\ hw \in Descs
          /\ NDesc \in Nat \ {0}
      BY <2>1, OffsetType, TxAssumption DEF Ordered, TypeOK
    <2>3. /\ Len(accepted') = Len(accepted) - 1
          /\ \A i \in 1..(Len(accepted) - 1) : accepted'[i] = accepted[i + 1]
      BY <2>1, <2>2
    <2>4. \A d \in Descs : Offset(d)' = IF d = hw THEN NDesc - 1 ELSE Offset(d) - 1
      BY <2>1, <2>2 DEF Offset, NextDesc, Descs
    <2>5. \A d \in Descs : d # hw <=> Offset(d) > 0
      BY <2>2, OffsetType
    <2>6. Alone'
      BY <2>1 DEF Alone
    <2>7. Ordered'
      BY <2>1, <2>2, <2>3, <2>4, <2>5, OffsetType, SMTT(30) DEF Ordered, TypeOK
    <2>8. Stored'
      <3> SUFFICES ASSUME NEW d \in Descs, Offset(d)' < Len(accepted) - 1
                   PROVE  buf[d] = accepted'[Offset(d)' + 1]
        BY <2>1, <2>3 DEF Stored
      <3>1. d # hw /\ Offset(d)' = Offset(d) - 1 /\ Offset(d) \in 1..(NDesc - 1)
        BY <2>2, <2>4, <2>5, OffsetType
      <3>2. buf[d] = accepted[Offset(d) + 1]
        BY <2>2, <3>1 DEF Stored
      <3> QED
        BY <2>2, <2>3, <3>1, <3>2
    <2>9. \A d \in Descs : Behind(d) => Behind(d)'
      BY <2>2, <2>3, <2>4, <2>5, OffsetType DEF Behind
    <2>10. AtTheEnd'
      BY <2>1, <2>9, NextDescType DEF AtTheEnd, TypeOK, NextDesc
    <2> QED
      BY <2>6, <2>7, <2>8, <2>10
  <1>8. CASE Suspend \/ Link \/ UNCHANGED vars
    <2>1. UNCHANGED <<own, buf, dma_tx_desc_to_set, hw, pc, frame, loc, accepted>>
      BY <1>8 DEF Suspend, Link, Stop, Start, vars, dma, task
    <2> QED
      BY <2>1 DEF Alone, Ordered, Stored, AtTheEnd, Behind, Offset, NextDesc
  <1> QED
    BY <1>1, <1>2, <1>3, <1>4, <1>5, <1>6, <1>7, <1>8 DEF Next, Step, Dma

\* (hw + i - 1) % NDesc is the descriptor at offset i - 1.
LEMMA AheadOffset ==
  ASSUME TypeOK
  PROVE  /\ \A i \in 1..NDesc : Ahead(i) \in Descs /\ Offset(Ahead(i)) = i - 1
         /\ \A d \in Descs : Offset(d) + 1 \in 1..NDesc /\ Ahead(Offset(d) + 1) = d
  <1>0. NDesc \in Nat \ {0} /\ hw \in 0..(NDesc - 1)
    BY TxAssumption DEF TypeOK, Descs
  <1>1. \A k \in 0..(2 * NDesc - 1) : k % NDesc = IF k < NDesc THEN k ELSE k - NDesc
    <2> SUFFICES ASSUME NEW k \in 0..(2 * NDesc - 1)
                 PROVE  k % NDesc = IF k < NDesc THEN k ELSE k - NDesc
      OBVIOUS
    <2>1. CASE k < NDesc
      BY <1>0, <2>1
    <2>2. CASE k >= NDesc
      BY <1>0, <2>2
    <2> QED
      BY <1>0, <2>1, <2>2
  <1>2. ASSUME NEW i \in 1..NDesc
        PROVE  Ahead(i) \in Descs /\ Offset(Ahead(i)) = i - 1
    <2>1. hw + i - 1 \in 0..(2 * NDesc - 1)
      BY <1>0
    <2>2. Ahead(i) = IF hw + i - 1 < NDesc THEN hw + i - 1 ELSE hw + i - 1 - NDesc
      BY <1>0, <1>1, <2>1 DEF Ahead
    <2> QED
      BY <1>0, <2>2 DEF Descs, Offset
  <1>3. ASSUME NEW d \in Descs
        PROVE  Offset(d) + 1 \in 1..NDesc /\ Ahead(Offset(d) + 1) = d
    <2> DEFINE j == Offset(d) + 1
    <2>1. j \in 1..NDesc /\ j - 1 = Offset(d)
      BY <1>0, OffsetType
    <2> HIDE DEF j
    <2>2. Offset(Ahead(j)) = j - 1 /\ Ahead(j) \in Descs
      BY <1>2, <2>1
    <2>3. Ahead(j) = d
      BY <2>1, <2>2, OffsetType
    <2> QED
      BY <2>1, <2>3 DEF j
  <1> QED
    BY <1>2, <1>3

\* For every number of descriptors and of tasks: as long as no two calls of
\* low_level_output have overlapped, the DMA owns exactly the frames told
\* ERR_OK and not yet sent, in order and with their contents, apart from the
\* buffer that a refused frame may overwrite in a full ring.
THEOREM FramesStayInRing == Spec => []RingHoldsAccepted
  <1>1. ASSUME TypeOK, RingInv PROVE RingHoldsAccepted
    <2> SUFFICES ASSUME ~raced, Ordered, Stored
                 PROVE  /\ Owned = {Ahead(i) : i \in 1..Len(accepted)}
                        /\ \A i \in 1..Len(accepted) :
                             buf[Ahead(i)] = accepted[i] \/ (i = 1 /\ Owned = Descs)
      BY <1>1 DEF RingInv, RingHoldsAccepted
    <2>1. Len(accepted) \in 0..NDesc /\ NDesc \in Nat \ {0}
      BY <1>1, TxAssumption DEF Ordered, TypeOK
    <2>2. \A d \in Descs : d \in Owned <=> Offset(d) + 1 \in 1..Len(accepted)
      BY <1>1, <2>1, OffsetType DEF Ordered, Owned
    <2>3. \A i \in 1..Len(accepted) : Ahead(i) \in Owned /\ Offset(Ahead(i)) = i - 1
      BY <1>1, <2>1, <2>2, AheadOffset
    <2>4. Owned = {Ahead(i) : i \in 1..Len(accepted)}
      BY <1>1, <2>2, <2>3, AheadOffset DEF Owned
    <2>5. Len(accepted) = NDesc => Owned = Descs
      BY <1>1, <2>1, <2>2, OffsetType DEF Owned
    <2>6. ASSUME NEW i \in 1..Len(accepted)
          PROVE  buf[Ahead(i)] = accepted[i] \/ (i = 1 /\ Owned = Descs)
      <3>1. Ahead(i) \in Descs /\ Offset(Ahead(i)) = i - 1 /\ i \in Nat
        BY <2>1, <2>3 DEF Owned
      <3> QED
        BY <2>1, <2>5, <3>1 DEF Stored
    <2> QED
      BY <2>4, <2>6
  <1>2. Spec => []RingInv
    <2>1. TypeOK /\ Sending /\ RingInv /\ [Next]_vars => RingInv'
      BY StepRing
    <2>2. IInv => TypeOK
      BY DEF IInv
    <2> QED
      BY InitRing, Invariant, <2>1, <2>2, PTL DEF Spec
  <1> QED
    BY <1>1, <1>2, TypeCorrect, PTL
==============================================================================
