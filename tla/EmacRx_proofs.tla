---------------------------- MODULE EmacRx_proofs ----------------------------
(***************************************************************************)
(* Proofs about the receive ring, for every number of descriptors, every   *)
(* set of frames and every FIFO: the network task only touches descriptors *)
(* it owns, no wakeup of the receive DMA is lost, and ring, FIFO and task  *)
(* together implement a queue of frames.                                   *)
(***************************************************************************)
EXTENDS EmacRx, FiniteSetTheorems, SequenceTheorems, TLAPS

\* Between the size poll and emac_rxpkt_chainmode the descriptor stays the
\* CPU's, and a whole frame: nobody but the task hands descriptors back.
PolledIsOurs ==
  pc = "rxpkt" => /\ own[dma_rx_desc_to_get] = "cpu"
                  /\ st[dma_rx_desc_to_get] = "FS|LS"

\* The inductive invariant.
IInv == TypeOK /\ HeldIsOurs /\ PolledIsOurs /\ NoLostWakeup

\* The chain of descriptors stays inside the ring.
LEMMA NextDescType == \A d \in Descs : NextDesc(d) \in Descs
  BY RxAssumption DEF NextDesc, Descs

\* The state low_level_init sets up satisfies the invariant.
LEMMA InitInv == Init => IInv
  <1> SUFFICES ASSUME Init PROVE IInv
    OBVIOUS
  <1> 0 \in Descs
    BY RxAssumption DEF Descs
  <1> QED
    BY DEF Init, IInv, TypeOK, HeldIsOurs, Held, PolledIsOurs, NoLostWakeup

\* Every step of DMA, network task and link task keeps the types.
LEMMA StepTypes == TypeOK /\ HeldIsOurs /\ [Next]_vars => TypeOK'
  <1> SUFFICES ASSUME TypeOK, HeldIsOurs, [Next]_vars PROVE TypeOK'
    OBVIOUS
  <1> USE NextDescType
  <1>1. ASSUME NEW f \in Frames, Arrive(f) PROVE TypeOK'
    BY <1>1 DEF TypeOK, Arrive, ring, task
  <1>2. CASE Store
    <2>1. /\ hw \in Descs /\ Head(fifo) \in Frames /\ Tail(fifo) \in Seq(Frames)
          /\ fifo \in Seq(Frames)
      BY <1>2 DEF Store, TypeOK
    <2>2. own' \in [Descs -> {"dma", "cpu"}] /\ st' \in [Descs -> {"FS|LS", "FS", "LS"}]
      BY <1>2, <2>1 DEF Store, TypeOK
    <2>3. buf' \in [Descs -> Frames \cup {NoFrame}]
      BY <1>2, <2>1 DEF Store, TypeOK
    <2>4. half' \in BOOLEAN /\ fifo' \in Seq(Frames) /\ hw' \in Descs
      BY <1>2, <2>1 DEF Store, TypeOK
    <2> QED
      BY <1>2, <2>2, <2>3, <2>4 DEF Store, TypeOK, task
  <1>3. CASE Suspend \/ Link
    BY <1>3 DEF Suspend, Link, Stop, Start, TypeOK, ring, task
  <1>4. CASE PacketReady \/ RxPkt
    BY <1>4 DEF PacketReady, RxPkt, TypeOK, ring, dma
  <1>5. CASE Copy \/ Give
    <2>1. cur \in Descs
      BY <1>5 DEF Copy, Give, HeldIsOurs, Held
    <2> QED
      BY <1>5, <2>1 DEF Copy, Give, TypeOK, ring, dma
  <1>6. CASE Resume \/ PollDemand
    BY <1>6 DEF Resume, PollDemand, TypeOK, ring
  <1>7. CASE UNCHANGED vars
    BY <1>7 DEF vars, ring, dma, task, TypeOK
  <1> QED
    BY <1>1, <1>2, <1>3, <1>4, <1>5, <1>6, <1>7 DEF Next, Dma, NetTask

\* Every step keeps the descriptors in the task's hands its own.
LEMMA StepOwner == IInv /\ [Next]_vars => HeldIsOurs' /\ PolledIsOurs'
  <1> SUFFICES ASSUME IInv, [Next]_vars PROVE HeldIsOurs' /\ PolledIsOurs'
    OBVIOUS
  <1> USE DEF IInv, HeldIsOurs, Held, PolledIsOurs
  <1>1. CASE Store
    BY <1>1 DEF Store, TypeOK, task
  <1>2. CASE PacketReady \/ RxPkt
    BY <1>2 DEF PacketReady, RxPkt, TypeOK, ring, dma
  <1>3. CASE Copy \/ Give
    BY <1>3 DEF Copy, Give, ring, dma
  <1>4. CASE Resume \/ PollDemand
    BY <1>4 DEF Resume, PollDemand, ring
  <1>5. CASE Suspend \/ Link \/ (\E f \in Frames : Arrive(f)) \/ UNCHANGED vars
    BY <1>5 DEF Suspend, Link, Stop, Start, Arrive, vars, ring, task
  <1> QED
    BY <1>1, <1>2, <1>3, <1>4, <1>5 DEF Next, Dma, NetTask

\* Every step keeps a suspended DMA within sight of its wakeup.
LEMMA StepWakeup == IInv /\ [Next]_vars => NoLostWakeup'
  <1> SUFFICES ASSUME IInv, [Next]_vars PROVE NoLostWakeup'
    OBVIOUS
  <1> USE DEF IInv, NoLostWakeup
  <1>1. CASE Store \/ Suspend
    BY <1>1 DEF Store, Suspend, TypeOK, ring, task
  <1>2. CASE PacketReady
    BY <1>2 DEF PacketReady, ring, dma
  <1>3. CASE RxPkt
    BY <1>3 DEF RxPkt, PolledIsOurs, ring
  <1>4. CASE Copy \/ Give
    BY <1>4 DEF Copy, Give, ring, dma
  <1>5. CASE Resume \/ PollDemand
    BY <1>5 DEF Resume, PollDemand, TypeOK, ring
  <1>6. CASE Link \/ (\E f \in Frames : Arrive(f)) \/ UNCHANGED vars
    BY <1>6 DEF Link, Stop, Start, Arrive, vars, ring, dma, task
  <1> QED
    BY <1>1, <1>2, <1>3, <1>4, <1>5, <1>6 DEF Next, Dma, NetTask

\* The inductive invariant holds in every reachable state.
THEOREM Invariant == Spec => []IInv
  <1>1. IInv /\ [Next]_vars => IInv'
    BY StepTypes, StepOwner, StepWakeup DEF IInv
  <1> QED
    BY <1>1, InitInv, PTL DEF Spec

\* Every variable of the receive path keeps its type: no index leaves the ring.
THEOREM TypeCorrect == Spec => []TypeOK
  <1>1. IInv => TypeOK
    BY DEF IInv
  <1> QED
    BY <1>1, Invariant, PTL

\* low_level_input never copies from, or hands back, a descriptor that the
\* DMA owns or that does not exist, for every size of the ring.
THEOREM DescriptorsHeld == Spec => []HeldIsOurs
  <1>1. IInv => HeldIsOurs
    BY DEF IInv
  <1> QED
    BY <1>1, Invariant, PTL

\* No order of the steps of low_level_input and of the DMA loses a wakeup,
\* for every size of the ring.
THEOREM RxWakeups == Spec => []NoLostWakeup
  <1>1. IInv => NoLostWakeup
    BY DEF IInv
  <1> QED
    BY <1>1, Invariant, PTL

-----------------------------------------------------------------------------
(* The ring.                                                               *)

\* The descriptors with a frame the task has not looked at follow each other
\* from dma_rx_desc_to_get on, the DMA goes on after the last of them, and
\* the descriptor the task holds is the one before the first.
RingInv ==
  \E n \in 0..NDesc :
    /\ \A d \in Descs : d \in Filled <=> Offset(d) < n
    /\ Offset(hw) = IF n = NDesc THEN 0 ELSE n
    /\ \A d \in Held : Offset(d) = NDesc - 1 /\ n < NDesc

\* Offsets number the descriptors from dma_rx_desc_to_get on.
LEMMA OffsetType ==
  ASSUME TypeOK
  PROVE  /\ \A d \in Descs : Offset(d) \in 0..(NDesc - 1)
         /\ \A d, e \in Descs : Offset(d) = Offset(e) => d = e
         /\ Offset(dma_rx_desc_to_get) = 0
         /\ \A d \in Descs : Offset(d) = 0 => d = dma_rx_desc_to_get
  BY RxAssumption DEF TypeOK, Descs, Offset

\* The next descriptor in the chain has the next offset.
LEMMA OffsetNext ==
  ASSUME TypeOK, NEW d \in Descs
  PROVE  Offset(NextDesc(d)) = IF Offset(d) = NDesc - 1 THEN 0 ELSE Offset(d) + 1
  BY RxAssumption DEF TypeOK, Descs, Offset, NextDesc

\* When dma_rx_desc_to_get moves on, every offset shrinks by one.
LEMMA OffsetMoves ==
  ASSUME TypeOK, dma_rx_desc_to_get' = NextDesc(dma_rx_desc_to_get)
  PROVE  \A d \in Descs :
           Offset(d)' = IF d = dma_rx_desc_to_get THEN NDesc - 1 ELSE Offset(d) - 1
  BY RxAssumption DEF TypeOK, Descs, Offset, NextDesc

\* A step that leaves dma_rx_desc_to_get alone leaves the offsets alone.
LEMMA OffsetStays ==
  ASSUME UNCHANGED dma_rx_desc_to_get
  PROVE  \A d : Offset(d)' = Offset(d)
  BY DEF Offset

\* Where the DMA stores: right after the filled descriptors.
LEMMA StorePlace ==
  ASSUME IInv, RingInv, own[hw] = "dma"
  PROVE  /\ hw \in Descs /\ hw \notin Filled /\ hw \notin Held
         /\ \A d \in Filled : Offset(d) < Offset(hw)
  <1> PICK n \in 0..NDesc :
         /\ \A d \in Descs : d \in Filled <=> Offset(d) < n
         /\ Offset(hw) = IF n = NDesc THEN 0 ELSE n
         /\ \A d \in Held : Offset(d) = NDesc - 1 /\ n < NDesc
    BY DEF RingInv
  <1>1. hw \in Descs /\ hw \notin Filled /\ hw \notin Held
    BY DEF IInv, TypeOK, Filled, HeldIsOurs
  <1>2. NDesc \in Nat /\ NDesc > 0 /\ n \in Nat
    BY RxAssumption
  <1>3. n # NDesc
    BY <1>1, <1>2
  <1> QED
    BY <1>1, <1>2, <1>3 DEF Filled

\* A store fills exactly descriptor hw.
LEMMA StoreFills ==
  ASSUME IInv, RingInv, Store
  PROVE  /\ Held' = Held
         /\ Filled' = Filled \cup {hw}
         /\ \A d \in Filled : st'[d] = st[d] /\ buf'[d] = buf[d]
         /\ st'[hw] = "FS" <=> half'
         /\ buf'[hw] = Head(fifo)
  <1>1. hw \in Descs /\ hw \notin Filled /\ hw \notin Held
    BY StorePlace DEF Store
  <1>2. Held' = Held
    BY DEF Store, task, Held
  <1>3. \A d \in Descs : own'[d] = IF d = hw THEN "cpu" ELSE own[d]
    BY DEF Store, IInv, TypeOK
  <1>4. Filled' = Filled \cup {hw}
    BY <1>1, <1>2, <1>3 DEF Filled
  <1>5. \A d \in Filled : st'[d] = st[d] /\ buf'[d] = buf[d]
    BY <1>1 DEF Store, IInv, TypeOK, Filled
  <1>6. buf'[hw] = Head(fifo)
    BY <1>1 DEF Store, IInv, TypeOK
  <1>7. st'[hw] = IF Head(fifo) \notin Long THEN "FS|LS"
                  ELSE IF half THEN "LS" ELSE "FS"
    BY <1>1 DEF Store, IInv, TypeOK
  <1>8. st'[hw] = "FS" <=> half'
    BY <1>7 DEF Store, IInv, TypeOK
  <1> QED
    BY <1>2, <1>4, <1>5, <1>6, <1>8

\* emac_rxpkt_chainmode takes exactly the descriptor it looks at.
LEMMA RxPktTakes ==
  ASSUME IInv, RxPkt
  PROVE  /\ Held = {} /\ Held' = {dma_rx_desc_to_get}
         /\ cur' = dma_rx_desc_to_get
         /\ dma_rx_desc_to_get' = NextDesc(dma_rx_desc_to_get)
         /\ dma_rx_desc_to_get \in Filled
         /\ Filled' = Filled \ {dma_rx_desc_to_get}
         /\ UNCHANGED <<own, st, buf, fifo, hw, p>>
         /\ pc = "rxpkt" /\ pc' = "copy"
  <1>1. /\ own[dma_rx_desc_to_get] = "cpu" /\ dma_rx_desc_to_get \in Descs
        /\ pc = "rxpkt" /\ pc' = "copy"
        /\ UNCHANGED <<own, st, buf, fifo, hw, p>>
    BY DEF RxPkt, IInv, TypeOK, PolledIsOurs, ring
  <1>2. cur' = dma_rx_desc_to_get /\ dma_rx_desc_to_get' = NextDesc(dma_rx_desc_to_get)
    BY <1>1 DEF RxPkt
  <1>3. Held = {} /\ Held' = {dma_rx_desc_to_get}
    BY <1>1, <1>2 DEF Held
  <1> QED
    BY <1>1, <1>2, <1>3 DEF Filled

\* A step that moves neither pointer and returns or holds back only what the
\* task held keeps the ring.
LEMMA RingKept ==
  ASSUME RingInv, UNCHANGED <<dma_rx_desc_to_get, hw>>,
         Filled' = Filled, Held' \subseteq Held
  PROVE  RingInv'
  <1> PICK n \in 0..NDesc :
         /\ \A d \in Descs : d \in Filled <=> Offset(d) < n
         /\ Offset(hw) = IF n = NDesc THEN 0 ELSE n
         /\ \A d \in Held : Offset(d) = NDesc - 1 /\ n < NDesc
    BY DEF RingInv
  <1>1. \A d : Offset(d)' = Offset(d)
    BY OffsetStays
  <1>2. Offset(hw)' = Offset(hw)
    BY DEF Offset
  <1>3. \A d \in Descs : d \in Filled' <=> Offset(d)' < n
    BY <1>1
  <1>4. Offset(hw)' = IF n = NDesc THEN 0 ELSE n
    BY <1>2
  <1>5. \A d \in Held' : Offset(d)' = NDesc - 1 /\ n < NDesc
    BY <1>1
  <1> QED
    BY <1>3, <1>4, <1>5 DEF RingInv

\* A step of anyone but the DMA's store and emac_rxpkt_chainmode leaves the
\* filled descriptors, what is in them and the pointers alone.
LEMMA OthersKeep ==
  ASSUME IInv, [Next]_vars, ~Store, ~RxPkt
  PROVE  /\ UNCHANGED <<dma_rx_desc_to_get, hw, st, buf, Filled>>
         /\ Held' \subseteq Held
  <1>1. CASE PacketReady \/ Copy
    BY <1>1 DEF PacketReady, Copy, ring, dma, Filled, Held
  <1>2. CASE Give
    <2>1. cur \in Descs /\ own \in [Descs -> {"dma", "cpu"}]
      BY <1>2 DEF Give, IInv, TypeOK, HeldIsOurs, Held
    <2>2. Held = {cur} /\ Held' = {}
      BY <1>2 DEF Give, Held
    <2>3. \A d \in Descs : own'[d] = IF d = cur THEN "dma" ELSE own[d]
      BY <1>2, <2>1 DEF Give
    <2>4. Filled' = Filled
      BY <2>2, <2>3 DEF Filled
    <2> QED
      BY <1>2, <2>2, <2>4 DEF Give, dma
  <1>3. CASE Resume \/ PollDemand
    BY <1>3 DEF Resume, PollDemand, ring, Filled, Held
  <1>4. CASE Suspend \/ Link \/ (\E f \in Frames : Arrive(f)) \/ UNCHANGED vars
    BY <1>4 DEF Suspend, Link, Stop, Start, Arrive, vars, ring, dma, task, Filled, Held
  <1> QED
    BY <1>1, <1>2, <1>3, <1>4 DEF Next, Dma, NetTask

\* Every step keeps the ring in order.
LEMMA StepRing == IInv /\ RingInv /\ [Next]_vars => RingInv'
  <1> SUFFICES ASSUME IInv, RingInv, [Next]_vars PROVE RingInv'
    OBVIOUS
  <1> PICK n \in 0..NDesc :
         /\ \A d \in Descs : d \in Filled <=> Offset(d) < n
         /\ Offset(hw) = IF n = NDesc THEN 0 ELSE n
         /\ \A d \in Held : Offset(d) = NDesc - 1 /\ n < NDesc
    BY DEF RingInv
  <1>0. NDesc \in Nat /\ NDesc > 0 /\ n \in Nat /\ n <= NDesc /\ TypeOK
    BY RxAssumption DEF IInv
  <1>1. CASE Store
    <2>1. /\ hw \in Descs /\ hw \notin Filled /\ hw \notin Held
          /\ own[hw] = "dma" /\ hw' = NextDesc(hw)
      BY <1>1, StorePlace DEF Store
    <2>2. Held' = Held /\ Filled' = Filled \cup {hw}
      BY <1>1, StoreFills
    <2>3. \A d : Offset(d)' = Offset(d)
      BY <1>1, OffsetStays DEF Store, task
    <2>4. n < NDesc /\ Offset(hw) = n
      BY <1>0, <2>1
    <2>5. \A d \in Descs : d \in Filled' <=> Offset(d)' < n + 1
      <3> SUFFICES ASSUME NEW d \in Descs PROVE d \in Filled' <=> Offset(d)' < n + 1
        OBVIOUS
      <3>1. Offset(d) \in 0..(NDesc - 1) /\ (Offset(d) = n => d = hw)
        BY <1>0, <2>1, <2>4, OffsetType
      <3> QED
        BY <1>0, <2>2, <2>3, <2>4, <3>1
    <2>6. Offset(hw)' = IF n + 1 = NDesc THEN 0 ELSE n + 1
      <3>1. Offset(NextDesc(hw)) = IF n = NDesc - 1 THEN 0 ELSE n + 1
        BY <1>0, <2>1, <2>4, OffsetNext
      <3>2. Offset(hw)' = Offset(hw')
        BY <1>1 DEF Store, task, Offset
      <3> QED
        BY <1>0, <2>1, <3>1, <3>2
    <2>7. \A d \in Held' : Offset(d)' = NDesc - 1 /\ n + 1 < NDesc
      <3> SUFFICES ASSUME NEW d \in Held PROVE Offset(d) = NDesc - 1 /\ n + 1 < NDesc
        BY <2>2, <2>3
      <3>1. d \in Descs /\ d # hw
        BY <2>1 DEF IInv, HeldIsOurs
      <3>2. Offset(d) # Offset(hw)
        BY <1>0, <2>1, <3>1, OffsetType
      <3> QED
        BY <1>0, <2>4, <3>2
    <2>8. n + 1 \in 0..NDesc
      BY <1>0, <2>4
    <2> QED
      BY <2>5, <2>6, <2>7, <2>8 DEF RingInv
  <1>2. CASE RxPkt
    <2> DEFINE g == dma_rx_desc_to_get
    <2>1. /\ Held' = {g} /\ g' = NextDesc(g) /\ g \in Filled /\ g \in Descs
          /\ Filled' = Filled \ {g} /\ hw' = hw /\ hw \in Descs
      BY <1>2, RxPktTakes DEF IInv, TypeOK
    <2>2. \A d \in Descs : Offset(d)' = IF d = g THEN NDesc - 1 ELSE Offset(d) - 1
      BY <1>0, <2>1, OffsetMoves
    <2>3. /\ \A d \in Descs : Offset(d) \in 0..(NDesc - 1) /\ (Offset(d) = 0 => d = g)
          /\ Offset(g) = 0
      BY <1>0, OffsetType
    <2> HIDE DEF g
    <2>4. n > 0
      BY <1>0, <2>1, <2>3
    <2>5. \A d \in Descs : d \in Filled' <=> Offset(d)' < n - 1
      <3> SUFFICES ASSUME NEW d \in Descs PROVE d \in Filled' <=> Offset(d)' < n - 1
        OBVIOUS
      <3>1. CASE d = g
        BY <1>0, <2>1, <2>2, <2>4, <3>1
      <3>2. CASE d # g
        BY <1>0, <2>1, <2>2, <2>3, <2>4, <3>2
      <3> QED
        BY <3>1, <3>2
    <2>6. Offset(hw)' = IF n - 1 = NDesc THEN 0 ELSE n - 1
      <3>1. Offset(hw)' = IF hw = g THEN NDesc - 1 ELSE Offset(hw) - 1
        <4>1. \A d \in Descs : d = hw => Offset(hw)' = Offset(d)'
          BY <2>1 DEF Offset
        <4> QED
          BY <2>1, <2>2, <4>1
      <3> QED
        BY <1>0, <2>1, <2>3, <2>4, <3>1
    <2>7. \A d \in Held' : Offset(d)' = NDesc - 1 /\ n - 1 < NDesc
      BY <1>0, <2>1, <2>2
    <2>8. n - 1 \in 0..NDesc
      BY <1>0, <2>4
    <2> QED
      BY <2>5, <2>6, <2>7, <2>8 DEF RingInv
  <1>3. CASE ~Store /\ ~RxPkt
    BY <1>3, OthersKeep, RingKept
  <1> QED
    BY <1>1, <1>2, <1>3

\* The empty ring is in order.
LEMMA InitRing == Init => RingInv
  <1> SUFFICES ASSUME Init PROVE RingInv
    OBVIOUS
  <1>1. Held = {} /\ Filled = {}
    BY DEF Init, Held, Filled
  <1>2. TypeOK /\ hw = dma_rx_desc_to_get
    BY InitInv DEF Init, IInv
  <1>3. Offset(hw) = 0 /\ \A d \in Descs : ~(Offset(d) < 0)
    BY <1>2, OffsetType, RxAssumption
  <1> QED
    BY <1>1, <1>3, RxAssumption DEF RingInv

-----------------------------------------------------------------------------
(* The queue.                                                              *)

\* The frames that end in the ring are a finite set of descriptors, with
\* one to spare for the one the task holds.
LEMMA EndsFinite ==
  ASSUME TypeOK
  PROVE  /\ Ends \subseteq Descs /\ IsFiniteSet(Ends)
         /\ Cardinality(Ends) \in Nat /\ Cardinality(Ends) <= NDesc
         /\ \A d \in Descs \ Ends : Cardinality(Ends) < NDesc
  <1>1. Ends \subseteq Descs
    BY DEF Ends, Filled
  <1>2. IsFiniteSet(Descs) /\ Cardinality(Descs) = NDesc
    <2>1. 0 \in Int /\ NDesc - 1 \in Int /\ ~(0 > NDesc - 1) /\ NDesc \in Nat
      BY RxAssumption
    <2>2. IsFiniteSet(0..(NDesc - 1)) /\ Cardinality(0..(NDesc - 1)) = (NDesc - 1) - 0 + 1
      BY <2>1, FS_Interval
    <2> QED
      BY <2>1, <2>2 DEF Descs
  <1>3. /\ IsFiniteSet(Ends) /\ Cardinality(Ends) <= Cardinality(Descs)
        /\ Cardinality(Descs) = Cardinality(Ends) => Descs = Ends
    BY <1>1, <1>2, FS_Subset
  <1>4. Cardinality(Ends) \in Nat
    BY <1>3, FS_CardinalityType
  <1> QED
    BY <1>1, <1>2, <1>3, <1>4, RxAssumption

\* The rank of a descriptor that ends a frame is one of the ring's numbers.
LEMMA RankType ==
  ASSUME TypeOK, NEW d \in Ends
  PROVE  Rank(d) \in 1..Cardinality(Ends)
  <1> DEFINE T == {e \in Ends : Offset(e) <= Offset(d)}
  <1>1. IsFiniteSet(Ends) /\ Cardinality(Ends) \in Nat /\ Ends \subseteq Descs
    BY EndsFinite
  <1>2. Offset(d) \in 0..(NDesc - 1)
    BY <1>1, OffsetType
  <1>3. d \in T
    BY <1>2, RxAssumption
  <1>4. IsFiniteSet(T) /\ Cardinality(T) <= Cardinality(Ends)
    <2>1. T \in SUBSET Ends
      OBVIOUS
    <2> HIDE DEF T
    <2> QED
      BY <1>1, <2>1, FS_Subset
  <1>5. Cardinality(T) \in Nat /\ Cardinality(T) # 0
    <2> HIDE DEF T
    <2> QED
      BY <1>3, <1>4, FS_CardinalityType, FS_EmptySet
  <1>6. Rank(d) = Cardinality(T)
    BY DEF Rank
  <1> HIDE DEF T
  <1> QED
    BY <1>1, <1>4, <1>5, <1>6

\* The same for every end, in a form that also speaks of the next state.
LEMMA RanksType ==
  TypeOK => /\ Cardinality(Ends) \in Nat
            /\ \A d \in Ends : Rank(d) \in 1..Cardinality(Ends)
  BY EndsFinite, RankType

\* A step that leaves the ends, what is in them and the offsets alone leaves
\* the frames in the ring alone.
LEMMA InRingKept ==
  ASSUME Ends' = Ends, \A d \in Ends : buf'[d] = buf[d],
         \A d : Offset(d)' = Offset(d)
  PROVE  InRing' = InRing
  <1>1. \A d : Rank(d)' = Rank(d)
    <2> SUFFICES ASSUME NEW d PROVE Rank(d)' = Rank(d)
      OBVIOUS
    <2>1. {e \in Ends : Offset(e) <= Offset(d)}' = {e \in Ends : Offset(e) <= Offset(d)}
      OBVIOUS
    <2> QED
      BY <2>1 DEF Rank
  <1>2. \A j : {e \in Ends : Rank(e) = j}' = {e \in Ends : Rank(e) = j}
    BY <1>1
  <1>3. \A j : {buf[d] : d \in {e \in Ends : Rank(e) = j}}'
                  = {buf[d] : d \in {e \in Ends : Rank(e) = j}}
    BY <1>2
  <1> QED
    BY <1>3 DEF InRing

\* The frames in the ring are a sequence as long as there are ends.
LEMMA InRingType ==
  ASSUME TypeOK
  PROVE  /\ InRing \in Seq({InRing[j] : j \in 1..Cardinality(Ends)})
         /\ Len(InRing) = Cardinality(Ends)
  <1>1. Cardinality(Ends) \in Nat
    BY EndsFinite
  <1>2. DOMAIN InRing = 1..Cardinality(Ends) /\ InRing = [j \in DOMAIN InRing |-> InRing[j]]
    BY DEF InRing
  <1> QED
    BY <1>1, <1>2

\* A whole frame stored is the last one in the ring.
LEMMA StoreAppends ==
  ASSUME IInv, RingInv, Store, ~half'
  PROVE  /\ Cardinality(Ends)' = Cardinality(Ends) + 1
         /\ \A j \in 1..Cardinality(Ends) : InRing'[j] = InRing[j]
         /\ InRing'[Cardinality(Ends) + 1] = Head(fifo)
  <1>0. TypeOK
    BY DEF IInv
  <1> PICK N \in Nat : N = Cardinality(Ends)
    BY <1>0, EndsFinite
  <1> PICK h \in Descs : h = hw
    BY <1>0 DEF TypeOK
  <1>1. h \notin Filled /\ \A d \in Filled : Offset(d) < Offset(h)
    BY StorePlace DEF Store
  <1>2. /\ Filled' = Filled \cup {h}
        /\ \A d \in Filled : st'[d] = st[d] /\ buf'[d] = buf[d]
        /\ st'[h] # "FS" /\ buf'[h] = Head(fifo)
    BY StoreFills
  <1>3. \A d : Offset(d)' = Offset(d)
    BY OffsetStays DEF Store, task
  <1>4. Ends' = Ends \cup {h} /\ h \notin Ends
    BY <1>1, <1>2 DEF Ends
  <1>5. IsFiniteSet(Ends) /\ Ends \subseteq Descs
    BY <1>0, EndsFinite
  <1>6. Cardinality(Ends)' = N + 1
    <2>1. Cardinality(Ends \cup {h}) = Cardinality(Ends) + 1
      BY <1>4, <1>5, FS_AddElement
    <2> QED
      BY <1>4, <2>1
  <1>7. \A d \in Descs : Offset(d) \in 0..(NDesc - 1)
    BY <1>0, OffsetType
  <1>8. \A d \in Ends : Rank(d)' = Rank(d)
    <2> SUFFICES ASSUME NEW d \in Ends PROVE Rank(d)' = Rank(d)
      OBVIOUS
    <2>1. ~(Offset(h) <= Offset(d))
      <3>1. Offset(d) < Offset(h) /\ Offset(d) \in Int /\ Offset(h) \in Int
        BY <1>1, <1>5, <1>7, RxAssumption DEF Ends
      <3> QED
        BY <3>1
    <2>2. {e \in Ends : Offset(e) <= Offset(d)}' = {e \in Ends : Offset(e) <= Offset(d)}
      BY <1>3, <1>4, <2>1
    <2> QED
      BY <2>2 DEF Rank
  <1>9. Rank(h)' = N + 1
    <2>1. \A e \in Ends' : Offset(e)' <= Offset(h)'
      <3> SUFFICES ASSUME NEW e \in Ends' PROVE Offset(e) <= Offset(h)
        BY <1>3
      <3>1. Offset(e) \in Int /\ Offset(h) \in Int
        BY <1>4, <1>5, <1>7, RxAssumption
      <3>2. e = h \/ Offset(e) < Offset(h)
        BY <1>1, <1>4 DEF Ends
      <3> QED
        BY <3>1, <3>2
    <2>2. {e \in Ends : Offset(e) <= Offset(h)}' = Ends'
      BY <2>1
    <2> QED
      BY <1>6, <2>2 DEF Rank
  <1>10. \A d \in Ends : Rank(d) \in 1..N
    BY <1>0, RankType
  <1>11. ASSUME NEW j \in 1..N
         PROVE  InRing'[j] = InRing[j]
    <2>1. {e \in Ends : Rank(e) = j}' = {e \in Ends : Rank(e) = j}
      BY <1>4, <1>8, <1>9
    <2>2. \A d \in Ends : buf'[d] = buf[d]
      BY <1>2 DEF Ends
    <2>3. {buf[d] : d \in {e \in Ends : Rank(e) = j}}'
             = {buf[d] : d \in {e \in Ends : Rank(e) = j}}
      BY <2>1, <2>2
    <2>4. j \in 1..Cardinality(Ends) /\ j \in 1..Cardinality(Ends)'
      BY <1>6
    <2> QED
      BY <2>3, <2>4 DEF InRing
  <1>12. InRing'[N + 1] = Head(fifo)
    <2>1. {e \in Ends : Rank(e) = N + 1}' = {h}
      <3>1. \A d \in Ends : Rank(d)' # N + 1
        BY <1>8, <1>10
      <3> QED
        BY <1>4, <1>9, <3>1
    <2>2. {buf[d] : d \in {e \in Ends : Rank(e) = N + 1}}' = {Head(fifo)}
      BY <1>2, <2>1
    <2>3. N + 1 \in 1..Cardinality(Ends)'
      BY <1>6
    <2>4. (CHOOSE f \in {Head(fifo)} : TRUE) = Head(fifo)
      OBVIOUS
    <2> QED
      BY <2>2, <2>3, <2>4 DEF InRing
  <1> QED
    BY <1>6, <1>11, <1>12

\* The frame emac_rxpkt_chainmode takes was the first in the ring.
LEMMA RxPktRemoves ==
  ASSUME IInv, RxPkt
  PROVE  /\ Cardinality(Ends) = Cardinality(Ends)' + 1
         /\ InRing[1] = buf[dma_rx_desc_to_get]
         /\ \A j \in 1..Cardinality(Ends)' : InRing'[j] = InRing[j + 1]
  <1>0. TypeOK /\ TypeOK'
    BY StepTypes DEF IInv, Next, NetTask
  <1>a. (/\ Cardinality(Ends) \in Nat
         /\ \A d \in Ends : Rank(d) \in 1..Cardinality(Ends))'
    BY <1>0, RanksType, PTL
  <1> PICK N \in Nat : N = Cardinality(Ends)'
    BY <1>a
  <1> PICK g \in Descs : g = dma_rx_desc_to_get
    BY <1>0 DEF TypeOK
  <1>1. /\ g \in Filled /\ Filled' = Filled \ {g} /\ UNCHANGED <<st, buf>>
        /\ dma_rx_desc_to_get' = NextDesc(dma_rx_desc_to_get)
    BY RxPktTakes
  <1>2. st[g] = "FS|LS"
    BY DEF IInv, PolledIsOurs, RxPkt
  <1>3. g \in Ends /\ Ends' = Ends \ {g}
    BY <1>1, <1>2 DEF Ends
  <1>4. \A d \in Descs : d # g => Offset(d)' = Offset(d) - 1
    BY <1>0, <1>1, OffsetMoves
  <1>5. IsFiniteSet(Ends) /\ Ends \subseteq Descs /\ Cardinality(Ends) \in Nat
    BY <1>0, EndsFinite
  <1>6. Cardinality(Ends) = N + 1
    <2>1. Cardinality(Ends \ {g}) = Cardinality(Ends) - 1
      BY <1>3, <1>5, FS_RemoveElement
    <2> QED
      BY <1>3, <1>5, <2>1
  <1>7. /\ \A d \in Descs : Offset(d) \in Nat /\ (Offset(d) = 0 => d = g)
        /\ Offset(g) = 0
    BY <1>0, OffsetType, RxAssumption
  <1>8. \A d \in Ends' : Rank(d) = Rank(d)' + 1
    <2> SUFFICES ASSUME NEW d \in Ends' PROVE Rank(d) = Rank(d)' + 1
      OBVIOUS
    <2> DEFINE T == {e \in Ends : Offset(e) <= Offset(d)}
    <2>1. d \in Descs /\ d # g /\ d \in Ends
      BY <1>3, <1>5
    <2>2. T' = T \ {g}
      <3>1. \A e \in Ends' : Offset(e)' <= Offset(d)' <=> Offset(e) <= Offset(d)
        BY <1>3, <1>4, <1>5, <1>7, <2>1
      <3> QED
        BY <1>3, <3>1
    <2>3. g \in T
      BY <1>3, <1>7, <2>1
    <2>4. IsFiniteSet(T) /\ T \in SUBSET Ends
      <3>1. T \in SUBSET Ends
        OBVIOUS
      <3> HIDE DEF T
      <3> QED
        BY <1>5, <3>1, FS_Subset
    <2>5. Rank(d) = Cardinality(T) /\ Rank(d)' = Cardinality(T')
      BY DEF Rank
    <2> HIDE DEF T
    <2>6. Cardinality(T \ {g}) = Cardinality(T) - 1 /\ Cardinality(T) \in Nat
      BY <2>3, <2>4, FS_RemoveElement, FS_CardinalityType
    <2> QED
      BY <2>2, <2>5, <2>6
  <1>9. Rank(g) = 1
    <2>1. {e \in Ends : Offset(e) <= Offset(g)} = {g}
      BY <1>3, <1>5, <1>7
    <2> QED
      BY <2>1, FS_Singleton DEF Rank
  <1>10. \A d \in Ends' : Rank(d)' \in 1..N
    BY <1>a
  <1>11. InRing[1] = buf[dma_rx_desc_to_get]
    <2>1. {e \in Ends : Rank(e) = 1} = {g}
      BY <1>3, <1>8, <1>9, <1>10
    <2>2. {buf[d] : d \in {e \in Ends : Rank(e) = 1}} = {buf[g]}
      BY <2>1
    <2>3. 1 \in 1..Cardinality(Ends)
      BY <1>6
    <2>4. (CHOOSE f \in {buf[g]} : TRUE) = buf[g]
      OBVIOUS
    <2> QED
      BY <2>2, <2>3, <2>4 DEF InRing
  <1>12. ASSUME NEW j \in 1..N
         PROVE  InRing'[j] = InRing[j + 1]
    <2>1. {e \in Ends : Rank(e) = j}' = {e \in Ends : Rank(e) = j + 1}
      BY <1>3, <1>8, <1>9, <1>10
    <2>2. {buf[d] : d \in {e \in Ends : Rank(e) = j}}'
             = {buf[d] : d \in {e \in Ends : Rank(e) = j + 1}}
      BY <1>1, <2>1
    <2>3. j \in 1..Cardinality(Ends)' /\ j + 1 \in 1..Cardinality(Ends)
      BY <1>6
    <2> QED
      BY <2>2, <2>3 DEF InRing
  <1> QED
    BY <1>6, <1>11, <1>12

\* Append and Tail, element by element.
LEMMA AppendTail ==
  ASSUME NEW S, NEW s \in Seq(S), NEW x \in S
  PROVE  /\ Append(s, x) = [j \in 1..(Len(s) + 1) |-> IF j = Len(s) + 1 THEN x ELSE s[j]]
         /\ s # <<>> => Tail(s) = [j \in 1..(Len(s) - 1) |-> s[j + 1]]
  <1>1. Append(s, x) = [j \in 1..(Len(s) + 1) |-> IF j = Len(s) + 1 THEN x ELSE s[j]]
    <2> DEFINE a == [j \in 1..(Len(s) + 1) |-> IF j = Len(s) + 1 THEN x ELSE s[j]]
    <2>1. a \in Seq(S) /\ Len(a) = Len(s) + 1
      OBVIOUS
    <2>2. \A j \in 1..Len(a) : a[j] = Append(s, x)[j]
      BY <2>1, AppendProperties
    <2> HIDE DEF a
    <2>3. Append(s, x) \in Seq(S) /\ Len(Append(s, x)) = Len(a)
      BY <2>1, AppendProperties
    <2>4. Append(s, x) = a
      BY <2>1, <2>2, <2>3, SeqEqual
    <2> QED
      BY <2>4 DEF a
  <1>2. ASSUME s # <<>> PROVE Tail(s) = [j \in 1..(Len(s) - 1) |-> s[j + 1]]
    <2> DEFINE a == [j \in 1..(Len(s) - 1) |-> s[j + 1]]
    <2>0. Len(s) \in Nat /\ Len(s) # 0
      BY <1>2, EmptySeq
    <2>1. a \in Seq(S) /\ Len(a) = Len(s) - 1
      BY <2>0
    <2>2. \A j \in 1..Len(a) : a[j] = Tail(s)[j]
      BY <1>2, <2>0, <2>1, HeadTailProperties
    <2> HIDE DEF a
    <2>3. Tail(s) \in Seq(S) /\ Len(Tail(s)) = Len(a)
      BY <1>2, <2>1, HeadTailProperties
    <2>4. Tail(s) = a
      BY <2>1, <2>2, <2>3, SeqEqual
    <2> QED
      BY <2>4 DEF a
  <1> QED
    BY <1>1, <1>2

\* What the queue of Waiting does with its parts: a frame moves from the FIFO
\* to the ring,
LEMMA ShiftHead ==
  ASSUME NEW S, NEW t \in Seq(S), NEW r \in Seq(S), NEW q \in Seq(S), q # <<>>
  PROVE  t \o Append(r, Head(q)) \o Tail(q) = t \o r \o q
  <1> DEFINE h == <<Head(q)>>
  <1>1. Head(q) \in S /\ Tail(q) \in Seq(S) /\ h \in Seq(S)
    BY HeadTailProperties
  <1>2. Append(r, Head(q)) = r \o h
    BY <1>1, AppendIsConcat
  <1>3. h \o Tail(q) = q
    BY <1>1
  <1> HIDE DEF h
  <1>4. t \o r \in Seq(S) /\ t \o (r \o h) = (t \o r) \o h
    BY <1>1, ConcatProperties, ConcatAssociative, SMTT(60)
  <1>5. ((t \o r) \o h) \o Tail(q) = (t \o r) \o (h \o Tail(q))
    BY <1>1, <1>4, ConcatAssociative, SMTT(60)
  <1> QED
    BY <1>2, <1>3, <1>4, <1>5

\* the oldest frame leaves,
LEMMA DropHead ==
  ASSUME NEW S, NEW x \in S, NEW r \in Seq(S), NEW q \in Seq(S)
  PROVE  /\ <<x>> \o r \o q # <<>>
         /\ Head(<<x>> \o r \o q) = x
         /\ Tail(<<x>> \o r \o q) = <<>> \o r \o q
  <1>1. r \o q \in Seq(S) /\ <<x>> \in Seq(S)
    BY ConcatProperties
  <1>2. <<x>> \o r \o q = <<x>> \o (r \o q)
    BY <1>1, ConcatAssociative
  <1>3. <<>> \o r = r
    BY ConcatEmptySeq
  <1>4. ASSUME NEW w \in Seq(S)
        PROVE  <<x>> \o w # <<>> /\ Head(<<x>> \o w) = x /\ Tail(<<x>> \o w) = w
    OBVIOUS
  <1> QED
    BY <1>1, <1>2, <1>3, <1>4

\* a new one is queued last.
LEMMA QueueLast ==
  ASSUME NEW S, NEW t \in Seq(S), NEW r \in Seq(S), NEW q \in Seq(S), NEW f \in S
  PROVE  /\ t \o r \o Append(q, f) = Append(t \o r \o q, f)
         /\ Len(t \o r \o q) = Len(t) + Len(r) + Len(q)
  <1>1. t \o r \in Seq(S) /\ Len(t \o r) = Len(t) + Len(r) /\ <<f>> \in Seq(S)
    BY ConcatProperties
  <1>2. t \o r \o q \in Seq(S) /\ Len(t \o r \o q) = Len(t \o r) + Len(q)
    BY <1>1, ConcatProperties
  <1>3. Append(q, f) = q \o <<f>> /\ Append(t \o r \o q, f) = t \o r \o q \o <<f>>
    BY <1>2, AppendIsConcat
  <1>4. (t \o r) \o (q \o <<f>>) = t \o r \o q \o <<f>>
    BY <1>1, ConcatAssociative
  <1> QED
    BY <1>1, <1>2, <1>3, <1>4

\* The frame low_level_input is about to copy.
Taken == IF pc = "copy" THEN <<buf[cur]>> ELSE <<>>

\* The values the parts of the queue are made of.
Contents == Frames \cup {NoFrame} \cup {InRing[j] : j \in 1..Cardinality(Ends)}

\* The parts of the queue are sequences.
LEMMA QueueTypes ==
  ASSUME IInv
  PROVE  /\ Taken \in Seq(Contents) /\ InRing \in Seq(Contents) /\ fifo \in Seq(Contents)
         /\ pc = "copy" => buf[cur] \in Contents
         /\ Len(InRing) = Cardinality(Ends) /\ Cardinality(Ends) \in Nat
         /\ Waiting = Taken \o InRing \o fifo
  <1>1. pc = "copy" => buf[cur] \in Contents
    BY DEF IInv, TypeOK, HeldIsOurs, Held, Contents
  <1>2. Taken \in Seq(Contents)
    BY <1>1 DEF Taken
  <1>3. InRing \in Seq({InRing[j] : j \in 1..Cardinality(Ends)}) /\ Len(InRing) = Cardinality(Ends)
    BY InRingType DEF IInv
  <1>4. InRing \in Seq(Contents)
    BY <1>3 DEF Contents
  <1>5. fifo \in Seq(Contents)
    BY DEF IInv, TypeOK, Contents
  <1>6. Cardinality(Ends) \in Nat
    BY RanksType DEF IInv
  <1> QED
    BY <1>1, <1>2, <1>3, <1>4, <1>5, <1>6 DEF Waiting, Taken

\* The ring and the task's hands never hold more frames than descriptors.
LEMMA QueueBound ==
  ASSUME IInv
  PROVE  Len(Taken) + Len(InRing) <= NDesc
  <1>1. /\ Cardinality(Ends) \in Nat /\ Cardinality(Ends) <= NDesc
        /\ \A d \in Descs \ Ends : Cardinality(Ends) < NDesc
    BY EndsFinite DEF IInv
  <1>2. Len(InRing) = Cardinality(Ends)
    BY QueueTypes
  <1>3. CASE pc = "copy"
    <2>1. cur \in Descs \ Ends
      BY <1>3 DEF IInv, HeldIsOurs, Held, Ends, Filled
    <2>2. Len(Taken) = 1
      BY <1>3 DEF Taken
    <2> QED
      BY <1>1, <1>2, <2>1, <2>2, RxAssumption
  <1>4. CASE pc # "copy"
    <2>1. Len(Taken) = 0
      BY <1>4 DEF Taken
    <2> QED
      BY <1>1, <1>2, <2>1, RxAssumption
  <1> QED
    BY <1>3, <1>4

\* The DMA moves frames from the FIFO to the ring and changes no queue.
LEMMA StoreStutters ==
  ASSUME IInv, RingInv, Store, IInv'
  PROVE  Waiting' = Waiting /\ p' = p
  <1>0. p' = p
    BY DEF Store, task
  <1>1. Taken' = Taken
    <2>1. CASE pc = "copy"
      <3>1. cur \in Held /\ cur # hw /\ cur \in Descs
        BY <2>1, StorePlace DEF Held, Store, IInv, HeldIsOurs
      <3>2. buf'[cur] = buf[cur] /\ cur' = cur /\ pc' = pc
        BY <3>1 DEF Store, task, IInv, TypeOK
      <3> QED
        BY <2>1, <3>2 DEF Taken
    <2>2. CASE pc # "copy"
      BY <2>2 DEF Taken, Store, task
    <2> QED
      BY <2>1, <2>2
  <1>2. CASE half'
    <2>1. Ends' = Ends
      <3>1. hw \notin Filled /\ \A d \in Filled : d # hw
        BY StorePlace DEF Store
      <3>2. Filled' = Filled \cup {hw} /\ st'[hw] = "FS" /\ \A d \in Filled : st'[d] = st[d]
        BY <1>2, StoreFills
      <3> QED
        BY <3>1, <3>2 DEF Ends
    <2>2. \A d \in Ends : buf'[d] = buf[d]
      BY StoreFills DEF Ends
    <2>3. \A d : Offset(d)' = Offset(d)
      BY OffsetStays DEF Store, task
    <2>4. InRing' = InRing
      BY <2>1, <2>2, <2>3, InRingKept
    <2>5. fifo' = fifo
      BY <1>2 DEF Store
    <2> QED
      BY <1>0, <1>1, <2>4, <2>5 DEF Waiting, Taken
  <1>3. CASE ~half'
    <2>1. /\ Cardinality(Ends)' = Cardinality(Ends) + 1
          /\ \A j \in 1..Cardinality(Ends) : InRing'[j] = InRing[j]
          /\ InRing'[Cardinality(Ends) + 1] = Head(fifo)
      BY <1>3, StoreAppends
    <2>2. /\ Taken \in Seq(Contents) /\ InRing \in Seq(Contents) /\ fifo \in Seq(Contents)
          /\ Len(InRing) = Cardinality(Ends) /\ Cardinality(Ends) \in Nat
      BY QueueTypes
    <2>3. fifo # <<>> /\ fifo' = Tail(fifo) /\ Head(fifo) \in Contents
      BY <1>3, <2>2, HeadTailProperties DEF Store
    <2>4. InRing' = Append(InRing, Head(fifo))
      <3>1. /\ DOMAIN InRing' = 1..(Cardinality(Ends) + 1)
            /\ InRing' = [j \in 1..(Cardinality(Ends) + 1) |-> InRing'[j]]
        BY <2>1 DEF InRing
      <3>2. Append(InRing, Head(fifo)) =
              [j \in 1..(Cardinality(Ends) + 1) |->
                 IF j = Cardinality(Ends) + 1 THEN Head(fifo) ELSE InRing[j]]
        BY <2>2, <2>3, AppendTail
      <3>3. \A j \in 1..(Cardinality(Ends) + 1) :
              InRing'[j] = IF j = Cardinality(Ends) + 1 THEN Head(fifo) ELSE InRing[j]
        BY <2>1, <2>2
      <3> QED
        BY <3>1, <3>2, <3>3
    <2>5. Taken \o Append(InRing, Head(fifo)) \o Tail(fifo) = Taken \o InRing \o fifo
      BY <2>2, <2>3, ShiftHead, SMTT(60)
    <2> QED
      BY <1>0, <1>1, <2>3, <2>4, <2>5 DEF Waiting, Taken
  <1> QED
    BY <1>2, <1>3

\* Taking a descriptor out of the ring changes no queue.
LEMMA RxPktStutters ==
  ASSUME IInv, RxPkt, IInv'
  PROVE  Waiting' = Waiting /\ p' = p
  <1> DEFINE x == buf[dma_rx_desc_to_get]
  <1>1. /\ pc = "rxpkt" /\ pc' = "copy" /\ cur' = dma_rx_desc_to_get
        /\ buf' = buf /\ fifo' = fifo /\ p' = p
    BY RxPktTakes
  <1>2. Taken = <<>> /\ Taken' = <<x>>
    BY <1>1 DEF Taken
  <1>3. /\ Cardinality(Ends) = Cardinality(Ends)' + 1
        /\ InRing[1] = x
        /\ \A j \in 1..Cardinality(Ends)' : InRing'[j] = InRing[j + 1]
    BY RxPktRemoves
  <1>4. /\ InRing \in Seq(Contents) /\ Len(InRing) = Cardinality(Ends)
        /\ Cardinality(Ends) \in Nat /\ fifo \in Seq(Contents)
    BY QueueTypes
  <1>5. Cardinality(Ends)' \in Nat
    <2>1. TypeOK'
      BY DEF IInv
    <2>2. (/\ Cardinality(Ends) \in Nat
           /\ \A d \in Ends : Rank(d) \in 1..Cardinality(Ends))'
      BY <2>1, RanksType, PTL
    <2> QED
      BY <2>2
  <1>6. InRing = <<x>> \o InRing'
    <2>1. InRing' = Tail(InRing) /\ InRing # <<>>
      <3>1. InRing' = [j \in 1..Cardinality(Ends)' |-> InRing'[j]]
        BY DEF InRing
      <3>2. InRing # <<>>
        BY <1>3, <1>4, <1>5
      <3>3. Tail(InRing) = [j \in 1..Cardinality(Ends)' |-> InRing[j + 1]]
        <4>1. InRing[1] \in Contents
          BY <1>3, <1>4, <1>5
        <4>2. Tail(InRing) = [j \in 1..(Len(InRing) - 1) |-> InRing[j + 1]]
          BY <1>4, <3>2, <4>1, AppendTail
        <4>3. Len(InRing) - 1 = Cardinality(Ends)'
          BY <1>3, <1>4, <1>5
        <4> QED
          BY <4>2, <4>3
      <3> QED
        BY <1>3, <3>1, <3>2, <3>3
    <2>2. Head(InRing) = x
      BY <1>3, <1>4, <2>1
    <2>3. <<Head(InRing)>> \o Tail(InRing) = InRing
      BY <1>4, <2>1
    <2> QED
      BY <2>1, <2>2, <2>3
  <1>7. <<>> \o InRing = InRing
    BY <1>4, ConcatEmptySeq
  <1>8. Waiting = <<>> \o InRing \o fifo
    BY <1>2 DEF Waiting, Taken
  <1>9. Waiting' = <<x>> \o InRing' \o fifo'
    BY <1>1 DEF Waiting
  <1> HIDE DEF x
  <1> QED
    BY <1>1, <1>6, <1>7, <1>8, <1>9

\* The frames in the ring are left alone by everyone else.
LEMMA OthersInRing ==
  ASSUME IInv, [Next]_vars, ~Store, ~RxPkt
  PROVE  InRing' = InRing
  <1>1. UNCHANGED <<dma_rx_desc_to_get, hw, st, buf, Filled>>
    BY OthersKeep
  <1>2. Ends' = Ends
    BY <1>1 DEF Ends
  <1> QED
    BY <1>1, <1>2, OffsetStays, InRingKept

\* Every step of DMA, network task and link task is a step of the queue of
\* frames, or leaves it alone.
LEMMA StepQueue ==
  ASSUME IInv, RingInv, [Next]_vars, IInv'
  PROVE  [FQ!Next]_<<Waiting, p>>
  <1>1. CASE Store
    BY <1>1, StoreStutters
  <1>2. CASE RxPkt
    BY <1>2, RxPktStutters
  <1>3. ASSUME NEW f \in Frames, Arrive(f) PROVE FQ!Put(f)
    <2>1. ~Store /\ ~RxPkt
      <3>1. fifo \in Seq(Frames) /\ fifo' = Append(fifo, f) /\ hw' = hw /\ own' = own /\ pc' = pc
        BY <1>3 DEF Arrive, IInv, TypeOK, ring, task
      <3>2. Len(fifo') = Len(fifo) + 1 /\ Len(fifo) \in Nat
        BY <3>1
      <3>3. fifo' # fifo /\ ~(fifo # <<>> /\ fifo' = Tail(fifo))
        BY <3>1, <3>2
      <3> QED
        BY <3>1, <3>3 DEF Store, RxPkt
    <2>2. InRing' = InRing
      BY <2>1, OthersInRing
    <2>3. Taken' = Taken /\ p' = p /\ fifo' = Append(fifo, f) /\ Len(fifo) < FifoLen
      BY <1>3 DEF Arrive, Taken, ring, task
    <2>4. /\ Taken \in Seq(Contents) /\ InRing \in Seq(Contents) /\ fifo \in Seq(Contents)
          /\ Waiting = Taken \o InRing \o fifo /\ f \in Contents
      BY QueueTypes DEF Contents
    <2>5. Waiting' = Taken \o InRing \o Append(fifo, f)
      BY <2>2, <2>3 DEF Waiting, Taken
    <2>6. /\ Waiting' = Append(Waiting, f)
          /\ Len(Waiting) = Len(Taken) + Len(InRing) + Len(fifo)
      BY <2>4, <2>5, QueueLast
    <2>7. Len(Waiting) < NDesc + FifoLen
      <3>1. Len(Taken) + Len(InRing) <= NDesc
        BY QueueBound
      <3>2. Len(Taken) \in Nat /\ Len(InRing) \in Nat /\ Len(fifo) \in Nat
        BY <2>4
      <3> QED
        BY <2>3, <2>6, <3>1, <3>2, RxAssumption
    <2> QED
      BY <2>3, <2>6, <2>7 DEF FQ!Put
  <1>4. CASE Copy
    <2>1. ~Store /\ ~RxPkt
      BY <1>4 DEF Copy, Store, RxPkt, dma, task
    <2>2. InRing' = InRing
      BY <2>1, OthersInRing
    <2>3. /\ InRing \in Seq(Contents) /\ fifo \in Seq(Contents) /\ buf[cur] \in Contents
      BY <1>4, QueueTypes DEF Copy
    <2>4. Waiting = <<buf[cur]>> \o InRing \o fifo
      BY <1>4 DEF Waiting, Copy
    <2>5. Waiting' = <<>> \o InRing \o fifo
      BY <1>4, <2>2 DEF Waiting, Copy, dma
    <2>6. Waiting # <<>> /\ Head(Waiting) = buf[cur] /\ Tail(Waiting) = Waiting'
      <3>1. /\ <<buf[cur]>> \o InRing \o fifo # <<>>
            /\ Head(<<buf[cur]>> \o InRing \o fifo) = buf[cur]
            /\ Tail(<<buf[cur]>> \o InRing \o fifo) = <<>> \o InRing \o fifo
        <4>1. \A x \in Contents, r, q \in Seq(Contents) :
                /\ <<x>> \o r \o q # <<>>
                /\ Head(<<x>> \o r \o q) = x
                /\ Tail(<<x>> \o r \o q) = <<>> \o r \o q
          BY DropHead
        <4> QED
          BY <2>3, <4>1
      <3> QED
        BY <2>4, <2>5, <3>1
    <2>7. p' = buf[cur] \/ p' = NoFrame
      BY <1>4 DEF Copy
    <2> QED
      BY <2>6, <2>7 DEF FQ!Next, FQ!Take, FQ!Lose
  <1>5. CASE PacketReady \/ Give \/ Resume \/ PollDemand \/ Suspend \/ Link \/ UNCHANGED vars
    <2>1. CASE Store \/ RxPkt
      BY <1>1, <1>2, <2>1
    <2>2. CASE ~Store /\ ~RxPkt
      <3>1. InRing' = InRing
        BY <2>2, OthersInRing
      <3>2. /\ fifo' = fifo /\ p' = p
            /\ pc # "copy" => pc' # "copy"
            /\ pc = "copy" => pc' = "copy" /\ cur' = cur /\ buf' = buf
        BY <1>5 DEF PacketReady, Give, Resume, PollDemand, Suspend, Link, Stop, Start,
                    vars, ring, dma, task
      <3>3. Taken' = Taken
        BY <3>2 DEF Taken
      <3> QED
        BY <3>1, <3>2, <3>3 DEF Waiting, Taken
    <2> QED
      BY <2>1, <2>2
  <1> QED
    BY <1>1, <1>2, <1>3, <1>4, <1>5 DEF Next, Dma, NetTask, FQ!Next

\* The initial state is the empty queue.
LEMMA InitQueue == Init => FQ!Init
  <1> SUFFICES ASSUME Init PROVE Waiting = <<>> /\ p = NoFrame
    BY DEF FQ!Init
  <1>1. Ends = {}
    BY DEF Init, Ends, Filled
  <1>2. Cardinality(Ends) = 0
    BY <1>1, FS_EmptySet
  <1>3. InRing = <<>>
    BY <1>2, InitInv, InRingType DEF IInv
  <1> QED
    BY <1>3 DEF Init, Waiting

\* Ring, FIFO and network task implement a queue of frames, for every size of
\* the ring and of the FIFO: none is lost, repeated, reordered or changed,
\* however DMA, task and link changes interleave and whichever allocations of
\* low_level_input fail.
THEOREM RxIsQueue == Spec => ImplementsQueue
  <1>1. Init => IInv /\ RingInv /\ FQ!Init
    BY InitInv, InitRing, InitQueue
  <1>2. IInv /\ RingInv /\ [Next]_vars => IInv' /\ RingInv'
    BY StepTypes, StepOwner, StepWakeup, StepRing DEF IInv
  <1>3. IInv /\ RingInv /\ [Next]_vars /\ IInv' => [FQ!Next]_<<Waiting, p>>
    BY StepQueue
  <1> QED
    BY <1>1, <1>2, <1>3, PTL DEF Spec, ImplementsQueue, FQ!Spec
==============================================================================
