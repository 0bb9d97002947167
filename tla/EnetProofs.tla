----------------------------- MODULE EnetProofs -----------------------------
(***************************************************************************)
(* The invariants of the Ethernet driver for rings of every size: types,   *)
(* the transmit window, a free descriptor whenever the queue runs, a       *)
(* receiver that is never deaf, and both rings as first-in first-out       *)
(* queues.                                                                 *)
(***************************************************************************)
EXTENDS Enet, SequenceTheorems, TLAPS

(* Slots counted from any position of a ring: they are the ring's, each    *)
(* slot has one number, and the next number is the next slot.              *)
LEMMA SlotFacts ==
  ASSUME NEW n \in Nat \ {0}, NEW c \in 0 .. n - 1
  PROVE  /\ \A k \in 1 .. n + 1 : SlotOf(n, c, k) \in 0 .. n - 1
         /\ \A k, m \in 1 .. n : SlotOf(n, c, k) = SlotOf(n, c, m) => k = m
         /\ \A s \in 0 .. n - 1 : \E k \in 1 .. n : s = SlotOf(n, c, k)
         /\ \A k \in 1 .. n : Succ(n, SlotOf(n, c, k)) = SlotOf(n, c, k + 1)
         /\ SlotOf(n, c, 1) = c /\ SlotOf(n, c, n + 1) = c
<1>1. /\ \A k \in 1 .. n + 1 : SlotOf(n, c, k) \in 0 .. n - 1
      /\ \A k, m \in 1 .. n : SlotOf(n, c, k) = SlotOf(n, c, m) => k = m
      /\ SlotOf(n, c, 1) = c /\ SlotOf(n, c, n + 1) = c
  BY DEF SlotOf
<1>2. ASSUME NEW s \in 0 .. n - 1 PROVE \E k \in 1 .. n : s = SlotOf(n, c, k)
  <2>1. CASE s >= c
    <3>1. s - c + 1 \in 1 .. n /\ s = SlotOf(n, c, s - c + 1)
      BY <2>1 DEF SlotOf
    <3>2. QED BY <3>1
  <2>2. CASE s < c
    <3>1. s - c + 1 + n \in 1 .. n /\ s = SlotOf(n, c, s - c + 1 + n)
      BY <2>2 DEF SlotOf
    <3>2. QED BY <3>1
  <2>3. QED BY <2>1, <2>2
<1>3. ASSUME NEW k \in 1 .. n PROVE Succ(n, SlotOf(n, c, k)) = SlotOf(n, c, k + 1)
  <2>1. ASSUME NEW i \in 0 .. n - 1 PROVE Succ(n, i) = IF i = n - 1 THEN 0 ELSE i + 1
    BY DEF Succ
  <2>2. SlotOf(n, c, k) \in 0 .. n - 1
    BY <1>1
  <2>3. QED BY <2>1, <2>2 DEF SlotOf
<1>4. QED BY <1>1, <1>2, <1>3

(* Counting from the slot after the first m.                               *)
LEMMA ShiftedSlots ==
  ASSUME NEW n \in Nat \ {0}, NEW c \in 0 .. n - 1, NEW m \in 0 .. n, NEW k \in 1 .. n + 1
  PROVE  SlotOf(n, SlotOf(n, c, m + 1), k) =
           IF m + k <= n + 1 THEN SlotOf(n, c, m + k) ELSE SlotOf(n, c, m + k - n)
<1>1. SlotOf(n, c, m + 1) = IF c + m + 1 <= n THEN c + m ELSE c + m - n
  BY DEF SlotOf
<1>2. CASE c + m + 1 <= n
  BY <1>1, <1>2 DEF SlotOf
<1>3. CASE ~(c + m + 1 <= n)
  BY <1>1, <1>3 DEF SlotOf
<1>4. QED BY <1>2, <1>3

(* The successor of a slot is a slot.                                      *)
LEMMA SuccInRing ==
  ASSUME NEW n \in Nat \ {0}, NEW i \in 0 .. n - 1
  PROVE  Succ(n, i) \in 0 .. n - 1
BY DEF Succ

(* The constants as the provers need them.                                 *)
LEMMA ConstFacts ==
  /\ TxCount \in Nat \ {0} /\ RxCount \in Nat \ {0} /\ Weight \in Nat \ {0}
  /\ None \notin Frames
BY EnetAssumption

(* The state is well typed initially.                                      *)
LEMMA TypeInit == Init => TypeOK
<1>. SUFFICES ASSUME Init PROVE TypeOK
  OBVIOUS
<1>1. 0 \in TxSlots /\ 0 \in RxSlots /\ TxCount \in 0 .. TxCount /\ 0 \in 0 .. Weight
  BY ConstFacts DEF TxSlots, RxSlots
<1>2. /\ tx_own \in [TxSlots -> BOOLEAN] /\ tx_isr \in [TxSlots -> BOOLEAN]
      /\ tx_skbs \in [TxSlots -> Frames \union {None}]
  BY DEF Init
<1>3. /\ rx_own \in [RxSlots -> BOOLEAN] /\ rx_skbs \in [RxSlots -> BOOLEAN]
      /\ rx_frame \in [RxSlots -> Frames \union {None}]
  BY DEF Init
<1>4. QED BY <1>1, <1>2, <1>3 DEF Init, TypeOK

(* Reclaiming buffers keeps the transmit variables in their types.         *)
LEMMA TypeReclaim ==
  ASSUME TypeOK, TxReclaim
  PROVE  /\ tx_skbs' \in [TxSlots -> Frames \union {None}]
         /\ dirty_tx_desc' \in TxSlots
         /\ free_tx_desc_count' \in 0 .. TxCount
         /\ stopped' \in BOOLEAN
<1>1. PICK n \in 0 .. TxUsed :
        /\ tx_skbs' = [i \in TxSlots |->
                         IF \E k \in 1 .. n : i = TxSlot(k) THEN None ELSE tx_skbs[i]]
        /\ dirty_tx_desc' = TxSlot(n + 1)
        /\ free_tx_desc_count' = free_tx_desc_count + n
  BY DEF TxReclaim
<1>2. n \in 0 .. TxCount /\ free_tx_desc_count + n \in 0 .. TxCount
  BY ConstFacts DEF TypeOK, TxUsed
<1>3. TxSlot(n + 1) \in TxSlots
  BY <1>2, ConstFacts, SlotFacts DEF TypeOK, TxSlot, TxSlots
<1>4. tx_skbs' \in [TxSlots -> Frames \union {None}]
  BY <1>1 DEF TypeOK
<1>5. stopped' \in BOOLEAN
  BY DEF TypeOK, TxReclaim
<1>6. QED BY <1>1, <1>2, <1>3, <1>4, <1>5

(* Every step keeps the types.                                             *)
LEMMA TypeStep == TypeOK /\ [Next]_vars => TypeOK'
<1>. SUFFICES ASSUME TypeOK, [Next]_vars PROVE TypeOK'
  OBVIOUS
<1>. USE ConstFacts DEF txring, txstate, rxring, irq, poll
<1>r. \A i \in RxSlots : Succ(RxCount, i) \in RxSlots
  BY SuccInRing DEF RxSlots
<1>t. \A i \in TxSlots : Succ(TxCount, i) \in TxSlots
  BY SuccInRing DEF TxSlots
<1>1. ASSUME NEW f \in Frames, RxFrame(f) PROVE TypeOK'
  BY <1>1, <1>r DEF TypeOK, RxFrame
<1>2. CASE TxDone
  BY <1>2, <1>t DEF TypeOK, TxDone
<1>3. CASE TxSuspend
  BY <1>3 DEF TypeOK, TxSuspend
<1>4. CASE IsrRead
  BY <1>4 DEF TypeOK, IsrRead
<1>5. CASE IsrHandle
  BY <1>5 DEF TypeOK, IsrHandle, SchedulePrep, Running
<1>6. ASSUME NEW n \in 1 .. Weight, PollStart(n) PROVE TypeOK'
  BY <1>6 DEF TypeOK, PollStart
<1>7. CASE PollBadFrame
  BY <1>7, <1>r DEF TypeOK, PollBadFrame, HaveFrame, Rearm
<1>8. CASE PollFrame
  BY <1>8, <1>r DEF TypeOK, PollFrame, HaveFrame, Rearm
<1>9. CASE PollNoMemory
  BY <1>9 DEF TypeOK, PollNoMemory, HaveFrame
<1>10. CASE PollBreak
  BY <1>10 DEF TypeOK, PollBreak
<1>11. CASE PollMore
  BY <1>11 DEF TypeOK, PollMore
<1>12. CASE PollComplete
  BY <1>12 DEF TypeOK, PollComplete
<1>13. CASE PollEnable
  BY <1>13 DEF TypeOK, PollEnable
<1>14. ASSUME NEW f \in Frames, Xmit(f) PROVE TypeOK'
  <2>1. CASE free_tx_desc_count = 0
    BY <1>14, <2>1 DEF TypeOK, Xmit
  <2>2. CASE free_tx_desc_count # 0
    <3> DEFINE low == free_tx_desc_count = TxLow
    <3>0. /\ tx_own' = [tx_own EXCEPT ![next_tx_desc] = TRUE]
          /\ tx_isr' = [tx_isr EXCEPT ![next_tx_desc] = low]
          /\ tx_skbs' = [tx_skbs EXCEPT ![next_tx_desc] = f]
      BY <1>14, <2>2 DEF Xmit
    <3>b. low \in BOOLEAN
      OBVIOUS
    <3> HIDE DEF low
    <3>t. /\ tx_own \in [TxSlots -> BOOLEAN] /\ tx_isr \in [TxSlots -> BOOLEAN]
          /\ tx_skbs \in [TxSlots -> Frames \union {None}]
      BY DEF TypeOK
    <3>1. /\ tx_own' \in [TxSlots -> BOOLEAN] /\ tx_isr' \in [TxSlots -> BOOLEAN]
          /\ tx_skbs' \in [TxSlots -> Frames \union {None}]
      BY <3>0, <3>b, <3>t
    <3>2. next_tx_desc' \in TxSlots /\ free_tx_desc_count' \in 0 .. TxCount
      BY <1>14, <2>2, <1>t DEF TypeOK, Xmit
    <3>3. stopped' \in BOOLEAN /\ tx_run' \in BOOLEAN
      BY <1>14, <2>2 DEF TypeOK, Xmit
    <3>4. QED BY <1>14, <2>2, <3>1, <3>2, <3>3 DEF TypeOK, Xmit
  <2>3. QED BY <2>1, <2>2
<1>15. CASE ReclaimTasklet
  BY <1>15, TypeReclaim DEF TypeOK, ReclaimTasklet, TxReclaim
<1>16. CASE ReclaimTimer
  BY <1>16, TypeReclaim DEF TypeOK, ReclaimTimer, TxReclaim
<1>17. CASE LinkReconfigure
  BY <1>17 DEF TypeOK, LinkReconfigure
<1>18. CASE OpenStart
  BY <1>18 DEF TypeOK, OpenStart
<1>19. CASE OpenEnd
  BY <1>19 DEF TypeOK, OpenEnd
<1>20. CASE CloseStart
  BY <1>20 DEF TypeOK, CloseStart
<1>21. CASE StopStart
  BY <1>21 DEF TypeOK, StopStart
<1>22. CASE StopEnd
  <2>1. 0 \in TxSlots /\ 0 \in RxSlots
    BY DEF TxSlots, RxSlots
  <2>2. rx_own' \in [RxSlots -> BOOLEAN] /\ rx_frame' \in [RxSlots -> Frames \union {None}]
    BY <1>22 DEF StopEnd
  <2>3. QED BY <1>22, <2>1, <2>2 DEF TypeOK, StopEnd
<1>23. CASE UNCHANGED vars
  BY <1>23 DEF TypeOK, vars
<1>24. QED
  BY <1>1, <1>2, <1>3, <1>4, <1>5, <1>6, <1>7, <1>8, <1>9, <1>10, <1>11, <1>12, <1>13,
     <1>14, <1>15, <1>16, <1>17, <1>18, <1>19, <1>20, <1>21, <1>22, <1>23
     DEF Next, Hardware, Isr, Poll, Open, Close

(* For rings of every size and every poll weight the variables of the      *)
(* Ethernet driver keep their types: no descriptor index leaves its ring   *)
(* and the count of free descriptors stays between 0 and the ring's size.  *)
THEOREM EnetTypeCorrect == Spec => []TypeOK
<1>1. Init => TypeOK
  BY TypeInit
<1>2. TypeOK /\ [Next]_vars => TypeOK'
  BY TypeStep
<1>3. QED BY <1>1, <1>2, PTL DEF Spec

-----------------------------------------------------------------------------
(* Before enet_open has ended all transmit descriptors are free; this is   *)
(* what NeverOutOfDescriptors and NeverDeaf need to be inductive.          *)
IdleRing == dev \in {"down", "opening"} => free_tx_desc_count = TxCount

QueueInv == IdleRing /\ NeverOutOfDescriptors /\ NeverDeaf

(* The invariant of the queue holds initially.                             *)
LEMMA QueueInit == Init => QueueInv
BY DEF Init, QueueInv, IdleRing, NeverOutOfDescriptors, NeverDeaf

(* Reclaiming never takes a free descriptor away and never wakes a queue   *)
(* that has none.                                                          *)
LEMMA ReclaimFrees ==
  ASSUME TypeOK, TxReclaim
  PROVE  /\ free_tx_desc_count' >= free_tx_desc_count
         /\ free_tx_desc_count' \in 0 .. TxCount
         /\ stopped' = (stopped /\ free_tx_desc_count' = 0)
         /\ UNCHANGED <<dev, ier, rx_sched, softirq>>
<1>1. free_tx_desc_count' >= free_tx_desc_count
  BY ConstFacts DEF TypeOK, TxReclaim, TxUsed
<1>2. QED BY <1>1, TypeReclaim DEF TxReclaim, irq, poll

(* Every step keeps the invariant of the queue.                            *)
LEMMA QueueStep == TypeOK /\ QueueInv /\ [Next]_vars => QueueInv'
<1>. SUFFICES ASSUME TypeOK, QueueInv, [Next]_vars PROVE QueueInv'
  OBVIOUS
<1>. USE ConstFacts DEF txring, txstate, rxring, irq, poll,
                       QueueInv, IdleRing, NeverOutOfDescriptors, NeverDeaf
<1>1. CASE Hardware
  BY <1>1 DEF Hardware, RxFrame, TxDone, TxSuspend
<1>2. CASE IsrRead
  BY <1>2 DEF IsrRead
<1>3. CASE IsrHandle
  <2>1. rx_sched' \/ ier' = ier
    BY <1>3 DEF IsrHandle
  <2>2. rx_sched => rx_sched'
    BY <1>3 DEF IsrHandle
  <2>3. QED BY <1>3, <2>1, <2>2 DEF IsrHandle
<1>4. ASSUME NEW n \in 1 .. Weight, PollStart(n) PROVE QueueInv'
  BY <1>4 DEF PollStart, Quiet
<1>5. CASE PollBadFrame \/ PollFrame \/ PollNoMemory \/ PollBreak
  BY <1>5 DEF PollBadFrame, PollFrame, PollNoMemory, PollBreak, InPoll
<1>6. CASE PollMore \/ PollComplete \/ PollEnable
  BY <1>6 DEF PollMore, PollComplete, PollEnable
<1>7. ASSUME NEW f \in Frames, Xmit(f) PROVE QueueInv'
  <2>1. dev = "up" /\ free_tx_desc_count > 0
    BY <1>7 DEF Xmit
  <2>2. free_tx_desc_count' = free_tx_desc_count - 1 /\ stopped' = (free_tx_desc_count = 1)
    BY <1>7, <2>1 DEF Xmit
  <2>3. ~stopped' => free_tx_desc_count' > 0
    <3>1. CASE free_tx_desc_count = 1
      BY <2>2, <3>1
    <3>2. CASE free_tx_desc_count # 1
      BY <2>1, <2>2, <3>2 DEF TypeOK
    <3>3. QED BY <3>1, <3>2
  <2>4. QED BY <1>7, <2>1, <2>3 DEF Xmit
<1>8. CASE ReclaimTasklet \/ ReclaimTimer
  <2>1. TxReclaim
    BY <1>8 DEF ReclaimTasklet, ReclaimTimer
  <2>2. IdleRing'
    BY <2>1, ReclaimFrees DEF TypeOK
  <2>3. NeverOutOfDescriptors'
    BY <2>1, ReclaimFrees DEF TypeOK
  <2>4. NeverDeaf'
    BY <2>1, ReclaimFrees
  <2>5. QED BY <2>2, <2>3, <2>4
<1>9. CASE LinkReconfigure
  BY <1>9 DEF LinkReconfigure
<1>10. CASE Open
  BY <1>10 DEF Open, OpenStart, OpenEnd
<1>11. CASE Close
  BY <1>11 DEF Close, CloseStart, StopStart, StopEnd
<1>12. CASE UNCHANGED vars
  BY <1>12 DEF vars
<1>13. QED
  BY <1>1, <1>2, <1>3, <1>4, <1>5, <1>6, <1>7, <1>8, <1>9, <1>10, <1>11, <1>12
     DEF Next, Isr, Poll

-----------------------------------------------------------------------------
(* The transmit window.                                                    *)

(* SlotFacts for the transmit ring, counted from dirty_tx_desc.            *)
LEMMA TxSlotFacts ==
  ASSUME TypeOK
  PROVE  /\ \A k \in 1 .. TxCount + 1 : TxSlot(k) \in TxSlots
         /\ \A k, m \in 1 .. TxCount : TxSlot(k) = TxSlot(m) => k = m
         /\ \A s \in TxSlots : \E k \in 1 .. TxCount : s = TxSlot(k)
         /\ \A k \in 1 .. TxCount : Succ(TxCount, TxSlot(k)) = TxSlot(k + 1)
         /\ TxSlot(1) = dirty_tx_desc /\ TxSlot(TxCount + 1) = TxSlot(1)
<1>1. TxCount \in Nat \ {0} /\ dirty_tx_desc \in 0 .. TxCount - 1
  BY ConstFacts DEF TypeOK, TxSlots
<1>2. /\ \A k \in 1 .. TxCount + 1 : SlotOf(TxCount, dirty_tx_desc, k) \in 0 .. TxCount - 1
      /\ \A k, m \in 1 .. TxCount :
           SlotOf(TxCount, dirty_tx_desc, k) = SlotOf(TxCount, dirty_tx_desc, m) => k = m
      /\ \A s \in 0 .. TxCount - 1 :
           \E k \in 1 .. TxCount : s = SlotOf(TxCount, dirty_tx_desc, k)
      /\ \A k \in 1 .. TxCount : Succ(TxCount, SlotOf(TxCount, dirty_tx_desc, k))
                                  = SlotOf(TxCount, dirty_tx_desc, k + 1)
      /\ SlotOf(TxCount, dirty_tx_desc, 1) = dirty_tx_desc
      /\ SlotOf(TxCount, dirty_tx_desc, TxCount + 1) = dirty_tx_desc
  BY <1>1, SlotFacts
<1>3. QED BY <1>2, Zenon DEF TxSlot, TxSlots

(* The engine owns all used descriptors but the first n, and is at the     *)
(* first of them.                                                          *)
OwnedFrom(n) ==
  /\ n \in 0 .. TxUsed
  /\ tx_dma = TxSlot(n + 1)
  /\ \A k \in 1 .. TxUsed : tx_own[TxSlot(k)] <=> k > n

(* The window names how far the engine has come.                           *)
LEMMA WindowHasOwner == TxWindow => \E n \in 0 .. TxUsed : OwnedFrom(n)
BY DEF TxWindow, OwnedFrom

(* The transmit window holds initially.                                    *)
LEMMA WindowInit == Init => TxWindow
<1>. SUFFICES ASSUME Init PROVE TxWindow
  OBVIOUS
<1>1. TypeOK
  BY TypeInit
<1>2. TxUsed = 0
  BY ConstFacts DEF Init, TxUsed
<1>3. \A k \in 1 .. TxCount : tx_skbs[TxSlot(k)] = None /\ ~tx_own[TxSlot(k)]
  BY <1>1, TxSlotFacts, ConstFacts DEF Init
<1>4. next_tx_desc = TxSlot(1) /\ tx_dma = TxSlot(1)
  BY <1>1, TxSlotFacts DEF Init
<1>5. QED BY <1>2, <1>3, <1>4 DEF TxWindow

(* What the engine owns starts at the descriptor it looks at.              *)
LEMMA WindowTxDone ==
  ASSUME TypeOK, TxWindow, TxDone, NEW n, OwnedFrom(n)
  PROVE  TxWindow' /\ OwnedFrom(n + 1)' /\ n < TxUsed
<1>1. /\ tx_dma = TxSlot(n + 1)
      /\ \A k \in 1 .. TxUsed : tx_own[TxSlot(k)] <=> k > n
  BY DEF OwnedFrom
<1>2. /\ TxCount \in Nat /\ TxUsed \in 0 .. TxCount /\ n \in Nat /\ n <= TxUsed
      /\ TxUsed' = TxUsed
  BY ConstFacts DEF TypeOK, TxUsed, TxDone, OwnedFrom
<1>3. \A k : TxSlot(k)' = TxSlot(k)
  BY DEF TxSlot, TxDone
<1>4. n < TxUsed
  <2>1. SUFFICES ASSUME n = TxUsed PROVE FALSE
    BY <1>2
  <2>2. ASSUME n < TxCount PROVE FALSE
    BY <1>1, <1>2, <2>1, <2>2 DEF TxWindow, TxDone
  <2>3. ASSUME n = TxCount PROVE FALSE
    <3>1. 1 \in 1 .. TxUsed /\ ~(1 > n)
      BY <2>1, <2>3, ConstFacts
    <3>2. tx_dma = TxSlot(1)
      BY <1>1, <2>3, TxSlotFacts
    <3>3. QED BY <1>1, <3>1, <3>2 DEF TxDone
  <2>4. n < TxCount \/ n = TxCount
    BY <1>2
  <2>5. QED BY <2>2, <2>3, <2>4
<1>5. n + 1 \in 1 .. TxUsed /\ n + 1 \in 1 .. TxCount /\ (n + 1) + 1 = n + 2
  BY <1>2, <1>4
<1>6. tx_dma' = TxSlot(n + 2)
  BY <1>1, <1>5, TxSlotFacts DEF TxDone
<1>7. ASSUME NEW k \in 1 .. TxCount, k # n + 1
      PROVE  tx_own'[TxSlot(k)] = tx_own[TxSlot(k)]
  <2>1. TxSlot(k) # tx_dma
    BY <1>1, <1>5, <1>7, TxSlotFacts
  <2>2. QED BY <2>1, <1>7, TxSlotFacts, <1>2 DEF TypeOK, TxDone
<1>8. ~tx_own'[TxSlot(n + 1)]
  BY <1>1 DEF TypeOK, TxDone
<1>9. ASSUME NEW k \in 1 .. TxUsed PROVE tx_own'[TxSlot(k)] <=> k > n + 1
  <2>1. k \in 1 .. TxCount /\ (k = n + 1 \/ (k > n + 1 <=> k > n))
    BY <1>2
  <2>2. CASE k = n + 1
    BY <1>8, <2>2, <1>2
  <2>3. CASE k # n + 1
    BY <1>1, <1>7, <2>1, <2>3, Zenon
  <2>4. QED BY <2>2, <2>3
<1>10. ASSUME NEW k \in TxUsed + 1 .. TxCount
       PROVE  tx_skbs[TxSlot(k)] = None /\ ~tx_own'[TxSlot(k)]
  <2>1. k \in 1 .. TxCount /\ k # n + 1
    BY <1>2, <1>4
  <2>2. tx_skbs[TxSlot(k)] = None /\ ~tx_own[TxSlot(k)]
    BY DEF TxWindow
  <2>3. QED BY <1>7, <2>1, <2>2
<1>11. /\ next_tx_desc' = TxSlot(TxUsed + 1) /\ tx_skbs' = tx_skbs
       /\ \A k \in 1 .. TxUsed : tx_skbs[TxSlot(k)] # None
  BY DEF TxWindow, TxDone
<1>12. n + 1 \in 0 .. TxUsed /\ tx_dma' = TxSlot((n + 1) + 1)
  BY <1>5, <1>6, <1>2
<1>13. OwnedFrom(n + 1)'
  BY <1>2, <1>3, <1>9, <1>12, Zenon DEF OwnedFrom
<1>14. TxWindow'
  BY <1>2, <1>3, <1>9, <1>10, <1>11, <1>12, Zenon DEF TxWindow
<1>15. QED BY <1>4, <1>13, <1>14

(* A new frame goes behind the window.                                     *)
LEMMA WindowXmit ==
  ASSUME TypeOK, TxWindow, NEW f \in Frames, Xmit(f), NEW n, OwnedFrom(n)
  PROVE  TxWindow' /\ OwnedFrom(n)'
<1>1. CASE free_tx_desc_count = 0
  BY <1>1 DEF Xmit, TxWindow, OwnedFrom, TxUsed, TxSlot, txring
<1>2. CASE free_tx_desc_count # 0
  <2>1. /\ tx_dma = TxSlot(n + 1)
        /\ \A k \in 1 .. TxUsed : tx_own[TxSlot(k)] <=> k > n
    BY DEF OwnedFrom
  <2>2. /\ TxCount \in Nat /\ TxUsed \in 0 .. TxCount - 1 /\ n \in Nat /\ n <= TxUsed
        /\ TxUsed' = TxUsed + 1
    BY <1>2, ConstFacts DEF TypeOK, TxUsed, Xmit, OwnedFrom
  <2>3. \A k : TxSlot(k)' = TxSlot(k)
    BY <1>2 DEF TxSlot, Xmit
  <2>4. next_tx_desc = TxSlot(TxUsed + 1) /\ TxUsed + 1 \in 1 .. TxCount
    BY <2>2 DEF TxWindow
  <2>5. next_tx_desc' = TxSlot((TxUsed + 1) + 1)
    BY <1>2, <2>4, TxSlotFacts DEF Xmit
  <2>6. ASSUME NEW k \in 1 .. TxCount, k # TxUsed + 1
        PROVE  /\ tx_skbs'[TxSlot(k)] = tx_skbs[TxSlot(k)]
               /\ tx_own'[TxSlot(k)] = tx_own[TxSlot(k)]
    <3>1. TxSlot(k) # next_tx_desc
      BY <2>4, <2>6, TxSlotFacts
    <3>2. TxSlot(k) \in TxSlots
      BY <2>2, TxSlotFacts
    <3>3. QED BY <1>2, <3>1, <3>2 DEF TypeOK, Xmit
  <2>7. tx_skbs'[TxSlot(TxUsed + 1)] = f /\ tx_own'[TxSlot(TxUsed + 1)]
    BY <1>2, <2>4 DEF TypeOK, Xmit
  <2>8. ASSUME NEW k \in 1 .. TxUsed + 1
        PROVE  tx_skbs'[TxSlot(k)] # None /\ (tx_own'[TxSlot(k)] <=> k > n)
    <3>1. CASE k = TxUsed + 1
      BY <2>2, <2>7, <3>1, ConstFacts
    <3>2. CASE k # TxUsed + 1
      <4>1. k \in 1 .. TxUsed /\ k \in 1 .. TxCount
        BY <2>2, <3>2
      <4>2. tx_skbs[TxSlot(k)] # None /\ (tx_own[TxSlot(k)] <=> k > n)
        BY <2>1, <4>1, Zenon DEF TxWindow
      <4>3. QED BY <2>6, <3>2, <4>1, <4>2, Zenon
    <3>3. QED BY <3>1, <3>2
  <2>9. ASSUME NEW k \in (TxUsed + 1) + 1 .. TxCount
        PROVE  tx_skbs'[TxSlot(k)] = None /\ ~tx_own'[TxSlot(k)]
    <3>1. k \in TxUsed + 1 .. TxCount /\ k \in 1 .. TxCount /\ k # TxUsed + 1
      BY <2>2
    <3>2. tx_skbs[TxSlot(k)] = None /\ ~tx_own[TxSlot(k)]
      BY <3>1 DEF TxWindow
    <3>3. QED BY <2>6, <3>1, <3>2, Zenon
  <2>10. tx_dma' = TxSlot(n + 1) /\ n \in 0 .. TxUsed + 1
    BY <2>1, <2>2 DEF Xmit
  <2>11. TxWindow'
    BY <2>2, <2>3, <2>5, <2>8, <2>9, <2>10, Zenon DEF TxWindow
  <2>12. OwnedFrom(n)'
    BY <2>2, <2>3, <2>8, <2>10, Zenon DEF OwnedFrom
  <2>13. QED BY <2>11, <2>12
<1>3. QED BY <1>1, <1>2

(* Reclaim frees exactly the descriptors before the one the engine is at,  *)
(* so that the window starts there afterwards.                             *)
LEMMA WindowReclaim ==
  ASSUME TypeOK, TxWindow, TxReclaim, NEW n, OwnedFrom(n)
  PROVE  /\ TxWindow' /\ OwnedFrom(0)' /\ TxUsed' = TxUsed - n
         /\ \A k \in 1 .. TxUsed - n : tx_skbs'[TxSlot(k)'] = tx_skbs[TxSlot(n + k)]
<1>1. /\ tx_dma = TxSlot(n + 1)
      /\ \A k \in 1 .. TxUsed : tx_own[TxSlot(k)] <=> k > n
  BY DEF OwnedFrom
<1>2. PICK m \in 0 .. TxUsed :
        /\ DonePrefix(m)
        /\ tx_skbs' = [i \in TxSlots |->
                         IF \E k \in 1 .. m : i = TxSlot(k) THEN None ELSE tx_skbs[i]]
        /\ dirty_tx_desc' = TxSlot(m + 1)
        /\ free_tx_desc_count' = free_tx_desc_count + m
  BY DEF TxReclaim
<1>3. /\ TxCount \in Nat \ {0} /\ TxUsed \in 0 .. TxCount /\ n \in Nat /\ n <= TxUsed /\ m \in Nat
      /\ dirty_tx_desc \in 0 .. TxCount - 1 /\ TxUsed' = TxUsed - m
  BY <1>2, ConstFacts DEF TypeOK, TxUsed, TxSlots, OwnedFrom
<1>4. m = n
  <2>1. ASSUME m > n PROVE FALSE
    <3>1. n + 1 \in 1 .. m /\ n + 1 \in 1 .. TxUsed /\ n + 1 > n
      BY <1>3, <2>1
    <3>2. QED BY <1>1, <1>2, <3>1 DEF DonePrefix
  <2>2. ASSUME m < n PROVE FALSE
    <3>1. m < TxUsed /\ m + 1 \in 1 .. TxUsed /\ ~(m + 1 > n)
      BY <1>3, <2>2
    <3>2. QED BY <1>1, <1>2, <3>1 DEF DonePrefix
  <2>3. QED BY <1>3, <2>1, <2>2
<1>5. ASSUME NEW k \in 1 .. TxCount + 1
      PROVE  TxSlot(k)' = IF n + k <= TxCount + 1 THEN TxSlot(n + k)
                                                  ELSE TxSlot(n + k - TxCount)
  <2>1. n \in 0 .. TxCount /\ dirty_tx_desc' = SlotOf(TxCount, dirty_tx_desc, n + 1)
    BY <1>2, <1>3, <1>4 DEF TxSlot
  <2>2. QED BY <1>3, <2>1, ShiftedSlots DEF TxSlot
<1>6. ASSUME NEW k \in 1 .. n
      PROVE  tx_skbs'[TxSlot(k)] = None /\ ~tx_own[TxSlot(k)]
  <2>1. k \in 1 .. TxUsed /\ k \in 1 .. TxCount + 1 /\ ~(k > n)
    BY <1>3
  <2>2. TxSlot(k) \in TxSlots
    BY <2>1, TxSlotFacts
  <2>3. QED BY <1>1, <1>2, <1>4, <2>1, <2>2, Zenon
<1>7. ASSUME NEW k \in n + 1 .. TxCount
      PROVE  tx_skbs'[TxSlot(k)] = tx_skbs[TxSlot(k)]
  <2>1. k \in 1 .. TxCount /\ TxSlot(k) \in TxSlots
    BY <1>3, TxSlotFacts
  <2>2. ASSUME NEW j \in 1 .. m, TxSlot(k) = TxSlot(j) PROVE FALSE
    <3>1. j \in 1 .. TxCount /\ j # k
      BY <1>3, <1>4
    <3>2. QED BY <2>1, <2>2, <3>1, TxSlotFacts
  <2>3. QED BY <1>2, <2>1, <2>2, Zenon
<1>8. next_tx_desc' = TxSlot(TxUsed + 1)'
  <2>1. PICK j \in 1 .. TxCount + 1 : j = TxUsed' + 1
    BY <1>3
  <2>2. n + j = TxUsed + 1 /\ n + j <= TxCount + 1
    BY <1>3, <1>4, <2>1
  <2>3. TxSlot(j)' = TxSlot(TxUsed + 1)
    BY <1>5, <2>2
  <2>4. TxSlot(TxUsed + 1)' = TxSlot(j)'
    BY <2>1 DEF TxSlot
  <2>5. QED BY <2>3, <2>4 DEF TxWindow, TxReclaim
<1>9. ASSUME NEW k \in 1 .. TxUsed'
      PROVE  /\ tx_skbs'[TxSlot(k)'] # None /\ tx_own'[TxSlot(k)']
             /\ tx_skbs'[TxSlot(k)'] = tx_skbs[TxSlot(n + k)]
  <2>1. /\ k \in 1 .. TxCount + 1 /\ n + k \in 1 .. TxUsed /\ n + k \in n + 1 .. TxCount
        /\ n + k > n /\ n + k <= TxCount + 1
    BY <1>3, <1>4
  <2>2. TxSlot(k)' = TxSlot(n + k)
    BY <1>5, <2>1
  <2>3. tx_skbs[TxSlot(n + k)] # None /\ tx_own[TxSlot(n + k)]
    BY <1>1, <2>1 DEF TxWindow
  <2>4. QED BY <1>7, <2>1, <2>2, <2>3 DEF TxReclaim
<1>10. ASSUME NEW k \in TxUsed' + 1 .. TxCount
       PROVE  tx_skbs'[TxSlot(k)'] = None /\ ~tx_own'[TxSlot(k)']
  <2>1. k \in 1 .. TxCount + 1 /\ n + k \in TxUsed + 1 .. n + TxCount
    BY <1>3, <1>4
  <2>2. CASE n + k <= TxCount
    <3>1. n + k \in TxUsed + 1 .. TxCount /\ n + k \in n + 1 .. TxCount /\ n + k <= TxCount + 1
      BY <1>3, <2>1, <2>2
    <3>2. TxSlot(k)' = TxSlot(n + k)
      BY <1>5, <2>1, <3>1
    <3>3. tx_skbs[TxSlot(n + k)] = None /\ ~tx_own[TxSlot(n + k)]
      BY <3>1 DEF TxWindow
    <3>4. QED BY <1>7, <3>1, <3>2, <3>3 DEF TxReclaim
  <2>3. CASE n + k > TxCount
    <3>1. n + k - TxCount \in 1 .. n
      BY <1>3, <2>1, <2>3
    <3>2. TxSlot(k)' = TxSlot(n + k - TxCount)
      <4>1. CASE n + k = TxCount + 1
        <5>1. TxSlot(n + k) = TxSlot(1) /\ n + k - TxCount = 1
          BY <4>1, <1>3, TxSlotFacts
        <5>2. QED BY <1>5, <2>1, <4>1, <5>1
      <4>2. CASE n + k # TxCount + 1
        <5>1. ~(n + k <= TxCount + 1)
          BY <1>3, <2>1, <2>3, <4>2
        <5>2. QED BY <1>5, <2>1, <5>1
      <4>3. QED BY <4>1, <4>2
    <3>3. QED BY <1>6, <3>1, <3>2 DEF TxReclaim
  <2>4. QED BY <1>3, <2>1, <2>2, <2>3
<1>11. 0 \in 0 .. TxUsed' /\ tx_dma' = TxSlot(0 + 1)'
  <2>1. TxSlot(1)' = TxSlot(n + 1)
    BY <1>3, <1>5
  <2>2. QED BY <1>1, <1>3, <1>4, <2>1 DEF TxReclaim
<1>12. \A k \in 1 .. TxUsed' : tx_own'[TxSlot(k)'] <=> k > 0
  BY <1>3, <1>9
<1>13. TxWindow'
  BY <1>8, <1>9, <1>10, <1>11, <1>12, Zenon DEF TxWindow
<1>14. OwnedFrom(0)'
  BY <1>11, <1>12, Zenon DEF OwnedFrom
<1>15. QED BY <1>3, <1>4, <1>9, <1>13, <1>14

(* Stop restarts the ring at its first descriptor when it is empty.        *)
LEMMA WindowStopEnd ==
  ASSUME TypeOK, TxWindow, StopEnd
  PROVE  TxWindow'
<1>1. TxUsed = 0 /\ TxUsed' = 0
  BY ConstFacts DEF StopEnd, TxUsed
<1>2. \A k \in 1 .. TxCount : tx_skbs[TxSlot(k)] = None /\ ~tx_own[TxSlot(k)]
  BY <1>1 DEF TxWindow
<1>3. \A s \in TxSlots : tx_skbs[s] = None /\ ~tx_own[s]
  BY <1>2, TxSlotFacts
<1>4. TypeOK'
  BY TypeStep DEF Next, Close
<1>5. /\ \A k \in 1 .. TxCount + 1 : TxSlot(k)' \in TxSlots
      /\ TxSlot(1)' = 0
  <2>1. TxCount \in Nat \ {0} /\ 0 \in 0 .. TxCount - 1
    BY ConstFacts
  <2>2. QED BY <2>1, SlotFacts DEF StopEnd, TxSlot, TxSlots
<1>6. \A k \in 1 .. TxCount : tx_skbs'[TxSlot(k)'] = None /\ ~tx_own'[TxSlot(k)']
  BY <1>3, <1>5, ConstFacts DEF StopEnd
<1>7. next_tx_desc' = TxSlot(1)' /\ tx_dma' = TxSlot(1)'
  BY <1>5 DEF StopEnd
<1>8. QED BY <1>1, <1>6, <1>7 DEF TxWindow

(* Every step keeps the transmit window.                                   *)
LEMMA WindowStep == TypeOK /\ TxWindow /\ [Next]_vars => TxWindow'
<1>. SUFFICES ASSUME TypeOK, TxWindow, [Next]_vars PROVE TxWindow'
  OBVIOUS
<1>1. ASSUME UNCHANGED <<txring, tx_dma>> PROVE TxWindow'
  BY <1>1 DEF TxWindow, TxUsed, TxSlot, txring
<1>. PICK n : OwnedFrom(n)
  BY WindowHasOwner
<1>2. CASE TxDone
  BY <1>2, WindowTxDone
<1>3. ASSUME NEW f \in Frames, RxFrame(f) PROVE TxWindow'
  BY <1>1, <1>3 DEF RxFrame, txstate
<1>4. CASE TxSuspend \/ LinkReconfigure
  BY <1>1, <1>4 DEF TxSuspend, LinkReconfigure
<1>5. CASE Isr
  BY <1>1, <1>5 DEF Isr, IsrRead, IsrHandle, txstate
<1>6. CASE Poll
  BY <1>1, <1>6 DEF Poll, PollStart, PollBadFrame, PollFrame, PollNoMemory, PollBreak,
                    PollMore, PollComplete, PollEnable, txstate
<1>7. ASSUME NEW f \in Frames, Xmit(f) PROVE TxWindow'
  BY <1>7, WindowXmit
<1>8. CASE ReclaimTasklet \/ ReclaimTimer
  BY <1>8, WindowReclaim DEF ReclaimTasklet, ReclaimTimer
<1>9. CASE Open
  BY <1>1, <1>9 DEF Open, OpenStart, OpenEnd
<1>10. CASE CloseStart \/ StopStart
  BY <1>1, <1>10 DEF CloseStart, StopStart, txstate
<1>11. CASE StopEnd
  BY <1>11, WindowStopEnd
<1>12. CASE UNCHANGED vars
  BY <1>1, <1>12 DEF vars, txstate
<1>13. QED
  BY <1>2, <1>3, <1>4, <1>5, <1>6, <1>7, <1>8, <1>9, <1>10, <1>11, <1>12
     DEF Next, Hardware, Close

(* For rings of every size the stack never calls enet_xmit without a free  *)
(* descriptor: the case tango2_enet.c calls one that should not happen.    *)
THEOREM EnetNeverOutOfDescriptors == Spec => []NeverOutOfDescriptors
<1>1. Init => TypeOK /\ QueueInv
  BY TypeInit, QueueInit
<1>2. TypeOK /\ QueueInv /\ [Next]_vars => TypeOK' /\ QueueInv'
  BY TypeStep, QueueStep
<1>3. QueueInv => NeverOutOfDescriptors
  BY DEF QueueInv
<1>4. QED BY <1>1, <1>2, <1>3, PTL DEF Spec

(* For every ring, weight and interleaving of handler, poll, open and stop *)
(* an interface that is up has a poll scheduled or its receive interrupt   *)
(* enabled.                                                                *)
THEOREM EnetNeverDeaf == Spec => []NeverDeaf
<1>1. Init => TypeOK /\ QueueInv
  BY TypeInit, QueueInit
<1>2. TypeOK /\ QueueInv /\ [Next]_vars => TypeOK' /\ QueueInv'
  BY TypeStep, QueueStep
<1>3. QueueInv => NeverDeaf
  BY DEF QueueInv
<1>4. QED BY <1>1, <1>2, <1>3, PTL DEF Spec

(* For transmit rings of every size buffers are freed exactly when their   *)
(* descriptors are done, and driver and engine agree on what lies between  *)
(* dirty_tx_desc and next_tx_desc.                                         *)
THEOREM EnetTxWindow == Spec => []TxWindow
<1>1. Init => TypeOK /\ TxWindow
  BY TypeInit, WindowInit
<1>2. TypeOK /\ TxWindow /\ [Next]_vars => TypeOK' /\ TxWindow'
  BY TypeStep, WindowStep
<1>3. QED BY <1>1, <1>2, PTL DEF Spec

-----------------------------------------------------------------------------
(* The transmit ring as a first-in first-out queue.                        *)

(* Sequences compared element by element.                                  *)
LEMMA AppendIs ==
  ASSUME NEW S, NEW q \in Seq(S), NEW q2 \in Seq(S), NEW e \in S,
         Len(q2) = Len(q) + 1, \A i \in 1 .. Len(q) : q2[i] = q[i],
         q2[Len(q) + 1] = e
  PROVE  q2 = Append(q, e)
<1>1. /\ Append(q, e) \in Seq(S) /\ Len(Append(q, e)) = Len(q) + 1
      /\ \A i \in 1 .. Len(q) : Append(q, e)[i] = q[i]
      /\ Append(q, e)[Len(q) + 1] = e
  BY AppendProperties
<1>2. ASSUME NEW i \in 1 .. Len(q2) PROVE q2[i] = Append(q, e)[i]
  <2>1. i \in 1 .. Len(q) \/ i = Len(q) + 1
    OBVIOUS
  <2>2. QED BY <1>1, <2>1
<1>3. QED BY <1>1, <1>2, SeqEqual

(* A sequence that is another one without its first element.               *)
LEMMA TailIs ==
  ASSUME NEW S, NEW q \in Seq(S), NEW q2 \in Seq(S), q # <<>>,
         Len(q2) = Len(q) - 1, \A i \in 1 .. Len(q) - 1 : q2[i] = q[i + 1]
  PROVE  q2 = Tail(q)
<1>1. /\ Tail(q) \in Seq(S) /\ Len(Tail(q)) = Len(q) - 1
      /\ \A i \in 1 .. Len(Tail(q)) : Tail(q)[i] = q[i + 1]
  BY HeadTailProperties
<1>2. QED BY <1>1, SeqEqual

(* The descriptors that are done and not reclaimed are the first n.        *)
LEMMA FirstOwned ==
  ASSUME NEW own, NEW N, NEW c, NEW u \in Nat, NEW n \in 0 .. u,
         \A k \in 1 .. u : own[SlotOf(N, c, k)] <=> k > n
  PROVE  (CHOOSE m \in 0 .. u : /\ \A k \in 1 .. m : ~own[SlotOf(N, c, k)]
                                /\ m < u => own[SlotOf(N, c, m + 1)]) = n
<1> DEFINE P(m) == /\ \A k \in 1 .. m : ~own[SlotOf(N, c, k)]
                   /\ m < u => own[SlotOf(N, c, m + 1)]
<1>1. P(n)
  <2>1. ASSUME NEW k \in 1 .. n PROVE ~own[SlotOf(N, c, k)]
    <3>1. k \in 1 .. u /\ ~(k > n)
      OBVIOUS
    <3>2. QED BY <3>1
  <2>2. ASSUME n < u PROVE own[SlotOf(N, c, n + 1)]
    <3>1. n + 1 \in 1 .. u /\ n + 1 > n
      BY <2>2
    <3>2. QED BY <3>1
  <2>3. QED BY <2>1, <2>2
<1>2. ASSUME NEW m \in 0 .. u, P(m) PROVE m = n
  <2>1. ASSUME m > n PROVE FALSE
    <3>1. n + 1 \in 1 .. m /\ n + 1 \in 1 .. u /\ n + 1 > n
      BY <2>1
    <3>2. QED BY <1>2, <3>1
  <2>2. ASSUME m < n PROVE FALSE
    <3>1. m < u /\ m + 1 \in 1 .. u /\ ~(m + 1 > n)
      BY <2>2
    <3>2. QED BY <1>2, <3>1
  <2>3. QED BY <2>1, <2>2
<1> HIDE DEF P
<1>3. (CHOOSE m \in 0 .. u : P(m)) = n
  BY <1>1, <1>2, Zenon
<1>4. QED BY <1>3 DEF P

(* The frames on their way, when the engine owns all but the first n.      *)
FramesFrom(n) == [k \in 1 .. TxUsed - n |-> tx_skbs[TxSlot(n + k)]]

QueueIsFrames == \A n : TypeOK /\ OwnedFrom(n) => TxQueue = FramesFrom(n)

(* The queue of the refinement mapping, when the engine owns all but n.    *)
LEMMA TxQueueIs == QueueIsFrames
<1>. SUFFICES ASSUME TypeOK, NEW n, OwnedFrom(n) PROVE TxQueue = FramesFrom(n)
  BY DEF QueueIsFrames
<1>1. TxUsed \in Nat /\ n \in 0 .. TxUsed
  BY ConstFacts DEF TypeOK, TxUsed, OwnedFrom
<1>2. \A k \in 1 .. TxUsed : tx_own[SlotOf(TxCount, dirty_tx_desc, k)] <=> k > n
  BY DEF OwnedFrom, TxSlot
<1>3. OnWay = n
  BY <1>1, <1>2, FirstOwned DEF OnWay, DonePrefix, TxSlot
<1>4. QED BY <1>3 DEF TxQueue, FramesFrom

(* The same in the next state.                                             *)
LEMMA NextTxQueueIs == QueueIsFrames'
BY TxQueueIs, PTL

(* The frames on their way are a sequence of frames.                       *)
LEMMA FramesFromFacts ==
  ASSUME TypeOK, TxWindow, NEW n, OwnedFrom(n)
  PROVE  /\ TxUsed \in 0 .. TxCount /\ n \in 0 .. TxUsed /\ TxUsed - n \in Nat
         /\ FramesFrom(n) \in Seq(Frames) /\ Len(FramesFrom(n)) = TxUsed - n
         /\ \A k \in 1 .. TxUsed - n : FramesFrom(n)[k] = tx_skbs[TxSlot(n + k)]
<1>1. TxCount \in Nat /\ TxUsed \in 0 .. TxCount /\ n \in 0 .. TxUsed /\ TxUsed - n \in Nat
  BY ConstFacts DEF TypeOK, TxUsed, OwnedFrom
<1>2. ASSUME NEW k \in 1 .. TxUsed - n PROVE tx_skbs[TxSlot(n + k)] \in Frames
  <2>1. n + k \in 1 .. TxUsed /\ n + k \in 1 .. TxCount + 1
    BY <1>1
  <2>2. TxSlot(n + k) \in TxSlots /\ tx_skbs[TxSlot(n + k)] # None
    BY <2>1, TxSlotFacts DEF TxWindow
  <2>3. QED BY <2>2 DEF TypeOK
<1>3. QED BY <1>1, <1>2 DEF FramesFrom

(* enet_xmit puts its frame at the end of the queue.                       *)
LEMMA XmitPuts ==
  ASSUME TypeOK, TxWindow, NeverOutOfDescriptors, NEW f \in Frames, Xmit(f), TypeOK'
  PROVE  Tx!Put(f)
<1>1. PICK n : OwnedFrom(n)
  BY WindowHasOwner
<1>2. TxWindow' /\ OwnedFrom(n)'
  BY <1>1, WindowXmit
<1>3. TxQueue = FramesFrom(n) /\ TxQueue' = FramesFrom(n)'
  BY <1>1, <1>2, TxQueueIs, NextTxQueueIs DEF QueueIsFrames
<1>4. /\ TxUsed \in 0 .. TxCount /\ n \in 0 .. TxUsed /\ TxUsed - n \in Nat
      /\ FramesFrom(n) \in Seq(Frames) /\ Len(FramesFrom(n)) = TxUsed - n
      /\ \A k \in 1 .. TxUsed - n : FramesFrom(n)[k] = tx_skbs[TxSlot(n + k)]
  BY <1>1, FramesFromFacts
<1>5. free_tx_desc_count # 0 /\ dev = "up"
  BY DEF NeverOutOfDescriptors, Xmit
<1>6. /\ TxCount \in Nat /\ TxUsed \in 0 .. TxCount - 1 /\ TxUsed' = TxUsed + 1
  BY <1>5, ConstFacts DEF TypeOK, TxUsed, Xmit
<1>7. \A k : TxSlot(k)' = TxSlot(k)
  BY <1>5 DEF TxSlot, Xmit
<1>8. FramesFrom(n)' = [k \in 1 .. (TxUsed + 1) - n |-> tx_skbs'[TxSlot(n + k)]]
  BY <1>6, <1>7 DEF FramesFrom
<1>9. next_tx_desc = TxSlot(TxUsed + 1) /\ TxSlot(TxUsed + 1) \in TxSlots
  BY <1>6, TxSlotFacts DEF TxWindow
<1>10. ASSUME NEW k \in 1 .. TxUsed - n
       PROVE  FramesFrom(n)'[k] = FramesFrom(n)[k]
  <2>1. /\ n + k \in 1 .. TxCount /\ TxUsed + 1 \in 1 .. TxCount /\ n + k # TxUsed + 1
        /\ k \in 1 .. (TxUsed + 1) - n /\ n + k \in 1 .. TxCount + 1
    BY <1>4, <1>6
  <2>2. TxSlot(n + k) # next_tx_desc /\ TxSlot(n + k) \in TxSlots
    BY <1>9, <2>1, TxSlotFacts
  <2>3. tx_skbs'[TxSlot(n + k)] = tx_skbs[TxSlot(n + k)]
    BY <1>5, <2>2 DEF TypeOK, Xmit
  <2>4. QED BY <1>4, <1>8, <2>1, <2>3
<1>11. FramesFrom(n)'[(TxUsed - n) + 1] = f
  <2>1. (TxUsed - n) + 1 \in 1 .. (TxUsed + 1) - n /\ n + ((TxUsed - n) + 1) = TxUsed + 1
    BY <1>4, <1>6
  <2>2. tx_skbs'[TxSlot(TxUsed + 1)] = f
    BY <1>5, <1>9 DEF TypeOK, Xmit
  <2>3. QED BY <1>8, <2>1, <2>2
<1>12. FramesFrom(n)' \in Seq(Frames) /\ Len(FramesFrom(n)') = (TxUsed - n) + 1
  <2>1. (TxUsed + 1) - n \in Nat /\ (TxUsed + 1) - n = (TxUsed - n) + 1
    BY <1>4, <1>6
  <2>2. ASSUME NEW k \in 1 .. (TxUsed + 1) - n PROVE FramesFrom(n)'[k] \in Frames
    <3>1. k \in 1 .. TxUsed - n \/ k = (TxUsed - n) + 1
      BY <1>4, <1>6
    <3>2. CASE k \in 1 .. TxUsed - n
      BY <1>4, <1>10, <3>2
    <3>3. CASE k = (TxUsed - n) + 1
      BY <1>11, <3>3
    <3>4. QED BY <3>1, <3>2, <3>3
  <2>3. QED BY <1>8, <2>1, <2>2
<1>13. FramesFrom(n)' = Append(FramesFrom(n), f)
  BY <1>4, <1>10, <1>11, <1>12, AppendIs
<1>14. Len(FramesFrom(n)) < TxCount
  BY <1>4, <1>6
<1>15. DmaOn /\ DmaOn' = DmaOn
  BY <1>5 DEF DmaOn, Xmit
<1>16. QED BY <1>3, <1>13, <1>14, <1>15 DEF Tx!Put

(* The engine takes its frame from the front of the queue.                 *)
LEMMA TxDoneTakes ==
  ASSUME TypeOK, TxWindow, DmaOn, TxDone, TypeOK'
  PROVE  Tx!Take
<1>1. PICK n : OwnedFrom(n)
  BY WindowHasOwner
<1>2. TxWindow' /\ OwnedFrom(n + 1)' /\ n < TxUsed
  BY <1>1, WindowTxDone
<1>3. TxQueue = FramesFrom(n) /\ TxQueue' = FramesFrom(n + 1)'
  BY <1>1, <1>2, TxQueueIs, NextTxQueueIs DEF QueueIsFrames
<1>4. /\ TxUsed \in 0 .. TxCount /\ n \in 0 .. TxUsed /\ TxUsed - n \in Nat
      /\ FramesFrom(n) \in Seq(Frames) /\ Len(FramesFrom(n)) = TxUsed - n
      /\ \A k \in 1 .. TxUsed - n : FramesFrom(n)[k] = tx_skbs[TxSlot(n + k)]
  BY <1>1, FramesFromFacts
<1>5. TxCount \in Nat /\ TxUsed' = TxUsed /\ tx_skbs' = tx_skbs
      /\ \A k : TxSlot(k)' = TxSlot(k)
  BY ConstFacts DEF TxDone, TxUsed, TxSlot
<1>6. FramesFrom(n + 1)' = [k \in 1 .. TxUsed - (n + 1) |-> tx_skbs[TxSlot((n + 1) + k)]]
  BY <1>5 DEF FramesFrom
<1>7. TxUsed - (n + 1) = (TxUsed - n) - 1 /\ (TxUsed - n) - 1 \in Nat
  BY <1>2, <1>4, <1>5
<1>8. ASSUME NEW k \in 1 .. (TxUsed - n) - 1
      PROVE  FramesFrom(n + 1)'[k] = FramesFrom(n)[k + 1] /\ FramesFrom(n + 1)'[k] \in Frames
  <2>1. k \in 1 .. TxUsed - (n + 1) /\ (n + 1) + k = n + (k + 1) /\ k + 1 \in 1 .. TxUsed - n
    BY <1>4, <1>5, <1>7
  <2>2. FramesFrom(n)[k + 1] \in Frames
    BY <1>4, <2>1
  <2>3. QED BY <1>4, <1>6, <2>1, <2>2
<1>9. FramesFrom(n + 1)' \in Seq(Frames) /\ Len(FramesFrom(n + 1)') = (TxUsed - n) - 1
  BY <1>6, <1>7, <1>8
<1>10. FramesFrom(n) # <<>>
  BY <1>2, <1>4, <1>5
<1>11. FramesFrom(n + 1)' = Tail(FramesFrom(n))
  BY <1>4, <1>8, <1>9, <1>10, TailIs
<1>12. DmaOn' = DmaOn
  BY DEF DmaOn, TxDone
<1>13. QED BY <1>3, <1>10, <1>11, <1>12 DEF Tx!Take

(* Reclaiming buffers leaves the frames that are on their way alone.       *)
LEMMA ReclaimKeepsQueue ==
  ASSUME TypeOK, TxWindow, TxReclaim, TypeOK'
  PROVE  TxQueue' = TxQueue /\ DmaOn' = DmaOn
<1>1. PICK n : OwnedFrom(n)
  BY WindowHasOwner
<1>2. /\ OwnedFrom(0)' /\ TxUsed' = TxUsed - n
      /\ \A k \in 1 .. TxUsed - n : tx_skbs'[TxSlot(k)'] = tx_skbs[TxSlot(n + k)]
  BY <1>1, WindowReclaim
<1>3. TxQueue = FramesFrom(n) /\ TxQueue' = FramesFrom(0)'
  BY <1>1, <1>2, TxQueueIs, NextTxQueueIs DEF QueueIsFrames
<1>4. TxUsed - n \in Nat /\ (TxUsed - n) - 0 = TxUsed - n
  BY <1>1, FramesFromFacts
<1>5. \A k \in 1 .. TxUsed - n : 0 + k = k
  BY <1>4
<1>6. FramesFrom(0)' = [k \in 1 .. TxUsed - n |-> tx_skbs'[TxSlot(k)']]
  BY <1>2, <1>4, <1>5 DEF FramesFrom, TxSlot
<1>7. FramesFrom(0)' = FramesFrom(n)
  BY <1>2, <1>6 DEF FramesFrom
<1>8. QED BY <1>3, <1>7 DEF DmaOn, TxReclaim

(* Stop closes an empty queue.                                             *)
LEMMA StopEndCloses ==
  ASSUME TypeOK, TxWindow, StopEnd, TypeOK'
  PROVE  TxQueue = <<>> /\ Tx!Close
<1>1. PICK n : OwnedFrom(n)
  BY WindowHasOwner
<1>2. PICK m : OwnedFrom(m)'
  BY WindowStopEnd DEF TxWindow, OwnedFrom
<1>3. TxQueue = FramesFrom(n) /\ TxQueue' = FramesFrom(m)'
  BY <1>1, <1>2, TxQueueIs, NextTxQueueIs DEF QueueIsFrames
<1>4. TxUsed = 0 /\ TxUsed' = 0 /\ n = 0 /\ m = 0
  BY <1>1, <1>2, ConstFacts DEF StopEnd, TxUsed, OwnedFrom
<1>5. FramesFrom(n) = <<>> /\ FramesFrom(m)' = <<>>
  BY <1>4 DEF FramesFrom
<1>6. QED BY <1>3, <1>5 DEF StopEnd, DmaOn, Tx!Close

(* The transmit engine runs only while the interface is not down.          *)
RunsWhenOn == tx_run => DmaOn

(* Every step keeps it so.                                                 *)
LEMMA RunsStep == RunsWhenOn /\ [Next]_vars => RunsWhenOn'
<1>. SUFFICES ASSUME RunsWhenOn, [Next]_vars PROVE RunsWhenOn'
  OBVIOUS
<1>. USE DEF RunsWhenOn, DmaOn, txring, txstate
<1>1. CASE Hardware
  BY <1>1 DEF Hardware, RxFrame, TxDone, TxSuspend
<1>2. CASE Isr
  BY <1>2 DEF Isr, IsrRead, IsrHandle
<1>3. CASE Poll
  BY <1>3 DEF Poll, PollStart, PollBadFrame, PollFrame, PollNoMemory, PollBreak,
              PollMore, PollComplete, PollEnable
<1>4. ASSUME NEW f \in Frames, Xmit(f) PROVE RunsWhenOn'
  BY <1>4 DEF Xmit
<1>5. CASE ReclaimTasklet \/ ReclaimTimer
  BY <1>5 DEF ReclaimTasklet, ReclaimTimer, TxReclaim
<1>6. CASE LinkReconfigure
  BY <1>6 DEF LinkReconfigure
<1>7. CASE Open
  BY <1>7 DEF Open, OpenStart, OpenEnd
<1>8. CASE Close
  BY <1>8 DEF Close, CloseStart, StopStart, StopEnd
<1>9. CASE UNCHANGED vars
  BY <1>9 DEF vars
<1>10. QED
  BY <1>1, <1>2, <1>3, <1>4, <1>5, <1>6, <1>7, <1>8, <1>9 DEF Next

(* The invariant of the refinement.                                        *)
TxInv == TypeOK /\ QueueInv /\ TxWindow /\ RunsWhenOn

(* The invariant of the refinement holds initially.                        *)
LEMMA TxInvInit == Init => TxInv
BY TypeInit, QueueInit, WindowInit DEF TxInv, RunsWhenOn, Init

(* Every step keeps the invariant of the refinement.                       *)
LEMMA TxInvStep == TxInv /\ [Next]_vars => TxInv'
BY TypeStep, QueueStep, WindowStep, RunsStep DEF TxInv

(* Every step is a step of the queue or leaves it alone.                   *)
LEMMA TxStepRefines ==
  ASSUME TxInv, [Next]_vars
  PROVE  [Tx!Next]_(Tx!vars) /\ (StopEnd => TxQueue = <<>>)
<1>. USE DEF TxInv
<1>1. TypeOK'
  BY TypeStep
<1>2. StopEnd => TxQueue = <<>> /\ Tx!Close
  BY <1>1, StopEndCloses
<1>. SUFFICES [Tx!Next]_(Tx!vars)
  BY <1>2
<1>3. ASSUME UNCHANGED txring PROVE TxQueue' = TxQueue
  BY <1>3 DEF txring, TxQueue, OnWay, DonePrefix, TxUsed, TxSlot
<1>4. ASSUME UNCHANGED <<txring, DmaOn>> PROVE [Tx!Next]_(Tx!vars)
  BY <1>3, <1>4 DEF Tx!vars
<1>5. CASE TxDone
  BY <1>1, <1>5, TxDoneTakes DEF Tx!Next, RunsWhenOn, TxDone
<1>6. ASSUME NEW f \in Frames, Xmit(f) PROVE [Tx!Next]_(Tx!vars)
  BY <1>1, <1>6, XmitPuts DEF QueueInv, Tx!Next
<1>7. CASE ReclaimTasklet \/ ReclaimTimer
  BY <1>1, <1>7, ReclaimKeepsQueue DEF ReclaimTasklet, ReclaimTimer, Tx!vars
<1>8. CASE OpenStart
  <2>1. TxQueue' = TxQueue
    BY <1>3, <1>8 DEF OpenStart
  <2>2. Tx!Open
    BY <1>8, <2>1 DEF OpenStart, DmaOn, Tx!Open
  <2>3. QED BY <2>2 DEF Tx!Next
<1>9. CASE StopEnd
  BY <1>2, <1>9 DEF Tx!Next
<1>10. ASSUME NEW f \in Frames, RxFrame(f) PROVE UNCHANGED <<txring, DmaOn>>
  BY <1>10 DEF RxFrame, txstate, DmaOn
<1>11. CASE TxSuspend \/ LinkReconfigure \/ Isr \/ UNCHANGED vars
  <2>1. UNCHANGED <<txring, DmaOn>>
    BY <1>11 DEF TxSuspend, LinkReconfigure, Isr, IsrRead, IsrHandle, vars, txstate, DmaOn
  <2>2. QED BY <1>4, <2>1
<1>12. CASE Poll
  <2>1. UNCHANGED <<txring, DmaOn>>
    BY <1>12 DEF Poll, PollStart, PollBadFrame, PollFrame, PollNoMemory, PollBreak,
                 PollMore, PollComplete, PollEnable, txstate, DmaOn
  <2>2. QED BY <1>4, <2>1
<1>13. CASE OpenEnd \/ CloseStart \/ StopStart
  <2>1. UNCHANGED <<txring, DmaOn>>
    BY <1>13 DEF OpenEnd, CloseStart, StopStart, txstate, DmaOn
  <2>2. QED BY <1>4, <2>1
<1>14. QED
  BY <1>4, <1>5, <1>6, <1>7, <1>8, <1>9, <1>10, <1>11, <1>12, <1>13
     DEF Next, Hardware, Open, Close

(* For transmit rings of every size and every interleaving of engine,      *)
(* reclaim, enet_xmit, open and stop the transmit ring is a first-in       *)
(* first-out queue, and enet_stop finds it empty.                          *)
THEOREM EnetTxFifo == Spec => TxImplementsFifo
<1>1. Init => TxInv /\ Tx!Init
  <2>1. ASSUME Init PROVE Tx!Init
    <3>1. TxUsed = 0 /\ TypeOK
      BY <2>1, TypeInit, ConstFacts DEF Init, TxUsed
    <3>2. PICK n \in 0 .. TxUsed : OwnedFrom(n)
      BY <2>1, WindowInit, WindowHasOwner
    <3>3. TxQueue = FramesFrom(n) /\ n = 0
      BY <3>1, <3>2, TxQueueIs DEF QueueIsFrames
    <3>4. TxQueue = <<>>
      BY <3>1, <3>3 DEF FramesFrom
    <3>5. QED BY <2>1, <3>4 DEF Init, DmaOn, Tx!Init
  <2>2. QED BY <2>1, TxInvInit
<1>2. TxInv /\ [Next]_vars => TxInv'
  BY TxInvStep
<1>3. TxInv /\ [Next]_vars => [Tx!Next]_(Tx!vars)
  BY TxStepRefines
<1>4. TxInv /\ [Next]_vars => [StopEnd => TxQueue = <<>>]_vars
  BY TxStepRefines
<1>5. QED
  BY <1>1, <1>2, <1>3, <1>4, PTL DEF Spec, TxImplementsFifo, Tx!Spec
-----------------------------------------------------------------------------
(* The receive ring as a first-in first-out queue.                         *)

(* SlotFacts for the receive ring, counted from last_rx_desc.              *)
LEMMA RxSlotFacts ==
  ASSUME TypeOK
  PROVE  /\ \A k \in 1 .. RxCount + 1 : RxSlot(k) \in RxSlots
         /\ \A k, m \in 1 .. RxCount : RxSlot(k) = RxSlot(m) => k = m
         /\ \A k \in 1 .. RxCount : Succ(RxCount, RxSlot(k)) = RxSlot(k + 1)
         /\ RxSlot(1) = last_rx_desc /\ RxSlot(RxCount + 1) = RxSlot(1)
<1>1. RxCount \in Nat \ {0} /\ last_rx_desc \in 0 .. RxCount - 1
  BY ConstFacts DEF TypeOK, RxSlots
<1>2. /\ \A k \in 1 .. RxCount + 1 : SlotOf(RxCount, last_rx_desc, k) \in 0 .. RxCount - 1
      /\ \A k, m \in 1 .. RxCount :
           SlotOf(RxCount, last_rx_desc, k) = SlotOf(RxCount, last_rx_desc, m) => k = m
      /\ \A k \in 1 .. RxCount : Succ(RxCount, SlotOf(RxCount, last_rx_desc, k))
                                  = SlotOf(RxCount, last_rx_desc, k + 1)
      /\ SlotOf(RxCount, last_rx_desc, 1) = last_rx_desc
      /\ SlotOf(RxCount, last_rx_desc, RxCount + 1) = last_rx_desc
  BY <1>1, SlotFacts
<1>3. QED BY <1>2, Zenon DEF RxSlot, RxSlots

(* The engine has filled the first n descriptors from the driver's         *)
(* position on and is at the next one; only the first of them can have     *)
(* been emptied already.                                                   *)
RxFilled(n) ==
  /\ n \in 0 .. RxCount
  /\ rx_dma = RxSlot(n + 1)
  /\ \A k \in 1 .. RxCount : rx_own[RxSlot(k)] <=> k > n
  /\ \A k \in 2 .. n : rx_frame[RxSlot(k)] # None

(* While the interface is down the driver's descriptor is the engine's.    *)
RxIdle == dev = "down" => rx_own[last_rx_desc]

RxInv == TypeOK /\ RxIdle /\ \E n : RxFilled(n)

Taken(n) == IF n > 0 /\ rx_frame[RxSlot(1)] = None THEN 1 ELSE 0
Received(n) == [k \in 1 .. n - Taken(n) |-> rx_frame[RxSlot(Taken(n) + k)]]

QueueIsReceived == \A n : TypeOK /\ RxFilled(n) => RxQueue = Received(n)

(* The queue of the refinement mapping, when n descriptors are filled.     *)
LEMMA RxQueueIs == QueueIsReceived
<1>. SUFFICES ASSUME TypeOK, NEW n, RxFilled(n) PROVE RxQueue = Received(n)
  BY DEF QueueIsReceived
<1>1. RxCount \in Nat /\ n \in 0 .. RxCount
  BY ConstFacts DEF RxFilled
<1>2. \A k \in 1 .. RxCount : rx_own[SlotOf(RxCount, last_rx_desc, k)] <=> k > n
  BY DEF RxFilled, RxSlot
<1>3. RxDone = n
  BY <1>1, <1>2, FirstOwned DEF RxDone, RxSlot
<1> DEFINE S == Frames \union {None}
           q == [k \in 1 .. n |-> rx_frame[RxSlot(k)]]
           t == Taken(n)
<1>4. RxQueue = SubSeq(q, t + 1, n)
  BY <1>3 DEF RxQueue, Taken
<1>5. t \in {0, 1} /\ n - t \in Nat /\ t + 1 \in 1 .. n + 1
  BY <1>1 DEF Taken
<1>6. \A k \in 1 .. n : rx_frame[RxSlot(k)] \in S
  <2>1. \A k \in 1 .. n : k \in 1 .. RxCount + 1
    BY <1>1
  <2>2. QED BY <2>1, RxSlotFacts DEF TypeOK
<1> HIDE DEF S, t
<1>7. q \in Seq(S) /\ Len(q) = n /\ \A k \in 1 .. n : q[k] = rx_frame[RxSlot(k)]
  BY <1>1, <1>6
<1> HIDE DEF q
<1>8. /\ SubSeq(q, t + 1, n) \in Seq(S) /\ Len(SubSeq(q, t + 1, n)) = n - t
      /\ \A k \in 1 .. n - t : SubSeq(q, t + 1, n)[k] = q[t + k]
  <2>1. t + 1 \in 1 .. Len(q) + 1 /\ n \in (t + 1) - 1 .. Len(q)
    BY <1>1, <1>5, <1>7
  <2>2. /\ SubSeq(q, t + 1, n) \in Seq(S) /\ Len(SubSeq(q, t + 1, n)) = n - (t + 1) + 1
        /\ \A k \in 1 .. n - (t + 1) + 1 : SubSeq(q, t + 1, n)[k] = q[(t + 1) + k - 1]
    BY <1>7, <2>1, SubSeqProperties
  <2>3. n - (t + 1) + 1 = n - t /\ \A k \in 1 .. n - t : (t + 1) + k - 1 = t + k
    BY <1>1, <1>5
  <2>4. QED BY <2>2, <2>3
<1>9. Received(n) = [k \in 1 .. n - t |-> rx_frame[RxSlot(t + k)]]
  BY DEF Received, t
<1>10. ASSUME NEW k \in 1 .. n - t PROVE Received(n)[k] = q[t + k] /\ q[t + k] \in S
  <2>1. t + k \in 1 .. n
    BY <1>1, <1>5
  <2>2. QED BY <1>6, <1>7, <1>9, <2>1
<1>11. Received(n) \in Seq(S) /\ Len(Received(n)) = n - t
  BY <1>5, <1>9, <1>10
<1>12. QED BY <1>4, <1>8, <1>10, <1>11, SeqEqual

(* The same in the next state.                                             *)
LEMMA NextRxQueueIs == QueueIsReceived'
BY RxQueueIs, PTL

(* The received frames are a sequence of frames.                           *)
LEMMA ReceivedFacts ==
  ASSUME TypeOK, NEW n, RxFilled(n)
  PROVE  /\ RxCount \in Nat /\ n \in 0 .. RxCount /\ Taken(n) \in {0, 1}
         /\ n - Taken(n) \in Nat
         /\ Received(n) \in Seq(Frames) /\ Len(Received(n)) = n - Taken(n)
         /\ \A k \in 1 .. n - Taken(n) : Received(n)[k] = rx_frame[RxSlot(Taken(n) + k)]
<1>1. RxCount \in Nat \ {0} /\ n \in 0 .. RxCount
  BY ConstFacts DEF RxFilled
<1>2. Taken(n) \in {0, 1} /\ n - Taken(n) \in Nat
  BY <1>1 DEF Taken
<1>3. ASSUME NEW k \in 1 .. n - Taken(n) PROVE rx_frame[RxSlot(Taken(n) + k)] \in Frames
  <2>1. Taken(n) + k \in 1 .. n /\ Taken(n) + k \in 1 .. RxCount + 1
    BY <1>1, <1>2
  <2>2. RxSlot(Taken(n) + k) \in RxSlots
    BY <2>1, RxSlotFacts
  <2>3. rx_frame[RxSlot(Taken(n) + k)] # None
    <3>1. CASE Taken(n) + k \in 2 .. n
      BY <3>1 DEF RxFilled
    <3>2. CASE Taken(n) + k = 1
      <4>1. Taken(n) = 0 /\ n > 0
        BY <1>1, <1>2, <2>1, <3>2
      <4>2. rx_frame[RxSlot(1)] # None
        BY <4>1 DEF Taken
      <4>3. QED BY <3>2, <4>2
    <3>3. QED BY <1>1, <1>2, <2>1, <3>1, <3>2
  <2>4. QED BY <2>2, <2>3 DEF TypeOK
<1>4. QED BY <1>1, <1>2, <1>3 DEF Received

(* The engine stores a frame in the first descriptor it owns, and there    *)
(* is one.                                                                 *)
LEMMA RxFrameFills ==
  ASSUME TypeOK, NEW n, RxFilled(n), NEW f \in Frames, RxFrame(f)
  PROVE  /\ n < RxCount /\ RxFilled(n + 1)' /\ Taken(n + 1)' = Taken(n)
         /\ \A k \in 1 .. n : rx_frame'[RxSlot(k)] = rx_frame[RxSlot(k)]
         /\ rx_frame'[RxSlot(n + 1)] = f
         /\ \A k : RxSlot(k)' = RxSlot(k)
<1>1. /\ RxCount \in Nat \ {0} /\ n \in 0 .. RxCount /\ rx_dma = RxSlot(n + 1)
      /\ \A k \in 1 .. RxCount : rx_own[RxSlot(k)] <=> k > n
      /\ \A k \in 2 .. n : rx_frame[RxSlot(k)] # None
  BY ConstFacts DEF RxFilled
<1>2. n < RxCount
  <2>1. SUFFICES ASSUME n = RxCount PROVE FALSE
    BY <1>1
  <2>2. 1 \in 1 .. RxCount /\ ~(1 > n)
    BY <1>1, <2>1
  <2>3. rx_dma = RxSlot(1)
    BY <1>1, <2>1, RxSlotFacts
  <2>4. QED BY <1>1, <2>2, <2>3 DEF RxFrame
<1>3. \A k : RxSlot(k)' = RxSlot(k)
  BY DEF RxSlot, RxFrame
<1>4. n + 1 \in 1 .. RxCount /\ n + 1 \in 0 .. RxCount /\ (n + 1) + 1 = n + 2
  BY <1>1, <1>2
<1>5. ASSUME NEW k \in 1 .. RxCount, k # n + 1
      PROVE  /\ rx_own'[RxSlot(k)] = rx_own[RxSlot(k)]
             /\ rx_frame'[RxSlot(k)] = rx_frame[RxSlot(k)]
  <2>1. RxSlot(k) # rx_dma /\ k \in 1 .. RxCount + 1
    BY <1>1, <1>4, <1>5, RxSlotFacts
  <2>2. RxSlot(k) \in RxSlots
    BY <2>1, RxSlotFacts
  <2>3. QED BY <2>1, <2>2 DEF TypeOK, RxFrame
<1>6. ~rx_own'[RxSlot(n + 1)] /\ rx_frame'[RxSlot(n + 1)] = f
  BY <1>1 DEF TypeOK, RxFrame
<1>7. rx_dma' = RxSlot((n + 1) + 1)
  BY <1>1, <1>4, RxSlotFacts DEF RxFrame
<1>8. ASSUME NEW k \in 1 .. RxCount PROVE rx_own'[RxSlot(k)] <=> k > n + 1
  <2>1. CASE k = n + 1
    BY <1>1, <1>6, <2>1
  <2>2. CASE k # n + 1
    <3>1. k > n <=> k > n + 1
      BY <1>1, <2>2
    <3>2. QED BY <1>1, <1>5, <2>2, <3>1
  <2>3. QED BY <2>1, <2>2
<1>9. \A k \in 1 .. n : k \in 1 .. RxCount /\ k # n + 1
  BY <1>1
<1>10. ASSUME NEW k \in 2 .. n + 1 PROVE rx_frame'[RxSlot(k)] # None
  <2>1. CASE k = n + 1
    BY <1>6, <2>1, ConstFacts
  <2>2. CASE k # n + 1
    <3>1. k \in 2 .. n /\ k \in 1 .. RxCount
      BY <1>1, <2>2
    <3>2. QED BY <1>1, <1>5, <2>2, <3>1
  <2>3. QED BY <2>1, <2>2
<1>11. RxFilled(n + 1)'
  BY <1>3, <1>4, <1>7, <1>8, <1>10 DEF RxFilled
<1>12. Taken(n + 1)' = Taken(n)
  <2>0. Taken(n + 1)' = IF n + 1 > 0 /\ rx_frame'[RxSlot(1)] = None THEN 1 ELSE 0
    BY <1>3 DEF Taken
  <2>1. CASE n = 0
    <3>1. rx_frame'[RxSlot(1)] # None
      BY <1>6, <2>1, ConstFacts
    <3>2. QED BY <2>0, <2>1, <3>1 DEF Taken
  <2>2. CASE n # 0
    <3>1. 1 \in 1 .. n /\ n > 0 /\ n + 1 > 0
      BY <1>1, <2>2
    <3>2. rx_frame'[RxSlot(1)] = rx_frame[RxSlot(1)]
      BY <1>5, <1>9, <3>1
    <3>3. QED BY <2>0, <3>1, <3>2 DEF Taken
  <2>3. QED BY <2>1, <2>2
<1>13. QED BY <1>2, <1>3, <1>5, <1>6, <1>9, <1>11, <1>12

(* A frame from the wire goes to the end of the queue.                     *)
LEMMA RxFramePuts ==
  ASSUME RxInv, NEW f \in Frames, RxFrame(f), TypeOK'
  PROVE  Rx!Put(f)
<1>1. PICK n : RxFilled(n)
  BY DEF RxInv
<1> DEFINE t == Taken(n)
<1>2. /\ n < RxCount /\ RxFilled(n + 1)' /\ Taken(n + 1)' = t
      /\ \A k \in 1 .. n : rx_frame'[RxSlot(k)] = rx_frame[RxSlot(k)]
      /\ rx_frame'[RxSlot(n + 1)] = f
      /\ \A k : RxSlot(k)' = RxSlot(k)
  BY <1>1, RxFrameFills DEF RxInv
<1>3. RxQueue = Received(n) /\ RxQueue' = Received(n + 1)'
  BY <1>1, <1>2, RxQueueIs, NextRxQueueIs DEF QueueIsReceived, RxInv
<1>4. /\ RxCount \in Nat /\ n \in 0 .. RxCount /\ t \in {0, 1} /\ n - t \in Nat
      /\ Received(n) \in Seq(Frames) /\ Len(Received(n)) = n - t
      /\ \A k \in 1 .. n - t : Received(n)[k] = rx_frame[RxSlot(t + k)]
  BY <1>1, ReceivedFacts DEF RxInv
<1>5. Received(n + 1)' = [k \in 1 .. (n + 1) - t |-> rx_frame'[RxSlot(t + k)]]
  BY <1>2 DEF Received
<1> HIDE DEF t
<1>6. (n + 1) - t = (n - t) + 1
  BY <1>4
<1>7. ASSUME NEW k \in 1 .. n - t PROVE Received(n + 1)'[k] = Received(n)[k]
  <2>1. t + k \in 1 .. n /\ k \in 1 .. (n + 1) - t
    BY <1>4
  <2>2. QED BY <1>2, <1>4, <1>5, <2>1
<1>8. Received(n + 1)'[(n - t) + 1] = f
  <2>1. t + ((n - t) + 1) = n + 1 /\ (n - t) + 1 \in 1 .. (n + 1) - t
    BY <1>4
  <2>2. QED BY <1>2, <1>5, <2>1
<1>9. Received(n + 1)' \in Seq(Frames) /\ Len(Received(n + 1)') = (n - t) + 1
  <2>1. ASSUME NEW k \in 1 .. (n - t) + 1 PROVE Received(n + 1)'[k] \in Frames
    <3>1. k \in 1 .. n - t \/ k = (n - t) + 1
      BY <1>4
    <3>2. CASE k \in 1 .. n - t
      <4>1. Received(n)[k] \in Frames
        BY <1>4, <3>2
      <4>2. QED BY <1>7, <3>2, <4>1
    <3>3. CASE k = (n - t) + 1
      BY <1>8, <3>3
    <3>4. QED BY <3>1, <3>2, <3>3
  <2>2. (n - t) + 1 \in Nat
    BY <1>4
  <2>3. QED BY <1>5, <1>6, <2>1, <2>2
<1>10. Received(n + 1)' = Append(Received(n), f)
  BY <1>4, <1>7, <1>8, <1>9, AppendIs
<1>11. Len(Received(n)) < RxCount
  BY <1>2, <1>4
<1>12. DmaOn /\ DmaOn' = DmaOn
  BY DEF DmaOn, RxFrame
<1>13. QED BY <1>3, <1>10, <1>11, <1>12 DEF Rx!Put

(* The driver takes its frame from the front of the queue, or comes back   *)
(* to a descriptor whose frame it has taken before.                        *)
LEMMA TakesOne ==
  ASSUME TypeOK, NEW n, RxFilled(n), n > 0, RxQueue = Received(n),
         RxQueue' = [k \in 1 .. n - 1 |-> rx_frame[RxSlot(1 + k)]],
         DmaOn, DmaOn' = DmaOn
  PROVE  [Rx!Next]_(Rx!vars)
<1>1. /\ RxCount \in Nat /\ n \in 0 .. RxCount /\ Taken(n) \in {0, 1} /\ n - Taken(n) \in Nat
      /\ Received(n) \in Seq(Frames) /\ Len(Received(n)) = n - Taken(n)
      /\ \A k \in 1 .. n - Taken(n) : Received(n)[k] = rx_frame[RxSlot(Taken(n) + k)]
  BY ReceivedFacts
<1>2. CASE Taken(n) = 1
  <2>1. RxQueue' = RxQueue
    BY <1>2 DEF Received
  <2>2. QED BY <2>1 DEF Rx!vars
<1>3. CASE Taken(n) = 0
  <2>1. n - 1 \in Nat /\ n - 0 = n /\ RxQueue # <<>>
    BY <1>1, <1>3
  <2>2. ASSUME NEW k \in 1 .. n - 1 PROVE RxQueue'[k] = RxQueue[k + 1] /\ RxQueue'[k] \in Frames
    <3>1. k + 1 \in 1 .. n - 0 /\ 0 + (k + 1) = 1 + k
      BY <1>1
    <3>2. RxQueue[k + 1] = rx_frame[RxSlot(1 + k)] /\ RxQueue[k + 1] \in Frames
      BY <1>1, <1>3, <3>1
    <3>3. QED BY <3>2
  <2>3. RxQueue' \in Seq(Frames) /\ Len(RxQueue') = n - 1
    BY <2>1, <2>2
  <2>4. RxQueue \in Seq(Frames) /\ Len(RxQueue) = n
    BY <1>1, <1>3, <2>1
  <2>5. RxQueue' = Tail(RxQueue)
    BY <2>1, <2>2, <2>3, <2>4, TailIs
  <2>6. QED BY <2>1, <2>5 DEF Rx!Take, Rx!Next
<1>4. QED BY <1>1, <1>2, <1>3

(* The driver looks at its descriptor only when the engine has filled it.  *)
LEMMA FilledIsFirst ==
  ASSUME TypeOK, NEW n, RxFilled(n), HaveFrame
  PROVE  n > 0
<1>1. RxCount \in Nat \ {0} /\ n \in 0 .. RxCount /\ 1 \in 1 .. RxCount
  BY ConstFacts DEF RxFilled
<1>2. ~rx_own[RxSlot(1)]
  BY RxSlotFacts DEF HaveFrame
<1>3. ~(1 > n)
  BY <1>1, <1>2 DEF RxFilled
<1>4. QED BY <1>1, <1>3

(* A descriptor given back to the engine becomes the last of the ring.     *)
LEMMA RearmShifts ==
  ASSUME TypeOK, NEW n, RxFilled(n), n > 0, Rearm, rx_dma' = rx_dma
  PROVE  /\ RxFilled(n - 1)' /\ Taken(n - 1)' = 0
         /\ \A k \in 1 .. n - 1 : rx_frame'[RxSlot(k)'] = rx_frame[RxSlot(1 + k)]
<1>1. /\ RxCount \in Nat \ {0} /\ n \in 1 .. RxCount /\ rx_dma = RxSlot(n + 1)
      /\ \A k \in 1 .. RxCount : rx_own[RxSlot(k)] <=> k > n
      /\ \A k \in 2 .. n : rx_frame[RxSlot(k)] # None
  BY ConstFacts DEF RxFilled
<1>2. \A k \in 1 .. RxCount : RxSlot(k)' = RxSlot(k + 1)
  <2>1. /\ last_rx_desc \in 0 .. RxCount - 1 /\ 1 \in 0 .. RxCount /\ 1 + 1 = 2
        /\ 1 \in 1 .. RxCount
    BY <1>1 DEF TypeOK, RxSlots
  <2>2. last_rx_desc' = SlotOf(RxCount, last_rx_desc, 1 + 1)
    BY <2>1, RxSlotFacts DEF Rearm, RxSlot
  <2>3. ASSUME NEW k \in 1 .. RxCount PROVE RxSlot(k)' = RxSlot(k + 1)
    <3>1. k \in 1 .. RxCount + 1 /\ 1 + k <= RxCount + 1 /\ 1 + k = k + 1
      BY <1>1
    <3>2. SlotOf(RxCount, SlotOf(RxCount, last_rx_desc, 1 + 1), k)
            = SlotOf(RxCount, last_rx_desc, k + 1)
      BY <1>1, <2>1, <3>1, ShiftedSlots
    <3>3. QED BY <2>2, <3>2 DEF RxSlot
  <2>4. QED BY <2>3
<1>3. ASSUME NEW k \in 2 .. RxCount
      PROVE  /\ rx_own'[RxSlot(k)] = rx_own[RxSlot(k)]
             /\ rx_frame'[RxSlot(k)] = rx_frame[RxSlot(k)]
  <2>1. k \in 1 .. RxCount /\ 1 \in 1 .. RxCount /\ k # 1 /\ k \in 1 .. RxCount + 1
    BY <1>1
  <2>2. RxSlot(k) # last_rx_desc /\ RxSlot(k) \in RxSlots
    BY <2>1, RxSlotFacts
  <2>3. QED BY <2>2 DEF TypeOK, Rearm
<1>4. rx_own'[RxSlot(RxCount + 1)]
  BY RxSlotFacts DEF TypeOK, Rearm
<1>5. rx_dma' = RxSlot((n - 1) + 1)'
  <2>1. (n - 1) + 1 = n /\ n \in 1 .. RxCount
    BY <1>1
  <2>2. QED BY <1>1, <1>2, <2>1
<1>6. ASSUME NEW k \in 1 .. RxCount PROVE rx_own'[RxSlot(k)'] <=> k > n - 1
  <2>1. CASE k = RxCount
    BY <1>1, <1>2, <1>4, <2>1
  <2>2. CASE k # RxCount
    <3>1. k + 1 \in 2 .. RxCount /\ k + 1 \in 1 .. RxCount /\ (k + 1 > n <=> k > n - 1)
      BY <1>1, <2>2
    <3>2. QED BY <1>1, <1>2, <1>3, <3>1
  <2>3. QED BY <2>1, <2>2
<1>7. ASSUME NEW k \in 1 .. n - 1
      PROVE  /\ rx_frame'[RxSlot(k)'] = rx_frame[RxSlot(1 + k)]
             /\ rx_frame'[RxSlot(k)'] # None
  <2>1. k + 1 \in 2 .. RxCount /\ k + 1 \in 2 .. n /\ 1 + k = k + 1 /\ k \in 1 .. RxCount
    BY <1>1
  <2>2. QED BY <1>1, <1>2, <1>3, <2>1
<1>8. \A k \in 2 .. n - 1 : k \in 1 .. n - 1
  BY <1>1
<1>9. n - 1 \in 0 .. RxCount
  BY <1>1
<1>10. RxFilled(n - 1)'
  BY <1>5, <1>6, <1>7, <1>8, <1>9 DEF RxFilled
<1>11. Taken(n - 1)' = 0
  <2>1. ASSUME n - 1 > 0 PROVE 1 \in 1 .. n - 1
    BY <1>1, <2>1
  <2>2. n - 1 > 0 => rx_frame'[RxSlot(1)'] # None
    BY <1>7, <2>1
  <2>3. QED BY <2>2 DEF Taken
<1>12. QED BY <1>7, <1>10, <1>11

(* A poll that delivers or drops a frame and rearms its descriptor.        *)
LEMMA RearmTakes ==
  ASSUME RxInv, HaveFrame, Rearm, rx_dma' = rx_dma, dev' = dev, TypeOK'
  PROVE  RxInv' /\ [Rx!Next]_(Rx!vars)
<1>1. PICK n : RxFilled(n)
  BY DEF RxInv
<1>2. n > 0
  BY <1>1, FilledIsFirst DEF RxInv
<1>3. /\ RxFilled(n - 1)' /\ Taken(n - 1)' = 0
      /\ \A k \in 1 .. n - 1 : rx_frame'[RxSlot(k)'] = rx_frame[RxSlot(1 + k)]
  BY <1>1, <1>2, RearmShifts DEF RxInv
<1>4. RxQueue = Received(n) /\ RxQueue' = Received(n - 1)'
  BY <1>1, <1>3, RxQueueIs, NextRxQueueIs DEF QueueIsReceived, RxInv
<1>5. /\ n \in Nat /\ (n - 1) - 0 = n - 1 /\ \A k \in 1 .. n - 1 : 0 + k = k
  BY <1>1, <1>2, ConstFacts DEF RxFilled
<1>6. Received(n - 1)' = [k \in 1 .. n - 1 |-> rx_frame'[RxSlot(k)']]
  BY <1>3, <1>5 DEF Received, RxSlot
<1>7. RxQueue' = [k \in 1 .. n - 1 |-> rx_frame[RxSlot(1 + k)]]
  BY <1>3, <1>4, <1>6
<1>8. dev # "down" /\ DmaOn /\ DmaOn' = DmaOn
  BY DEF RxInv, RxIdle, HaveFrame, DmaOn
<1>9. RxInv'
  BY <1>3, <1>8 DEF RxInv, RxIdle
<1>10. QED BY <1>1, <1>2, <1>4, <1>7, <1>8, <1>9, TakesOne DEF RxInv

(* A poll without memory has taken its frame; the descriptor stays.        *)
LEMMA NoMemoryTakes ==
  ASSUME RxInv, PollNoMemory, TypeOK'
  PROVE  RxInv' /\ [Rx!Next]_(Rx!vars)
<1>1. PICK n : RxFilled(n)
  BY DEF RxInv
<1>2. n > 0
  BY <1>1, FilledIsFirst DEF RxInv, PollNoMemory
<1>3. /\ RxCount \in Nat \ {0} /\ n \in 1 .. RxCount /\ rx_dma = RxSlot(n + 1)
      /\ \A k \in 1 .. RxCount : rx_own[RxSlot(k)] <=> k > n
      /\ \A k \in 2 .. n : rx_frame[RxSlot(k)] # None
  BY <1>1, <1>2, ConstFacts DEF RxFilled
<1>4. \A k : RxSlot(k)' = RxSlot(k)
  BY DEF RxSlot, PollNoMemory
<1>5. ASSUME NEW k \in 2 .. n PROVE rx_frame'[RxSlot(k)] = rx_frame[RxSlot(k)]
  <2>1. k \in 1 .. RxCount /\ 1 \in 1 .. RxCount /\ k # 1 /\ k \in 1 .. RxCount + 1
    BY <1>3
  <2>2. RxSlot(k) # last_rx_desc /\ RxSlot(k) \in RxSlots
    BY <2>1, RxSlotFacts DEF RxInv
  <2>3. QED BY <2>2 DEF RxInv, TypeOK, PollNoMemory
<1>6. rx_frame'[RxSlot(1)] = None
  BY RxSlotFacts DEF RxInv, TypeOK, PollNoMemory
<1>7. RxFilled(n)'
  BY <1>1, <1>3, <1>4, <1>5 DEF RxFilled, PollNoMemory
<1>8. Taken(n)' = 1
  BY <1>2, <1>4, <1>6 DEF Taken
<1>9. RxQueue = Received(n) /\ RxQueue' = Received(n)'
  BY <1>1, <1>7, RxQueueIs, NextRxQueueIs DEF QueueIsReceived, RxInv
<1>10. Received(n)' = [k \in 1 .. n - 1 |-> rx_frame'[RxSlot(1 + k)]]
  BY <1>4, <1>8 DEF Received
<1>11. \A k \in 1 .. n - 1 : 1 + k \in 2 .. n
  BY <1>3
<1>12. RxQueue' = [k \in 1 .. n - 1 |-> rx_frame[RxSlot(1 + k)]]
  BY <1>5, <1>9, <1>10, <1>11
<1>13. dev # "down" /\ DmaOn /\ dev' = dev /\ DmaOn' = DmaOn
  BY DEF RxInv, RxIdle, HaveFrame, DmaOn, PollNoMemory
<1>14. RxInv'
  BY <1>7, <1>13 DEF RxInv, RxIdle
<1>15. QED BY <1>1, <1>2, <1>9, <1>12, <1>13, <1>14, TakesOne DEF RxInv

ArmedIsEmpty ==
  TypeOK /\ rx_own = [i \in RxSlots |-> TRUE] /\ rx_dma = last_rx_desc =>
    RxFilled(0) /\ RxQueue = <<>>

(* A ring of which the engine owns every descriptor is an empty queue.     *)
LEMMA ArmedRing == ArmedIsEmpty
<1>. SUFFICES ASSUME TypeOK, rx_own = [i \in RxSlots |-> TRUE], rx_dma = last_rx_desc
              PROVE  RxFilled(0) /\ RxQueue = <<>>
  BY DEF ArmedIsEmpty
<1>1. RxCount \in Nat \ {0} /\ 0 \in 0 .. RxCount /\ 0 + 1 = 1
  BY ConstFacts
<1>2. ASSUME NEW k \in 1 .. RxCount PROVE rx_own[RxSlot(k)] <=> k > 0
  <2>1. k \in 1 .. RxCount + 1 /\ k > 0
    BY <1>1
  <2>2. RxSlot(k) \in RxSlots
    BY <2>1, RxSlotFacts
  <2>3. QED BY <2>1, <2>2
<1>3. rx_dma = RxSlot(0 + 1)
  BY <1>1, RxSlotFacts
<1>4. \A k \in 2 .. 0 : FALSE
  OBVIOUS
<1>5. RxFilled(0)
  BY <1>1, <1>2, <1>3, <1>4 DEF RxFilled
<1>6. Received(0) = <<>>
  BY DEF Received, Taken
<1>7. QED BY <1>5, <1>6, RxQueueIs DEF QueueIsReceived

(* The same in the next state.                                             *)
LEMMA NextArmedRing == ArmedIsEmpty'
BY ArmedRing, PTL

(* Steps that leave the receive ring and the engine's position alone.      *)
LEMMA RxKept ==
  ASSUME RxInv, UNCHANGED <<rxring, rx_dma>>, TypeOK', dev' = "down" => dev = "down"
  PROVE  RxInv' /\ RxQueue' = RxQueue
<1>1. PICK n : RxFilled(n)
  BY DEF RxInv
<1>2. RxFilled(n)'
  BY <1>1 DEF RxFilled, RxSlot, rxring
<1>3. RxIdle'
  BY DEF RxInv, RxIdle, rxring
<1>4. RxQueue' = RxQueue
  BY DEF RxQueue, RxDone, RxSlot, rxring
<1>5. QED BY <1>2, <1>3, <1>4 DEF RxInv

(* Every step keeps the invariant and is a step of the queue or leaves it  *)
(* alone.                                                                  *)
LEMMA RxStep ==
  ASSUME RxInv, [Next]_vars
  PROVE  RxInv' /\ [Rx!Next]_(Rx!vars)
<1>1. TypeOK'
  BY TypeStep DEF RxInv
<1>2. ASSUME UNCHANGED <<rxring, rx_dma>>, dev' = "down" <=> dev = "down"
      PROVE  RxInv' /\ [Rx!Next]_(Rx!vars)
  BY <1>1, <1>2, RxKept DEF Rx!vars, DmaOn
<1>3. ASSUME NEW f \in Frames, RxFrame(f) PROVE RxInv' /\ [Rx!Next]_(Rx!vars)
  <2>1. PICK n : RxFilled(n)
    BY DEF RxInv
  <2>2. RxFilled(n + 1)'
    BY <1>3, <2>1, RxFrameFills DEF RxInv
  <2>3. dev # "down" /\ dev' = dev
    BY <1>3 DEF RxFrame, DmaOn
  <2>4. RxInv'
    BY <1>1, <2>2, <2>3 DEF RxInv, RxIdle
  <2>5. QED BY <1>1, <1>3, <2>4, RxFramePuts DEF Rx!Next
<1>4. CASE TxDone \/ TxSuspend \/ Isr \/ LinkReconfigure \/ UNCHANGED vars
  <2>1. UNCHANGED <<rxring, rx_dma, dev>>
    BY <1>4 DEF TxDone, TxSuspend, Isr, IsrRead, IsrHandle, LinkReconfigure, vars
  <2>2. QED BY <1>2, <2>1
<1>5. ASSUME NEW n \in 1 .. Weight, PollStart(n) PROVE RxInv' /\ [Rx!Next]_(Rx!vars)
  BY <1>2, <1>5 DEF PollStart
<1>6. CASE PollBadFrame \/ PollFrame
  <2>1. HaveFrame /\ Rearm /\ rx_dma' = rx_dma /\ dev' = dev
    BY <1>6 DEF PollBadFrame, PollFrame
  <2>2. QED BY <1>1, <2>1, RearmTakes
<1>7. CASE PollNoMemory
  BY <1>1, <1>7, NoMemoryTakes
<1>8. CASE PollBreak \/ PollMore \/ PollComplete \/ PollEnable
  <2>1. UNCHANGED <<rxring, rx_dma, dev>>
    BY <1>8 DEF PollBreak, PollMore, PollComplete, PollEnable
  <2>2. QED BY <1>2, <2>1
<1>9. ASSUME NEW f \in Frames, Xmit(f) PROVE RxInv' /\ [Rx!Next]_(Rx!vars)
  BY <1>2, <1>9 DEF Xmit
<1>10. CASE ReclaimTasklet \/ ReclaimTimer
  <2>1. UNCHANGED <<rxring, rx_dma, dev>>
    BY <1>10 DEF ReclaimTasklet, ReclaimTimer, TxReclaim
  <2>2. QED BY <1>2, <2>1
<1>11. CASE OpenStart
  <2>1. dev = "down" /\ dev' = "opening" /\ UNCHANGED <<rxring, rx_dma>>
    BY <1>11 DEF OpenStart
  <2>2. RxInv' /\ RxQueue' = RxQueue
    BY <1>1, <2>1, RxKept
  <2>3. QED BY <2>1, <2>2 DEF DmaOn, Rx!Open, Rx!Next
<1>12. CASE OpenEnd \/ CloseStart \/ StopStart
  <2>1. UNCHANGED <<rxring, rx_dma>> /\ dev # "down" /\ dev' # "down"
    BY <1>12 DEF OpenEnd, CloseStart, StopStart
  <2>2. QED BY <1>2, <2>1
<1>13. CASE StopEnd
  <2>1. RxFilled(0)' /\ RxQueue' = <<>>
    BY <1>1, <1>13, NextArmedRing DEF StopEnd, ArmedIsEmpty
  <2>2. RxIdle'
    <3>1. 0 \in RxSlots
      BY ConstFacts DEF RxSlots
    <3>2. QED BY <1>13, <3>1 DEF StopEnd, RxIdle
  <2>3. DmaOn /\ DmaOn' = FALSE
    BY <1>13 DEF StopEnd, DmaOn
  <2>4. QED BY <1>1, <2>1, <2>2, <2>3 DEF RxInv, Rx!Close, Rx!Next
<1>14. QED
  BY <1>3, <1>4, <1>5, <1>6, <1>7, <1>8, <1>9, <1>10, <1>11, <1>12, <1>13
     DEF Next, Hardware, Poll, Open, Close

(* For receive rings of every size and every interleaving of engine,       *)
(* handler, poll, failed allocations, open and stop the receive ring is a  *)
(* first-in first-out queue: enet_poll takes the frames in the order of    *)
(* the wire, each once, and driver and engine agree on where the next is.  *)
THEOREM EnetRxFifo == Spec => RxImplementsFifo
<1>1. Init => RxInv /\ Rx!Init
  <2>1. SUFFICES ASSUME Init PROVE RxInv /\ Rx!Init
    OBVIOUS
  <2>2. TypeOK /\ RxFilled(0) /\ RxQueue = <<>>
    BY <2>1, TypeInit, ArmedRing DEF Init, ArmedIsEmpty
  <2>3. RxIdle
    <3>1. 0 \in RxSlots
      BY ConstFacts DEF RxSlots
    <3>2. QED BY <2>1, <3>1 DEF Init, RxIdle
  <2>4. QED BY <2>1, <2>2, <2>3 DEF Init, RxInv, DmaOn, Rx!Init
<1>2. RxInv /\ [Next]_vars => RxInv'
  BY RxStep
<1>3. RxInv /\ [Next]_vars => [Rx!Next]_(Rx!vars)
  BY RxStep
<1>4. QED BY <1>1, <1>2, <1>3, PTL DEF Spec, RxImplementsFifo, Rx!Spec
=============================================================================
