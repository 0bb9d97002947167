-------------------------- MODULE FrontPanelProofs --------------------------
(* Proofs about the key side of the front panel driver, for every ring     *)
(* size, any periods and any number of processes.                          *)
EXTENDS FrontPanel, KeyRingProofs

(* The constants as the provers need them.                                 *)
LEMMA Consts ==
  /\ BufferSize \in Nat /\ BufferSize >= 2
  /\ ReadCounts \subseteq Nat
  /\ WaitPeriod \in Nat /\ PollPeriod \in Nat \ {0}
  BY FipAssumption

Places == Using \union {"closed", "opening", "killed", "releasing"}

(* What fip_consume copies is a sequence of keys.                          *)
LEMMA ConsumeType ==
  ASSUME TypeOK, NEW p \in Procs, Consume(p)
  PROVE  /\ buf' \in [Procs -> Seq(Keys \union {NoKey})]
         /\ c_idx' \in Slots
<1> DEFINE cnt == IF want[p] <= Used THEN want[p] ELSE Used
<1>1. /\ buffer \in [0 .. BufferSize - 1 -> Keys \union {NoKey}]
      /\ p_idx \in 0 .. BufferSize - 1 /\ c_idx \in 0 .. BufferSize - 1
  BY DEF TypeOK, Slots
<1>2. Used \in 0 .. BufferSize - 1
  BY <1>1, Consts, SlotsInRing DEF Used
<1>3. cnt \in 0 .. Used
  BY <1>2 DEF TypeOK
<1>4. /\ buf' = [buf EXCEPT ![p] = SubSeq(Contents, 1, cnt)]
      /\ c_idx' = (c_idx + cnt) % BufferSize
  BY DEF Consume
<1> HIDE DEF cnt
<1>5. Contents \in Seq(Keys \union {NoKey}) /\ Len(Contents) = Used
  <2>1. Len(Contents) = Used
    BY <1>1, Consts, KeysInLength DEF Contents, Used
  <2>2. Contents \in Seq(Keys \union {NoKey})
    BY <1>1, Consts, KeysInRing, Zenon DEF Contents
  <2>3. QED BY <2>1, <2>2
<1>6. SubSeq(Contents, 1, cnt) \in Seq(Keys \union {NoKey})
  BY <1>2, <1>3, <1>5
<1>7. c_idx' \in Slots
  <2>1. cnt \in 0 .. BufferSize
    BY <1>2, <1>3, Consts
  <2>2. QED BY <1>1, <1>4, <2>1, Consts, SumWraps DEF Slots
<1>8. QED BY <1>4, <1>6, <1>7 DEF TypeOK

-----------------------------------------------------------------------------
(* The type invariant alone is not inductive: that fip_release never       *)
(* counts below zero needs the exclusive access of OneHolder.              *)
HolderInv == TypeOK /\ OneHolder

(* The invariant of the holder holds initially.                            *)
LEMMA HolderInit == Init => HolderInv
<1>. SUFFICES ASSUME Init PROVE HolderInv
  OBVIOUS
<1>1. 0 \in Slots /\ 0 \in 0 .. WaitPeriod /\ Idle \in Idle .. PollPeriod
  BY Consts DEF Slots, Idle
<1>2. TypeOK
  BY <1>1 DEF Init, TypeOK
<1>3. Holders = {}
  BY DEF Init, Holders, Using
<1>4. QED BY <1>2, <1>3 DEF Init, HolderInv, OneHolder

(* A step that moves process p and keeps the count keeps the holders when  *)
(* p stays a holder or stays none.                                         *)
LEMMA SameHolders ==
  ASSUME OneHolder, ref_cnt' = ref_cnt,
         \A p \in Procs : pc'[p] \in Using \union {"opening", "killed"} <=>
                          pc[p] \in Using \union {"opening", "killed"}
  PROVE  OneHolder'
<1>1. Holders' = Holders
  BY DEF Holders
<1>2. QED BY <1>1 DEF OneHolder

(* Every step keeps the types.                                             *)
LEMMA TypeStep == HolderInv /\ [Next]_vars => TypeOK'
<1>. SUFFICES ASSUME HolderInv, [Next]_vars PROVE TypeOK'
  OBVIOUS
<1>. USE Consts DEF HolderInv, ring, file, thread, Goto
<1>1. CASE IsrBusy \/ NoKeyPressed
  BY <1>1 DEF TypeOK, IsrBusy, NoKeyPressed
<1>2. ASSUME NEW key \in Keys, KeyTooFast(key) PROVE TypeOK'
  BY <1>2 DEF TypeOK, KeyTooFast
<1>3. ASSUME NEW key \in Keys, PushKey(key) PROVE TypeOK'
  <2>1. \A i \in Slots : Succ(BufferSize, i) \in Slots
    BY SuccWraps DEF Slots
  <2>2. c_idx' \in Slots /\ p_idx' \in Slots
    BY <1>3, <2>1 DEF PushKey, MakeRoom, TypeOK
  <2>3. pc' \in [Procs -> Places]
    BY <1>3 DEF PushKey, WakeIfWasEmpty, WakeUp, TypeOK, Using, Places
  <2>4. buffer' \in [Slots -> Keys \union {NoKey}]
    BY <1>3 DEF PushKey, TypeOK
  <2>5. elapsed' \in 0 .. WaitPeriod /\ oldkey' \in Keys \union {NoKey} /\ reading' \in BOOLEAN
    <3>1. elapsed' = 0 /\ oldkey' = key /\ reading' = FALSE
      BY <1>3, Zenon DEF PushKey
    <3>2. elapsed' \in 0 .. WaitPeriod
      BY <3>1
    <3>3. oldkey' \in Keys \union {NoKey} /\ reading' \in BOOLEAN
      BY <3>1, Zenon
    <3>4. QED BY <3>2, <3>3
  <2>6. UNCHANGED <<ref_cnt, b_mode, timer, want, buf, wait>>
    BY <1>3 DEF PushKey
  <2>7. QED BY <2>2, <2>3, <2>4, <2>5, <2>6 DEF TypeOK, Places
<1>4. ASSUME NEW busy \in BOOLEAN, PollKey(busy) PROVE TypeOK'
  BY <1>4 DEF TypeOK, PollKey, Idle
<1>5. CASE Tick
  BY <1>5 DEF TypeOK, Tick, Idle
<1>6. ASSUME NEW p \in Procs, NEW blocking \in BOOLEAN, OpenStart(p, blocking)
      PROVE  TypeOK'
  BY <1>6 DEF TypeOK, OpenStart, Slots
<1>7. ASSUME NEW p \in Procs, ReleaseStart(p) PROVE TypeOK'
  <2>1. p \in Holders
    BY <1>7 DEF ReleaseStart, Holders, Using
  <2>2. ref_cnt = 1
    BY <2>1 DEF OneHolder
  <2>3. ref_cnt' \in Nat
    BY <1>7, <2>2 DEF ReleaseStart
  <2>4. wait' \in [Procs -> Nat]
    BY <1>7 DEF ReleaseStart, TypeOK
  <2>5. QED BY <1>7, <2>3, <2>4 DEF TypeOK, ReleaseStart
<1>8. ASSUME NEW p \in Procs, NEW n \in ReadCounts, ReadStart(p, n) PROVE TypeOK'
  BY <1>8 DEF TypeOK, ReadStart, Using
<1>9. ASSUME NEW p \in Procs, OpenArm(p) PROVE TypeOK'
  <2>1. timer' \in Idle .. PollPeriod /\ p_idx' \in Slots
    BY <1>9 DEF OpenArm, TypeOK, Idle, Slots
  <2>2. pc' \in [Procs -> Places]
    BY <1>9 DEF OpenArm, TypeOK, Using, Places
  <2>3. QED BY <1>9, <2>1, <2>2 DEF TypeOK, OpenArm, Places
<1>10. ASSUME NEW p \in Procs, ReleaseEnd(p) PROVE TypeOK'
  BY <1>10 DEF TypeOK, ReleaseEnd, Idle
<1>11. ASSUME NEW p \in Procs, FindEmpty(p) \/ Sleep(p) \/ Signal(p) PROVE TypeOK'
  BY <1>11 DEF TypeOK, FindEmpty, Sleep, Signal, Using
<1>12. ASSUME NEW p \in Procs, Consume(p) PROVE TypeOK'
  <2>1. pc' \in [Procs -> Places]
    BY <1>12 DEF Consume, TypeOK, Using, Places
  <2>2. QED BY <1>12, <2>1, ConsumeType DEF TypeOK, Consume, Places
<1>13. ASSUME NEW p \in Procs, ReadReturn(p) PROVE TypeOK'
  BY <1>13 DEF TypeOK, ReadReturn, Using
<1>14. CASE UNCHANGED vars
  BY <1>14 DEF TypeOK, vars
<1>15. QED
  BY <1>1, <1>2, <1>3, <1>4, <1>5, <1>6, <1>7, <1>8, <1>9, <1>10, <1>11, <1>12, <1>13, <1>14
     DEF Next, Isr, Call, ProcStep

(* Every step leaves at most one holder of the device.                     *)
LEMMA HolderStep == HolderInv /\ [Next]_vars => OneHolder'
<1>. SUFFICES ASSUME HolderInv, [Next]_vars PROVE OneHolder'
  OBVIOUS
<1>. USE DEF HolderInv, file, thread, Goto
<1>1. CASE Isr
  BY <1>1, SameHolders
     DEF Isr, IsrBusy, NoKeyPressed, KeyTooFast, PushKey, WakeIfWasEmpty, WakeUp, Using, TypeOK
<1>2. ASSUME NEW busy \in BOOLEAN, PollKey(busy) PROVE OneHolder'
  BY <1>2, SameHolders DEF PollKey
<1>3. CASE Tick
  BY <1>3, SameHolders DEF Tick
<1>4. ASSUME NEW p \in Procs, NEW blocking \in BOOLEAN, OpenStart(p, blocking)
      PROVE  OneHolder'
  <2>1. Holders = {} /\ ref_cnt' = 1
    BY <1>4 DEF OpenStart, OneHolder
  <2>2. Holders' = {p}
    BY <1>4, <2>1 DEF OpenStart, Holders, TypeOK
  <2>3. QED BY <2>1, <2>2 DEF OneHolder
<1>5. ASSUME NEW p \in Procs, ReleaseStart(p) PROVE OneHolder'
  <2>1. p \in Holders
    BY <1>5 DEF ReleaseStart, Holders, Using
  <2>2. Holders = {p} /\ ref_cnt = 1
    BY <2>1 DEF OneHolder
  <2>3. Holders' = {} /\ ref_cnt' = 0
    BY <1>5, <2>2 DEF ReleaseStart, Holders, Using, TypeOK
  <2>4. QED BY <2>3 DEF OneHolder
<1>6. ASSUME NEW p \in Procs, NEW n \in ReadCounts, ReadStart(p, n) PROVE OneHolder'
  BY <1>6, SameHolders DEF ReadStart, Using, TypeOK
<1>7. ASSUME NEW p \in Procs, OpenArm(p) \/ ReleaseEnd(p) PROVE OneHolder'
  BY <1>7, SameHolders DEF OpenArm, ReleaseEnd, Using, TypeOK
<1>8. ASSUME NEW p \in Procs,
             FindEmpty(p) \/ Sleep(p) \/ Signal(p) \/ Consume(p) \/ ReadReturn(p)
      PROVE  OneHolder'
  BY <1>8, SameHolders DEF FindEmpty, Sleep, Signal, Consume, ReadReturn, Using, TypeOK
<1>9. CASE UNCHANGED vars
  BY <1>9, SameHolders DEF vars
<1>10. QED
  BY <1>1, <1>2, <1>3, <1>4, <1>5, <1>6, <1>7, <1>8, <1>9 DEF Next, Call, ProcStep

(* For every ring size, any periods and any number of processes the        *)
(* variables of the front panel driver keep their types.                   *)
THEOREM FipTypeCorrect == Spec => []TypeOK
<1>1. Init => HolderInv
  BY HolderInit
<1>2. HolderInv /\ [Next]_vars => HolderInv'
  BY TypeStep, HolderStep DEF HolderInv
<1>3. HolderInv => TypeOK
  BY DEF HolderInv
<1>4. QED BY <1>1, <1>2, <1>3, PTL DEF Spec

(* For any number of processes fip_open's check and count keep the device  *)
(* exclusive, a process that died in the middle of its open included.      *)
THEOREM FipOneHolder == Spec => []OneHolder
<1>1. Init => HolderInv
  BY HolderInit
<1>2. HolderInv /\ [Next]_vars => HolderInv'
  BY TypeStep, HolderStep DEF HolderInv
<1>3. HolderInv => OneHolder
  BY DEF HolderInv
<1>4. QED BY <1>1, <1>2, <1>3, PTL DEF Spec

-----------------------------------------------------------------------------
(* One process: the timer.                                                 *)

(* The timer is armed exactly while the device is held, and in the wait of *)
(* fip_release it is due before the wait is over.                          *)
TimerInv ==
  \A p \in Procs :
    /\ pc[p] \in {"closed", "opening"} => timer = Idle
    /\ pc[p] \in Using => timer # Idle
    /\ pc[p] = "releasing" => timer = Idle \/ timer < wait[p]
    /\ pc[p] # "killed"

(* With one process every step keeps the invariant of the timer.           *)
LEMMA TimerStep ==
  ASSUME \A p, q \in Procs : p = q, HolderInv, TimerInv, [Next]_vars
  PROVE  TimerInv'
<1>. USE Consts DEF HolderInv, TimerInv, TypeOK, file, thread, Goto, Idle
<1>1. CASE Isr
  BY <1>1 DEF Isr, IsrBusy, NoKeyPressed, KeyTooFast, PushKey, WakeIfWasEmpty, WakeUp, Using
<1>2. ASSUME NEW busy \in BOOLEAN, PollKey(busy) PROVE TimerInv'
  <2>1. ASSUME NEW p \in Procs, pc[p] = "releasing" PROVE ref_cnt = 0
    BY <2>1 DEF OneHolder, Holders, Using
  <2>2. ASSUME NEW p \in Procs, pc[p] \in Using PROVE ref_cnt # 0
    BY <2>2 DEF OneHolder, Holders
  <2>3. QED BY <1>2, <2>1, <2>2 DEF PollKey
<1>3. CASE Tick
  BY <1>3 DEF Tick
<1>4. ASSUME NEW p \in Procs, NEW blocking \in BOOLEAN, OpenStart(p, blocking)
      PROVE  TimerInv'
  BY <1>4 DEF OpenStart, Using
<1>5. ASSUME NEW p \in Procs, ReleaseStart(p) PROVE TimerInv'
  BY <1>5 DEF ReleaseStart, Using
<1>6. ASSUME NEW p \in Procs, NEW n \in ReadCounts, ReadStart(p, n) PROVE TimerInv'
  BY <1>6 DEF ReadStart, Using
<1>7. ASSUME NEW p \in Procs, OpenArm(p) PROVE TimerInv'
  BY <1>7 DEF OpenArm, Using
<1>8. ASSUME NEW p \in Procs, ReleaseEnd(p) PROVE TimerInv'
  BY <1>8 DEF ReleaseEnd, Using
<1>9. ASSUME NEW p \in Procs,
             FindEmpty(p) \/ Sleep(p) \/ Signal(p) \/ Consume(p) \/ ReadReturn(p)
      PROVE  TimerInv'
  BY <1>9 DEF FindEmpty, Sleep, Signal, Consume, ReadReturn, Using
<1>10. CASE UNCHANGED vars
  BY <1>10 DEF vars
<1>11. QED
  BY <1>1, <1>2, <1>3, <1>4, <1>5, <1>6, <1>7, <1>8, <1>9, <1>10 DEF Next, Call, ProcStep

(* The invariant of the timer holds initially.                             *)
LEMMA TimerInit == Init => TimerInv
BY DEF Init, TimerInv, Using

(* With one process that uses the device, for any periods and ring size:   *)
(* keys are polled as long as it has the device open.                      *)
THEOREM FipPolledWhileOpen ==
  ASSUME \A p, q \in Procs : p = q PROVE Spec => []PolledWhileOpen
<1>1. Init => HolderInv /\ TimerInv
  BY HolderInit, TimerInit
<1>2. HolderInv /\ TimerInv /\ [Next]_vars => HolderInv' /\ TimerInv'
  BY TypeStep, HolderStep, TimerStep DEF HolderInv
<1>3. TimerInv => PolledWhileOpen
  BY DEF TimerInv, PolledWhileOpen
<1>4. QED BY <1>1, <1>2, <1>3, PTL DEF Spec

(* With one process the wait of fip_release, two poll periods, outlasts    *)
(* the timer: it has run for the last time when the wait is over.          *)
THEOREM FipTimerExpires ==
  ASSUME \A p, q \in Procs : p = q PROVE Spec => TimerExpiresDuringWait
<1>1. Init => HolderInv /\ TimerInv
  BY HolderInit, TimerInit
<1>2. HolderInv /\ TimerInv /\ [Next]_vars => HolderInv' /\ TimerInv'
  BY TypeStep, HolderStep, TimerStep DEF HolderInv
<1>3. HolderInv /\ TimerInv /\ [Next]_vars =>
        [\A p \in Procs : ReleaseEnd(p) => timer = Idle]_vars
  <2>1. ASSUME HolderInv, TimerInv, NEW p \in Procs, ReleaseEnd(p) PROVE timer = Idle
    BY <2>1, Consts DEF ReleaseEnd, HolderInv, TypeOK, TimerInv, Idle
  <2>2. QED BY <2>1
<1>4. QED BY <1>1, <1>2, <1>3, PTL DEF Spec, TimerExpiresDuringWait

-----------------------------------------------------------------------------
(* The ring of two slots is the queue.                                     *)

(* A process holds keys only between fip_consume and the end of its read.  *)
HandFilledByConsume == \A p \in Procs : pc[p] # "copy" => buf[p] = <<>>
QueueInv == HolderInv /\ HandFilledByConsume

(* Every step keeps what the refinement needs.                             *)
LEMMA QueueInvStep ==
  ASSUME QueueInv, [Next]_vars PROVE QueueInv'
<1>1. HolderInv'
  BY TypeStep, HolderStep DEF QueueInv, HolderInv
<1>. SUFFICES HandFilledByConsume'
  BY <1>1 DEF QueueInv
<1>. USE DEF QueueInv, HolderInv, TypeOK, HandFilledByConsume, thread, Goto
<1>2. CASE Isr
  BY <1>2 DEF Isr, IsrBusy, NoKeyPressed, KeyTooFast, PushKey, WakeIfWasEmpty, WakeUp
<1>3. ASSUME NEW busy \in BOOLEAN, PollKey(busy) PROVE HandFilledByConsume'
  BY <1>3 DEF PollKey
<1>4. CASE Tick
  BY <1>4 DEF Tick
<1>5. ASSUME NEW p \in Procs, Call(p) PROVE HandFilledByConsume'
  BY <1>5 DEF Call, OpenStart, ReleaseStart, ReadStart
<1>6. ASSUME NEW p \in Procs,
             OpenArm(p) \/ ReleaseEnd(p) \/ FindEmpty(p) \/ Sleep(p) \/ Signal(p)
      PROVE  HandFilledByConsume'
  BY <1>6 DEF OpenArm, ReleaseEnd, FindEmpty, Sleep, Signal
<1>7. ASSUME NEW p \in Procs, Consume(p) PROVE HandFilledByConsume'
  <2>1. PICK s : buf' = [buf EXCEPT ![p] = s]
    BY <1>7 DEF Consume
  <2>2. QED BY <1>7, <2>1 DEF Consume
<1>8. ASSUME NEW p \in Procs, ReadReturn(p) PROVE HandFilledByConsume'
  BY <1>8 DEF ReadReturn
<1>9. CASE UNCHANGED vars
  BY <1>9 DEF vars
<1>10. QED
  BY <1>2, <1>3, <1>4, <1>5, <1>6, <1>7, <1>8, <1>9 DEF Next, ProcStep

(* The queue the ring stands for.                                          *)
RingQueue == IF Flushing THEN <<>> ELSE Contents

(* A process that opens the device is its only holder.                     *)
LEMMA FlushingHolder ==
  ASSUME OneHolder, NEW p \in Procs, pc[p] \in Using \union {"killed"}
  PROVE  ~Flushing /\ ref_cnt = 1
  BY DEF OneHolder, Holders, Flushing, Using

(* A key pushed outside the flush is a Push, and one in the middle of the  *)
(* flush is not seen yet.                                                  *)
LEMMA PushKeyIsPush ==
  ASSUME QueueInv, NEW key \in Keys, PushKey(key)
  PROVE  Q!Push(key) \/ UNCHANGED Q!vars
<1>1. /\ buffer \in [0 .. BufferSize - 1 -> Keys \union {NoKey}]
      /\ p_idx \in 0 .. BufferSize - 1 /\ c_idx \in 0 .. BufferSize - 1
  BY DEF QueueInv, HolderInv, TypeOK, Slots
<1>2. /\ buffer' = [buffer EXCEPT ![p_idx] = key]
      /\ p_idx' = Succ(BufferSize, p_idx)
      /\ c_idx' = MakeRoom(BufferSize, p_idx, c_idx)
      /\ buf' = buf /\ ref_cnt' = ref_cnt
  BY DEF PushKey, file
<1>3. Flushing' <=> Flushing
  BY DEF PushKey, WakeIfWasEmpty, WakeUp, Flushing, QueueInv, HolderInv, TypeOK
<1>4. CASE Flushing
  BY <1>2, <1>3, <1>4 DEF Q!vars
<1>5. CASE ~Flushing
  <2>1. \A s \in 0 .. BufferSize - 1 : s # p_idx => buffer'[s] = buffer[s]
    BY <1>1, <1>2
  <2>2. KeysIn(BufferSize, buffer', Succ(BufferSize, p_idx),
               MakeRoom(BufferSize, p_idx, c_idx)) =
          Pushed(BufferSize - 1, KeysIn(BufferSize, buffer, p_idx, c_idx),
                 buffer'[p_idx])
    <3>1. BufferSize \in Nat /\ BufferSize >= 2
      BY Consts
    <3>2. p_idx \in 0 .. BufferSize - 1 /\ c_idx \in 0 .. BufferSize - 1
      BY <1>1
    <3>3. PushesKey(BufferSize, buffer, buffer', p_idx, c_idx)
      BY <2>1, <3>1, <3>2, StoresPush
    <3>4. QED BY <3>3 DEF PushesKey
  <2>3. buffer'[p_idx] = key
    BY <1>1, <1>2
  <2>4. Contents' = Pushed(BufferSize - 1, Contents, key)
    BY <1>2, <2>2, <2>3 DEF Contents
  <2>5. QED BY <1>2, <1>3, <1>5, <2>4 DEF Q!Push, Pushed
<1>6. QED BY <1>4, <1>5

(* A read takes a beginning of the ring's keys.                            *)
LEMMA ConsumeIsTake ==
  ASSUME QueueInv, NEW p \in Procs, Consume(p)
  PROVE  \E n \in 0 .. Len(RingQueue) : Q!Take(p, n)
<1> DEFINE cnt == IF want[p] <= Used THEN want[p] ELSE Used
<1>1. /\ p_idx \in 0 .. BufferSize - 1 /\ c_idx \in 0 .. BufferSize - 1
      /\ want[p] \in Nat
  BY DEF QueueInv, HolderInv, TypeOK, Slots
<1>2. Used \in 0 .. BufferSize - 1 /\ Len(Contents) = Used
  BY <1>1, Consts, SlotsInRing, KeysInLength DEF Used, Contents
<1>3. cnt \in 0 .. Used
  BY <1>1, <1>2
<1>4. /\ buf' = [buf EXCEPT ![p] = SubSeq(Contents, 1, cnt)]
      /\ c_idx' = (c_idx + cnt) % BufferSize
      /\ p_idx' = p_idx /\ buffer' = buffer /\ ref_cnt' = ref_cnt
      /\ pc[p] = "relock" /\ pc' = [pc EXCEPT ![p] = "copy"]
  BY DEF Consume, Goto, file
<1> HIDE DEF cnt
<1>5. ~Flushing /\ ref_cnt = 1 /\ buf[p] = <<>>
  <2>1. pc[p] \in Using \union {"killed"}
    BY <1>4 DEF Using
  <2>2. ~Flushing /\ ref_cnt = 1
    BY <2>1, FlushingHolder DEF QueueInv, HolderInv
  <2>3. QED BY <1>4, <2>2 DEF QueueInv, HandFilledByConsume
<1>6. ~Flushing'
  BY <1>4, <1>5 DEF Flushing, QueueInv, HolderInv, TypeOK
<1>7. cnt \in 0 .. UsedSlots(BufferSize, p_idx, c_idx)
  BY <1>3 DEF Used
<1>8. KeysIn(BufferSize, buffer, p_idx, c_idx') =
        SubSeq(Contents, cnt + 1, Len(Contents))
  <2>1. BufferSize \in Nat /\ BufferSize >= 2 /\ c_idx' = (c_idx + cnt) % BufferSize
    BY <1>4, Consts
  <2>2. QED BY <1>1, <1>7, <2>1, TakeDropsPrefix DEF Contents
<1>9. Contents' = SubSeq(Contents, cnt + 1, Len(Contents))
  BY <1>4, <1>8 DEF Contents
<1>10. Q!Take(p, cnt)
  BY <1>4, <1>5, <1>6, <1>9 DEF Q!Take
<1>11. cnt \in 0 .. Len(RingQueue)
  BY <1>2, <1>3, <1>5 DEF RingQueue
<1>12. QED BY <1>10, <1>11

(* The end of the flush.  In a ring of two slots the one key that may be   *)
(* left is the one pushed in the middle of the flush.                      *)
LEMMA FlushEndsEmptyOrPush ==
  ASSUME BufferSize = 2, QueueInv, NEW p \in Procs, OpenArm(p)
  PROVE  UNCHANGED Q!vars \/ \E e \in Keys \union {NoKey} : Q!Push(e)
<1>1. /\ pc[p] = "opening" /\ p_idx' = 0 /\ c_idx' = c_idx /\ buffer' = buffer
      /\ buf' = buf /\ ref_cnt' = ref_cnt
      /\ pc'[p] \in {"open", "killed"} /\ \A q \in Procs : q # p => pc'[q] = pc[q]
  BY DEF OpenArm, Goto, file, QueueInv, HolderInv, TypeOK
<1>2. Flushing
  BY <1>1 DEF Flushing
<1>3. ~Flushing'
  <2>1. ASSUME NEW q \in Procs, pc'[q] = "opening" PROVE FALSE
    <3>1. q # p /\ pc[q] = "opening"
      BY <1>1, <2>1
    <3>2. QED BY <1>1, <3>1 DEF QueueInv, HolderInv, OneHolder, Holders
  <2>2. QED BY <2>1 DEF Flushing
<1>4. c_idx \in {0, 1} /\ buffer[1] \in Keys \union {NoKey}
  BY DEF QueueInv, HolderInv, TypeOK, Slots
<1>5. CASE c_idx = 0
  <2>1. Contents' = <<>>
    BY <1>1, <1>5 DEF Contents, KeysIn, UsedSlots
  <2>2. QED BY <1>1, <1>2, <1>3, <2>1 DEF Q!vars
<1>6. CASE c_idx = 1
  <2>1. Contents' = << buffer[1] >>
    <3>1. UsedSlots(2, 0, 1) = 1 /\ SlotOf(2, 1, 1) = 1
      BY DEF UsedSlots, SlotOf
    <3>2. Contents' = [i \in 1 .. 1 |-> buffer[SlotOf(2, 1, i)]]
      BY <1>1, <1>6, <3>1 DEF Contents, KeysIn
    <3>3. [i \in 1 .. 1 |-> buffer[SlotOf(2, 1, i)]] = << buffer[1] >>
      BY <3>1
    <3>4. QED BY <3>2, <3>3
  <2>2. << buffer[1] >> = Append(<<>>, buffer[1]) /\ Len(<<>>) # BufferSize - 1
    OBVIOUS
  <2>3. Q!Push(buffer[1])
    BY <1>1, <1>2, <1>3, <2>1, <2>2 DEF Q!Push
  <2>4. QED BY <1>4, <2>3
<1>7. QED BY <1>4, <1>5, <1>6

(* Every step of the driver is a step of the queue or leaves it unchanged. *)
LEMMA StepRefines ==
  ASSUME BufferSize = 2, QueueInv, [Next]_vars
  PROVE  [Q!Next]_(Q!vars)
<1>1. ASSUME UNCHANGED <<ring, buf, ref_cnt>>,
             \A p \in Procs : pc'[p] = "opening" <=> pc[p] = "opening"
      PROVE  UNCHANGED Q!vars
  <2>1. Contents' = Contents /\ (Flushing' <=> Flushing)
    BY <1>1 DEF ring, Contents, Flushing
  <2>2. QED BY <1>1, <2>1 DEF Q!vars
<1>2. CASE IsrBusy \/ NoKeyPressed \/ Tick \/ UNCHANGED vars
  BY <1>1, <1>2 DEF IsrBusy, NoKeyPressed, Tick, vars, thread, file
<1>3. ASSUME NEW key \in Keys, KeyTooFast(key) \/ PushKey(key) PROVE [Q!Next]_(Q!vars)
  <2>1. CASE KeyTooFast(key)
    BY <1>1, <2>1 DEF KeyTooFast, thread, file
  <2>2. CASE PushKey(key)
    BY <2>2, PushKeyIsPush DEF Q!Next
  <2>3. QED BY <1>3, <2>1, <2>2
<1>4. ASSUME NEW busy \in BOOLEAN, PollKey(busy) PROVE [Q!Next]_(Q!vars)
  BY <1>1, <1>4 DEF PollKey, thread, file
<1>5. ASSUME NEW p \in Procs, NEW blocking \in BOOLEAN, OpenStart(p, blocking)
      PROVE  [Q!Next]_(Q!vars)
  <2>1. /\ ref_cnt = 0 /\ ref_cnt' = 1 /\ buf' = buf /\ pc'[p] = "opening"
    BY <1>5 DEF OpenStart, Goto, QueueInv, HolderInv, TypeOK
  <2>2. Flushing'
    BY <2>1 DEF Flushing
  <2>3. Q!Open
    BY <2>1, <2>2 DEF Q!Open
  <2>4. QED BY <2>3 DEF Q!Next
<1>6. ASSUME NEW p \in Procs, ReleaseStart(p) PROVE [Q!Next]_(Q!vars)
  <2>1. /\ pc[p] = "open" /\ pc' = [pc EXCEPT ![p] = "releasing"]
        /\ ref_cnt' = ref_cnt - 1 /\ buf' = buf /\ UNCHANGED ring
    BY <1>6 DEF ReleaseStart, Goto
  <2>2. ~Flushing /\ ref_cnt = 1
    <3>1. pc[p] \in Using \union {"killed"}
      BY <2>1 DEF Using
    <3>2. QED BY <3>1, FlushingHolder DEF QueueInv, HolderInv
  <2>3. ~Flushing' /\ ref_cnt' = 0 /\ Contents' = Contents
    BY <2>1, <2>2 DEF Flushing, QueueInv, HolderInv, TypeOK, ring, Contents
  <2>4. Q!Close
    BY <2>1, <2>2, <2>3 DEF Q!Close
  <2>5. QED BY <2>4 DEF Q!Next
<1>7. ASSUME NEW p \in Procs,
             \/ \E n \in ReadCounts : ReadStart(p, n)
             \/ ReleaseEnd(p) \/ FindEmpty(p) \/ Sleep(p) \/ Signal(p)
      PROVE  [Q!Next]_(Q!vars)
  <2>1. UNCHANGED <<ring, buf, ref_cnt>>
    BY <1>7 DEF ReadStart, ReleaseEnd, FindEmpty, Sleep, Signal, file
  <2>2. \A q \in Procs : pc'[q] = "opening" <=> pc[q] = "opening"
    BY <1>7 DEF ReadStart, ReleaseEnd, FindEmpty, Sleep, Signal, Goto,
                QueueInv, HolderInv, TypeOK
  <2>3. QED BY <1>1, <2>1, <2>2
<1>8. ASSUME NEW p \in Procs, OpenArm(p) PROVE [Q!Next]_(Q!vars)
  BY <1>8, FlushEndsEmptyOrPush DEF Q!Next
<1>9. ASSUME NEW p \in Procs, Consume(p) PROVE [Q!Next]_(Q!vars)
  BY <1>9, ConsumeIsTake DEF Q!Next, RingQueue
<1>10. ASSUME NEW p \in Procs, ReadReturn(p) PROVE [Q!Next]_(Q!vars)
  <2>1. /\ UNCHANGED ring /\ ref_cnt' = ref_cnt /\ buf' = [buf EXCEPT ![p] = <<>>]
        /\ \A q \in Procs : pc'[q] = "opening" <=> pc[q] = "opening"
    BY <1>10 DEF ReadReturn, Goto, file, QueueInv, HolderInv, TypeOK
  <2>2. Contents' = Contents /\ (Flushing' <=> Flushing)
    BY <2>1 DEF ring, Contents, Flushing
  <2>3. Q!Return(p)
    BY <2>1, <2>2 DEF Q!Return
  <2>4. QED BY <2>3 DEF Q!Next
<1>11. QED
  BY <1>2, <1>3, <1>4, <1>5, <1>6, <1>7, <1>8, <1>9, <1>10 DEF Next, Isr, Call, ProcStep

(* With the driver's default ring of two slots, for any number of          *)
(* processes and any periods: the interrupt, the flush in two stores and   *)
(* fip_consume behave as the bounded queue that keeps the latest key.      *)
THEOREM FipQueueRefinement ==
  ASSUME BufferSize = 2 PROVE Spec => ImplementsKeyQueue
<1>1. Init => QueueInv /\ Q!Init
  <2>1. Init => QueueInv
    BY HolderInit DEF Init, QueueInv, HandFilledByConsume
  <2>2. ASSUME Init PROVE Q!Init
    <3>1. Contents = <<>>
      BY <2>2 DEF Init, Contents, KeysIn, UsedSlots
    <3>2. QED BY <2>2, <3>1 DEF Init, Q!Init
  <2>3. QED BY <2>1, <2>2
<1>2. QueueInv /\ [Next]_vars => QueueInv'
  BY QueueInvStep
<1>3. QueueInv /\ [Next]_vars => [Q!Next]_(Q!vars)
  BY StepRefines
<1>4. QED
  BY <1>1, <1>2, <1>3, PTL DEF Spec, ImplementsKeyQueue, Q!Spec
=============================================================================
