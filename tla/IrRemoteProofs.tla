--------------------------- MODULE IrRemoteProofs ---------------------------
(* Proofs about the infra-red remote driver, for every ring size, set of   *)
(* keys and set of reader threads.                                         *)
EXTENDS IrRemote, KeyRingProofs

(* ir_init_module refuses a ring of fewer than two slots.                  *)
LEMMA RingSize == BufferSize \in Nat /\ BufferSize >= 2
  BY IrAssumption

(* Indices stay inside the ring when they advance.                         *)
LEMMA NextSlot ==
  ASSUME NEW i \in Slots PROVE Succ(BufferSize, i) \in Slots
  BY RingSize, SuccWraps DEF Slots

(* So they do when they advance by up to a ring's length.                  *)
LEMMA Wrap ==
  ASSUME NEW i \in Slots, NEW k \in 0 .. BufferSize
  PROVE  (i + k) % BufferSize \in Slots
  BY RingSize, SumWraps DEF Slots

(* The ring never holds more than buffer_size - 1 keys.                    *)
LEMMA UsedInRange ==
  ASSUME TypeOK PROVE Used \in 0 .. BufferSize - 1
  BY RingSize, SlotsInRing DEF TypeOK, Used, Slots

(* What a reader takes from the ring is a sequence of keys, and what it    *)
(* leaves is the rest of them.                                             *)
LEMMA ConsumeTakesPrefix ==
  ASSUME TypeOK, NEW r \in Readers, Consume(r)
  PROVE  \E cnt \in 0 .. Len(Contents) :
           /\ buf' = [buf EXCEPT ![r] = SubSeq(Contents, 1, cnt)]
           /\ SubSeq(Contents, 1, cnt) \in Seq(Key)
           /\ c_idx' \in Slots
           /\ Contents' = SubSeq(Contents, cnt + 1, Len(Contents))
<1> DEFINE cnt == IF want[r] <= Used THEN want[r] ELSE Used
<1>1. cnt \in 0 .. Used
  BY UsedInRange DEF TypeOK
<1>2. /\ buf' = [buf EXCEPT ![r] = SubSeq(Contents, 1, cnt)]
      /\ c_idx' = (c_idx + cnt) % BufferSize
      /\ p_idx' = p_idx /\ buffer' = buffer
  BY DEF Consume
<1> HIDE DEF cnt
<1>3. /\ buffer \in [0 .. BufferSize - 1 -> Key]
      /\ p_idx \in 0 .. BufferSize - 1 /\ c_idx \in 0 .. BufferSize - 1
      /\ cnt \in 0 .. UsedSlots(BufferSize, p_idx, c_idx)
  BY <1>1 DEF TypeOK, Slots, Used
<1>4. KeysIn(BufferSize, buffer, p_idx, c_idx') =
        SubSeq(Contents, cnt + 1, Len(Contents))
  BY RingSize, <1>2, <1>3, TakeDropsPrefix DEF Contents
<1>5. Contents' = SubSeq(Contents, cnt + 1, Len(Contents))
  BY <1>2, <1>4 DEF Contents
<1>6. Len(Contents) = Used
  BY RingSize, <1>3, KeysInLength DEF Used, Contents
<1>7. Contents \in Seq(Key)
  BY RingSize, <1>3, KeysInRing, Zenon DEF Contents
<1>8. SubSeq(Contents, 1, cnt) \in Seq(Key)
  BY <1>1, <1>6, <1>7, UsedInRange
<1>9. c_idx' \in Slots
  BY <1>1, <1>2, UsedInRange, Wrap, RingSize DEF TypeOK
<1>10. QED
  BY <1>1, <1>2, <1>5, <1>6, <1>8, <1>9

(* Storing a key keeps the ring and the readers in their types.            *)
LEMMA StoreType ==
  ASSUME TypeOK, NEW key \in Key, Store(key)
  PROVE  /\ buffer' \in [Slots -> Key]
         /\ p_idx' \in Slots /\ c_idx' \in Slots
         /\ pc' \in [Readers -> {"idle", "relock", "unlocked", "asleep", "copy"}]
         /\ want' = want /\ buf' = buf
<1>1. p_idx' \in Slots /\ c_idx' \in Slots
  BY NextSlot DEF Store, TypeOK, MakeRoom
<1>2. QED
  BY <1>1 DEF Store, WakeIfWasEmpty, WakeUp, TypeOK

(* So does storing an RC6 packet, whose consumer index moves by up to five. *)
LEMMA StorePacketType ==
  ASSUME TypeOK, WithRC6, NEW pkt \in Packets, StorePacket(pkt)
  PROVE  /\ buffer' \in [Slots -> Key]
         /\ p_idx' \in Slots /\ c_idx' \in Slots
         /\ pc' \in [Readers -> {"idle", "relock", "unlocked", "asleep", "copy"}]
         /\ want' = want /\ buf' = buf
<1> DEFINE behind == (c_idx - p_idx) % BufferSize
           offset(s) == (s - p_idx) % BufferSize
<1>1. p_idx' \in Slots
  <2>1. p_idx' = (p_idx + RC6_DWORDS) % BufferSize
    BY DEF StorePacket
  <2>2. RC6_DWORDS \in 0 .. BufferSize
    BY IrAssumption DEF RC6_DWORDS
  <2>3. QED
    BY <2>1, <2>2, Wrap DEF TypeOK
<1>2. c_idx' \in Slots
  <2>1. CASE behind \in 1 .. RC6_DWORDS
    <3>1. c_idx' = (c_idx + behind) % BufferSize
      BY <2>1 DEF StorePacket
    <3> HIDE DEF behind
    <3>2. QED
      BY <2>1, <3>1, Wrap, IrAssumption DEF TypeOK, RC6_DWORDS
  <2>2. CASE behind \notin 1 .. RC6_DWORDS
    BY <2>2 DEF StorePacket, TypeOK
  <2>3. QED BY <2>1, <2>2
<1>3. buffer' \in [Slots -> Key]
  <2>1. ASSUME NEW s \in Slots
        PROVE  offset(s) \in Nat
    BY IrAssumption DEF TypeOK, Slots
  <2>2. ASSUME NEW s \in Slots, NEW j \in 0 .. RC6_DWORDS - 1
        PROVE  [data |-> <<pkt, j + 1>>, repeated |-> buffer[s].repeated] \in Key
    BY DEF TypeOK, Key, Words, RC6_DWORDS
  <2>3. buffer' = [s \in Slots |->
          IF offset(s) < RC6_DWORDS
          THEN [data |-> <<pkt, offset(s) + 1>>, repeated |-> buffer[s].repeated]
          ELSE buffer[s]]
    BY DEF StorePacket
  <2> HIDE DEF offset
  <2>4. ASSUME NEW s \in Slots, offset(s) < RC6_DWORDS
        PROVE  offset(s) \in 0 .. RC6_DWORDS - 1
    BY <2>1, <2>4 DEF RC6_DWORDS
  <2>5. QED BY <2>2, <2>3, <2>4 DEF TypeOK
<1>4. QED
  BY <1>1, <1>2, <1>3 DEF StorePacket, WakeIfWasEmpty, WakeUp, TypeOK

(* Every outcome of the interrupt handler keeps the types.                 *)
LEMMA IsrType == ASSUME TypeOK, Isr PROVE TypeOK'
<1>1. ASSUME NEW pkt \in Packets, RC6Duplicate(pkt) PROVE TypeOK'
  BY <1>1 DEF RC6Duplicate, TypeOK, ring, file, thread
<1>2. ASSUME NEW pkt \in Packets, RC6Packet(pkt) PROVE TypeOK'
  <2>1. WithRC6 /\ StorePacket(pkt)
    BY <1>2 DEF RC6Packet
  <2>2. /\ buffer' \in [Slots -> Key]
        /\ p_idx' \in Slots /\ c_idx' \in Slots
        /\ pc' \in [Readers -> {"idle", "relock", "unlocked", "asleep", "copy"}]
        /\ want' = want /\ buf' = buf
    BY <2>1, StorePacketType
  <2>3. QED BY <1>2, <2>2 DEF RC6Packet, TypeOK, file
<1>3. ASSUME RepeatSwallowed PROVE TypeOK'
  BY <1>3 DEF RepeatSwallowed, TypeOK, ring, file, thread, CountCap
<1>4. ASSUME RepeatDropped PROVE TypeOK'
  BY <1>4 DEF RepeatDropped, TypeOK, ring, file, thread
<1>5. ASSUME RepeatAccepted PROVE TypeOK'
  <2> DEFINE key == [data |-> save_key, repeated |-> TRUE]
  <2>1. key \in Key
    BY DEF Key, Words, TypeOK
  <2>2. Store(key)
    BY <1>5 DEF RepeatAccepted
  <2>3. /\ buffer' \in [Slots -> Key]
        /\ p_idx' \in Slots /\ c_idx' \in Slots
        /\ pc' \in [Readers -> {"idle", "relock", "unlocked", "asleep", "copy"}]
        /\ want' = want /\ buf' = buf
    BY <2>1, <2>2, StoreType
  <2>4. wp_var' \in Nat
    BY <1>5, IrAssumption DEF RepeatAccepted, TypeOK
  <2>5. QED BY <1>5, <2>3, <2>4 DEF RepeatAccepted, TypeOK, file
<1>6. ASSUME NEW code \in Codes, KeyTooFast(code) PROVE TypeOK'
  BY <1>6 DEF KeyTooFast, TypeOK, ring, file, thread
<1>7. ASSUME NEW code \in Codes, KeyAccepted(code) PROVE TypeOK'
  <2> DEFINE key == [data |-> code, repeated |-> FALSE]
  <2>1. key \in Key
    BY DEF Key, Words
  <2>2. Store(key)
    BY <1>7 DEF KeyAccepted
  <2>3. /\ buffer' \in [Slots -> Key]
        /\ p_idx' \in Slots /\ c_idx' \in Slots
        /\ pc' \in [Readers -> {"idle", "relock", "unlocked", "asleep", "copy"}]
        /\ want' = want /\ buf' = buf
    BY <2>1, <2>2, StoreType
  <2>4. wp_var' \in Nat
    BY <1>7, IrAssumption DEF KeyAccepted, TypeOK
  <2>5. count' \in 0 .. CountCap
    BY <1>7 DEF KeyAccepted, CountCap
  <2>6. QED BY <1>7, <2>3, <2>4, <2>5 DEF KeyAccepted, TypeOK, file
<1>8. QED
  BY <1>1, <1>2, <1>3, <1>4, <1>5, <1>6, <1>7 DEF Isr

(* Open, release and the ioctls keep the types.                            *)
LEMMA SyscallType == ASSUME TypeOK, Syscall PROVE TypeOK'
<1>1. ASSUME NEW blocking \in BOOLEAN, Open(blocking) PROVE TypeOK'
  <2>1. 0 \in Slots /\ wait_period \in Nat
    BY IrAssumption DEF Slots, TypeOK
  <2>2. QED BY <1>1, <2>1 DEF Open, TypeOK, thread
<1>2. ASSUME Release PROVE TypeOK'
  BY <1>2 DEF Release, TypeOK, ring, filter, thread
<1>3. ASSUME NEW w \in WaitPeriods, SetWaitPeriod(w) PROVE TypeOK'
  BY <1>3, IrAssumption DEF SetWaitPeriod, TypeOK, ring, thread
<1>4. ASSUME NEW t \in KeyTables, SetRepeatKeys(t) PROVE TypeOK'
  BY <1>4, IrAssumption DEF SetRepeatKeys, TypeOK, ring, filter, thread
<1>5. QED BY <1>1, <1>2, <1>3, <1>4 DEF Syscall

(* Every step of a read call keeps the types.                              *)
LEMMA ReaderType ==
  ASSUME TypeOK, NEW r \in Readers, ReaderStep(r) \/ Signal(r)
  PROVE  TypeOK'
<1>1. CASE FindEmpty(r)
  BY <1>1 DEF FindEmpty, TypeOK, ring, filter, file
<1>2. CASE Sleep(r)
  BY <1>2 DEF Sleep, TypeOK, ring, filter, file
<1>3. CASE Signal(r)
  BY <1>3 DEF Signal, TypeOK, ring, filter, file
<1>4. CASE Consume(r)
  <2>1. PICK cnt \in 0 .. Len(Contents) :
           /\ buf' = [buf EXCEPT ![r] = SubSeq(Contents, 1, cnt)]
           /\ SubSeq(Contents, 1, cnt) \in Seq(Key)
           /\ c_idx' \in Slots
    BY <1>4, ConsumeTakesPrefix
  <2>2. QED BY <1>4, <2>1 DEF Consume, TypeOK, filter, file
<1>5. CASE ReadReturn(r)
  BY <1>5 DEF ReadReturn, TypeOK, ring, filter, file
<1>6. QED BY <1>1, <1>2, <1>3, <1>4, <1>5 DEF ReaderStep

(* TypeOK is preserved by every step of the driver.                        *)
LEMMA NextType == ASSUME TypeOK, [Next]_vars PROVE TypeOK'
<1>1. ASSUME NEW r \in Readers, NEW n \in ReadCounts, ReadStart(r, n) PROVE TypeOK'
  BY <1>1, IrAssumption DEF ReadStart, TypeOK, ring, filter, file
<1>2. CASE Tick
  BY <1>2 DEF Tick, TypeOK, ring, file, thread
<1>3. CASE UNCHANGED vars
  BY <1>3 DEF vars, TypeOK, ring, filter, file, thread
<1>4. QED
  BY <1>1, <1>2, <1>3, IsrType, SyscallType, ReaderType DEF Next

(* The state after ir_init_module has the types.                           *)
LEMMA InitType == Init => TypeOK
<1> SUFFICES ASSUME Init PROVE TypeOK
  OBVIOUS
<1>1. buffer \in [Slots -> Key]
  <2>1. [data : {NoKey}, repeated : BOOLEAN] \subseteq Key
    BY DEF Key, Words
  <2>2. QED BY <2>1 DEF Init
<1>2. 0 \in Slots
  BY IrAssumption DEF Slots
<1>3. buf \in [Readers -> Seq(Key)]
  <2>1. <<>> \in Seq(Key)
    OBVIOUS
  <2>2. QED BY <2>1 DEF Init
<1>4. count \in 0 .. CountCap
  BY DEF Init, CountCap
<1>5. QED
  BY <1>1, <1>2, <1>3, <1>4 DEF Init, TypeOK

(* The variables of the driver keep their types in every behaviour; in     *)
(* particular ir_produce and ir_consume never index outside the ring.      *)
THEOREM TypeCorrect == Spec => []TypeOK
<1>1. QED BY InitType, NextType, PTL DEF Spec
-----------------------------------------------------------------------------
(* The driver implements the bounded drop-oldest queue.  Besides the types *)
(* this needs two facts about ir_read: its local buffer is empty until     *)
(* ir_consume has filled it, and the file is not released under it.        *)
HandFilledByConsume ==
  \A r \in Readers : pc[r] # "copy" => buf[r] = <<>>

ReadsWhileOpen ==
  \A r \in Readers : pc[r] # "idle" => ref_cnt = 1

QueueInv == TypeOK /\ HandFilledByConsume /\ ReadsWhileOpen

(* Storing a key touches no reader's local buffer.                         *)
LEMMA StoreKeepsHands ==
  ASSUME QueueInv, NEW key, Store(key) PROVE HandFilledByConsume'
  BY DEF QueueInv, TypeOK, HandFilledByConsume, Store, WakeIfWasEmpty, WakeUp

(* No interrupt, system call or reader leaves a read call on a closed      *)
(* device.                                                                 *)
LEMMA ReadsWhileOpenNext ==
  ASSUME QueueInv, [Next]_vars PROVE ReadsWhileOpen'
<1> USE DEF QueueInv, TypeOK, ReadsWhileOpen
<1>1. ASSUME WakeIfWasEmpty \/ UNCHANGED thread, UNCHANGED file
      PROVE  ReadsWhileOpen'
  BY <1>1 DEF WakeIfWasEmpty, WakeUp, thread, file
<1>2. ASSUME Isr PROVE ReadsWhileOpen'
  BY <1>1, <1>2 DEF Isr, RC6Duplicate, RC6Packet, StorePacket, RepeatSwallowed,
       RepeatDropped, RepeatAccepted, KeyTooFast, KeyAccepted, Store
<1>3. ASSUME Syscall PROVE ReadsWhileOpen'
  BY <1>3 DEF Syscall, Open, Release, SetWaitPeriod, SetRepeatKeys, thread
<1>4. ASSUME NEW r \in Readers, ReaderStep(r) \/ Signal(r)
      PROVE  ReadsWhileOpen'
  BY <1>4 DEF ReaderStep, FindEmpty, Sleep, Consume, ReadReturn, Signal, file
<1>5. ASSUME NEW r \in Readers, NEW n \in ReadCounts, ReadStart(r, n)
      PROVE  ReadsWhileOpen'
  BY <1>5 DEF ReadStart, file
<1>6. ASSUME Tick \/ UNCHANGED vars PROVE ReadsWhileOpen'
  BY <1>1, <1>6 DEF Tick, vars
<1>7. QED
  BY <1>2, <1>3, <1>4, <1>5, <1>6 DEF Next

(* The strengthened invariant is inductive.                                *)
LEMMA QueueInvNext == ASSUME QueueInv, [Next]_vars PROVE QueueInv'
<1>1. TypeOK'
  BY NextType DEF QueueInv
<1>2. ASSUME Isr PROVE HandFilledByConsume'
  <2>1. ASSUME NEW pkt \in Packets, RC6Duplicate(pkt) \/ RC6Packet(pkt)
        PROVE  HandFilledByConsume'
    BY <2>1 DEF RC6Duplicate, RC6Packet, StorePacket, WakeIfWasEmpty, WakeUp,
                thread, QueueInv, TypeOK, HandFilledByConsume
  <2>2. CASE RepeatSwallowed \/ RepeatDropped
    BY <2>2 DEF RepeatSwallowed, RepeatDropped, thread, QueueInv, HandFilledByConsume
  <2>3. CASE RepeatAccepted
    BY <2>3, StoreKeepsHands DEF RepeatAccepted
  <2>4. ASSUME NEW code \in Codes, KeyTooFast(code) PROVE HandFilledByConsume'
    BY <2>4 DEF KeyTooFast, thread, QueueInv, HandFilledByConsume
  <2>5. ASSUME NEW code \in Codes, KeyAccepted(code) PROVE HandFilledByConsume'
    BY <2>5, StoreKeepsHands DEF KeyAccepted
  <2>6. QED BY <1>2, <2>1, <2>2, <2>3, <2>4, <2>5 DEF Isr
<1>3. ASSUME Syscall PROVE HandFilledByConsume'
  BY <1>3 DEF Syscall, Open, Release, SetWaitPeriod, SetRepeatKeys, thread,
              QueueInv, HandFilledByConsume
<1>4. ASSUME NEW r \in Readers, ReaderStep(r) \/ Signal(r)
      PROVE  HandFilledByConsume'
  <2>1. CASE FindEmpty(r) \/ Sleep(r) \/ Signal(r)
    BY <2>1 DEF FindEmpty, Sleep, Signal, QueueInv, TypeOK, HandFilledByConsume
  <2>2. CASE Consume(r)
    <3>1. PICK s : buf' = [buf EXCEPT ![r] = s]
      BY <2>2 DEF Consume
    <3>2. QED BY <2>2, <3>1 DEF Consume, QueueInv, TypeOK, HandFilledByConsume
  <2>3. CASE ReadReturn(r)
    BY <2>3 DEF ReadReturn, QueueInv, TypeOK, HandFilledByConsume
  <2>4. QED BY <1>4, <2>1, <2>2, <2>3 DEF ReaderStep
<1>5. ASSUME NEW r \in Readers, NEW n \in ReadCounts, ReadStart(r, n)
      PROVE  HandFilledByConsume'
  BY <1>5 DEF ReadStart, QueueInv, TypeOK, HandFilledByConsume
<1>6. ASSUME Tick \/ UNCHANGED vars PROVE HandFilledByConsume'
  BY <1>6 DEF Tick, vars, thread, QueueInv, HandFilledByConsume
<1>7. QED
  BY <1>1, <1>2, <1>3, <1>4, <1>5, <1>6, ReadsWhileOpenNext DEF Next, QueueInv

(* Storing a key is the queue's Push.                                      *)
LEMMA StoreIsPush ==
  ASSUME QueueInv, NEW key \in Key, Store(key), ref_cnt' = ref_cnt
  PROVE  Q!Push(key)
<1>1. /\ buffer \in [0 .. BufferSize - 1 -> Key]
      /\ p_idx \in 0 .. BufferSize - 1 /\ c_idx \in 0 .. BufferSize - 1
  BY DEF QueueInv, TypeOK, Slots
<1>2. /\ buffer' = [buffer EXCEPT ![p_idx] = key]
      /\ p_idx' = Succ(BufferSize, p_idx)
      /\ c_idx' = MakeRoom(BufferSize, p_idx, c_idx)
  BY DEF Store
<1>3. KeysIn(BufferSize, buffer', p_idx', c_idx') =
        Pushed(BufferSize - 1, Contents, key)
  <2>1. buffer' \in [0 .. BufferSize - 1 -> Key]
    BY <1>1, <1>2
  <2>2. \A s \in 0 .. BufferSize - 1 : s # p_idx => buffer'[s] = buffer[s]
    BY <1>1, <1>2
  <2>3. KeysIn(BufferSize, buffer', Succ(BufferSize, p_idx),
               MakeRoom(BufferSize, p_idx, c_idx)) =
          Pushed(BufferSize - 1, KeysIn(BufferSize, buffer, p_idx, c_idx),
                 buffer'[p_idx])
    BY RingSize, <1>1, <2>1, <2>2, StoreAppends
  <2>4. buffer'[p_idx] = key
    BY <1>1, <1>2
  <2>5. QED BY <1>2, <2>3, <2>4 DEF Contents
<1>4. buf' = buf
  BY DEF Store, WakeIfWasEmpty
<1>5. QED
  BY <1>3, <1>4 DEF Q!Push, Contents, Pushed

(* Every step of the driver is a step of the queue or leaves it unchanged. *)
LEMMA StepRefines ==
  ASSUME ~WithRC6, QueueInv, [Next]_vars PROVE [Q!Next]_(Q!vars)
<1> DEFINE same == Contents' = Contents /\ buf' = buf /\ ref_cnt' = ref_cnt
<1>1. same => [Q!Next]_(Q!vars)
  BY DEF Q!vars
<1>2. ASSUME UNCHANGED ring, buf' = buf, ref_cnt' = ref_cnt PROVE same
  BY <1>2 DEF ring, Contents
<1>3. ASSUME Isr PROVE [Q!Next]_(Q!vars)
  <2>1. ASSUME NEW key \in Key, Store(key), ref_cnt' = ref_cnt PROVE Q!Next
    BY <2>1, StoreIsPush DEF Q!Next
  <2>2. CASE RepeatSwallowed \/ RepeatDropped
    BY <1>1, <1>2, <2>2 DEF RepeatSwallowed, RepeatDropped, thread, file
  <2>3. CASE RepeatAccepted
    <3>1. [data |-> save_key, repeated |-> TRUE] \in Key
      BY DEF QueueInv, TypeOK, Key, Words
    <3>2. QED BY <2>1, <2>3, <3>1 DEF RepeatAccepted, file
  <2>4. ASSUME NEW code \in Codes, KeyTooFast(code) PROVE [Q!Next]_(Q!vars)
    BY <1>1, <1>2, <2>4 DEF KeyTooFast, thread, file
  <2>5. ASSUME NEW code \in Codes, KeyAccepted(code) PROVE Q!Next
    <3>1. [data |-> code, repeated |-> FALSE] \in Key
      BY DEF Key, Words
    <3>2. QED BY <2>1, <2>5, <3>1 DEF KeyAccepted, file
  <2>6. QED
    BY <1>3, <2>2, <2>3, <2>4, <2>5 DEF Isr, RC6Packet, RC6Duplicate
<1>4. ASSUME Syscall PROVE [Q!Next]_(Q!vars)
  <2>1. ASSUME NEW blocking \in BOOLEAN, Open(blocking) PROVE Q!Open
    <3>1. /\ p_idx' = 0 /\ c_idx' = 0 /\ buf' = buf
          /\ ref_cnt = 0 /\ ref_cnt' = 1
      BY <2>1 DEF Open, thread
    <3>2. Contents' = <<>>
      BY <3>1 DEF Contents, KeysIn, UsedSlots
    <3>3. QED BY <3>1, <3>2 DEF Q!Open
  <2>2. ASSUME Release PROVE Q!Close
    <3>1. UNCHANGED ring /\ buf' = buf /\ ref_cnt = 1 /\ ref_cnt' = 0
      BY <2>2 DEF Release, thread, QueueInv, TypeOK
    <3>2. QED BY <3>1 DEF Q!Close, ring, Contents
  <2>3. ASSUME NEW w \in WaitPeriods, SetWaitPeriod(w) PROVE [Q!Next]_(Q!vars)
    BY <1>1, <1>2, <2>3 DEF SetWaitPeriod, thread
  <2>4. ASSUME NEW t \in KeyTables, SetRepeatKeys(t) PROVE [Q!Next]_(Q!vars)
    BY <1>1, <1>2, <2>4 DEF SetRepeatKeys, thread
  <2>5. QED BY <1>4, <2>1, <2>2, <2>3, <2>4 DEF Syscall, Q!Next
<1>5. ASSUME NEW r \in Readers, ReaderStep(r) \/ Signal(r)
      PROVE  [Q!Next]_(Q!vars)
  <2>1. CASE FindEmpty(r) \/ Sleep(r) \/ Signal(r)
    BY <1>1, <1>2, <2>1 DEF FindEmpty, Sleep, Signal, file
  <2>2. CASE Consume(r)
    <3>1. PICK cnt \in 0 .. Len(Contents) :
             /\ buf' = [buf EXCEPT ![r] = SubSeq(Contents, 1, cnt)]
             /\ Contents' = SubSeq(Contents, cnt + 1, Len(Contents))
      BY <2>2, ConsumeTakesPrefix DEF QueueInv
    <3>2. buf[r] = <<>> /\ ref_cnt = 1
      BY <2>2 DEF Consume, QueueInv, HandFilledByConsume, ReadsWhileOpen
    <3>3. Q!Take(r, cnt)
      BY <2>2, <3>1, <3>2 DEF Consume, file, Q!Take
    <3>4. QED BY <3>3 DEF Q!Next
  <2>3. CASE ReadReturn(r)
    <3>1. Contents' = Contents
      BY <2>3 DEF ReadReturn, ring, Contents
    <3>2. Q!Return(r)
      BY <2>3, <3>1 DEF ReadReturn, file, Q!Return
    <3>3. QED BY <3>2 DEF Q!Next
  <2>4. QED BY <1>5, <2>1, <2>2, <2>3 DEF ReaderStep
<1>6. ASSUME NEW r \in Readers, NEW n \in ReadCounts, ReadStart(r, n)
      PROVE  [Q!Next]_(Q!vars)
  BY <1>1, <1>2, <1>6 DEF ReadStart, file
<1>7. CASE Tick
  BY <1>1, <1>2, <1>7 DEF Tick, thread, file
<1>8. CASE UNCHANGED vars
  BY <1>1, <1>2, <1>8 DEF vars, thread, file
<1>9. QED
  BY <1>3, <1>4, <1>5, <1>6, <1>7, <1>8 DEF Next

(* For every ring size, without the RC6 decoder, whatever the interleaving *)
(* of interrupts, readers, opens and ioctls: ir_produce and ir_consume     *)
(* behave as the bounded first-in first-out queue that drops its oldest    *)
(* key when a key finds it full.                                           *)
THEOREM QueueRefinement ==
  ASSUME ~WithRC6 PROVE Spec => ImplementsKeyQueue
<1>1. Init => QueueInv /\ Q!Init
  <2>1. Init => QueueInv
    BY InitType DEF Init, QueueInv, HandFilledByConsume, ReadsWhileOpen
  <2>2. ASSUME Init PROVE Q!Init
    <3>1. Contents = <<>>
      BY <2>2 DEF Init, Contents, KeysIn, UsedSlots
    <3>2. QED BY <2>2, <3>1 DEF Init, Q!Init
  <2>3. QED BY <2>1, <2>2
<1>2. QueueInv /\ [Next]_vars => QueueInv'
  BY QueueInvNext
<1>3. QueueInv /\ [Next]_vars => [Q!Next]_(Q!vars)
  BY StepRefines
<1>4. QED
  BY <1>1, <1>2, <1>3, PTL DEF Spec, ImplementsKeyQueue, Q!Spec

-----------------------------------------------------------------------------
(* The period in which repeat frames are accepted.                         *)
LEMMA RepeatPeriodStep ==
  ASSUME RepeatPeriodFollowsWaitPeriod, [Next]_vars
  PROVE  RepeatPeriodFollowsWaitPeriod'
<1>. USE DEF RepeatPeriodFollowsWaitPeriod, file, filter
<1>1. CASE Isr
  BY <1>1 DEF Isr, RC6Duplicate, RC6Packet, RepeatSwallowed, RepeatDropped, RepeatAccepted,
              KeyTooFast, KeyAccepted
<1>2. CASE Syscall
  BY <1>2 DEF Syscall, Open, Release, SetWaitPeriod, SetRepeatKeys
<1>3. ASSUME NEW r \in Readers, ReaderStep(r) \/ Signal(r)
      PROVE  RepeatPeriodFollowsWaitPeriod'
  BY <1>3 DEF ReaderStep, FindEmpty, Sleep, Consume, ReadReturn, Signal
<1>4. ASSUME NEW r \in Readers, NEW n \in ReadCounts, ReadStart(r, n)
      PROVE  RepeatPeriodFollowsWaitPeriod'
  BY <1>4 DEF ReadStart
<1>5. CASE Tick \/ UNCHANGED vars
  BY <1>5 DEF Tick, vars
<1>6. QED BY <1>1, <1>2, <1>3, <1>4, <1>5 DEF Next

(* Whatever order of opens, ioctls and interrupts: while the device is     *)
(* open the repeat period is the wait period or half of it.                *)
THEOREM RepeatPeriod == Spec => []RepeatPeriodFollowsWaitPeriod
<1>1. Init => RepeatPeriodFollowsWaitPeriod
  BY DEF Init, RepeatPeriodFollowsWaitPeriod
<1>2. QED BY <1>1, RepeatPeriodStep, PTL DEF Spec

-----------------------------------------------------------------------------
(* A read of an empty ring leaves it empty.                                *)
LEMMA ConsumeOfEmpty ==
  ASSUME TypeOK, Empty, NEW r \in Readers, Consume(r) PROVE Empty'
<1>1. Used = 0
  BY RingSize DEF Empty, Used, UsedSlots, TypeOK, Slots
<1>2. c_idx' = (c_idx + 0) % BufferSize
  BY <1>1 DEF Consume, TypeOK
<1>3. (c_idx + 0) % BufferSize = c_idx
  <2>1. c_idx \in 0 .. BufferSize - 1 /\ 0 \in 0 .. BufferSize
    BY RingSize DEF TypeOK, Slots
  <2>2. (c_idx + 0) % BufferSize = IF c_idx + 0 < BufferSize THEN c_idx + 0
                                                             ELSE c_idx + 0 - BufferSize
    BY <2>1, RingSize, SumWraps
  <2>3. QED BY <2>1, <2>2, RingSize
<1>4. QED BY <1>2, <1>3 DEF Consume, Empty

-----------------------------------------------------------------------------
(* The wake-up test at the end of ir_produce.                              *)
LEMMA WakesAll ==
  ASSUME TypeOK, b_mode, c_idx' = p_idx, WakeIfWasEmpty, NEW r \in Readers, pc[r] = "asleep"
  PROVE  pc'[r] # "asleep"
  BY DEF WakeIfWasEmpty, WakeUp

(* A step that fills an empty ring leaves no reader asleep.                *)
LEMMA WakeStep ==
  ASSUME TypeOK, [Next]_vars, Empty, ~Empty', b_mode, NEW r \in Readers, pc[r] = "asleep"
  PROVE  pc'[r] # "asleep"
<1>1. ASSUME UNCHANGED ring PROVE FALSE
  BY <1>1 DEF ring, Empty
<1>2. ASSUME NEW key, Store(key) PROVE pc'[r] # "asleep"
  <2>1. Succ(BufferSize, p_idx) # c_idx
    <3>1. p_idx \in 0 .. BufferSize - 1 /\ c_idx = p_idx
      BY DEF Empty, TypeOK, Slots
    <3>2. Succ(BufferSize, p_idx) = IF p_idx = BufferSize - 1 THEN 0 ELSE p_idx + 1
      BY <3>1, RingSize, SuccWraps
    <3>3. QED BY <3>1, <3>2, RingSize
  <2>2. c_idx' = p_idx
    BY <1>2, <2>1 DEF Store, MakeRoom, Empty
  <2>3. QED BY <1>2, <2>2, WakesAll DEF Store
<1>3. ASSUME NEW pkt, StorePacket(pkt) PROVE pc'[r] # "asleep"
  <2>1. (c_idx - p_idx) % BufferSize = 0
    BY RingSize DEF Empty, TypeOK, Slots
  <2>2. c_idx' = p_idx
    BY <1>3, <2>1 DEF StorePacket, Empty
  <2>3. QED BY <1>3, <2>2, WakesAll DEF StorePacket
<1>4. CASE Isr
  BY <1>1, <1>2, <1>3, <1>4
     DEF Isr, RC6Duplicate, RC6Packet, RepeatSwallowed, RepeatDropped, RepeatAccepted,
         KeyTooFast, KeyAccepted
<1>5. CASE Syscall
  <2>1. ASSUME NEW blocking \in BOOLEAN, Open(blocking) PROVE FALSE
    BY <2>1 DEF Open, Empty
  <2>2. QED BY <1>1, <1>5, <2>1 DEF Syscall, Release, SetWaitPeriod, SetRepeatKeys
<1>6. ASSUME NEW q \in Readers, ReaderStep(q) \/ Signal(q) PROVE FALSE
  <2>1. ~Consume(q)
    BY ConsumeOfEmpty
  <2>2. QED BY <1>1, <1>6, <2>1 DEF ReaderStep, FindEmpty, Sleep, ReadReturn, Signal
<1>7. ASSUME NEW q \in Readers, NEW n \in ReadCounts, ReadStart(q, n) PROVE FALSE
  BY <1>1, <1>7 DEF ReadStart
<1>8. ASSUME Tick \/ UNCHANGED vars PROVE FALSE
  BY <1>1, <1>8 DEF Tick, vars
<1>9. QED BY <1>4, <1>5, <1>6, <1>7, <1>8 DEF Next

(* For every ring size, with or without RC6, and any number of readers:    *)
(* the interrupt that ends an empty ring wakes everybody who sleeps by     *)
(* then.                                                                   *)
THEOREM FirstKeyWakes == Spec => FirstKeyWakesSleepers
<1>1. TypeOK /\ [Next]_vars =>
        [Empty /\ ~Empty' /\ b_mode =>
           \A r \in Readers : pc[r] = "asleep" => pc'[r] # "asleep"]_vars
  BY WakeStep
<1>2. QED BY <1>1, InitType, NextType, PTL DEF Spec, FirstKeyWakesSleepers

-----------------------------------------------------------------------------
(* RC6 packets.                                                            *)

(* The distance between two slots, the way the code computes it.           *)
LEMMA DistanceWraps ==
  ASSUME NEW n \in Nat, n >= 2, NEW i \in 0 .. n - 1, NEW k \in 0 .. n - 1
  PROVE  (i - k) % n = IF i >= k THEN i - k ELSE i - k + n
<1>1. CASE i >= k
  BY <1>1
<1>2. CASE ~(i >= k)
  <2>1. (i - k) + n \in 0 .. n - 1
    BY <1>2
  <2>2. QED BY <1>2, <2>1
<1>3. QED BY <1>1, <1>2

(* The slots of the newest keys, counted back from the producer index.     *)
LEMMA NewestSlots ==
  ASSUME NEW n \in Nat, n >= 2, NEW p \in 0 .. n - 1, NEW c \in 0 .. n - 1,
         NEW j \in Nat, j < UsedSlots(n, p, c)
  PROVE  /\ UsedSlots(n, p, c) - j \in 1 .. UsedSlots(n, p, c)
         /\ SlotOf(n, c, UsedSlots(n, p, c) - j)
              = IF p - 1 - j >= 0 THEN p - 1 - j ELSE p - 1 - j + n
  BY DEF UsedSlots, SlotOf

(* Slots reached by going forward from one, and distances between slots.   *)
Ahead(n, i, k) == (i + k) % n
Dist(n, i, k) == (i - k) % n

(* Both wrap at most once.                                                 *)
LEMMA AheadDist ==
  ASSUME NEW n \in Nat, n >= 2, NEW i \in 0 .. n - 1, NEW k \in 0 .. n - 1
  PROVE  /\ Ahead(n, i, k) = IF i + k < n THEN i + k ELSE i + k - n
         /\ Dist(n, i, k) = IF i >= k THEN i - k ELSE i - k + n
<1>1. k \in 0 .. n
  OBVIOUS
<1>2. QED BY <1>1, SumWraps, DistanceWraps DEF Ahead, Dist

(* The adjustment of the consumer index never makes the ring look empty.   *)
LEMMA PacketNotEmpty ==
  ASSUME NEW n \in Nat, n >= 6, NEW p \in 0 .. n - 1, NEW c \in 0 .. n - 1,
         NEW p2, p2 = Ahead(n, p, 5),
         NEW c2, c2 = IF Dist(n, c, p) \in 1 .. 5 THEN Ahead(n, c, Dist(n, c, p)) ELSE c
  PROVE  p2 \in 0 .. n - 1 /\ c2 \in 0 .. n - 1 /\ p2 # c2
<1> DEFINE k == Dist(n, c, p)
<1>1. k = IF c >= p THEN c - p ELSE c - p + n
  BY AheadDist
<1>2. p2 = IF p + 5 < n THEN p + 5 ELSE p + 5 - n
  BY AheadDist
<1>3. c2 = IF k \in 1 .. 5 THEN Ahead(n, c, k) ELSE c
  OBVIOUS
<1> HIDE DEF k
<1>4. CASE k \in 1 .. 5
  <2>1. c2 = IF c + k < n THEN c + k ELSE c + k - n
    <3>1. k \in 0 .. n - 1 /\ n >= 2 /\ c2 = Ahead(n, c, k)
      BY <1>3, <1>4
    <3>2. QED BY <3>1, AheadDist
  <2>2. QED BY <1>1, <1>2, <1>4, <2>1
<1>5. CASE k \notin 1 .. 5
  <2>1. c2 = c
    BY <1>3, <1>5
  <2>2. QED BY <1>1, <1>2, <1>5, <2>1
<1>6. QED BY <1>4, <1>5

(* The last words of a packet just stored are the newest keys of the ring. *)
LEMMA PacketStored ==
  ASSUME TypeOK, WithRC6, NEW pkt \in Packets, StorePacket(pkt)
  PROVE  /\ Used' > 0
         /\ \A j \in 0 .. RC6_DWORDS - 1 : j < Used' =>
              Contents'[Used' - j].data = <<pkt, RC6_DWORDS - j>>
<1> DEFINE n == BufferSize
           p == p_idx
           c == c_idx
           p2 == p_idx'
           c2 == c_idx'
           u == UsedSlots(n, p2, c2)
<1>1. n \in Nat /\ n >= 6 /\ n >= 2
  BY IrAssumption
<1>2. p \in 0 .. n - 1 /\ c \in 0 .. n - 1
  BY DEF TypeOK, Slots
<1>3. /\ p2 = Ahead(n, p, 5)
      /\ c2 = IF Dist(n, c, p) \in 1 .. 5 THEN Ahead(n, c, Dist(n, c, p)) ELSE c
  BY DEF StorePacket, RC6_DWORDS, Ahead, Dist
<1>4. ASSUME NEW s \in 0 .. n - 1, Dist(n, s, p) < 5
      PROVE  buffer'[s].data = <<pkt, Dist(n, s, p) + 1>>
  <2>1. buffer' = [x \in 0 .. n - 1 |->
          IF Dist(n, x, p) < 5
          THEN [data |-> <<pkt, Dist(n, x, p) + 1>>, repeated |-> buffer[x].repeated]
          ELSE buffer[x]]
    BY DEF StorePacket, RC6_DWORDS, Slots, Dist
  <2> HIDE DEF n, p
  <2>2. QED BY <1>4, <2>1
<1>5. Used' = u /\ Contents' = [i \in 1 .. u |-> buffer'[SlotOf(n, c2, i)]]
  BY DEF Used, Contents, KeysIn
<1> HIDE DEF n, p, c, p2, c2
<1>6. p2 \in 0 .. n - 1 /\ c2 \in 0 .. n - 1 /\ p2 # c2
  BY <1>1, <1>2, <1>3, PacketNotEmpty
<1>7. u > 0 /\ u \in Nat
  BY <1>1, <1>6 DEF UsedSlots
<1>8. p2 = IF p + 5 < n THEN p + 5 ELSE p + 5 - n
  BY <1>1, <1>2, <1>3, AheadDist
<1>9. ASSUME NEW j \in 0 .. 4, j < u PROVE Contents'[u - j].data = <<pkt, 5 - j>>
  <2> DEFINE s == SlotOf(n, c2, u - j)
  <2>1. /\ u - j \in 1 .. u
        /\ s = IF p2 - 1 - j >= 0 THEN p2 - 1 - j ELSE p2 - 1 - j + n
    BY <1>1, <1>6, <1>9, NewestSlots
  <2> HIDE DEF s, u
  <2>2. s \in 0 .. n - 1 /\ s = IF p + 4 - j < n THEN p + 4 - j ELSE p + 4 - j - n
    BY <1>1, <1>2, <1>8, <2>1
  <2>3. Dist(n, s, p) = 4 - j
    <3>1. Dist(n, s, p) = IF s >= p THEN s - p ELSE s - p + n
      BY <1>1, <1>2, <2>2, AheadDist
    <3>2. QED BY <1>1, <1>2, <2>2, <3>1
  <2>4. buffer'[s].data = <<pkt, 5 - j>>
    <3>1. Dist(n, s, p) < 5 /\ Dist(n, s, p) + 1 = 5 - j
      BY <2>3
    <3>2. QED BY <1>4, <2>2, <3>1
  <2>5. Contents'[u - j] = buffer'[s]
    BY <1>5, <2>1 DEF s
  <2>6. QED BY <2>4, <2>5
<1> HIDE DEF u
<1>10. \A j \in 0 .. RC6_DWORDS - 1 : j \in 0 .. 4 /\ RC6_DWORDS - j = 5 - j
  BY DEF RC6_DWORDS
<1>11. QED BY <1>5, <1>7, <1>9, <1>10

(* For every ring of at least six slots: after an RC6 packet the ring is   *)
(* not empty and ends with the last words of that packet in their order,   *)
(* wherever the two indices were when the packet came.                     *)
THEOREM PacketTail == Spec => PacketTailInOrder
<1>1. TypeOK /\ [Next]_vars =>
        [\A pkt \in Packets : RC6Packet(pkt) =>
           /\ Used' > 0
           /\ \A j \in 0 .. RC6_DWORDS - 1 : j < Used' =>
                (Contents[Used - j].data)' = <<pkt, RC6_DWORDS - j>>]_vars
  <2>1. ASSUME TypeOK, NEW pkt \in Packets, RC6Packet(pkt)
        PROVE  /\ Used' > 0
               /\ \A j \in 0 .. RC6_DWORDS - 1 : j < Used' =>
                    Contents'[Used' - j].data = <<pkt, RC6_DWORDS - j>>
    BY <2>1, PacketStored DEF RC6Packet
  <2>2. QED BY <2>1
<1>2. QED BY <1>1, TypeCorrect, PTL DEF Spec, PacketTailInOrder
=============================================================================
