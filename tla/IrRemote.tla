------------------------------- MODULE IrRemote -------------------------------
(***************************************************************************)
(* The infra-red remote driver (drivers/char/irkernel.c).  The interrupt   *)
(* handler ir_isr filters what the NEC, RC5 and RC6 decoders report and    *)
(* stores keys in a ring; threads that share the one open file read them.  *)
(* Every section the code runs under the driver's lock (interrupts off) is *)
(* one action; the blocking reader of ir_consume is split where it drops   *)
(* the lock, because the interrupt can come in between.                    *)
(***************************************************************************)
EXTENDS Integers, Sequences, KeyRing

CONSTANTS
  BufferSize,     \* buffer_size, the module parameter
  WithRC6,        \* the build option WITH_RC6_CONTROL
  Codes,          \* non-zero NEC and RC5 key codes
  Packets,        \* RC6 packets with an acceptable header
  NoKey,          \* the data value 0: a NEC repeat frame, or no key saved
  Readers,        \* threads sharing the open file
  ReadCounts,     \* how many keys a read may ask for
  WaitPeriods,    \* values of wait_period, in jiffies
  KeyTables,      \* repetition key tables user space may install
  JiffiesSpan,    \* 2^32 on the target: jiffies wrap at this value
  MaxElapsed      \* bound on the time since the last key

ASSUME IrAssumption ==
  /\ BufferSize \in Nat /\ BufferSize >= (IF WithRC6 THEN 6 ELSE 2)
  /\ WithRC6 \in BOOLEAN
  /\ NoKey \notin Codes
  /\ WaitPeriods \subseteq Nat \ {0} /\ WaitPeriods # {}
  /\ ReadCounts \subseteq Nat
  /\ KeyTables \subseteq (SUBSET Codes) \ {{}}
  /\ JiffiesSpan \in Nat /\ MaxElapsed \in Nat

VARIABLES
  buffer,         \* the ring, slot -> entry
  p_idx, c_idx,   \* producer and consumer index
  ref_cnt,        \* 1 while the device is open
  b_mode,         \* opened in blocking mode
  elapsed,        \* jiffies since last_jiffies was set
  wait_period, wp_var,
  old_key, save_key, count,     \* statics of ir_produce
  save_rc6_key,                 \* static of ir_produce, last RC6 packet
  key_table,      \* repetition keys set by ioctl
  pc,             \* reader -> where its read call is
  want,           \* reader -> keys it asked for
  buf             \* reader -> keys copied out of the ring by ir_consume

ring   == <<buffer, p_idx, c_idx>>
filter == <<elapsed, wp_var, old_key, save_key, count, save_rc6_key>>
file   == <<ref_cnt, b_mode, key_table, wait_period>>
thread == <<pc, want, buf>>
vars   == <<ring, filter, file, thread>>

Slots == 0 .. BufferSize - 1
NoPacket == "none"
RC6_DWORDS == 5
CountCap == 3            \* count++ only matters below 3

(* RC6 words are told apart by packet and position in the packet.          *)
Words == {NoKey} \union Codes \union (Packets \X (1 .. RC6_DWORDS))
Key == [data : Words, repeated : BOOLEAN]

-----------------------------------------------------------------------------
(* The keys in the ring, and the driver's clock.                           *)

Empty == c_idx = p_idx
Used == UsedSlots(BufferSize, p_idx, c_idx)
Contents == KeysIn(BufferSize, buffer, p_idx, c_idx)

(* time_after(last_jiffies + w, jiffies), by the sign of a difference that *)
(* wraps at JiffiesSpan.                                                   *)
NotYet(w) == (elapsed - w) % JiffiesSpan >= JiffiesSpan \div 2
(* time_before(last_jiffies + w, jiffies).                                 *)
LongAgo(w) == (w - elapsed) % JiffiesSpan >= JiffiesSpan \div 2

-----------------------------------------------------------------------------
Init ==
  /\ buffer \in [Slots -> [data : {NoKey}, repeated : BOOLEAN]] \* kmalloc
  /\ p_idx = 0 /\ c_idx = 0
  /\ ref_cnt = 0 /\ b_mode = FALSE
  /\ elapsed = 0
  /\ wait_period \in WaitPeriods /\ wp_var = 0
  /\ old_key = NoKey /\ save_key = NoKey /\ count = 0
  /\ save_rc6_key = NoPacket
  /\ key_table = {}
  /\ pc = [r \in Readers |-> "idle"]
  /\ want = [r \in Readers |-> 0]
  /\ buf = [r \in Readers |-> <<>>]

(* wake_up_interruptible(&ir_wq): every thread asleep on the queue.        *)
WakeUp == pc' = [r \in Readers |-> IF pc[r] = "asleep" THEN "relock" ELSE pc[r]]

(* Mutant: the test compares the indices after the key was stored.         *)
WakeIfWasEmpty_AfterStore ==
  /\ IF b_mode /\ c_idx' = p_idx' THEN WakeUp ELSE UNCHANGED pc
  /\ UNCHANGED <<want, buf>>

(* The wake-up test at the end of ir_produce: the consumer index, after    *)
(* any adjustment, is where the producer index was before the key.         *)
WakeIfWasEmpty ==
  /\ IF b_mode /\ c_idx' = p_idx THEN WakeUp ELSE UNCHANGED pc
  /\ UNCHANGED <<want, buf>>

(* A key is stored; a full ring gives up its oldest key.                   *)
Store(key) ==
  /\ c_idx' = MakeRoom(BufferSize, p_idx, c_idx)
  /\ buffer' = [buffer EXCEPT ![p_idx] = key]
  /\ p_idx' = Succ(BufferSize, p_idx)
  /\ WakeIfWasEmpty

(* Mutant: the consumer index is moved one slot too far.                   *)
StorePacket_OneTooFar(pkt) ==
  LET behind == (c_idx - p_idx) % BufferSize
      offset(s) == (s - p_idx) % BufferSize
  IN
  /\ c_idx' = IF behind \in 1 .. RC6_DWORDS
              THEN (c_idx + behind + 1) % BufferSize ELSE c_idx
  /\ buffer' = [s \in Slots |->
        IF offset(s) < RC6_DWORDS
        THEN [data |-> <<pkt, offset(s) + 1>>, repeated |-> buffer[s].repeated]
        ELSE buffer[s]]
  /\ p_idx' = (p_idx + RC6_DWORDS) % BufferSize
  /\ WakeIfWasEmpty

(* An RC6 packet is stored: five words, whose repeated flag is whatever    *)
(* the slot held before.  When the producer index is k = 1..5 slots behind *)
(* the consumer index, the consumer index is moved by k.                   *)
StorePacket(pkt) ==
  LET behind == (c_idx - p_idx) % BufferSize
      offset(s) == (s - p_idx) % BufferSize
  IN
  /\ c_idx' = IF behind \in 1 .. RC6_DWORDS
              THEN (c_idx + behind) % BufferSize ELSE c_idx
  /\ buffer' = [s \in Slots |->
        IF offset(s) < RC6_DWORDS
        THEN [data |-> <<pkt, offset(s) + 1>>, repeated |-> buffer[s].repeated]
        ELSE buffer[s]]
  /\ p_idx' = (p_idx + RC6_DWORDS) % BufferSize
  /\ WakeIfWasEmpty

-----------------------------------------------------------------------------
(* ir_isr.  The decoders raise interrupts only between ir_open and         *)
(* ir_release.  Frames the handler drops without touching any state (a bad *)
(* RC6 header, an RC6 error, RC5 data with the top bit set, no status bit) *)
(* are stuttering steps and have no action.                                *)

RC6Duplicate(pkt) ==
  /\ WithRC6 /\ ref_cnt # 0
  /\ NotYet(wait_period) /\ save_rc6_key = pkt
  /\ save_key' = NoKey
  /\ UNCHANGED <<ring, file, thread, elapsed, wp_var, old_key, count, save_rc6_key>>

RC6Packet(pkt) ==
  /\ WithRC6 /\ ref_cnt # 0
  /\ ~(NotYet(wait_period) /\ save_rc6_key = pkt)
  /\ save_rc6_key' = pkt
  /\ elapsed' = 0
  /\ StorePacket(pkt)
  /\ UNCHANGED <<file, wp_var, old_key, save_key, count>>

(* The first repeat frames after a key only refresh the time stamp.        *)
RepeatSwallowed ==
  /\ ref_cnt # 0 /\ save_key # NoKey
  /\ count < CountCap
  /\ count' = count + 1
  /\ elapsed' = 0
  /\ UNCHANGED <<ring, file, thread, wp_var, old_key, save_key, save_rc6_key>>

(* Later ones are dropped when too early, and end the repetition when too  *)
(* late.                                                                   *)
RepeatDropped ==
  /\ ref_cnt # 0 /\ save_key # NoKey
  /\ count >= CountCap
  /\ NotYet(wp_var) \/ LongAgo(wait_period * 4)
  /\ old_key' = NoKey
  /\ save_key' = IF NotYet(wp_var) THEN save_key ELSE NoKey
  /\ UNCHANGED <<ring, file, thread, elapsed, wp_var, count, save_rc6_key>>

RepeatAccepted ==
  /\ ref_cnt # 0 /\ save_key # NoKey
  /\ count >= CountCap
  /\ ~NotYet(wp_var) /\ ~LongAgo(wait_period * 4)
  /\ wp_var' = wait_period \div 2
  /\ elapsed' = 0
  /\ old_key' = save_key
  /\ Store([data |-> save_key, repeated |-> TRUE])
  /\ UNCHANGED <<file, save_key, count, save_rc6_key>>

(* The same code again within the wait period is thrown away.              *)
KeyTooFast(code) ==
  /\ ref_cnt # 0
  /\ NotYet(wait_period) /\ code = old_key
  /\ save_key' = NoKey
  /\ UNCHANGED <<ring, file, thread, elapsed, wp_var, old_key, count, save_rc6_key>>

KeyAccepted(code) ==
  /\ ref_cnt # 0
  /\ ~(NotYet(wait_period) /\ code = old_key)
  /\ count' = 0
  /\ wp_var' = wait_period
  /\ elapsed' = 0
  /\ save_key' = code /\ old_key' = code
  /\ Store([data |-> code, repeated |-> FALSE])
  /\ UNCHANGED <<file, save_rc6_key>>

-----------------------------------------------------------------------------
(* ir_open, ir_release, ir_ioctl.  Opens are serialised by the big kernel  *)
(* lock; a second open fails and changes nothing.  The file is released    *)
(* only when no read call holds it.                                        *)

Open(blocking) ==
  /\ ref_cnt = 0
  /\ ref_cnt' = ref_cnt + 1
  /\ b_mode' = blocking
  /\ elapsed' = 0
  /\ p_idx' = 0 /\ c_idx' = 0
  /\ wp_var' = wait_period
  /\ UNCHANGED <<buffer, old_key, save_key, count, save_rc6_key, key_table,
                 wait_period, thread>>

Release ==
  /\ ref_cnt # 0
  /\ \A r \in Readers : pc[r] = "idle"
  /\ ref_cnt' = ref_cnt - 1
  /\ UNCHANGED <<ring, filter, b_mode, key_table, wait_period, thread>>

(* Mutant: the ioctl forgets the repeat period.                            *)
SetWaitPeriod_KeepsRepeat(w) ==
  /\ ref_cnt # 0
  /\ wait_period' = w
  /\ UNCHANGED <<ring, ref_cnt, b_mode, key_table, filter, thread>>

SetWaitPeriod(w) ==
  /\ ref_cnt # 0
  /\ wait_period' = w /\ wp_var' = w
  /\ UNCHANGED <<ring, ref_cnt, b_mode, key_table, elapsed, old_key, save_key,
                 count, save_rc6_key, thread>>

SetRepeatKeys(t) ==
  /\ ref_cnt # 0
  /\ key_table' = t
  /\ UNCHANGED <<ring, filter, ref_cnt, b_mode, wait_period, thread>>

-----------------------------------------------------------------------------
(* ir_read and ir_consume.                                                 *)

ReadStart(r, n) ==
  /\ ref_cnt # 0 /\ pc[r] = "idle"
  /\ pc' = [pc EXCEPT ![r] = "relock"]
  /\ want' = [want EXCEPT ![r] = n]
  /\ UNCHANGED <<ring, filter, file, buf>>

(* Mutant: an empty ring makes a non-blocking reader wait as well.         *)
FindEmpty_AnyMode(r) ==
  /\ pc[r] = "relock"
  /\ Empty
  /\ pc' = [pc EXCEPT ![r] = "unlocked"]
  /\ UNCHANGED <<ring, filter, file, want, buf>>

(* Lock taken, nothing to read: the lock is dropped again, and the thread  *)
(* is on its way to interruptible_sleep_on.                                *)
FindEmpty(r) ==
  /\ pc[r] = "relock"
  /\ b_mode /\ Empty
  /\ pc' = [pc EXCEPT ![r] = "unlocked"]
  /\ UNCHANGED <<ring, filter, file, want, buf>>

(* interruptible_sleep_on queues the thread and leaves the processor with  *)
(* interrupts off.                                                         *)
Sleep(r) ==
  /\ pc[r] = "unlocked"
  /\ pc' = [pc EXCEPT ![r] = "asleep"]
  /\ UNCHANGED <<ring, filter, file, want, buf>>

(* A signal ends the sleep; ir_consume goes round its loop again.          *)
Signal(r) ==
  /\ pc[r] = "asleep"
  /\ pc' = [pc EXCEPT ![r] = "relock"]
  /\ UNCHANGED <<ring, filter, file, want, buf>>

Consume(r) ==
  /\ pc[r] = "relock"
  /\ ~(b_mode /\ Empty)
  /\ LET cnt == IF want[r] <= Used THEN want[r] ELSE Used IN
       /\ buf' = [buf EXCEPT ![r] = SubSeq(Contents, 1, cnt)]
       /\ c_idx' = (c_idx + cnt) % BufferSize
  /\ pc' = [pc EXCEPT ![r] = "copy"]
  /\ UNCHANGED <<buffer, p_idx, filter, file, want>>

(* copy_to_user, and the read call returns.                                *)
ReadReturn(r) ==
  /\ pc[r] = "copy"
  /\ pc' = [pc EXCEPT ![r] = "idle"]
  /\ want' = [want EXCEPT ![r] = 0]
  /\ buf' = [buf EXCEPT ![r] = <<>>]
  /\ UNCHANGED <<ring, filter, file>>

(* The timer interrupt advances jiffies.                                   *)
Tick ==
  /\ elapsed < MaxElapsed
  /\ elapsed' = elapsed + 1
  /\ UNCHANGED <<ring, file, thread, wp_var, old_key, save_key, count, save_rc6_key>>

-----------------------------------------------------------------------------
Isr ==
  \/ \E pkt \in Packets : RC6Duplicate(pkt) \/ RC6Packet(pkt)
  \/ RepeatSwallowed \/ RepeatDropped \/ RepeatAccepted
  \/ \E code \in Codes : KeyTooFast(code) \/ KeyAccepted(code)

Syscall ==
  \/ \E blocking \in BOOLEAN : Open(blocking)
  \/ Release
  \/ \E w \in WaitPeriods : SetWaitPeriod(w)
  \/ \E t \in KeyTables : SetRepeatKeys(t)

ReaderStep(r) ==
  \/ FindEmpty(r) \/ Sleep(r) \/ Consume(r) \/ ReadReturn(r)

Next ==
  \/ Isr
  \/ Syscall
  \/ \E r \in Readers : ReaderStep(r) \/ Signal(r)
  \/ \E r \in Readers, n \in ReadCounts : ReadStart(r, n)
  \/ Tick

Spec == Init /\ [][Next]_vars

(* The scheduler runs a thread that is ready to run.                       *)
FairSpec == Spec /\ \A r \in Readers : WF_vars(ReaderStep(r))

-----------------------------------------------------------------------------
(* Properties.                                                             *)

(* Every variable stays in its type: in particular both ring indices stay  *)
(* inside the ring and the readers' keys are entries of the ring's type.   *)
TypeOK ==
  /\ buffer \in [Slots -> Key]
  /\ p_idx \in Slots /\ c_idx \in Slots
  /\ ref_cnt \in {0, 1} /\ b_mode \in BOOLEAN
  /\ elapsed \in Nat
  /\ wait_period \in WaitPeriods /\ wp_var \in Nat
  /\ old_key \in Codes \union {NoKey} /\ save_key \in Codes \union {NoKey}
  /\ count \in 0 .. CountCap
  /\ save_rc6_key \in Packets \union {NoPacket}
  /\ key_table \in SUBSET Codes
  /\ pc \in [Readers -> {"idle", "relock", "unlocked", "asleep", "copy"}]
  /\ want \in [Readers -> Nat]
  /\ buf \in [Readers -> Seq(Key)]

(* Without the RC6 decoder the ring and ir_consume implement the bounded   *)
(* drop-oldest queue: every read returns the oldest keys in order, a key   *)
(* that finds the ring full costs exactly the oldest one.                  *)
Q == INSTANCE KeyQueue WITH Capacity <- BufferSize - 1, Entry <- Key,
                            users <- ref_cnt, queue <- Contents, hand <- buf
ImplementsKeyQueue == Q!Spec

(* The step that ends an empty ring in blocking mode wakes every thread    *)
(* that is asleep in ir_consume by then (ir_produce's wake-up test).       *)
FirstKeyWakesSleepers ==
  [][Empty /\ ~Empty' /\ b_mode =>
       \A r \in Readers : pc[r] = "asleep" => pc'[r] # "asleep"]_vars

(* While the device is open the repeat period in use is the wait period or *)
(* half of it, whatever ioctl, open and interrupts did in which order.     *)
RepeatPeriodFollowsWaitPeriod ==
  ref_cnt # 0 => wp_var \in {wait_period, wait_period \div 2}

(* After an RC6 packet the ring ends with the last words of that packet in *)
(* their order, at least the last one, however full the ring was.          *)
PacketTailInOrder ==
  [][\A pkt \in Packets : RC6Packet(pkt) =>
       /\ Used' > 0
       /\ \A j \in 0 .. RC6_DWORDS - 1 : j < Used' =>
            (Contents[Used - j].data)' = <<pkt, RC6_DWORDS - j>>]_vars

(* A read call that holds or retakes the lock and need not wait returns.   *)
ReadReturns ==
  \A r \in Readers :
    (pc[r] = "relock" /\ (~Empty \/ ~b_mode)) ~> pc[r] = "idle"

(* irkernel.c:428 "Sleep when buffer is empty": no thread is asleep in     *)
(* ir_consume while there are keys to read.  Does not hold and no          *)
(* configuration checks it: with it, IrKeys.cfg fails.                     *)
SleepsOnlyWhenEmpty ==
  \A r \in Readers : pc[r] = "asleep" => Empty

(* irkernel.c:312 "Valid repeated key": the key that a repeat frame would  *)
(* repeat is the last one that was stored.  save_key outlives the release, *)
(* the next open and, with RC6, a packet.  Does not hold and no            *)
(* configuration checks it: with it, IrKeys.cfg fails.                     *)
RepeatsLastKey ==
  ref_cnt # 0 /\ save_key # NoKey =>
    buffer[(p_idx - 1) % BufferSize].data = save_key

(* irkernel.c:218 "Keep the latest one and drop the oldest ones": a packet *)
(* just received is in the ring with all its words.  Does not hold and no  *)
(* configuration checks it: with it, IrPacket.cfg fails.                   *)
PacketKept ==
  [][\A pkt \in Packets : RC6Packet(pkt) => Used' >= RC6_DWORDS]_vars
=============================================================================
