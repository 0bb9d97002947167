------------------------------ MODULE FrontPanel ------------------------------
(***************************************************************************)
(* The key side of the front panel driver (drivers/char/fipkernel.c, built *)
(* for the first reference panel, without ENABLE_WRITE_INTR).  While the   *)
(* device is open a kernel timer asks the panel for its keys every poll    *)
(* period; the interrupt that answers pushes the key into a ring.  Several *)
(* processes compete for the exclusive device.  An action is a section the *)
(* code runs with interrupts off, or a step of a process up to the next    *)
(* point where an interrupt, the timer or another process may come in (the *)
(* kernel is preemptible, on one processor).  Each process has one thread. *)
(***************************************************************************)
EXTENDS Integers, Sequences, FiniteSets, KeyRing

CONSTANTS
  BufferSize,   \* buffer_size, the module parameter
  Keys,         \* key codes other than 0 and 0xffffffff
  NoKey,        \* key data 0 or 0xffffffff: no key pressed
  Procs,        \* processes that use the device
  ReadCounts,   \* how many keys a read may ask for
  WaitPeriod,   \* wait_period, in jiffies
  PollPeriod    \* HZ / poll_per_sec, in jiffies

ASSUME FipAssumption ==
  /\ BufferSize \in Nat /\ BufferSize >= 2
  /\ NoKey \notin Keys
  /\ ReadCounts \subseteq Nat
  /\ WaitPeriod \in Nat /\ PollPeriod \in Nat \ {0}

VARIABLES
  buffer, p_idx, c_idx,   \* the ring
  ref_cnt, b_mode,
  elapsed,      \* jiffies since last_jiffies, up to WaitPeriod
  oldkey,       \* static of fip_push_key
  timer,        \* fip_timer: jiffies until it expires, or Idle
  reading,      \* the panel has a READ_KEYS command to answer
  pc,           \* process -> where it is
  want,         \* process -> keys it asked for
  buf,          \* process -> keys copied out of the ring by fip_consume
  wait          \* process -> jiffies left in the loop of fip_release

ring   == <<buffer, p_idx, c_idx>>
file   == <<ref_cnt, b_mode>>
thread == <<pc, want, buf>>
vars   == <<ring, file, elapsed, oldkey, timer, reading, thread, wait>>

Slots == 0 .. BufferSize - 1
Idle == -1

Empty == c_idx = p_idx
Used == UsedSlots(BufferSize, p_idx, c_idx)
Contents == KeysIn(BufferSize, buffer, p_idx, c_idx)
Goto(p, label) == pc' = [pc EXCEPT ![p] = label]

Init ==
  /\ buffer = [s \in Slots |-> NoKey]         \* kmalloc, never read
  /\ p_idx = 0 /\ c_idx = 0
  /\ ref_cnt = 0 /\ b_mode = FALSE
  /\ elapsed = 0 /\ oldkey = NoKey
  /\ timer = Idle /\ reading = FALSE
  /\ pc = [p \in Procs |-> "closed"]
  /\ want = [p \in Procs |-> 0]
  /\ buf = [p \in Procs |-> <<>>]
  /\ wait = [p \in Procs |-> 0]

-----------------------------------------------------------------------------
(* The interrupt handler.  The key interrupt stays enabled while the       *)
(* device is closed, so nothing here depends on ref_cnt.                   *)

(* The panel is busy with a display write: the interrupt is cleared and    *)
(* the key is lost.                                                        *)
IsrBusy ==
  /\ reading /\ reading' = FALSE
  /\ UNCHANGED <<ring, file, elapsed, oldkey, timer, thread, wait>>

NoKeyPressed ==
  /\ reading /\ reading' = FALSE
  /\ oldkey' = NoKey
  /\ UNCHANGED <<ring, file, elapsed, timer, thread, wait>>

TooFast(key) == elapsed < WaitPeriod /\ key = oldkey

KeyTooFast(key) ==
  /\ reading /\ reading' = FALSE
  /\ TooFast(key)
  /\ UNCHANGED <<ring, file, elapsed, oldkey, timer, thread, wait>>

(* wake_up_interruptible(&fip_wq)                                          *)
WakeUp == pc' = [p \in Procs |-> IF pc[p] = "asleep" THEN "relock" ELSE pc[p]]

(* Mutant: the test uses the consumer index from before the adjustment.    *)
WakeIfWasEmpty_BeforeAdjust ==
  IF b_mode /\ c_idx = p_idx THEN WakeUp ELSE UNCHANGED pc

WakeIfWasEmpty ==
  IF b_mode /\ c_idx' = p_idx THEN WakeUp ELSE UNCHANGED pc

PushKey(key) ==
  /\ reading /\ reading' = FALSE
  /\ ~TooFast(key)
  /\ elapsed' = 0
  /\ c_idx' = MakeRoom(BufferSize, p_idx, c_idx)
  /\ buffer' = [buffer EXCEPT ![p_idx] = key]
  /\ oldkey' = key
  /\ p_idx' = Succ(BufferSize, p_idx)
  /\ WakeIfWasEmpty
  /\ UNCHANGED <<file, timer, want, buf, wait>>

-----------------------------------------------------------------------------
(* Mutant: a busy panel ends the polling.                                  *)
PollKey_StopsWhenBusy(busy) ==
  /\ timer = 0
  /\ reading' = (reading \/ ~busy)
  /\ timer' = IF ref_cnt # 0 /\ ~busy THEN PollPeriod ELSE Idle
  /\ UNCHANGED <<ring, file, elapsed, oldkey, thread, wait>>

(* The timer expires.  A busy panel is not asked, but the timer is armed   *)
(* again as long as the device is open.                                    *)
PollKey(busy) ==
  /\ timer = 0
  /\ reading' = (reading \/ ~busy)
  /\ timer' = IF ref_cnt # 0 THEN PollPeriod ELSE Idle
  /\ UNCHANGED <<ring, file, elapsed, oldkey, thread, wait>>

(* The timer interrupt: expired timers run before the next one, and time   *)
(* since the last key matters only up to WaitPeriod.                       *)
Tick ==
  /\ timer # 0
  /\ timer' = IF timer = Idle THEN Idle ELSE timer - 1
  /\ elapsed' = IF elapsed < WaitPeriod THEN elapsed + 1 ELSE elapsed
  /\ wait' = [p \in Procs |-> IF wait[p] > 0 THEN wait[p] - 1 ELSE 0]
  /\ UNCHANGED <<ring, file, oldkey, reading, thread>>

-----------------------------------------------------------------------------
(* fip_open: the big kernel lock serialises opens, but not with the        *)
(* interrupt, the timer or a release.  The two stores that empty the ring  *)
(* are apart from each other, the consumer index first.                    *)

(* Mutant: the exclusive access check is missing.                          *)
OpenStart_Shared(p, blocking) ==
  /\ pc[p] = "closed"
  /\ \A q \in Procs : pc[q] # "opening"
  /\ ref_cnt' = ref_cnt + 1
  /\ b_mode' = blocking
  /\ elapsed' = 0
  /\ c_idx' = 0
  /\ Goto(p, "opening")
  /\ UNCHANGED <<buffer, p_idx, oldkey, timer, reading, want, buf, wait>>

OpenStart(p, blocking) ==
  /\ pc[p] = "closed"
  /\ \A q \in Procs : pc[q] # "opening"
  /\ ref_cnt = 0
  /\ ref_cnt' = ref_cnt + 1
  /\ b_mode' = blocking
  /\ elapsed' = 0
  /\ c_idx' = 0
  /\ Goto(p, "opening")
  /\ UNCHANGED <<buffer, p_idx, oldkey, timer, reading, want, buf, wait>>

(* The other store, and add_timer: a timer that is still pending is a BUG  *)
(* that kills the process in the middle of the open.                       *)
OpenArm(p) ==
  /\ pc[p] = "opening"
  /\ p_idx' = 0
  /\ timer' = IF timer = Idle THEN PollPeriod ELSE timer
  /\ Goto(p, IF timer = Idle THEN "open" ELSE "killed")
  /\ UNCHANGED <<buffer, c_idx, file, elapsed, oldkey, reading, want, buf, wait>>

(* Mutant: the wait is shorter than a poll period.                         *)
ReleaseStart_ShortWait(p) ==
  /\ pc[p] = "open"
  /\ ref_cnt' = ref_cnt - 1
  /\ wait' = [wait EXCEPT ![p] = PollPeriod - 1]
  /\ Goto(p, "releasing")
  /\ UNCHANGED <<ring, b_mode, elapsed, oldkey, timer, reading, want, buf>>

(* fip_release counts down first, then spins for two poll periods.         *)
ReleaseStart(p) ==
  /\ pc[p] = "open"
  /\ ref_cnt' = ref_cnt - 1
  /\ wait' = [wait EXCEPT ![p] = 2 * PollPeriod]
  /\ Goto(p, "releasing")
  /\ UNCHANGED <<ring, b_mode, elapsed, oldkey, timer, reading, want, buf>>

(* del_timer_sync takes the timer down, whoever armed it.                  *)
ReleaseEnd(p) ==
  /\ pc[p] = "releasing" /\ wait[p] = 0
  /\ timer # 0
  /\ timer' = Idle
  /\ Goto(p, "closed")
  /\ UNCHANGED <<ring, file, elapsed, oldkey, reading, want, buf, wait>>

-----------------------------------------------------------------------------
(* fip_read and fip_consume, split where the lock is dropped.              *)

ReadStart(p, n) ==
  /\ pc[p] = "open"
  /\ Goto(p, "relock")
  /\ want' = [want EXCEPT ![p] = n]
  /\ UNCHANGED <<ring, file, elapsed, oldkey, timer, reading, buf, wait>>

FindEmpty(p) ==
  /\ pc[p] = "relock"
  /\ b_mode /\ Empty
  /\ Goto(p, "unlocked")
  /\ UNCHANGED <<ring, file, elapsed, oldkey, timer, reading, want, buf, wait>>

Sleep(p) ==
  /\ pc[p] = "unlocked"
  /\ Goto(p, "asleep")
  /\ UNCHANGED <<ring, file, elapsed, oldkey, timer, reading, want, buf, wait>>

Signal(p) ==
  /\ pc[p] = "asleep"
  /\ Goto(p, "relock")
  /\ UNCHANGED <<ring, file, elapsed, oldkey, timer, reading, want, buf, wait>>

Consume(p) ==
  /\ pc[p] = "relock"
  /\ ~(b_mode /\ Empty)
  /\ LET cnt == IF want[p] <= Used THEN want[p] ELSE Used IN
       /\ buf' = [buf EXCEPT ![p] = SubSeq(Contents, 1, cnt)]
       /\ c_idx' = (c_idx + cnt) % BufferSize
  /\ Goto(p, "copy")
  /\ UNCHANGED <<buffer, p_idx, file, elapsed, oldkey, timer, reading, want, wait>>

ReadReturn(p) ==
  /\ pc[p] = "copy"
  /\ Goto(p, "open")
  /\ want' = [want EXCEPT ![p] = 0]
  /\ buf' = [buf EXCEPT ![p] = <<>>]
  /\ UNCHANGED <<ring, file, elapsed, oldkey, timer, reading, wait>>

-----------------------------------------------------------------------------
Isr ==
  \/ IsrBusy \/ NoKeyPressed
  \/ \E key \in Keys : KeyTooFast(key) \/ PushKey(key)

(* What a process does once it has started a call.                         *)
ProcStep(p) ==
  \/ OpenArm(p) \/ ReleaseEnd(p)
  \/ FindEmpty(p) \/ Sleep(p) \/ Consume(p) \/ ReadReturn(p)

Call(p) ==
  \/ \E blocking \in BOOLEAN : OpenStart(p, blocking)
  \/ ReleaseStart(p)
  \/ \E n \in ReadCounts : ReadStart(p, n)

Next ==
  \/ Isr
  \/ \E busy \in BOOLEAN : PollKey(busy)
  \/ Tick
  \/ \E p \in Procs : Call(p) \/ ProcStep(p) \/ Signal(p)

Spec == Init /\ [][Next]_vars

(* Time passes, expired timers run, the panel answers, and the scheduler   *)
(* runs a process that is ready to run.                                    *)
FairSpec ==
  /\ Spec
  /\ WF_vars(Tick) /\ WF_vars(\E busy \in BOOLEAN : PollKey(busy)) /\ WF_vars(Isr)
  /\ \A p \in Procs : WF_vars(ProcStep(p))

-----------------------------------------------------------------------------
(* Properties.                                                             *)

Using == {"open", "relock", "unlocked", "asleep", "copy"}

(* Every variable stays in its type.                                       *)
TypeOK ==
  /\ buffer \in [Slots -> Keys \union {NoKey}]
  /\ p_idx \in Slots /\ c_idx \in Slots
  /\ ref_cnt \in Nat /\ b_mode \in BOOLEAN
  /\ elapsed \in 0 .. WaitPeriod /\ oldkey \in Keys \union {NoKey}
  /\ timer \in Idle .. PollPeriod /\ reading \in BOOLEAN
  /\ pc \in [Procs -> Using \union {"closed", "opening", "killed", "releasing"}]
  /\ want \in [Procs -> Nat]
  /\ buf \in [Procs -> Seq(Keys \union {NoKey})]
  /\ wait \in [Procs -> Nat]

(* fip_open's check and its count together keep the device exclusive: the  *)
(* count is the number of processes between an open that passed the check  *)
(* and the start of their release, and that is at most one.                *)
Holders == {p \in Procs : pc[p] \in Using \union {"opening", "killed"}}
OneHolder ==
  /\ ref_cnt \in {0, 1}
  /\ Holders = {} <=> ref_cnt = 0
  /\ \A p, q \in Holders : p = q

(* The ring and fip_consume implement the bounded drop-oldest queue that   *)
(* is empty when an open ends; between the two stores of the flush the     *)
(* ring counts as empty.  So it is for a ring of BUF_SIZE (2) slots, the   *)
(* default: with more of them, which the buffer_size parameter allows, a   *)
(* key between the two stores moves the consumer index off 0 and brings    *)
(* old keys back, and FipKeys.cfg with BufferSize = 3 fails.               *)
Flushing == \E p \in Procs : pc[p] = "opening"
Q == INSTANCE KeyQueue WITH Capacity <- BufferSize - 1,
                            Entry <- Keys \union {NoKey}, Readers <- Procs,
                            users <- ref_cnt,
                            queue <- IF Flushing THEN <<>> ELSE Contents,
                            hand <- buf
ImplementsKeyQueue == Q!Spec

(* As long as a process has the device open its keys are polled: the timer *)
(* is armed or about to run (fip_open, fip_poll_key, fip_release).         *)
PolledWhileOpen == \A p \in Procs : pc[p] \in Using => timer # Idle

(* fipkernel.c:740 "Wait for timer expiration": when the loop of           *)
(* fip_release ends, the timer has run for the last time.                  *)
TimerExpiresDuringWait ==
  [][\A p \in Procs : ReleaseEnd(p) => timer = Idle]_vars

(* With the default ring of two slots a blocking read gets keys as long as *)
(* keys keep coming, in spite of the window between the emptiness test and *)
(* the sleep: the key that finds the ring full wakes the reader as well.   *)
ReaderGetsKeys ==
  \A p \in Procs :
    []<><<\E key \in Keys : PushKey(key)>>_vars =>
      (pc[p] = "relock" ~> pc[p] = "copy")

(* linux/timer.h:83 BUG_ON(timer_pending(timer)): fip_open never adds a    *)
(* timer that is still pending.                                            *)
NeverAddsPendingTimer == \A p \in Procs : pc[p] # "killed"
=============================================================================
