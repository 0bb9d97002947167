-------------------------------- MODULE Enet --------------------------------
(***************************************************************************)
(* The Ethernet driver (drivers/net/tango2_enet.c): two rings of           *)
(* descriptors shared with the DMA engine of the MAC, the NAPI poll of the *)
(* receive side, reclaiming of sent buffers from a timer and a tasklet,    *)
(* and open and stop.                                                      *)
(*                                                                         *)
(* One processor.  The hardware runs at any time.  The interrupt handler   *)
(* runs on top of everything but itself.  Soft interrupts (poll, tasklet,  *)
(* timers) and enet_xmit, which is called with them disabled, exclude each *)
(* other; enet_open and enet_stop are in a process that any of them        *)
(* interrupts.  Poll and handler are split where the other matters.        *)
(***************************************************************************)
EXTENDS Integers, Sequences, KeyRing

CONSTANTS
  TxCount,   \* ENET_TX_DESC_COUNT
  TxLow,     \* ENET_TX_DESC_LOW
  RxCount,   \* ENET_RX_DESC_COUNT
  Weight,    \* dev->weight, the most frames of one poll
  Frames,
  None       \* NULL

ASSUME EnetAssumption ==
  /\ TxCount \in Nat \ {0} /\ RxCount \in Nat \ {0} /\ Weight \in Nat \ {0}
  /\ TxLow \in 1 .. TxCount
  /\ None \notin Frames

VARIABLES
  tx_own,      \* descriptor -> tdes0 & TDES0_OWN
  tx_isr,      \* descriptor -> tdes1 & TDES1_ENABLE_ISR
  tx_skbs, next_tx_desc, dirty_tx_desc, free_tx_desc_count,
  tx_dma,      \* the descriptor the transmit engine looks at
  tx_run,      \* the engine is running, not suspended or stopped
  stopped,     \* netif_queue_stopped
  tasklet,     \* tx_reclaim_tasklet is scheduled
  rx_own,      \* descriptor -> rdes0 & RDES0_OWN
  rx_frame,    \* descriptor -> frame the engine has put into its buffer
  rx_skbs,     \* descriptor -> the driver has a buffer for it
  last_rx_desc,
  rx_dma,      \* the descriptor the receive engine fills next
  sr, ier,     \* ENET_DMA_SR and ENET_DMA_IER, as sets of "R" and "T"
  rx_sched,    \* __LINK_STATE_RX_SCHED: on the poll list
  softirq,     \* where enet_poll is, "none" when it is not running
  limit,       \* of enet_poll
  val,         \* status the handler has read, {} when it is not running
  dev          \* where open and close of the interface are

txring  == <<tx_own, tx_isr, tx_skbs, next_tx_desc, dirty_tx_desc, free_tx_desc_count>>
txstate == <<txring, tx_dma, tx_run, stopped>>
rxring  == <<rx_own, rx_frame, rx_skbs, last_rx_desc>>
irq     == <<sr, ier, val>>
poll    == <<rx_sched, softirq, limit>>
vars    == <<txstate, tasklet, rxring, rx_dma, irq, poll, dev>>

TxSlots == 0 .. TxCount - 1
RxSlots == 0 .. RxCount - 1

(* Nothing runs that a soft interrupt or a process would have to wait for. *)
Quiet == softirq = "none" /\ val = {}

(* netif_running: from the start of dev_open to the start of dev_close.    *)
Running == dev \in {"opening", "up"}

(* enet_start_dma has been called, enet_stop_dma not yet.                  *)
DmaOn == dev # "down"

Init ==
  /\ tx_own = [i \in TxSlots |-> FALSE] /\ tx_isr = [i \in TxSlots |-> FALSE]
  /\ tx_skbs = [i \in TxSlots |-> None]
  /\ next_tx_desc = 0 /\ dirty_tx_desc = 0 /\ free_tx_desc_count = TxCount
  /\ tx_dma = 0 /\ tx_run = FALSE /\ stopped = FALSE /\ tasklet = FALSE
  /\ rx_own = [i \in RxSlots |-> TRUE] /\ rx_frame = [i \in RxSlots |-> None]
  /\ rx_skbs = [i \in RxSlots |-> TRUE]
  /\ last_rx_desc = 0 /\ rx_dma = 0
  /\ sr = {} /\ ier = {} /\ val = {}
  /\ rx_sched = FALSE /\ softirq = "none" /\ limit = 0
  /\ dev = "down"

-----------------------------------------------------------------------------
(* The hardware.                                                           *)

(* A frame is received into the next descriptor; without one it is lost.   *)
RxFrame(f) ==
  /\ DmaOn /\ rx_own[rx_dma]
  /\ rx_own' = [rx_own EXCEPT ![rx_dma] = FALSE]
  /\ rx_frame' = [rx_frame EXCEPT ![rx_dma] = f]
  /\ rx_dma' = Succ(RxCount, rx_dma)
  /\ sr' = sr \union {"R"}
  /\ UNCHANGED <<txstate, tasklet, rx_skbs, last_rx_desc, ier, val, poll, dev>>

(* A frame has been sent.                                                  *)
TxDone ==
  /\ tx_run /\ tx_own[tx_dma]
  /\ tx_own' = [tx_own EXCEPT ![tx_dma] = FALSE]
  /\ tx_dma' = Succ(TxCount, tx_dma)
  /\ sr' = IF tx_isr[tx_dma] THEN sr \union {"T"} ELSE sr
  /\ tx_isr' = [tx_isr EXCEPT ![tx_dma] = FALSE]    \* matters only while owned
  /\ UNCHANGED <<tx_skbs, next_tx_desc, dirty_tx_desc, free_tx_desc_count,
                 tx_run, stopped, tasklet, rxring, rx_dma, ier, val, poll, dev>>

(* The transmit engine meets a descriptor it does not own.                 *)
TxSuspend ==
  /\ tx_run /\ ~tx_own[tx_dma]
  /\ tx_run' = FALSE
  /\ UNCHANGED <<txring, tx_dma, stopped, tasklet, rxring, rx_dma, irq, poll, dev>>

-----------------------------------------------------------------------------
(* enet_isr: reads the status, acknowledges all of it, and schedules what  *)
(* it asks for.  Frames may arrive between the two.                        *)
IsrRead ==
  /\ val = {} /\ sr \intersect ier # {}
  /\ val' = sr
  /\ UNCHANGED <<txstate, tasklet, rxring, rx_dma, sr, ier, poll, dev>>

(* netif_rx_schedule_prep                                                  *)
SchedulePrep == Running /\ ~rx_sched

IsrHandle ==
  /\ val # {} /\ val' = {}
  /\ tasklet' = (tasklet \/ "T" \in val)
  /\ LET schedule == "R" \in val /\ SchedulePrep IN
       /\ rx_sched' = (rx_sched \/ schedule)
       /\ ier' = IF schedule THEN ier \ {"R"} ELSE ier
       /\ sr' = sr \ (val \union IF schedule THEN {"R"} ELSE {})
  /\ UNCHANGED <<txstate, rxring, rx_dma, softirq, limit, dev>>

-----------------------------------------------------------------------------
(* enet_poll, called by net_rx_action for a device on the poll list, with  *)
(* what is left of its quota and of the budget.                            *)
PollStart(n) ==
  /\ Quiet /\ rx_sched
  /\ softirq' = "poll" /\ limit' = n
  /\ UNCHANGED <<txstate, tasklet, rxring, rx_dma, irq, rx_sched, dev>>

InPoll == softirq = "poll" /\ val = {}
HaveFrame == ~rx_own[last_rx_desc] /\ limit > 0

(* rearm: the descriptor goes back to the engine.                          *)
Rearm ==
  /\ rx_own' = [rx_own EXCEPT ![last_rx_desc] = TRUE]
  /\ rx_frame' = [rx_frame EXCEPT ![last_rx_desc] = None]
  /\ last_rx_desc' = Succ(RxCount, last_rx_desc)

(* A frame with errors is counted and its buffer used again.               *)
PollBadFrame ==
  /\ InPoll /\ HaveFrame /\ rx_skbs[last_rx_desc]
  /\ limit' = limit - 1
  /\ Rearm
  /\ UNCHANGED <<txstate, tasklet, rx_skbs, rx_dma, irq, rx_sched, softirq, dev>>

(* A good frame goes up the stack, or the slot has had no buffer since an  *)
(* earlier failure; either way a new buffer is allocated.                  *)
PollFrame ==
  /\ InPoll /\ HaveFrame
  /\ limit' = limit - 1
  /\ rx_skbs' = [rx_skbs EXCEPT ![last_rx_desc] = TRUE]
  /\ Rearm
  /\ UNCHANGED <<txstate, tasklet, rx_dma, irq, rx_sched, softirq, dev>>

(* The same, and dev_alloc_skb fails: the loop ends at this descriptor.    *)
PollNoMemory ==
  /\ InPoll /\ HaveFrame
  /\ limit' = limit - 1
  /\ rx_skbs' = [rx_skbs EXCEPT ![last_rx_desc] = FALSE]
  /\ rx_frame' = [rx_frame EXCEPT ![last_rx_desc] = None]
  /\ softirq' = "polled"
  /\ UNCHANGED <<txstate, tasklet, rx_own, last_rx_desc, rx_dma, irq, rx_sched, dev>>

PollBreak ==
  /\ InPoll /\ ~HaveFrame
  /\ softirq' = "polled"
  /\ UNCHANGED <<txstate, tasklet, rxring, rx_dma, irq, rx_sched, limit, dev>>

(* Mutant: a poll that has used up its limit leaves the list.              *)
PollMore_LeavesList ==
  /\ softirq = "polled" /\ val = {}
  /\ limit <= 0
  /\ softirq' = "completed"
  /\ rx_sched' = FALSE
  /\ UNCHANGED <<txstate, tasklet, rxring, rx_dma, irq, limit, dev>>

(* The end of enet_poll: a used up limit leaves the device on the list,    *)
(* otherwise netif_rx_complete and enet_enable_interrupts follow.          *)
PollMore ==
  /\ softirq = "polled" /\ val = {}
  /\ limit <= 0
  /\ softirq' = "none"
  /\ UNCHANGED <<txstate, tasklet, rxring, rx_dma, irq, rx_sched, limit, dev>>

PollComplete ==
  /\ softirq = "polled" /\ val = {}
  /\ limit > 0
  /\ rx_sched' = FALSE
  /\ softirq' = "completed"
  /\ UNCHANGED <<txstate, tasklet, rxring, rx_dma, irq, limit, dev>>

(* Mutant: the receive interrupt is not enabled again.                     *)
PollEnable_Forgets ==
  /\ softirq = "completed" /\ val = {}
  /\ softirq' = "none"
  /\ limit' = 0
  /\ UNCHANGED <<txstate, tasklet, rxring, rx_dma, irq, rx_sched, dev>>

PollEnable ==
  /\ softirq = "completed" /\ val = {}
  /\ ier' = ier \union {"R"}
  /\ softirq' = "none"
  /\ limit' = 0
  /\ UNCHANGED <<txstate, tasklet, rxring, rx_dma, sr, val, rx_sched, dev>>

-----------------------------------------------------------------------------
(* The transmit side.                                                      *)

TxUsed == TxCount - free_tx_desc_count
TxSlot(k) == SlotOf(TxCount, dirty_tx_desc, k)

(* Mutant: the queue is not stopped when the last descriptor is used.      *)
Xmit_NeverStops(f) ==
  /\ Quiet /\ dev = "up" /\ ~stopped
  /\ tx_skbs' = [tx_skbs EXCEPT ![next_tx_desc] = f]
  /\ tx_isr' = [tx_isr EXCEPT ![next_tx_desc] = (free_tx_desc_count = TxLow)]
  /\ tx_own' = [tx_own EXCEPT ![next_tx_desc] = TRUE]
  /\ next_tx_desc' = Succ(TxCount, next_tx_desc)
  /\ free_tx_desc_count' = free_tx_desc_count - 1
  /\ tx_run' = TRUE
  /\ UNCHANGED <<stopped, dirty_tx_desc, tx_dma, tasklet, rxring, rx_dma, irq, poll, dev>>

(* Mutant: the transmit engine is not kicked.                              *)
Xmit_NoKick(f) ==
  /\ Quiet /\ dev = "up" /\ ~stopped
  /\ tx_skbs' = [tx_skbs EXCEPT ![next_tx_desc] = f]
  /\ tx_isr' = [tx_isr EXCEPT ![next_tx_desc] = (free_tx_desc_count = TxLow)]
  /\ tx_own' = [tx_own EXCEPT ![next_tx_desc] = TRUE]
  /\ next_tx_desc' = Succ(TxCount, next_tx_desc)
  /\ free_tx_desc_count' = free_tx_desc_count - 1
  /\ stopped' = (free_tx_desc_count = 1)
  /\ UNCHANGED <<tx_run, dirty_tx_desc, tx_dma, tasklet, rxring, rx_dma, irq, poll, dev>>

(* enet_xmit.  Without a free descriptor the frame is dropped and the      *)
(* queue stopped; otherwise the descriptor is filled, given to the engine, *)
(* and the engine is kicked.                                               *)
Xmit(f) ==
  /\ Quiet /\ dev = "up" /\ ~stopped
  /\ IF free_tx_desc_count = 0
       THEN /\ stopped' = TRUE
            /\ UNCHANGED <<txring, tx_run>>
       ELSE /\ tx_skbs' = [tx_skbs EXCEPT ![next_tx_desc] = f]
            /\ tx_isr' = [tx_isr EXCEPT ![next_tx_desc] = (free_tx_desc_count = TxLow)]
            /\ tx_own' = [tx_own EXCEPT ![next_tx_desc] = TRUE]
            /\ tx_run' = TRUE
            /\ next_tx_desc' = Succ(TxCount, next_tx_desc)
            /\ free_tx_desc_count' = free_tx_desc_count - 1
            /\ stopped' = (free_tx_desc_count = 1)
            /\ UNCHANGED dirty_tx_desc
  /\ UNCHANGED <<tx_dma, tasklet, rxring, rx_dma, irq, poll, dev>>

(* Mutant: the reclaim stops one descriptor too late.                      *)
DonePrefix_OneMore(n) ==
  /\ \A k \in 1 .. n - 1 : ~tx_own[TxSlot(k)]
  /\ n < TxUsed => n > 0 /\ tx_own[TxSlot(n)]

(* The first n used descriptors are done and the next one is not.          *)
DonePrefix(n) ==
  /\ \A k \in 1 .. n : ~tx_own[TxSlot(k)]
  /\ n < TxUsed => tx_own[TxSlot(n + 1)]

(* Mutant: the queue is not woken.                                         *)
TxReclaim_NoWake ==
  /\ \E n \in 0 .. TxUsed :
       /\ DonePrefix(n)
       /\ tx_skbs' = [i \in TxSlots |->
                        IF \E k \in 1 .. n : i = TxSlot(k) THEN None ELSE tx_skbs[i]]
       /\ dirty_tx_desc' = TxSlot(n + 1)
       /\ free_tx_desc_count' = free_tx_desc_count + n
  /\ UNCHANGED <<stopped, tx_own, tx_isr, next_tx_desc, tx_dma, tx_run, rxring, rx_dma, irq, poll, dev>>

(* enet_tx_reclaim: frees the buffers of the descriptors that are done and *)
(* lets the queue go on.                                                   *)
TxReclaim ==
  /\ \E n \in 0 .. TxUsed :
       /\ DonePrefix(n)
       /\ tx_skbs' = [i \in TxSlots |->
                        IF \E k \in 1 .. n : i = TxSlot(k) THEN None ELSE tx_skbs[i]]
       /\ dirty_tx_desc' = TxSlot(n + 1)
       /\ free_tx_desc_count' = free_tx_desc_count + n
  /\ stopped' = (stopped /\ free_tx_desc_count' = 0)
  /\ UNCHANGED <<tx_own, tx_isr, next_tx_desc, tx_dma, tx_run, rxring, rx_dma, irq, poll, dev>>

ReclaimTasklet ==
  /\ Quiet /\ tasklet
  /\ tasklet' = FALSE
  /\ TxReclaim

(* enet_tx_reclaim_timer adds itself again, from open to the end of stop.  *)
TimerArmed == dev \in {"up", "closing", "draining"}

ReclaimTimer ==
  /\ Quiet /\ TimerArmed
  /\ UNCHANGED tasklet
  /\ TxReclaim

(* enet_link_check found another duplex: both engines are stopped and      *)
(* started again where they were.                                          *)
LinkReconfigure ==
  /\ Quiet /\ dev \in {"up", "closing"}
  /\ tx_run' = TRUE
  /\ UNCHANGED <<txring, tx_dma, stopped, tasklet, rxring, rx_dma, irq, poll, dev>>

-----------------------------------------------------------------------------
(* dev_open and enet_open.  The engines run before the status is cleared.  *)
OpenStart ==
  /\ Quiet /\ dev = "down"
  /\ dev' = "opening"
  /\ tx_run' = TRUE
  /\ UNCHANGED <<txring, tx_dma, stopped, tasklet, rxring, rx_dma, irq, poll>>

OpenEnd ==
  /\ Quiet /\ dev = "opening"
  /\ sr' = {} /\ ier' = {"R", "T"}
  /\ stopped' = FALSE
  /\ dev' = "up"
  /\ UNCHANGED <<txring, tx_dma, tx_run, tasklet, rxring, rx_dma, val, poll>>

(* dev_close: no more frames from the stack, no new poll; it waits for the *)
(* poll that may be scheduled before it calls enet_stop.                   *)
CloseStart ==
  /\ Quiet /\ dev = "up"
  /\ dev' = "closing"
  /\ UNCHANGED <<txstate, tasklet, rxring, rx_dma, irq, poll>>

StopStart ==
  /\ Quiet /\ dev = "closing" /\ ~rx_sched
  /\ stopped' = TRUE
  /\ dev' = "draining"
  /\ UNCHANGED <<txring, tx_dma, tx_run, tasklet, rxring, rx_dma, irq, poll>>

(* Mutant: the driver's receive position is not reset.                     *)
StopEnd_KeepsRxPosition ==
  /\ Quiet /\ dev = "draining" /\ free_tx_desc_count = TxCount
  /\ ier' = {}
  /\ rx_own' = [i \in RxSlots |-> TRUE] /\ rx_frame' = [i \in RxSlots |-> None]
  /\ rx_dma' = 0
  /\ tx_dma' = 0 /\ next_tx_desc' = 0 /\ dirty_tx_desc' = 0
  /\ tx_run' = FALSE
  /\ dev' = "down"
  /\ UNCHANGED <<tx_own, tx_isr, tx_skbs, free_tx_desc_count, stopped, tasklet,
                 rx_skbs, last_rx_desc, sr, val, poll>>

(* Mutant: the transmit indices are not reset with the engine.             *)
StopEnd_KeepsTxPosition ==
  /\ Quiet /\ dev = "draining" /\ free_tx_desc_count = TxCount
  /\ ier' = {}
  /\ rx_own' = [i \in RxSlots |-> TRUE] /\ rx_frame' = [i \in RxSlots |-> None]
  /\ last_rx_desc' = 0 /\ rx_dma' = 0
  /\ tx_dma' = 0
  /\ tx_run' = FALSE
  /\ dev' = "down"
  /\ UNCHANGED <<tx_own, tx_isr, tx_skbs, next_tx_desc, dirty_tx_desc, free_tx_desc_count,
                 stopped, tasklet, rx_skbs, sr, val, poll>>

(* The rest of enet_stop, once all sent buffers have been reclaimed: timer *)
(* and interrupts off, engines stopped and sent back to the first          *)
(* descriptor, all receive descriptors armed.                              *)
StopEnd ==
  /\ Quiet /\ dev = "draining" /\ free_tx_desc_count = TxCount
  /\ ier' = {}
  /\ rx_own' = [i \in RxSlots |-> TRUE] /\ rx_frame' = [i \in RxSlots |-> None]
  /\ last_rx_desc' = 0 /\ rx_dma' = 0
  /\ tx_dma' = 0 /\ next_tx_desc' = 0 /\ dirty_tx_desc' = 0
  /\ tx_run' = FALSE
  /\ dev' = "down"
  /\ UNCHANGED <<tx_own, tx_isr, tx_skbs, free_tx_desc_count, stopped, tasklet,
                 rx_skbs, sr, val, poll>>

-----------------------------------------------------------------------------
Hardware == (\E f \in Frames : RxFrame(f)) \/ TxDone \/ TxSuspend
Isr == IsrRead \/ IsrHandle
Poll ==
  \/ \E n \in 1 .. Weight : PollStart(n)
  \/ PollBadFrame \/ PollFrame \/ PollNoMemory \/ PollBreak
  \/ PollMore \/ PollComplete \/ PollEnable
Open == OpenStart \/ OpenEnd
Close == CloseStart \/ StopStart \/ StopEnd

Next ==
  \/ Hardware \/ Isr \/ Poll
  \/ (\E f \in Frames : Xmit(f)) \/ ReclaimTasklet \/ ReclaimTimer \/ LinkReconfigure
  \/ Open \/ Close

Spec == Init /\ [][Next]_vars

(* The transmit engine sends what it owns, interrupts are served, soft     *)
(* interrupts and the timer follow when they end, and a process that has   *)
(* begun to open or close the interface goes on when the processor is free *)
(* for it.                                                                 *)
FairSpec ==
  /\ Spec
  /\ WF_vars(TxDone) /\ WF_vars(Isr) /\ SF_vars(Poll) /\ SF_vars(ReclaimTimer)
  /\ SF_vars(OpenEnd) /\ SF_vars(StopStart) /\ SF_vars(StopEnd)

-----------------------------------------------------------------------------
(* Properties.                                                             *)

(* Every variable stays in its type.                                       *)
TypeOK ==
  /\ tx_own \in [TxSlots -> BOOLEAN] /\ tx_isr \in [TxSlots -> BOOLEAN]
  /\ tx_skbs \in [TxSlots -> Frames \union {None}]
  /\ next_tx_desc \in TxSlots /\ dirty_tx_desc \in TxSlots
  /\ free_tx_desc_count \in 0 .. TxCount
  /\ tx_dma \in TxSlots /\ tx_run \in BOOLEAN
  /\ stopped \in BOOLEAN /\ tasklet \in BOOLEAN
  /\ rx_own \in [RxSlots -> BOOLEAN] /\ rx_skbs \in [RxSlots -> BOOLEAN]
  /\ rx_frame \in [RxSlots -> Frames \union {None}]
  /\ last_rx_desc \in RxSlots /\ rx_dma \in RxSlots
  /\ sr \subseteq {"R", "T"} /\ ier \subseteq {"R", "T"} /\ val \subseteq {"R", "T"}
  /\ rx_sched \in BOOLEAN /\ softirq \in {"none", "poll", "polled", "completed"}
  /\ limit \in 0 .. Weight
  /\ dev \in {"down", "opening", "up", "closing", "draining"}

(* tango2_enet.c:312 "this should not happen since queue is stopped before *)
(* we run out of tx desc": the stack never calls enet_xmit without a free  *)
(* descriptor, whatever reclaim and the engine do in between.              *)
NeverOutOfDescriptors == dev = "up" /\ ~stopped => free_tx_desc_count > 0

(* Buffers are freed exactly when their descriptors are done: a used       *)
(* descriptor has its buffer, an unused one has none and is not the        *)
(* engine's, and the engine works on the first one it owns.                *)
TxWindow ==
  /\ next_tx_desc = TxSlot(TxUsed + 1)
  /\ \A k \in 1 .. TxUsed : tx_skbs[TxSlot(k)] # None
  /\ \A k \in TxUsed + 1 .. TxCount : tx_skbs[TxSlot(k)] = None /\ ~tx_own[TxSlot(k)]
  /\ \E n \in 0 .. TxUsed :
       /\ tx_dma = TxSlot(n + 1)
       /\ \A k \in 1 .. TxUsed : tx_own[TxSlot(k)] <=> k > n

(* The receiver is never deaf: while the interface is up, a poll is        *)
(* scheduled or the receive interrupt is on, whatever the handler and the  *)
(* end of enet_poll do to both.  (Both at once is possible: a transmit     *)
(* interrupt between netif_rx_complete and enet_enable_interrupts.)        *)
NeverDeaf == dev = "up" /\ softirq # "completed" => rx_sched \/ "R" \in ier

(* The transmit ring is a first-in first-out queue: frames are sent in the *)
(* order of enet_xmit, each once, and none is given up before it is sent,  *)
(* closing the interface included.                                         *)
OnWay == CHOOSE n \in 0 .. TxUsed : DonePrefix(n)
TxQueue == [k \in 1 .. TxUsed - OnWay |-> tx_skbs[TxSlot(OnWay + k)]]
Tx == INSTANCE FrameFifo WITH Capacity <- TxCount, up <- DmaOn, queue <- TxQueue
TxImplementsFifo == Tx!Spec /\ [][StopEnd => TxQueue = <<>>]_vars

(* The receive ring is a first-in first-out queue emptied by closing, for  *)
(* every interleaving of engine, handler and poll, failed allocations      *)
(* included: driver and engine never disagree about the next descriptor.   *)
(* The first t frames have been taken by a poll that found no memory, and  *)
(* their descriptor waits for a buffer.                                    *)
RxSlot(k) == SlotOf(RxCount, last_rx_desc, k)
RxDone == CHOOSE n \in 0 .. RxCount :
            /\ \A k \in 1 .. n : ~rx_own[RxSlot(k)]
            /\ n < RxCount => rx_own[RxSlot(n + 1)]
RxQueue == LET n == RxDone
               t == IF n > 0 /\ rx_frame[RxSlot(1)] = None THEN 1 ELSE 0
           IN  SubSeq([k \in 1 .. n |-> rx_frame[RxSlot(k)]], t + 1, n)
Rx == INSTANCE FrameFifo WITH Capacity <- RxCount, up <- DmaOn, queue <- RxQueue
RxImplementsFifo == Rx!Spec

(* A stopped queue is woken again while the interface is up.               *)
QueueWoken == dev = "up" /\ stopped ~> dev # "up" \/ ~stopped

(* A poll that is scheduled takes every frame in the ring, however often  *)
(* its limit interrupts it, unless allocations fail or it has just seen    *)
(* the ring empty.                                                         *)
ShortOfBuffer == \E i \in RxSlots : ~rx_skbs[i]
PolledFramesDelivered ==
  <>[]~ShortOfBuffer =>
    \A i \in RxSlots :
      rx_sched /\ softirq \in {"none", "poll"} /\ ~rx_own[i] ~> rx_own[i]

FramesArrive == []<><<\E f \in Frames : RxFrame(f)>>_vars

(* dev_close returns, unless a flood of frames or failing allocations keep *)
(* the poll going: the poll ends and the timer reclaims every buffer.      *)
CloseReturns ==
  ~FramesArrive /\ <>[]~ShortOfBuffer => (dev = "closing" ~> dev = "down")

(* Documentation/networking/NAPI_HOWTO.txt:544 "The good news: no events   *)
(* are ever lost": when the processor has nothing left to do for an        *)
(* interface that is up, no received frame waits in the ring.  Does not    *)
(* hold and no configuration checks it: with it, EnetFifo.cfg fails.       *)
NoRottingFrame ==
  dev = "up" /\ Quiet /\ ~rx_sched /\ sr \intersect ier = {} =>
    rx_own[last_rx_desc] \/ ~rx_skbs[last_rx_desc]
=============================================================================
