------------------------------- MODULE IdeDma -------------------------------
(***************************************************************************)
(* DMA requests of the two IDE drivers over the shared MBUS: the bus       *)
(* master IDE (drivers/ide/tangox/tangox-bmide.c, port "dvd") and the      *)
(* peripheral bus IDE (tangox-pbide.c, port "flash").  The two interfaces  *)
(* are not serialised by the IDE core: each starts its requests with       *)
(* interrupts enabled and may be preempted between two steps.              *)
(***************************************************************************)
EXTENDS Mbus

CONSTANTS MaxSegs,     \* segments of a request of the bus master driver
          Cdrom        \* the bus master drive is a CD, with an expiry routine

ASSUME IdeAssumption ==
  /\ Ifaces \subseteq {"dvd", "flash"}
  /\ MaxSegs \in Nat \ {0} /\ Cdrom \in BOOLEAN

VARIABLES
  pc,          \* port -> where its request is
  ch,          \* port -> channel of the request
  segs,        \* port -> scatter list entries (one for the flash driver)
  next_sg,     \* port -> g_next_sg
  moved,       \* port -> segments the drive has moved
  using_dma    \* port -> drive->using_dma

drive == <<pc, ch, segs, next_sg, moved, using_dma>>
vars  == <<mbus, drive>>

Init ==
  /\ MbusInit
  /\ pc = [i \in Ifaces |-> "idle"]
  /\ ch = [i \in Ifaces |-> "W0"]
  /\ segs = [i \in Ifaces |-> 0]
  /\ next_sg = [i \in Ifaces |-> 0]
  /\ moved = [i \in Ifaces |-> 0]
  /\ using_dma = [i \in Ifaces |-> TRUE]

Goto(i, label) == pc' = [pc EXCEPT ![i] = label]
Freed(i) == IF i = "flash" THEN Channels ELSE {ch[i]}

-----------------------------------------------------------------------------
(* tangox_dma_setup and tangox_pbide_rwdma.                                *)

(* The IDE core enables interrupts before it starts a request, and there   *)
(* is one processor: a pending MBUS interrupt is served before the next    *)
(* step of a request.                                                      *)
Runs(i, label) == pc[i] = label /\ \A c \in Channels : ~irq[c]

(* The flash driver turns down a request of more than two segments and     *)
(* moves the others in one transfer.                                       *)
Begin(i, n) ==
  /\ Runs(i, "idle") /\ using_dma[i]
  /\ i = "flash" => n = 1
  /\ segs' = [segs EXCEPT ![i] = n]
  /\ Goto(i, "alloc")
  /\ UNCHANGED <<mbus, ch, next_sg, moved, using_dma>>

(* em86xx_mbus_alloc_dma on a route that is this port's or in use: in both *)
(* cases sbox_connect returns without a change, and its result, 0 or 1, is *)
(* never the negative value the caller tests for.  The channel of the      *)
(* request's direction becomes g_mbus_reg.                                 *)
AllocNoChange(i, c) ==
  /\ Runs(i, "alloc")
  /\ Connected(i) \/ RouteInUse(i)
  /\ ch' = [ch EXCEPT ![i] = c]
  /\ Goto(i, "setup")
  /\ UNCHANGED <<mbus, segs, next_sg, moved, using_dma>>

(* A free route: tested first, then taken with interrupts off.             *)
AllocFree(i) ==
  /\ Runs(i, "alloc")
  /\ ~Connected(i) /\ ~RouteInUse(i)
  /\ Goto(i, "connect")
  /\ UNCHANGED <<mbus, ch, segs, next_sg, moved, using_dma>>

AllocConnect(i, c) ==
  /\ Runs(i, "connect")
  /\ Connect(i)
  /\ ch' = [ch EXCEPT ![i] = c]
  /\ Goto(i, "setup")
  /\ UNCHANGED <<segs, next_sg, moved, using_dma>>

(* Mutant: the fallback to PIO keeps the channel.                          *)
SetupRefused_KeepsDma(i) ==
  /\ Runs(i, "setup") /\ InUse(ch[i])
  /\ next_sg' = [next_sg EXCEPT ![i] = 1]
  /\ moved' = [moved EXCEPT ![i] = 0]
  /\ Goto(i, IF i = "dvd" THEN "idle" ELSE "transfer")
  /\ UNCHANGED <<mbus, ch, segs, using_dma>>

(* The channel is busy: the bus master driver frees it and falls back to   *)
(* PIO; the flash driver does not look at the result and goes on.          *)
SetupRefused(i) ==
  /\ Runs(i, "setup") /\ InUse(ch[i])
  /\ next_sg' = [next_sg EXCEPT ![i] = 1]
  /\ moved' = [moved EXCEPT ![i] = 0]
  /\ IF i = "dvd"
     THEN FreeDma(i, {ch[i]}) /\ Goto(i, "idle") /\ UNCHANGED <<cmd, irq>>
     ELSE Goto(i, "transfer") /\ UNCHANGED mbus
  /\ UNCHANGED <<ch, segs, using_dma>>

(* The flash driver programs a transfer of two segments without a test.    *)
SetupAccepted(i) ==
  /\ Runs(i, "setup")
  /\ ~InUse(ch[i]) \/ i = "flash"
  /\ next_sg' = [next_sg EXCEPT ![i] = 1]
  /\ Goto(i, "program")
  /\ UNCHANGED <<mbus, ch, segs, moved, using_dma>>

(* The first segment, and the handler that feeds the others.               *)
Program(i) ==
  /\ Runs(i, "program")
  /\ StartTransfer(ch[i], IF segs[i] = 1 THEN None ELSE i)
  /\ moved' = [moved EXCEPT ![i] = 0]
  /\ Goto(i, "transfer")
  /\ UNCHANGED <<w0, linked, irq, ch, segs, next_sg, using_dma>>

-----------------------------------------------------------------------------
(* The hardware: the drive on the route moves a segment over the channel,  *)
(* then the channel's FIFO drains and its interrupt is raised.             *)

DriveMoves(i) ==
  /\ w0 = i /\ pc[i] = "transfer" /\ cmd[ch[i]] = "run"
  /\ moved[i] < segs[i]
  /\ moved' = [moved EXCEPT ![i] = moved[i] + 1]
  /\ cmd' = [cmd EXCEPT ![ch[i]] = "drain"]
  /\ UNCHANGED <<w0, linked, handler, irq, pc, ch, segs, next_sg, using_dma>>

ChannelDone(c) ==
  /\ cmd[c] = "drain"
  /\ cmd' = [cmd EXCEPT ![c] = "off"]
  /\ irq' = [irq EXCEPT ![c] = TRUE]
  /\ UNCHANGED <<w0, linked, handler, drive>>

-----------------------------------------------------------------------------
(* mbus_intr: a handler is called once.                                    *)

NoHandler(c) ==
  /\ irq[c] /\ handler[c] = None
  /\ irq' = [irq EXCEPT ![c] = FALSE]
  /\ UNCHANGED <<w0, linked, handler, cmd, drive>>

(* tangox_mbus_intr for a drive that no longer uses DMA: nothing but a     *)
(* message.                                                                *)
LateHandler(c) ==
  /\ irq[c] /\ handler[c] # None
  /\ ~using_dma[handler[c]]
  /\ irq' = [irq EXCEPT ![c] = FALSE]
  /\ handler' = [handler EXCEPT ![c] = None]
  /\ UNCHANGED <<w0, linked, cmd, drive>>

(* tangox_mbus_intr from the interrupt of channel c, when the segment      *)
(* after it is number next: wait for g_mbus_reg, without a look at the     *)
(* result, and program the segment; the last one needs no handler.  A      *)
(* channel that is still busy after the reset refuses it.                  *)
Feed(c, next, outcome) ==
  LET i == handler[c]
      k == ch[i]
      keep == [handler EXCEPT ![c] = None]
  IN
  /\ irq[c] /\ i # None /\ using_dma[i]
  /\ outcome \in WaitOutcomes /\ (outcome = "done") <=> ~InUse(k)
  /\ irq' = [irq EXCEPT ![c] = FALSE]
  /\ next_sg' = [next_sg EXCEPT ![i] = next]
  /\ IF outcome = "stuck"
     THEN handler' = keep /\ UNCHANGED cmd
     ELSE /\ handler' = IF next = segs[i] THEN keep ELSE [keep EXCEPT ![k] = i]
          /\ cmd' = [cmd EXCEPT ![k] = "run"]
  /\ UNCHANGED <<w0, linked, pc, ch, segs, moved, using_dma>>

(* Mutant: mbus_intr clears the handler after the call.                    *)
Refeed_ClearsAfterCall(c, outcome) ==
  LET i == handler[c] IN
  /\ irq[c] /\ i # None /\ using_dma[i] /\ ~InUse(ch[i]) /\ outcome = "done"
  /\ irq' = [irq EXCEPT ![c] = FALSE]
  /\ next_sg' = [next_sg EXCEPT ![i] = next_sg[i] + 1]
  /\ handler' = [handler EXCEPT ![c] = None]
  /\ cmd' = [cmd EXCEPT ![ch[i]] = "run"]
  /\ UNCHANGED <<w0, linked, pc, ch, segs, moved, using_dma>>

(* Mutant: the segment index is not advanced.                              *)
Refeed_SameSegment(c, outcome) ==
  handler[c] # None /\ Feed(c, next_sg[handler[c]], outcome)

(* Mutant: the segment index is advanced twice.                            *)
Refeed_SkipsSegment(c, outcome) ==
  handler[c] # None /\ Feed(c, next_sg[handler[c]] + 2, outcome)

(* g_next_sg is read, then advanced by one.                                *)
Refeed(c, outcome) ==
  handler[c] # None /\ Feed(c, next_sg[handler[c]] + 1, outcome)

-----------------------------------------------------------------------------
(* tangox_bmide_dma_end and tangox_pbide_dma_end_io.                       *)

(* The flash driver chooses the channel to wait for by comparing rq->cmd,  *)
(* an array, with READ, which is 0: it waits for R0 whatever the request.  *)
WaitChannel(i) == IF i = "flash" THEN "R0" ELSE ch[i]

DmaEnd(i, outcome) ==
  /\ MbusWait(i, WaitChannel(i), outcome)
  /\ FreeDma(i, Freed(i))
  /\ Goto(i, "idle")
  /\ UNCHANGED <<irq, ch, segs, next_sg, moved>>

(* The drive's interrupt: it has moved all data.                           *)
DriveIntr(i, outcome) ==
  /\ pc[i] = "transfer" /\ moved[i] = segs[i]
  /\ DmaEnd(i, outcome)
  /\ UNCHANGED using_dma

(* A drive may also interrupt with an error in the middle of a transfer:   *)
(* tangox_dma_intr ends the DMA before it looks at the status, and the IDE *)
(* core may try the request again.                                         *)
DriveError(i, outcome) ==
  /\ pc[i] = "transfer" /\ moved[i] < segs[i]
  /\ DmaEnd(i, outcome)
  /\ UNCHANGED using_dma

(* The IDE timer expires.  Without an expiry routine, or when it does not  *)
(* ask for a retry, the DMA is ended; a CD's request is retried in PIO     *)
(* after dma_timeout, which does nothing here.                             *)
TimeoutError(i, outcome) ==
  /\ pc[i] = "transfer" /\ moved[i] < segs[i]
  /\ ~(Cdrom /\ i = "dvd")
  /\ DmaEnd(i, outcome)
  /\ using_dma' = [using_dma EXCEPT ![i] = FALSE]

TimeoutRetry(i) ==
  /\ pc[i] = "transfer" /\ moved[i] < segs[i]
  /\ Cdrom /\ i = "dvd"
  /\ using_dma' = [using_dma EXCEPT ![i] = FALSE]
  /\ Goto(i, "idle")
  /\ UNCHANGED <<mbus, ch, segs, next_sg, moved>>

(* The retry in PIO ends and DMA is enabled again.  A request in PIO takes *)
(* longer than a FIFO needs to drain and its interrupt to be served.       *)
PioDone(i) ==
  /\ Runs(i, "idle") /\ ~using_dma[i]
  /\ \A c \in Channels : cmd[c] # "drain"
  /\ using_dma' = [using_dma EXCEPT ![i] = TRUE]
  /\ UNCHANGED <<mbus, pc, ch, segs, next_sg, moved>>

-----------------------------------------------------------------------------
Request(i) ==
  \/ AllocFree(i) \/ \E c \in Channels : AllocNoChange(i, c) \/ AllocConnect(i, c)
  \/ SetupRefused(i) \/ SetupAccepted(i) \/ Program(i)

Interrupts ==
  \/ \E c \in Channels :
       NoHandler(c) \/ LateHandler(c) \/ \E o \in WaitOutcomes : Refeed(c, o)
  \/ \E i \in Ifaces, o \in WaitOutcomes : DriveIntr(i, o)

Hardware ==
  \/ \E i \in Ifaces : DriveMoves(i)
  \/ \E c \in Channels : ChannelDone(c)

Next ==
  \/ \E i \in Ifaces, n \in 1 .. MaxSegs : Begin(i, n)
  \/ \E i \in Ifaces : Request(i)
  \/ Hardware \/ Interrupts
  \/ \E i \in Ifaces, o \in WaitOutcomes : DriveError(i, o) \/ TimeoutError(i, o)
  \/ \E i \in Ifaces : TimeoutRetry(i) \/ PioDone(i)

Spec == Init /\ [][Next]_vars

(* The processor runs a started request, the drive and the channels work,  *)
(* and pending interrupts are served; errors and timeouts need not happen. *)
FairSpec ==
  /\ Spec
  /\ \A i \in Ifaces : WF_vars(Request(i))
  /\ WF_vars(Hardware) /\ WF_vars(Interrupts)

-----------------------------------------------------------------------------
(* Properties.                                                             *)

(* Every variable stays in its type.                                       *)
TypeOK ==
  /\ w0 \in Ifaces \union {None} /\ linked \in [Ifaces -> BOOLEAN]
  /\ handler \in [Channels -> Ifaces \union {None}]
  /\ cmd \in [Channels -> {"off", "run", "drain"}] /\ irq \in [Channels -> BOOLEAN]
  /\ pc \in [Ifaces -> {"idle", "alloc", "connect", "setup", "program", "transfer"}]
  /\ ch \in [Ifaces -> Channels]
  /\ segs \in [Ifaces -> 0 .. MaxSegs] /\ moved \in [Ifaces -> 0 .. MaxSegs]
  /\ next_sg \in [Ifaces -> 0 .. MaxSegs]
  /\ using_dma \in [Ifaces -> BOOLEAN]

(* A drive without a request under way holds nothing of the switchbox, and *)
(* the route never leads to a port that is not linked, whatever the other  *)
(* driver did and however the request ended (em86xx_mbus_free_dma).        *)
NothingHeldWhenIdle ==
  /\ \A i \in Ifaces : pc[i] = "idle" => ~linked[i] /\ w0 # i
  /\ w0 # None => linked[w0]

(* Without a CD a registered handler belongs to a request in transfer on   *)
(* its channel, with a segment left to feed, whatever the other driver     *)
(* did: an interrupt that comes late never feeds the segment of a request  *)
(* that has ended (tangox-bmide.c "bug: tangox_mbus_intr called while      *)
(* using_dma == 0").                                                       *)
HandlerInTransfer ==
  \A c \in Channels, i \in Ifaces : handler[c] = i =>
    pc[i] = "transfer" /\ ch[i] = c /\ next_sg[i] < segs[i]

(* tangox_mbus_intr feeds the segments in order and none twice: the one in *)
(* the channel is the one after those the drive has moved.                 *)
SegmentsInOrder ==
  \A i \in Ifaces : pc[i] = "transfer" /\ handler[ch[i]] # None =>
    /\ next_sg[i] < segs[i]
    /\ cmd[ch[i]] = "run" => moved[i] = next_sg[i] - 1
    /\ irq[ch[i]] => moved[i] = next_sg[i]

(* A request that reached the channel ends, without the help of a timeout: *)
(* every segment's interrupt finds the handler that feeds the next one.    *)
RequestEnds == \A i \in Ifaces : pc[i] = "transfer" ~> pc[i] = "idle"

(* What the comments claim and two drivers break; no configuration checks  *)
(* these three, and with any of them IdePair.cfg fails.                    *)

(* mbus.c:282 "use this after a sucessfull call to em86xx_mbus_alloc_dma": *)
(* a driver that goes on after alloc_dma has the route.  It may be the     *)
(* other driver's: the result 1 of sbox_connect counts as success.         *)
AllocMeansConnected ==
  [][\A i \in Ifaces : pc[i] = "alloc" /\ pc'[i] = "setup" => Connected(i)]_vars

(* mbus.c:147 "need to be called after transfer is done to release         *)
(* switchbox": a running transfer has its route.  The other driver's       *)
(* sbox_disconnect takes the route down, whoever set it, and a driver that *)
(* found the route in use has started its transfer without it.             *)
TransferKeepsRoute ==
  \A i \in Ifaces : pc[i] = "transfer" /\ cmd[ch[i]] = "run" => Connected(i)

(* mbus.c:294 "make sure no one uses the mbus before": a channel is        *)
(* programmed only while it is idle.  The test and the command are not one *)
(* step, and the flash driver goes on after the test failed.               *)
ProgramsIdleChannel == [][\A i \in Ifaces : Program(i) => ~InUse(ch[i])]_vars
=============================================================================
