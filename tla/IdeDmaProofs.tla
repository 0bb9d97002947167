---------------------------- MODULE IdeDmaProofs ----------------------------
(***************************************************************************)
(* Proofs about the DMA requests of the IDE drivers (module IdeDma), for   *)
(* every number of segments.                                               *)
(***************************************************************************)
EXTENDS IdeDma, TLAPS

Labels == {"idle", "alloc", "connect", "setup", "program", "transfer"}
Commands == {"off", "run", "drain"}
Ports == Ifaces \union {None}
Counts == 0 .. MaxSegs

(* The type invariant with the index of the next segment left open: only   *)
(* tangox_mbus_intr can take it past the scatter list.                     *)
BaseOK ==
  /\ w0 \in Ports /\ linked \in [Ifaces -> BOOLEAN]
  /\ handler \in [Channels -> Ports]
  /\ cmd \in [Channels -> Commands] /\ irq \in [Channels -> BOOLEAN]
  /\ pc \in [Ifaces -> Labels] /\ ch \in [Ifaces -> Channels]
  /\ segs \in [Ifaces -> Counts] /\ moved \in [Ifaces -> Counts]
  /\ next_sg \in [Ifaces -> Nat]
  /\ using_dma \in [Ifaces -> BOOLEAN]

(* TypeOK is its base and a bound on the indices.                          *)
LEMMA TypeSplit == TypeOK <=> BaseOK /\ \A i \in Ifaces : next_sg[i] <= MaxSegs
<1>1. ASSUME TypeOK PROVE BaseOK /\ \A i \in Ifaces : next_sg[i] <= MaxSegs
  BY <1>1, IdeAssumption DEF TypeOK, BaseOK, Labels, Commands, Ports, Counts
<1>2. ASSUME BaseOK, \A i \in Ifaces : next_sg[i] <= MaxSegs PROVE TypeOK
  <2>1. next_sg \in [Ifaces -> 0 .. MaxSegs]
    BY <1>2, IdeAssumption DEF BaseOK
  <2> QED BY <1>2, <2>1 DEF TypeOK, BaseOK, Labels, Commands, Ports, Counts
<1> QED BY <1>1, <1>2

(* The initial state has its types.                                        *)
LEMMA BaseInit == Init => BaseOK
<1>1. 0 \in Counts /\ 0 \in Nat BY IdeAssumption DEF Counts
<1> QED BY <1>1 DEF Init, MbusInit, BaseOK, Ports, Labels, Commands, Channels

-----------------------------------------------------------------------------
(* Every step keeps the base, whoever shares the switchbox.                *)
LEMMA BaseStep == BaseOK /\ [Next]_vars => BaseOK'
<1> SUFFICES ASSUME BaseOK, [Next]_vars PROVE BaseOK'
  OBVIOUS
<1> USE DEF BaseOK, mbus, drive, Goto
<1>0. 0 \in Counts /\ 0 \in Nat /\ 1 \in Nat /\ \A n \in 1 .. MaxSegs : n \in Counts
  BY IdeAssumption DEF Counts
<1>l. /\ "idle" \in Labels /\ "alloc" \in Labels /\ "connect" \in Labels
      /\ "setup" \in Labels /\ "program" \in Labels /\ "transfer" \in Labels
  BY DEF Labels
<1>c. /\ "off" \in Commands /\ "run" \in Commands /\ "drain" \in Commands
      /\ None \in Ports /\ \A i \in Ifaces : i \in Ports
  BY DEF Commands, Ports
<1>1. ASSUME NEW i \in Ifaces, NEW n \in 1 .. MaxSegs, Begin(i, n) PROVE BaseOK'
  BY <1>0, <1>l, <1>1 DEF Begin
<1>2. ASSUME NEW i \in Ifaces, AllocFree(i) PROVE BaseOK'
  BY <1>l, <1>2 DEF AllocFree
<1>3. ASSUME NEW i \in Ifaces, NEW c \in Channels, AllocNoChange(i, c) PROVE BaseOK'
  BY <1>l, <1>3 DEF AllocNoChange
<1>4. ASSUME NEW i \in Ifaces, NEW c \in Channels, AllocConnect(i, c) PROVE BaseOK'
  BY <1>l, <1>c, <1>4 DEF AllocConnect, Connect
<1>5. ASSUME NEW i \in Ifaces, SetupRefused(i) PROVE BaseOK'
  <2>1. CASE i = "dvd"
    <3>1. FreeDma(i, {ch[i]}) /\ Goto(i, "idle") /\ UNCHANGED <<cmd, irq>>
      BY <1>5, <2>1 DEF SetupRefused
    <3>2. handler' \in [Channels -> Ports]
      BY <1>c, <3>1 DEF FreeDma
    <3>3. w0' \in Ports /\ linked' \in [Ifaces -> BOOLEAN]
      BY <1>c, <3>1 DEF FreeDma, Disconnect
    <3>4. next_sg' \in [Ifaces -> Nat] /\ moved' \in [Ifaces -> Counts]
      BY <1>0, <1>5 DEF SetupRefused
    <3> QED BY <1>l, <1>5, <3>1, <3>2, <3>3, <3>4 DEF SetupRefused
  <2>2. CASE i # "dvd"
    BY <1>0, <1>l, <1>5, <2>2 DEF SetupRefused
  <2> QED BY <2>1, <2>2
<1>6. ASSUME NEW i \in Ifaces, SetupAccepted(i) PROVE BaseOK'
  BY <1>0, <1>l, <1>6 DEF SetupAccepted
<1>7. ASSUME NEW i \in Ifaces, Program(i) PROVE BaseOK'
  BY <1>0, <1>l, <1>c, <1>7 DEF Program, StartTransfer
<1>8. ASSUME NEW i \in Ifaces, DriveMoves(i) PROVE BaseOK'
  <2>1. moved[i] + 1 \in Counts
    BY <1>8, IdeAssumption DEF DriveMoves, Counts
  <2> QED BY <1>c, <1>8, <2>1 DEF DriveMoves
<1>9. ASSUME NEW c \in Channels, ChannelDone(c) PROVE BaseOK'
  BY <1>c, <1>9 DEF ChannelDone
<1>10. ASSUME NEW c \in Channels, NoHandler(c) PROVE BaseOK'
  BY <1>10 DEF NoHandler
<1>11. ASSUME NEW c \in Channels, LateHandler(c) PROVE BaseOK'
  BY <1>c, <1>11 DEF LateHandler
<1>12. ASSUME NEW c \in Channels, NEW o \in WaitOutcomes, Refeed(c, o) PROVE BaseOK'
  <2>1. handler[c] \in Ifaces
    BY <1>12 DEF Refeed, Ports
  <2>2. ch[handler[c]] \in Channels /\ next_sg[handler[c]] + 1 \in Nat
    BY <2>1
  <2>3. CASE o = "stuck"
    BY <1>c, <1>12, <2>1, <2>2, <2>3 DEF Refeed, Feed
  <2>4. CASE o # "stuck"
    BY <1>c, <1>12, <2>1, <2>2, <2>4 DEF Refeed, Feed
  <2> QED BY <2>3, <2>4
<1>13. ASSUME NEW i \in Ifaces, NEW o \in WaitOutcomes, DmaEnd(i, o),
              using_dma' \in [Ifaces -> BOOLEAN]
       PROVE  BaseOK'
  <2>1. WaitChannel(i) \in Channels
    BY DEF WaitChannel, Channels
  <2> QED BY <1>l, <1>c, <1>13, <2>1 DEF DmaEnd, MbusWait, FreeDma, Disconnect
<1>14. ASSUME NEW i \in Ifaces, NEW o \in WaitOutcomes, DriveIntr(i, o) PROVE BaseOK'
  BY <1>13, <1>14 DEF DriveIntr
<1>error. ASSUME NEW i \in Ifaces, NEW o \in WaitOutcomes, DriveError(i, o) PROVE BaseOK'
  BY <1>13, <1>error DEF DriveError
<1>15. ASSUME NEW i \in Ifaces, NEW o \in WaitOutcomes, TimeoutError(i, o) PROVE BaseOK'
  <2>1. using_dma' \in [Ifaces -> BOOLEAN]
    BY <1>15 DEF TimeoutError
  <2> QED BY <1>13, <1>15, <2>1 DEF TimeoutError
<1>16. ASSUME NEW i \in Ifaces, TimeoutRetry(i) PROVE BaseOK'
  BY <1>l, <1>16 DEF TimeoutRetry
<1>17. ASSUME NEW i \in Ifaces, PioDone(i) PROVE BaseOK'
  BY <1>17 DEF PioDone
<1>18. CASE UNCHANGED vars
  BY <1>18 DEF vars
<1> QED
  BY <1>1, <1>2, <1>3, <1>4, <1>5, <1>6, <1>7, <1>8, <1>9, <1>10, <1>11, <1>12, <1>14,
     <1>error, <1>15, <1>16, <1>17, <1>18 DEF Next, Request, Hardware, Interrupts

-----------------------------------------------------------------------------
(* What the two situations below share.                                    *)

(* A request under way has segments, and starts with the first one.        *)
Started ==
  \A i \in Ifaces :
    /\ pc[i] # "idle" => 1 <= segs[i]
    /\ pc[i] = "program" => next_sg[i] = 1

IndexBound == \A i \in Ifaces : next_sg[i] <= MaxSegs

(* tangox_mbus_intr is only called for a request that is still in transfer *)
(* on the channel that interrupted, with a segment left to feed.           *)
FeedsTransfer ==
  \A c \in Channels, i \in Ifaces : handler[c] = i /\ irq[c] /\ using_dma[i] =>
    pc[i] = "transfer" /\ ch[i] = c /\ next_sg[i] < segs[i]

(* What it says of one call.                                               *)
LEMMA FedRequest ==
  ASSUME FeedsTransfer, NEW c \in Channels, NEW i \in Ifaces,
         handler[c] = i, irq[c], using_dma[i]
  PROVE  pc[i] = "transfer" /\ ch[i] = c /\ next_sg[i] < segs[i]
BY DEF FeedsTransfer

(* The handler that is called is a driver's.                               *)
LEMMA RefeedOwner ==
  ASSUME BaseOK, NEW c \in Channels, NEW o, Refeed(c, o)
  PROVE  \E i \in Ifaces : handler[c] = i
<1>1. handler[c] \in Ports /\ handler[c] # None
  BY DEF BaseOK, Refeed
<1> QED BY <1>1 DEF Ports

(* Every step keeps them while the handler's calls are of that kind.       *)
LEMMA StartedStep ==
  BaseOK /\ Started /\ IndexBound /\ FeedsTransfer /\ [Next]_vars
    => Started' /\ IndexBound'
<1> SUFFICES ASSUME BaseOK, Started, IndexBound, FeedsTransfer, [Next]_vars
             PROVE  Started' /\ IndexBound'
  OBVIOUS
<1> USE IdeAssumption DEF BaseOK, Started, IndexBound, mbus, drive, Goto, Runs
<1>1. ASSUME NEW i \in Ifaces, NEW n \in 1 .. MaxSegs, Begin(i, n)
      PROVE  Started' /\ IndexBound'
  BY <1>1 DEF Begin
<1>2. ASSUME NEW i \in Ifaces, NEW label \in Labels \ {"program"}, Goto(i, label),
             pc[i] # "idle" \/ label = "idle", segs' = segs,
             next_sg' = next_sg \/ next_sg' = [next_sg EXCEPT ![i] = 1]
      PROVE  Started' /\ IndexBound'
  BY <1>2
<1>3. ASSUME NEW i \in Ifaces, Request(i) PROVE Started' /\ IndexBound'
  <2>1. CASE SetupAccepted(i)
    BY <2>1 DEF SetupAccepted
  <2>2. CASE AllocFree(i) \/ \E c \in Channels : AllocNoChange(i, c) \/ AllocConnect(i, c)
    BY <1>2, <2>2 DEF AllocFree, AllocNoChange, AllocConnect, Labels
  <2>3. CASE SetupRefused(i)
    BY <1>2, <2>3 DEF SetupRefused, Labels
  <2>4. CASE Program(i)
    BY <1>2, <2>4 DEF Program, Labels
  <2> QED BY <1>3, <2>1, <2>2, <2>3, <2>4 DEF Request
<1>4. ASSUME UNCHANGED <<pc, segs, next_sg>> PROVE Started' /\ IndexBound'
  BY <1>4
<1>5. ASSUME NEW c \in Channels, NEW o \in WaitOutcomes, Refeed(c, o)
      PROVE  Started' /\ IndexBound'
  <2>1. PICK i \in Ifaces : handler[c] = i
    BY <1>5, RefeedOwner
  <2>2. /\ irq[c] /\ using_dma[i] /\ UNCHANGED <<pc, segs>>
        /\ next_sg' = [next_sg EXCEPT ![i] = next_sg[i] + 1]
    BY <1>5, <2>1 DEF Refeed, Feed
  <2>3. pc[i] = "transfer" /\ next_sg[i] < segs[i]
    BY <2>1, <2>2, FedRequest
  <2>4. segs[i] \in Counts
    OBVIOUS
  <2> QED BY <2>2, <2>3, <2>4 DEF Counts
<1>6. ASSUME NEW i \in Ifaces, NEW o \in WaitOutcomes, DmaEnd(i, o)
      PROVE  Started' /\ IndexBound'
  BY <1>2, <1>6 DEF DmaEnd, Labels
<1>7. ASSUME NEW i \in Ifaces, TimeoutRetry(i) PROVE Started' /\ IndexBound'
  BY <1>2, <1>7 DEF TimeoutRetry, Labels
<1>8. CASE Hardware
  BY <1>4, <1>8 DEF Hardware, DriveMoves, ChannelDone
<1>9. CASE Interrupts
  BY <1>4, <1>5, <1>6, <1>9 DEF Interrupts, NoHandler, LateHandler, DriveIntr
<1>10. CASE \E i \in Ifaces, o \in WaitOutcomes : DriveError(i, o) \/ TimeoutError(i, o)
  BY <1>6, <1>10 DEF DriveError, TimeoutError
<1>11. CASE \E i \in Ifaces : TimeoutRetry(i) \/ PioDone(i)
  BY <1>4, <1>7, <1>11 DEF PioDone
<1>12. CASE UNCHANGED vars
  BY <1>4, <1>12 DEF vars
<1> QED BY <1>1, <1>3, <1>8, <1>9, <1>10, <1>11, <1>12 DEF Next
-----------------------------------------------------------------------------
(* One or two drivers, neither with an expiry routine that asks for a      *)
(* retry.                                                                  *)

PairInv == BaseOK /\ Started /\ IndexBound /\ HandlerInTransfer

(* Without a retry every request that ends takes its handler down.         *)
LEMMA HandlerStep ==
  ASSUME ~Cdrom, BaseOK, Started, HandlerInTransfer, [Next]_vars
  PROVE  HandlerInTransfer'
<1> USE IdeAssumption, MbusAssumption
    DEF BaseOK, HandlerInTransfer, mbus, drive, Goto, Runs, Ports
<1>1. ASSUME NEW i \in Ifaces, NEW n \in 1 .. MaxSegs, Begin(i, n)
      PROVE  HandlerInTransfer'
  BY <1>1 DEF Begin
<1>2. ASSUME NEW i \in Ifaces, AllocFree(i) PROVE HandlerInTransfer'
  BY <1>2 DEF AllocFree
<1>3. ASSUME NEW i \in Ifaces, NEW c \in Channels, AllocNoChange(i, c)
      PROVE  HandlerInTransfer'
  BY <1>3 DEF AllocNoChange
<1>4. ASSUME NEW i \in Ifaces, NEW c \in Channels, AllocConnect(i, c)
      PROVE  HandlerInTransfer'
  BY <1>4 DEF AllocConnect, Connect
<1>5. ASSUME NEW i \in Ifaces, SetupRefused(i) PROVE HandlerInTransfer'
  <2>1. pc[i] = "setup" /\ \A c \in Channels : handler[c] # i
    BY <1>5 DEF SetupRefused
  <2>2. \A c \in Channels : handler'[c] = handler[c] \/ handler'[c] = None
    BY <1>5 DEF SetupRefused, FreeDma
  <2>3. \A j \in Ifaces : j # i => pc'[j] = pc[j] /\ next_sg'[j] = next_sg[j]
    BY <1>5 DEF SetupRefused
  <2>4. ch' = ch /\ segs' = segs
    BY <1>5 DEF SetupRefused
  <2> QED BY <2>1, <2>2, <2>3, <2>4
<1>6. ASSUME NEW i \in Ifaces, SetupAccepted(i) PROVE HandlerInTransfer'
  BY <1>6 DEF SetupAccepted
<1>7. ASSUME NEW i \in Ifaces, Program(i) PROVE HandlerInTransfer'
  <2>1. pc[i] = "program" /\ next_sg[i] = 1 /\ 1 <= segs[i] /\ segs[i] \in Nat
    BY <1>7 DEF Program, Started, Counts
  <2>2. CASE segs[i] = 1
    BY <1>7, <2>1, <2>2 DEF Program, StartTransfer
  <2>3. CASE segs[i] # 1
    BY <1>7, <2>1, <2>3 DEF Program, StartTransfer
  <2> QED BY <2>2, <2>3
<1>8. ASSUME UNCHANGED <<pc, ch, segs, next_sg>>,
             \A c \in Channels : handler'[c] = handler[c] \/ handler'[c] = None
      PROVE  HandlerInTransfer'
  BY <1>8
<1>9. ASSUME NEW c \in Channels, NEW o \in WaitOutcomes, Refeed(c, o)
      PROVE  HandlerInTransfer'
  <2>1. PICK i \in Ifaces : handler[c] = i
    BY <1>9, RefeedOwner
  <2>2. /\ pc[i] = "transfer" /\ ch[i] = c /\ next_sg[i] < segs[i]
        /\ \A b \in Channels : handler[b] = i => b = c
    BY <2>1
  <2>3. /\ next_sg' = [next_sg EXCEPT ![i] = next_sg[i] + 1]
        /\ UNCHANGED <<pc, ch, segs>>
    BY <1>9, <2>1 DEF Refeed, Feed
  <2>4. \A b \in Channels : b # c => handler'[b] = handler[b]
    BY <1>9, <2>1, <2>2 DEF Refeed, Feed
  <2>5. handler'[c] = None \/ (handler'[c] = i /\ next_sg[i] + 1 # segs[i])
    BY <1>9, <2>1, <2>2 DEF Refeed, Feed
  <2>6. next_sg[i] \in Nat /\ segs[i] \in Nat
    BY DEF Counts
  <2> QED BY <2>1, <2>2, <2>3, <2>4, <2>5, <2>6
<1>10. ASSUME NEW i \in Ifaces, NEW o \in WaitOutcomes, DmaEnd(i, o)
      PROVE  HandlerInTransfer'
  <2>1. UNCHANGED <<ch, segs, next_sg>> /\ pc' = [pc EXCEPT ![i] = "idle"]
    BY <1>10 DEF DmaEnd
  <2>2. \A c \in Channels :
          handler'[c] = None \/ (handler'[c] = handler[c] /\ c # ch[i])
    BY <1>10 DEF DmaEnd, FreeDma, Freed
  <2> QED BY <2>1, <2>2
<1>11. CASE Hardware
  BY <1>8, <1>11 DEF Hardware, DriveMoves, ChannelDone
<1>12. CASE Interrupts
  <2>1. ASSUME NEW c \in Channels, NoHandler(c) \/ LateHandler(c)
        PROVE  HandlerInTransfer'
    BY <1>8, <2>1 DEF NoHandler, LateHandler
  <2> QED BY <1>9, <1>10, <1>12, <2>1 DEF Interrupts, DriveIntr
<1>13. CASE \E i \in Ifaces, o \in WaitOutcomes : DriveError(i, o) \/ TimeoutError(i, o)
  BY <1>10, <1>13 DEF DriveError, TimeoutError
<1>14. CASE \E i \in Ifaces : TimeoutRetry(i) \/ PioDone(i)
  BY <1>8, <1>14 DEF PioDone, TimeoutRetry
<1>15. CASE UNCHANGED vars
  BY <1>8, <1>15 DEF vars
<1>16. ASSUME NEW i \in Ifaces, Request(i) PROVE HandlerInTransfer'
  BY <1>2, <1>3, <1>4, <1>5, <1>6, <1>7, <1>16 DEF Request
<1> QED BY <1>1, <1>11, <1>12, <1>13, <1>14, <1>15, <1>16 DEF Next
(* The route: without a retry, a drive that goes idle has freed it.        *)
LEMMA HeldStep ==
  ASSUME ~Cdrom, BaseOK, NothingHeldWhenIdle, [Next]_vars
  PROVE  NothingHeldWhenIdle'
<1> USE IdeAssumption, MbusAssumption
    DEF BaseOK, NothingHeldWhenIdle, mbus, drive, Goto, Runs, Ports
<1>1. ASSUME UNCHANGED <<w0, linked>>,
             \A i \in Ifaces : pc'[i] = "idle" => pc[i] = "idle"
      PROVE  NothingHeldWhenIdle'
  BY <1>1
<1>2. ASSUME NEW i \in Ifaces, Disconnect(i), pc' = [pc EXCEPT ![i] = "idle"]
      PROVE  NothingHeldWhenIdle'
  BY <1>2 DEF Disconnect
<1>3. ASSUME NEW i \in Ifaces, NEW n \in 1 .. MaxSegs, Begin(i, n)
      PROVE  NothingHeldWhenIdle'
  BY <1>1, <1>3 DEF Begin
<1>4. ASSUME NEW i \in Ifaces, Request(i) PROVE NothingHeldWhenIdle'
  <2>1. CASE AllocFree(i)
    BY <1>1, <2>1 DEF AllocFree
  <2>2. CASE \E c \in Channels : AllocNoChange(i, c)
    BY <1>1, <2>2 DEF AllocNoChange
  <2>3. CASE \E c \in Channels : AllocConnect(i, c)
    BY <2>3 DEF AllocConnect, Connect
  <2>4. CASE SetupRefused(i) /\ i = "dvd"
    BY <1>2, <2>4 DEF SetupRefused, FreeDma
  <2>5. CASE SetupRefused(i) /\ i # "dvd"
    BY <1>1, <2>5 DEF SetupRefused
  <2>6. CASE SetupAccepted(i)
    BY <1>1, <2>6 DEF SetupAccepted
  <2>7. CASE Program(i)
    BY <1>1, <2>7 DEF Program
  <2> QED BY <1>4, <2>1, <2>2, <2>3, <2>4, <2>5, <2>6, <2>7 DEF Request
<1>5. CASE Hardware
  BY <1>1, <1>5 DEF Hardware, DriveMoves, ChannelDone
<1>6. ASSUME NEW i \in Ifaces, NEW o \in WaitOutcomes, DmaEnd(i, o)
      PROVE  NothingHeldWhenIdle'
  BY <1>2, <1>6 DEF DmaEnd, FreeDma
<1>7. CASE Interrupts
  <2>1. ASSUME NEW c \in Channels, NoHandler(c) \/ LateHandler(c)
        PROVE  NothingHeldWhenIdle'
    BY <1>1, <2>1 DEF NoHandler, LateHandler
  <2>2. ASSUME NEW c \in Channels, NEW o \in WaitOutcomes, Refeed(c, o)
        PROVE  NothingHeldWhenIdle'
    BY <1>1, <2>2 DEF Refeed, Feed
  <2> QED BY <1>6, <1>7, <2>1, <2>2 DEF Interrupts, DriveIntr
<1>8. CASE \E i \in Ifaces, o \in WaitOutcomes : DriveError(i, o) \/ TimeoutError(i, o)
  BY <1>6, <1>8 DEF DriveError, TimeoutError
<1>9. CASE \E i \in Ifaces : TimeoutRetry(i) \/ PioDone(i)
  BY <1>1, <1>9 DEF TimeoutRetry, PioDone
<1>10. CASE UNCHANGED vars
  BY <1>1, <1>10 DEF vars
<1> QED BY <1>3, <1>4, <1>5, <1>7, <1>8, <1>9, <1>10 DEF Next

(* The invariant holds of any drivers, for every number of segments.       *)
LEMMA PairInvariant == ~Cdrom => (Spec => []PairInv)
<1> SUFFICES ASSUME ~Cdrom PROVE Spec => []PairInv
  OBVIOUS
<1>1. Init => PairInv
  <2> SUFFICES ASSUME Init PROVE PairInv
    OBVIOUS
  <2>1. Started /\ IndexBound /\ HandlerInTransfer
    BY IdeAssumption, MbusAssumption
    DEF Init, MbusInit, Started, IndexBound, HandlerInTransfer
  <2> QED BY <2>1, BaseInit DEF PairInv
<1>2. PairInv /\ [Next]_vars => PairInv'
  <2> SUFFICES ASSUME PairInv, [Next]_vars PROVE PairInv'
    OBVIOUS
  <2>1. FeedsTransfer
    BY DEF PairInv, HandlerInTransfer, FeedsTransfer
  <2> QED BY <2>1, BaseStep, StartedStep, HandlerStep DEF PairInv
<1> QED BY <1>1, <1>2, PTL DEF Spec

(* With any drivers present and no CD on the bus master, the state of the  *)
(* service and of the requests has its types: g_next_sg stays inside the   *)
(* scatter list.                                                           *)
THEOREM PairTypeCorrect == ~Cdrom => (Spec => []TypeOK)
<1>1. PairInv => TypeOK
  BY TypeSplit DEF PairInv, IndexBound
<1> QED BY <1>1, PairInvariant, PTL

(* With any drivers present and no CD on the bus master, mbus_intr calls   *)
(* tangox_mbus_intr only for the request in transfer on the channel, with  *)
(* a segment left to feed: no request that ended leaves its handler.       *)
THEOREM HandlerOfTransfer == ~Cdrom => (Spec => []HandlerInTransfer)
<1>1. PairInv => HandlerInTransfer
  BY DEF PairInv
<1> QED BY <1>1, PairInvariant, PTL

(* With any drivers present and no CD on the bus master, a drive without a *)
(* request holds nothing of the switchbox and a route leads to a linked    *)
(* port, through preempted allocations, refusals, timeouts and resets.     *)
THEOREM NothingHeld == ~Cdrom => (Spec => []NothingHeldWhenIdle)
<1> SUFFICES ASSUME ~Cdrom PROVE Spec => []NothingHeldWhenIdle
  OBVIOUS
<1>1. Init => BaseOK /\ NothingHeldWhenIdle
  BY BaseInit, MbusAssumption DEF Init, MbusInit, NothingHeldWhenIdle
<1>2. BaseOK /\ NothingHeldWhenIdle /\ [Next]_vars
        => (BaseOK /\ NothingHeldWhenIdle)'
  BY BaseStep, HeldStep
<1> QED BY <1>1, <1>2, PTL DEF Spec
-----------------------------------------------------------------------------
(* The bus master driver alone, with or without an expiry routine.         *)

Alone == Ifaces = {"dvd"}

UsesDma == \A i \in Ifaces : pc[i] # "idle" => using_dma[i]

(* The channel setup_dma found idle stays so until it is programmed.       *)
ProgramIdle == \A i \in Ifaces : pc[i] = "program" => cmd[ch[i]] = "off"

(* A handler stays registered only while its channel runs or its interrupt *)
(* is pending; one that can still be called belongs to the transfer under  *)
(* way, or to a drive whose DMA was switched off.                          *)
HandlerLive ==
  \A c \in Channels, i \in Ifaces : handler[c] = i =>
    /\ cmd[c] # "off" \/ irq[c]
    /\ cmd[c] = "drain" \/ irq[c] =>
         ~using_dma[i] \/ (pc[i] = "transfer" /\ ch[i] = c)

(* SegmentsInOrder with the FIFO's state, and no interrupt on a channel    *)
(* that is programmed.                                                     *)
SegmentFed ==
  \A i \in Ifaces : pc[i] = "transfer" /\ handler[ch[i]] # None =>
    /\ next_sg[i] < segs[i]
    /\ cmd[ch[i]] = "run" => moved[i] = next_sg[i] - 1
    /\ cmd[ch[i]] = "drain" => moved[i] = next_sg[i]
    /\ irq[ch[i]] => moved[i] = next_sg[i] /\ cmd[ch[i]] = "off"

ChannelInv == UsesDma /\ ProgramIdle /\ HandlerLive /\ SegmentFed

(* Every step of the driver, its drive and its channels keeps the state of *)
(* the transfer.                                                           *)
LEMMA ChannelStep ==
  ASSUME Alone, BaseOK, Started, ChannelInv, [Next]_vars
  PROVE  ChannelInv'
<1> USE IdeAssumption, MbusAssumption
    DEF BaseOK, Alone, ChannelInv, UsesDma, ProgramIdle, HandlerLive, SegmentFed,
        mbus, drive, Goto, Runs, Ports
<1>1. ASSUME NEW i \in Ifaces, NEW n \in 1 .. MaxSegs, Begin(i, n) PROVE ChannelInv'
  BY <1>1 DEF Begin
<1>2. ASSUME NEW i \in Ifaces, AllocFree(i) PROVE ChannelInv'
  BY <1>2 DEF AllocFree
<1>3. ASSUME NEW i \in Ifaces, NEW c \in Channels, AllocNoChange(i, c) PROVE ChannelInv'
  BY <1>3 DEF AllocNoChange
<1>4. ASSUME NEW i \in Ifaces, NEW c \in Channels, AllocConnect(i, c) PROVE ChannelInv'
  BY <1>4 DEF AllocConnect, Connect
<1>5. ASSUME NEW i \in Ifaces, SetupRefused(i) PROVE ChannelInv'
  BY <1>5 DEF SetupRefused, FreeDma
<1>6. ASSUME NEW i \in Ifaces, SetupAccepted(i) PROVE ChannelInv'
  BY <1>6 DEF SetupAccepted, InUse
<1>7. ASSUME NEW i \in Ifaces, Program(i) PROVE ChannelInv'
  <2>1. /\ pc[i] = "program" /\ next_sg[i] = 1 /\ 1 <= segs[i] /\ segs[i] \in Nat
        /\ cmd[ch[i]] = "off" /\ ~irq[ch[i]] /\ using_dma[i] /\ ch[i] \in Channels
    BY <1>7 DEF Program, Started, Counts
  <2>2. handler[ch[i]] = None
    BY <2>1
  <2>3. /\ pc' = [pc EXCEPT ![i] = "transfer"] /\ moved' = [moved EXCEPT ![i] = 0]
        /\ cmd' = [cmd EXCEPT ![ch[i]] = "run"]
        /\ UNCHANGED <<irq, ch, segs, next_sg, using_dma>>
    BY <1>7 DEF Program, StartTransfer
  <2>4. \/ segs[i] = 1 /\ handler' = handler
        \/ segs[i] # 1 /\ handler' = [handler EXCEPT ![ch[i]] = i]
    BY <1>7 DEF Program, StartTransfer
  <2>5. \A j \in Ifaces : j = i
    OBVIOUS
  <2>6. UsesDma' /\ ProgramIdle'
    BY <2>1, <2>3, <2>5
  <2>7. HandlerLive'
    BY <2>1, <2>2, <2>3, <2>4, <2>5
  <2>8. SegmentFed'
    BY <2>1, <2>2, <2>3, <2>4, <2>5
  <2> QED BY <2>6, <2>7, <2>8, Zenon DEF ChannelInv
<1>8. ASSUME NEW i \in Ifaces, DriveMoves(i) PROVE ChannelInv'
  BY <1>8 DEF DriveMoves, Counts
<1>9. ASSUME NEW c \in Channels, ChannelDone(c) PROVE ChannelInv'
  BY <1>9 DEF ChannelDone
<1>10. ASSUME NEW c \in Channels, NoHandler(c) PROVE ChannelInv'
  BY <1>10 DEF NoHandler
<1>11. ASSUME NEW c \in Channels, LateHandler(c) PROVE ChannelInv'
  BY <1>11 DEF LateHandler
<1>12. ASSUME NEW c \in Channels, NEW o \in WaitOutcomes, Refeed(c, o) PROVE ChannelInv'
  <2>1. PICK i \in Ifaces : handler[c] = i
    BY <1>12, RefeedOwner
  <2>2. /\ irq[c] /\ using_dma[i]
        /\ (o = "done") <=> cmd[ch[i]] = "off"
    BY <1>12, <2>1 DEF Refeed, Feed, InUse
  <2>3. pc[i] = "transfer" /\ ch[i] = c
    BY <2>1, <2>2
  <2>4. next_sg[i] < segs[i] /\ moved[i] = next_sg[i] /\ cmd[c] = "off"
    BY <2>1, <2>2, <2>3
  <2>5. /\ irq' = [irq EXCEPT ![c] = FALSE]
        /\ next_sg' = [next_sg EXCEPT ![i] = next_sg[i] + 1]
        /\ cmd' = [cmd EXCEPT ![c] = "run"]
        /\ UNCHANGED <<pc, ch, segs, moved, using_dma>>
    BY <1>12, <2>1, <2>2, <2>3, <2>4 DEF Refeed, Feed
  <2>6. \/ handler' = [handler EXCEPT ![c] = None]
        \/ handler' = handler /\ next_sg[i] + 1 # segs[i]
    BY <1>12, <2>1, <2>2, <2>3, <2>4 DEF Refeed, Feed
  <2>7. \A j \in Ifaces : j = i
    OBVIOUS
  <2>8. UsesDma' /\ ProgramIdle'
    BY <2>3, <2>5, <2>7
  <2>9. HandlerLive'
    BY <2>3, <2>5, <2>6, <2>7
  <2>10. next_sg[i] \in Nat /\ segs[i] \in Nat
    BY DEF Counts
  <2>11. SegmentFed'
    BY <2>3, <2>4, <2>5, <2>6, <2>7, <2>10
  <2> QED BY <2>8, <2>9, <2>11, Zenon DEF ChannelInv
<1>13. ASSUME NEW i \in Ifaces, NEW o \in WaitOutcomes, DmaEnd(i, o), pc[i] = "transfer",
              using_dma' = using_dma \/ using_dma' = [using_dma EXCEPT ![i] = FALSE]
       PROVE  ChannelInv'
  <2>1. pc' = [pc EXCEPT ![i] = "idle"] /\ UNCHANGED <<irq, ch, segs, next_sg, moved>>
    BY <1>13 DEF DmaEnd
  <2>2. \A c \in Channels : IF c = ch[i] THEN handler'[c] = None
                                         ELSE handler'[c] = handler[c] /\ cmd'[c] = cmd[c]
    BY <1>13 DEF DmaEnd, FreeDma, MbusWait, Freed, WaitChannel
  <2>3. \A j \in Ifaces : j = i
    OBVIOUS
  <2>4. UsesDma' /\ ProgramIdle' /\ SegmentFed'
    BY <2>1, <2>3
  <2>5. HandlerLive'
    BY <1>13, <2>1, <2>2, <2>3
  <2> QED BY <2>4, <2>5, Zenon DEF ChannelInv
<1>14. ASSUME NEW i \in Ifaces, NEW o \in WaitOutcomes, DriveIntr(i, o) PROVE ChannelInv'
  BY <1>13, <1>14 DEF DriveIntr
<1>error. ASSUME NEW i \in Ifaces, NEW o \in WaitOutcomes, DriveError(i, o)
          PROVE  ChannelInv'
  BY <1>13, <1>error DEF DriveError
<1>15. ASSUME NEW i \in Ifaces, NEW o \in WaitOutcomes, TimeoutError(i, o) PROVE ChannelInv'
  BY <1>13, <1>15 DEF TimeoutError
<1>16. ASSUME NEW i \in Ifaces, TimeoutRetry(i) PROVE ChannelInv'
  BY <1>16 DEF TimeoutRetry
<1>17. ASSUME NEW i \in Ifaces, PioDone(i) PROVE ChannelInv'
  BY <1>17 DEF PioDone
<1>18. CASE UNCHANGED vars
  BY <1>18 DEF vars
<1> HIDE IdeAssumption, MbusAssumption
    DEF BaseOK, Alone, ChannelInv, UsesDma, ProgramIdle, HandlerLive, SegmentFed,
        mbus, drive, Goto, Runs, Ports
<1> QED
  BY <1>1, <1>2, <1>3, <1>4, <1>5, <1>6, <1>7, <1>8, <1>9, <1>10, <1>11, <1>12, <1>14,
     <1>error, <1>15, <1>16, <1>17, <1>18 DEF Next, Request, Hardware, Interrupts

-----------------------------------------------------------------------------
SoloInv == BaseOK /\ Started /\ IndexBound /\ ChannelInv

(* The invariant holds of the driver alone, for every number of segments.  *)
LEMMA SoloInvariant == Alone => (Spec => []SoloInv)
<1> SUFFICES ASSUME Alone PROVE Spec => []SoloInv
  OBVIOUS
<1>1. Init => SoloInv
  <2> SUFFICES ASSUME Init PROVE SoloInv
    OBVIOUS
  <2>1. Started /\ IndexBound
    BY IdeAssumption DEF Init, MbusInit, Started, IndexBound
  <2>2. UsesDma /\ ProgramIdle /\ HandlerLive /\ SegmentFed
    BY MbusAssumption
    DEF Init, MbusInit, UsesDma, ProgramIdle, HandlerLive, SegmentFed
  <2> QED BY <2>1, <2>2, BaseInit DEF SoloInv, ChannelInv
<1>2. SoloInv /\ [Next]_vars => SoloInv'
  <2> SUFFICES ASSUME SoloInv, [Next]_vars PROVE SoloInv'
    OBVIOUS
  <2>1. FeedsTransfer
    <3> SUFFICES ASSUME NEW c \in Channels, NEW i \in Ifaces,
                        handler[c] = i, irq[c], using_dma[i]
                 PROVE  pc[i] = "transfer" /\ ch[i] = c /\ next_sg[i] < segs[i]
      BY DEF FeedsTransfer
    <3>1. pc[i] = "transfer" /\ ch[i] = c
      BY DEF SoloInv, ChannelInv, HandlerLive
    <3> QED BY <3>1, MbusAssumption DEF SoloInv, ChannelInv, SegmentFed
  <2> QED BY <2>1, BaseStep, StartedStep, ChannelStep DEF SoloInv
<1> QED BY <1>1, <1>2, PTL DEF Spec

(* With the bus master driver alone, also with a CD whose timeouts leave   *)
(* the channel and the handler behind, the state has its types: g_next_sg  *)
(* stays inside the scatter list.                                          *)
THEOREM SoloTypeCorrect == Alone => (Spec => []TypeOK)
<1>1. SoloInv => TypeOK
  BY TypeSplit DEF SoloInv, IndexBound
<1> QED BY <1>1, SoloInvariant, PTL

(* With the bus master driver alone tangox_mbus_intr feeds the segments in *)
(* order and none twice, also around timeouts of a CD.                     *)
THEOREM SegmentsFedInOrder == Alone => (Spec => []SegmentsInOrder)
<1>1. SoloInv => SegmentsInOrder
  BY DEF SoloInv, ChannelInv, SegmentFed, SegmentsInOrder
<1> QED BY <1>1, SoloInvariant, PTL
=============================================================================
