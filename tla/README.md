# A formal model of the Tango2 support in the A110 kernel

The repository is the source drop of a Syabas/Sigma Designs network media
player: a Linux 2.6.15 kernel with the support for the SMP863x ("Tango2") chip,
wireless drivers and other packages.  Almost all of it is third-party code.
What is the product's own is the board support under `arch/mips/tangox` and a
handful of drivers.  This project models those drivers in TLA+, checks them with
TLC on small instances and proves the central facts with TLAPS for every value
of the constants.

Paths below are relative to `src/linux-2.6.15`.

## 1. Inventory

| Component | State | Operations | Talks to | What is hard |
|---|---|---|---|---|
| Infra-red remote, `drivers/char/irkernel.c` | key ring with producer and consumer index, open count, blocking mode, time stamp, wait and repeat period, statics of the filter (last key, key to repeat, number of swallowed repeats, last RC6 packet) | interrupt (NEC, RC5, RC6), read, poll, ioctl, open, release | decoder hardware by interrupt, user space by a shared file | interrupt against reader, full ring, window before the sleep, `jiffies` arithmetic |
| Front panel keys, `drivers/char/fipkernel.c` | key ring, open count, poll timer, last key | timer, interrupt, read, open, release | panel controller, kernel timer | a release that waits while another process opens, flush without lock |
| Front panel display, same file | `fipram`, the driver's copy of the panel memory; the panel memory; the data register | write, ioctls for symbols, raw bits, characters, time, clear | panel controller | no lock between the copy, the data register and the command |
| MBUS DMA service, `arch/mips/tangox/mbus.c` | switchbox map, one handler per channel, channel registers | alloc, setup (linear, double, rectangle, void), wait and reset, free, interrupt | both IDE drivers, ethernet boot code | one route shared by drivers that do not know of each other |
| Bus master IDE, `drivers/ide/tangox/tangox-bmide.c` | current register base, next scatter list entry, `using_dma` | DMA setup, feeding from the MBUS interrupt, DMA end, timeouts | IDE core, MBUS | a request that lives from interrupt to interrupt, timeouts that abandon it |
| Peripheral bus IDE, `drivers/ide/tangox/tangox-pbide.c` | the same without a scatter list | DMA setup, end | IDE core, MBUS | ignored results, wrong channel |
| Smart card, `drivers/char/sckernel.c` | read and write ring, state and settings of the card, answer to reset so far, number of attempts | interrupt (before and after activation), monitor thread, cold and warm reset, read, write, ioctls, open, release | card, one process, monitor thread | resets of two threads without the lock, an answer in pieces, a write that sleeps through a reset |
| Ethernet, `drivers/net/tango2_enet.c` | transmit and receive descriptor rings, free count, reclaim timer and tasklet, poll list, interrupt enable and status | transmit, reclaim, interrupt, poll, link change, open, stop | DMA engine, network core | ownership of descriptors, queue stop and wake, poll against interrupt, failing allocations |
| Interrupt dispatch, `arch/mips/tangox/irq.c` | mask and status of three lines | dispatch, mask, unmask | every driver | starvation |
| Boot environment, `arch/mips/tangox/xenv.c` | records in a fixed block | lookup at boot | setup code | lengths inside the block |
| Frequency control, platform setup, DMA mapping, USB and PCI glue | registers | configuration | | straight-line hardware access |

What makes each of the modelled parts correct:

* a key device gives its readers the latest keys, each once, oldest first, and
  a reader does not sleep through them;
* the front panel has one holder, is polled exactly while it is held, and
  release leaves no timer behind;
* the panel shows what the driver's copy says, and a text changes nothing else;
* a DMA request's segments reach the channel in order, it ends, it gives back
  what it took, and no interrupt handler outlives it;
* the registers written for a byte count move that many bytes;
* a card that the smart card driver takes for usable has been activated, every
  proper card becomes usable, no reader sleeps on bytes and written bytes are on
  their way (the last two but for resets in an unlucky moment);
* frames leave each direction of the Ethernet interface in order and once, a
  buffer is freed when its descriptor is done, a stopped queue is woken, the
  receiver is never deaf and closing the interface ends.

`PROJECT.json` lists the hazards, each at its line, with the properties that
would catch them.

## 2. Modules

    KeyRing        ring index arithmetic of both key drivers (constant operators)
    KeyQueue       abstract: exclusive device with a bounded first-in first-out
                   queue that drops its oldest key and is emptied by open only
    IrRemote       irkernel.c                 implements KeyQueue (without RC6)
    FrontPanel     fipkernel.c, keys          implements KeyQueue (two slots)
    FipDisplay     fipkernel.c, display
    Mbus           mbus.c: state, effect of each call
    IdeDma         tangox-bmide.c and tangox-pbide.c over Mbus
    MbusSetup      mbus.c: choice of linear, double or rectangle
    FrameFifo      abstract: what a direction of a network interface promises
    Enet           tango2_enet.c              implements FrameFifo, twice
    Scard          sckernel.c
    MCIrRemote, MCFrontPanel, MCFipDisplay, MCMbusSetup, MCScard   TLC instances
    KeyRingProofs, IrRemoteProofs, FrontPanelProofs, FipDisplayProofs,
    IdeDmaProofs, MbusSetupProofs, EnetProofs, ScardProofs         proofs

`IdeDma` and `Enet` need no definitions beyond their own for TLC and are run as
they are.
A definition whose name has an underscore and a suffix (such as
`MakeRoom_Never`) and whose comment starts with "Mutant:" is a plausible bug; it
is not part of a specification, and replacing the definition of the same name by
it makes the property listed in `PROJECT.json` fail.

### The grain of atomicity

The target has one processor, a preemptible kernel and HZ = 1000.  A section
with interrupts off is one action.  Code with interrupts on is split wherever an
interrupt, a timer or another thread can come in *and* the code uses shared
state on both sides.  `open` and `ioctl` run under the big kernel lock of this
kernel version; `read`, `write` and `release` do not take it.

### IrRemote

`buffer`, `p_idx`, `c_idx`, `ref_cnt`, `b_mode`, `wait_period` and `wp_var`,
`old_key`, `save_key`, `count` and `save_rc6_key` are the variables of the
source.  `last_jiffies` appears as `elapsed`, the jiffies since it was set,
because every use of it is a comparison of a difference; the comparison wraps at
`JiffiesSpan`, as `time_after` wraps at 2^32.  A key code is a model value,
`NoKey` is 0.  An RC6 packet is five words that are told apart by packet and
position.

The interrupt handler is seven actions, one for each way through `ir_produce`:
`RC6Duplicate`, `RC6Packet`, `RepeatSwallowed`, `RepeatDropped`,
`RepeatAccepted`, `KeyTooFast`, `KeyAccepted`.  `Store` is what follows an
accepted key, the wake-up test included.  A read is `ReadStart`, then `FindEmpty`
and `Sleep` (two actions: the lock is dropped in between) or `Consume`, then
`ReadReturn`.  A signal ends the sleep but not the loop, as in the code.  The
table of repeatable keys is set by ioctl and read by nothing: the code that
would use it is disabled.

### FrontPanel

The ring is the same, so `KeyRing` is shared.  `timer` is the time left until
`fip_poll_key` runs, `reading` says that the panel has a READ_KEYS command to
answer.  `OpenStart` and `OpenArm` are the two halves of `fip_open`, with the two
stores of the flush in different actions; `ReleaseStart`, the waiting, and
`ReleaseEnd` are `fip_release`.  A process whose `add_timer` hits the assertion
of the timer code goes to `killed`.  The module describes the driver as the
repository configures it: first reference panel, no ENABLE_WRITE_INTR.

### FipDisplay

A call is a list of updates, and an update changes one or two bytes of
`fipram` and sends those that differ, or all of them when forced.  A byte is the
set of its bits.  Each update is split into reading the copy, changing it,
writing the data register and writing the command, because nothing keeps another
thread out.  `Differs` is the comparison of an `unsigned char` with a `char`.
The panel starts with arbitrary contents.

FIP_IOCDISPRAW passes a byte and a bit of eight bits each to `fip_display_raw`,
which checks neither.  So `fipram` is modelled with the memory behind it, as far
as a byte can address (`MemSize`), and `Targets` may name any of it.  Such an
update reads, changes and compares that memory, and is sent to the panel with
an address of which six bits count (`AddressSpan`): it can overwrite a byte of
the panel that the copy knows nothing of.  `aliased` is a history variable with
the bytes of the panel last written in this way.

### Mbus and IdeDma

`w0` and `linked` are the two entries of `g_sbox_map` a route consists of,
`handler` is `g_mbus_intr_handler`, `cmd` the command register of a channel with
a third value, `drain`, for a channel whose device has finished while the FIFO
still holds data.  `Mbus` gives the effect of each call as an operator, and
`IdeDma` takes the steps.  Its request path is `Begin`, `AllocNoChange` or
`AllocFree` and `AllocConnect`, `SetupRefused` or `SetupAccepted` and `Program`;
then the hardware moves segments, the channel's interrupt feeds the next one
(`Refeed`), and the drive's interrupt (`DriveIntr` at the end, `DriveError` in the
middle of a transfer) or the timer (`TimeoutError`, `TimeoutRetry`) ends it.  Where
the code ignores a result, so does the model.

### MbusSetup

The decision of `em86xx_mbus_setup_dma` as a small state machine over one byte
count, with the loop that looks for the rectangle's width one action per round,
so that its invariant can be stated and proved.  `cnt` is the register `MIF_cnt`,
with two fields of sixteen bits; the properties take it apart again.

### Enet

The variables have the names of `struct tango2_enet_priv` where it has one:
`tx_skbs`, `next_tx_desc`, `dirty_tx_desc`, `free_tx_desc_count`, `rx_skbs`,
`last_rx_desc`.  `tx_own`, `tx_isr` and `rx_own` are single bits of the
descriptors, `tx_dma` and `rx_dma` the descriptors the two engines have reached,
`sr` and `ier` the receive and transmit bits of the status and enable registers.
`rx_sched` and `stopped` are the flags the network core keeps for the driver.

The hardware (`RxFrame`, `TxDone`, `TxSuspend`) steps at any time.  The handler is
`IsrRead` and `IsrHandle`, because a frame can arrive between reading the status
and acknowledging it.  It runs on top of everything, so every other action asks
for `val = {}`.  `enet_poll` is cut into one action per descriptor
(`PollBadFrame`, `PollFrame`, `PollNoMemory`), its loop exit, and the two steps of
its end, `netif_rx_complete` and `enet_enable_interrupts`, between which an
interrupt matters.  `enet_xmit`, the tasklet and the timer run with soft
interrupts off and are one action each: `Xmit`, `ReclaimTasklet`, `ReclaimTimer`.
`enet_open` and `enet_stop` are cut where the code waits or where interrupts see
the halves; what `dev_open` and `dev_close` do around them (no transmission, wait
for the poll list) comes from how the core calls them.

### Scard

`hw` is the controller, `priv` the fields of `struct scard_private`, `ring` the
four indices.  Bytes are not told apart.  What matters of an answer to reset is
its first character, which tells which line settings are wrong, and whether the
rest is well formed.  A card is a record that says how it answers with 3V and
with 5V, which settings it wants, and whether its clock may stop.

`scard_monitor` is a loop of one second: `MonitorFinds`, `MonitorMisses`,
`MonitorResets`, `MonitorReads` and `MonitorDecides` are its branches,
`Activate` and `WaitEnds` the waits of `activate_scard` with all its outcomes.
The monitor and the ioctl call `scard_reset` without the lock, so it is cut at
every store that another thread can see: each of the four indices
(`ResetIndex`), the FIFOs and the power (`ResetFifo`), and the four flags, which
the ioctl's reset clears one by one (`IoctlWarmResetFlag`) because the monitor
may look in between. For the monitor's own reset the flags are one step
(`MonitorResetEnds`, `MonitorLost`): only the process could come between, and it
looks at the first of them before the others. `rst` names the store that is
next, for each of the two threads, so that both can be in the middle of a reset
at once. `scard_open` flushes the rings in the same way. `activate_scard` resets
under the lock, in one step. The handler takes bytes for the answer
(`IsrAnswer`) or for the ring (`IsrNormal`). `scard_write` sees that the card is
ready, sleeps, stores (`WriteStore`) and starts the transmission (`WriteKick`)
in different steps. One process uses the device: `scard_open` refuses a second.
Two history variables name what a reset can do to the rings: `torn`, the last
reset has left the read ring not empty because a read came between its two
stores; `late`, the write ring holds bytes that were stored during a reset or
while the card was not ready, or that a reset left there because a transmission
came between its two stores.

## 3. Runs

| Run | Instance | Result |
|---|---|---|
| `ir_keys` | ring of 3, 2 codes, 1 reader, 2 wait periods | passes: `TypeOK`, `RepeatPeriodFollowsWaitPeriod`, `FirstKeyWakesSleepers`, `ImplementsKeyQueue` |
| `ir_packet` | RC6, the default ring of 6, fair | passes: `PacketTailInOrder`, `ReadReturns` |
| `fip_keys` | ring of 2, 2 keys, 2 processes | passes: `TypeOK`, `OneHolder`, `ImplementsKeyQueue` |
| `fip_poll` | ring of 2, 1 process, fair | passes: `PolledWhileOpen`, `TimerExpiresDuringWait`, `ReaderGetsKeys` |
| `fip_timer_bug` | ring of 2, 2 processes | violated: `NeverAddsPendingTimer` |
| `fip_show` | 1 thread, 2 digits, 4 bytes behind the copy; 1,279,000 states | passes: `TypeOK`, `PanelShowsRam`, `TextKeepsSymbols`, `TextShownCentred` |
| `ide_pair` | both drivers, up to 3 segments; 278,000 states | passes: `TypeOK`, `NothingHeldWhenIdle`, `HandlerInTransfer` |
| `ide_cd` | bus master driver with a CD, fair | passes: `SegmentsInOrder`, `RequestEnds` |
| `mbus_split` | the real limit 8191, about 300 byte counts | passes: `MovesCount`, `SectorsNeverBug`, `LoopInv` |
| `enet_fifo` | rings of 2, 2 frames, weight 2; 921,000 states | passes: `TypeOK`, `NeverOutOfDescriptors`, `TxWindow`, `NeverDeaf`, `TxImplementsFifo`, `RxImplementsFifo` |
| `enet_live` | rings of 2, 1 frame, weight 1, fair; 65,000 states | passes: `QueueWoken`, `CloseReturns`, `PolledFramesDelivered` |
| `scard` | 2 cards, a blocking process, rings of 2 and 3, FIFO of 1, fair; 793,000 states | passes: `TypeOK`, `ReadyMeansActivated`, `NoSleepWithBytes`, `WriteOnItsWay`, `CardBecomesReady` |

### What the violation shows

**`fip_timer_bug`**, `fipkernel.c:719`.  `fip_release` gives up the device before
it waits for the timer.  A process that opens during the wait adds a timer that
is still pending, which the timer code asserts never happens.

### Properties that do not hold, without a run of their own

Each is defined in its module, and each fails when it is added to the
configuration named.

* `IrRemote.SleepsOnlyWhenEmpty` (`IrKeys.cfg`), `irkernel.c:430`.  The comment
  says "Sleep when buffer is empty".  The reader finds the ring empty and drops
  the lock; a key comes and wakes nobody; the reader then sleeps with a key in
  the ring.
* `IrRemote.PacketKept` (`IrPacket.cfg`), `irkernel.c:211`.  The comment says "Keep
  the latest one and drop the oldest ones".  The consumer index is moved by its
  distance to the producer index and not by what the packet needs, so a packet
  that meets unread words can lose its own first words.  `PacketTailInOrder` is
  what is left: the ring ends with the packet's last words in order.
* `IrRemote.RepeatsLastKey` (`IrKeys.cfg`), `irkernel.c:312`.  The comment
  says "Valid repeated key".  `save_key` outlives the read, the release and the
  next open, and an RC6 packet does not set it: after a key, a release and an open
  a repeat frame in time brings back a key of the session before.
* `IdeDma.AllocMeansConnected` (`IdePair.cfg`), `mbus.c:131`.  `sbox_connect`
  returns 0 or 1, and its caller tests for a negative value: a driver goes on
  although the route is the other driver's.
* `IdeDma.TransferKeepsRoute` (`IdePair.cfg`), `mbus.c:147`.  "Need to be called
  after transfer is done to release switchbox": `sbox_disconnect` of one driver
  takes the route down, whoever set it, while the other transfers.
* `IdeDma.ProgramsIdleChannel` (`IdePair.cfg`), `mbus.c:294`.  "make sure no one
  uses the mbus before": the test and the command are apart, so two drivers pass
  the test together, and the flash driver ignores its result.  With one driver it
  holds, because nobody is there to come between, and says nothing.
* `MbusSetup.FieldsBelowMax` (`MbusSplit.cfg`), `mbus.c:316`.  The comments at lines
  196, 215 and 240 want every field below MBUS_LINEAR_MAX; the tests let the
  maximum through, and line 322 always passes it.  It is 0x2000 - 1, so it fits
  the thirteen bits of a field, and `MovesCount` is stated with "at most".
* `Enet.NoRottingFrame` (`EnetFifo.cfg`).  `Documentation/networking/NAPI_HOWTO.txt`
  line 544 says of the scheme that no events are ever lost.  The handler
  acknowledges the receive bit also when a poll is already scheduled, and
  `enet_open` clears the status after the engines have started: a frame that
  arrives in the right moment stays in the ring until the next one comes.
  `PolledFramesDelivered` and `NeverDeaf` are what is left.

And some properties of passing runs fail outside the instance they are stated
for, which the theorems of section 6 therefore name in a hypothesis:

* `FrontPanel.ImplementsKeyQueue` with `BufferSize = 3` (`FipKeys.cfg`),
  `fipkernel.c:711`.  The comment on line 710 says "Flush the buffer".  The flush
  is `p_idx = c_idx = 0`, two stores without the lock.  A key between them that
  finds the ring full by the half-changed indices (`p_idx` at the last slot,
  `c_idx` at 0) moves `c_idx` to 1; after the second store the ring holds every
  other slot, with keys from before the open.  With the default of two slots
  there is no other slot than that of the key itself.
* `IdeDma.TypeOK` with both drivers and `Cdrom = TRUE` (`IdePair.cfg`),
  `tangox-bmide.c:511`.  The timeout of a CD request leaves its handler
  registered and its channel running.  When the flash driver then gets the
  channel, its interrupts call that handler, and `g_next_sg` runs past the
  scatter list of the CD's next request.
* `IdeDma.SegmentsInOrder` with both drivers (`IdeCd.cfg`), `mbus.c:131`: the route
  of one is taken by the other.
* `FipDisplay.PanelShowsRam` without `\ aliased` (`FipShow.cfg`), `fipkernel.c:1011`.
  A raw request for byte 9, where the instance has eight addresses, changes the
  byte behind the copy and is written to byte 1 of the panel; the copy still has
  the old byte 1, and a later update that does not change it is not sent.
* `Scard.NoSleepWithBytes` without `~torn` (`Scard.cfg`), `sckernel.c:1089`.  The
  monitor's warm reset has stored `rd_c_idx`; a read takes what the ring now seems
  to hold, so that the consumer index moves on; the next read finds the ring empty
  and sleeps; then `rd_p_idx` becomes 0, and the reader sleeps beside bytes.  Line
  313 wakes a reader only when a byte comes into an empty ring, so it sleeps until
  a signal or the removal of the card.
* `Scard.WriteOnItsWay` without `~late` (`Scard.cfg`), `sckernel.c:1090`.  The monitor's
  reset has emptied the write ring and not yet reset the FIFOs; the card still
  counts as ready; a write stores its bytes and fills the FIFO, which is then reset
  (line 1120).  After the next activation the rest is in the ring, the FIFO is
  empty, no interrupt is to come, and later writers see a ring that is not empty
  and leave the transmission to that interrupt.  A write that slept through the
  whole reset does the same.
* `Scard.CardBecomesReady` with a process in the ioctl, `sckernel.c:1129`.  The warm reset
  of the ioctl has cleared `card_existed` and not yet set `state` to UNKNOWN; the monitor
  finds the card and sets `state` to PWR_IDLE; the ioctl goes on and takes that
  back.  The card then exists, is wanted in no state, and is not activated until
  it is pulled out.  `AtRest` asks for a closed device.

### Disagreements seen by reading, without a run

The models contain the behaviour behind each of these; none is claimed as a
checked result here.

* `fipkernel.c:742`: the wait of `fip_release` may end after another process has
  opened, and `del_timer_sync` then stops the new holder's polling ("Wait for
  timer expiration", line 740).  `fip_poll` shows that one process alone is safe.
* `fipkernel.c:642`: the same window before the sleep as in the infra-red driver.
  `ReaderGetsKeys` shows that with two slots keys that keep coming end the sleep.
* `fipkernel.c:977`: two threads in display calls can leave panel and copy
  different, and because of "display only if necessary" (line 1017) no later
  call repairs it.  `fip_show` is therefore about one thread.
* `fipkernel.c:1018`: a byte with the top bit set never equals itself there, as
  one side is signed, and is sent every time.
* `irkernel.c:315`: after 2^31 jiffies without a key (25 days) the same key is
  thrown away although it is not early.
* `tangox-pbide.c:353` starts a transfer of two segments without the test that the
  channel is idle.
* `mbus.c:463`: the result after a reset is the opposite of what line 461 says.
* `tangox-pbide.c:470`: `rq->cmd`, an array, is compared with `READ`, which is 0,
  so the driver always waits for the write channel and can free the switchbox of
  a read while its channel drains (`mbus.c:147`).
* `tangox-bmide.c:511`: after the timeout of a CD request the handler stays
  registered and is called with DMA off, which line 310 reports as a bug.
* `irkernel.c:238`: RC6 words are stored without their repeated flag, so a reader
  sees the flag of the key that used the slot before.  `irkernel.c:385`: a NEC or
  RC5 frame together with RC6 data is acknowledged and dropped.
* `fipkernel.c:1292`: a ring of one slot passes the check and is always empty.
* `sckernel.c:1177`: the monitor wakes the reader of a removed card, but the
  condition it waits for is a byte, so it sleeps on.
* `sckernel.c`, attempts: `reset_cnt` is set to 0 each time the card is found
  again, so the limit of three attempts is never reached (`TypeInv` of
  `ScardProofs` says that it stays at 0 or 1), and a card whose first character
  is unreadable is reset for ever.  A card that answers badly with 3V and well
  with 5V need not become ready: the reset between the attempts also forgets the
  card, so that it is found and activated once more, and the new answer is
  appended to the old one, and so on.  `CardBecomesReady` is stated for cards that
  answer properly where they answer at all.
* `sckernel.c:304`: a byte that finds the read ring full is lost.
  `sckernel.c:1259`: pin settings from the boot environment are erased by a later
  `memset`.
* `tango2_enet.c:649`: `enet_stop` gives the engine descriptors whose buffer went
  up the stack and could not be replaced.  When an allocation fails with the
  whole ring waiting, the engine owns no descriptor, no interrupt comes, and
  reception stalls until the interface is closed.
* `tango2_enet.c:304`: `priv->tx_lock` is taken before `priv` is assigned, which
  one processor without lock state does not notice.  The bit for all multicast
  frames is set (line 534) and never cleared, and `enet_ioctl` takes `&priv->mii`,
  which is no lock, for one (line 747).
* A transmit interrupt between `netif_rx_complete` and `enet_enable_interrupts` can
  leave both a scheduled poll and the receive interrupt on; `NeverDeaf` allows it.

## 4. Bounds

* **Ring size.**  A ring of three slots is the smallest in which the order of two
  keys, a full ring and the wrap of both indices are all possible.  Two is the
  default of the front panel, six of the infra-red driver with RC6 (a packet of
  five words); the refinement for every size without RC6 is proved, and so is
  `PacketTailInOrder` for every size with it.  The front panel's queue is checked
  and proved with two slots, where the flush without lock is harmless (see above).
* **Codes and keys.**  The filters only compare a code with the last one and
  with 0: two codes give all cases.  `ir_keys` treats codes as interchangeable;
  it checks no liveness, so this is sound.
* **Time.**  `MaxElapsed` = 5 reaches beyond four times the shorter wait period,
  so repeats that are early, in time and late all occur; `JiffiesSpan` is larger
  than twice that and plays no part.  `CountCap` = 3 is where the code's counter
  stops to matter.  `ir_packet` needs no time beyond one jiffy.
* **Readers and processes.**  One reader thread for the infra-red driver (the
  proofs cover any number), two processes for the panel, which is what its
  exclusive open has to arbitrate.
* **Front panel periods.**  A wait and a poll period of two jiffies let the timer,
  the interrupt and each process step between any two ticks.
* **Display.**  Two digits with three bytes each, as on the panel; two bits per
  byte, one of them the sign bit; texts of length 0 to 3, so shorter than, as
  long as and longer than the panel, with supported and unsupported characters.
  The copy has six bytes, eight addresses reach the panel and a raw request can
  name ten bytes, so requests for the copy, for a byte behind it that the panel
  does not have, and for one whose address wraps to a byte of the copy all
  occur; bits are inside a byte, outside, and outside by a multiple of 32. All
  four properties are proved for every layout, table and set of texts.
* **IDE.**  Three segments: first, middle and last are different cases in
  `tangox_mbus_intr`.  The two drivers are all the users of the route.  The safety
  properties are proved for lists of every length.
* **MbusSetup.**  The limit is the real one; the counts are those around each
  border, all whole sectors up to 128 kB and the longest rectangles.

* **Ethernet.**  Two descriptors per ring are the smallest rings with a full, a
  half full and an empty state, wrap of all indices and a low-water mark below
  the size; two frames show every change of order.  With a weight of two a poll
  can end by its limit, by an empty ring and by a failed allocation.  The
  liveness run needs one frame, as its properties do not look at which frame it
  is, and a weight of one, so that a poll is interrupted by its limit.  Type
  correctness, `NeverOutOfDescriptors`, `TxWindow`, `NeverDeaf` and both
  refinements are proved for all sizes.
* **Smart card.**  Two cards: one that is silent with 3V, wants both line settings
  reversed and may stop its clock, and one that answers badly with both voltages.
  A card without special wishes takes a part of the first one's steps.  The process
  opens the device for blocking reads: without blocking it never sleeps, and its
  other steps are the same.  The read ring of two slots is full with one byte; the
  write ring of three leaves bytes behind when the FIFO of one is full.  The safety
  properties are proved for all sizes and cards and both modes.

Deadlock is checked in every run but `mbus_split`, whose function returns.

## 5. Fairness

* `IrRemote`: weak fairness of each reader's own steps: the scheduler runs a
  thread that is ready.  Nothing is assumed of keys or signals.
* `FrontPanel`: the same for processes; time passes; an expired timer runs; the
  panel answers READ_KEYS.  `ReaderGetsKeys` assumes in its own statement that
  keys keep being pushed.
* `IdeDma`: a started request is run, the drive and the channels make progress,
  pending interrupts are served.  Drive errors, timeouts and failing resets are
  possible but never needed for `RequestEnds`.
* `Enet`: weak fairness of the transmit engine and of the handler.  Strong fairness
  of the poll, of the reclaim timer and of the remaining steps of open and close:
  they wait for the processor, which interrupts take away from them again and
  again, and get it between two interrupts.  Nothing is assumed of received
  frames, of the stack or of allocations: `CloseReturns` and
  `PolledFramesDelivered` say in their own statement that allocations succeed from
  some point on.
* `Scard`: weak fairness of the card's answer, of the handler and of the monitor.
  Nothing is assumed of the process, of removal or of the system clock.

## 6. Proofs

| Theorem | Says |
|---|---|
| `IrRemoteProofs.TypeCorrect` | `Spec => []TypeOK` for every ring size, code and packet set and number of readers, with or without RC6 |
| `IrRemoteProofs.QueueRefinement` | without RC6 the driver implements `KeyQueue` |
| `IrRemoteProofs.RepeatPeriod` | `Spec => []RepeatPeriodFollowsWaitPeriod` |
| `IrRemoteProofs.FirstKeyWakes` | `Spec => FirstKeyWakesSleepers`, an action property |
| `IrRemoteProofs.PacketTail` | `Spec => PacketTailInOrder`, an action property |
| `FrontPanelProofs.FipTypeCorrect` | `Spec => []TypeOK` for every ring size, all periods and any number of processes |
| `FrontPanelProofs.FipOneHolder` | `Spec => []OneHolder` for any number of processes |
| `FrontPanelProofs.FipPolledWhileOpen` | with one process, `Spec => []PolledWhileOpen` |
| `FrontPanelProofs.FipTimerExpires` | with one process, `Spec => TimerExpiresDuringWait` |
| `FrontPanelProofs.FipQueueRefinement` | with two slots the driver implements `KeyQueue`, for any number of processes and all periods |
| `FipDisplayProofs.TypeCorrect` | `Spec => []TypeOK` for every layout, every raw request and any number of threads: updates stay in the memory a byte can address, not in the copy |
| `FipDisplayProofs.PanelShowsCopy` | with one thread, `Spec => []PanelShowsRam` |
| `FipDisplayProofs.SymbolsKept` | with one thread, `Spec => TextKeepsSymbols`, an action property |
| `FipDisplayProofs.TextCentred` | with one thread, `Spec => TextShownCentred`, an action property |
| `IdeDmaProofs.PairTypeCorrect` | both drivers, no CD: `Spec => []TypeOK` |
| `IdeDmaProofs.NothingHeld` | both drivers, no CD: `Spec => []NothingHeldWhenIdle` |
| `IdeDmaProofs.HandlerOfTransfer` | both drivers, no CD: `Spec => []HandlerInTransfer` |
| `IdeDmaProofs.SoloTypeCorrect` | bus master driver alone, with or without a CD: `Spec => []TypeOK` |
| `IdeDmaProofs.SegmentsFedInOrder` | the same: `Spec => []SegmentsInOrder` |
| `MbusSetupProofs.LoopInvariant` | `Spec => []LoopInv` |
| `MbusSetupProofs.SetupMovesCount` | `Spec => []MovesCount` for every byte count |
| `MbusSetupProofs.SetupNeverBugs` | whole sectors, up to the limit, never end in `BUG()` |
| `EnetProofs.EnetTypeCorrect` | `Spec => []TypeOK` for rings of every size and every weight |
| `EnetProofs.EnetNeverOutOfDescriptors` | `Spec => []NeverOutOfDescriptors` |
| `EnetProofs.EnetNeverDeaf` | `Spec => []NeverDeaf` |
| `EnetProofs.EnetTxWindow` | `Spec => []TxWindow` |
| `EnetProofs.EnetTxFifo` | the transmit side implements `FrameFifo`, and `enet_stop` finds it empty |
| `EnetProofs.EnetRxFifo` | the receive side implements `FrameFifo` |
| `ScardProofs.ScardTypeCorrect` | `Spec => []TypeOK` for every set of cards and all sizes |
| `ScardProofs.ScardActivated` | `Spec => []ReadyMeansActivated` |
| `ScardProofs.ScardReaderAwake` | `Spec => []NoSleepWithBytes` |
| `ScardProofs.ScardWriteOnItsWay` | `Spec => []WriteOnItsWay` |

**Ring.**  `KeyRingProofs` states what the index arithmetic does to the sequence
of unread keys: `StoreAppends` (storing a key appends it, after dropping the
oldest of a full ring) and `TakeDropsPrefix` (moving the consumer index drops a
prefix).  They rest on a few lemmas on remainders; sequences are compared by
length and element by element.

**Infra-red driver.**  `TypeOK` is inductive by itself; the work is in the index
adjustments of `Store` and `StorePacket`.  The refinement maps the queue to the
keys between the indices and the hand of a reader to what it has copied.  It
needs `QueueInv`, which adds to `TypeOK` that only a reader in `copy` holds keys,
as a `Take` could otherwise overwrite keys that were never returned, and that the
device is open while a read call is under way.  Each action is then a `Push`,
`Take`, `Return`, `Open`, `Close` or a stutter.  That the queue may only be
emptied by `Open` is essential: a full ring whose indices meet looks empty, and
this is the step that the refinement excludes.  Assumed is `IrAssumption`:
at least two slots (six with RC6, as the module parameter is checked), code 0 is
not a key, positive wait periods.

Two further theorems of this driver are inductive with `TypeOK`: the one on the
periods needs one case per path through `ir_produce`, and the wake-up needs that
only `Store` and `StorePacket` end an empty ring.  `PacketTailInOrder` is about
one step, but about five stores with wrap and a consumer index that is moved by
its distance to the producer index: the proof names that distance (`Dist`) and
the slot a number of places ahead (`Ahead`), shows once how the two go together
(`AheadDist`), and then that the newest slots are the last ones written and that
the indices do not meet (`NewestSlots`, `PacketNotEmpty`).  The five words fit
because a ring with RC6 has six slots at least.

**MBUS setup.**  `MovesCount` is not inductive: that the loop loses no byte needs
`LoopInv`, width times rest equals the count and the width is a power of two.
`SetupNeverBugs` adds that the loop cannot stop at an odd rest before the width
has reached a sector.  `FieldsWritten` says that the two fields of the register do
not touch each other.  Assumed is `SetupAssumption`: the widest rectangle, 1024,
fits a register field, and the maximum fits sixteen bits.

**Front panel.**  `HolderInv` is `TypeOK` and `OneHolder` together: that
`fip_release` never counts below zero needs that there is one holder, and neither
is inductive alone.  With one process, `TimerInv` ties the timer to the place of
the process: off while it is closed or opening, armed while it uses the device,
and due before the wait of `fip_release` is over.  That is why the two theorems
assume a single process; with two, `fip_timer_bug` shows the opposite.  The
refinement needs `HolderInv`, as its queue counts as empty while somebody is
between the two stores of the flush, and that only `fip_consume` fills the hand of
a reader (`QueueInv`).  With two slots the state after the flush is an empty ring
or the ring with the one key that came in between, so that the second store is a
stutter or a `Push`; for more slots this is false (section 3), and the theorem
says `BufferSize = 2`.  Assumed is the module's assumption on periods and ring
size.

**Display.**  The lemmas say what the lists of updates are made of: each update
has one or two different bytes, of the copy but for a raw request, and a forced
one has one. Types (`TypeInv`) tie the place of a thread to its list, for any
number of threads. With one thread `PanelInv` says which bytes of the panel may
differ from the copy: those with a forced update still to come, which is how
`fip_init` gets along with unknown contents, and those of the current update
that are neither sent nor skipped, and those in `aliased`; for a byte of the
current update the loaded byte is what the panel still shows, so a byte that
compares equal needs no sending. `TextInv` says the same of `fip_write`: the
updates left are the characters of the remaining digits, and the copy has the
text at the digits done. That `fip_write` stops at the first character it does
not know is proved with the least-number principle (`WFMin` of
`WellFoundedInduction`), which needs no operator as a parameter. With two
threads the last three are false (`fipkernel.c:977` above). Assumed are
`DisplayAssumption` and `TableAssumption`, facts of `fip-map.h`: the digits lie
in the copy, which the panel's addresses cover, a space is blank, no character
uses a bit that the digits keep, and the table has the decimal digits.

**IDE.**  `TypeOK` is not inductive: nothing in it keeps `tangox_mbus_intr` from
being called once too often. Without a CD every end of a request takes its
handler down, so `HandlerInTransfer` holds for both drivers: a handler belongs
to a request in transfer on its channel with a segment left.
`NothingHeldWhenIdle` is inductive with the types. With a CD, `TimeoutRetry`
leaves handler and channel behind; for one driver `ChannelInv` describes what is
left: the channel the setup found idle stays so until it is programmed, a
handler that can still be called belongs to the transfer under way or to a drive
whose DMA is switched off, and segments moved and segments fed differ by what
the channel is doing. The hypotheses `~Cdrom` and `Alone` are the two instances
of the runs; section 3 says what fails without them. Assumed are `IdeAssumption`
and `MbusAssumption`, which name the ports.

**Ethernet.**  `NeverOutOfDescriptors` and `NeverDeaf` become inductive with
`IdleRing`, that all transmit descriptors are free until `enet_open` has ended
(`QueueInv`).  `TxWindow` is inductive with `TypeOK`; its proof names the number n
of used descriptors that are done (`OwnedFrom(n)`).  The refinement maps the queue
to the buffers from n on; each action appends one, takes the first or leaves them
as they are, and `OnWay` is n because the done descriptors are a prefix.  A
descriptor is sent only while the interface is not down (`RunsWhenOn`).  On the
receive side `RxInv` says that the engine has filled the first n descriptors from
`last_rx_desc` on and is at the next one, and that of these only the first can be
without a frame, when a poll took it and found no memory for a new buffer.  A
rearmed descriptor becomes the last of the ring, so each poll step drops the
first frame or finds it dropped before; with the interface down the driver's
descriptor is the engine's, and no poll takes anything.  Assumed is
`EnetAssumption`: rings and weight are not empty and the low-water mark lies in
the ring.

**Smart card.**  Types need two further facts (`TypeInv`): a controller that expects
an answer has a card in it, and the number of attempts is 0 while a card is known
or an activation is under way.  `ReadyMeansActivated` is inductive with that: every
way out of a reset ends in not ready.  Because a reset takes many steps and two of
them can overlap, `StageInv` says how `rst` goes with the places of the two threads,
and `Act` strengthens the property to the last store of the ioctl's reset, when the
monitor may already have activated the card again.  The last two come from
`RingInv`: a reader that sleeps blocks; bytes stored in time lie in the ring of a
ready card, so that the interrupt for an emptied FIFO goes to `IsrNormal` and not to
`IsrAnswer` (`OnTheirWay`); and a reset that is past its four stores has left the
write ring empty, or `late` holds, or the other thread's reset is about to make its
own last store (`Flushed`).  The exceptions `torn` and `late` are part of the
properties, and section 3 says what happens in them.
Assumed is `ScardAssumption`: rings of two slots or more, a FIFO of
at least one byte, and the four kinds of answers.

Every invariant, action property and refinement that a passing run checks is
stated by a theorem.  Only model-checked are the liveness properties
(`ReadReturns`, `ReaderGetsKeys`, `RequestEnds`, `QueueWoken`, `CloseReturns`,
`PolledFramesDelivered`, `CardBecomesReady`), whose fairness the prover does not
handle.  What the theorems leave open, because it is false or was not tried, is
what their hypotheses exclude: RC6 words in the refinement of the infra-red queue,
which drops several words at once; two processes for the panel's timer; two threads for
the display; both IDE drivers together with a CD; and what the properties except by
name: bytes of the panel written for a byte behind the copy, and the rings of a card
after a reset in an unlucky moment.

## 7. What is not modelled

* Drive tuning, PIO and probing of the IDE drivers, clock and board setup, cache
  maintenance, USB and PCI glue: register sequences without a protocol.
* `poll` of the key devices and the GET ioctls: they change no state.
* The interrupt dispatcher.  The models let an enabled interrupt come at any point,
  which covers every order in which it can serve its sources.  What it adds is
  starvation by a source that never falls silent (`irq.c:76`), and no modelled
  source is one, as each handler acknowledges before it returns.
* The boot environment: a sequential lookup in one block at boot.  Nothing runs
  beside it and nothing it computes is changed later.
* Address filter, statistics, ethtool and MII of the Ethernet driver.
* Simultaneous status bits of the infra-red decoders, whose losing frame is
  dropped without a trace.
* Module unload, allocation failures at load, invalid user pointers.
* The second reference panel and ENABLE_WRITE_INTR: compiled out.
* More than one processor: the chip has one.
* The rest of the kernel, the wireless drivers and the other packages.

## 8. Plan

Done: the key drivers and their abstract queue, the display, the MBUS with both
IDE drivers, the setup algorithm, the Ethernet and the smart card driver; the
theorems above.  Next, in this order:

1. What holds of the things the hypotheses exclude: with two IDE drivers, which of
   the facts about segments survive for the driver that has the route and keeps
   it; with any ring size, what remains of the front panel's queue when no key
   comes during the flush.
2. The refinement of the infra-red queue with RC6, against a queue that drops
   several words at once.
3. The clock switch of `fctrl/fckernel.c` together with the reset it causes in
   `Scard`, if its register sequence can be given a meaning.
