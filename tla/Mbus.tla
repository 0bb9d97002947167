-------------------------------- MODULE Mbus --------------------------------
(***************************************************************************)
(* The MBUS DMA service (arch/mips/tangox/mbus.c): one switchbox route and *)
(* two DMA channels shared by the IDE interfaces.  The module holds the    *)
(* state of the service and the effect of each call as an operator; the    *)
(* drivers of module IdeDma take the steps.                                *)
(***************************************************************************)
EXTENDS Integers, Sequences, FiniteSets

CONSTANTS Ifaces,      \* switchbox ports of the DMA users
          None         \* 0xf in g_sbox_map, NULL in g_mbus_intr_handler

ASSUME MbusAssumption == None \notin Ifaces

VARIABLES
  w0,          \* g_sbox_map[SBOX_MBUS_W0]: the port routed to R0/W0, or None
  linked,      \* port -> g_sbox_map[port] = 1
  handler,     \* channel -> whose g_mbus_intr_handler is registered, or None
  cmd,         \* channel -> MIF command: "off", "run", or "drain" when the
               \* device has moved its data and the FIFO still holds some
  irq          \* channel -> its interrupt is pending

mbus == <<w0, linked, handler, cmd, irq>>

(* W0 moves data from the device, R0 to the device.                        *)
Channels == {"W0", "R0"}

MbusInit ==
  /\ w0 = None /\ linked = [i \in Ifaces |-> FALSE]
  /\ handler = [c \in Channels |-> None]
  /\ cmd = [c \in Channels |-> "off"]
  /\ irq = [c \in Channels |-> FALSE]

(* The two tests of sbox_connect.                                          *)
Connected(i) == w0 = i /\ linked[i]
RouteInUse(i) == w0 # None \/ linked[i]

(* sbox_connect on a free route.                                           *)
Connect(i) ==
  /\ w0' = i
  /\ linked' = [linked EXCEPT ![i] = TRUE]
  /\ UNCHANGED <<handler, cmd, irq>>

(* sbox_disconnect: the route of R0/W0 is taken down, whoever set it.      *)
Disconnect(i) ==
  /\ w0' = None
  /\ linked' = [linked EXCEPT ![i] = FALSE]

(* Mutant: the handler stays registered.                                   *)
FreeDma_KeepsHandler(i, chs) == Disconnect(i) /\ UNCHANGED handler

(* em86xx_mbus_free_dma for each of some channels: no handler, no route.   *)
FreeDma(i, chs) ==
  /\ handler' = [c \in Channels |-> IF c \in chs THEN None ELSE handler[c]]
  /\ Disconnect(i)

InUse(c) == cmd[c] # "off"

(* em86xx_mbus_setup_dma past its test: the handler if any, then the       *)
(* registers, the command last.                                            *)
StartTransfer(c, h) ==
  /\ handler' = IF h = None THEN handler ELSE [handler EXCEPT ![c] = h]
  /\ cmd' = [cmd EXCEPT ![c] = "run"]

(* em86xx_mbus_wait(c) of port i ends because the channel is idle, or      *)
(* after 200 ms with a reset that works or does not; for the flash port    *)
(* the byte count of the peripheral bus may time out on an idle channel.   *)
WaitOutcomes == {"done", "reset", "stuck"}
MbusWait(i, c, outcome) ==
  /\ outcome = "done" => ~InUse(c)
  /\ outcome = "stuck" => InUse(c)
  /\ outcome = "reset" => InUse(c) \/ i = "flash"
  /\ cmd' = IF outcome = "reset" THEN [cmd EXCEPT ![c] = "off"] ELSE cmd
=============================================================================
