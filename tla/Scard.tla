-------------------------------- MODULE Scard --------------------------------
(***************************************************************************)
(* The smart card driver (drivers/char/sckernel.c): the monitor thread     *)
(* that notices cards and activates them, the interrupt handler, and the   *)
(* one process that has the device open.                                   *)
(*                                                                         *)
(* One preemptive processor.  A section under the spin lock is one step,   *)
(* so is the handler; the monitor and the process are cut where they give  *)
(* up the processor.  scard_reset, which the monitor and the ioctl call    *)
(* without the lock, is cut at every store that another thread can see,    *)
(* and so is the flush of scard_open.                                      *)
(* Bytes are not told apart: a ring is its two indices, a FIFO its length, *)
(* and an answer to reset is its first character and whether the rest is   *)
(* well formed.                                                            *)
(***************************************************************************)
EXTENDS Integers, KeyRing

CONSTANTS
  Cards,      \* records [v3, v5, conv, stops]: how a card answers with 3V and
              \* with 5V, the line settings it wants, whether its clock stops
  NoCard,
  Modes,      \* which values of b_mode the process opens the device with
  RdSize, WrSize,   \* rd_buffer_size, wr_buffer_size
  FifoSize          \* TX_FIFO_SIZE, and the length of the receive FIFO

Settings == {"pol", "msb"}    \* reverse the polarity, reverse the bit order

ASSUME ScardAssumption ==
  /\ NoCard \notin Cards
  /\ Cards \subseteq [v3 : {"silent", "ok", "corrupt", "junk"},
                      v5 : {"silent", "ok", "corrupt", "junk"},
                      conv : SUBSET Settings, stops : BOOLEAN]
  /\ Modes \subseteq BOOLEAN
  /\ RdSize \in Nat \ {0, 1} /\ WrSize \in Nat \ {0, 1} /\ FifoSize \in Nat \ {0}

VARIABLES
  card,     \* what is in the slot
  hw,       \* registers of the controller: state, inten (SCARD_INTEN), sr
            \* (SCARD_INT: "R", "T", "E" for an error), rx and tx (FIFO
            \* lengths), said (the last answer), due (the card will answer)
  priv,     \* struct scard_private, apart from the rings
  ring,     \* rd_p_idx, rd_c_idx, wr_p_idx, wr_c_idx
  freq,     \* the system clock differs from sys_freq
  mon,      \* where scard_monitor is
  cur,      \* cur_state of scard_monitor
  proc,     \* where the process is
  rst,      \* the next store of a reset (or flush) by the monitor, the process
  torn,     \* history: the last reset has left rd_buffer not empty
  late      \* history: wr_buffer has bytes left by a reset, or stored during one
            \* or while the card was not ready

vars == <<card, hw, priv, ring, freq, mon, cur, proc, rst, torn, late>>

NoAnswer == [ts |-> {"junk"}, ok |-> FALSE, stops |-> FALSE]
EmptyRings == [rd_p |-> 0, rd_c |-> 0, wr_p |-> 0, wr_c |-> 0]

(* The driver is loaded: scard_init_module has reset the interface.        *)
Init ==
  /\ card = NoCard /\ freq = FALSE /\ mon = "sleep" /\ cur = "UNPWR_IDLE"
  /\ hw = [state |-> "UNPWR_IDLE", inten |-> FALSE, sr |-> {}, rx |-> 0, tx |-> 0,
           said |-> NoAnswer, due |-> FALSE]
  /\ priv = [card_existed |-> FALSE, state |-> "UNKNOWN", normal_mode |-> FALSE,
             answer2reset |-> FALSE, ans_idx |-> 0, ans |-> NoAnswer, volt3 |-> TRUE,
             rev |-> {}, reset_cnt |-> 0, clockstop |-> FALSE, b_mode |-> FALSE]
  /\ ring = EmptyRings /\ proc = "closed" /\ torn = FALSE /\ late = FALSE
  /\ rst = [mon |-> "none", proc |-> "none"]

Ready == priv.card_existed /\ priv.normal_mode
Resetting == rst.mon # "none" \/ rst.proc # "none"
RdUsed == UsedSlots(RdSize, ring.rd_p, ring.rd_c)
WrUsed == UsedSlots(WrSize, ring.wr_p, ring.wr_c)
Least(a, b) == IF a <= b THEN a ELSE b

-----------------------------------------------------------------------------
(* The card and the controller.                                            *)

Insert(c) ==
  /\ card = NoCard /\ card' = c
  /\ UNCHANGED <<hw, priv, ring, freq, mon, cur, proc, rst, torn, late>>

Remove ==
  /\ card # NoCard /\ card' = NoCard
  /\ hw' = [hw EXCEPT !.due = FALSE]
  /\ UNCHANGED <<priv, ring, freq, mon, cur, proc, rst, torn, late>>

(* tangox_get_sysclock() changes.                                          *)
FreqChange ==
  /\ ~freq /\ freq' = TRUE
  /\ UNCHANGED <<card, hw, priv, ring, mon, cur, proc, rst, torn, late>>

(* The card answers to the reset of activate_scard, well within its 0.5 s. *)
(* With the wrong line settings the first character comes out as the one   *)
(* that names the difference.  An answer that is not as it should be may   *)
(* raise an error interrupt.                                               *)
CardAnswers(err) ==
  /\ hw.due
  /\ LET kind == IF mon = "wait3" THEN card.v3 ELSE card.v5
         ts   == IF kind = "junk" THEN {"junk"}
                 ELSE (card.conv \ priv.rev) \union (priv.rev \ card.conv)
     IN /\ err => kind # "ok" \/ ts # {}
        /\ hw' = [hw EXCEPT !.due = FALSE,
                            !.sr = @ \union {"R"} \union (IF err THEN {"E"} ELSE {}),
                            !.rx = Least(@ + 1, FifoSize),
                            !.said = [ts |-> ts, ok |-> kind = "ok", stops |-> card.stops]]
  /\ UNCHANGED <<card, priv, ring, freq, mon, cur, proc, rst, torn, late>>

(* A byte from the card, or to the card; the interrupt for the transmitter *)
(* comes when its FIFO is empty.                                           *)
RxByte ==
  /\ card # NoCard /\ hw.state = "PWR_IDLE" /\ mon \notin {"wait3", "wait5"}
  /\ hw.rx < FifoSize
  /\ hw' = [hw EXCEPT !.rx = @ + 1, !.sr = @ \union {"R"}]
  /\ UNCHANGED <<card, priv, ring, freq, mon, cur, proc, rst, torn, late>>

TxByte ==
  /\ hw.state = "PWR_IDLE" /\ hw.tx > 0
  /\ hw' = [hw EXCEPT !.tx = @ - 1, !.sr = IF hw.tx = 1 THEN @ \union {"T"} ELSE @]
  /\ UNCHANGED <<card, priv, ring, freq, mon, cur, proc, rst, torn, late>>

-----------------------------------------------------------------------------
(* Mutant: the room in the transmit FIFO is not looked at.                 *)
WriteDevice_Overfills(h, r) ==
  LET k == UsedSlots(WrSize, r.wr_p, r.wr_c)
  IN <<[h EXCEPT !.tx = @ + k], [r EXCEPT !.wr_c = (@ + k) % WrSize]>>

(* scard_write_device: fills the transmit FIFO from the ring.              *)
WriteDevice(h, r) ==
  LET k == Least(UsedSlots(WrSize, r.wr_p, r.wr_c), FifoSize - h.tx)
  IN <<[h EXCEPT !.tx = @ + k], [r EXCEPT !.wr_c = (@ + k) % WrSize]>>

(* How many bytes of the receive FIFO find room in the ring.               *)
Stored == Least(hw.rx, RdSize - 1 - RdUsed)

(* Mutant: the reader is woken when the ring is empty after the byte.      *)
WakesReader_Late == priv.b_mode /\ RdUsed + Stored = 0

(* The first byte into an empty ring wakes a reader that blocks.           *)
WakesReader == priv.b_mode /\ RdUsed = 0 /\ Stored > 0

(* Mutant: the transmit interrupt is forgotten when bytes came in.         *)
IsrNormal_ReadOnly ==
  LET read == "R" \in hw.sr
      h == IF read THEN [hw EXCEPT !.sr = {}, !.said = NoAnswer, !.rx = IF @ > Stored THEN @ - Stored - 1 ELSE 0]
                   ELSE [hw EXCEPT !.sr = {}]
      r == IF read THEN [ring EXCEPT !.rd_p = (@ + Stored) % RdSize] ELSE ring
      w == IF "T" \in hw.sr /\ ~read THEN WriteDevice(h, r) ELSE <<h, r>>
  IN /\ hw' = w[1] /\ ring' = w[2]
     /\ proc' = IF read /\ WakesReader /\ proc = "asleep" THEN "woken" ELSE proc
     /\ UNCHANGED priv

(* scard_isr in normal mode.  scard_read_device takes bytes until the ring *)
(* is full; the byte that finds it full is lost and the rest stay in the   *)
(* FIFO.                                                                   *)
IsrNormal ==
  LET read == "R" \in hw.sr
      h == IF read THEN [hw EXCEPT !.sr = {}, !.said = NoAnswer, !.rx = IF @ > Stored THEN @ - Stored - 1 ELSE 0]
                   ELSE [hw EXCEPT !.sr = {}]
      r == IF read THEN [ring EXCEPT !.rd_p = (@ + Stored) % RdSize] ELSE ring
      w == IF "T" \in hw.sr THEN WriteDevice(h, r) ELSE <<h, r>>
  IN /\ hw' = w[1] /\ ring' = w[2]
     /\ proc' = IF read /\ WakesReader /\ proc = "asleep" THEN "woken" ELSE proc
     /\ UNCHANGED priv

(* scard_isr before: any interrupt counts as an answer, the bytes go to    *)
(* the end of ans_string, and an error turns the interrupts off.           *)
IsrAnswer ==
  LET got == "R" \in hw.sr /\ hw.rx > 0 IN
  /\ priv' = [priv EXCEPT !.answer2reset = TRUE,
                          !.ans_idx = IF got THEN Least(@ + 1, 2) ELSE @,
                          !.ans = IF got /\ priv.ans_idx = 0 THEN hw.said ELSE @]
  /\ hw' = [hw EXCEPT !.sr = {}, !.rx = IF got THEN 0 ELSE @,
                      !.said = NoAnswer,
                      !.inten = @ /\ "E" \notin hw.sr]
  /\ UNCHANGED <<ring, proc>>

Isr ==
  /\ hw.inten /\ hw.sr # {}
  /\ IF priv.normal_mode THEN IsrNormal ELSE IsrAnswer
  /\ late' = (late /\ WrUsed' > 0)
  /\ UNCHANGED <<card, freq, mon, cur, rst, torn>>

-----------------------------------------------------------------------------
(* scard_reset                                                             *)

ResetFlags(p) == [p EXCEPT !.card_existed = FALSE, !.state = "UNKNOWN",
                           !.normal_mode = FALSE, !.answer2reset = FALSE]

ResetSettings(p, cold) ==
  [p EXCEPT !.volt3 = cold \/ @, !.rev = IF cold THEN {} ELSE @,
            !.ans_idx = 0, !.clockstop = FALSE]

ResetHw(h) == [h EXCEPT !.inten = FALSE, !.rx = 0, !.tx = 0, !.due = FALSE,
                        !.state = "UNPWR_IDLE"]

(* Without the lock: up to the store to the first consumer index (a        *)
(* removal has been noted before it); rst names the store that is next.    *)
ResetBegins(who, cold, existed) ==
  /\ hw' = [hw EXCEPT !.inten = FALSE]
  /\ priv' = ResetSettings([priv EXCEPT !.card_existed = existed], cold)
  /\ ring' = [ring EXCEPT !.rd_c = 0]
  /\ rst' = [rst EXCEPT ![who] = "rd_p"]

(* The other indices, one by one.                                          *)
NextIndex == [rd_p |-> "wr_c", wr_c |-> "wr_p", wr_p |-> "fifo"]
ResetIndex(who, i) ==
  /\ rst[who] = i
  /\ ring' = [ring EXCEPT ![i] = 0]
  /\ rst' = [rst EXCEPT ![who] = NextIndex[i]]
  /\ torn' = IF i = "rd_p" THEN ring.rd_c # 0 ELSE torn
  /\ late' = IF i = "wr_p" THEN ring.wr_c # 0 ELSE late
  /\ UNCHANGED <<hw, priv>>

(* The card loses its power, and the FIFOs are reset.                      *)
ResetFifo(who) ==
  /\ rst[who] = "fifo"
  /\ hw' = [hw EXCEPT !.rx = 0, !.tx = 0, !.due = FALSE, !.state = "UNPWR_IDLE"]
  /\ rst' = [rst EXCEPT ![who] = "card_existed"]
  /\ UNCHANGED <<priv, ring, torn, late>>

ResetGoesOn(who) ==
  /\ (\E i \in DOMAIN NextIndex : ResetIndex(who, i)) \/ ResetFifo(who)
  /\ UNCHANGED <<card, freq, mon, cur, proc>>

-----------------------------------------------------------------------------
(* parse_ans2reset, for an answer with 3V or 5V.                           *)
Toggled(cnt) == CASE cnt = 1 -> {"pol"} [] cnt = 2 -> {"msb"} [] OTHER -> Settings

Parse(p, v3) ==
  LET cnt == p.reset_cnt + 1
      q == [p EXCEPT !.volt3 = v3]
  IN CASE p.ans.ts = {"junk"} ->
            [ret |-> IF cnt > 3 THEN "not_valid" ELSE "reset_needed",
             priv |-> [q EXCEPT !.reset_cnt = cnt,
                                !.rev = IF cnt > 3 THEN @
                                        ELSE (@ \ Toggled(cnt)) \union (Toggled(cnt) \ @)]]
     [] p.ans.ts \in (SUBSET Settings) \ {{}} ->
            [ret |-> "reset_needed", priv |-> [q EXCEPT !.rev = @ \union p.ans.ts]]
     [] p.ans.ts = {} /\ p.ans.ok /\ p.ans_idx = 1 ->
            [ret |-> "valid", priv |-> [q EXCEPT !.clockstop = p.ans.stops]]
     [] OTHER -> [ret |-> "not_valid", priv |-> q]

(* The card is powered and its reset line driven; interrupts are on.       *)
Power(h, v3) ==
  [h EXCEPT !.inten = TRUE, !.state = "PWR_IDLE",
            !.due = card # NoCard /\ (IF v3 THEN card.v3 ELSE card.v5) # "silent"]

(* activate_scard begins.                                                  *)
Activate ==
  /\ hw' = Power(hw, priv.volt3)
  /\ mon' = IF priv.volt3 THEN "wait3" ELSE "wait5"
  /\ UNCHANGED <<priv, ring, torn, late>>

(* Mutant: interrupts stay off after a valid answer.                       *)
AnswerValid_Quiet(p) ==
  /\ priv' = [p EXCEPT !.normal_mode = TRUE]
  /\ hw' = [hw EXCEPT !.inten = FALSE]
  /\ mon' = "sleep"
  /\ UNCHANGED <<ring, torn, late>>

(* The card is activated.                                                  *)
AnswerValid(p) ==
  /\ priv' = [p EXCEPT !.normal_mode = TRUE]
  /\ hw' = [hw EXCEPT !.inten = TRUE]
  /\ mon' = "sleep"
  /\ UNCHANGED <<ring, torn, late>>

(* A reset, warm or cold, under the lock, and back to the loop or, after a *)
(* 3V attempt that a cold reset has wiped out, on to 5V.                   *)
AnswerReset(p, cold, next) ==
  /\ priv' = ResetFlags(ResetSettings(p, cold))
  /\ hw' = IF next = "wait5" THEN Power(ResetHw(hw), FALSE) ELSE ResetHw(hw)
  /\ ring' = EmptyRings /\ torn' = FALSE /\ late' = FALSE
  /\ mon' = next

(* Mutant: a card that is silent with 3V is not tried with 5V.             *)
AfterWait_Only3V(v3) ==
  LET answer == Parse(priv, v3) IN
  IF ~priv.answer2reset
  THEN AnswerReset(priv, TRUE, "sleep")
  ELSE CASE answer.ret = "valid"        -> AnswerValid(answer.priv)
         [] answer.ret = "reset_needed" -> AnswerReset(answer.priv, FALSE, "sleep")
         [] answer.ret = "not_valid"    ->
              AnswerReset(answer.priv, TRUE, IF v3 THEN "wait5" ELSE "sleep")

(* The rest of activate_scard after a wait.                                *)
AfterWait(v3) ==
  LET answer == Parse(priv, v3) IN
  IF ~priv.answer2reset
  THEN IF v3 THEN /\ hw' = Power(hw, FALSE)
                  /\ mon' = "wait5"
                  /\ UNCHANGED <<priv, ring, torn, late>>
             ELSE AnswerReset(priv, TRUE, "sleep")
  ELSE CASE answer.ret = "valid"        -> AnswerValid(answer.priv)
         [] answer.ret = "reset_needed" -> AnswerReset(answer.priv, FALSE, "sleep")
         [] answer.ret = "not_valid"    ->
              AnswerReset(answer.priv, TRUE, IF v3 THEN "wait5" ELSE "sleep")

(* The 0.5 s are over; what the card had to say has been taken.            *)
WaitEnds ==
  /\ mon \in {"wait3", "wait5"} /\ ~hw.due /\ ~(hw.inten /\ hw.sr # {})
  /\ AfterWait(mon = "wait3")
  /\ UNCHANGED <<card, freq, cur, proc, rst>>

-----------------------------------------------------------------------------
(* scard_monitor, once a second.                                           *)

(* A card is there that was not: it is to be activated.                    *)
MonitorFinds ==
  /\ mon = "sleep" /\ ~priv.card_existed /\ card # NoCard
  /\ priv' = [priv EXCEPT !.card_existed = TRUE, !.state = "PWR_IDLE",
                          !.normal_mode = FALSE, !.reset_cnt = 0]
  /\ hw' = [hw EXCEPT !.state = "UNPWR_IDLE"]
  /\ cur' = "UNPWR_IDLE" /\ mon' = "decide"
  /\ UNCHANGED <<card, ring, freq, proc, rst, torn, late>>

(* The card is gone: a cold reset.                                         *)
MonitorMisses ==
  /\ mon = "sleep" /\ priv.card_existed /\ card = NoCard
  /\ ResetBegins("mon", TRUE, FALSE)
  /\ mon' = "lost"
  /\ UNCHANGED <<card, freq, cur, proc, torn, late>>

(* The system clock has changed: a warm reset.                             *)
MonitorResets ==
  /\ mon = "sleep" /\ priv.card_existed /\ card # NoCard /\ freq
  /\ ResetBegins("mon", FALSE, TRUE)
  /\ mon' = "reset"
  /\ UNCHANGED <<card, freq, cur, proc, torn, late>>

(* The flags are cleared at once here: the process alone could come        *)
(* between, and to it a card that does not exist has no other flags.       *)
MonitorResetEnds ==
  /\ mon = "reset" /\ rst.mon = "card_existed"
  /\ priv' = ResetFlags(priv)
  /\ rst' = [rst EXCEPT !.mon = "none"]
  /\ freq' = FALSE /\ mon' = "sleep"
  /\ UNCHANGED <<card, hw, ring, cur, proc, torn, late>>

(* After a removal the rings are emptied once more, and whoever reads is   *)
(* woken.                                                                  *)
MonitorLost ==
  /\ mon = "lost" /\ rst.mon = "card_existed"
  /\ priv' = ResetFlags(priv)
  /\ rst' = [rst EXCEPT !.mon = "again"]
  /\ UNCHANGED <<card, hw, ring, freq, mon, cur, proc, torn, late>>

MonitorEmpties ==
  /\ rst.mon = "again"
  /\ ring' = [ring EXCEPT !.rd_c = 0, !.rd_p = 0, !.wr_c = 0]
  /\ rst' = [rst EXCEPT !.mon = "wake"] /\ torn' = FALSE
  /\ UNCHANGED <<card, hw, priv, freq, mon, cur, proc, late>>

MonitorWakes ==
  /\ rst.mon = "wake"
  /\ ring' = [ring EXCEPT !.wr_p = 0] /\ late' = (ring.wr_c # 0)
  /\ proc' = IF proc = "asleep" THEN "woken" ELSE proc
  /\ rst' = [rst EXCEPT !.mon = "none"] /\ mon' = "sleep"
  /\ UNCHANGED <<card, hw, priv, freq, cur, torn>>

(* A card as before: its state is read and, a step later, compared with    *)
(* the one it should have.                                                 *)
MonitorReads ==
  /\ mon = "sleep" /\ priv.card_existed /\ card # NoCard /\ ~freq
  /\ cur' = hw.state /\ mon' = "decide"
  /\ UNCHANGED <<card, hw, priv, ring, freq, proc, rst, torn, late>>

MonitorDecides ==
  /\ mon = "decide"
  /\ IF priv.state = "PWR_IDLE" /\ cur # "PWR_IDLE"
       THEN Activate
       ELSE mon' = "sleep" /\ UNCHANGED <<hw, priv, ring, torn, late>>
  /\ cur' = "UNPWR_IDLE"    \* a local variable at the end of its life
  /\ UNCHANGED <<card, freq, proc, rst>>

-----------------------------------------------------------------------------
(* The process that has the device open.                                   *)

(* scard_open flushes the rings as a reset does, without the lock.         *)
Open(block) ==
  /\ proc = "closed" /\ Ready
  /\ priv' = [priv EXCEPT !.b_mode = block]
  /\ ring' = [ring EXCEPT !.rd_c = 0]
  /\ rst' = [rst EXCEPT !.proc = "rd_p"]
  /\ proc' = "opening"
  /\ UNCHANGED <<card, hw, freq, mon, cur, torn, late>>

OpenFlushes ==
  /\ proc = "opening"
  /\ \E i \in {"rd_p", "wr_c"} : ResetIndex("proc", i)
  /\ UNCHANGED <<card, freq, mon, cur, proc>>

OpenEnds ==
  /\ proc = "opening" /\ rst.proc = "wr_p"
  /\ ring' = [ring EXCEPT !.wr_p = 0] /\ late' = (ring.wr_c # 0)
  /\ priv' = [priv EXCEPT !.state = "PWR_IDLE"]
  /\ rst' = [rst EXCEPT !.proc = "none"] /\ proc' = "open"
  /\ UNCHANGED <<card, hw, freq, mon, cur, torn>>

Release ==
  /\ proc = "open"
  /\ IF Ready
       THEN /\ hw' = [hw EXCEPT !.rx = 0, !.tx = 0]
            /\ ring' = EmptyRings /\ torn' = FALSE /\ late' = FALSE
       ELSE UNCHANGED <<hw, ring, torn, late>>
  /\ proc' = "closed"
  /\ priv' = [priv EXCEPT !.b_mode = FALSE]    \* no meaning until the next open
  /\ UNCHANGED <<card, freq, mon, cur, rst>>

(* Up to n bytes leave the read ring.                                      *)
TakeBytes(n) ==
  /\ ring' = [ring EXCEPT !.rd_c = (@ + Least(n, RdUsed)) % RdSize]
  /\ torn' = (torn /\ RdUsed > n)

(* scard_read: bytes at once, or the reader sleeps.                        *)
Read(n) ==
  /\ proc = "open" /\ Ready
  /\ IF priv.b_mode /\ RdUsed = 0
       THEN proc' = "asleep" /\ UNCHANGED <<ring, torn>>
       ELSE TakeBytes(n) /\ UNCHANGED proc
  /\ UNCHANGED <<card, hw, priv, freq, mon, cur, rst, late>>

(* A reader that has been woken: wait_event_interruptible goes on sleeping *)
(* without bytes.                                                          *)
ReadResumes(n) ==
  /\ proc = "woken"
  /\ IF RdUsed = 0
       THEN proc' = "asleep" /\ UNCHANGED <<ring, torn>>
       ELSE /\ proc' = "open"
            /\ IF Ready THEN TakeBytes(n) ELSE UNCHANGED <<ring, torn>>
  /\ UNCHANGED <<card, hw, priv, freq, mon, cur, rst, late>>

(* A signal ends the wait; the read goes on with what there is.            *)
ReadSignalled(n) ==
  /\ proc \in {"asleep", "woken"}
  /\ proc' = "open"
  /\ IF Ready THEN TakeBytes(n) ELSE UNCHANGED <<ring, torn>>
  /\ UNCHANGED <<card, hw, priv, freq, mon, cur, rst, late>>

(* scard_write: after the card was seen to be ready the writer sleeps for  *)
(* as long as bytes have just come in.                                     *)
WriteStart ==
  /\ proc = "open" /\ Ready
  /\ proc' = "guard"
  /\ UNCHANGED <<card, hw, priv, ring, freq, mon, cur, rst, torn, late>>

(* Bytes that find no room are left out.  Only a writer that found the     *)
(* ring empty starts the transmission.                                     *)
WriteStore(n) ==
  /\ proc = "guard"
  /\ ring' = [ring EXCEPT !.wr_p = (@ + Least(n, WrSize - 1 - WrUsed)) % WrSize]
  /\ late' = (late \/ ~Ready \/ Resetting)
  /\ proc' = IF WrUsed = 0 THEN "kick" ELSE "open"
  /\ UNCHANGED <<card, hw, priv, freq, mon, cur, rst, torn>>

WriteKick ==
  /\ proc = "kick"
  /\ LET w == WriteDevice(hw, ring) IN hw' = w[1] /\ ring' = w[2]
  /\ late' = (late /\ WrUsed' > 0)
  /\ proc' = "open"
  /\ UNCHANGED <<card, priv, freq, mon, cur, rst, torn>>

(* scard_ioctl                                                             *)
IoctlWarmReset ==
  /\ proc = "open" /\ Ready
  /\ ResetBegins("proc", FALSE, TRUE)
  /\ proc' = "reset"
  /\ UNCHANGED <<card, freq, mon, cur, torn, late>>

IoctlWarmResetGoesOn == proc = "reset" /\ ResetGoesOn("proc")

(* The flags one by one: the monitor may find the card in between.         *)
NextFlag == [card_existed |-> "state", state |-> "normal_mode",
             normal_mode |-> "answer2reset", answer2reset |-> "none"]
IoctlWarmResetFlag(f) ==
  /\ proc = "reset" /\ rst.proc = f
  /\ priv' = [priv EXCEPT ![f] = IF f = "state" THEN "UNKNOWN" ELSE FALSE]
  /\ rst' = [rst EXCEPT !.proc = NextFlag[f]]
  /\ proc' = IF f = "answer2reset" THEN "open" ELSE proc
  /\ UNCHANGED <<card, hw, ring, freq, mon, cur, torn, late>>

IoctlClock(stop) ==
  /\ proc = "open" /\ Ready /\ priv.clockstop
  /\ LET s == IF stop THEN "CLOCK_STOP" ELSE "PWR_IDLE"
     IN hw' = [hw EXCEPT !.state = s] /\ priv' = [priv EXCEPT !.state = s]
  /\ UNCHANGED <<card, ring, freq, mon, cur, proc, rst, torn, late>>

-----------------------------------------------------------------------------
Hardware == (\E c \in Cards : Insert(c)) \/ Remove \/ FreqChange
            \/ (\E err \in BOOLEAN : CardAnswers(err)) \/ RxByte \/ TxByte

Monitor == MonitorFinds \/ MonitorMisses \/ MonitorResets \/ ResetGoesOn("mon")
           \/ MonitorResetEnds \/ MonitorLost \/ MonitorEmpties \/ MonitorWakes
           \/ MonitorReads \/ MonitorDecides \/ WaitEnds

Process ==
  \/ (\E block \in Modes : Open(block)) \/ OpenFlushes \/ OpenEnds \/ Release
  \/ \E n \in 1 .. RdSize : Read(n) \/ ReadResumes(n) \/ ReadSignalled(n)
  \/ WriteStart \/ (\E n \in 1 .. WrSize : WriteStore(n)) \/ WriteKick
  \/ IoctlWarmReset \/ IoctlWarmResetGoesOn
  \/ (\E f \in DOMAIN NextFlag : IoctlWarmResetFlag(f))
  \/ (\E stop \in BOOLEAN : IoctlClock(stop))

Next == Hardware \/ Isr \/ Monitor \/ Process

Spec == Init /\ [][Next]_vars

(* A powered card answers, interrupts are served, and the monitor's sleeps *)
(* and waits end.                                                          *)
FairSpec ==
  Spec /\ WF_vars(\E err \in BOOLEAN : CardAnswers(err)) /\ WF_vars(Isr) /\ WF_vars(Monitor)

-----------------------------------------------------------------------------
(* Properties.                                                             *)

Answers == [ts : SUBSET (Settings \union {"junk"}), ok : BOOLEAN, stops : BOOLEAN]
HwStates == {"UNPWR_IDLE", "PWR_IDLE", "CLOCK_STOP"}
Stores == {"rd_p", "wr_c", "wr_p", "fifo", "card_existed"}

(* Every variable stays in its type.                                       *)
TypeOK ==
  /\ card \in Cards \union {NoCard}
  /\ hw \in [state : HwStates, inten : BOOLEAN, sr : SUBSET {"R", "T", "E"}, rx : 0 .. FifoSize,
             tx : 0 .. FifoSize, said : Answers, due : BOOLEAN]
  /\ priv \in [card_existed : BOOLEAN, state : HwStates \union {"UNKNOWN"},
               normal_mode : BOOLEAN, answer2reset : BOOLEAN, ans_idx : 0 .. 2,
               ans : Answers, volt3 : BOOLEAN, rev : SUBSET Settings, reset_cnt : 0 .. 4,
               clockstop : BOOLEAN, b_mode : BOOLEAN]
  /\ ring \in [rd_p : 0 .. RdSize - 1, rd_c : 0 .. RdSize - 1,
               wr_p : 0 .. WrSize - 1, wr_c : 0 .. WrSize - 1]
  /\ freq \in BOOLEAN /\ torn \in BOOLEAN /\ late \in BOOLEAN /\ cur \in HwStates
  /\ rst \in [mon : Stores \union {"none", "again", "wake"},
              proc : Stores \union {"none"} \union DOMAIN NextFlag]
  /\ mon \in {"sleep", "lost", "reset", "decide", "wait3", "wait5"}
  /\ proc \in {"closed", "open", "asleep", "woken", "guard", "kick", "opening", "reset"}

(* A card that scard_open, scard_read and scard_write take for usable has  *)
(* given exactly one valid answer since its reset, under the settings in   *)
(* use, and its interrupts are on: no mixture of failed attempts, resets   *)
(* by the monitor and by the process, or stray interrupts, gets there.     *)
ReadyMeansActivated ==
  Ready /\ rst.mon = "none" /\ proc # "reset" /\ mon \notin {"wait3", "wait5"} =>
    hw.inten /\ priv.ans_idx = 1 /\ priv.ans.ts = {} /\ priv.ans.ok

(* "Sleep when buffer is empty" (scard_read): a reader that sleeps while   *)
(* the ring has bytes for it is one whose ring a reset left in disorder.   *)
(* That takes a read between the two stores of sckernel.c:1089; no other   *)
(* order of interrupts, reads, flushes, resets and removals does it.       *)
NoSleepWithBytes ==
  proc = "asleep" /\ rst.mon # "rd_p" /\ ~torn => RdUsed = 0

(* Bytes in the write ring of a ready card are on their way: the FIFO will *)
(* raise an interrupt, has raised it, or the writer is about to fill it.   *)
(* The exceptions are bytes that scard_write stores while a reset is under *)
(* way or, after sleeping through one, while the card is not ready, and    *)
(* what a reset leaves behind when a transmission moved the ring between   *)
(* its stores: nothing may ever send those.                                *)
WriteOnItsWay ==
  Ready /\ ~Resetting /\ ~late /\ WrUsed > 0 =>
    hw.tx > 0 \/ "T" \in hw.sr \/ proc = "kick"

(* A card that goes into a slot at rest, with nothing of an earlier        *)
(* session on its way, becomes usable, whatever voltage and line settings  *)
(* it wants, provided that it answers properly where it answers at all.    *)
Proper == card # NoCard /\ (card.v3 = "ok" \/ (card.v3 = "silent" /\ card.v5 = "ok"))
AtRest == ~priv.card_existed /\ priv.rev = {} /\ priv.volt3 /\ priv.ans_idx = 0
          /\ ~priv.answer2reset /\ mon = "sleep" /\ proc = "closed" /\ hw.tx = 0 /\ hw.sr = {}
CardBecomesReady == Proper /\ AtRest ~> Ready \/ card = NoCard
=============================================================================
