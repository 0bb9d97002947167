------------------------------ MODULE FipDisplay ------------------------------
(***************************************************************************)
(* The display side of the front panel driver (drivers/char/fipkernel.c,   *)
(* first reference panel).  The driver keeps a copy of the panel's memory, *)
(* fipram, and sends a byte to the panel only when the copy changed: first *)
(* the data register, then a command with the address.  No lock covers     *)
(* this.  ioctl calls exclude each other by the big kernel lock, write     *)
(* calls take no lock at all, and a thread may be preempted at any point.  *)
(* The timer's READ_KEYS command touches neither the data register nor the *)
(* panel's memory and is left out.  A byte is the set of its bits.         *)
(***************************************************************************)
EXTENDS Integers, Sequences

CONSTANTS
  Threads,      \* threads sharing the open file
  NumDigits,    \* NUM_DIGITS
  RamSize,      \* MAX_FIP_RAM
  MemSize,      \* 256: what a byte of a raw request can address from fipram on
  AddressSpan,  \* 64: FIP_CMD_ADR_SETTING leaves six bits for the address
  Bits,         \* bits of a byte; 7 is the sign bit of a char
  Glyph,        \* fipcharacters: supported character -> its two bytes
  Mask,         \* fipcharactermask: the bits of the two bytes a digit keeps
  Blank,        \* the character ' '; the digits are the characters 0 to 9
  Texts,        \* texts user space may write
  Times,        \* <<hour, minute, second>> user space may show
  Targets       \* <<byte, bit>> of fipsymbols and of raw requests, which are not checked

ASSUME DisplayAssumption ==
  /\ NumDigits \in Nat \ {0} /\ RamSize \in Nat /\ RamSize >= 3 * NumDigits - 1
  /\ MemSize \in Nat /\ MemSize >= RamSize
  /\ AddressSpan \in Nat /\ AddressSpan >= RamSize
  /\ Glyph \in [DOMAIN Glyph -> [1 .. 2 -> SUBSET Bits]]
  /\ Mask \in [1 .. 2 -> SUBSET Bits]
  /\ Blank \in DOMAIN Glyph /\ Glyph[Blank] = [i \in 1 .. 2 |-> {}]
  /\ Targets \subseteq (0 .. MemSize - 1) \X Nat

(* fip-map.h: no character of the table uses a bit a digit keeps.  A text  *)
(* is a string; the ioctl passes a time as three bytes, and the table has  *)
(* all digits, so those of the valid times are supported characters.       *)
ASSUME TableAssumption ==
  /\ \A c \in DOMAIN Glyph, i \in 1 .. 2 : Glyph[c][i] \intersect Mask[i] = {}
  /\ \A text \in Texts : Len(text) \in Nat /\ DOMAIN text = 1 .. Len(text)
  /\ \A hms \in Times :
       /\ hms \in (0 .. 255) \X (0 .. 255) \X (0 .. 255)
       /\ hms[1] <= 99 /\ hms[2] <= 59 /\ hms[3] <= 59 =>
            \A i \in 1 .. 3 : {hms[i] \div 10, hms[i] % 10} \subseteq DOMAIN Glyph

VARIABLES
  fipram,       \* the driver's copy, and the memory behind it
  panel,        \* the panel's memory
  aliased,      \* history: the bytes of the panel last written for one behind the copy
  display_data, \* the FIP_DISPLAY_DATA register
  pc,           \* thread -> where it is
  call,         \* thread -> its call: "init", "text", "ioctl" or "none", and the text
  jobs,         \* thread -> updates still to make, the current one first
  loaded,       \* thread -> current_contents of the current update
  next,         \* thread -> the byte of the current update to look at
  arg           \* thread -> the data argument of fip_user_display

local == <<pc, call, jobs, loaded, next, arg>>
vars  == <<fipram, panel, aliased, display_data, local>>

Bytes == 0 .. RamSize - 1
Memory == 0 .. MemSize - 1
NoCall == [kind |-> "none", text |-> <<>>]

-----------------------------------------------------------------------------
(* An update changes one or two bytes: a byte keeps some of its bits and   *)
(* gets new ones.  A forced update is sent to the panel in any case.       *)
Change(byte, keep, set) == [byte |-> byte, keep |-> keep, set |-> set]

(* fip_display_raw, and fip_display_symbol through it.  The processor      *)
(* shifts by the low five bits of bit, and a shift past bit 7 is lost in   *)
(* the char.  Neither byte nor bit is checked.                             *)
Raw(byte, bit, on) ==
  LET mask == {bit % 32} \intersect Bits
  IN  [force |-> FALSE,
       bytes |-> << IF on THEN Change(byte, Bits, mask)
                          ELSE Change(byte, Bits \ mask, {}) >>]

(* Mutant: bits outside the digit are cleared as well.                     *)
Character_ClearsAll(position, c) ==
  [force |-> FALSE,
   bytes |-> [i \in 1 .. 2 |-> Change(3 * (position - 1) + i - 1, {}, Glyph[c][i])]]

(* fip_display_character for a valid position and a supported character.   *)
Character(position, c) ==
  [force |-> FALSE,
   bytes |-> [i \in 1 .. 2 |-> Change(3 * (position - 1) + i - 1, Mask[i], Glyph[c][i])]]

(* Mutant: fip_clear sends only what the copy says has changed.            *)
ClearJobs_IfChanged ==
  [i \in 1 .. RamSize |-> [force |-> FALSE, bytes |-> << Change(i - 1, {}, {}) >>]]

(* fip_clear.                                                              *)
ClearJobs ==
  [i \in 1 .. RamSize |-> [force |-> TRUE, bytes |-> << Change(i - 1, {}, {}) >>]]

(* Mutant: the first digit is counted from zero.                           *)
TextStart_FromZero(len, centred) ==
  LET free == NumDigits - len
  IN  IF centred /\ free >= 0 THEN free \div 2 ELSE 1

(* The first digit of a text at position 0; C division rounds to zero and  *)
(* a start left of the panel becomes 1.                                    *)
TextStart(len, centred) ==
  LET free == NumDigits - len
  IN  IF centred /\ free >= 0 THEN free \div 2 + 1 ELSE 1

(* fip_write_text: one character per digit, blanks around the text; the    *)
(* first unsupported character ends it.                                    *)
TextJobs(text, centred) ==
  LET x == TextStart(Len(text), centred)
      char(i) == IF i < x \/ i >= x + Len(text) THEN Blank ELSE text[i - x + 1]
      shown == {n \in 0 .. NumDigits : \A i \in 1 .. n : char(i) \in DOMAIN Glyph}
      last == CHOOSE n \in shown : \A m \in shown : m <= n
  IN  [i \in 1 .. last |-> Character(i, char(i))]

(* fip_show_hms: a blank and three times two decimal digits, as far as the *)
(* panel has digits.  The ioctl passes three bytes, so L_OFF (-1) does not *)
(* occur.  The colons have symbol number -1: nothing is shown.             *)
TimeJobs(hms) ==
  LET chars == << Blank, hms[1] \div 10, hms[1] % 10, hms[2] \div 10, hms[2] % 10,
                  hms[3] \div 10, hms[3] % 10 >>
      valid == hms[1] <= 99 /\ hms[2] <= 59 /\ hms[3] <= 59
  IN  IF valid
      THEN [i \in {j \in 1 .. 7 : j <= NumDigits} |-> Character(i, chars[i])]
      ELSE <<>>

-----------------------------------------------------------------------------
(* fip_init: the panel's memory is cleared, then "LOADING" is shown at the *)
(* left.  It is run by the loader, before the device can be opened.        *)
Init ==
  /\ \E behind \in {{}, Bits} :
       fipram = [b \in Memory |-> IF b \in Bytes THEN {} ELSE behind]
  /\ panel \in [Bytes -> {{}, Bits}]
  /\ aliased = {}
  /\ display_data = {}
  /\ \E t \in Threads, loading \in Texts :
       /\ pc = [u \in Threads |-> IF u = t THEN "load" ELSE "idle"]
       /\ call = [u \in Threads |->
            IF u = t THEN [kind |-> "init", text |-> <<>>] ELSE NoCall]
       /\ jobs = [u \in Threads |->
            IF u = t THEN ClearJobs \o TextJobs(loading, FALSE) ELSE <<>>]
  /\ loaded = [t \in Threads |-> <<>>]
  /\ next = [t \in Threads |-> 1]
  /\ arg = [t \in Threads |-> {}]

(* A call begins with its list of updates, once the driver is loaded; a    *)
(* call without an update changes nothing.                                 *)
Begin(t, kind, text, js) ==
  /\ pc[t] = "idle" /\ js # <<>>
  /\ \A u \in Threads : call[u].kind # "init"
  /\ pc' = [pc EXCEPT ![t] = "load"]
  /\ call' = [call EXCEPT ![t] = [kind |-> kind, text |-> text]]
  /\ jobs' = [jobs EXCEPT ![t] = js]
  /\ UNCHANGED <<fipram, panel, aliased, display_data, loaded, next, arg>>

(* fip_write takes no lock.                                                *)
Write(t, text) == Begin(t, "text", text, TextJobs(text, TRUE))

BklFree == \A u \in Threads : call[u].kind # "ioctl"

IoctlRaw(t, byte, bit, on) == BklFree /\ Begin(t, "ioctl", <<>>, << Raw(byte, bit, on) >>)
IoctlChar(t, i, c) == BklFree /\ Begin(t, "ioctl", <<>>, << Character(i, c) >>)
IoctlTime(t, hms) == BklFree /\ Begin(t, "ioctl", <<>>, TimeJobs(hms))
(* FIP_IOCCLEAR, and fip_open, which runs under the same lock.             *)
IoctlClear(t) == BklFree /\ Begin(t, "ioctl", <<>>, ClearJobs)

-----------------------------------------------------------------------------
(* The steps of an update.                                                 *)

Now(t) == Head(jobs[t])
NewByte(t, i) ==
  LET ch == Now(t).bytes[i] IN (loaded[t][i] \intersect ch.keep) \union ch.set

(* The current contents are read from the copy; the compiler keeps the     *)
(* byte in a register for the two assignments that follow.                 *)
Load(t) ==
  /\ pc[t] = "load"
  /\ loaded' = [loaded EXCEPT ![t] =
       [i \in DOMAIN Now(t).bytes |-> fipram[Now(t).bytes[i].byte]]]
  /\ next' = [next EXCEPT ![t] = 1]
  /\ pc' = [pc EXCEPT ![t] = "store"]
  /\ UNCHANGED <<fipram, panel, aliased, display_data, call, jobs, arg>>

(* The copy is changed.                                                    *)
Store(t) ==
  /\ pc[t] = "store"
  /\ fipram' = [b \in Memory |->
       IF \E i \in DOMAIN Now(t).bytes : Now(t).bytes[i].byte = b
       THEN NewByte(t, CHOOSE i \in DOMAIN Now(t).bytes : Now(t).bytes[i].byte = b)
       ELSE fipram[b]]
  /\ pc' = [pc EXCEPT ![t] = "compare"]
  /\ UNCHANGED <<panel, aliased, display_data, call, jobs, loaded, next, arg>>

(* current_contents is an unsigned char and fipram an array of char: with  *)
(* the sign bit set the two never compare equal.                           *)
Differs(cur, new) == cur # new \/ 7 \in new

(* Mutant: the loop over the digits runs once too often.                   *)
Advance_OneTooFar(t) ==
  IF next[t] < Len(Now(t).bytes)
  THEN /\ next' = [next EXCEPT ![t] = next[t] + 1]
       /\ pc' = [pc EXCEPT ![t] = "compare"]
       /\ UNCHANGED <<call, jobs>>
  ELSE /\ next' = [next EXCEPT ![t] = 1]
       /\ jobs' = [jobs EXCEPT ![t] = Tail(jobs[t])]
       /\ pc' = [pc EXCEPT ![t] = IF jobs[t] = <<>> THEN "idle" ELSE "load"]
       /\ UNCHANGED call

(* After the last byte of the last update the call returns.                *)
Advance(t) ==
  IF next[t] < Len(Now(t).bytes)
  THEN /\ next' = [next EXCEPT ![t] = next[t] + 1]
       /\ pc' = [pc EXCEPT ![t] = "compare"]
       /\ UNCHANGED <<call, jobs>>
  ELSE /\ next' = [next EXCEPT ![t] = 1]
       /\ jobs' = [jobs EXCEPT ![t] = Tail(jobs[t])]
       /\ pc' = [pc EXCEPT ![t] = IF Len(jobs[t]) = 1 THEN "idle" ELSE "load"]
       /\ call' = IF Len(jobs[t]) = 1 THEN [call EXCEPT ![t] = NoCall] ELSE call

CurrentByte(t) == Now(t).bytes[next[t]].byte
MustSend(t) == Now(t).force \/ Differs(loaded[t][next[t]], fipram[CurrentByte(t)])

(* A byte that did not change is not sent.                                 *)
Skip(t) ==
  /\ pc[t] = "compare" /\ ~MustSend(t)
  /\ Advance(t)
  /\ UNCHANGED <<fipram, panel, aliased, display_data, loaded, arg>>

(* The argument of fip_user_display is read from the copy.                 *)
Send(t) ==
  /\ pc[t] = "compare" /\ MustSend(t)
  /\ arg' = [arg EXCEPT ![t] = fipram[CurrentByte(t)]]
  /\ pc' = [pc EXCEPT ![t] = "data"]
  /\ UNCHANGED <<fipram, panel, aliased, display_data, call, jobs, loaded, next>>

(* fip_user_display: the data register, then the command with the address. *)
WriteData(t) ==
  /\ pc[t] = "data"
  /\ display_data' = arg[t]
  /\ pc' = [pc EXCEPT ![t] = "command"]
  /\ UNCHANGED <<fipram, panel, aliased, call, jobs, loaded, next, arg>>

(* The panel takes the low bits of the address: a byte behind the copy is  *)
(* written to a byte of the panel that the copy knows nothing of, or to    *)
(* none.                                                                   *)
WriteCommand(t) ==
  LET address == CurrentByte(t) % AddressSpan IN
  /\ pc[t] = "command"
  /\ panel' = [b \in Bytes |-> IF b = address THEN display_data ELSE panel[b]]
  /\ aliased' = IF address = CurrentByte(t) THEN aliased \ {address}
                ELSE aliased \union ({address} \intersect Bytes)
  /\ Advance(t)
  /\ UNCHANGED <<fipram, display_data, loaded, arg>>

-----------------------------------------------------------------------------
Step(t) ==
  Load(t) \/ Store(t) \/ Skip(t) \/ Send(t) \/ WriteData(t) \/ WriteCommand(t)

Call(t) ==
  \/ \E text \in Texts : Write(t, text)
  \/ \E target \in Targets, on \in BOOLEAN : IoctlRaw(t, target[1], target[2], on)
  \/ \E i \in 1 .. NumDigits, c \in DOMAIN Glyph : IoctlChar(t, i, c)
  \/ \E hms \in Times : IoctlTime(t, hms)
  \/ IoctlClear(t)

Next == \E t \in Threads : Step(t) \/ Call(t)
Spec == Init /\ [][Next]_vars

-----------------------------------------------------------------------------
(* Properties.                                                             *)

(* Every variable stays in its type: no request leaves the memory behind   *)
(* the copy that a byte can address.                                       *)
TypeOK ==
  /\ fipram \in [Memory -> SUBSET Bits] /\ aliased \subseteq Bytes
  /\ panel \in [Bytes -> SUBSET Bits]
  /\ display_data \in SUBSET Bits
  /\ pc \in [Threads -> {"idle", "load", "store", "compare", "data", "command"}]
  /\ \A t \in Threads : (pc[t] = "idle") <=> (jobs[t] = <<>>)
  /\ \A t \in Threads : call[t].kind \in {"none", "init", "text", "ioctl"}
  /\ arg \in [Threads -> SUBSET Bits]

(* fipkernel.c:1017 "display only if necessary" relies on this: when no    *)
(* call is under way the panel shows what the copy says, so a byte of the  *)
(* copy that did not change need not be sent.  Excepted are the bytes of   *)
(* the panel that a raw request for a byte behind the copy wrote last: the *)
(* copy does not know of them (FIP_IOCDISPRAW checks no address).          *)
PanelShowsRam ==
  (\A t \in Threads : pc[t] = "idle") => \A b \in Bytes \ aliased : panel[b] = fipram[b]

(* fip-map.h:25 "clearing a digit without clearing other things": a bit    *)
(* outside the digits, once shown, is changed only by an ioctl.  A text    *)
(* does not change the memory behind the copy either.                      *)
TextKeepsSymbols ==
  [][\A t \in Threads : call[t].kind = "text" /\ Store(t) =>
       \A b \in Memory, bit \in Bits :
         (b \notin Bytes \/ b % 3 = 2 \/ bit \in Mask[(b % 3) + 1]) =>
           (bit \in fipram[b] <=> bit \in fipram'[b])]_vars

(* A write of supported characters that fit the panel ends with the text   *)
(* in the middle of the panel and blanks around it, whatever was shown,    *)
(* but for bytes a raw request wrote last for a byte behind the copy.      *)
ShownAt(i, c) ==
  \A j \in 1 .. 2 :
    LET b == 3 * (i - 1) + j - 1
    IN  b \in aliased' \/ panel'[b] \ Mask[j] = Glyph[c][j]
TextShownCentred ==
  [][\A t \in Threads :
       LET text == call[t].text IN
       (/\ call[t].kind = "text" /\ pc'[t] = "idle"
        /\ Len(text) <= NumDigits
        /\ \A i \in DOMAIN text : text[i] \in DOMAIN Glyph) =>
         \E left, right \in 0 .. NumDigits :
           /\ left + Len(text) + right = NumDigits
           /\ right - left \in {0, 1}
           /\ \A i \in 1 .. NumDigits :
                ShownAt(i, IF i > left /\ i <= left + Len(text)
                           THEN text[i - left] ELSE Blank)]_vars
=============================================================================
