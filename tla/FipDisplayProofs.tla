-------------------------- MODULE FipDisplayProofs --------------------------
(***************************************************************************)
(* Proofs about the display of the front panel driver (module FipDisplay), *)
(* for every size of the panel's memory and every table of characters.     *)
(***************************************************************************)
EXTENDS FipDisplay, WellFoundedInduction, TLAPS

ByteSets == SUBSET Bits
Positions == 1 .. NumDigits
Changes == [byte : Memory, keep : ByteSets, set : ByteSets]

(* An update has one or two bytes, different ones; a forced one has one.   *)
JobSet ==
  {j \in [force : BOOLEAN, bytes : Seq(Changes)] :
     /\ Len(j.bytes) \in {1, 2}
     /\ j.force => Len(j.bytes) = 1
     /\ \A i, k \in 1 .. Len(j.bytes) : j.bytes[i].byte = j.bytes[k].byte => i = k}

(* What the proofs use of an update.                                       *)
LEMMA JobFacts ==
  ASSUME NEW j \in JobSet
  PROVE  /\ j.force \in BOOLEAN
         /\ Len(j.bytes) \in {1, 2} /\ DOMAIN j.bytes = 1 .. Len(j.bytes)
         /\ j.force => Len(j.bytes) = 1
         /\ \A i \in 1 .. Len(j.bytes) :
              /\ j.bytes[i].byte \in Memory
              /\ j.bytes[i].keep \subseteq Bits /\ j.bytes[i].set \subseteq Bits
         /\ \A i, k \in 1 .. Len(j.bytes) : j.bytes[i].byte = j.bytes[k].byte => i = k
<1>1. j \in [force : BOOLEAN, bytes : Seq(Changes)]
  BY DEF JobSet
<1>2. j.force \in BOOLEAN /\ j.bytes \in Seq(Changes)
  BY <1>1
<1>3. /\ DOMAIN j.bytes = 1 .. Len(j.bytes)
      /\ \A i \in 1 .. Len(j.bytes) : j.bytes[i] \in Changes
  BY <1>2
<1>4. \A x \in Changes : x.byte \in Memory /\ x.keep \subseteq Bits /\ x.set \subseteq Bits
  BY DEF Changes, ByteSets
<1> QED BY <1>2, <1>3, <1>4 DEF JobSet

-----------------------------------------------------------------------------
(* The updates of the calls.                                               *)

(* The copy is part of the memory, and its bytes have the panel's address. *)
LEMMA MemoryFacts ==
  /\ \A b \in Bytes : b \in Memory /\ b % AddressSpan = b
  /\ \A b \in Memory : b % AddressSpan \in Bytes => b \in Bytes \/ b % AddressSpan # b
BY DisplayAssumption DEF Bytes, Memory

(* fip_display_character stays inside the copy.                            *)
LEMMA CharacterJob ==
  ASSUME NEW p \in Positions, NEW c \in DOMAIN Glyph
  PROVE  /\ Character(p, c) \in JobSet
         /\ ~Character(p, c).force /\ Len(Character(p, c).bytes) = 2
         /\ \A i \in 1 .. 2 :
              /\ Character(p, c).bytes[i].byte = 3 * (p - 1) + i - 1
              /\ Character(p, c).bytes[i].keep = Mask[i]
              /\ Character(p, c).bytes[i].set = Glyph[c][i]
<1> DEFINE bs == [i \in 1 .. 2 |-> Change(3 * (p - 1) + i - 1, Mask[i], Glyph[c][i])]
<1>1. ASSUME NEW i \in 1 .. 2
      PROVE  3 * (p - 1) + i - 1 \in Memory /\ Mask[i] \in ByteSets /\ Glyph[c][i] \in ByteSets
  <2>1. 3 * (p - 1) + i - 1 \in Memory
    BY DisplayAssumption DEF Positions, Memory
  <2>2. Mask[i] \in ByteSets
    BY DisplayAssumption DEF ByteSets
  <2>3. Glyph[c] \in [1 .. 2 -> ByteSets]
    BY DisplayAssumption DEF ByteSets
  <2> QED BY <2>1, <2>2, <2>3
<1>2. \A i \in 1 .. 2 :
        /\ bs[i] \in Changes /\ bs[i].byte = 3 * (p - 1) + i - 1
        /\ bs[i].keep = Mask[i] /\ bs[i].set = Glyph[c][i]
  BY <1>1 DEF Changes, Change
<1>3. bs \in Seq(Changes) /\ Len(bs) = 2
  <2>1. bs \in [1 .. 2 -> Changes]
    BY <1>2
  <2> QED BY <2>1
<1>4. \A i, k \in 1 .. 2 : bs[i].byte = bs[k].byte => i = k
  BY <1>2 DEF Positions
<1>5. Character(p, c) = [force |-> FALSE, bytes |-> bs]
  BY DEF Character
<1> HIDE DEF bs
<1>6. Character(p, c).force = FALSE /\ Character(p, c).bytes = bs
  BY <1>5
<1> QED BY <1>2, <1>3, <1>4, <1>5, <1>6 DEF JobSet

(* One byte of fip_display_raw and of fip_clear.                           *)
RawByte(b, keep, set) == [force |-> FALSE, bytes |-> << Change(b, keep, set) >>]
ClearByte(b) == [force |-> TRUE, bytes |-> << Change(b, {}, {}) >>]

(* Both are updates.                                                       *)
LEMMA OneByteJob ==
  ASSUME NEW b \in Memory, NEW keep \in ByteSets, NEW set \in ByteSets
  PROVE  /\ RawByte(b, keep, set) \in JobSet
         /\ ClearByte(b) \in JobSet
         /\ ClearByte(b).force /\ ClearByte(b).bytes[1].byte = b
<1> DEFINE raw == << Change(b, keep, set) >>
           clr == << Change(b, {}, {}) >>
<1>1. {} \in ByteSets
  BY DEF ByteSets
<1>2. /\ raw \in Seq(Changes) /\ Len(raw) = 1
      /\ clr \in Seq(Changes) /\ Len(clr) = 1 /\ clr[1].byte = b
  BY <1>1 DEF Changes, Change
<1>3. /\ RawByte(b, keep, set) = [force |-> FALSE, bytes |-> raw]
      /\ ClearByte(b) = [force |-> TRUE, bytes |-> clr]
  BY DEF RawByte, ClearByte
<1> HIDE DEF raw, clr
<1>4. [force |-> FALSE, bytes |-> raw] \in JobSet /\ [force |-> TRUE, bytes |-> clr] \in JobSet
  BY <1>2 DEF JobSet
<1> QED BY <1>2, <1>3, <1>4

(* fip_display_raw is an update of one byte.                               *)
LEMMA RawJob ==
  ASSUME NEW target \in Targets, NEW on \in BOOLEAN
  PROVE  Raw(target[1], target[2], on) \in JobSet
<1> DEFINE mask == {target[2] % 32} \intersect Bits
<1>1. target[1] \in Memory
  BY DisplayAssumption DEF Memory
<1>2. Bits \in ByteSets /\ mask \in ByteSets
      /\ Bits \ mask \in ByteSets /\ {} \in ByteSets
  BY DEF ByteSets
<1>3. \/ Raw(target[1], target[2], on) = RawByte(target[1], Bits, mask)
      \/ Raw(target[1], target[2], on) = RawByte(target[1], Bits \ mask, {})
  BY DEF Raw, RawByte
<1> HIDE DEF mask
<1> QED BY <1>1, <1>2, <1>3, OneByteJob

(* fip_clear is one forced update for each byte.                           *)
LEMMA ClearJobsFacts ==
  /\ ClearJobs \in Seq(JobSet) /\ Len(ClearJobs) = RamSize
  /\ \A b \in Bytes : ClearJobs[b + 1].force /\ ClearJobs[b + 1].bytes[1].byte = b
<1>1. {} \in ByteSets /\ TRUE \in BOOLEAN /\ RamSize \in Nat
  BY DisplayAssumption DEF ByteSets
<1>2. ASSUME NEW i \in 1 .. RamSize
      PROVE  ClearJobs[i] \in JobSet /\ ClearJobs[i].force
             /\ ClearJobs[i].bytes[1].byte = i - 1
  <2>1. i - 1 \in Memory
    BY <1>1, DisplayAssumption DEF Memory
  <2>2. ClearJobs[i] = ClearByte(i - 1)
    BY DEF ClearJobs, ClearByte
  <2> QED BY <1>1, <2>1, <2>2, OneByteJob
<1>3. ClearJobs \in [1 .. RamSize -> JobSet]
  BY <1>2 DEF ClearJobs
<1>4. \A b \in Bytes : b + 1 \in 1 .. RamSize /\ (b + 1) - 1 = b
  BY <1>1 DEF Bytes
<1> QED BY <1>1, <1>2, <1>3, <1>4
-----------------------------------------------------------------------------
(* The longest supported beginning of a text exists: a nonempty set of     *)
(* naturals has a least element, and one with a bound a greatest.          *)
LEMMA LeastOfNat ==
  ASSUME NEW T, T \subseteq Nat, T # {}
  PROVE  \E x \in T : \A y \in T : x <= y
<1> DEFINE R == OpToRel(<, Nat)
<1>1. IsWellFoundedOn(R, Nat)
  BY NatLessThanWellFounded
<1>2. \A x, y \in Nat : y < x => <<y, x>> \in R
  BY DEF OpToRel
<1> HIDE DEF R
<1>3. PICK x \in T : \A y \in T : ~(<<y, x>> \in R)
  BY <1>1, WFMin
<1>4. ASSUME NEW y \in T PROVE x <= y
  <2>1. x \in Nat /\ y \in Nat
    OBVIOUS
  <2>2. ~(y < x)
    BY <1>2, <1>3, <2>1
  <2> QED BY <2>1, <2>2
<1> QED BY <1>4

(* The greatest element, from the least distance to the bound.             *)
LEMMA GreatestBelow ==
  ASSUME NEW N \in Nat, NEW T, T \subseteq 0 .. N, T # {}
  PROVE  \E x \in T : \A y \in T : y <= x
<1> DEFINE U == {N - x : x \in T}
<1>1. U \subseteq Nat
  OBVIOUS
<1>2. U # {}
  <2>1. PICK x \in T : TRUE
    OBVIOUS
  <2> QED BY <2>1
<1>3. PICK u \in U : \A v \in U : u <= v
  <2> HIDE DEF U
  <2> QED BY <1>1, <1>2, LeastOfNat
<1>4. PICK x \in T : u = N - x
  OBVIOUS
<1>5. ASSUME NEW y \in T PROVE y <= x
  <2>1. u <= N - y
    BY <1>3
  <2>2. x \in Int /\ y \in Int
    OBVIOUS
  <2> QED BY <1>4, <2>1, <2>2
<1> QED BY <1>5

(* The character of a text at a digit.                                     *)
CharAt(text, centred, i) ==
  LET x == TextStart(Len(text), centred)
  IN  IF i < x \/ i >= x + Len(text) THEN Blank ELSE text[i - x + 1]

(* The texts fip_write shows to their end.                                 *)
Fits(text) ==
  Len(text) <= NumDigits /\ \A i \in DOMAIN text : text[i] \in DOMAIN Glyph

(* A text starts at a digit.                                               *)
LEMMA TextStartType ==
  ASSUME NEW len \in Nat, NEW centred \in BOOLEAN
  PROVE  TextStart(len, centred) \in Nat \ {0}
BY DisplayAssumption DEF TextStart

(* fip_write_text updates the digits from the left, each with a supported  *)
(* character, and all of them for a text it shows to its end.              *)
LEMMA TextJobsFacts ==
  ASSUME NEW text \in Texts, NEW centred \in BOOLEAN
  PROVE  /\ TextJobs(text, centred) \in Seq(JobSet)
         /\ Len(TextJobs(text, centred)) \in 0 .. NumDigits
         /\ \A i \in 1 .. Len(TextJobs(text, centred)) :
              /\ CharAt(text, centred, i) \in DOMAIN Glyph
              /\ TextJobs(text, centred)[i] = Character(i, CharAt(text, centred, i))
         /\ Fits(text) => Len(TextJobs(text, centred)) = NumDigits
<1> DEFINE char(i) == CharAt(text, centred, i)
           shown == {n \in 0 .. NumDigits : \A i \in 1 .. n : char(i) \in DOMAIN Glyph}
           last == CHOOSE n \in shown : \A m \in shown : m <= n
<1>1. TextJobs(text, centred) = [i \in 1 .. last |-> Character(i, char(i))]
  BY DEF TextJobs, CharAt
<1>2. \E n \in shown : \A m \in shown : m <= n
  <2>1. 0 \in shown /\ shown \subseteq 0 .. NumDigits /\ NumDigits \in Nat
    BY DisplayAssumption
  <2> HIDE DEF shown
  <2> QED BY <2>1, GreatestBelow
<1>3. last \in shown /\ \A m \in shown : m <= last
  <2> HIDE DEF shown
  <2> QED BY <1>2
<1>4. Fits(text) => NumDigits \in shown
  <2> SUFFICES ASSUME Fits(text), NEW i \in 1 .. NumDigits PROVE char(i) \in DOMAIN Glyph
    BY DisplayAssumption
  <2> DEFINE x == TextStart(Len(text), centred)
  <2>1. x \in Nat /\ Len(text) \in Nat /\ DOMAIN text = 1 .. Len(text)
    BY TableAssumption, TextStartType
  <2>2. CASE i < x \/ i >= x + Len(text)
    BY <2>2, DisplayAssumption DEF CharAt
  <2>3. CASE ~(i < x \/ i >= x + Len(text))
    <3> HIDE DEF x
    <3>1. i - x + 1 \in 1 .. Len(text)
      BY <2>1, <2>3
    <3>2. text[i - x + 1] \in DOMAIN Glyph
      BY <2>1, <3>1 DEF Fits
    <3> QED BY <2>3, <3>2 DEF CharAt, x
  <2> QED BY <2>2, <2>3
<1>5. /\ last \in Nat /\ last <= NumDigits
      /\ \A i \in 1 .. last : i \in Positions /\ char(i) \in DOMAIN Glyph
      /\ Fits(text) => last = NumDigits
  <2>1. last \in 0 .. NumDigits /\ \A i \in 1 .. last : char(i) \in DOMAIN Glyph
    BY <1>3
  <2> HIDE DEF last, shown, char
  <2> QED BY <1>3, <1>4, <2>1, DisplayAssumption DEF Positions
<1> HIDE DEF last
<1>6. \A i \in 1 .. last : Character(i, char(i)) \in JobSet
  BY <1>5, CharacterJob
<1>7. [i \in 1 .. last |-> Character(i, char(i))] \in [1 .. last -> JobSet]
  BY <1>6
<1> DEFINE J == TextJobs(text, centred)
<1>8. /\ J \in [1 .. last -> JobSet]
      /\ \A i \in 1 .. last : J[i] = Character(i, char(i))
  BY <1>1, <1>7
<1> HIDE DEF J
<1>9. J \in Seq(JobSet) /\ Len(J) = last
  BY <1>5, <1>8
<1>10. last \in 0 .. NumDigits
  BY <1>5, DisplayAssumption
<1>11. \A i \in 1 .. Len(J) : char(i) \in DOMAIN Glyph /\ J[i] = Character(i, char(i))
  BY <1>5, <1>8, <1>9
<1>12. Fits(text) => Len(J) = NumDigits
  BY <1>5, <1>9
<1> QED BY <1>9, <1>10, <1>11, <1>12 DEF J

(* fip_show_hms shows supported characters.                                *)
LEMMA TimeJobsFacts ==
  ASSUME NEW hms \in Times
  PROVE  TimeJobs(hms) \in Seq(JobSet)
<1> DEFINE chars == << Blank, hms[1] \div 10, hms[1] % 10, hms[2] \div 10, hms[2] % 10,
                       hms[3] \div 10, hms[3] % 10 >>
           valid == hms[1] <= 99 /\ hms[2] <= 59 /\ hms[3] <= 59
           digits == {j \in 1 .. 7 : j <= NumDigits}
<1>1. CASE ~valid
  BY <1>1 DEF TimeJobs
<1>2. CASE valid
  <2>1. \A i \in 1 .. 3 : hms[i] \div 10 \in DOMAIN Glyph /\ hms[i] % 10 \in DOMAIN Glyph
    BY <1>2, TableAssumption
  <2>2. \A i \in 1 .. 7 : chars[i] \in DOMAIN Glyph
    BY <2>1, DisplayAssumption
  <2>3. PICK n \in Nat : digits = 1 .. n
    <3>1. CASE NumDigits <= 7
      BY <3>1, DisplayAssumption
    <3>2. CASE NumDigits > 7
      <4>1. digits = 1 .. 7
        BY <3>2, DisplayAssumption
      <4> QED BY <4>1
    <3> QED BY <3>1, <3>2, DisplayAssumption
  <2>4. \A i \in digits : i \in Positions /\ i \in 1 .. 7
    BY DisplayAssumption DEF Positions
  <2>5. TimeJobs(hms) = [i \in digits |-> Character(i, chars[i])]
    BY <1>2 DEF TimeJobs
  <2> HIDE DEF digits, chars
  <2>6. \A i \in digits : Character(i, chars[i]) \in JobSet
    BY <2>2, <2>4, CharacterJob
  <2>7. TimeJobs(hms) \in [1 .. n -> JobSet]
    BY <2>3, <2>5, <2>6
  <2> QED BY <2>7
<1> QED BY <1>1, <1>2
-----------------------------------------------------------------------------
(* Types, for any number of threads.                                       *)

Labels == {"idle", "load", "store", "compare", "data", "command"}
Updating == {"store", "compare", "data", "command"}
Sending == {"compare", "data", "command"}
Kinds == {"none", "init", "text", "ioctl"}
CallTexts == Texts \union {<<>>}
Calls == [kind : Kinds, text : CallTexts]
JobLists == Seq(JobSet)
ByteLists == Seq(ByteSets)

(* A thread in a call has an update to make, and past the load it has a    *)
(* loaded byte for each byte of the update and looks at one of them.       *)
ThreadOK(t) ==
  /\ pc[t] = "idle" <=> jobs[t] = <<>>
  /\ pc[t] = "idle" <=> call[t].kind = "none"
  /\ pc[t] \in Updating => Len(loaded[t]) = Len(Now(t).bytes)
  /\ pc[t] = "store" => next[t] = 1
  /\ pc[t] \in Sending => next[t] <= Len(Now(t).bytes)

TypeInv ==
  /\ fipram \in [Memory -> ByteSets] /\ panel \in [Bytes -> ByteSets]
  /\ aliased \subseteq Bytes /\ display_data \in ByteSets
  /\ pc \in [Threads -> Labels] /\ call \in [Threads -> Calls]
  /\ jobs \in [Threads -> JobLists] /\ loaded \in [Threads -> ByteLists]
  /\ next \in [Threads -> {1, 2}] /\ arg \in [Threads -> ByteSets]
  /\ \A t \in Threads : ThreadOK(t)

(* The current update of a thread and the ones after it.                   *)
LEMMA NowFacts ==
  ASSUME TypeInv, NEW t \in Threads, pc[t] # "idle"
  PROVE  /\ Now(t) \in JobSet /\ Now(t) = jobs[t][1]
         /\ jobs[t] \in JobLists /\ Len(jobs[t]) \in Nat /\ 1 <= Len(jobs[t])
         /\ Tail(jobs[t]) \in JobLists /\ Len(Tail(jobs[t])) = Len(jobs[t]) - 1
         /\ \A k \in 1 .. Len(jobs[t]) - 1 : Tail(jobs[t])[k] = jobs[t][k + 1]
         /\ Tail(jobs[t]) = <<>> <=> Len(jobs[t]) = 1
<1> DEFINE s == jobs[t]
<1>1. s \in Seq(JobSet) /\ s # <<>>
  BY DEF TypeInv, ThreadOK, JobLists
<1> HIDE DEF s
<1>2. Len(s) \in Nat /\ 1 <= Len(s) /\ Head(s) = s[1] /\ s[1] \in JobSet
  BY <1>1
<1>3. /\ Tail(s) \in Seq(JobSet) /\ Len(Tail(s)) = Len(s) - 1
      /\ \A k \in 1 .. Len(s) - 1 : Tail(s)[k] = s[k + 1]
  BY <1>1, <1>2
<1>4. Tail(s) = <<>> <=> Len(s) = 1
  <2> DEFINE r == Tail(s)
  <2>1. r \in Seq(JobSet) /\ Len(r) = Len(s) - 1
    BY <1>3
  <2> HIDE DEF r
  <2>2. r = <<>> <=> Len(r) = 0
    BY <2>1
  <2> QED BY <1>2, <2>1, <2>2 DEF r
<1> QED BY <1>1, <1>2, <1>3, <1>4 DEF Now, JobLists, s

(* A step of a thread leaves the state of the others alone.                *)
Others(t) ==
  \A u \in Threads : u # t =>
    /\ pc'[u] = pc[u] /\ call'[u] = call[u] /\ jobs'[u] = jobs[u]
    /\ loaded'[u] = loaded[u] /\ next'[u] = next[u] /\ arg'[u] = arg[u]

(* The types are kept when those of the thread that steps are.             *)
LEMMA TypeFrame ==
  ASSUME TypeInv, NEW t \in Threads, Others(t), ThreadOK(t)',
         fipram' \in [Memory -> ByteSets], panel' \in [Bytes -> ByteSets],
         aliased' \subseteq Bytes, display_data' \in ByteSets,
         pc' \in [Threads -> Labels], call' \in [Threads -> Calls],
         jobs' \in [Threads -> JobLists], loaded' \in [Threads -> ByteLists],
         next' \in [Threads -> {1, 2}], arg' \in [Threads -> ByteSets]
  PROVE  TypeInv'
<1>1. ASSUME NEW u \in Threads PROVE ThreadOK(u)'
  <2>1. CASE u = t
    BY <2>1
  <2>2. CASE u # t
    <3>1. ThreadOK(u) /\ pc'[u] = pc[u] /\ call'[u] = call[u] /\ jobs'[u] = jobs[u]
          /\ loaded'[u] = loaded[u] /\ next'[u] = next[u]
      BY <2>2 DEF TypeInv, Others
    <3> QED BY <3>1 DEF ThreadOK, Now
  <2> QED BY <2>1, <2>2
<1> QED BY <1>1 DEF TypeInv

(* The copy after a store: the bytes of the update, and no others.         *)
LEMMA StoreEffect ==
  ASSUME TypeInv, NEW t \in Threads, Store(t)
  PROVE  /\ \A i \in 1 .. Len(Now(t).bytes) : fipram'[Now(t).bytes[i].byte] = NewByte(t, i)
         /\ \A b \in Memory : (\A i \in 1 .. Len(Now(t).bytes) : Now(t).bytes[i].byte # b)
                             => fipram'[b] = fipram[b]
         /\ fipram' \in [Memory -> ByteSets]
<1> DEFINE bs == Now(t).bytes
           new(i) == NewByte(t, i)
<1>1. pc[t] = "store" /\ pc[t] # "idle"
  BY DEF Store
<1>2. /\ DOMAIN bs = 1 .. Len(bs) /\ \A i \in 1 .. Len(bs) : bs[i].byte \in Memory
      /\ \A i, k \in 1 .. Len(bs) : bs[i].byte = bs[k].byte => i = k
  BY <1>1, NowFacts, JobFacts
<1>3. \A i \in 1 .. Len(bs) : new(i) \in ByteSets
  <2>1. loaded[t] \in Seq(ByteSets) /\ Len(loaded[t]) = Len(bs)
    BY <1>1 DEF TypeInv, ThreadOK, ByteLists, Updating
  <2>2. \A i \in 1 .. Len(bs) : loaded[t][i] \in ByteSets
    BY <2>1
  <2>3. \A i \in 1 .. Len(bs) : bs[i].keep \subseteq Bits /\ bs[i].set \subseteq Bits
    BY <1>1, NowFacts, JobFacts
  <2> QED BY <2>2, <2>3 DEF NewByte, ByteSets
<1>4. fipram' = [b \in Memory |->
         IF \E i \in DOMAIN bs : bs[i].byte = b
         THEN new(CHOOSE i \in DOMAIN bs : bs[i].byte = b) ELSE fipram[b]]
  BY DEF Store
<1> HIDE DEF bs, new
<1>5. ASSUME NEW i \in 1 .. Len(bs) PROVE fipram'[bs[i].byte] = new(i)
  <2>1. (CHOOSE k \in DOMAIN bs : bs[k].byte = bs[i].byte) = i
    BY <1>2
  <2> QED BY <1>2, <1>4, <2>1
<1>6. ASSUME NEW b \in Memory, \A i \in 1 .. Len(bs) : bs[i].byte # b
      PROVE  fipram'[b] = fipram[b]
  BY <1>2, <1>4, <1>6
<1>7. ASSUME NEW b \in Memory PROVE fipram'[b] \in ByteSets
  <2>1. CASE \E i \in 1 .. Len(bs) : bs[i].byte = b
    BY <1>3, <1>5, <2>1
  <2>2. CASE ~\E i \in 1 .. Len(bs) : bs[i].byte = b
    BY <1>6, <2>2 DEF TypeInv
  <2> QED BY <2>1, <2>2
<1>8. fipram' = [b \in Memory |-> fipram'[b]]
  BY <1>4
<1> QED BY <1>5, <1>6, <1>7, <1>8 DEF bs, new

(* Advance at a byte that is not the last one, and at the last one.        *)
LEMMA AdvanceCases ==
  ASSUME TypeInv, NEW t \in Threads, pc[t] \in Sending, Advance(t)
  PROVE  \/ /\ next[t] = 1 /\ Len(Now(t).bytes) = 2
            /\ next' = [next EXCEPT ![t] = 2] /\ pc' = [pc EXCEPT ![t] = "compare"]
            /\ UNCHANGED <<call, jobs>>
         \/ /\ next[t] = Len(Now(t).bytes) /\ next' = [next EXCEPT ![t] = 1]
            /\ jobs' = [jobs EXCEPT ![t] = Tail(jobs[t])]
            /\ \/ /\ Len(jobs[t]) = 1 /\ pc' = [pc EXCEPT ![t] = "idle"]
                  /\ call' = [call EXCEPT ![t] = NoCall]
               \/ /\ Len(jobs[t]) # 1 /\ pc' = [pc EXCEPT ![t] = "load"]
                  /\ call' = call
<1>1. pc[t] # "idle"
  BY DEF Sending
<1>2. /\ Len(Now(t).bytes) \in {1, 2} /\ next[t] \in {1, 2}
      /\ next[t] <= Len(Now(t).bytes)
  BY <1>1, NowFacts, JobFacts DEF TypeInv, ThreadOK
<1>3. CASE next[t] < Len(Now(t).bytes)
  <2> DEFINE n == next[t]
             len == Len(Now(t).bytes)
  <2>1. n = 1 /\ len = 2 /\ n + 1 = 2
    <3>1. n \in {1, 2} /\ len \in {1, 2} /\ n < len
      BY <1>2, <1>3
    <3> HIDE DEF n, len
    <3> QED BY <3>1
  <2>2. /\ next' = [next EXCEPT ![t] = next[t] + 1] /\ pc' = [pc EXCEPT ![t] = "compare"]
        /\ UNCHANGED <<call, jobs>>
    BY <1>3 DEF Advance
  <2> QED BY <2>1, <2>2
<1>4. CASE ~(next[t] < Len(Now(t).bytes))
  <2>1. next[t] = Len(Now(t).bytes)
    BY <1>2, <1>4
  <2>2. CASE Len(jobs[t]) = 1
    BY <1>4, <2>1, <2>2 DEF Advance
  <2>3. CASE Len(jobs[t]) # 1
    BY <1>4, <2>1, <2>3 DEF Advance
  <2> QED BY <2>2, <2>3
<1> QED BY <1>3, <1>4

(* The step of the fields Advance changes.                                 *)
LEMMA AdvanceType ==
  ASSUME TypeInv, NEW t \in Threads, pc[t] \in Sending, Advance(t), UNCHANGED <<loaded, arg>>
  PROVE  /\ Others(t) /\ ThreadOK(t)'
         /\ pc' \in [Threads -> Labels] /\ call' \in [Threads -> Calls]
         /\ jobs' \in [Threads -> JobLists] /\ next' \in [Threads -> {1, 2}]
<1>1. /\ pc \in [Threads -> Labels] /\ call \in [Threads -> Calls]
      /\ jobs \in [Threads -> JobLists] /\ next \in [Threads -> {1, 2}]
      /\ ThreadOK(t)
  BY DEF TypeInv
<1>2. pc[t] # "idle" /\ pc[t] \in Updating
  BY DEF Sending, Updating
<1>3. /\ Tail(jobs[t]) \in JobLists /\ jobs[t] # <<>>
      /\ Tail(jobs[t]) = <<>> <=> Len(jobs[t]) = 1
  BY <1>1, <1>2, NowFacts DEF ThreadOK
<1>4. NoCall \in Calls /\ NoCall.kind = "none"
  BY DEF NoCall, Calls, Kinds, CallTexts
<1>5. "idle" \in Labels /\ "load" \in Labels /\ "compare" \in Labels
  BY DEF Labels
<1>6. /\ "load" \notin Updating /\ "load" \notin Sending
      /\ "idle" \notin Updating /\ "idle" \notin Sending
  BY DEF Updating, Sending
<1>7. CASE /\ next[t] = 1 /\ Len(Now(t).bytes) = 2
           /\ next' = [next EXCEPT ![t] = 2] /\ pc' = [pc EXCEPT ![t] = "compare"]
           /\ UNCHANGED <<call, jobs>>
  <2>1. pc'[t] = "compare" /\ next'[t] = 2 /\ Now(t)' = Now(t) /\ call'[t] = call[t]
        /\ loaded'[t] = loaded[t] /\ jobs'[t] = jobs[t]
    BY <1>1, <1>7 DEF Now
  <2>2. ThreadOK(t)'
    <3>1. "compare" \in Updating /\ "compare" \in Sending
      BY DEF Updating, Sending
    <3>2. Len(loaded[t]) = Len(Now(t).bytes) /\ jobs[t] # <<>> /\ call[t].kind # "none"
      BY <1>1, <1>2, <1>3 DEF ThreadOK
    <3>n. Now(t)'.bytes = Now(t).bytes
      BY <2>1, Zenon
    <3>l. Len(loaded'[t]) = Len(Now(t)'.bytes)
      BY <2>1, <3>2, <3>n, Zenon
    <3>m. Len(Now(t)'.bytes) = 2
      BY <1>7, <3>n, Zenon
    <3>3. next'[t] <= Len(Now(t)'.bytes)
      BY <2>1, <3>m
    <3>4. jobs'[t] # <<>> /\ call'[t].kind # "none" /\ pc'[t] = "compare"
      BY <2>1, <3>2
    <3> QED BY <3>1, <3>l, <3>3, <3>4 DEF ThreadOK
  <2> QED BY <1>1, <1>5, <1>7, <2>2 DEF Others
<1>8. CASE /\ next[t] = Len(Now(t).bytes) /\ next' = [next EXCEPT ![t] = 1]
           /\ jobs' = [jobs EXCEPT ![t] = Tail(jobs[t])]
           /\ Len(jobs[t]) = 1 /\ pc' = [pc EXCEPT ![t] = "idle"]
           /\ call' = [call EXCEPT ![t] = NoCall]
  <2>1. pc'[t] = "idle" /\ jobs'[t] = <<>> /\ call'[t].kind = "none"
    BY <1>1, <1>3, <1>4, <1>8
  <2>2. ThreadOK(t)'
    BY <1>6, <2>1 DEF ThreadOK
  <2> QED BY <1>1, <1>3, <1>4, <1>5, <1>8, <2>2 DEF Others
<1>9. CASE /\ next[t] = Len(Now(t).bytes) /\ next' = [next EXCEPT ![t] = 1]
           /\ jobs' = [jobs EXCEPT ![t] = Tail(jobs[t])]
           /\ Len(jobs[t]) # 1 /\ pc' = [pc EXCEPT ![t] = "load"]
           /\ call' = call
  <2>1. pc'[t] = "load" /\ jobs'[t] # <<>> /\ call'[t].kind # "none"
    BY <1>1, <1>2, <1>3, <1>9 DEF ThreadOK
  <2>2. ThreadOK(t)'
    BY <1>6, <2>1 DEF ThreadOK
  <2> QED BY <1>1, <1>3, <1>5, <1>9, <2>2 DEF Others
<1> QED BY <1>7, <1>8, <1>9, AdvanceCases

(* A call begins with a list of updates.                                   *)
LEMMA BeginType ==
  ASSUME TypeInv, NEW t \in Threads, NEW kind \in Kinds \ {"none"}, NEW text \in CallTexts,
         NEW js \in JobLists, Begin(t, kind, text, js)
  PROVE  TypeInv'
<1>1. /\ pc' = [pc EXCEPT ![t] = "load"] /\ js # <<>>
      /\ call' = [call EXCEPT ![t] = [kind |-> kind, text |-> text]]
      /\ jobs' = [jobs EXCEPT ![t] = js]
      /\ UNCHANGED <<fipram, panel, aliased, display_data, loaded, next, arg>>
  BY DEF Begin
<1>2. "load" \in Labels /\ [kind |-> kind, text |-> text] \in Calls
  BY DEF Labels, Calls
<1>3. /\ pc' \in [Threads -> Labels] /\ call' \in [Threads -> Calls]
      /\ jobs' \in [Threads -> JobLists]
  BY <1>1, <1>2 DEF TypeInv
<1>4. Others(t)
  BY <1>1 DEF TypeInv, Others
<1>5. ThreadOK(t)'
  <2>1. pc'[t] = "load" /\ jobs'[t] # <<>> /\ call'[t].kind = kind /\ kind # "none"
    BY <1>1 DEF TypeInv
  <2> QED BY <2>1 DEF ThreadOK, Updating, Sending
<1>6. /\ fipram' \in [Memory -> ByteSets] /\ panel' \in [Bytes -> ByteSets]
      /\ aliased' \subseteq Bytes /\ display_data' \in ByteSets /\ loaded' \in [Threads -> ByteLists]
      /\ next' \in [Threads -> {1, 2}] /\ arg' \in [Threads -> ByteSets]
  BY <1>1 DEF TypeInv
<1> QED BY <1>3, <1>4, <1>5, <1>6, TypeFrame

(* Which lists a call may begin with, and as what.                         *)
LEMMA CallCases ==
  ASSUME NEW t \in Threads, Call(t)
  PROVE  \/ \E text \in Texts :
               /\ TextJobs(text, TRUE) \in JobLists
               /\ Begin(t, "text", text, TextJobs(text, TRUE))
         \/ \E js \in JobLists : Begin(t, "ioctl", <<>>, js)
<1>1. CASE \E text \in Texts : Write(t, text)
  BY <1>1, TextJobsFacts DEF Write, JobLists
<1>2. CASE \E target \in Targets, on \in BOOLEAN : IoctlRaw(t, target[1], target[2], on)
  <2>1. PICK target \in Targets, on \in BOOLEAN : IoctlRaw(t, target[1], target[2], on)
    BY <1>2
  <2> DEFINE j == Raw(target[1], target[2], on)
  <2>2. j \in JobSet /\ Begin(t, "ioctl", <<>>, <<j>>)
    BY <2>1, RawJob DEF IoctlRaw
  <2> HIDE DEF j
  <2>3. <<j>> \in JobLists
    BY <2>2 DEF JobLists
  <2> QED BY <2>2, <2>3
<1>3. CASE \E i \in 1 .. NumDigits, c \in DOMAIN Glyph : IoctlChar(t, i, c)
  <2>1. PICK i \in 1 .. NumDigits, c \in DOMAIN Glyph : IoctlChar(t, i, c)
    BY <1>3
  <2> DEFINE j == Character(i, c)
  <2>2. j \in JobSet /\ Begin(t, "ioctl", <<>>, <<j>>)
    BY <2>1, CharacterJob DEF IoctlChar, Positions
  <2> HIDE DEF j
  <2>3. <<j>> \in JobLists
    BY <2>2 DEF JobLists
  <2> QED BY <2>2, <2>3
<1>4. CASE \E hms \in Times : IoctlTime(t, hms)
  BY <1>4, TimeJobsFacts DEF IoctlTime, JobLists
<1>5. CASE IoctlClear(t)
  BY <1>5, ClearJobsFacts DEF IoctlClear, JobLists
<1> QED BY <1>1, <1>2, <1>3, <1>4, <1>5 DEF Call

(* Every step of a thread keeps the types.                                 *)
LEMMA StepType ==
  ASSUME TypeInv, NEW t \in Threads, Step(t)
  PROVE  TypeInv'
<1>1. CASE Load(t)
  <2>1. pc[t] # "idle" /\ jobs[t] # <<>> /\ call[t].kind # "none"
    BY <1>1 DEF Load, TypeInv, ThreadOK
  <2> DEFINE bs == Now(t).bytes
             ld == [i \in DOMAIN bs |-> fipram[bs[i].byte]]
  <2>2. /\ loaded' = [loaded EXCEPT ![t] = ld] /\ next' = [next EXCEPT ![t] = 1]
        /\ pc' = [pc EXCEPT ![t] = "store"]
        /\ UNCHANGED <<fipram, panel, aliased, display_data, call, jobs, arg>>
    BY <1>1 DEF Load
  <2>3. /\ Len(bs) \in {1, 2} /\ DOMAIN bs = 1 .. Len(bs)
        /\ \A i \in 1 .. Len(bs) : bs[i].byte \in Memory
    BY <2>1, NowFacts, JobFacts
  <2>4. ld \in [1 .. Len(bs) -> ByteSets]
    <3> HIDE DEF bs
    <3> QED BY <2>3 DEF TypeInv
  <2>5. ld \in ByteLists /\ Len(ld) = Len(bs)
    <3> HIDE DEF bs, ld
    <3> QED BY <2>3, <2>4 DEF ByteLists
  <2>6. Now(t)' = Now(t)
    BY <2>2 DEF Now
  <2> HIDE DEF bs, ld
  <2>7. loaded' \in [Threads -> ByteLists] /\ next' \in [Threads -> {1, 2}]
        /\ pc' \in [Threads -> Labels]
    BY <2>2, <2>5 DEF TypeInv, Labels
  <2>8. Others(t)
    BY <2>2 DEF TypeInv, Others
  <2>9. ThreadOK(t)'
    <3>1. /\ pc'[t] = "store" /\ next'[t] = 1 /\ loaded'[t] = ld
          /\ jobs'[t] # <<>> /\ call'[t].kind # "none"
      BY <2>1, <2>2 DEF TypeInv
    <3>2. Len(loaded'[t]) = Len(Now(t)'.bytes)
      BY <2>5, <2>6, <3>1 DEF bs
    <3> QED BY <3>1, <3>2 DEF ThreadOK, Sending
  <2>10. /\ fipram' \in [Memory -> ByteSets] /\ panel' \in [Bytes -> ByteSets]
         /\ aliased' \subseteq Bytes /\ display_data' \in ByteSets /\ call' \in [Threads -> Calls]
         /\ jobs' \in [Threads -> JobLists] /\ arg' \in [Threads -> ByteSets]
    BY <2>2 DEF TypeInv
  <2> QED BY <2>7, <2>8, <2>9, <2>10, TypeFrame
<1>2. CASE Store(t)
  <2>1. /\ pc[t] = "store" /\ pc' = [pc EXCEPT ![t] = "compare"]
        /\ UNCHANGED <<panel, aliased, display_data, call, jobs, loaded, next, arg>>
    BY <1>2 DEF Store
  <2>2. fipram' \in [Memory -> ByteSets]
    BY <1>2, StoreEffect
  <2>3. Others(t) /\ pc' \in [Threads -> Labels]
    BY <2>1 DEF TypeInv, Others, Labels
  <2>4. ThreadOK(t)'
    <3>1. /\ ThreadOK(t) /\ pc'[t] = "compare" /\ Now(t)' = Now(t)
          /\ UNCHANGED <<call, jobs, loaded, next>>
      BY <2>1 DEF TypeInv, Now
    <3>2. pc[t] \in Updating /\ pc[t] # "idle" /\ pc[t] \notin Sending
      BY <2>1 DEF Updating, Sending
    <3>3. /\ Len(loaded[t]) = Len(Now(t).bytes) /\ next[t] = 1 /\ jobs[t] # <<>>
          /\ call[t].kind # "none"
      BY <2>1, <3>1, <3>2 DEF ThreadOK
    <3>4. Len(Now(t).bytes) \in {1, 2}
      BY <3>2, NowFacts, JobFacts
    <3>5. Len(loaded'[t]) = Len(Now(t)'.bytes) /\ next'[t] = 1
      BY <3>1, <3>3
    <3>6. 1 <= Len(Now(t)'.bytes)
      <4> DEFINE len == Len(Now(t).bytes)
      <4>1. 1 <= len
        <5> HIDE DEF len
        <5>1. len \in {1, 2}
          BY <3>4 DEF len
        <5> QED BY <5>1
      <4> QED BY <3>1, <4>1
    <3>7. jobs'[t] # <<>> /\ call'[t].kind # "none"
      BY <3>1, <3>3
    <3> QED BY <3>1, <3>5, <3>6, <3>7 DEF ThreadOK
  <2>5. /\ panel' \in [Bytes -> ByteSets] /\ aliased' \subseteq Bytes
        /\ display_data' \in ByteSets
        /\ call' \in [Threads -> Calls] /\ jobs' \in [Threads -> JobLists]
        /\ loaded' \in [Threads -> ByteLists] /\ next' \in [Threads -> {1, 2}]
        /\ arg' \in [Threads -> ByteSets]
    BY <2>1 DEF TypeInv
  <2> QED BY <2>2, <2>3, <2>4, <2>5, TypeFrame
<1>3. ASSUME pc[t] \in Sending PROVE CurrentByte(t) \in Memory
  <2>1. pc[t] # "idle"
    BY <1>3 DEF Sending
  <2>2. Now(t) \in JobSet /\ next[t] \in {1, 2} /\ next[t] <= Len(Now(t).bytes)
    BY <1>3, <2>1, NowFacts DEF TypeInv, ThreadOK
  <2>3. next[t] \in 1 .. Len(Now(t).bytes)
    BY <2>2, JobFacts
  <2> QED BY <2>2, <2>3, JobFacts DEF CurrentByte
<1>4. CASE Skip(t)
  <2>1. /\ pc[t] \in Sending /\ Advance(t)
        /\ UNCHANGED <<fipram, panel, aliased, display_data, loaded, arg>>
    BY <1>4 DEF Skip, Sending
  <2>2. /\ fipram' \in [Memory -> ByteSets] /\ panel' \in [Bytes -> ByteSets]
        /\ aliased' \subseteq Bytes /\ display_data' \in ByteSets /\ loaded' \in [Threads -> ByteLists]
        /\ arg' \in [Threads -> ByteSets]
    BY <2>1 DEF TypeInv
  <2> QED BY <2>1, <2>2, AdvanceType, TypeFrame
<1>5. ASSUME NEW label \in {"data", "command"}, pc[t] \in Sending,
             pc' = [pc EXCEPT ![t] = label], UNCHANGED <<call, jobs, loaded, next>>
      PROVE  ThreadOK(t)' /\ pc' \in [Threads -> Labels]
  <2>1. /\ ThreadOK(t) /\ pc'[t] = label /\ Now(t)' = Now(t) /\ pc' \in [Threads -> Labels]
    BY <1>5 DEF TypeInv, Now, Labels
  <2>2. pc[t] # "idle" /\ pc[t] \in Updating /\ label \in Sending /\ label \in Updating
    BY <1>5 DEF Sending, Updating
  <2> QED BY <1>5, <2>1, <2>2 DEF ThreadOK
<1>6. CASE Send(t)
  <2>1. /\ pc[t] \in Sending /\ pc' = [pc EXCEPT ![t] = "data"]
        /\ arg' = [arg EXCEPT ![t] = fipram[CurrentByte(t)]]
        /\ UNCHANGED <<fipram, panel, aliased, display_data, call, jobs, loaded, next>>
    BY <1>6 DEF Send, Sending
  <2>2. arg' \in [Threads -> ByteSets]
    BY <1>3, <2>1 DEF TypeInv
  <2>3. Others(t)
    BY <2>1 DEF TypeInv, Others
  <2>4. /\ fipram' \in [Memory -> ByteSets] /\ panel' \in [Bytes -> ByteSets]
        /\ aliased' \subseteq Bytes /\ display_data' \in ByteSets /\ call' \in [Threads -> Calls]
        /\ jobs' \in [Threads -> JobLists] /\ loaded' \in [Threads -> ByteLists]
        /\ next' \in [Threads -> {1, 2}]
    BY <2>1 DEF TypeInv
  <2> QED BY <1>5, <2>1, <2>2, <2>3, <2>4, TypeFrame
<1>7. CASE WriteData(t)
  <2>1. /\ pc[t] \in Sending /\ pc' = [pc EXCEPT ![t] = "command"] /\ display_data' = arg[t]
        /\ UNCHANGED <<fipram, panel, aliased, call, jobs, loaded, next, arg>>
    BY <1>7 DEF WriteData, Sending
  <2>2. Others(t)
    BY <2>1 DEF TypeInv, Others
  <2>3. /\ fipram' \in [Memory -> ByteSets] /\ panel' \in [Bytes -> ByteSets]
        /\ aliased' \subseteq Bytes /\ display_data' \in ByteSets /\ call' \in [Threads -> Calls]
        /\ jobs' \in [Threads -> JobLists] /\ loaded' \in [Threads -> ByteLists]
        /\ next' \in [Threads -> {1, 2}] /\ arg' \in [Threads -> ByteSets]
    BY <2>1 DEF TypeInv
  <2> QED BY <1>5, <2>1, <2>2, <2>3, TypeFrame
<1>8. CASE WriteCommand(t)
  <2> DEFINE address == CurrentByte(t) % AddressSpan
  <2>1. /\ pc[t] \in Sending /\ Advance(t)
        /\ panel' = [b \in Bytes |-> IF b = address THEN display_data ELSE panel[b]]
        /\ \/ aliased' = aliased \ {address}
           \/ aliased' = aliased \union ({address} \intersect Bytes)
        /\ UNCHANGED <<fipram, display_data, loaded, arg>>
    BY <1>8 DEF WriteCommand, Sending
  <2> HIDE DEF address
  <2>2. /\ fipram' \in [Memory -> ByteSets] /\ panel' \in [Bytes -> ByteSets]
        /\ aliased' \subseteq Bytes /\ display_data' \in ByteSets /\ loaded' \in [Threads -> ByteLists]
        /\ arg' \in [Threads -> ByteSets]
    BY <1>3, <2>1 DEF TypeInv
  <2> QED BY <2>1, <2>2, AdvanceType, TypeFrame
<1> QED BY <1>1, <1>2, <1>4, <1>6, <1>7, <1>8 DEF Step

(* The loader's call clears the panel and shows a text.                    *)
LEMMA InitJobs ==
  ASSUME NEW loading \in Texts
  PROVE  /\ ClearJobs \o TextJobs(loading, FALSE) \in JobLists
         /\ ClearJobs \o TextJobs(loading, FALSE) # <<>>
         /\ \A b \in Bytes :
              /\ b + 1 \in 1 .. Len(ClearJobs \o TextJobs(loading, FALSE))
              /\ (ClearJobs \o TextJobs(loading, FALSE))[b + 1].force
              /\ (ClearJobs \o TextJobs(loading, FALSE))[b + 1].bytes[1].byte = b
<1> DEFINE c == ClearJobs
           x == TextJobs(loading, FALSE)
<1>1. c \in Seq(JobSet) /\ x \in Seq(JobSet) /\ Len(c) = RamSize
  BY ClearJobsFacts, TextJobsFacts
<1>2. \A b \in Bytes : c[b + 1].force /\ c[b + 1].bytes[1].byte = b
  BY ClearJobsFacts
<1> HIDE DEF c, x
<1>3. RamSize \in Nat /\ 1 <= RamSize
  BY DisplayAssumption
<1>4. c \o x \in Seq(JobSet) /\ Len(c \o x) = Len(c) + Len(x) /\ Len(x) \in Nat
  BY <1>1
<1>5. \A i \in 1 .. RamSize : (c \o x)[i] = c[i]
  BY <1>1, <1>3, <1>4
<1>6. \A b \in Bytes : b + 1 \in 1 .. RamSize
  BY <1>3 DEF Bytes
<1>7. c \o x # <<>>
  BY <1>1, <1>3, <1>4
<1>8. \A b \in Bytes : b + 1 \in 1 .. Len(c \o x)
  BY <1>1, <1>3, <1>4, <1>6
<1> QED BY <1>2, <1>4, <1>5, <1>6, <1>7, <1>8 DEF JobLists, c, x

(* The types hold when the driver is loaded,                               *)
LEMMA TypeInit == Init => TypeInv
<1> SUFFICES ASSUME Init PROVE TypeInv
  OBVIOUS
<1> USE DEF Init
<1>1. PICK t \in Threads, loading \in Texts :
        /\ pc = [u \in Threads |-> IF u = t THEN "load" ELSE "idle"]
        /\ call = [u \in Threads |->
             IF u = t THEN [kind |-> "init", text |-> <<>>] ELSE NoCall]
        /\ jobs = [u \in Threads |->
             IF u = t THEN ClearJobs \o TextJobs(loading, FALSE) ELSE <<>>]
  OBVIOUS
<1> DEFINE js == ClearJobs \o TextJobs(loading, FALSE)
<1>2. js \in JobLists /\ js # <<>> /\ <<>> \in JobLists /\ <<>> \in ByteLists
  <2>1. js \in JobLists /\ js # <<>>
    BY InitJobs
  <2> HIDE DEF Init
  <2>2. <<>> \in JobLists /\ <<>> \in ByteLists
    BY DEF JobLists, ByteLists
  <2> HIDE DEF js
  <2> QED BY <2>1, <2>2
<1>3. {} \in ByteSets /\ Bits \in ByteSets
  BY DEF ByteSets
<1>4. /\ NoCall \in Calls /\ NoCall.kind = "none"
      /\ [kind |-> "init", text |-> <<>>] \in Calls
  BY DEF NoCall, Calls, Kinds, CallTexts
<1> HIDE DEF js
<1>5. /\ fipram \in [Memory -> ByteSets] /\ panel \in [Bytes -> ByteSets]
      /\ aliased \subseteq Bytes /\ display_data \in ByteSets
  <2>1. PICK behind \in {{}, Bits} :
          fipram = [b \in Memory |-> IF b \in Bytes THEN {} ELSE behind]
    OBVIOUS
  <2>2. panel \in [Bytes -> {{}, Bits}] /\ aliased = {} /\ display_data = {}
    OBVIOUS
  <2> HIDE DEF Init
  <2> QED BY <1>3, <2>1, <2>2
<1>6. pc \in [Threads -> Labels] /\ call \in [Threads -> Calls]
  BY <1>1, <1>4 DEF Labels
<1>7. jobs \in [Threads -> JobLists]
  BY <1>1, <1>2 DEF js
<1>8. /\ loaded \in [Threads -> ByteLists] /\ next \in [Threads -> {1, 2}]
      /\ arg \in [Threads -> ByteSets]
  BY <1>2, <1>3
<1>9. ASSUME NEW u \in Threads PROVE ThreadOK(u)
  <2>1. CASE u = t
    <3>1. pc[u] = "load" /\ call[u].kind = "init" /\ jobs[u] # <<>>
      BY <1>1, <1>2, <2>1 DEF js
    <3> QED BY <3>1 DEF ThreadOK, Updating, Sending
  <2>2. CASE u # t
    <3>1. pc[u] = "idle" /\ call[u].kind = "none" /\ jobs[u] = <<>>
      BY <1>1, <1>4, <2>2
    <3> QED BY <3>1 DEF ThreadOK, Updating, Sending
  <2> QED BY <2>1, <2>2
<1> QED BY <1>5, <1>6, <1>7, <1>8, <1>9 DEF TypeInv

(* every step keeps them,                                                  *)
LEMMA TypeStep == TypeInv /\ [Next]_vars => TypeInv'
<1> SUFFICES ASSUME TypeInv, [Next]_vars PROVE TypeInv'
  OBVIOUS
<1>1. CASE UNCHANGED vars
  BY <1>1 DEF vars, local, TypeInv, ThreadOK, Now
<1>2. ASSUME NEW t \in Threads, Step(t) PROVE TypeInv'
  BY <1>2, StepType
<1>3. ASSUME NEW t \in Threads, Call(t) PROVE TypeInv'
  <2>1. CASE \E text \in Texts : /\ TextJobs(text, TRUE) \in JobLists
                                /\ Begin(t, "text", text, TextJobs(text, TRUE))
    BY <2>1, BeginType DEF Kinds, CallTexts
  <2>2. CASE \E js \in JobLists : Begin(t, "ioctl", <<>>, js)
    BY <2>2, BeginType DEF Kinds, CallTexts
  <2> QED BY <1>3, <2>1, <2>2, CallCases
<1> QED BY <1>1, <1>2, <1>3 DEF Next

(* and so they always hold.                                                *)
LEMMA TypeInvariant == Spec => []TypeInv
BY TypeInit, TypeStep, PTL DEF Spec

(* The state of the display has its types, with any number of threads and  *)
(* any raw requests: an update stays in the memory that a byte of a        *)
(* request can address from the copy on (not in the copy), and a thread    *)
(* has updates left exactly while it is in a call.                         *)
THEOREM TypeCorrect == Spec => []TypeOK
<1>1. TypeInv => TypeOK
  <2> SUFFICES ASSUME TypeInv PROVE TypeOK
    OBVIOUS
  <2>1. \A t \in Threads : call[t].kind \in Kinds
    BY DEF TypeInv, Calls
  <2> QED BY <2>1 DEF TypeInv, ThreadOK, TypeOK, ByteSets, Labels, Kinds
<1> QED BY <1>1, TypeInvariant, PTL
-----------------------------------------------------------------------------
(* The panel's memory against the copy, for one thread.                    *)

OneThread == Threads # {} /\ \A t, u \in Threads : t = u

(* The byte has a forced update to come; the byte belongs to the current   *)
(* update and has not been sent or skipped yet.                            *)
Forced(t, b) ==
  \E k \in 1 .. Len(jobs[t]) : jobs[t][k].force /\ jobs[t][k].bytes[1].byte = b
Unsent(t, b) ==
  /\ pc[t] \in Sending
  /\ \E i \in 1 .. Len(Now(t).bytes) : next[t] <= i /\ Now(t).bytes[i].byte = b

(* Only such bytes of the panel differ from the copy, and those written    *)
(* last for a byte behind it.                                              *)
Shown(t) ==
  \A b \in Bytes \ aliased : panel[b] = fipram[b] \/ Forced(t, b) \/ Unsent(t, b)

(* The loaded bytes are what the panel still shows, until they are sent.   *)
LoadedShown(t) ==
  pc[t] \in Updating => \A i \in 1 .. Len(Now(t).bytes) :
    next[t] <= i /\ Now(t).bytes[i].byte \in Bytes \ aliased =>
      panel[Now(t).bytes[i].byte] = loaded[t][i] \/ Forced(t, Now(t).bytes[i].byte)

LoadedNow(t) ==
  pc[t] = "store" => \A i \in 1 .. Len(Now(t).bytes) :
    loaded[t][i] = fipram[Now(t).bytes[i].byte]

Carried(t) ==
  /\ pc[t] = "data" => arg[t] = fipram[CurrentByte(t)]
  /\ pc[t] = "command" => display_data = fipram[CurrentByte(t)]

PanelInv == \A t \in Threads : Shown(t) /\ LoadedShown(t) /\ LoadedNow(t) /\ Carried(t)

(* The byte an update looks at.                                            *)
LEMMA CurrentFacts ==
  ASSUME TypeInv, NEW t \in Threads, pc[t] \in Sending
  PROVE  /\ pc[t] # "idle" /\ pc[t] \in Updating
         /\ next[t] \in 1 .. Len(Now(t).bytes) /\ Len(Now(t).bytes) \in {1, 2}
         /\ CurrentByte(t) = Now(t).bytes[next[t]].byte /\ CurrentByte(t) \in Memory
<1>1. pc[t] # "idle" /\ pc[t] \in Updating
  BY DEF Sending, Updating
<1>2. /\ Now(t) \in JobSet /\ next[t] \in {1, 2} /\ next[t] <= Len(Now(t).bytes)
      /\ Len(Now(t).bytes) \in {1, 2}
  BY <1>1, NowFacts, JobFacts DEF TypeInv, ThreadOK
<1>3. next[t] \in 1 .. Len(Now(t).bytes)
  BY <1>2
<1> QED BY <1>1, <1>2, <1>3, JobFacts DEF CurrentByte

(* When an update ends, a forced update to come is still to come, unless   *)
(* it was this one.                                                        *)
LEMMA ForcedTail ==
  ASSUME TypeInv, NEW t \in Threads, pc[t] # "idle", NEW b, Forced(t, b),
         jobs' = [jobs EXCEPT ![t] = Tail(jobs[t])]
  PROVE  (Now(t).force /\ Now(t).bytes[1].byte = b) \/ Forced(t, b)'
<1> DEFINE s == jobs[t]
           r == Tail(s)
<1>1. /\ Now(t) = s[1] /\ Len(s) \in Nat /\ Len(r) = Len(s) - 1
      /\ \A k \in 1 .. Len(s) - 1 : r[k] = s[k + 1]
  BY NowFacts
<1>2. jobs'[t] = r
  BY DEF TypeInv
<1>3. PICK k \in 1 .. Len(s) : s[k].force /\ s[k].bytes[1].byte = b
  BY DEF Forced
<1> HIDE DEF s, r
<1>4. CASE k = 1
  BY <1>1, <1>3, <1>4
<1>5. CASE k # 1
  <2>1. k - 1 \in 1 .. Len(s) - 1 /\ (k - 1) + 1 = k
    BY <1>1, <1>3, <1>5
  <2>2. k - 1 \in 1 .. Len(r) /\ r[k - 1] = s[k]
    BY <1>1, <2>1
  <2>3. Forced(t, b)'
    BY <1>2, <1>3, <2>2 DEF Forced
  <2> QED BY <2>3
<1> QED BY <1>4, <1>5

(* At first every byte has a forced update to come.                        *)
LEMMA PanelInit == OneThread /\ Init => PanelInv
<1> SUFFICES ASSUME OneThread, Init, NEW u \in Threads
             PROVE  Shown(u) /\ LoadedShown(u) /\ LoadedNow(u) /\ Carried(u)
  BY DEF PanelInv
<1>1. PICK t \in Threads, loading \in Texts :
        /\ pc = [v \in Threads |-> IF v = t THEN "load" ELSE "idle"]
        /\ jobs = [v \in Threads |->
             IF v = t THEN ClearJobs \o TextJobs(loading, FALSE) ELSE <<>>]
  BY DEF Init
<1>2. u = t /\ pc[u] = "load" /\ jobs[u] = ClearJobs \o TextJobs(loading, FALSE)
  BY <1>1 DEF OneThread
<1>3. ASSUME NEW b \in Bytes PROVE Forced(u, b)
  <2> DEFINE js == ClearJobs \o TextJobs(loading, FALSE)
  <2>1. b + 1 \in 1 .. Len(js) /\ js[b + 1].force /\ js[b + 1].bytes[1].byte = b
    BY InitJobs
  <2>2. jobs[u] = js
    BY <1>2
  <2> HIDE DEF js
  <2> QED BY <2>1, <2>2 DEF Forced
<1> QED BY <1>2, <1>3 DEF Shown, LoadedShown, LoadedNow, Carried, Updating

(* The steps of an update, for the thread that takes it.                   *)
LEMMA PanelLoad ==
  ASSUME TypeInv, NEW t \in Threads, Shown(t), Load(t)
  PROVE  (Shown(t) /\ LoadedShown(t) /\ LoadedNow(t) /\ Carried(t))'
<1> DEFINE bs == Now(t).bytes
           ld == [i \in DOMAIN bs |-> fipram[bs[i].byte]]
<1>1. /\ pc[t] = "load" /\ pc'[t] = "store" /\ next'[t] = 1 /\ loaded'[t] = ld
      /\ UNCHANGED <<fipram, panel, aliased, jobs>>
  BY DEF Load, TypeInv
<1>2. pc[t] # "idle" /\ pc[t] \notin Sending /\ "store" \notin Sending
  BY <1>1 DEF Sending
<1>3. DOMAIN bs = 1 .. Len(bs) /\ \A i \in 1 .. Len(bs) : bs[i].byte \in Memory
  BY <1>2, NowFacts, JobFacts
<1>4. Now(t)' = Now(t) /\ \A b : Forced(t, b)' <=> Forced(t, b)
  BY <1>1 DEF Now, Forced
<1>5. \A b \in Bytes \ aliased : panel[b] = fipram[b] \/ Forced(t, b)
  BY <1>2 DEF Shown, Unsent
<1>6. \A i \in 1 .. Len(bs) : loaded'[t][i] = fipram[bs[i].byte]
  BY <1>1, <1>3
<1>7. Shown(t)'
  BY <1>1, <1>4, <1>5 DEF Shown
<1>8. LoadedNow(t)'
  BY <1>1, <1>4, <1>6 DEF LoadedNow
<1>9. LoadedShown(t)'
  BY <1>1, <1>3, <1>4, <1>5, <1>6 DEF LoadedShown
<1>10. Carried(t)'
  BY <1>1 DEF Carried
<1> QED BY <1>7, <1>8, <1>9, <1>10

(* A store makes only bytes of its own update differ from the panel.       *)
LEMMA PanelStore ==
  ASSUME TypeInv, NEW t \in Threads, Shown(t), LoadedShown(t), Store(t)
  PROVE  (Shown(t) /\ LoadedShown(t) /\ LoadedNow(t) /\ Carried(t))'
<1> DEFINE bs == Now(t).bytes
<1>1. /\ pc[t] = "store" /\ pc'[t] = "compare"
      /\ UNCHANGED <<panel, aliased, display_data, jobs, loaded, next, arg>>
  BY DEF Store, TypeInv
<1>2. /\ pc[t] # "idle" /\ pc[t] \notin Sending /\ pc[t] \in Updating
      /\ "compare" \in Sending /\ "compare" \in Updating
  BY <1>1 DEF Sending, Updating
<1>3. next[t] = 1 /\ DOMAIN bs = 1 .. Len(bs) /\ Len(bs) \in {1, 2}
  BY <1>1, <1>2, NowFacts, JobFacts DEF TypeInv, ThreadOK
<1>4. Now(t)' = Now(t) /\ \A b : Forced(t, b)' <=> Forced(t, b)
  BY <1>1 DEF Now, Forced
<1>5. \A b \in Bytes \ aliased : panel[b] = fipram[b] \/ Forced(t, b)
  BY <1>2 DEF Shown, Unsent
<1>6. ASSUME NEW b \in Bytes \ aliased'
      PROVE  panel'[b] = fipram'[b] \/ Forced(t, b)' \/ Unsent(t, b)'
  <2>1. CASE \E i \in 1 .. Len(bs) : bs[i].byte = b
    BY <1>1, <1>2, <1>3, <1>4, <2>1 DEF Unsent
  <2>2. CASE ~\E i \in 1 .. Len(bs) : bs[i].byte = b
    <3>1. fipram'[b] = fipram[b]
      BY <2>2, StoreEffect, MemoryFacts
    <3> QED BY <1>1, <1>4, <1>5, <3>1
  <2> QED BY <2>1, <2>2
<1>7. LoadedShown(t)'
  BY <1>1, <1>2, <1>4 DEF LoadedShown
<1>8. LoadedNow(t)' /\ Carried(t)'
  BY <1>1 DEF LoadedNow, Carried
<1> QED BY <1>6, <1>7, <1>8 DEF Shown

(* After the current byte: the panel agrees with the copy there, or a      *)
(* forced update that is not the current one is to come, or the byte is    *)
(* behind the copy.                                                        *)
LEMMA PanelAdvance ==
  ASSUME TypeInv, NEW t \in Threads, pc[t] \in Sending, Advance(t),
         Shown(t), LoadedShown(t), UNCHANGED <<fipram, loaded>>,
         \A b \in Bytes \ aliased' :
           b # CurrentByte(t) => b \notin aliased /\ panel'[b] = panel[b],
         CurrentByte(t) \in Bytes \ aliased' =>
           \/ panel'[CurrentByte(t)] = fipram[CurrentByte(t)]
           \/ ~Now(t).force /\ Forced(t, CurrentByte(t))
  PROVE  (Shown(t) /\ LoadedShown(t) /\ LoadedNow(t) /\ Carried(t))'
<1> DEFINE bs == Now(t).bytes
           cb == CurrentByte(t)
<1>1. /\ pc[t] # "idle" /\ pc[t] \in Updating /\ next[t] \in 1 .. Len(bs)
      /\ Len(bs) \in {1, 2} /\ cb = bs[next[t]].byte
  BY CurrentFacts
<1>2. /\ Now(t).force => Len(bs) = 1
      /\ \A i, k \in 1 .. Len(bs) : bs[i].byte = bs[k].byte => i = k
  BY <1>1, NowFacts, JobFacts
<1>other. ASSUME NEW b \in Bytes \ aliased', b # cb
          PROVE  b \in Bytes \ aliased /\ panel'[b] = panel[b]
  BY <1>other
<1>3. CASE /\ next[t] = 1 /\ Len(bs) = 2 /\ next' = [next EXCEPT ![t] = 2]
           /\ pc' = [pc EXCEPT ![t] = "compare"] /\ UNCHANGED jobs
  <2>1. pc'[t] = "compare" /\ next'[t] = 2
    BY <1>3 DEF TypeInv
  <2>2. Now(t)' = Now(t) /\ \A b : Forced(t, b)' <=> Forced(t, b)
    BY <1>3 DEF Now, Forced
  <2>3. "compare" \in Sending /\ "compare" \in Updating
    BY DEF Sending, Updating
  <2>4. ASSUME NEW b \in Bytes \ aliased'
        PROVE  panel'[b] = fipram'[b] \/ Forced(t, b)' \/ Unsent(t, b)'
    <3>1. CASE b = cb
      BY <2>2, <3>1
    <3>2. CASE b # cb
      <4>1. panel[b] = fipram[b] \/ Forced(t, b) \/ \E i \in 1 .. Len(bs) : bs[i].byte = b
        BY <1>other, <3>2 DEF Shown, Unsent
      <4>2. ASSUME NEW i \in 1 .. Len(bs), bs[i].byte = b PROVE Unsent(t, b)'
        <5>1. i # 1 /\ 2 <= i
          BY <1>1, <1>3, <3>2, <4>2
        <5> QED BY <2>1, <2>2, <2>3, <4>2, <5>1 DEF Unsent
      <4> QED BY <1>other, <2>2, <3>2, <4>1, <4>2
    <3> QED BY <3>1, <3>2
  <2>5. ASSUME NEW i \in 1 .. Len(bs), 2 <= i, bs[i].byte \in Bytes \ aliased'
        PROVE  panel'[bs[i].byte] = loaded'[t][i] \/ Forced(t, bs[i].byte)'
    <3>1. bs[i].byte # cb /\ bs[i].byte \in Bytes \ aliased /\ next[t] <= i
      BY <1>1, <1>2, <1>3, <2>5
    <3>2. panel[bs[i].byte] = loaded[t][i] \/ Forced(t, bs[i].byte)
      BY <1>1, <3>1 DEF LoadedShown
    <3>3. panel'[bs[i].byte] = panel[bs[i].byte]
      BY <1>other, <2>5, <3>1
    <3> QED BY <2>2, <3>2, <3>3
  <2>6. LoadedShown(t)'
    BY <2>1, <2>2, <2>5 DEF LoadedShown
  <2>7. LoadedNow(t)' /\ Carried(t)'
    BY <2>1 DEF LoadedNow, Carried
  <2> QED BY <2>4, <2>6, <2>7 DEF Shown
<1>4. CASE /\ next[t] = Len(bs) /\ jobs' = [jobs EXCEPT ![t] = Tail(jobs[t])]
           /\ pc'[t] \in {"idle", "load"}
  <2>1. /\ pc'[t] \notin Updating /\ pc'[t] # "store" /\ pc'[t] # "data"
        /\ pc'[t] # "command"
    BY <1>4 DEF Updating
  <2>2. ASSUME NEW b \in Bytes \ aliased' PROVE panel'[b] = fipram'[b] \/ Forced(t, b)'
    <3>1. CASE b = cb
      <4>1. CASE panel'[cb] = fipram[cb]
        BY <3>1, <4>1
      <4>2. CASE ~Now(t).force /\ Forced(t, cb)
        BY <1>1, <1>4, <3>1, <4>2, ForcedTail
      <4> QED BY <3>1, <4>1, <4>2
    <3>2. CASE b # cb
      <4>1. CASE panel[b] = fipram[b]
        BY <1>other, <3>2, <4>1
      <4>2. CASE Forced(t, b)
        <5>1. ~(Now(t).force /\ bs[1].byte = b)
          BY <1>1, <1>2, <1>4, <3>2
        <5> QED BY <1>1, <1>4, <4>2, <5>1, ForcedTail
      <4>3. CASE Unsent(t, b)
        <5>1. PICK i \in 1 .. Len(bs) : next[t] <= i /\ bs[i].byte = b
          BY <4>3 DEF Unsent
        <5>2. i = next[t]
          BY <1>1, <1>4, <5>1
        <5> QED BY <1>1, <3>2, <5>1, <5>2
      <4> QED BY <1>other, <3>2, <4>1, <4>2, <4>3 DEF Shown
    <3> QED BY <3>1, <3>2
  <2> QED BY <2>1, <2>2 DEF Shown, LoadedShown, LoadedNow, Carried
<1>5. \/ /\ next[t] = 1 /\ Len(bs) = 2 /\ next' = [next EXCEPT ![t] = 2]
         /\ pc' = [pc EXCEPT ![t] = "compare"] /\ UNCHANGED jobs
      \/ /\ next[t] = Len(bs) /\ jobs' = [jobs EXCEPT ![t] = Tail(jobs[t])]
         /\ pc'[t] \in {"idle", "load"}
  <2>1. pc \in [Threads -> Labels]
    BY DEF TypeInv
  <2> QED BY <2>1, AdvanceCases
<1> QED BY <1>3, <1>4, <1>5

(* An idle thread has nothing to come: the panel agrees with the copy.     *)
LEMMA IdleShown ==
  ASSUME TypeInv, PanelInv, NEW t \in Threads, pc[t] = "idle"
  PROVE  \A b \in Bytes \ aliased : panel[b] = fipram[b]
<1>1. jobs[t] = <<>> /\ pc[t] \notin Sending
  BY DEF TypeInv, ThreadOK, Sending
<1> QED BY <1>1 DEF PanelInv, Shown, Forced, Unsent

(* Every step keeps the invariant of the panel.                            *)
LEMMA PanelStep ==
  ASSUME OneThread, TypeInv, PanelInv, [Next]_vars
  PROVE  PanelInv'
<1>1. CASE UNCHANGED vars
  BY <1>1 DEF vars, local, PanelInv, Shown, LoadedShown, LoadedNow, Carried, Forced, Unsent,
              Now, CurrentByte
<1>2. ASSUME NEW t \in Threads, (Shown(t) /\ LoadedShown(t) /\ LoadedNow(t) /\ Carried(t))'
      PROVE  PanelInv'
  BY <1>2 DEF PanelInv, OneThread
<1>3. ASSUME NEW t \in Threads, Step(t) PROVE PanelInv'
  <2>1. Shown(t) /\ LoadedShown(t) /\ LoadedNow(t) /\ Carried(t)
    BY DEF PanelInv
  <2>2. CASE Load(t)
    BY <1>2, <2>1, <2>2, PanelLoad
  <2>3. CASE Store(t)
    BY <1>2, <2>1, <2>3, PanelStore
  <2>4. CASE Skip(t)
    <3>1. /\ pc[t] \in Sending /\ Advance(t) /\ UNCHANGED <<fipram, panel, aliased, loaded>>
          /\ ~Now(t).force /\ loaded[t][next[t]] = fipram[CurrentByte(t)]
      BY <2>4 DEF Skip, Sending, MustSend, Differs
    <3>2. /\ pc[t] \in Updating /\ next[t] \in 1 .. Len(Now(t).bytes) /\ next[t] <= next[t]
          /\ CurrentByte(t) = Now(t).bytes[next[t]].byte
      BY <3>1, CurrentFacts DEF TypeInv
    <3>3. CurrentByte(t) \in Bytes \ aliased =>
            panel[CurrentByte(t)] = loaded[t][next[t]] \/ Forced(t, CurrentByte(t))
      BY <2>1, <3>2 DEF LoadedShown
    <3> QED BY <1>2, <2>1, <3>1, <3>3, PanelAdvance
  <2>5. CASE Send(t)
    <3>1. /\ pc[t] \in Sending /\ pc'[t] = "data" /\ arg'[t] = fipram[CurrentByte(t)]
          /\ UNCHANGED <<fipram, panel, aliased, jobs, loaded, next>>
      BY <2>5 DEF Send, Sending, TypeInv
    <3>2. /\ "data" \in Sending /\ "data" \in Updating /\ pc[t] \in Updating
          /\ Now(t)' = Now(t) /\ CurrentByte(t)' = CurrentByte(t)
          /\ \A b : Forced(t, b)' <=> Forced(t, b)
      BY <3>1 DEF Sending, Updating, Now, CurrentByte, Forced
    <3>3. \A b : Unsent(t, b)' <=> Unsent(t, b)
      BY <3>1, <3>2 DEF Unsent
    <3>4. Shown(t)'
      BY <2>1, <3>1, <3>2, <3>3 DEF Shown
    <3>5. LoadedShown(t)'
      BY <2>1, <3>1, <3>2 DEF LoadedShown
    <3>6. LoadedNow(t)' /\ Carried(t)'
      BY <3>1, <3>2 DEF LoadedNow, Carried
    <3> QED BY <1>2, <3>4, <3>5, <3>6
  <2>6. CASE WriteData(t)
    <3>1. /\ pc[t] = "data" /\ pc'[t] = "command" /\ display_data' = arg[t]
          /\ UNCHANGED <<fipram, panel, aliased, jobs, loaded, next>>
      BY <2>6 DEF WriteData, TypeInv
    <3>2. /\ "data" \in Sending /\ "data" \in Updating
          /\ "command" \in Sending /\ "command" \in Updating
          /\ Now(t)' = Now(t) /\ CurrentByte(t)' = CurrentByte(t)
          /\ \A b : Forced(t, b)' <=> Forced(t, b)
      BY <3>1 DEF Sending, Updating, Now, CurrentByte, Forced
    <3>3. \A b : Unsent(t, b)' <=> Unsent(t, b)
      BY <3>1, <3>2 DEF Unsent
    <3>4. Shown(t)'
      BY <2>1, <3>1, <3>2, <3>3 DEF Shown
    <3>5. LoadedShown(t)'
      BY <2>1, <3>1, <3>2 DEF LoadedShown
    <3>6. LoadedNow(t)' /\ Carried(t)'
      BY <2>1, <3>1, <3>2 DEF LoadedNow, Carried
    <3> QED BY <1>2, <3>4, <3>5, <3>6
  <2>7. CASE WriteCommand(t)
    <3> DEFINE cb == CurrentByte(t)
               address == cb % AddressSpan
    <3>1. /\ pc[t] = "command" /\ pc[t] \in Sending /\ Advance(t)
          /\ panel' = [b \in Bytes |-> IF b = address THEN display_data ELSE panel[b]]
          /\ aliased' = IF address = cb THEN aliased \ {address}
                        ELSE aliased \union ({address} \intersect Bytes)
          /\ UNCHANGED <<fipram, loaded>>
      BY <2>7 DEF WriteCommand, Sending
    <3>2. display_data = fipram[cb]
      BY <2>1, <3>1, CurrentFacts DEF Carried
    <3>3. /\ cb \in Bytes => address = cb
          /\ address \in Bytes => cb \in Bytes \/ address # cb
      <4>1. cb \in Memory
        BY <3>1, CurrentFacts
      <4> QED BY <4>1, MemoryFacts
    <3> HIDE DEF cb, address
    <3>4. cb \in Bytes => panel'[cb] = fipram[cb]
      BY <3>1, <3>2, <3>3
    <3>5. ASSUME NEW b \in Bytes \ aliased', b # cb
          PROVE  b \notin aliased /\ panel'[b] = panel[b]
      <4>1. b # address
        BY <3>1, <3>3, <3>5
      <4> QED BY <3>1, <3>5, <4>1
    <3> QED BY <1>2, <2>1, <3>1, <3>4, <3>5, PanelAdvance DEF cb
  <2> QED BY <1>3, <2>2, <2>3, <2>4, <2>5, <2>6, <2>7 DEF Step
<1>4. ASSUME NEW t \in Threads, pc[t] = "idle", pc'[t] = "load",
             UNCHANGED <<fipram, panel, aliased>>
      PROVE  PanelInv'
  <2>1. \A b \in Bytes \ aliased : panel[b] = fipram[b]
    BY <1>4, IdleShown
  <2>2. "load" \notin Updating
    BY DEF Updating
  <2>3. (Shown(t) /\ LoadedShown(t) /\ LoadedNow(t) /\ Carried(t))'
    BY <1>4, <2>1, <2>2 DEF Shown, LoadedShown, LoadedNow, Carried
  <2> QED BY <1>2, <2>3
<1>5. ASSUME NEW t \in Threads, Call(t) PROVE PanelInv'
  <2>1. pc[t] = "idle" /\ pc' = [pc EXCEPT ![t] = "load"] /\ UNCHANGED <<fipram, panel, aliased>>
    BY <1>5, CallCases DEF Begin
  <2>2. pc'[t] = "load"
    BY <2>1 DEF TypeInv
  <2> QED BY <1>4, <2>1, <2>2
<1> QED BY <1>1, <1>3, <1>5 DEF Next

(* The invariant of the panel always holds.                                *)
LEMMA PanelInvariant == OneThread => (Spec => []PanelInv)
<1> SUFFICES ASSUME OneThread PROVE Spec => []PanelInv
  OBVIOUS
<1>1. Init => PanelInv
  BY PanelInit
<1>2. TypeInv /\ PanelInv /\ [Next]_vars => PanelInv'
  BY PanelStep
<1> QED BY <1>1, <1>2, TypeInvariant, PTL DEF Spec

(* With one thread the panel shows what the copy says whenever no call is  *)
(* under way, although a byte that did not change is not sent: what the    *)
(* panel held before fip_init does not matter.  Excepted is a byte of the  *)
(* panel a raw request wrote last for a byte behind the copy.              *)
THEOREM PanelShowsCopy == OneThread => (Spec => []PanelShowsRam)
<1> SUFFICES ASSUME OneThread PROVE Spec => []PanelShowsRam
  OBVIOUS
<1>1. TypeInv /\ PanelInv => PanelShowsRam
  BY IdleShown DEF PanelShowsRam, OneThread
<1> QED BY <1>1, PanelInvariant, TypeInvariant, PTL
-----------------------------------------------------------------------------
(* Texts, for one thread.                                                  *)

(* The digits a call of fip_write has left behind.                         *)
Done(t) == NumDigits - Len(jobs[t])

(* The copy has a character at a digit.                                    *)
DigitIn(i, c) == \A j \in 1 .. 2 : fipram[3 * (i - 1) + j - 1] \ Mask[j] = Glyph[c][j]

CharacterJobs(t) ==
  \A k \in 1 .. Len(jobs[t]) : \E p \in Positions, c \in DOMAIN Glyph :
    jobs[t][k] = Character(p, c)

(* The updates left are those of the digits after the ones done, and the   *)
(* copy has the text's characters at the digits done.                      *)
TextRest(t) ==
  /\ call[t].text \in Texts /\ Len(jobs[t]) <= NumDigits
  /\ \A i \in Positions : CharAt(call[t].text, TRUE, i) \in DOMAIN Glyph
  /\ \A k \in 1 .. Len(jobs[t]) :
       jobs[t][k] = Character(Done(t) + k, CharAt(call[t].text, TRUE, Done(t) + k))
TextDone(t) ==
  \A i \in Positions : i <= Done(t) \/ (i = Done(t) + 1 /\ pc[t] \in Sending) =>
    DigitIn(i, CharAt(call[t].text, TRUE, i))

TextInv ==
  \A t \in Threads : call[t].kind = "text" =>
    /\ CharacterJobs(t)
    /\ Fits(call[t].text) => TextRest(t) /\ TextDone(t)

(* The bits of a digit after a store, and the bits it keeps.               *)
LEMMA StoredDigit ==
  ASSUME TypeInv, NEW t \in Threads, Store(t),
         NEW p \in Positions, NEW c \in DOMAIN Glyph, Now(t) = Character(p, c)
  PROVE  /\ \A i \in 1 .. 2 :
              fipram'[3 * (p - 1) + i - 1]
                = (loaded[t][i] \intersect Mask[i]) \union Glyph[c][i]
         /\ \A b \in Memory :
              (\A i \in 1 .. 2 : b # 3 * (p - 1) + i - 1) => fipram'[b] = fipram[b]
<1> DEFINE bs == Now(t).bytes
<1>1. /\ Len(bs) = 2
      /\ \A i \in 1 .. 2 : /\ bs[i].byte = 3 * (p - 1) + i - 1
                           /\ bs[i].keep = Mask[i] /\ bs[i].set = Glyph[c][i]
  BY CharacterJob
<1>2. \A i \in 1 .. 2 : NewByte(t, i) = (loaded[t][i] \intersect Mask[i]) \union Glyph[c][i]
  BY <1>1 DEF NewByte
<1>3. /\ \A i \in 1 .. 2 : fipram'[bs[i].byte] = NewByte(t, i)
      /\ \A b \in Memory : (\A i \in 1 .. 2 : bs[i].byte # b) => fipram'[b] = fipram[b]
  BY <1>1, StoreEffect
<1> HIDE DEF bs
<1> QED BY <1>1, <1>2, <1>3

(* No character uses a bit the digits keep.                                *)
LEMMA GlyphOutsideMask ==
  ASSUME NEW c \in DOMAIN Glyph, NEW i \in 1 .. 2, NEW old
  PROVE  /\ ((old \intersect Mask[i]) \union Glyph[c][i]) \ Mask[i] = Glyph[c][i]
         /\ \A bit \in Mask[i] :
              bit \in (old \intersect Mask[i]) \union Glyph[c][i] <=> bit \in old
BY TableAssumption

(* The text of a call begins with nothing done.                            *)
LEMMA TextBegin ==
  ASSUME OneThread, TypeInv, NEW t \in Threads, NEW text \in Texts,
         Begin(t, "text", text, TextJobs(text, TRUE))
  PROVE  TextInv'
<1> DEFINE J == TextJobs(text, TRUE)
<1>1. /\ pc' = [pc EXCEPT ![t] = "load"] /\ jobs' = [jobs EXCEPT ![t] = J]
      /\ call' = [call EXCEPT ![t] = [kind |-> "text", text |-> text]]
  BY DEF Begin
<1>2. pc'[t] = "load" /\ jobs'[t] = J /\ call'[t].text = text
  BY <1>1 DEF TypeInv
<1>3. /\ Len(J) \in 0 .. NumDigits
      /\ Fits(text) => Len(J) = NumDigits
  BY TextJobsFacts
<1>4. \A i \in 1 .. Len(J) : /\ CharAt(text, TRUE, i) \in DOMAIN Glyph
                            /\ J[i] = Character(i, CharAt(text, TRUE, i))
  BY TextJobsFacts
<1>5. \A i \in 1 .. Len(J) : i \in Positions
  <2> HIDE DEF J
  <2> QED BY <1>3, DisplayAssumption DEF Positions
<1> HIDE DEF J
<1>6. CharacterJobs(t)'
  BY <1>2, <1>4, <1>5 DEF CharacterJobs
<1>7. ASSUME Fits(text) PROVE TextRest(t)' /\ TextDone(t)'
  <2>1. Len(J) = NumDigits /\ NumDigits \in Nat
    BY <1>3, <1>7, DisplayAssumption
  <2>2. Done(t)' = 0
    BY <1>2, <2>1 DEF Done
  <2>3. \A k \in 1 .. Len(J) : 0 + k = k
    BY <2>1
  <2>4. TextRest(t)'
    <3>1. Len(jobs'[t]) <= NumDigits
      BY <1>2, <2>1
    <3>2. \A i \in Positions : CharAt(call'[t].text, TRUE, i) \in DOMAIN Glyph
      BY <1>2, <1>4, <2>1 DEF Positions
    <3>3. ASSUME NEW k \in 1 .. Len(jobs'[t])
          PROVE  jobs'[t][k] = Character(0 + k, CharAt(call'[t].text, TRUE, 0 + k))
      <4>1. k \in 1 .. Len(J) /\ 0 + k = k /\ jobs'[t][k] = J[k]
        BY <1>2, <2>3
      <4>2. J[k] = Character(k, CharAt(text, TRUE, k))
        BY <1>4, <4>1
      <4> QED BY <1>2, <4>1, <4>2
    <3> QED BY <1>2, <2>2, <3>1, <3>2, <3>3 DEF TextRest
  <2>5. TextDone(t)'
    <3>1. \A i \in Positions : ~(i <= 0)
      BY DisplayAssumption DEF Positions
    <3>2. "load" \notin Sending
      BY DEF Sending
    <3> QED BY <1>2, <2>2, <3>1, <3>2 DEF TextDone
  <2> QED BY <2>4, <2>5
<1> QED BY <1>2, <1>6, <1>7 DEF TextInv, OneThread

(* A store puts the character of the next digit into the copy.             *)
LEMMA TextStore ==
  ASSUME TypeInv, NEW t \in Threads, Store(t), TextRest(t), TextDone(t)
  PROVE  TextDone(t)'
<1> DEFINE n == Done(t)
           char(i) == CharAt(call[t].text, TRUE, i)
<1>1. /\ pc[t] = "store" /\ pc[t] # "idle" /\ pc[t] \notin Sending
      /\ UNCHANGED <<call, jobs, loaded>>
  BY DEF Store, Sending
<1>2. Now(t) = jobs[t][1] /\ Len(jobs[t]) \in Nat /\ 1 <= Len(jobs[t])
  BY <1>1, NowFacts
<1>3. n \in Nat /\ n + 1 \in Positions /\ Now(t) = Character(n + 1, char(n + 1))
  <2> DEFINE len == Len(jobs[t])
  <2>1. /\ NumDigits \in Nat /\ len \in Nat /\ 1 <= len /\ len <= NumDigits
        /\ n = NumDigits - len
    BY <1>2, DisplayAssumption DEF TextRest, Done
  <2>2. jobs[t][1] = Character(n + 1, char(n + 1))
    <3>1. \A k \in 1 .. len : jobs[t][k] = Character(n + k, char(n + k))
      BY DEF TextRest
    <3> HIDE DEF len, n, char
    <3>2. 1 \in 1 .. len
      BY <2>1
    <3> QED BY <3>1, <3>2
  <2> HIDE DEF len, n
  <2>3. n \in Nat /\ n + 1 \in Positions
    BY <2>1 DEF Positions
  <2> QED BY <1>2, <2>2, <2>3
<1>4. char(n + 1) \in DOMAIN Glyph
  BY <1>3 DEF TextRest
<1>5. Done(t)' = n /\ \A i : CharAt(call[t].text, TRUE, i)' = char(i)
  BY <1>1 DEF Done
<1> HIDE DEF n, char
<1>6. ASSUME NEW j \in 1 .. 2
      PROVE  fipram'[3 * ((n + 1) - 1) + j - 1] \ Mask[j] = Glyph[char(n + 1)][j]
  BY <1>3, <1>4, StoredDigit, GlyphOutsideMask
<1>7. ASSUME NEW i \in Positions, i <= n, NEW j \in 1 .. 2
      PROVE  fipram'[3 * (i - 1) + j - 1] \ Mask[j] = Glyph[char(i)][j]
  <2>1. 3 * (i - 1) + j - 1 \in Memory
    BY DisplayAssumption DEF Positions, Memory
  <2>2. \A k \in 1 .. 2 : 3 * (i - 1) + j - 1 # 3 * ((n + 1) - 1) + k - 1
    BY <1>3, <1>7 DEF Positions
  <2>3. fipram'[3 * (i - 1) + j - 1] = fipram[3 * (i - 1) + j - 1]
    BY <1>3, <1>4, <2>1, <2>2, StoredDigit
  <2>4. fipram[3 * (i - 1) + j - 1] \ Mask[j] = Glyph[char(i)][j]
    BY <1>7 DEF TextDone, DigitIn, n, char
  <2> QED BY <2>3, <2>4
<1>8. ASSUME NEW i \in Positions, i <= n \/ i = n + 1
      PROVE  DigitIn(i, char(i))'
  <2>1. \A j \in 1 .. 2 : fipram'[3 * (i - 1) + j - 1] \ Mask[j] = Glyph[char(i)][j]
    BY <1>6, <1>7, <1>8
  <2>2. char(i)' = char(i)
    BY <1>5 DEF char
  <2> QED BY <2>1, <2>2 DEF DigitIn
<1>9. ASSUME NEW i \in Positions, i <= n \/ i = n + 1
      PROVE  DigitIn(i, CharAt(call[t].text, TRUE, i))'
  BY <1>8, <1>9 DEF char
<1> QED BY <1>5, <1>9 DEF TextDone

(* Advance counts the digit as done when its update ends.                  *)
LEMMA TextAdvance ==
  ASSUME TypeInv, NEW t \in Threads, pc[t] \in Sending, Advance(t), UNCHANGED fipram,
         call[t].kind = "text", call'[t].kind = "text",
         CharacterJobs(t), Fits(call[t].text) => TextRest(t) /\ TextDone(t)
  PROVE  /\ CharacterJobs(t)'
         /\ Fits(call'[t].text) => TextRest(t)' /\ TextDone(t)'
<1>1. pc[t] # "idle" /\ "compare" \in Sending /\ "load" \notin Sending
  BY DEF Sending
<1>2. CASE pc' = [pc EXCEPT ![t] = "compare"] /\ UNCHANGED <<call, jobs>>
  <2>1. pc'[t] = "compare"
    BY <1>2 DEF TypeInv
  <2> QED BY <1>1, <1>2, <2>1 DEF CharacterJobs, TextRest, TextDone, Done, DigitIn
<1>3. CASE /\ jobs' = [jobs EXCEPT ![t] = Tail(jobs[t])]
           /\ pc' = [pc EXCEPT ![t] = "load"] /\ call' = call
  <2> DEFINE s == jobs[t]
             r == Tail(s)
             n == Done(t)
             char(i) == CharAt(call[t].text, TRUE, i)
  <2>1. pc'[t] = "load" /\ jobs'[t] = r
    BY <1>3 DEF TypeInv
  <2>2. /\ Len(s) \in Nat /\ 1 <= Len(s) /\ Len(r) = Len(s) - 1
        /\ \A k \in 1 .. Len(s) - 1 : r[k] = s[k + 1]
    BY <1>1, NowFacts
  <2>3. \A k \in 1 .. Len(r) : k + 1 \in 1 .. Len(s) /\ r[k] = s[k + 1]
    <3> HIDE DEF s, r
    <3> QED BY <2>2
  <2>4. CharacterJobs(t)'
    BY <2>1, <2>3 DEF CharacterJobs
  <2>5. ASSUME Fits(call[t].text) PROVE TextRest(t)' /\ TextDone(t)'
    <3>1. TextRest(t) /\ TextDone(t)
      BY <2>5
    <3>2. NumDigits \in Nat /\ Len(s) <= NumDigits
      BY <3>1, DisplayAssumption DEF TextRest
    <3>3. Done(t)' = n + 1 /\ n \in Nat /\ Len(r) <= NumDigits
      <4>1. n = NumDigits - Len(s) /\ Done(t)' = NumDigits - Len(r)
        BY <2>1 DEF Done
      <4> HIDE DEF s, r, n
      <4> QED BY <2>2, <3>2, <4>1
    <3>4. \A k \in 1 .. Len(s) : s[k] = Character(n + k, char(n + k))
      BY <3>1 DEF TextRest
    <3>5. /\ call[t].text \in Texts
          /\ \A i \in Positions : char(i) \in DOMAIN Glyph
      BY <3>1 DEF TextRest
    <3>6. \A i \in Positions : i <= n \/ i = n + 1 => DigitIn(i, char(i))
      BY <3>1 DEF TextDone
    <3> HIDE DEF s, r, n, char
    <3>7. ASSUME NEW k \in 1 .. Len(r)
          PROVE  r[k] = Character((n + 1) + k, char((n + 1) + k))
      <4>1. k + 1 \in 1 .. Len(s) /\ r[k] = s[k + 1] /\ n + (k + 1) = (n + 1) + k
        <5>1. k \in Int /\ n \in Int
          BY <2>2, <3>3
        <5>2. n + (k + 1) = (n + 1) + k
          BY <5>1
        <5> QED BY <2>3, <5>2
      <4>2. s[k + 1] = Character(n + (k + 1), char(n + (k + 1)))
        BY <3>4, <4>1
      <4> QED BY <4>1, <4>2
    <3>8. \A i : char(i)' = char(i)
      BY <1>3 DEF char
    <3>9. TextRest(t)'
      BY <1>3, <2>1, <3>3, <3>5, <3>7 DEF TextRest, char
    <3>10. \A i \in Positions : i <= n + 1 => i <= n \/ i = n + 1
      BY <3>3 DEF Positions
    <3>11. TextDone(t)'
      BY <1>1, <1>3, <2>1, <3>3, <3>6, <3>10 DEF TextDone, DigitIn, char
    <3> QED BY <3>9, <3>11
  <2> QED BY <1>3, <2>4, <2>5
<1>4. CASE call' = [call EXCEPT ![t] = NoCall]
  <2>1. call'[t].kind = "none"
    BY <1>4 DEF TypeInv, NoCall
  <2> QED BY <2>1
<1> QED BY <1>2, <1>3, <1>4, AdvanceCases

(* No text is being written when the driver is loaded.                     *)
LEMMA TextInit == Init => TextInv
<1> SUFFICES ASSUME Init, NEW u \in Threads PROVE call[u].kind # "text"
  BY DEF TextInv
<1>1. PICK t \in Threads :
        call = [v \in Threads |->
          IF v = t THEN [kind |-> "init", text |-> <<>>] ELSE NoCall]
  BY DEF Init
<1> QED BY <1>1 DEF NoCall

(* The steps of a call of fip_write keep the invariant of its text.        *)
LEMMA TextStep ==
  ASSUME OneThread, TypeInv, TextInv, [Next]_vars
  PROVE  TextInv'
<1> DEFINE Inv(t) == /\ CharacterJobs(t)
                     /\ Fits(call[t].text) => TextRest(t) /\ TextDone(t)
<1>1. CASE UNCHANGED vars
  <2>1. UNCHANGED <<fipram, pc, call, jobs>>
    BY <1>1 DEF vars, local
  <2>2. ASSUME NEW t \in Threads
        PROVE  /\ CharacterJobs(t) => CharacterJobs(t)'
               /\ TextRest(t) => TextRest(t)'
               /\ TextDone(t) => TextDone(t)'
    BY <2>1 DEF CharacterJobs, TextRest, TextDone, Done, DigitIn
  <2> QED BY <2>1, <2>2 DEF TextInv
<1>2. ASSUME NEW t \in Threads, call'[t].kind = "text" => Inv(t)' PROVE TextInv'
  BY <1>2 DEF TextInv, OneThread
<1>3. ASSUME NEW t \in Threads, Step(t) PROVE TextInv'
  <2>1. call[t].kind = "text" => Inv(t)
    BY DEF TextInv
  <2>2. CASE Load(t) \/ Send(t) \/ WriteData(t)
    <3>1. /\ UNCHANGED <<fipram, call, jobs>>
          /\ pc'[t] \in Sending => pc[t] \in Sending
      BY <2>2 DEF Load, Send, WriteData, TypeInv, Sending
    <3>2. /\ CharacterJobs(t) => CharacterJobs(t)'
          /\ TextRest(t) => TextRest(t)'
          /\ TextDone(t) => TextDone(t)'
      BY <3>1 DEF CharacterJobs, TextRest, TextDone, Done, DigitIn
    <3> QED BY <1>2, <2>1, <3>1, <3>2
  <2>3. CASE Store(t)
    <3>1. UNCHANGED <<call, jobs>>
      BY <2>3 DEF Store
    <3>2. /\ CharacterJobs(t) => CharacterJobs(t)'
          /\ TextRest(t) => TextRest(t)'
      BY <3>1 DEF CharacterJobs, TextRest, Done
    <3>3. TextRest(t) /\ TextDone(t) => TextDone(t)'
      BY <2>3, TextStore
    <3> QED BY <1>2, <2>1, <3>1, <3>2, <3>3
  <2>4. CASE Skip(t) \/ WriteCommand(t)
    <3>1. pc[t] \in Sending /\ Advance(t) /\ UNCHANGED fipram
      BY <2>4 DEF Skip, WriteCommand, Sending
    <3>2. call'[t].kind = "text" => call[t].kind = "text"
      <4>1. CASE call' = call
        BY <4>1
      <4>2. CASE call' = [call EXCEPT ![t] = NoCall]
        BY <4>2 DEF TypeInv, NoCall
      <4> QED BY <3>1, <4>1, <4>2, AdvanceCases
    <3>3. call'[t].kind = "text" => Inv(t)'
      BY <2>1, <3>1, <3>2, TextAdvance
    <3> QED BY <1>2, <3>3
  <2> QED BY <1>3, <2>2, <2>3, <2>4 DEF Step
<1>4. ASSUME NEW t \in Threads, Call(t) PROVE TextInv'
  <2>1. CASE \E text \in Texts : Begin(t, "text", text, TextJobs(text, TRUE))
    BY <2>1, TextBegin
  <2>2. CASE \E js \in JobLists : Begin(t, "ioctl", <<>>, js)
    <3>1. call' = [call EXCEPT ![t] = [kind |-> "ioctl", text |-> <<>>]]
      BY <2>2 DEF Begin
    <3>2. call'[t].kind = "ioctl"
      BY <3>1 DEF TypeInv
    <3> QED BY <1>2, <3>2
  <2> QED BY <1>4, <2>1, <2>2, CallCases
<1> QED BY <1>1, <1>3, <1>4 DEF Next

(* The invariant of the text always holds.                                 *)
LEMMA TextInvariant == OneThread => (Spec => []TextInv)
<1> SUFFICES ASSUME OneThread PROVE Spec => []TextInv
  OBVIOUS
<1>1. Init => TextInv
  BY TextInit
<1>2. TypeInv /\ TextInv /\ [Next]_vars => TextInv'
  BY TextStep
<1> QED BY <1>1, <1>2, TypeInvariant, PTL DEF Spec

(* With one thread fip_write changes no bit outside the digits, nor the    *)
(* memory behind the copy.                                                 *)
THEOREM SymbolsKept == OneThread => (Spec => TextKeepsSymbols)
<1> SUFFICES ASSUME OneThread PROVE Spec => TextKeepsSymbols
  OBVIOUS
<1>1. TypeInv /\ PanelInv /\ TextInv =>
        [\A t \in Threads : call[t].kind = "text" /\ Store(t) =>
           \A b \in Memory, bit \in Bits :
             (b \notin Bytes \/ b % 3 = 2 \/ bit \in Mask[(b % 3) + 1]) =>
               (bit \in fipram[b] <=> bit \in fipram'[b])]_vars
  <2> SUFFICES ASSUME TypeInv, PanelInv, TextInv,
                      NEW t \in Threads, call[t].kind = "text", Store(t),
                      NEW b \in Memory, NEW bit \in Bits,
                      b \notin Bytes \/ b % 3 = 2 \/ bit \in Mask[(b % 3) + 1]
               PROVE  bit \in fipram[b] <=> bit \in fipram'[b]
    OBVIOUS
  <2>1. pc[t] = "store" /\ pc[t] # "idle"
    BY DEF Store
  <2>2. Now(t) = jobs[t][1] /\ 1 \in 1 .. Len(jobs[t])
    BY <2>1, NowFacts
  <2>3. PICK p \in Positions, c \in DOMAIN Glyph : Now(t) = Character(p, c)
    BY <2>2 DEF TextInv, CharacterJobs
  <2>4. CASE \A i \in 1 .. 2 : b # 3 * (p - 1) + i - 1
    BY <2>3, <2>4, StoredDigit
  <2>5. ASSUME NEW i \in 1 .. 2, b = 3 * (p - 1) + i - 1
        PROVE  bit \in fipram[b] <=> bit \in fipram'[b]
    <3>1. b % 3 = i - 1 /\ b \in Bytes
      BY <2>5, DisplayAssumption DEF Positions, Bytes
    <3>2. bit \in Mask[i]
      BY <3>1
    <3>3. loaded[t][i] = fipram[b]
      <4>1. Len(Now(t).bytes) = 2 /\ Now(t).bytes[i].byte = b
        BY <2>3, <2>5, CharacterJob
      <4> QED BY <2>1, <4>1 DEF PanelInv, LoadedNow
    <3>4. fipram'[b] = (loaded[t][i] \intersect Mask[i]) \union Glyph[c][i]
      BY <2>3, <2>5, StoredDigit
    <3> QED BY <3>2, <3>3, <3>4, GlyphOutsideMask
  <2> QED BY <2>4, <2>5
<1> QED BY <1>1, TypeInvariant, PanelInvariant, TextInvariant, PTL DEF Spec, TextKeepsSymbols

(* The step that ends a call of fip_write.                                 *)
LEMMA TextEnd ==
  ASSUME TypeInv, NEW t \in Threads, call[t].kind = "text", pc'[t] = "idle", [Next]_vars,
         OneThread
  PROVE  pc[t] \in Sending /\ Len(jobs[t]) = 1 /\ UNCHANGED fipram
<1>1. pc[t] # "idle"
  BY DEF TypeInv, ThreadOK
<1>2. ~UNCHANGED vars
  BY <1>1 DEF vars, local
<1>3. Step(t) \/ Call(t)
  BY <1>2 DEF Next, OneThread
<1>4. ~Call(t)
  <2>1. Call(t) => pc[t] = "idle"
    BY CallCases DEF Begin
  <2> QED BY <1>1, <2>1
<1>5. ~(Load(t) \/ Store(t) \/ Send(t) \/ WriteData(t))
  BY DEF Load, Store, Send, WriteData, TypeInv
<1>6. /\ pc[t] \in Sending /\ Advance(t) /\ UNCHANGED fipram
  BY <1>3, <1>4, <1>5 DEF Step, Skip, WriteCommand, Sending
<1>7. Len(jobs[t]) = 1
  <2>1. CASE pc' = [pc EXCEPT ![t] = "compare"]
    BY <2>1 DEF TypeInv
  <2>2. CASE pc' = [pc EXCEPT ![t] = "load"]
    BY <2>2 DEF TypeInv
  <2> QED BY <1>6, <2>1, <2>2, AdvanceCases
<1> QED BY <1>6, <1>7

(* With one thread a text that fits is shown in the middle of the panel    *)
(* when fip_write returns, whatever was shown before.                      *)
THEOREM TextCentred == OneThread => (Spec => TextShownCentred)
<1> SUFFICES ASSUME OneThread PROVE Spec => TextShownCentred
  OBVIOUS
<1> DEFINE Centred(t) ==
      LET text == call[t].text IN
      (/\ call[t].kind = "text" /\ pc'[t] = "idle"
       /\ Len(text) <= NumDigits
       /\ \A i \in DOMAIN text : text[i] \in DOMAIN Glyph) =>
        \E left, right \in 0 .. NumDigits :
          /\ left + Len(text) + right = NumDigits
          /\ right - left \in {0, 1}
          /\ \A i \in 1 .. NumDigits :
               ShownAt(i, IF i > left /\ i <= left + Len(text)
                          THEN text[i - left] ELSE Blank)
<1>1. ASSUME TypeInv, PanelInv, TextInv, [Next]_vars, NEW t \in Threads
      PROVE  Centred(t)
  <2> DEFINE text == call[t].text
             len == Len(text)
             left == (NumDigits - len) \div 2
             right == NumDigits - len - left
  <2> SUFFICES ASSUME call[t].kind = "text", pc'[t] = "idle", Fits(text)
               PROVE  /\ left \in 0 .. NumDigits /\ right \in 0 .. NumDigits
                      /\ left + len + right = NumDigits
                      /\ right - left \in {0, 1}
                      /\ \A i \in 1 .. NumDigits :
                           ShownAt(i, IF i > left /\ i <= left + len
                                      THEN text[i - left] ELSE Blank)
    BY DEF Fits
  <2>1. TextRest(t) /\ TextDone(t)
    BY <1>1 DEF TextInv
  <2>2. /\ len \in Nat /\ len <= NumDigits /\ NumDigits \in Nat
    BY <2>1, TableAssumption, DisplayAssumption DEF TextRest, Fits
  <2>3. /\ left \in Int /\ left \in 0 .. NumDigits /\ right \in 0 .. NumDigits
        /\ left + len + right = NumDigits /\ right - left \in {0, 1}
    <3> HIDE DEF len
    <3> QED BY <2>2
  <2>4. TextStart(len, TRUE) = left + 1
    <3> HIDE DEF len
    <3> QED BY <2>2 DEF TextStart
  <2>5. ASSUME NEW i \in 1 .. NumDigits
        PROVE  CharAt(text, TRUE, i)
                 = IF i > left /\ i <= left + len THEN text[i - left] ELSE Blank
    <3>1. CharAt(text, TRUE, i) =
            IF i < left + 1 \/ i >= (left + 1) + len THEN Blank ELSE text[i - (left + 1) + 1]
      BY <2>4 DEF CharAt
    <3> HIDE DEF text, len, left
    <3>2. i - (left + 1) + 1 = i - left
      BY <2>3
    <3>3. (i < left + 1 \/ i >= (left + 1) + len) <=> ~(i > left /\ i <= left + len)
      BY <2>2, <2>3
    <3> QED BY <3>1, <3>2, <3>3
  <2>6. pc[t] \in Sending /\ Len(jobs[t]) = 1 /\ fipram' = fipram
    BY <1>1, TextEnd
  <2>7. ASSUME NEW i \in 1 .. NumDigits PROVE DigitIn(i, CharAt(text, TRUE, i))
    <3>1. i \in Positions /\ Done(t) = NumDigits - 1
      BY <2>6 DEF Positions, Done
    <3>2. i <= Done(t) \/ i = Done(t) + 1
      BY <2>2, <3>1
    <3> QED BY <2>1, <2>6, <3>1, <3>2 DEF TextDone
  <2>8. \A b \in Bytes \ aliased' : panel'[b] = fipram'[b]
    <3>1. TypeInv' /\ PanelInv'
      BY <1>1, TypeStep, PanelStep
    <3>2. jobs'[t] = <<>> /\ pc'[t] \notin Sending
      BY <3>1 DEF TypeInv, ThreadOK, Sending
    <3> QED BY <3>1, <3>2 DEF PanelInv, Shown, Forced, Unsent
  <2>9. ASSUME NEW i \in 1 .. NumDigits PROVE ShownAt(i, CharAt(text, TRUE, i))
    <3>1. \A j \in 1 .. 2 : 3 * (i - 1) + j - 1 \in Bytes
      BY DisplayAssumption DEF Bytes
    <3> DEFINE c == CharAt(text, TRUE, i)
    <3>2. \A j \in 1 .. 2 : fipram[3 * (i - 1) + j - 1] \ Mask[j] = Glyph[c][j]
      BY <2>7 DEF DigitIn
    <3> HIDE DEF c
    <3>3. ShownAt(i, c)
      BY <2>6, <2>8, <3>1, <3>2 DEF ShownAt
    <3> QED BY <3>3 DEF c
  <2> HIDE DEF text, len, left, right
  <2>10. ASSUME NEW i \in 1 .. NumDigits
         PROVE  ShownAt(i, IF i > left /\ i <= left + len THEN text[i - left] ELSE Blank)
    BY <2>5, <2>9
  <2> QED BY <2>3, <2>10
<1>2. TypeInv /\ PanelInv /\ TextInv /\ [Next]_vars => [\A t \in Threads : Centred(t)]_vars
  BY <1>1
<1> QED BY <1>2, TypeInvariant, PanelInvariant, TextInvariant, PTL DEF Spec, TextShownCentred
=============================================================================
