---------------------------- MODULE ScardProofs ----------------------------
(* Proofs about the smart card driver, for every set of cards and every    *)
(* size of the rings and of the FIFOs.                                     *)
EXTENDS Scard, KeyRingProofs

RevSet == SUBSET Settings
IdxSet == 0 .. 2
CntSet == 0 .. 4
SrSet == SUBSET {"R", "T", "E"}
HwRec == [state : HwStates, inten : BOOLEAN, sr : SrSet, rx : 0 .. FifoSize,
          tx : 0 .. FifoSize, said : Answers, due : BOOLEAN]
PrivRec == [card_existed : BOOLEAN, state : HwStates \union {"UNKNOWN"},
            normal_mode : BOOLEAN, answer2reset : BOOLEAN, ans_idx : IdxSet,
            ans : Answers, volt3 : BOOLEAN, rev : RevSet, reset_cnt : CntSet,
            clockstop : BOOLEAN, b_mode : BOOLEAN]
RingRec == [rd_p : 0 .. RdSize - 1, rd_c : 0 .. RdSize - 1,
            wr_p : 0 .. WrSize - 1, wr_c : 0 .. WrSize - 1]
RstRec == [mon : Stores \union {"none", "again", "wake"},
           proc : Stores \union {"none"} \union DOMAIN NextFlag]
OtherTypes ==
  /\ card \in Cards \union {NoCard}
  /\ freq \in BOOLEAN /\ torn \in BOOLEAN /\ late \in BOOLEAN /\ cur \in HwStates
  /\ rst \in RstRec
  /\ mon \in {"sleep", "lost", "reset", "decide", "wait3", "wait5"}
  /\ proc \in {"closed", "open", "asleep", "woken", "guard", "kick", "opening", "reset"}

(* The types, record by record.                                            *)
LEMMA TypeParts ==
  TypeOK <=> hw \in HwRec /\ priv \in PrivRec /\ ring \in RingRec /\ OtherTypes
BY Zenon DEF TypeOK, HwRec, PrivRec, RingRec, OtherTypes, RstRec, RevSet, SrSet, IdxSet, CntSet

(* The constants as the provers need them.                                 *)
LEMMA Consts ==
  /\ RdSize \in Nat /\ RdSize >= 2 /\ WrSize \in Nat /\ WrSize >= 2
  /\ FifoSize \in Nat /\ FifoSize >= 1
BY ScardAssumption

(* The smaller of two numbers.                                             *)
LEMMA LeastFacts ==
  ASSUME NEW a \in Nat, NEW b \in Nat
  PROVE  Least(a, b) \in Nat /\ Least(a, b) <= a /\ Least(a, b) <= b
         /\ Least(a, b) \in {a, b}
BY DEF Least

(* The bytes in both rings are fewer than their slots.                     *)
LEMMA RingFacts ==
  ASSUME NEW r \in RingRec
  PROVE  /\ UsedSlots(RdSize, r.rd_p, r.rd_c) \in 0 .. RdSize - 1
         /\ UsedSlots(WrSize, r.wr_p, r.wr_c) \in 0 .. WrSize - 1
BY Consts DEF RingRec, UsedSlots

(* Moving the consumer index over k of the entries of a ring.              *)
LEMMA UsedAfterTake ==
  ASSUME NEW n \in Nat, n >= 2, NEW p \in 0 .. n - 1, NEW c \in 0 .. n - 1,
         NEW k \in 0 .. UsedSlots(n, p, c)
  PROVE  /\ (c + k) % n \in 0 .. n - 1
         /\ UsedSlots(n, p, (c + k) % n) = UsedSlots(n, p, c) - k
<1>1. UsedSlots(n, p, c) \in 0 .. n - 1
  BY SlotsInRing
<1>2. k \in 0 .. n
  BY <1>1
<1>3. (c + k) % n = IF c + k < n THEN c + k ELSE c + k - n
  BY <1>2, SumWraps
<1>4. CASE c + k < n
  BY <1>1, <1>3, <1>4 DEF UsedSlots
<1>5. CASE ~(c + k < n)
  BY <1>1, <1>2, <1>3, <1>5 DEF UsedSlots
<1>6. QED BY <1>4, <1>5

(* scard_write_device moves bytes from the ring to the FIFO, and bytes     *)
(* stay in the ring only when the FIFO is full.                            *)
LEMMA WriteDeviceFacts ==
  ASSUME NEW h \in HwRec, NEW r \in RingRec, NEW w, w = WriteDevice(h, r)
  PROVE  /\ w[1] \in HwRec /\ w[2] \in RingRec
         /\ w[1] = [h EXCEPT !.tx = w[1].tx]
         /\ w[2] = [r EXCEPT !.wr_c = w[2].wr_c]
         /\ UsedSlots(WrSize, w[2].wr_p, w[2].wr_c) > 0 => w[1].tx = FifoSize
<1> DEFINE u == UsedSlots(WrSize, r.wr_p, r.wr_c)
           k == Least(u, FifoSize - h.tx)
<1>1. u \in 0 .. WrSize - 1 /\ h.tx \in 0 .. FifoSize /\ FifoSize - h.tx \in Nat
  BY Consts, RingFacts DEF HwRec
<1> HIDE DEF u
<1>2. k \in 0 .. u /\ k <= FifoSize - h.tx /\ k \in {u, FifoSize - h.tx}
  <2>1. u \in Nat
    BY <1>1, Consts
  <2> DEFINE room == FifoSize - h.tx
  <2>2. room \in Nat
    BY <1>1
  <2> HIDE DEF room
  <2>3. Least(u, room) \in 0 .. u /\ Least(u, room) <= room /\ Least(u, room) \in {u, room}
    BY <2>1, <2>2 DEF Least
  <2>4. QED BY <2>3 DEF room
<1>3. w[1] = [h EXCEPT !.tx = @ + k] /\ w[2] = [r EXCEPT !.wr_c = (@ + k) % WrSize]
  BY DEF WriteDevice, u
<1> HIDE DEF k
<1>4. r.wr_p \in 0 .. WrSize - 1 /\ r.wr_c \in 0 .. WrSize - 1
  BY DEF RingRec
<1>5. /\ (r.wr_c + k) % WrSize \in 0 .. WrSize - 1
      /\ UsedSlots(WrSize, r.wr_p, (r.wr_c + k) % WrSize) = u - k
  BY <1>2, <1>4, Consts, UsedAfterTake DEF u
<1>6. h.tx + k \in 0 .. FifoSize
  BY <1>1, <1>2, Consts
<1>7. w[1] \in HwRec /\ w[1].tx = h.tx + k
  BY <1>3, <1>6 DEF HwRec
<1>8. w[2] \in RingRec /\ w[2].wr_c = (r.wr_c + k) % WrSize /\ w[2].wr_p = r.wr_p
  BY <1>3, <1>5 DEF RingRec
<1>9. w[1] = [h EXCEPT !.tx = w[1].tx]
  BY <1>3, <1>7
<1>10. w[2] = [r EXCEPT !.wr_c = w[2].wr_c]
  BY <1>3, <1>8
<1>11. u - k > 0 => h.tx + k = FifoSize
  BY <1>1, <1>2, Consts
<1>12. QED BY <1>5, <1>7, <1>8, <1>9, <1>10, <1>11

(* It takes bytes out of the ring and puts none in.                        *)
LEMMA WriteDeviceShrinks ==
  ASSUME NEW h \in HwRec, NEW r \in RingRec, NEW w, w = WriteDevice(h, r)
  PROVE  UsedSlots(WrSize, w[2].wr_p, w[2].wr_c) > 0 => UsedSlots(WrSize, r.wr_p, r.wr_c) > 0
<1> DEFINE u == UsedSlots(WrSize, r.wr_p, r.wr_c)
           k == Least(u, FifoSize - h.tx)
<1>1. u \in 0 .. WrSize - 1 /\ FifoSize - h.tx \in Nat
  BY Consts, RingFacts DEF HwRec
<1>2. SUFFICES ASSUME u = 0 PROVE ~(UsedSlots(WrSize, w[2].wr_p, w[2].wr_c) > 0)
  BY <1>1, Consts
<1>3. w[2] = [r EXCEPT !.wr_c = (@ + k) % WrSize]
  BY DEF WriteDevice
<1> HIDE DEF u
<1>4. k = 0
  BY <1>1, <1>2 DEF Least
<1> HIDE DEF k
<1>5. r.wr_c \in 0 .. WrSize - 1 /\ (r.wr_c + 0) % WrSize = r.wr_c
  <2>1. r.wr_c \in 0 .. WrSize - 1 /\ 0 \in 0 .. WrSize
    BY Consts DEF RingRec
  <2>2. (r.wr_c + 0) % WrSize = IF r.wr_c + 0 < WrSize THEN r.wr_c + 0 ELSE r.wr_c + 0 - WrSize
    BY <2>1, Consts, SumWraps
  <2>3. QED BY <2>1, <2>2, Consts
<1>6. w[2].wr_c = r.wr_c /\ w[2].wr_p = r.wr_p
  BY <1>3, <1>4, <1>5 DEF RingRec
<1>7. QED BY <1>2, <1>6 DEF u

-----------------------------------------------------------------------------
(* Types.  Two facts have to go with them: only a card that is there owes  *)
(* an answer, and attempts are counted from 0 for each card that is found. *)
TypeInv ==
  /\ TypeOK
  /\ hw.due => card \in Cards
  /\ priv.reset_cnt \in {0, 1}
  /\ priv.card_existed \/ mon \in {"decide", "wait3", "wait5"} => priv.reset_cnt = 0

(* The state is well typed initially.                                      *)
LEMMA TypeInit == Init => TypeInv
<1> SUFFICES ASSUME Init PROVE TypeInv
  OBVIOUS
<1>1. NoAnswer \in Answers
  BY DEF NoAnswer, Answers, Settings
<1>2. hw \in HwRec /\ ~hw.due
  BY <1>1, Consts DEF Init, HwRec, HwStates, SrSet
<1>3. priv \in PrivRec /\ priv.reset_cnt = 0
  <2>1. {} \in RevSet /\ 0 \in IdxSet /\ 0 \in CntSet
    BY DEF RevSet, IdxSet, CntSet
  <2>2. QED BY <1>1, <2>1 DEF Init, PrivRec
<1>4. ring \in RingRec
  BY Consts DEF Init, RingRec, EmptyRings
<1>5. OtherTypes
  BY DEF Init, OtherTypes, HwStates, RstRec
<1>6. QED BY <1>2, <1>3, <1>4, <1>5, TypeParts DEF TypeInv

(* The emptied rings are rings.                                            *)
LEMMA EmptyRingsType == EmptyRings \in RingRec
BY Consts DEF RingRec, EmptyRings

(* The controller and the card keep the types.                             *)
LEMMA TypeHardware == TypeInv /\ Hardware => TypeInv'
<1> SUFFICES ASSUME TypeInv, Hardware PROVE TypeInv'
  OBVIOUS
<1>0. hw \in HwRec /\ priv \in PrivRec /\ ring \in RingRec /\ OtherTypes
  BY TypeParts DEF TypeInv
<1> DEFINE Goal == /\ hw' \in HwRec /\ (hw'.due => card' \in Cards)
                   /\ card' \in Cards \union {NoCard} /\ freq' \in BOOLEAN
<1>1. ASSUME NEW c \in Cards, Insert(c) PROVE Goal
  BY <1>0, <1>1 DEF Insert, OtherTypes
<1>2. ASSUME Remove PROVE Goal
  BY <1>0, <1>2 DEF Remove, OtherTypes, HwRec
<1>3. ASSUME FreqChange PROVE Goal
  BY <1>0, <1>3 DEF FreqChange, OtherTypes, TypeInv
<1>4. ASSUME NEW err \in BOOLEAN, CardAnswers(err) PROVE Goal
  <2>1. card \in Cards /\ card.conv \in SUBSET Settings /\ card.stops \in BOOLEAN
    BY <1>4, ScardAssumption DEF CardAnswers, TypeInv
  <2>2. priv.rev \in SUBSET Settings
    BY <1>0 DEF PrivRec, RevSet
  <2> DEFINE kind == IF mon = "wait3" THEN card.v3 ELSE card.v5
             ts == IF kind = "junk" THEN {"junk"}
                   ELSE (card.conv \ priv.rev) \union (priv.rev \ card.conv)
             a == [ts |-> ts, ok |-> kind = "ok", stops |-> card.stops]
             n == Least(hw.rx + 1, FifoSize)
             e == IF err THEN {"E"} ELSE {}
             sr == hw.sr \union {"R"} \union e
  <2>3. a \in Answers
    BY <2>1, <2>2 DEF Answers
  <2>4. n \in 0 .. FifoSize
    BY <1>0, Consts DEF HwRec, Least
  <2>5. hw' = [hw EXCEPT !.due = FALSE, !.sr = sr, !.rx = n, !.said = a]
    BY <1>4 DEF CardAnswers
  <2>6. sr \in SrSet
    BY <1>0 DEF HwRec, SrSet
  <2> HIDE DEF a, n, sr
  <2>7. hw' \in HwRec /\ ~hw'.due
    BY <1>0, <2>3, <2>4, <2>5, <2>6 DEF HwRec
  <2>8. QED BY <1>0, <1>4, <2>7 DEF CardAnswers, OtherTypes
<1>5. ASSUME RxByte PROVE Goal
  <2>1. hw.rx + 1 \in 0 .. FifoSize
    BY <1>0, <1>5, Consts DEF RxByte, HwRec
  <2>2. hw.sr \in SrSet /\ hw.sr \union {"R"} \in SrSet
    BY <1>0 DEF HwRec, SrSet
  <2>3. hw' \in HwRec /\ hw'.due = hw.due
    BY <1>0, <1>5, <2>1, <2>2 DEF RxByte, HwRec
  <2>4. QED BY <1>0, <1>5, <2>3 DEF RxByte, OtherTypes, TypeInv
<1>6. ASSUME TxByte PROVE Goal
  <2>1. hw.tx - 1 \in 0 .. FifoSize
    BY <1>0, <1>6, Consts DEF TxByte, HwRec
  <2>2. hw.sr \in SrSet /\ hw.sr \union {"T"} \in SrSet
    BY <1>0 DEF HwRec, SrSet
  <2>3. hw' \in HwRec /\ hw'.due = hw.due
    BY <1>0, <1>6, <2>1, <2>2 DEF TxByte, HwRec
  <2>4. QED BY <1>0, <1>6, <2>3 DEF TxByte, OtherTypes, TypeInv
<1>7. Goal
  BY <1>1, <1>2, <1>3, <1>4, <1>5, <1>6 DEF Hardware
<1>8. UNCHANGED <<priv, ring, mon, cur, proc, rst, torn, late>>
  BY DEF Hardware, Insert, Remove, FreqChange, CardAnswers, RxByte, TxByte
<1>9. hw' \in HwRec /\ priv' \in PrivRec /\ ring' \in RingRec /\ OtherTypes'
  BY <1>0, <1>7, <1>8 DEF OtherTypes
<1>10. TypeOK'
  BY <1>9, Zenon DEF TypeOK, HwRec, PrivRec, RingRec, OtherTypes, RstRec, RevSet, SrSet, IdxSet, CntSet
<1>11. QED BY <1>7, <1>8, <1>10 DEF TypeInv

(* The parts of scard_reset and of activate_scard.                         *)
LEMMA ResetSettingsFacts ==
  ASSUME NEW p \in PrivRec, NEW cold \in BOOLEAN, NEW q, q = ResetSettings(p, cold)
  PROVE  /\ q \in PrivRec /\ q.reset_cnt = p.reset_cnt /\ q.b_mode = p.b_mode
         /\ q.card_existed = p.card_existed /\ q.normal_mode = p.normal_mode
<1> DEFINE v == cold \/ p.volt3
           r == IF cold THEN {} ELSE p.rev
<1>1. v \in BOOLEAN /\ r \in RevSet /\ 0 \in IdxSet
  BY DEF PrivRec, RevSet, IdxSet
<1>2. q = [p EXCEPT !.volt3 = v, !.rev = r, !.ans_idx = 0, !.clockstop = FALSE]
  BY DEF ResetSettings, PrivRec
<1> HIDE DEF v, r
<1>3. QED BY <1>1, <1>2 DEF PrivRec

(* The flags alone.                                                        *)
LEMMA ResetFlagsFacts ==
  ASSUME NEW p \in PrivRec, NEW q, q = ResetFlags(p)
  PROVE  /\ q \in PrivRec /\ q.reset_cnt = p.reset_cnt /\ q.b_mode = p.b_mode
         /\ ~q.card_existed /\ ~q.normal_mode
BY DEF ResetFlags, PrivRec

(* Both together.                                                          *)
LEMMA ResetPrivFacts ==
  ASSUME NEW p \in PrivRec, NEW cold \in BOOLEAN,
         NEW q, q = ResetFlags(ResetSettings(p, cold))
  PROVE  /\ q \in PrivRec /\ q.reset_cnt = p.reset_cnt /\ q.b_mode = p.b_mode
         /\ ~q.card_existed /\ ~q.normal_mode
BY ResetSettingsFacts, ResetFlagsFacts

(* What resetting the controller leaves behind.                            *)
LEMMA ResetHwFacts ==
  ASSUME NEW h \in HwRec
  PROVE  ResetHw(h) \in HwRec /\ ~ResetHw(h).due
<1>1. 0 \in 0 .. FifoSize
  BY Consts
<1>2. ResetHw(h) \in HwRec
  BY <1>1 DEF ResetHw, HwRec, HwStates
<1>3. QED BY <1>2 DEF ResetHw, HwRec

(* What powering the card changes.                                         *)
LEMMA PowerFacts ==
  ASSUME NEW h \in HwRec, NEW v3 \in BOOLEAN, card \in Cards \union {NoCard}
  PROVE  /\ Power(h, v3) \in HwRec /\ Power(h, v3).tx = h.tx
         /\ Power(h, v3).sr = h.sr
         /\ Power(h, v3).due => card \in Cards
BY DEF Power, HwRec, HwStates

(* parse_ans2reset changes settings, the clock flag and the count only.    *)
LEMMA ParseFacts ==
  ASSUME NEW p \in PrivRec, p.reset_cnt = 0, NEW v3 \in BOOLEAN,
         NEW a, a = Parse(p, v3)
  PROVE  /\ a.ret \in {"valid", "not_valid", "reset_needed"}
         /\ a.priv \in PrivRec
         /\ a.priv.reset_cnt \in {0, 1}
         /\ a.ret # "reset_needed" => a.priv.reset_cnt = 0
         /\ a.priv.card_existed = p.card_existed
         /\ a.priv.b_mode = p.b_mode
         /\ a.priv.ans = p.ans /\ a.priv.ans_idx = p.ans_idx
         /\ a.ret = "valid" => p.ans.ts = {} /\ p.ans.ok /\ p.ans_idx = 1
<1> DEFINE q == [p EXCEPT !.volt3 = v3]
           rev1 == (p.rev \ Toggled(1)) \union (Toggled(1) \ p.rev)
           rev2 == p.rev \union p.ans.ts
<1>1. p.ans \in Answers /\ p.ans.stops \in BOOLEAN
  BY DEF PrivRec, Answers
<1>2. /\ q \in PrivRec /\ q.reset_cnt = 0 /\ q.card_existed = p.card_existed
      /\ q.b_mode = p.b_mode /\ q.ans = p.ans /\ q.ans_idx = p.ans_idx /\ q.rev = p.rev
  BY DEF PrivRec
<1>3. rev1 \in RevSet /\ (p.ans.ts \in SUBSET Settings => rev2 \in RevSet)
  BY DEF PrivRec, Toggled, Settings, RevSet
<1>4. 1 \in CntSet
  BY DEF CntSet
<1>5. CASE p.ans.ts = {"junk"}
  <2>1. a.ret = "reset_needed" /\ a.priv = [q EXCEPT !.reset_cnt = 1, !.rev = rev1]
    <3> DEFINE cnt == p.reset_cnt + 1
    <3>1. a = [ret |-> IF cnt > 3 THEN "not_valid" ELSE "reset_needed",
               priv |-> [q EXCEPT !.reset_cnt = cnt,
                                  !.rev = IF cnt > 3 THEN @
                                          ELSE (@ \ Toggled(cnt)) \union (Toggled(cnt) \ @)]]
      <4>1. p.ans.ts # {} /\ ~(p.ans.ts \in (SUBSET Settings) \ {{}})
        BY <1>5 DEF Settings
      <4>2. QED BY <1>5, <4>1 DEF Parse
    <3>2. cnt = 1 /\ ~(cnt > 3)
      OBVIOUS
    <3> HIDE DEF cnt, q
    <3>3. a.ret = "reset_needed"
      BY <3>1, <3>2
    <3>4. a.priv = [q EXCEPT !.reset_cnt = 1,
                             !.rev = (@ \ Toggled(1)) \union (Toggled(1) \ @)]
      BY <3>1, <3>2
    <3>5. QED BY <1>2, <3>3, <3>4
  <2> HIDE DEF q, rev1
  <2>2. a.priv \in PrivRec
    BY <1>2, <1>3, <1>4, <2>1 DEF PrivRec
  <2>3. QED BY <1>2, <2>1, <2>2 DEF PrivRec
<1>6. CASE p.ans.ts # {"junk"} /\ p.ans.ts \in (SUBSET Settings) \ {{}}
  <2>1. a.ret = "reset_needed" /\ a.priv = [q EXCEPT !.rev = rev2]
    <3>1. a = [ret |-> "reset_needed", priv |-> [q EXCEPT !.rev = @ \union p.ans.ts]]
      <4>1. p.ans.ts # {}
        BY <1>6, Zenon
      <4>2. QED BY <1>6, <4>1, Zenon DEF Parse
    <3> HIDE DEF q
    <3>2. QED BY <1>2, <3>1
  <2>2. rev2 \in RevSet
    BY <1>3, <1>6
  <2> HIDE DEF q, rev2
  <2>3. a.priv \in PrivRec
    BY <1>2, <2>1, <2>2 DEF PrivRec
  <2>4. QED BY <1>2, <2>1, <2>3 DEF PrivRec
<1>7. CASE p.ans.ts = {} /\ p.ans.ok /\ p.ans_idx = 1
  <2>1. a.ret = "valid" /\ a.priv = [q EXCEPT !.clockstop = p.ans.stops]
    BY <1>7 DEF Parse
  <2> HIDE DEF q
  <2>2. a.priv \in PrivRec
    BY <1>1, <1>2, <2>1 DEF PrivRec
  <2>3. QED BY <1>2, <1>7, <2>1, <2>2 DEF PrivRec
<1>8. CASE /\ p.ans.ts # {"junk"} /\ ~(p.ans.ts \in (SUBSET Settings) \ {{}})
           /\ ~(p.ans.ts = {} /\ p.ans.ok /\ p.ans_idx = 1)
  <2>1. a.ret = "not_valid" /\ a.priv = q
    BY <1>8 DEF Parse
  <2> HIDE DEF q
  <2>2. QED BY <1>2, <2>1
<1>9. QED BY <1>5, <1>6, <1>7, <1>8

-----------------------------------------------------------------------------
(* scard_isr in normal mode keeps the types; it wakes a sleeping reader    *)
(* that blocks when it gives it bytes; and after a transmit interrupt it   *)
(* leaves bytes in the ring only when the FIFO is full.                    *)
LEMMA StoredFacts ==
  ASSUME TypeOK
  PROVE  /\ Stored \in 0 .. RdSize - 1 - RdUsed /\ Stored <= hw.rx
         /\ RdUsed \in 0 .. RdSize - 1
<1>1. hw \in HwRec /\ ring \in RingRec
  BY TypeParts
<1>2. hw.rx \in Nat /\ RdUsed \in 0 .. RdSize - 1
  BY <1>1, RingFacts, Consts DEF HwRec, RdUsed
<1>3. RdSize - 1 - RdUsed \in Nat
  BY <1>2, Consts
<1> DEFINE room == RdSize - 1 - RdUsed
<1> HIDE DEF room
<1>4. room \in Nat => Least(hw.rx, room) \in 0 .. room /\ Least(hw.rx, room) <= hw.rx
  BY <1>2 DEF Least
<1>5. QED BY <1>2, <1>3, <1>4 DEF Stored, room

(* What the handler does for a card that has answered.                     *)
LEMMA IsrNormalFacts ==
  ASSUME TypeOK, IsrNormal
  PROVE  /\ hw' \in HwRec /\ ring' \in RingRec
         /\ hw'.inten = hw.inten /\ hw'.due = hw.due
         /\ proc' \in {proc, "woken"} /\ (proc' # proc => proc = "asleep")
         /\ proc = "asleep" /\ priv.b_mode /\ RdUsed = 0 /\ proc' = "asleep" => RdUsed' = 0
         /\ IF "T" \in hw.sr THEN WrUsed' > 0 => hw'.tx = FifoSize
                             ELSE WrUsed' = WrUsed /\ hw'.tx = hw.tx
         /\ WrUsed' > 0 => WrUsed > 0
<1> DEFINE read == "R" \in hw.sr
           n == IF hw.rx > Stored THEN hw.rx - Stored - 1 ELSE 0
           h == IF read THEN [hw EXCEPT !.sr = {}, !.said = NoAnswer, !.rx = n]
                        ELSE [hw EXCEPT !.sr = {}]
           p == (ring.rd_p + Stored) % RdSize
           r == IF read THEN [ring EXCEPT !.rd_p = p] ELSE ring
           w == WriteDevice(h, r)
<1>0. hw \in HwRec /\ ring \in RingRec
  BY TypeParts
<1>1. /\ hw' = IF "T" \in hw.sr THEN w[1] ELSE h
      /\ ring' = IF "T" \in hw.sr THEN w[2] ELSE r
      /\ proc' = IF read /\ WakesReader /\ proc = "asleep" THEN "woken" ELSE proc
  <2>1. h = IF read THEN [hw EXCEPT !.sr = {}, !.said = NoAnswer,
                                    !.rx = IF @ > Stored THEN @ - Stored - 1 ELSE 0]
                    ELSE [hw EXCEPT !.sr = {}]
    OBVIOUS
  <2>2. r = IF read THEN [ring EXCEPT !.rd_p = (@ + Stored) % RdSize] ELSE ring
    OBVIOUS
  <2> DEFINE x == IF "T" \in hw.sr THEN w ELSE <<h, r>>
  <2>3. /\ hw' = x[1] /\ ring' = x[2]
        /\ proc' = IF read /\ WakesReader /\ proc = "asleep" THEN "woken" ELSE proc
    BY <2>1, <2>2 DEF IsrNormal
  <2> HIDE DEF h, r, w
  <2>4. QED BY <2>3
<1>2. Stored \in 0 .. RdSize - 1 - RdUsed /\ RdUsed \in 0 .. RdSize - 1 /\ Stored <= hw.rx
  BY StoredFacts
<1>3. n \in 0 .. FifoSize /\ {} \in SrSet /\ NoAnswer \in Answers
  BY <1>0, <1>2, Consts DEF HwRec, SrSet, NoAnswer, Answers, Settings
<1> HIDE DEF n
<1>4. h \in HwRec /\ h.inten = hw.inten /\ h.due = hw.due /\ h.tx = hw.tx
  BY <1>0, <1>3 DEF HwRec
<1>5. ring.rd_p \in 0 .. RdSize - 1 /\ ring.rd_c \in 0 .. RdSize - 1
  BY <1>0 DEF RingRec
<1>6. p \in 0 .. RdSize - 1 /\ (Stored = 0 => p = ring.rd_p)
  <2>1. Stored \in 0 .. RdSize
    BY <1>2, Consts
  <2>2. /\ p = IF ring.rd_p + Stored < RdSize THEN ring.rd_p + Stored
                ELSE ring.rd_p + Stored - RdSize
        /\ p \in 0 .. RdSize - 1
    BY <1>5, <2>1, Consts, SumWraps
  <2> HIDE DEF p
  <2>3. QED BY <1>5, <2>2, Consts
<1> HIDE DEF p
<1>7. /\ r \in RingRec /\ r.rd_c = ring.rd_c /\ r.wr_p = ring.wr_p /\ r.wr_c = ring.wr_c
      /\ r.rd_p = IF read THEN p ELSE ring.rd_p
  BY <1>0, <1>6 DEF RingRec
<1> HIDE DEF h, r
<1>8. /\ w[1] \in HwRec /\ w[2] \in RingRec
      /\ w[1] = [h EXCEPT !.tx = w[1].tx]
      /\ w[2] = [r EXCEPT !.wr_c = w[2].wr_c]
      /\ UsedSlots(WrSize, w[2].wr_p, w[2].wr_c) > 0 => w[1].tx = FifoSize
      /\ UsedSlots(WrSize, w[2].wr_p, w[2].wr_c) > 0 => UsedSlots(WrSize, r.wr_p, r.wr_c) > 0
  BY <1>4, <1>7, WriteDeviceFacts, WriteDeviceShrinks
<1> HIDE DEF w
<1>9. w[1].inten = h.inten /\ w[1].due = h.due
  BY <1>4, <1>8 DEF HwRec
<1>10. w[2].rd_p = r.rd_p /\ w[2].rd_c = r.rd_c
  BY <1>7, <1>8 DEF RingRec
<1>11. hw' \in HwRec /\ ring' \in RingRec /\ hw'.inten = hw.inten /\ hw'.due = hw.due
  BY <1>1, <1>4, <1>7, <1>8, <1>9
<1>12. ring'.rd_p = (IF read THEN p ELSE ring.rd_p) /\ ring'.rd_c = ring.rd_c
  BY <1>1, <1>7, <1>10
<1>13. proc' \in {proc, "woken"} /\ (proc' # proc => proc = "asleep")
  BY <1>1
<1>14. ASSUME proc = "asleep", priv.b_mode, RdUsed = 0, proc' = "asleep" PROVE RdUsed' = 0
  <2>1. ~read \/ Stored = 0
    BY <1>1, <1>2, <1>14 DEF WakesReader
  <2>2. ring'.rd_p = ring.rd_p
    BY <1>6, <1>12, <2>1
  <2>3. QED BY <1>12, <1>14, <2>2 DEF RdUsed
<1>15. IF "T" \in hw.sr THEN WrUsed' > 0 => hw'.tx = FifoSize
                        ELSE WrUsed' = WrUsed /\ hw'.tx = hw.tx
  BY <1>1, <1>4, <1>7, <1>8 DEF WrUsed
<1>16. WrUsed' > 0 => WrUsed > 0
  BY <1>1, <1>7, <1>8 DEF WrUsed
<1>17. QED BY <1>11, <1>13, <1>14, <1>15, <1>16

-----------------------------------------------------------------------------
(* Every step keeps the types.                                             *)
LEMMA TypeStep ==
  ASSUME hw' \in HwRec, priv' \in PrivRec, ring' \in RingRec, OtherTypes',
         hw'.due => card' \in Cards, priv'.reset_cnt \in {0, 1},
         priv'.card_existed \/ mon' \in {"decide", "wait3", "wait5"} => priv'.reset_cnt = 0
  PROVE  TypeInv'
<1>1. TypeOK'
  BY Zenon DEF TypeOK, HwRec, PrivRec, RingRec, OtherTypes, RstRec, RevSet, SrSet, IdxSet, CntSet
<1>2. QED BY <1>1 DEF TypeInv

(* The handler keeps the types.                                            *)
LEMMA TypeIsr == TypeInv /\ Isr => TypeInv'
<1> SUFFICES ASSUME TypeInv, Isr PROVE TypeInv'
  OBVIOUS
<1>0. hw \in HwRec /\ priv \in PrivRec /\ ring \in RingRec /\ OtherTypes
  BY TypeParts DEF TypeInv
<1>1. CASE priv.normal_mode
  <2>1. IsrNormal /\ UNCHANGED <<card, freq, mon, cur, rst, torn>> /\ late' \in BOOLEAN
    <3>1. IsrNormal /\ UNCHANGED <<card, freq, mon, cur, rst, torn>>
      BY <1>1 DEF Isr
    <3>2. late' \in BOOLEAN
      BY Zenon DEF Isr
    <3>3. QED BY <3>1, <3>2
  <2>2. UNCHANGED priv
    BY <2>1, Zenon DEF IsrNormal
  <2>3. hw' \in HwRec /\ ring' \in RingRec /\ hw'.due = hw.due /\ proc' \in {proc, "woken"}
    BY <2>1, IsrNormalFacts DEF TypeInv
  <2>4. OtherTypes'
    BY <1>0, <2>1, <2>3 DEF OtherTypes
  <2>5. QED BY <1>0, <2>1, <2>2, <2>3, <2>4, TypeStep DEF TypeInv
<1>2. CASE ~priv.normal_mode
  <2> DEFINE got == "R" \in hw.sr /\ hw.rx > 0
             i == IF got THEN Least(priv.ans_idx + 1, 2) ELSE priv.ans_idx
             a == IF got /\ priv.ans_idx = 0 THEN hw.said ELSE priv.ans
             n == IF got THEN 0 ELSE hw.rx
             e == hw.inten /\ "E" \notin hw.sr
  <2>1. /\ priv' = [priv EXCEPT !.answer2reset = TRUE, !.ans_idx = i, !.ans = a]
        /\ hw' = [hw EXCEPT !.sr = {}, !.rx = n, !.said = NoAnswer, !.inten = e]
        /\ UNCHANGED <<ring, proc, card, freq, mon, cur, rst, torn>> /\ late' \in BOOLEAN
    <3>1. /\ priv' = [priv EXCEPT !.answer2reset = TRUE, !.ans_idx = i, !.ans = a]
          /\ hw' = [hw EXCEPT !.sr = {}, !.rx = n, !.said = NoAnswer, !.inten = e]
          /\ UNCHANGED <<ring, proc, card, freq, mon, cur, rst, torn>>
      BY <1>2 DEF Isr, IsrAnswer
    <3>2. late' \in BOOLEAN
      BY Zenon DEF Isr
    <3>3. QED BY <3>1, <3>2
  <2>2. i \in IdxSet
    BY <1>0 DEF PrivRec, IdxSet, Least
  <2>3. a \in Answers
    BY <1>0 DEF PrivRec, HwRec
  <2>4. n \in 0 .. FifoSize /\ {} \in SrSet
    BY <1>0, Consts DEF HwRec, SrSet
  <2>5. e \in BOOLEAN /\ NoAnswer \in Answers
    BY <1>0 DEF HwRec, Answers, NoAnswer, Settings
  <2> HIDE DEF i, a, n, e
  <2>6. hw' \in HwRec /\ hw'.due = hw.due
    BY <1>0, <2>1, <2>4, <2>5 DEF HwRec
  <2>7. /\ priv' \in PrivRec /\ priv'.reset_cnt = priv.reset_cnt
        /\ priv'.card_existed = priv.card_existed
    BY <1>0, <2>1, <2>2, <2>3 DEF PrivRec
  <2>8. OtherTypes'
    BY <1>0, <2>1 DEF OtherTypes
  <2>9. QED BY <1>0, <2>1, <2>6, <2>7, <2>8, TypeStep DEF TypeInv
<1>3. QED BY <1>1, <1>2

(* The stores of a reset that is not under the lock: its beginning.        *)
LEMMA ResetBeginsFacts ==
  ASSUME TypeInv, NEW cold \in BOOLEAN, NEW existed \in BOOLEAN,
         NEW who \in {"mon", "proc"}, ResetBegins(who, cold, existed)
  PROVE  /\ hw' \in HwRec /\ priv' \in PrivRec /\ ring' \in RingRec
         /\ hw'.due = hw.due /\ hw'.tx = hw.tx /\ hw'.sr = hw.sr
         /\ priv'.reset_cnt = priv.reset_cnt /\ priv'.b_mode = priv.b_mode
         /\ priv'.card_existed = existed /\ WrUsed' = WrUsed
         /\ rst' \in RstRec
         /\ who = "mon" => rst'.mon = "rd_p" /\ rst'.proc = rst.proc
         /\ who = "proc" => rst'.proc = "rd_p" /\ rst'.mon = rst.mon
<1>0. hw \in HwRec /\ priv \in PrivRec /\ ring \in RingRec /\ rst \in RstRec
  BY TypeParts DEF TypeInv, OtherTypes
<1> DEFINE p == [priv EXCEPT !.card_existed = existed]
<1>1. /\ p \in PrivRec /\ p.reset_cnt = priv.reset_cnt /\ p.b_mode = priv.b_mode
      /\ p.card_existed = existed
  BY <1>0 DEF PrivRec
<1>2. priv' = ResetSettings(p, cold)
  BY DEF ResetBegins
<1> HIDE DEF p
<1>3. /\ priv' \in PrivRec /\ priv'.reset_cnt = priv.reset_cnt /\ priv'.b_mode = priv.b_mode
      /\ priv'.card_existed = existed
  BY <1>1, <1>2, ResetSettingsFacts
<1>4. hw' \in HwRec /\ hw'.due = hw.due /\ hw'.tx = hw.tx /\ hw'.sr = hw.sr
  BY <1>0 DEF ResetBegins, HwRec
<1>5. ring' \in RingRec /\ ring'.wr_p = ring.wr_p /\ ring'.wr_c = ring.wr_c
  <2>1. 0 \in 0 .. RdSize - 1
    BY Consts
  <2>2. QED BY <1>0, <2>1 DEF ResetBegins, RingRec
<1>6. /\ rst' \in RstRec
      /\ who = "mon" => rst'.mon = "rd_p" /\ rst'.proc = rst.proc
      /\ who = "proc" => rst'.proc = "rd_p" /\ rst'.mon = rst.mon
  BY <1>0 DEF ResetBegins, RstRec, Stores
<1>7. QED BY <1>3, <1>4, <1>5, <1>6 DEF WrUsed

(* What the empty ring is: both indices at 0.                              *)
LEMMA ZeroUsed ==
  /\ ring'.rd_p = 0 /\ ring'.rd_c = 0 => RdUsed' = 0
  /\ ring'.wr_p = 0 /\ ring'.wr_c = 0 => WrUsed' = 0
BY Consts DEF RdUsed, WrUsed, UsedSlots

(* One index of a ring, and what the histories say of it.                  *)
LEMMA ResetIndexFacts ==
  ASSUME TypeInv, NEW who \in {"mon", "proc"}, NEW i \in DOMAIN NextIndex, ResetIndex(who, i)
  PROVE  /\ ring' \in RingRec /\ rst' \in RstRec
         /\ torn' \in BOOLEAN /\ late' \in BOOLEAN /\ UNCHANGED <<hw, priv>>
         /\ i \in {"rd_p", "wr_c", "wr_p"} /\ rst[who] = i /\ rst'[who] = NextIndex[i]
         /\ who = "mon" => rst'.proc = rst.proc
         /\ who = "proc" => rst'.mon = rst.mon
         /\ i = "rd_p" => WrUsed' = WrUsed /\ late' = late /\ (torn' \/ RdUsed' = 0)
         /\ i = "wr_c" => RdUsed' = RdUsed /\ torn' = torn /\ late' = late
         /\ i = "wr_p" => RdUsed' = RdUsed /\ torn' = torn /\ (late' \/ WrUsed' = 0)
<1>0. ring \in RingRec /\ rst \in RstRec /\ torn \in BOOLEAN /\ late \in BOOLEAN
  BY TypeParts DEF TypeInv, OtherTypes
<1>1. i \in {"rd_p", "wr_c", "wr_p"}
  BY DEF NextIndex
<1>2. /\ NextIndex["rd_p"] = "wr_c" /\ NextIndex["wr_c"] = "wr_p" /\ NextIndex["wr_p"] = "fifo"
  BY DEF NextIndex
<1>3. /\ rst' \in RstRec /\ rst[who] = i /\ rst'[who] = NextIndex[i] /\ UNCHANGED <<hw, priv>>
      /\ who = "mon" => rst'.proc = rst.proc
      /\ who = "proc" => rst'.mon = rst.mon
  <2>1. NextIndex[i] \in Stores
    BY <1>1, <1>2 DEF Stores
  <2>2. rst[who] = i /\ rst' = [rst EXCEPT ![who] = NextIndex[i]] /\ UNCHANGED <<hw, priv>>
    BY DEF ResetIndex
  <2> DEFINE x == NextIndex[i]
  <2> HIDE DEF x
  <2>3. rst' = [rst EXCEPT ![who] = x] /\ x \in Stores
    BY <2>1, <2>2 DEF x
  <2>4. rst' \in RstRec /\ rst'[who] = x
    BY <1>0, <2>3 DEF RstRec
  <2>5. /\ who = "mon" => rst'.proc = rst.proc
        /\ who = "proc" => rst'.mon = rst.mon
    BY <1>0, <2>3 DEF RstRec
  <2>6. QED BY <2>2, <2>4, <2>5 DEF x
<1>4. 0 \in 0 .. RdSize - 1 /\ 0 \in 0 .. WrSize - 1
  BY Consts
<1>5. CASE i = "rd_p"
  <2>1. ring' = [ring EXCEPT !.rd_p = 0] /\ torn' = (ring.rd_c # 0) /\ late' = late
    BY <1>5 DEF ResetIndex
  <2>2. /\ ring' \in RingRec /\ ring'.rd_p = 0 /\ ring'.rd_c = ring.rd_c
        /\ ring'.wr_p = ring.wr_p /\ ring'.wr_c = ring.wr_c
    BY <1>0, <1>4, <2>1 DEF RingRec
  <2>3. WrUsed' = WrUsed /\ (torn' \/ RdUsed' = 0) /\ torn' \in BOOLEAN
    BY <2>1, <2>2, ZeroUsed DEF WrUsed
  <2>4. QED BY <1>0, <1>1, <1>3, <1>5, <2>1, <2>2, <2>3
<1>6. CASE i = "wr_c"
  <2>1. ring' = [ring EXCEPT !.wr_c = 0] /\ torn' = torn /\ late' = late
    BY <1>6 DEF ResetIndex
  <2>2. ring' \in RingRec /\ ring'.rd_p = ring.rd_p /\ ring'.rd_c = ring.rd_c
    BY <1>0, <1>4, <2>1 DEF RingRec
  <2>3. QED BY <1>0, <1>1, <1>3, <1>6, <2>1, <2>2 DEF RdUsed
<1>7. CASE i = "wr_p"
  <2>1. ring' = [ring EXCEPT !.wr_p = 0] /\ torn' = torn /\ late' = (ring.wr_c # 0)
    BY <1>7 DEF ResetIndex
  <2>2. /\ ring' \in RingRec /\ ring'.wr_p = 0 /\ ring'.wr_c = ring.wr_c
        /\ ring'.rd_p = ring.rd_p /\ ring'.rd_c = ring.rd_c
    BY <1>0, <1>4, <2>1 DEF RingRec
  <2>3. RdUsed' = RdUsed /\ (late' \/ WrUsed' = 0) /\ late' \in BOOLEAN
    BY <2>1, <2>2, ZeroUsed DEF RdUsed
  <2>4. QED BY <1>0, <1>1, <1>3, <1>7, <2>1, <2>2, <2>3
<1>8. QED BY <1>1, <1>5, <1>6, <1>7

(* The FIFOs.                                                              *)
LEMMA ResetFifoFacts ==
  ASSUME TypeInv, NEW who \in {"mon", "proc"}, ResetFifo(who)
  PROVE  /\ hw' \in HwRec /\ ~hw'.due /\ rst' \in RstRec
         /\ rst[who] = "fifo" /\ rst'[who] = "card_existed"
         /\ who = "mon" => rst'.proc = rst.proc
         /\ who = "proc" => rst'.mon = rst.mon
         /\ UNCHANGED <<priv, ring, torn, late>>
<1>0. hw \in HwRec /\ rst \in RstRec
  BY TypeParts DEF TypeInv, OtherTypes
<1>1. 0 \in 0 .. FifoSize
  BY Consts
<1>2. hw' \in HwRec /\ ~hw'.due
  BY <1>0, <1>1 DEF ResetFifo, HwRec, HwStates
<1>3. /\ rst' \in RstRec /\ rst'[who] = "card_existed"
      /\ who = "mon" => rst'.proc = rst.proc
      /\ who = "proc" => rst'.mon = rst.mon
  BY <1>0 DEF ResetFifo, RstRec, Stores
<1>4. QED BY <1>2, <1>3 DEF ResetFifo

(* What the end of a wait of activate_scard can lead to.                   *)
LEMMA WaitEndsFacts ==
  ASSUME TypeInv, WaitEnds
  PROVE  /\ mon \in {"wait3", "wait5"} /\ UNCHANGED <<card, freq, cur, proc, rst>>
         /\ hw' \in HwRec /\ (hw'.due => card \in Cards)
         /\ priv' \in PrivRec /\ priv'.reset_cnt \in {0, 1}
         /\ priv'.b_mode = priv.b_mode
         /\ \/ /\ mon' = "wait5" /\ UNCHANGED <<priv, ring, torn, late>>
               /\ hw'.tx = hw.tx /\ hw'.sr = hw.sr
            \/ /\ mon' = "sleep" /\ UNCHANGED <<ring, torn, late>>
               /\ hw'.tx = hw.tx /\ hw'.sr = hw.sr /\ hw'.inten
               /\ priv'.normal_mode /\ priv'.card_existed = priv.card_existed
               /\ priv'.reset_cnt = 0
               /\ priv'.ans_idx = 1 /\ priv'.ans.ts = {} /\ priv'.ans.ok
            \/ /\ ring' = EmptyRings /\ torn' = FALSE /\ late' = FALSE
               /\ ~priv'.card_existed /\ ~priv'.normal_mode
               /\ mon' = "sleep" \/ (mon' = "wait5" /\ priv'.reset_cnt = 0)
<1>0. /\ hw \in HwRec /\ priv \in PrivRec /\ card \in Cards \union {NoCard}
      /\ mon \in {"wait3", "wait5"} /\ priv.reset_cnt = 0
  BY TypeParts DEF TypeInv, OtherTypes, WaitEnds
<1> DEFINE v3 == mon = "wait3"
           a == Parse(priv, v3)
<1>1. v3 \in BOOLEAN
  OBVIOUS
<1>2. AfterWait(v3) /\ UNCHANGED <<card, freq, cur, proc, rst>>
  BY DEF WaitEnds
<1> HIDE DEF v3
<1>3. /\ a.ret \in {"valid", "not_valid", "reset_needed"}
      /\ a.priv \in PrivRec
      /\ a.priv.reset_cnt \in {0, 1}
      /\ a.ret # "reset_needed" => a.priv.reset_cnt = 0
      /\ a.priv.card_existed = priv.card_existed
      /\ a.priv.b_mode = priv.b_mode
      /\ a.priv.ans = priv.ans /\ a.priv.ans_idx = priv.ans_idx
      /\ a.ret = "valid" => priv.ans.ts = {} /\ priv.ans.ok /\ priv.ans_idx = 1
  BY <1>0, <1>1, ParseFacts
<1>4. \/ hw' = Power(hw, FALSE) /\ mon' = "wait5" /\ UNCHANGED <<priv, ring, torn, late>>
      \/ AnswerReset(priv, TRUE, "sleep")
      \/ a.ret = "valid" /\ AnswerValid(a.priv)
      \/ AnswerReset(a.priv, FALSE, "sleep")
      \/ a.ret = "not_valid" /\ AnswerReset(a.priv, TRUE, IF v3 THEN "wait5" ELSE "sleep")
  <2> HIDE DEF a
  <2>1. CASE ~priv.answer2reset
    BY <1>2, <2>1 DEF AfterWait
  <2>2. CASE priv.answer2reset
    <3>1. CASE a = Parse(priv, v3) /\ a.ret = "valid"
      BY <1>2, <2>2, <3>1 DEF AfterWait
    <3>2. CASE a = Parse(priv, v3) /\ a.ret = "reset_needed"
      BY <1>2, <2>2, <3>2 DEF AfterWait
    <3>3. CASE a = Parse(priv, v3) /\ a.ret = "not_valid"
      BY <1>2, <2>2, <3>3 DEF AfterWait
    <3>4. QED BY <1>3, <3>1, <3>2, <3>3 DEF a
  <2>3. QED BY <2>1, <2>2
<1> HIDE DEF a
<1>5. ASSUME NEW p \in PrivRec, p.reset_cnt \in {0, 1}, p.b_mode = priv.b_mode,
             NEW cold \in BOOLEAN, NEW next, AnswerReset(p, cold, next)
      PROVE  /\ hw' \in HwRec /\ (hw'.due => card \in Cards)
             /\ priv' \in PrivRec /\ priv'.reset_cnt = p.reset_cnt
             /\ priv'.b_mode = priv.b_mode
             /\ ring' = EmptyRings /\ torn' = FALSE /\ late' = FALSE /\ mon' = next
             /\ ~priv'.card_existed /\ ~priv'.normal_mode
  <2>1. ResetHw(hw) \in HwRec /\ ~ResetHw(hw).due
    BY <1>0, ResetHwFacts
  <2>2. Power(ResetHw(hw), FALSE) \in HwRec /\ (Power(ResetHw(hw), FALSE).due => card \in Cards)
    BY <1>0, <2>1, PowerFacts
  <2>3. QED BY <1>5, <2>1, <2>2, ResetPrivFacts DEF AnswerReset
<1>6. CASE hw' = Power(hw, FALSE) /\ mon' = "wait5" /\ UNCHANGED <<priv, ring, torn, late>>
  BY <1>0, <1>2, <1>6, PowerFacts
<1>7. CASE AnswerReset(priv, TRUE, "sleep")
  BY <1>0, <1>2, <1>5, <1>7
<1>8. CASE a.ret = "valid" /\ AnswerValid(a.priv)
  <2>1. /\ priv' \in PrivRec /\ priv'.normal_mode
        /\ priv'.card_existed = priv.card_existed /\ priv'.reset_cnt = 0
        /\ priv'.b_mode = priv.b_mode /\ priv'.ans = priv.ans /\ priv'.ans_idx = priv.ans_idx
    BY <1>3, <1>8 DEF AnswerValid, PrivRec
  <2>2. hw' \in HwRec /\ hw'.inten /\ hw'.due = hw.due /\ hw'.tx = hw.tx /\ hw'.sr = hw.sr
    BY <1>0, <1>8 DEF AnswerValid, HwRec
  <2>3. QED BY <1>0, <1>2, <1>3, <1>8, <2>1, <2>2 DEF AnswerValid, TypeInv
<1>9. CASE AnswerReset(a.priv, FALSE, "sleep")
  BY <1>0, <1>2, <1>3, <1>5, <1>9
<1>10. CASE a.ret = "not_valid" /\ AnswerReset(a.priv, TRUE, IF v3 THEN "wait5" ELSE "sleep")
  BY <1>0, <1>2, <1>3, <1>5, <1>10
<1>11. QED BY <1>4, <1>6, <1>7, <1>8, <1>9, <1>10

(* The stores in the middle of a reset keep the types.                     *)
LEMMA TypeGoesOn ==
  ASSUME TypeInv, NEW who \in {"mon", "proc"}, ResetGoesOn(who)
  PROVE  TypeInv'
<1>0. /\ hw \in HwRec /\ priv \in PrivRec /\ ring \in RingRec /\ OtherTypes
      /\ hw.due => card \in Cards
      /\ priv.reset_cnt \in {0, 1}
      /\ priv.card_existed \/ mon \in {"decide", "wait3", "wait5"} => priv.reset_cnt = 0
  BY TypeParts DEF TypeInv
<1>1. UNCHANGED <<card, freq, mon, cur, proc>>
  BY DEF ResetGoesOn
<1>2. ASSUME NEW i \in DOMAIN NextIndex, ResetIndex(who, i) PROVE TypeInv'
  <2>1. /\ ring' \in RingRec /\ rst' \in RstRec
        /\ torn' \in BOOLEAN /\ late' \in BOOLEAN /\ UNCHANGED <<hw, priv>>
    BY <1>2, ResetIndexFacts
  <2>2. OtherTypes'
    BY <1>0, <1>1, <2>1 DEF OtherTypes
  <2>3. QED BY <1>0, <1>1, <2>1, <2>2, TypeStep
<1>3. CASE ResetFifo(who)
  <2>1. hw' \in HwRec /\ ~hw'.due /\ rst' \in RstRec /\ UNCHANGED <<priv, ring, torn, late>>
    BY <1>3, ResetFifoFacts
  <2>2. OtherTypes'
    BY <1>0, <1>1, <2>1 DEF OtherTypes
  <2>3. QED BY <1>0, <1>1, <2>1, <2>2, TypeStep
<1>4. QED BY <1>2, <1>3 DEF ResetGoesOn

(* The store to the last index, by scard_open and after a removal.         *)
LEMMA LastIndexFacts ==
  ASSUME TypeInv, ring' = [ring EXCEPT !.wr_p = 0], late' = (ring.wr_c # 0)
  PROVE  /\ ring' \in RingRec /\ late' \in BOOLEAN /\ RdUsed' = RdUsed
         /\ late' \/ WrUsed' = 0
<1>0. ring \in RingRec /\ 0 \in 0 .. WrSize - 1
  BY TypeParts, Consts DEF TypeInv
<1>1. /\ ring' \in RingRec /\ ring'.wr_p = 0 /\ ring'.wr_c = ring.wr_c
      /\ ring'.rd_p = ring.rd_p /\ ring'.rd_c = ring.rd_c
  BY <1>0 DEF RingRec
<1>2. QED BY <1>1, ZeroUsed DEF RdUsed

(* The monitor thread keeps the types.                                     *)
LEMMA TypeMonitor == TypeInv /\ Monitor => TypeInv'
<1> SUFFICES ASSUME TypeInv, Monitor PROVE TypeInv'
  OBVIOUS
<1>0. /\ hw \in HwRec /\ priv \in PrivRec /\ ring \in RingRec /\ OtherTypes
      /\ hw.due => card \in Cards
      /\ priv.reset_cnt \in {0, 1}
      /\ priv.card_existed \/ mon \in {"decide", "wait3", "wait5"} => priv.reset_cnt = 0
  BY TypeParts DEF TypeInv
<1>1. CASE MonitorFinds
  <2>1. 0 \in CntSet
    BY DEF CntSet
  <2>2. priv' \in PrivRec /\ priv'.reset_cnt = 0
    BY <1>0, <1>1, <2>1 DEF MonitorFinds, PrivRec, HwStates
  <2>3. hw' \in HwRec /\ hw'.due = hw.due
    BY <1>0, <1>1 DEF MonitorFinds, HwRec, HwStates
  <2>4. ring' \in RingRec /\ OtherTypes'
    BY <1>0, <1>1 DEF MonitorFinds, OtherTypes, HwStates
  <2>5. QED BY <1>0, <1>1, <2>2, <2>3, <2>4, TypeStep DEF MonitorFinds
<1>2. CASE MonitorMisses
  <2>1. /\ hw' \in HwRec /\ priv' \in PrivRec /\ ring' \in RingRec /\ hw'.due = hw.due
        /\ priv'.reset_cnt = priv.reset_cnt /\ priv'.card_existed = FALSE /\ rst' \in RstRec
    BY <1>2, ResetBeginsFacts DEF MonitorMisses
  <2>2. OtherTypes'
    BY <1>0, <1>2, <2>1 DEF MonitorMisses, OtherTypes
  <2>3. QED BY <1>0, <1>2, <2>1, <2>2, TypeStep DEF MonitorMisses
<1>3. CASE MonitorResets
  <2>1. /\ hw' \in HwRec /\ priv' \in PrivRec /\ ring' \in RingRec /\ hw'.due = hw.due
        /\ priv'.reset_cnt = priv.reset_cnt /\ rst' \in RstRec
    BY <1>3, ResetBeginsFacts DEF MonitorResets
  <2>2. OtherTypes'
    BY <1>0, <1>3, <2>1 DEF MonitorResets, OtherTypes
  <2>3. QED BY <1>0, <1>3, <2>1, <2>2, TypeStep DEF MonitorResets
<1>4. CASE MonitorResetEnds \/ MonitorLost
  <2>1. priv' \in PrivRec /\ priv'.reset_cnt = priv.reset_cnt /\ ~priv'.card_existed
    BY <1>0, <1>4, ResetFlagsFacts DEF MonitorResetEnds, MonitorLost
  <2>2. rst' \in RstRec
    BY <1>0, <1>4 DEF MonitorResetEnds, MonitorLost, OtherTypes, RstRec
  <2>3. OtherTypes' /\ UNCHANGED <<card, hw, ring>> /\ mon' \in {"sleep", "lost"}
    BY <1>0, <1>4, <2>2 DEF MonitorResetEnds, MonitorLost, OtherTypes
  <2>4. QED BY <1>0, <2>1, <2>3, TypeStep
<1>8. CASE ResetGoesOn("mon")
  BY <1>8, TypeGoesOn
<1>9. CASE MonitorEmpties
  <2>1. 0 \in 0 .. RdSize - 1 /\ 0 \in 0 .. WrSize - 1
    BY Consts
  <2>2. ring' \in RingRec
    BY <1>0, <1>9, <2>1 DEF MonitorEmpties, RingRec
  <2>3. rst' \in RstRec
    BY <1>0, <1>9 DEF MonitorEmpties, OtherTypes, RstRec
  <2>4. OtherTypes' /\ UNCHANGED <<card, hw, priv, mon>>
    BY <1>0, <1>9, <2>3 DEF MonitorEmpties, OtherTypes
  <2>5. QED BY <1>0, <2>2, <2>4, TypeStep
<1>10. CASE MonitorWakes
  <2>1. ring' \in RingRec /\ rst' \in RstRec /\ late' \in BOOLEAN
    BY <1>0, <1>10, LastIndexFacts DEF MonitorWakes, OtherTypes, RstRec
  <2>2. OtherTypes' /\ UNCHANGED <<card, hw, priv>> /\ mon' = "sleep"
    BY <1>0, <1>10, <2>1 DEF MonitorWakes, OtherTypes
  <2>3. QED BY <1>0, <2>1, <2>2, TypeStep
<1>5. CASE MonitorReads
  <2>1. hw.state \in HwStates
    BY <1>0 DEF HwRec
  <2>2. OtherTypes'
    BY <1>0, <1>5, <2>1 DEF MonitorReads, OtherTypes
  <2>3. QED BY <1>0, <1>5, <2>2, TypeStep DEF MonitorReads
<1>6. CASE MonitorDecides
  <2>1. hw' \in HwRec /\ (hw'.due => card \in Cards)
    <3>1. priv.volt3 \in BOOLEAN /\ card \in Cards \union {NoCard}
      BY <1>0 DEF OtherTypes, PrivRec
    <3>2. Power(hw, priv.volt3) \in HwRec /\ (Power(hw, priv.volt3).due => card \in Cards)
      BY <1>0, <3>1, PowerFacts
    <3>3. hw' = Power(hw, priv.volt3) \/ hw' = hw
      BY <1>6 DEF MonitorDecides, Activate
    <3>4. QED BY <1>0, <3>2, <3>3
  <2>2. OtherTypes'
    BY <1>0, <1>6 DEF MonitorDecides, Activate, OtherTypes, HwStates
  <2>3. QED BY <1>0, <1>6, <2>1, <2>2, TypeStep DEF MonitorDecides, Activate
<1>7. CASE WaitEnds
  <2>1. /\ mon' \in {"wait5", "sleep"} /\ ring' \in RingRec
        /\ torn' \in BOOLEAN /\ late' \in BOOLEAN
    BY <1>0, <1>7, WaitEndsFacts, EmptyRingsType DEF OtherTypes
  <2>2. OtherTypes'
    BY <1>0, <1>7, <2>1, WaitEndsFacts DEF OtherTypes
  <2>3. priv'.card_existed \/ mon' \in {"decide", "wait3", "wait5"} => priv'.reset_cnt = 0
    BY <1>0, <1>7, WaitEndsFacts
  <2>4. QED BY <1>7, <2>1, <2>2, <2>3, WaitEndsFacts, TypeStep
<1>11. QED BY <1>1, <1>2, <1>3, <1>4, <1>5, <1>6, <1>7, <1>8, <1>9, <1>10 DEF Monitor

(* Storing k bytes that find room.                                         *)
LEMMA UsedAfterStore ==
  ASSUME NEW n \in Nat, n >= 2, NEW p \in 0 .. n - 1, NEW c \in 0 .. n - 1,
         NEW k \in 0 .. n - 1 - UsedSlots(n, p, c)
  PROVE  /\ (p + k) % n \in 0 .. n - 1
         /\ UsedSlots(n, (p + k) % n, c) = UsedSlots(n, p, c) + k
<1>1. UsedSlots(n, p, c) \in 0 .. n - 1
  BY SlotsInRing
<1>2. k \in 0 .. n
  BY <1>1
<1>3. (p + k) % n = IF p + k < n THEN p + k ELSE p + k - n
  BY <1>2, SumWraps
<1>4. CASE p + k < n
  BY <1>1, <1>3, <1>4 DEF UsedSlots
<1>5. CASE ~(p + k < n)
  BY <1>1, <1>2, <1>3, <1>5 DEF UsedSlots
<1>6. QED BY <1>4, <1>5

(* The rings after a read and after a write.                               *)
LEMMA TakeBytesFacts ==
  ASSUME TypeInv, NEW n \in 1 .. RdSize, TakeBytes(n)
  PROVE  ring' \in RingRec /\ WrUsed' = WrUsed /\ torn' \in BOOLEAN
<1>0. ring \in RingRec /\ ring.rd_p \in 0 .. RdSize - 1 /\ ring.rd_c \in 0 .. RdSize - 1
  BY TypeParts DEF TypeInv, RingRec
<1>1. RdUsed \in 0 .. RdSize - 1
  BY <1>0, RingFacts DEF RdUsed
<1>2. Least(n, RdUsed) \in 0 .. RdUsed
  BY <1>1, Consts DEF Least
<1>3. (ring.rd_c + Least(n, RdUsed)) % RdSize \in 0 .. RdSize - 1
  BY <1>0, <1>2, Consts, UsedAfterTake DEF RdUsed
<1> DEFINE c == (ring.rd_c + Least(n, RdUsed)) % RdSize
<1>4. ring' = [ring EXCEPT !.rd_c = c]
  BY DEF TakeBytes
<1> HIDE DEF c
<1>5. c \in 0 .. RdSize - 1
  BY <1>3 DEF c
<1>6. ring' \in RingRec /\ ring'.wr_p = ring.wr_p /\ ring'.wr_c = ring.wr_c
  BY <1>0, <1>4, <1>5 DEF RingRec
<1>7. torn' \in BOOLEAN
  BY Zenon DEF TakeBytes
<1>8. QED BY <1>6, <1>7 DEF WrUsed

(* Storing bytes to write touches the write ring only.                     *)
LEMMA WriteStoreFacts ==
  ASSUME TypeInv, NEW n \in 1 .. WrSize, WriteStore(n)
  PROVE  ring' \in RingRec /\ RdUsed' = RdUsed
<1>0. ring \in RingRec /\ ring.wr_p \in 0 .. WrSize - 1 /\ ring.wr_c \in 0 .. WrSize - 1
  BY TypeParts DEF TypeInv, RingRec
<1>1. WrUsed \in 0 .. WrSize - 1
  BY <1>0, RingFacts DEF WrUsed
<1>2. Least(n, WrSize - 1 - WrUsed) \in 0 .. WrSize - 1 - WrUsed
  BY <1>1, Consts DEF Least
<1>3. (ring.wr_p + Least(n, WrSize - 1 - WrUsed)) % WrSize \in 0 .. WrSize - 1
  BY <1>0, <1>2, Consts, UsedAfterStore DEF WrUsed
<1> DEFINE p == (ring.wr_p + Least(n, WrSize - 1 - WrUsed)) % WrSize
<1>4. ring' = [ring EXCEPT !.wr_p = p]
  BY DEF WriteStore
<1> HIDE DEF p
<1>5. p \in 0 .. WrSize - 1
  BY <1>3 DEF p
<1>6. ring' \in RingRec /\ ring'.rd_p = ring.rd_p /\ ring'.rd_c = ring.rd_c
  BY <1>0, <1>4, <1>5 DEF RingRec
<1>7. QED BY <1>6 DEF RdUsed

(* Starting to write: bytes left over mean a full FIFO.                    *)
LEMMA WriteKickFacts ==
  ASSUME TypeInv, WriteKick
  PROVE  /\ hw' \in HwRec /\ ring' \in RingRec /\ hw'.due = hw.due
         /\ hw'.inten = hw.inten /\ hw'.sr = hw.sr
         /\ RdUsed' = RdUsed /\ (WrUsed' > 0 => hw'.tx = FifoSize)
<1> DEFINE w == WriteDevice(hw, ring)
<1>0. hw \in HwRec /\ ring \in RingRec
  BY TypeParts DEF TypeInv
<1>1. hw' = w[1] /\ ring' = w[2]
  BY DEF WriteKick
<1>2. /\ w[1] \in HwRec /\ w[2] \in RingRec
      /\ w[1] = [hw EXCEPT !.tx = w[1].tx]
      /\ w[2] = [ring EXCEPT !.wr_c = w[2].wr_c]
      /\ UsedSlots(WrSize, w[2].wr_p, w[2].wr_c) > 0 => w[1].tx = FifoSize
  BY <1>0, WriteDeviceFacts
<1> HIDE DEF w
<1>3. w[1].inten = hw.inten /\ w[1].due = hw.due /\ w[1].sr = hw.sr
  BY <1>0, <1>2 DEF HwRec
<1>4. w[2].rd_p = ring.rd_p /\ w[2].rd_c = ring.rd_c
  BY <1>0, <1>2 DEF RingRec
<1>5. QED BY <1>1, <1>2, <1>3, <1>4 DEF RdUsed, WrUsed

(* The flags that a warm reset by the ioctl clears one by one.             *)
LEMMA FlagFacts ==
  ASSUME TypeInv, NEW f \in DOMAIN NextFlag, IoctlWarmResetFlag(f)
  PROVE  /\ priv' \in PrivRec /\ priv'.reset_cnt = priv.reset_cnt /\ priv'.b_mode = priv.b_mode
         /\ priv'.card_existed => priv.card_existed
         /\ priv'.normal_mode => priv.normal_mode
         /\ f = "normal_mode" => ~priv'.normal_mode
         /\ priv'.ans = priv.ans /\ priv'.ans_idx = priv.ans_idx
         /\ rst' \in RstRec /\ rst'.mon = rst.mon /\ rst.proc = f
         /\ \/ f \in {"card_existed", "state"} /\ rst'.proc \in {"state", "normal_mode"}
               /\ proc' = proc
            \/ f = "normal_mode" /\ rst'.proc = "answer2reset" /\ proc' = proc
            \/ f = "answer2reset" /\ rst'.proc = "none" /\ proc' = "open"
<1>0. priv \in PrivRec /\ rst \in RstRec
  BY TypeParts DEF TypeInv, OtherTypes
<1>1. f \in {"card_existed", "state", "normal_mode", "answer2reset"}
  BY DEF NextFlag
<1>2. /\ NextFlag["card_existed"] = "state" /\ NextFlag["state"] = "normal_mode"
      /\ NextFlag["normal_mode"] = "answer2reset" /\ NextFlag["answer2reset"] = "none"
      /\ DOMAIN NextFlag = {"card_existed", "state", "normal_mode", "answer2reset"}
  BY DEF NextFlag
<1>3. /\ rst.proc = f /\ rst' = [rst EXCEPT !.proc = NextFlag[f]]
      /\ priv' = [priv EXCEPT ![f] = IF f = "state" THEN "UNKNOWN" ELSE FALSE]
      /\ proc' = IF f = "answer2reset" THEN "open" ELSE proc
  BY DEF IoctlWarmResetFlag
<1>4. /\ rst' \in RstRec /\ rst'.mon = rst.mon
      /\ \/ f \in {"card_existed", "state"} /\ rst'.proc \in {"state", "normal_mode"}
            /\ proc' = proc
         \/ f = "normal_mode" /\ rst'.proc = "answer2reset" /\ proc' = proc
         \/ f = "answer2reset" /\ rst'.proc = "none" /\ proc' = "open"
  <2> DEFINE x == NextFlag[f]
  <2>1. x \in {"none", "state", "normal_mode", "answer2reset"}
    BY <1>1, <1>2
  <2>2. rst' = [rst EXCEPT !.proc = x]
    BY <1>3
  <2> HIDE DEF x
  <2>3. rst' \in RstRec /\ rst'.mon = rst.mon /\ rst'.proc = x
    BY <1>0, <1>2, <2>1, <2>2 DEF RstRec
  <2>4. QED BY <1>1, <1>2, <1>3, <2>3 DEF x
<1>5. CASE f = "state"
  <2>1. priv' = [priv EXCEPT !.state = "UNKNOWN"]
    BY <1>3, <1>5
  <2>2. QED BY <1>0, <1>3, <1>4, <1>5, <2>1 DEF PrivRec
<1>6. CASE f = "card_existed"
  <2>1. priv' = [priv EXCEPT !.card_existed = FALSE]
    BY <1>3, <1>6
  <2>2. QED BY <1>0, <1>3, <1>4, <1>6, <2>1 DEF PrivRec
<1>7. CASE f = "normal_mode"
  <2>1. priv' = [priv EXCEPT !.normal_mode = FALSE]
    BY <1>3, <1>7
  <2>2. QED BY <1>0, <1>3, <1>4, <1>7, <2>1 DEF PrivRec
<1>8. CASE f = "answer2reset"
  <2>1. priv' = [priv EXCEPT !.answer2reset = FALSE]
    BY <1>3, <1>8
  <2>2. QED BY <1>0, <1>3, <1>4, <1>8, <2>1 DEF PrivRec
<1>9. QED BY <1>1, <1>5, <1>6, <1>7, <1>8

(* The process keeps the types.                                            *)
LEMMA TypeProcess == TypeInv /\ Process => TypeInv'
<1> SUFFICES ASSUME TypeInv, Process PROVE TypeInv'
  OBVIOUS
<1>0. /\ hw \in HwRec /\ priv \in PrivRec /\ ring \in RingRec /\ OtherTypes
      /\ hw.due => card \in Cards
      /\ priv.reset_cnt \in {0, 1}
      /\ priv.card_existed \/ mon \in {"decide", "wait3", "wait5"} => priv.reset_cnt = 0
  BY TypeParts DEF TypeInv
<1>1. ASSUME NEW block \in Modes, Open(block) PROVE TypeInv'
  <2>1. block \in BOOLEAN
    BY ScardAssumption
  <2>2. /\ priv' \in PrivRec /\ priv'.reset_cnt = priv.reset_cnt
        /\ priv'.card_existed = priv.card_existed
    BY <1>0, <1>1, <2>1 DEF Open, PrivRec, HwStates
  <2>3. ring' \in RingRec
    <3>1. 0 \in 0 .. RdSize - 1
      BY Consts
    <3>2. QED BY <1>0, <1>1, <3>1 DEF Open, RingRec
  <2>4. rst' \in RstRec
    BY <1>0, <1>1 DEF Open, OtherTypes, RstRec, Stores
  <2>5. OtherTypes'
    BY <1>0, <1>1, <2>4 DEF Open, OtherTypes
  <2>6. QED BY <1>0, <1>1, <2>2, <2>3, <2>5, TypeStep DEF Open
<1>11. CASE OpenFlushes
  <2>1. PICK i \in {"rd_p", "wr_c"} : ResetIndex("proc", i)
    BY <1>11 DEF OpenFlushes
  <2>2. i \in DOMAIN NextIndex
    BY DEF NextIndex
  <2>3. ResetGoesOn("proc")
    BY <1>11, <2>1, <2>2 DEF OpenFlushes, ResetGoesOn
  <2>4. QED BY <2>3, TypeGoesOn
<1>12. CASE OpenEnds
  <2>1. ring' \in RingRec /\ rst' \in RstRec /\ late' \in BOOLEAN
    BY <1>0, <1>12, LastIndexFacts DEF OpenEnds, OtherTypes, RstRec
  <2>2. /\ priv' \in PrivRec /\ priv'.reset_cnt = priv.reset_cnt
        /\ priv'.card_existed = priv.card_existed
    BY <1>0, <1>12 DEF OpenEnds, PrivRec, HwStates
  <2>3. OtherTypes' /\ UNCHANGED <<card, hw, mon>>
    BY <1>0, <1>12, <2>1 DEF OpenEnds, OtherTypes
  <2>4. QED BY <1>0, <2>1, <2>2, <2>3, TypeStep
<1>2. CASE Release
  <2>1. /\ priv' \in PrivRec /\ priv'.reset_cnt = priv.reset_cnt
        /\ priv'.card_existed = priv.card_existed
    BY <1>0, <1>2 DEF Release, PrivRec
  <2>2. 0 \in 0 .. FifoSize
    BY Consts
  <2>3. hw' \in HwRec /\ hw'.due = hw.due
    BY <1>0, <1>2, <2>2 DEF Release, HwRec
  <2>4. ring' \in RingRec /\ torn' \in BOOLEAN /\ late' \in BOOLEAN
    BY <1>0, <1>2, EmptyRingsType DEF Release, OtherTypes
  <2>5. OtherTypes'
    BY <1>0, <1>2, <2>4 DEF Release, OtherTypes
  <2>6. QED BY <1>0, <1>2, <2>1, <2>3, <2>4, <2>5, TypeStep DEF Release
<1>3. ASSUME NEW n \in 1 .. RdSize, Read(n) \/ ReadResumes(n) \/ ReadSignalled(n)
      PROVE  TypeInv'
  <2>1. TakeBytes(n) \/ UNCHANGED <<ring, torn>>
    BY <1>3 DEF Read, ReadResumes, ReadSignalled
  <2>2. ring' \in RingRec /\ torn' \in BOOLEAN
    BY <1>0, <2>1, TakeBytesFacts DEF OtherTypes
  <2>3. OtherTypes'
    BY <1>0, <1>3, <2>2 DEF Read, ReadResumes, ReadSignalled, OtherTypes
  <2>4. UNCHANGED <<card, hw, priv, mon>>
    BY <1>3 DEF Read, ReadResumes, ReadSignalled
  <2>5. QED BY <1>0, <2>2, <2>3, <2>4, TypeStep
<1>4. CASE WriteStart
  <2>1. OtherTypes'
    BY <1>0, <1>4 DEF WriteStart, OtherTypes
  <2>2. UNCHANGED <<card, hw, priv, ring, mon>>
    BY <1>4 DEF WriteStart
  <2>3. QED BY <1>0, <2>1, <2>2, TypeStep
<1>5. ASSUME NEW n \in 1 .. WrSize, WriteStore(n) PROVE TypeInv'
  <2>1. late' \in BOOLEAN
    BY <1>5, Zenon DEF WriteStore
  <2>2. OtherTypes'
    BY <1>0, <1>5, <2>1 DEF WriteStore, OtherTypes
  <2>3. UNCHANGED <<card, hw, priv, mon>>
    BY <1>5 DEF WriteStore
  <2>4. QED BY <1>0, <1>5, <2>2, <2>3, WriteStoreFacts, TypeStep
<1>6. CASE WriteKick
  <2>0. late' \in BOOLEAN
    BY <1>6, Zenon DEF WriteKick
  <2>1. OtherTypes'
    BY <1>0, <1>6, <2>0 DEF WriteKick, OtherTypes
  <2>2. UNCHANGED <<card, priv, mon>>
    BY <1>6 DEF WriteKick
  <2>3. QED BY <1>0, <1>6, <2>1, <2>2, WriteKickFacts, TypeStep
<1>7. CASE IoctlWarmReset
  <2>1. /\ hw' \in HwRec /\ priv' \in PrivRec /\ ring' \in RingRec /\ hw'.due = hw.due
        /\ priv'.reset_cnt = priv.reset_cnt /\ rst' \in RstRec
    BY <1>7, ResetBeginsFacts DEF IoctlWarmReset
  <2>2. OtherTypes'
    BY <1>0, <1>7, <2>1 DEF IoctlWarmReset, OtherTypes
  <2>3. priv.card_existed
    BY <1>7 DEF IoctlWarmReset, Ready
  <2>4. QED BY <1>0, <1>7, <2>1, <2>2, <2>3, TypeStep DEF IoctlWarmReset
<1>8. CASE IoctlWarmResetGoesOn
  BY <1>8, TypeGoesOn DEF IoctlWarmResetGoesOn
<1>13. ASSUME NEW f \in DOMAIN NextFlag, IoctlWarmResetFlag(f) PROVE TypeInv'
  <2>1. /\ priv' \in PrivRec /\ priv'.reset_cnt = priv.reset_cnt
        /\ priv'.card_existed => priv.card_existed
        /\ rst' \in RstRec
    BY <1>13, FlagFacts
  <2>2. OtherTypes' /\ UNCHANGED <<card, hw, ring, mon>>
    BY <1>0, <1>13, <2>1 DEF IoctlWarmResetFlag, OtherTypes
  <2>3. QED BY <1>0, <2>1, <2>2, TypeStep
<1>9. ASSUME NEW stop \in BOOLEAN, IoctlClock(stop) PROVE TypeInv'
  <2> DEFINE st == IF stop THEN "CLOCK_STOP" ELSE "PWR_IDLE"
  <2>1. st \in HwStates
    BY DEF HwStates
  <2>2. hw' = [hw EXCEPT !.state = st] /\ priv' = [priv EXCEPT !.state = st]
    BY <1>9 DEF IoctlClock
  <2> HIDE DEF st
  <2>3. hw' \in HwRec /\ hw'.due = hw.due
    BY <1>0, <2>1, <2>2 DEF HwRec
  <2>4. /\ priv' \in PrivRec /\ priv'.reset_cnt = priv.reset_cnt
        /\ priv'.card_existed = priv.card_existed
    BY <1>0, <2>1, <2>2 DEF PrivRec
  <2>5. OtherTypes' /\ UNCHANGED <<card, ring, mon>>
    BY <1>0, <1>9 DEF IoctlClock, OtherTypes
  <2>6. QED BY <1>0, <2>3, <2>4, <2>5, TypeStep
<1>10. QED
  BY <1>1, <1>2, <1>3, <1>4, <1>5, <1>6, <1>7, <1>8, <1>9, <1>11, <1>12, <1>13 DEF Process

(* A step that changes nothing keeps the types.                            *)
LEMMA TypeStutter == TypeInv /\ UNCHANGED vars => TypeInv'
<1> SUFFICES ASSUME TypeInv, UNCHANGED vars PROVE TypeInv'
  OBVIOUS
<1>1. hw \in HwRec /\ priv \in PrivRec /\ ring \in RingRec /\ OtherTypes
  BY TypeParts DEF TypeInv
<1>2. OtherTypes'
  BY <1>1 DEF OtherTypes, vars
<1>3. QED BY <1>1, <1>2, TypeStep DEF TypeInv, vars

(* The types and what the later proofs need with them always hold.         *)
LEMMA TypeInvariant == Spec => []TypeInv
<1>1. TypeInv /\ [Next]_vars => TypeInv'
  BY TypeHardware, TypeIsr, TypeMonitor, TypeProcess, TypeStutter DEF Next
<1>2. QED BY <1>1, TypeInit, PTL DEF Spec

(* Every reachable state of the smart card driver has the types of TypeOK, *)
(* for every set of cards and all sizes of rings and FIFOs: the ring       *)
(* indices of sckernel.c stay inside the buffers and the transmit FIFO is  *)
(* never given more bytes than it holds.                                   *)
THEOREM ScardTypeCorrect == Spec => []TypeOK
<1>1. TypeInv => TypeOK
  BY DEF TypeInv
<1>2. QED BY <1>1, TypeInvariant, PTL

-----------------------------------------------------------------------------
(* What a step leaves alone.                                               *)
LEMMA HardwareFacts ==
  ASSUME TypeInv, Hardware
  PROVE  /\ UNCHANGED <<priv, ring, mon, cur, proc, rst, torn, late>>
         /\ hw'.inten = hw.inten
         /\ hw'.tx > 0 \/ "T" \in hw'.sr \/ ~(hw.tx > 0 \/ "T" \in hw.sr)
<1>0. hw \in HwRec
  BY TypeParts DEF TypeInv
<1>1. UNCHANGED <<priv, ring, mon, cur, proc, rst, torn, late>>
  BY DEF Hardware, Insert, Remove, FreqChange, CardAnswers, RxByte, TxByte
<1>2. CASE (\E c \in Cards : Insert(c)) \/ FreqChange
  BY <1>1, <1>2 DEF Insert, FreqChange
<1>3. CASE Remove
  BY <1>0, <1>1, <1>3 DEF Remove, HwRec
<1>4. CASE \E err \in BOOLEAN : CardAnswers(err)
  <2>1. hw'.inten = hw.inten /\ hw'.tx = hw.tx /\ hw.sr \subseteq hw'.sr
    BY <1>0, <1>4 DEF CardAnswers, HwRec
  <2>2. QED BY <1>1, <2>1
<1>5. CASE RxByte
  <2>1. hw'.inten = hw.inten /\ hw'.tx = hw.tx /\ hw'.sr = hw.sr \union {"R"}
    BY <1>0, <1>5 DEF RxByte, HwRec
  <2>2. QED BY <1>1, <2>1
<1>6. CASE TxByte
  <2>1. /\ hw'.inten = hw.inten /\ hw'.tx = hw.tx - 1
        /\ hw'.sr = IF hw.tx = 1 THEN hw.sr \union {"T"} ELSE hw.sr
        /\ hw.tx \in Nat /\ hw.tx > 0
    BY <1>0, <1>6, Consts DEF TxByte, HwRec
  <2>2. hw'.tx > 0 \/ "T" \in hw'.sr
    BY <2>1
  <2>3. QED BY <1>1, <2>1, <2>2
<1>7. QED BY <1>2, <1>3, <1>4, <1>5, <1>6 DEF Hardware

(* Before the card is known the handler leaves rings and reader alone.     *)
LEMMA IsrAnswerFacts ==
  ASSUME TypeInv, IsrAnswer, ~priv.normal_mode
  PROVE  /\ ~priv'.normal_mode /\ priv'.b_mode = priv.b_mode
         /\ priv'.card_existed = priv.card_existed /\ UNCHANGED <<ring, proc>>
<1>0. priv \in PrivRec
  BY TypeParts DEF TypeInv
<1>1. QED BY <1>0 DEF IsrAnswer, PrivRec

(* The decision to activate a card changes the controller only.            *)
LEMMA ActivateFacts ==
  ASSUME TypeInv, MonitorDecides
  PROVE  /\ UNCHANGED <<priv, ring, rst, torn, late, proc>>
         /\ hw'.tx = hw.tx /\ hw'.sr = hw.sr
         /\ mon = "decide"
         /\ mon' \in {"wait3", "wait5"} \/ (mon' = "sleep" /\ hw' = hw)
<1>0. hw \in HwRec /\ priv.volt3 \in BOOLEAN /\ card \in Cards \union {NoCard}
  BY TypeParts DEF TypeInv, PrivRec, OtherTypes
<1>1. QED BY <1>0, PowerFacts DEF MonitorDecides, Activate

(* A store in the middle of a reset leaves the flags and SCARD_INTEN.      *)
LEMMA GoesOnFacts ==
  ASSUME TypeInv, NEW who \in {"mon", "proc"}, ResetGoesOn(who)
  PROVE  /\ UNCHANGED <<card, priv, mon, proc>> /\ hw'.inten = hw.inten
         /\ rst[who] \in {"rd_p", "wr_c", "wr_p", "fifo"}
         /\ rst'[who] \in {"wr_c", "wr_p", "fifo", "card_existed"}
         /\ who = "mon" => rst'.proc = rst.proc
         /\ who = "proc" => rst'.mon = rst.mon
<1>0. hw \in HwRec
  BY TypeParts DEF TypeInv
<1>1. UNCHANGED <<card, mon, proc>>
  BY DEF ResetGoesOn
<1>2. NextIndex["rd_p"] = "wr_c" /\ NextIndex["wr_c"] = "wr_p" /\ NextIndex["wr_p"] = "fifo"
  BY DEF NextIndex
<1>3. CASE \E i \in DOMAIN NextIndex : ResetIndex(who, i)
  BY <1>1, <1>2, <1>3, ResetIndexFacts
<1>4. CASE ResetFifo(who)
  <2>1. hw'.inten = hw.inten
    BY <1>0, <1>4 DEF ResetFifo, HwRec
  <2>2. QED BY <1>1, <1>4, <2>1, ResetFifoFacts
<1>5. QED BY <1>3, <1>4 DEF ResetGoesOn

-----------------------------------------------------------------------------
(* Where the two resets are, and where their callers are.                  *)
StageInv ==
  /\ mon \in {"lost", "reset"} <=> rst.mon # "none"
  /\ rst.mon \in {"again", "wake"} => mon = "lost" /\ ~priv.card_existed
  /\ rst.proc # "none" <=> proc \in {"opening", "reset"}
  /\ proc = "opening" => rst.proc \in {"rd_p", "wr_c", "wr_p"}

(* The monitor thread is where its reset is.                               *)
LEMMA StageMonitor == TypeInv /\ StageInv /\ Monitor => StageInv'
<1> SUFFICES ASSUME TypeInv, StageInv, Monitor PROVE StageInv'
  OBVIOUS
<1>0. priv \in PrivRec /\ rst \in RstRec
  BY TypeParts DEF TypeInv, OtherTypes
<1> USE DEF StageInv
<1>1. CASE MonitorFinds
  BY <1>1 DEF MonitorFinds
<1>2. CASE MonitorMisses
  <2>1. rst'.mon = "rd_p" /\ rst'.proc = rst.proc
    BY <1>2, ResetBeginsFacts DEF MonitorMisses
  <2>2. QED BY <1>2, <2>1 DEF MonitorMisses
<1>3. CASE MonitorResets
  <2>1. rst'.mon = "rd_p" /\ rst'.proc = rst.proc
    BY <1>3, ResetBeginsFacts DEF MonitorResets
  <2>2. QED BY <1>3, <2>1 DEF MonitorResets
<1>4. CASE ResetGoesOn("mon")
  BY <1>4, GoesOnFacts
<1>5. CASE MonitorResetEnds
  <2>1. rst'.mon = "none" /\ rst'.proc = rst.proc
    BY <1>0, <1>5 DEF MonitorResetEnds, RstRec
  <2>2. QED BY <1>5, <2>1 DEF MonitorResetEnds
<1>6. CASE MonitorLost
  <2>1. rst'.mon = "again" /\ rst'.proc = rst.proc
    BY <1>0, <1>6 DEF MonitorLost, RstRec
  <2>2. ~priv'.card_existed
    BY <1>0, <1>6, ResetFlagsFacts DEF MonitorLost
  <2>3. QED BY <1>6, <2>1, <2>2 DEF MonitorLost
<1>7. CASE MonitorEmpties
  <2>1. rst'.mon = "wake" /\ rst'.proc = rst.proc
    BY <1>0, <1>7 DEF MonitorEmpties, RstRec
  <2>2. QED BY <1>7, <2>1 DEF MonitorEmpties
<1>8. CASE MonitorWakes
  <2>1. rst'.mon = "none" /\ rst'.proc = rst.proc
    BY <1>0, <1>8 DEF MonitorWakes, RstRec
  <2>2. QED BY <1>8, <2>1 DEF MonitorWakes
<1>9. CASE MonitorReads
  BY <1>9 DEF MonitorReads
<1>10. CASE MonitorDecides
  BY <1>10, ActivateFacts
<1>11. CASE WaitEnds
  BY <1>11, WaitEndsFacts
<1>12. QED
  BY <1>1, <1>2, <1>3, <1>4, <1>5, <1>6, <1>7, <1>8, <1>9, <1>10, <1>11 DEF Monitor

(* So is the process.                                                      *)
LEMMA StageProcess == TypeInv /\ StageInv /\ Process => StageInv'
<1> SUFFICES ASSUME TypeInv, StageInv, Process PROVE StageInv'
  OBVIOUS
<1>0. priv \in PrivRec /\ rst \in RstRec
  BY TypeParts DEF TypeInv, OtherTypes
<1> USE DEF StageInv
<1>1. ASSUME NEW block \in Modes, Open(block) PROVE StageInv'
  <2>1. /\ rst'.proc = "rd_p" /\ rst'.mon = rst.mon
        /\ priv'.card_existed = priv.card_existed
    BY <1>0, <1>1 DEF Open, RstRec, PrivRec
  <2>2. QED BY <1>1, <2>1 DEF Open
<1>2. CASE OpenFlushes
  <2>1. PICK i \in {"rd_p", "wr_c"} : ResetIndex("proc", i)
    BY <1>2 DEF OpenFlushes
  <2>2. i \in DOMAIN NextIndex /\ NextIndex[i] \in {"wr_c", "wr_p"}
    BY DEF NextIndex
  <2>3. rst'.proc \in {"wr_c", "wr_p"} /\ rst'.mon = rst.mon /\ UNCHANGED priv
    BY <2>1, <2>2, ResetIndexFacts
  <2>4. QED BY <1>2, <2>3 DEF OpenFlushes
<1>3. CASE OpenEnds
  <2>1. /\ rst'.proc = "none" /\ rst'.mon = rst.mon
        /\ priv'.card_existed = priv.card_existed
    BY <1>0, <1>3 DEF OpenEnds, RstRec, PrivRec
  <2>2. QED BY <1>3, <2>1 DEF OpenEnds
<1>4. CASE Release
  <2>1. priv'.card_existed = priv.card_existed
    BY <1>0, <1>4 DEF Release, PrivRec
  <2>2. QED BY <1>4, <2>1 DEF Release
<1>5. ASSUME NEW n \in 1 .. RdSize, Read(n) \/ ReadResumes(n) \/ ReadSignalled(n)
      PROVE  StageInv'
  BY <1>5 DEF Read, ReadResumes, ReadSignalled
<1>6. CASE WriteStart \/ WriteKick \/ \E n \in 1 .. WrSize : WriteStore(n)
  <2>1. UNCHANGED <<rst, mon, priv>> /\ proc \in {"open", "guard", "kick"}
    BY <1>6 DEF WriteStart, WriteKick, WriteStore
  <2>2. proc' \in {"open", "guard", "kick"}
    BY <1>6 DEF WriteStart, WriteKick, WriteStore
  <2>3. QED BY <2>1, <2>2
<1>7. CASE IoctlWarmReset
  <2>1. rst'.proc = "rd_p" /\ rst'.mon = rst.mon
    BY <1>7, ResetBeginsFacts DEF IoctlWarmReset
  <2>2. priv'.card_existed = TRUE /\ priv.card_existed
    BY <1>7, ResetBeginsFacts DEF IoctlWarmReset, Ready
  <2>3. QED BY <1>7, <2>1, <2>2 DEF IoctlWarmReset
<1>8. CASE IoctlWarmResetGoesOn
  BY <1>8, GoesOnFacts DEF IoctlWarmResetGoesOn
<1>9. ASSUME NEW f \in DOMAIN NextFlag, IoctlWarmResetFlag(f) PROVE StageInv'
  BY <1>9, FlagFacts DEF IoctlWarmResetFlag
<1>10. ASSUME NEW stop \in BOOLEAN, IoctlClock(stop) PROVE StageInv'
  <2>1. priv'.card_existed = priv.card_existed
    BY <1>0, <1>10 DEF IoctlClock, PrivRec
  <2>2. QED BY <1>10, <2>1 DEF IoctlClock
<1>11. QED
  BY <1>1, <1>2, <1>3, <1>4, <1>5, <1>6, <1>7, <1>8, <1>9, <1>10 DEF Process

(* The handler knows nothing of resets.                                    *)
LEMMA StageIsr == TypeInv /\ StageInv /\ Isr => StageInv'
<1> SUFFICES ASSUME TypeInv, StageInv, Isr PROVE StageInv'
  OBVIOUS
<1>1. UNCHANGED <<mon, rst>>
  BY DEF Isr
<1>2. /\ proc' \in {proc, "woken"} /\ (proc' # proc => proc = "asleep")
      /\ priv'.card_existed = priv.card_existed
  <2>1. CASE priv.normal_mode
    BY <2>1, IsrNormalFacts DEF Isr, IsrNormal, TypeInv
  <2>2. CASE ~priv.normal_mode
    BY <2>2, IsrAnswerFacts DEF Isr
  <2>3. QED BY <2>1, <2>2
<1>3. QED BY <1>1, <1>2 DEF StageInv

(* The resets and their callers always agree.                              *)
LEMMA StageInvariant == Spec => []StageInv
<1>1. Init => StageInv
  BY DEF Init, StageInv
<1>2. TypeInv /\ StageInv /\ Hardware => StageInv'
  BY HardwareFacts DEF StageInv
<1>3. StageInv /\ UNCHANGED vars => StageInv'
  BY DEF StageInv, vars
<1>4. TypeInv /\ StageInv /\ [Next]_vars => StageInv'
  BY <1>2, <1>3, StageIsr, StageMonitor, StageProcess DEF Next
<1>5. QED BY <1>1, <1>4, TypeInvariant, PTL DEF Spec

-----------------------------------------------------------------------------
(* Activation.  Between the last but one and the last store of a reset by  *)
(* the ioctl the monitor may already have activated the card again.        *)
Activated == hw.inten /\ priv.ans_idx = 1 /\ priv.ans.ts = {} /\ priv.ans.ok
Act ==
  Ready /\ rst.mon = "none" /\ mon \notin {"wait3", "wait5"}
  /\ (proc = "reset" => rst.proc = "answer2reset") => Activated

(* The monitor thread keeps it.                                            *)
LEMMA ActMonitor == TypeInv /\ StageInv /\ Act /\ Monitor => Act'
<1> SUFFICES ASSUME TypeInv, StageInv, Act, Monitor PROVE Act'
  OBVIOUS
<1>0. priv \in PrivRec /\ rst \in RstRec
  BY TypeParts DEF TypeInv, OtherTypes
<1> USE DEF Act, Ready
<1>1. CASE MonitorFinds \/ MonitorResetEnds
  <2>1. ~priv'.normal_mode
    BY <1>0, <1>1, ResetFlagsFacts DEF MonitorFinds, MonitorResetEnds, PrivRec
  <2>2. QED BY <2>1
<1>2. CASE MonitorMisses \/ MonitorResets
  <2>1. rst'.mon = "rd_p"
    BY <1>2, ResetBeginsFacts DEF MonitorMisses, MonitorResets
  <2>2. QED BY <2>1
<1>3. CASE ResetGoesOn("mon")
  BY <1>3, GoesOnFacts
<1>4. CASE MonitorLost \/ MonitorEmpties
  <2>1. rst'.mon \in {"again", "wake"}
    BY <1>0, <1>4 DEF MonitorLost, MonitorEmpties, RstRec
  <2>2. QED BY <2>1
<1>5. CASE MonitorWakes
  <2>1. ~priv'.card_existed
    BY <1>5 DEF MonitorWakes, StageInv
  <2>2. QED BY <2>1
<1>6. CASE MonitorReads
  BY <1>6 DEF MonitorReads, Activated
<1>7. CASE MonitorDecides
  BY <1>7, ActivateFacts DEF Activated
<1>8. CASE WaitEnds
  BY <1>8, WaitEndsFacts DEF Activated
<1>9. QED BY <1>1, <1>2, <1>3, <1>4, <1>5, <1>6, <1>7, <1>8 DEF Monitor

(* The process keeps it.                                                   *)
LEMMA ActProcess == TypeInv /\ StageInv /\ Act /\ Process => Act'
<1> SUFFICES ASSUME TypeInv, StageInv, Act, Process PROVE Act'
  OBVIOUS
<1>0. hw \in HwRec /\ priv \in PrivRec /\ rst \in RstRec
  BY TypeParts DEF TypeInv, OtherTypes
<1> USE DEF Act, Ready
<1>1. ASSUME NEW block \in Modes, Open(block) PROVE Act'
  <2>1. /\ priv'.card_existed = priv.card_existed /\ priv'.normal_mode = priv.normal_mode
        /\ priv'.ans = priv.ans /\ priv'.ans_idx = priv.ans_idx /\ rst'.mon = rst.mon
    BY <1>0, <1>1 DEF Open, PrivRec, RstRec
  <2>2. QED BY <1>1, <2>1 DEF Open, Activated
<1>2. CASE OpenFlushes
  <2>1. PICK i \in {"rd_p", "wr_c"} : ResetIndex("proc", i)
    BY <1>2 DEF OpenFlushes
  <2>2. i \in DOMAIN NextIndex
    BY DEF NextIndex
  <2>3. rst'.mon = rst.mon /\ UNCHANGED <<hw, priv>>
    BY <2>1, <2>2, ResetIndexFacts
  <2>4. QED BY <1>2, <2>3 DEF OpenFlushes, Activated
<1>3. CASE OpenEnds
  <2>1. /\ priv'.card_existed = priv.card_existed /\ priv'.normal_mode = priv.normal_mode
        /\ priv'.ans = priv.ans /\ priv'.ans_idx = priv.ans_idx /\ rst'.mon = rst.mon
    BY <1>0, <1>3 DEF OpenEnds, PrivRec, RstRec
  <2>2. QED BY <1>3, <2>1 DEF OpenEnds, Activated
<1>4. CASE Release
  <2>1. /\ priv'.card_existed = priv.card_existed /\ priv'.normal_mode = priv.normal_mode
        /\ priv'.ans = priv.ans /\ priv'.ans_idx = priv.ans_idx
    BY <1>0, <1>4 DEF Release, PrivRec
  <2>2. hw'.inten = hw.inten
    BY <1>0, <1>4 DEF Release, HwRec
  <2>3. QED BY <1>4, <2>1, <2>2 DEF Release, Activated
<1>5. ASSUME NEW n \in 1 .. RdSize, Read(n) \/ ReadResumes(n) \/ ReadSignalled(n)
      PROVE  Act'
  BY <1>5 DEF Read, ReadResumes, ReadSignalled, Activated
<1>6. CASE WriteStart \/ \E n \in 1 .. WrSize : WriteStore(n)
  <2>1. UNCHANGED <<hw, priv, mon, rst>> /\ proc # "reset"
    BY <1>6 DEF WriteStart, WriteStore
  <2>2. QED BY <2>1 DEF Activated
<1>7. CASE WriteKick
  BY <1>7, WriteKickFacts DEF WriteKick, Activated
<1>8. CASE IoctlWarmReset
  <2>1. rst'.proc = "rd_p" /\ proc' = "reset"
    BY <1>8, ResetBeginsFacts DEF IoctlWarmReset
  <2>2. QED BY <2>1
<1>9. CASE IoctlWarmResetGoesOn
  BY <1>9, GoesOnFacts DEF IoctlWarmResetGoesOn
<1>10. ASSUME NEW f \in DOMAIN NextFlag, IoctlWarmResetFlag(f) PROVE Act'
  <2>1. UNCHANGED <<hw, mon>> /\ proc = "reset"
    BY <1>10 DEF IoctlWarmResetFlag
  <2>2. QED BY <1>10, <2>1, FlagFacts DEF Activated
<1>11. ASSUME NEW stop \in BOOLEAN, IoctlClock(stop) PROVE Act'
  <2>1. /\ priv'.card_existed = priv.card_existed /\ priv'.normal_mode = priv.normal_mode
        /\ priv'.ans = priv.ans /\ priv'.ans_idx = priv.ans_idx
    BY <1>0, <1>11 DEF IoctlClock, PrivRec
  <2>2. hw'.inten = hw.inten
    BY <1>0, <1>11 DEF IoctlClock, HwRec
  <2>3. QED BY <1>11, <2>1, <2>2 DEF IoctlClock, Activated
<1>12. QED
  BY <1>1, <1>2, <1>3, <1>4, <1>5, <1>6, <1>7, <1>8, <1>9, <1>10, <1>11 DEF Process

(* The handler keeps it.                                                   *)
LEMMA ActIsr == TypeInv /\ Act /\ Isr => Act'
<1> SUFFICES ASSUME TypeInv, Act, Isr PROVE Act'
  OBVIOUS
<1>1. UNCHANGED <<mon, rst>>
  BY DEF Isr
<1>2. CASE priv.normal_mode
  <2>1. /\ hw'.inten = hw.inten /\ UNCHANGED priv
        /\ proc' \in {proc, "woken"} /\ (proc' # proc => proc = "asleep")
    BY <1>2, IsrNormalFacts DEF Isr, IsrNormal, TypeInv
  <2>2. QED BY <1>1, <2>1 DEF Act, Ready, Activated
<1>3. CASE ~priv.normal_mode
  BY <1>3, IsrAnswerFacts DEF Isr, Act, Ready
<1>4. QED BY <1>2, <1>3

(* A card that is taken for usable has given exactly one valid answer      *)
(* under the settings in use and has its interrupts on, whatever resets of *)
(* the monitor thread and of the ioctl overlap, store by store.            *)
THEOREM ScardActivated == Spec => []ReadyMeansActivated
<1>1. Init => Act
  BY DEF Init, Act, Ready
<1>2. TypeInv /\ Act /\ Hardware => Act'
  BY HardwareFacts DEF Act, Ready, Activated
<1>3. Act /\ UNCHANGED vars => Act'
  BY DEF Act, Ready, Activated, vars
<1>4. TypeInv /\ StageInv /\ Act /\ [Next]_vars => Act'
  BY <1>2, <1>3, ActIsr, ActMonitor, ActProcess DEF Next
<1>5. Act => ReadyMeansActivated
  BY DEF Act, ReadyMeansActivated, Activated
<1>6. QED BY <1>1, <1>4, <1>5, TypeInvariant, StageInvariant, PTL DEF Spec

-----------------------------------------------------------------------------
(* Sleeping readers and waiting writes.  Bytes that are stored in time lie *)
(* in the write ring of a card that is ready; a reader that sleeps or has  *)
(* been woken is one that blocks; and behind the store that ends its flush *)
(* a reset has left the write ring empty, or what is in it counts as late, *)
(* unless the other reset is about to make its own last store.             *)
After == {"fifo", "card_existed", "state", "normal_mode", "answer2reset", "again"}
OnTheirWay ==
  ~late /\ ~Resetting /\ WrUsed > 0 =>
    Ready /\ (hw.tx > 0 \/ "T" \in hw.sr \/ proc = "kick")
Flushed ==
  /\ rst.mon \in After => late \/ WrUsed = 0 \/ rst.proc = "wr_p"
  /\ rst.proc \in After => late \/ WrUsed = 0 \/ rst.mon \in {"wr_p", "wake"}
RingInv ==
  /\ NoSleepWithBytes
  /\ proc \in {"asleep", "woken"} => priv.b_mode
  /\ OnTheirWay
  /\ Flushed

(* The emptied rings hold nothing.                                         *)
LEMMA EmptyUsed ==
  ring' = EmptyRings => RdUsed' = 0 /\ WrUsed' = 0
BY Consts DEF EmptyRings, RdUsed, WrUsed, UsedSlots

(* The monitor's own reset keeps the invariant of the rings.               *)
LEMMA RingInvReset ==
  TypeInv /\ StageInv /\ RingInv /\ ResetGoesOn("mon") => RingInv'
<1> SUFFICES ASSUME TypeInv, StageInv, RingInv, ResetGoesOn("mon") PROVE RingInv'
  OBVIOUS
<1> USE DEF RingInv, NoSleepWithBytes, OnTheirWay, Flushed, Resetting, After
<1>1. UNCHANGED <<priv, proc>> /\ rst'.proc = rst.proc
  BY GoesOnFacts
<1>2. NextIndex["rd_p"] = "wr_c" /\ NextIndex["wr_c"] = "wr_p" /\ NextIndex["wr_p"] = "fifo"
  BY DEF NextIndex
<1>3. ASSUME NEW i \in DOMAIN NextIndex, ResetIndex("mon", i) PROVE RingInv'
  <2>1. /\ i \in {"rd_p", "wr_c", "wr_p"} /\ rst.mon = i /\ rst'.mon = NextIndex[i]
        /\ i = "rd_p" => WrUsed' = WrUsed /\ late' = late /\ (torn' \/ RdUsed' = 0)
        /\ i = "wr_c" => RdUsed' = RdUsed /\ torn' = torn /\ late' = late
        /\ i = "wr_p" => RdUsed' = RdUsed /\ torn' = torn /\ (late' \/ WrUsed' = 0)
    BY <1>3, ResetIndexFacts
  <2>2. CASE i = "rd_p"
    BY <1>1, <1>2, <2>1, <2>2
  <2>3. CASE i = "wr_c"
    BY <1>1, <1>2, <2>1, <2>3
  <2>4. CASE i = "wr_p"
    BY <1>1, <1>2, <2>1, <2>4
  <2>5. QED BY <2>1, <2>2, <2>3, <2>4
<1>4. CASE ResetFifo("mon")
  <2>1. /\ rst.mon = "fifo" /\ rst'.mon = "card_existed"
        /\ UNCHANGED <<priv, ring, torn, late>>
    BY <1>4, ResetFifoFacts
  <2>2. RdUsed' = RdUsed /\ WrUsed' = WrUsed
    BY <2>1 DEF RdUsed, WrUsed
  <2>3. QED BY <1>1, <2>1, <2>2
<1>5. QED BY <1>3, <1>4 DEF ResetGoesOn

(* The monitor thread keeps the invariant of the rings.                    *)
LEMMA RingInvMonitor == TypeInv /\ StageInv /\ RingInv /\ Monitor => RingInv'
<1> SUFFICES ASSUME TypeInv, StageInv, RingInv, Monitor PROVE RingInv'
  OBVIOUS
<1>0. hw \in HwRec /\ priv \in PrivRec /\ ring \in RingRec /\ rst \in RstRec
  BY TypeParts DEF TypeInv, OtherTypes
<1> USE DEF RingInv, NoSleepWithBytes, OnTheirWay, Flushed, Ready, Resetting, After
<1>1. CASE MonitorFinds
  <2>1. /\ priv'.b_mode = priv.b_mode /\ UNCHANGED <<ring, proc, rst, torn, late>>
        /\ ~priv.card_existed
    BY <1>0, <1>1 DEF MonitorFinds, PrivRec
  <2>2. RdUsed' = RdUsed /\ WrUsed' = WrUsed
    BY <2>1 DEF RdUsed, WrUsed
  <2>3. QED BY <2>1, <2>2
<1>2. CASE MonitorMisses \/ MonitorResets
  <2>1. UNCHANGED <<proc, torn, late>> /\ mon = "sleep"
    BY <1>2 DEF MonitorMisses, MonitorResets
  <2>2. /\ priv'.b_mode = priv.b_mode /\ WrUsed' = WrUsed
        /\ rst'.mon = "rd_p" /\ rst'.proc = rst.proc
    BY <1>2, ResetBeginsFacts DEF MonitorMisses, MonitorResets
  <2>3. rst.mon = "none"
    BY <2>1 DEF StageInv
  <2>4. QED BY <2>1, <2>2, <2>3
<1>3. CASE ResetGoesOn("mon")
  BY <1>3, RingInvReset
<1>4. CASE MonitorResetEnds \/ MonitorLost
  <2>1. /\ UNCHANGED <<ring, proc, torn, late>> /\ rst.mon = "card_existed"
        /\ priv'.b_mode = priv.b_mode
    BY <1>0, <1>4, ResetFlagsFacts DEF MonitorResetEnds, MonitorLost
  <2>2. RdUsed' = RdUsed /\ WrUsed' = WrUsed
    BY <2>1 DEF RdUsed, WrUsed
  <2>3. rst'.mon \in {"none", "again"} /\ rst'.proc = rst.proc
    BY <1>0, <1>4 DEF MonitorResetEnds, MonitorLost, RstRec
  <2>4. QED BY <2>1, <2>2, <2>3
<1>5. CASE MonitorEmpties
  <2>1. rst'.mon = "wake" /\ rst'.proc = rst.proc /\ UNCHANGED <<priv, proc>>
    BY <1>0, <1>5 DEF MonitorEmpties, RstRec
  <2>2. ring'.rd_p = 0 /\ ring'.rd_c = 0
    BY <1>0, <1>5 DEF MonitorEmpties, RingRec
  <2>3. RdUsed' = 0
    BY <2>2, ZeroUsed
  <2>4. QED BY <2>1, <2>3
<1>6. CASE MonitorWakes
  <2>1. rst'.mon = "none" /\ rst'.proc = rst.proc /\ UNCHANGED priv
    BY <1>0, <1>6 DEF MonitorWakes, RstRec
  <2>2. late' \/ WrUsed' = 0
    BY <1>6, LastIndexFacts DEF MonitorWakes
  <2>3. proc' # "asleep" /\ (proc' = "woken" => proc \in {"asleep", "woken"})
    BY <1>6 DEF MonitorWakes
  <2>4. QED BY <2>1, <2>2, <2>3
<1>7. CASE MonitorReads
  <2>1. UNCHANGED <<hw, priv, ring, proc, rst, torn, late>>
    BY <1>7 DEF MonitorReads
  <2>2. RdUsed' = RdUsed /\ WrUsed' = WrUsed
    BY <2>1 DEF RdUsed, WrUsed
  <2>3. QED BY <2>1, <2>2
<1>8. CASE MonitorDecides
  <2>1. UNCHANGED <<priv, ring, rst, torn, late, proc>> /\ hw'.tx = hw.tx /\ hw'.sr = hw.sr
    BY <1>8, ActivateFacts
  <2>2. RdUsed' = RdUsed /\ WrUsed' = WrUsed
    BY <2>1 DEF RdUsed, WrUsed
  <2>3. QED BY <2>1, <2>2
<1>9. CASE WaitEnds
  <2>1. UNCHANGED <<proc, rst>> /\ priv'.b_mode = priv.b_mode
    BY <1>9, WaitEndsFacts
  <2>2. CASE ring' = EmptyRings
    BY <2>1, <2>2, EmptyUsed
  <2>3. CASE /\ UNCHANGED <<ring, torn, late>> /\ hw'.tx = hw.tx /\ hw'.sr = hw.sr
             /\ priv'.card_existed = priv.card_existed
             /\ priv.normal_mode => priv'.normal_mode
    <3>1. RdUsed' = RdUsed /\ WrUsed' = WrUsed
      BY <2>3 DEF RdUsed, WrUsed
    <3>2. QED BY <2>1, <2>3, <3>1
  <2>4. QED BY <1>9, <2>2, <2>3, WaitEndsFacts
<1>10. QED BY <1>1, <1>2, <1>3, <1>4, <1>5, <1>6, <1>7, <1>8, <1>9 DEF Monitor

(* So do a reset by the ioctl and the flush of scard_open.                 *)
LEMMA RingInvStores ==
  ASSUME TypeInv, StageInv, RingInv, proc \in {"opening", "reset"}, ResetGoesOn("proc")
  PROVE  RingInv'
<1> USE DEF RingInv, NoSleepWithBytes, OnTheirWay, Flushed, Resetting, After
<1>1. UNCHANGED <<priv, proc>> /\ rst'.mon = rst.mon
  BY GoesOnFacts
<1>2. NextIndex["rd_p"] = "wr_c" /\ NextIndex["wr_c"] = "wr_p" /\ NextIndex["wr_p"] = "fifo"
  BY DEF NextIndex
<1>3. ASSUME NEW i \in DOMAIN NextIndex, ResetIndex("proc", i) PROVE RingInv'
  <2>1. /\ i \in {"rd_p", "wr_c", "wr_p"} /\ rst.proc = i /\ rst'.proc = NextIndex[i]
        /\ i = "rd_p" => WrUsed' = WrUsed /\ late' = late /\ (torn' \/ RdUsed' = 0)
        /\ i = "wr_c" => RdUsed' = RdUsed /\ torn' = torn /\ late' = late
        /\ i = "wr_p" => RdUsed' = RdUsed /\ torn' = torn /\ (late' \/ WrUsed' = 0)
    BY <1>3, ResetIndexFacts
  <2>2. CASE i = "rd_p"
    BY <1>1, <1>2, <2>1, <2>2
  <2>3. CASE i = "wr_c"
    BY <1>1, <1>2, <2>1, <2>3
  <2>4. CASE i = "wr_p"
    BY <1>1, <1>2, <2>1, <2>4
  <2>5. QED BY <2>1, <2>2, <2>3, <2>4
<1>4. CASE ResetFifo("proc")
  <2>1. /\ rst.proc = "fifo" /\ rst'.proc = "card_existed"
        /\ UNCHANGED <<priv, ring, torn, late>>
    BY <1>4, ResetFifoFacts
  <2>2. RdUsed' = RdUsed /\ WrUsed' = WrUsed
    BY <2>1 DEF RdUsed, WrUsed
  <2>3. QED BY <1>1, <2>1, <2>2
<1>5. QED BY <1>3, <1>4 DEF ResetGoesOn

(* The process keeps the invariant of the rings.                           *)
LEMMA RingInvProcess == TypeInv /\ StageInv /\ RingInv /\ Process => RingInv'
<1> SUFFICES ASSUME TypeInv, StageInv, RingInv, Process PROVE RingInv'
  OBVIOUS
<1>0. hw \in HwRec /\ priv \in PrivRec /\ ring \in RingRec /\ rst \in RstRec
  BY TypeParts DEF TypeInv, OtherTypes
<1> USE DEF RingInv, NoSleepWithBytes, OnTheirWay, Flushed, Ready, Resetting, After
<1>1. ASSUME NEW block \in Modes, Open(block) PROVE RingInv'
  <2>1. rst'.proc = "rd_p" /\ rst'.mon = rst.mon /\ proc' = "opening" /\ late' = late
    BY <1>0, <1>1 DEF Open, RstRec
  <2>2. ring'.wr_p = ring.wr_p /\ ring'.wr_c = ring.wr_c
    BY <1>0, <1>1 DEF Open, RingRec
  <2>3. WrUsed' = WrUsed
    BY <2>2 DEF WrUsed
  <2>4. rst.proc = "none"
    BY <1>1 DEF Open, StageInv
  <2>5. QED BY <2>1, <2>3, <2>4
<1>2. CASE OpenFlushes
  <2>1. PICK i \in {"rd_p", "wr_c"} : ResetIndex("proc", i)
    BY <1>2 DEF OpenFlushes
  <2>2. i \in DOMAIN NextIndex
    BY DEF NextIndex
  <2>3. ResetGoesOn("proc") /\ proc = "opening"
    BY <1>2, <2>1, <2>2 DEF OpenFlushes, ResetGoesOn
  <2>4. QED BY <2>3, RingInvStores
<1>3. CASE OpenEnds
  <2>1. rst'.proc = "none" /\ rst'.mon = rst.mon /\ proc' = "open"
    BY <1>0, <1>3 DEF OpenEnds, RstRec
  <2>2. late' \/ WrUsed' = 0
    BY <1>3, LastIndexFacts DEF OpenEnds
  <2>3. QED BY <2>1, <2>2
<1>4. CASE Release
  <2>1. proc = "open" /\ proc' = "closed" /\ UNCHANGED rst
    BY <1>4 DEF Release
  <2>2. CASE Ready
    BY <1>4, <2>1, <2>2, EmptyUsed DEF Release
  <2>3. CASE ~Ready
    <3>1. UNCHANGED <<ring, late>>
      BY <1>4, <2>3 DEF Release
    <3>2. WrUsed' = WrUsed
      BY <3>1 DEF WrUsed
    <3>3. QED BY <2>1, <2>3, <3>1, <3>2
  <2>4. QED BY <2>2, <2>3
<1>5. ASSUME NEW n \in 1 .. RdSize, Read(n) \/ ReadResumes(n) \/ ReadSignalled(n)
      PROVE  RingInv'
  <2>1. UNCHANGED <<hw, priv, rst, late>> /\ proc \in {"open", "asleep", "woken"}
    BY <1>5 DEF Read, ReadResumes, ReadSignalled
  <2>2. TakeBytes(n) \/ UNCHANGED ring
    BY <1>5 DEF Read, ReadResumes, ReadSignalled
  <2>3. WrUsed' = WrUsed
    BY <2>2, TakeBytesFacts DEF WrUsed
  <2>4. \/ proc' = "open"
        \/ proc' = "asleep" /\ RdUsed' = 0 /\ priv.b_mode
    BY <1>5 DEF Read, ReadResumes, ReadSignalled, RdUsed
  <2>5. QED BY <2>1, <2>3, <2>4
<1>6. CASE WriteStart
  <2>1. UNCHANGED <<hw, priv, ring, rst, late>> /\ proc = "open" /\ proc' = "guard"
    BY <1>6 DEF WriteStart
  <2>2. WrUsed' = WrUsed
    BY <2>1 DEF WrUsed
  <2>3. QED BY <2>1, <2>2
<1>7. ASSUME NEW n \in 1 .. WrSize, WriteStore(n) PROVE RingInv'
  <2>1. /\ UNCHANGED <<hw, priv, rst>> /\ proc = "guard"
        /\ proc' = (IF WrUsed = 0 THEN "kick" ELSE "open")
    BY <1>7 DEF WriteStore
  <2>2. ~late' => ~late /\ Ready /\ ~Resetting
    BY <1>7, Zenon DEF WriteStore
  <2>3. WrUsed \in Nat
    BY <1>0, RingFacts, Consts DEF WrUsed
  <2>4. QED BY <2>1, <2>2, <2>3
<1>8. CASE WriteKick
  <2>1. UNCHANGED <<priv, rst>> /\ proc = "kick" /\ proc' = "open"
    BY <1>8 DEF WriteKick
  <2>2. late' <=> late /\ WrUsed' > 0
    BY <1>8 DEF WriteKick
  <2>3. WrUsed' > 0 => hw'.tx > 0
    BY <1>8, WriteKickFacts, Consts
  <2>4. WrUsed' > 0 => WrUsed > 0
    <3> DEFINE w == WriteDevice(hw, ring)
    <3>1. ring' = w[2]
      BY <1>8 DEF WriteKick
    <3>2. QED BY <1>0, <3>1, WriteDeviceShrinks DEF WrUsed
  <2>5. WrUsed' \in Nat
    BY <1>8, WriteKickFacts, RingFacts, Consts DEF WrUsed
  <2>6. QED BY <2>1, <2>2, <2>3, <2>4, <2>5
<1>9. CASE IoctlWarmReset
  <2>1. proc = "open" /\ proc' = "reset" /\ late' = late
    BY <1>9 DEF IoctlWarmReset
  <2>2. rst'.proc = "rd_p" /\ rst'.mon = rst.mon /\ WrUsed' = WrUsed
    BY <1>9, ResetBeginsFacts DEF IoctlWarmReset
  <2>3. rst.proc = "none"
    BY <2>1 DEF StageInv
  <2>4. QED BY <2>1, <2>2, <2>3
<1>10. CASE IoctlWarmResetGoesOn
  BY <1>10, RingInvStores DEF IoctlWarmResetGoesOn
<1>11. ASSUME NEW f \in DOMAIN NextFlag, IoctlWarmResetFlag(f) PROVE RingInv'
  <2>1. UNCHANGED <<ring, late>> /\ proc = "reset"
    BY <1>11 DEF IoctlWarmResetFlag
  <2>2. /\ rst'.mon = rst.mon /\ rst.proc = f /\ proc' \in {proc, "open"}
        /\ f \in {"card_existed", "state", "normal_mode", "answer2reset"}
        /\ rst'.proc \in {"none", "state", "normal_mode", "answer2reset"}
    BY <1>11, FlagFacts
  <2>3. WrUsed' = WrUsed
    BY <2>1 DEF WrUsed
  <2>4. QED BY <2>1, <2>2, <2>3
<1>12. ASSUME NEW stop \in BOOLEAN, IoctlClock(stop) PROVE RingInv'
  <2>1. proc = "open" /\ UNCHANGED <<ring, rst, proc, late>>
    BY <1>12 DEF IoctlClock
  <2>2. hw'.tx = hw.tx /\ hw'.sr = hw.sr
    BY <1>0, <1>12 DEF IoctlClock, HwRec
  <2>3. priv'.card_existed = priv.card_existed /\ priv'.normal_mode = priv.normal_mode
    BY <1>0, <1>12 DEF IoctlClock, PrivRec
  <2>4. WrUsed' = WrUsed
    BY <2>1 DEF WrUsed
  <2>5. QED BY <2>1, <2>2, <2>3, <2>4
<1>13. QED
  BY <1>1, <1>2, <1>3, <1>4, <1>5, <1>6, <1>7, <1>8, <1>9, <1>10, <1>11, <1>12 DEF Process

(* The handler keeps the invariant of the rings.                           *)
LEMMA RingInvIsr == TypeInv /\ RingInv /\ Isr => RingInv'
<1> SUFFICES ASSUME TypeInv, RingInv, Isr PROVE RingInv'
  OBVIOUS
<1>0. ring \in RingRec
  BY TypeParts DEF TypeInv
<1> USE DEF RingInv, NoSleepWithBytes, OnTheirWay, Flushed, Ready, Resetting, After
<1>1. UNCHANGED <<rst, torn>> /\ (late' <=> late /\ WrUsed' > 0)
  BY DEF Isr
<1>2. CASE priv.normal_mode
  <2>1. IsrNormal /\ UNCHANGED priv
    BY <1>2, Zenon DEF Isr, IsrNormal
  <2>2. /\ ring' \in RingRec
        /\ proc' \in {proc, "woken"} /\ (proc' # proc => proc = "asleep")
        /\ proc = "asleep" /\ priv.b_mode /\ RdUsed = 0 /\ proc' = "asleep" => RdUsed' = 0
        /\ IF "T" \in hw.sr THEN WrUsed' > 0 => hw'.tx = FifoSize
                            ELSE WrUsed' = WrUsed /\ hw'.tx = hw.tx
        /\ WrUsed' > 0 => WrUsed > 0
    BY <2>1, IsrNormalFacts DEF TypeInv
  <2>3. WrUsed' \in Nat
    BY <2>2, RingFacts, Consts DEF WrUsed
  <2>4. NoSleepWithBytes' /\ (proc' \in {"asleep", "woken"} => priv'.b_mode)
    BY <1>1, <2>1, <2>2
  <2>5. OnTheirWay'
    BY <1>1, <2>1, <2>2, Consts
  <2>6. Flushed'
    BY <1>1, <2>2, <2>3
  <2>7. QED BY <2>4, <2>5, <2>6
<1>3. CASE ~priv.normal_mode
  <2>1. ~priv'.normal_mode /\ priv'.b_mode = priv.b_mode /\ UNCHANGED <<ring, proc>>
    BY <1>3, IsrAnswerFacts DEF Isr
  <2>2. RdUsed' = RdUsed /\ WrUsed' = WrUsed
    BY <2>1 DEF RdUsed, WrUsed
  <2>3. WrUsed \in Nat
    BY <1>0, RingFacts, Consts DEF WrUsed
  <2>4. QED BY <1>1, <1>3, <2>1, <2>2, <2>3
<1>4. QED BY <1>2, <1>3

(* The invariant of the rings always holds.                                *)
LEMMA RingInvariant == Spec => []RingInv
<1>1. Init => RingInv
  <2>1. Init => RdUsed = 0 /\ WrUsed = 0
    BY Consts DEF Init, EmptyRings, RdUsed, WrUsed, UsedSlots
  <2>2. QED
    BY <2>1 DEF Init, RingInv, NoSleepWithBytes, OnTheirWay, Flushed, After
<1>2. TypeInv /\ RingInv /\ Hardware => RingInv'
  BY HardwareFacts
     DEF RingInv, NoSleepWithBytes, OnTheirWay, Flushed, Ready, Resetting, RdUsed, WrUsed
<1>3. RingInv /\ UNCHANGED vars => RingInv'
  BY DEF vars, RingInv, NoSleepWithBytes, OnTheirWay, Flushed, Ready, Resetting, RdUsed, WrUsed
<1>4. TypeInv /\ StageInv /\ RingInv /\ [Next]_vars => RingInv'
  BY <1>2, <1>3, RingInvIsr, RingInvMonitor, RingInvProcess DEF Next
<1>5. QED BY <1>1, <1>4, TypeInvariant, StageInvariant, PTL DEF Spec

(* No reader sleeps in scard_read while the ring has bytes for it, outside *)
(* the middle of the monitor's flush, unless that flush has already left   *)
(* the ring in disorder.                                                   *)
THEOREM ScardReaderAwake == Spec => []NoSleepWithBytes
<1>1. RingInv => NoSleepWithBytes
  BY DEF RingInv
<1>2. QED BY <1>1, RingInvariant, PTL

(* Bytes that scard_write stores while the card is ready and nobody resets *)
(* it are always on their way, with every order of the stores of two       *)
(* resets: the FIFO has bytes whose end raises an interrupt, the interrupt *)
(* is pending, or the writer is about to fill the FIFO.                    *)
THEOREM ScardWriteOnItsWay == Spec => []WriteOnItsWay
<1>1. RingInv => WriteOnItsWay
  BY DEF RingInv, OnTheirWay, WriteOnItsWay
<1>2. QED BY <1>1, RingInvariant, PTL
=============================================================================
