--------------------------- MODULE KeyRingProofs ---------------------------
(* Facts about the circular key buffer, for every number of slots.         *)
EXTENDS KeyRing, SequenceTheorems, TLAPS

(* The successor of a slot wraps at the end of the ring.                   *)
LEMMA SuccWraps ==
  ASSUME NEW n \in Nat, n >= 2, NEW i \in 0 .. n - 1
  PROVE  /\ Succ(n, i) = IF i = n - 1 THEN 0 ELSE i + 1
         /\ Succ(n, i) \in 0 .. n - 1
  BY DEF Succ

(* A sum of a slot and at most a ring's length wraps once.                 *)
LEMMA SumWraps ==
  ASSUME NEW n \in Nat, n >= 2, NEW i \in 0 .. n - 1, NEW k \in 0 .. n
  PROVE  /\ (i + k) % n = IF i + k < n THEN i + k ELSE i + k - n
         /\ (i + k) % n \in 0 .. n - 1
  OBVIOUS

(* A ring never holds more than n - 1 keys, each in one of its slots.      *)
LEMMA SlotsInRing ==
  ASSUME NEW n \in Nat, n >= 2, NEW p \in 0 .. n - 1, NEW c \in 0 .. n - 1
  PROVE  /\ UsedSlots(n, p, c) \in 0 .. n - 1
         /\ \A i \in 1 .. UsedSlots(n, p, c) : SlotOf(n, c, i) \in 0 .. n - 1
  BY DEF UsedSlots, SlotOf

(* The keys of a ring form a sequence.                                     *)
LEMMA KeysInRing ==
  ASSUME NEW n \in Nat, n >= 2, NEW S, NEW b \in [0 .. n - 1 -> S],
         NEW p \in 0 .. n - 1, NEW c \in 0 .. n - 1
  PROVE  KeysIn(n, b, p, c) \in Seq(S)
<1>1. UsedSlots(n, p, c) \in 0 .. n - 1
  BY SlotsInRing
<1>2. \A i \in 1 .. UsedSlots(n, p, c) : SlotOf(n, c, i) \in 0 .. n - 1
  BY SlotsInRing
<1>3. \A i \in 1 .. UsedSlots(n, p, c) : b[SlotOf(n, c, i)] \in S
  BY <1>2
<1>4. QED BY <1>1, <1>2, <1>3 DEF KeysIn

(* The length of that sequence is the distance between the two indices.    *)
LEMMA KeysInLength ==
  ASSUME NEW n \in Nat, n >= 2, NEW b,
         NEW p \in 0 .. n - 1, NEW c \in 0 .. n - 1
  PROVE  Len(KeysIn(n, b, p, c)) = UsedSlots(n, p, c)
<1>1. UsedSlots(n, p, c) \in 0 .. n - 1
  BY SlotsInRing
<1>2. QED BY <1>1 DEF KeysIn

(* What storing a key means for the keys of a ring that holds cap keys.    *)
Pushed(cap, q, e) == Append(IF Len(q) = cap THEN Tail(q) ELSE q, e)

(* Storing a key the way the drivers do appends it to the keys of the      *)
(* ring, after dropping the oldest one from a full ring.                   *)
LEMMA StoreAppends ==
  ASSUME NEW n \in Nat, n >= 2, NEW b, NEW b2,
         NEW p \in 0 .. n - 1, NEW c \in 0 .. n - 1,
         \A s \in 0 .. n - 1 : s # p => b2[s] = b[s]
  PROVE  KeysIn(n, b2, Succ(n, p), MakeRoom(n, p, c)) =
           Pushed(n - 1, KeysIn(n, b, p, c), b2[p])
<1> DEFINE S == {b[i] : i \in 0 .. n - 1} \union {b2[i] : i \in 0 .. n - 1}
           e == b2[p]
           p2 == Succ(n, p)
           c2 == MakeRoom(n, p, c)
<1> DEFINE q == KeysIn(n, b, p, c)
           u == UsedSlots(n, p, c)
           q2 == KeysIn(n, b2, p2, c2)
           u2 == UsedSlots(n, p2, c2)
           rest == IF Len(q) = n - 1 THEN Tail(q) ELSE q
<1>0. \A i \in 0 .. n - 1 : b[i] \in S /\ b2[i] \in S
  OBVIOUS
<1> HIDE DEF S
<1>1. /\ p2 = IF p = n - 1 THEN 0 ELSE p + 1
      /\ p2 \in 0 .. n - 1
  BY SuccWraps
<1>2. /\ Succ(n, c) = IF c = n - 1 THEN 0 ELSE c + 1
      /\ c2 = IF p2 = c THEN (IF c = n - 1 THEN 0 ELSE c + 1) ELSE c
      /\ c2 \in 0 .. n - 1
  BY SuccWraps DEF MakeRoom
<1>3. e \in S /\ b2[p] = e
  BY <1>0
<1> HIDE DEF e, p2, c2
<1>4. /\ u \in 0 .. n - 1 /\ q \in Seq(S) /\ Len(q) = u
      /\ \A i \in 1 .. u : q[i] = b[SlotOf(n, c, i)]
  <2>1. UsedSlots(n, p, c) \in 0 .. n - 1
    BY SlotsInRing
  <2>2. \A i \in 1 .. UsedSlots(n, p, c) : SlotOf(n, c, i) \in 0 .. n - 1
    BY SlotsInRing
  <2>3. \A i \in 1 .. UsedSlots(n, p, c) : b[SlotOf(n, c, i)] \in S
    BY <1>0, <2>2
  <2>4. QED BY <2>1, <2>2, <2>3 DEF KeysIn
<1>5. /\ u2 \in 0 .. n - 1 /\ q2 \in Seq(S) /\ Len(q2) = u2
      /\ \A i \in 1 .. u2 : q2[i] = b2[SlotOf(n, c2, i)]
  <2> HIDE DEF q2, u2
  <2>1. /\ UsedSlots(n, p2, c2) \in 0 .. n - 1
        /\ KeysIn(n, b2, p2, c2) \in Seq(S)
        /\ Len(KeysIn(n, b2, p2, c2)) = UsedSlots(n, p2, c2)
        /\ \A i \in 1 .. UsedSlots(n, p2, c2) :
             KeysIn(n, b2, p2, c2)[i] = b2[SlotOf(n, c2, i)]
    <3>1. UsedSlots(n, p2, c2) \in 0 .. n - 1
      BY <1>1, <1>2, <1>3, SlotsInRing
    <3>2. \A i \in 1 .. UsedSlots(n, p2, c2) : SlotOf(n, c2, i) \in 0 .. n - 1
      BY <1>1, <1>2, <1>3, SlotsInRing
    <3>3. \A i \in 1 .. UsedSlots(n, p2, c2) : b2[SlotOf(n, c2, i)] \in S
      BY <1>0, <3>2
    <3>4. QED BY <3>1, <3>2, <3>3 DEF KeysIn
  <2>2. QED BY <2>1 DEF q2, u2
<1>6. (p2 = c) <=> (u = n - 1)
  BY <1>1 DEF UsedSlots
<1>7. CASE u = n - 1
  <2>1. q # <<>>
    BY <1>4, <1>7
  <2>2. rest = Tail(q) /\ rest \in Seq(S) /\ Len(rest) = n - 2
        /\ \A i \in 1 .. n - 2 : rest[i] = q[i + 1]
    <3> HIDE DEF q, u
    <3>1. rest = Tail(q)
      BY <1>4, <1>7
    <3>2. QED BY <3>1, <1>4, <1>7, <2>1, HeadTailProperties
  <2>3. u2 = n - 1
    BY <1>1, <1>2, <1>6, <1>7 DEF UsedSlots
  <2>4. \A i \in 1 .. n - 2 :
               /\ SlotOf(n, c2, i) = SlotOf(n, c, i + 1)
               /\ SlotOf(n, c2, i) # p /\ SlotOf(n, c2, i) \in 0 .. n - 1
    BY <1>1, <1>2, <1>6, <1>7 DEF SlotOf
  <2>5. SlotOf(n, c2, n - 1) = p
    BY <1>1, <1>2, <1>6, <1>7 DEF SlotOf
  <2> HIDE DEF q, q2, rest, u, u2
  <2>6. ASSUME NEW i \in 1 .. n - 2 PROVE q2[i] = rest[i]
    <3>1. i \in 1 .. u2 /\ i + 1 \in 1 .. u
      BY <1>7, <2>3
    <3>2. q2[i] = b2[SlotOf(n, c2, i)]
      BY <1>5, <3>1
    <3>3. b2[SlotOf(n, c2, i)] = b[SlotOf(n, c, i + 1)]
      BY <2>4
    <3>4. b[SlotOf(n, c, i + 1)] = q[i + 1]
      BY <1>4, <3>1
    <3>5. QED BY <2>2, <3>2, <3>3, <3>4
  <2>7. q2[n - 1] = e
    BY <1>3, <1>5, <2>3, <2>5
  <2>8. /\ Append(rest, e) \in Seq(S) /\ Len(Append(rest, e)) = n - 1
        /\ \A i \in 1 .. n - 1 : Append(rest, e)[i] = q2[i]
    BY <1>3, <2>2, <2>6, <2>7, AppendProperties
  <2>9. q2 = Append(rest, e)
    BY <1>5, <2>3, <2>8, SeqEqual
  <2>10. QED
    BY <2>9 DEF rest, q, q2, e, p2, c2, Pushed
<1>8. CASE u # n - 1
  <2>1. c2 = c
    BY <1>2, <1>6, <1>8
  <2>2. u2 = u + 1
    BY <1>1, <1>6, <1>8, <2>1 DEF UsedSlots
  <2>3. \A i \in 1 .. u : SlotOf(n, c, i) # p /\ SlotOf(n, c, i) \in 0 .. n - 1
    BY DEF SlotOf, UsedSlots
  <2>4. SlotOf(n, c, u + 1) = p
    BY DEF SlotOf, UsedSlots
  <2>5. rest = q
    BY <1>4, <1>8
  <2> HIDE DEF q, q2, rest, u, u2
  <2>6. \A i \in 1 .. u : q2[i] = q[i]
    BY <1>3, <1>4, <1>5, <2>1, <2>2, <2>3
  <2>7. q2[u + 1] = e
    BY <1>3, <1>4, <1>5, <2>1, <2>2, <2>4
  <2>8. /\ Append(q, e) \in Seq(S) /\ Len(Append(q, e)) = u + 1
        /\ \A i \in 1 .. u + 1 : Append(q, e)[i] = q2[i]
    BY <1>3, <1>4, <2>6, <2>7, AppendProperties
  <2>9. q2 = Append(q, e)
    BY <1>5, <2>2, <2>8, SeqEqual
  <2>10. QED
    BY <2>5, <2>9 DEF rest, q, q2, e, p2, c2, Pushed
<1>9. QED BY <1>7, <1>8

PushesKey(n, b, b2, p, c) ==
  KeysIn(n, b2, Succ(n, p), MakeRoom(n, p, c)) = Pushed(n - 1, KeysIn(n, b, p, c), b2[p])

(* The same with a name for what is proved.                                *)
LEMMA StoresPush ==
  ASSUME NEW n \in Nat, n >= 2, NEW b, NEW b2,
         NEW p \in 0 .. n - 1, NEW c \in 0 .. n - 1,
         \A s \in 0 .. n - 1 : s # p => b2[s] = b[s]
  PROVE  PushesKey(n, b, b2, p, c)
BY StoreAppends DEF PushesKey

(* Moving the consumer index over k keys removes the k oldest keys.        *)
LEMMA TakeDropsPrefix ==
  ASSUME NEW n \in Nat, n >= 2, NEW b,
         NEW p \in 0 .. n - 1, NEW c \in 0 .. n - 1,
         NEW k \in 0 .. UsedSlots(n, p, c),
         NEW c2, c2 = (c + k) % n
  PROVE  KeysIn(n, b, p, c2) =
           SubSeq(KeysIn(n, b, p, c), k + 1, Len(KeysIn(n, b, p, c)))
<1> DEFINE S == {b[i] : i \in 0 .. n - 1}
           q == KeysIn(n, b, p, c)
           u == UsedSlots(n, p, c)
           q2 == KeysIn(n, b, p, c2)
           u2 == UsedSlots(n, p, c2)
           rest == SubSeq(q, k + 1, Len(q))
<1>0. \A i \in 0 .. n - 1 : b[i] \in S
  OBVIOUS
<1> HIDE DEF S
<1>1. /\ u \in 0 .. n - 1 /\ q \in Seq(S) /\ Len(q) = u
      /\ \A i \in 1 .. u : q[i] = b[SlotOf(n, c, i)]
  <2>1. UsedSlots(n, p, c) \in 0 .. n - 1
    BY SlotsInRing
  <2>2. \A i \in 1 .. UsedSlots(n, p, c) : SlotOf(n, c, i) \in 0 .. n - 1
    BY SlotsInRing
  <2>3. \A i \in 1 .. UsedSlots(n, p, c) : b[SlotOf(n, c, i)] \in S
    BY <1>0, <2>2
  <2>4. QED BY <2>1, <2>2, <2>3 DEF KeysIn
<1>2. k \in 0 .. n /\ k \in 0 .. u
  BY <1>1
<1>3. c2 \in 0 .. n - 1 /\ c2 = IF c + k < n THEN c + k ELSE c + k - n
  BY <1>2, SumWraps
<1>4. /\ u2 \in 0 .. n - 1 /\ q2 \in Seq(S) /\ Len(q2) = u2
      /\ \A i \in 1 .. u2 : q2[i] = b[SlotOf(n, c2, i)]
  <2> HIDE DEF q2, u2
  <2>1. /\ UsedSlots(n, p, c2) \in 0 .. n - 1
        /\ KeysIn(n, b, p, c2) \in Seq(S)
        /\ Len(KeysIn(n, b, p, c2)) = UsedSlots(n, p, c2)
        /\ \A i \in 1 .. UsedSlots(n, p, c2) :
             KeysIn(n, b, p, c2)[i] = b[SlotOf(n, c2, i)]
    <3>1. UsedSlots(n, p, c2) \in 0 .. n - 1
      BY <1>3, SlotsInRing
    <3>2. \A i \in 1 .. UsedSlots(n, p, c2) : SlotOf(n, c2, i) \in 0 .. n - 1
      BY <1>3, SlotsInRing
    <3>3. \A i \in 1 .. UsedSlots(n, p, c2) : b[SlotOf(n, c2, i)] \in S
      BY <1>0, <3>2
    <3>4. QED BY <3>1, <3>2, <3>3 DEF KeysIn
  <2>2. QED BY <2>1 DEF q2, u2
<1>5. u2 = u - k
  BY <1>3 DEF UsedSlots
<1>6. \A i \in 1 .. u - k : SlotOf(n, c2, i) = SlotOf(n, c, k + i)
  BY <1>3 DEF SlotOf, UsedSlots
<1> HIDE DEF q, u, q2, u2, rest
<1>7. \A i \in 1 .. u : q[i] \in S
  BY <1>1, ElementOfSeq
<1>8. /\ rest \in Seq(S) /\ Len(rest) = u - k
      /\ \A i \in 1 .. u - k : rest[i] = q[k + i]
  <2>1. \A i \in k + 1 .. Len(q) : q[i] \in S
    BY <1>1, <1>2, <1>7
  <2>2. /\ SubSeq(q, k + 1, Len(q)) \in Seq(S)
        /\ Len(SubSeq(q, k + 1, Len(q))) =
             IF k + 1 <= Len(q) THEN Len(q) - (k + 1) + 1 ELSE 0
        /\ \A i \in 1 .. Len(q) - (k + 1) + 1 :
             SubSeq(q, k + 1, Len(q))[i] = q[k + 1 + i - 1]
    BY <1>1, <1>2, <2>1, SubSeqProperties
  <2>3. \A i \in 1 .. u - k : k + 1 + i - 1 = k + i
    BY <1>1, <1>2
  <2>4. rest \in Seq(S) /\ Len(rest) = u - k
    BY <1>1, <1>2, <2>2 DEF rest
  <2>5. \A i \in 1 .. u - k : rest[i] = q[k + 1 + i - 1]
    BY <1>1, <1>2, <2>2 DEF rest
  <2>6. QED BY <2>3, <2>4, <2>5
<1>9. ASSUME NEW i \in 1 .. u - k PROVE q2[i] = rest[i]
  <2>1. i \in 1 .. u2 /\ k + i \in 1 .. u
    BY <1>1, <1>2, <1>5
  <2>2. q2[i] = b[SlotOf(n, c, k + i)]
    BY <1>4, <1>6, <2>1
  <2>3. QED BY <1>1, <1>8, <2>1, <2>2
<1>10. q2 = rest
  BY <1>4, <1>5, <1>8, <1>9, SeqEqual
<1>11. QED
  BY <1>10 DEF q, q2, rest
=============================================================================
