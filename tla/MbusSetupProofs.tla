-------------------------- MODULE MbusSetupProofs --------------------------
(* For every byte count and every field limit of at least 1024: the loop   *)
(* of em86xx_mbus_setup_dma loses no byte, and whole sectors never end in  *)
(* BUG().                                                                  *)
EXTENDS MbusSetup, TLAPS

(* The table of widths: each is a positive number up to 1024, and the next *)
(* one is its double.                                                      *)
LEMMA Widths ==
  /\ \A k \in 0 .. MaxShift : Pow2[k] \in 1 .. 1024 /\ Pow2[k] \in Nat
  /\ \A k \in 0 .. MaxShift - 1 : Pow2[k + 1] = 2 * Pow2[k]
  /\ Pow2[0] = 1 /\ Pow2[9] = 512 /\ Pow2[10] = 1024
BY DEF Pow2, MaxShift

(* The next width is twice as large.                                       *)
LEMMA NextWidth ==
  ASSUME NEW k \in 0 .. MaxShift, k < MaxShift
  PROVE  k + 1 \in 0 .. MaxShift /\ Pow2[k] \in Nat /\ Pow2[k + 1] = 2 * Pow2[k]
<1>1. k \in 0 .. MaxShift - 1 /\ k + 1 \in 0 .. MaxShift
  BY DEF MaxShift
<1> QED BY <1>1, Widths

(* Halving an even rest and doubling the width keeps their product.        *)
LEMMA HalveProduct ==
  ASSUME NEW s \in Nat, NEW h \in Nat, s % 2 = 0
  PROVE  s \div 2 \in Nat /\ (s \div 2) * (2 * h) = s * h
<1> DEFINE q == s \div 2
<1>1. q \in Nat /\ s = 2 * q
  OBVIOUS
<1>2. q * (2 * h) = (2 * q) * h
  BY <1>1
<1> QED
  BY <1>1, <1>2

(* Dividing the product by the width gives the rest: count >> idx is exact.*)
LEMMA ExactLines ==
  ASSUME NEW k \in 0 .. MaxShift, NEW s \in Nat
  PROVE  (s * Pow2[k]) \div Pow2[k] = s
<1>1. k \in {0, 1, 2, 3, 4, 5, 6, 7, 8, 9, 10}
  BY DEF MaxShift
<1> QED
  BY <1>1 DEF Pow2, MaxShift

(* The fields of the register are what was written to them.                *)
LEMMA FieldsWritten ==
  ASSUME NEW low \in Nat, NEW high \in Nat, low <= LinearMax
  PROVE  (high * Word + low) % Word = low /\ (high * Word + low) \div Word = high
BY SetupAssumption DEF Word

(* A whole number of sectors is even as long as the width is below one.    *)
LEMMA SectorsReachWidth ==
  ASSUME NEW k \in 0 .. MaxShift, NEW s \in Nat, NEW m \in Nat,
         s * Pow2[k] = Sector * m, k < 9
  PROVE  s % 2 = 0
<1>1. k \in {0, 1, 2, 3, 4, 5, 6, 7, 8}
  BY DEF MaxShift
<1> QED
  BY <1>1 DEF Pow2, MaxShift, Sector

(* The invariant is inductive.                                             *)
LEMMA LoopInvInductive == LoopInv /\ [Next]_vars => LoopInv'
<1> SUFFICES ASSUME LoopInv, [Next]_vars PROVE LoopInv'
  OBVIOUS
<1> USE DEF LoopInv
<1>1. CASE Linear
  BY <1>1 DEF Linear, Write
<1>2. CASE Double
  BY <1>2 DEF Double, Write
<1>3. CASE Rectangle
  BY <1>3 DEF Rectangle
<1>4. CASE Halve
  <2>1. idx < MaxShift /\ sz % 2 = 0 /\ idx' = idx + 1
        /\ horiz' = 2 * horiz /\ sz' = sz \div 2 /\ count' = count /\ pc' = pc
    BY <1>4 DEF Halve, GoesOn
  <2>2. horiz \in Nat /\ idx' \in 0 .. MaxShift /\ horiz' = Pow2[idx']
    <3>1. idx \in 0 .. MaxShift /\ horiz = Pow2[idx]
      BY Zenon DEF LoopInv
    <3>2. idx + 1 \in 0 .. MaxShift /\ Pow2[idx] \in Nat /\ Pow2[idx + 1] = 2 * Pow2[idx]
      BY <2>1, <3>1, NextWidth, Zenon
    <3>3. QED BY <2>1, <3>1, <3>2, Zenon
  <2>3. sz' \in Nat /\ sz' * horiz' = sz * horiz
    BY <2>1, <2>2, HalveProduct
  <2> QED
    BY <2>1, <2>2, <2>3
<1>5. CASE StartRectangle
  BY <1>5 DEF StartRectangle, Write
<1>6. CASE Bug
  BY <1>6 DEF Bug
<1>7. CASE UNCHANGED vars
  BY <1>7 DEF vars
<1> QED
  BY <1>1, <1>2, <1>3, <1>4, <1>5, <1>6, <1>7 DEF Next

(* The width of the rectangle that em86xx_mbus_setup_dma programs is the   *)
(* idx-th power of two, and width times rest is the count asked for.       *)
THEOREM LoopInvariant == Spec => []LoopInv
<1>1. Init => LoopInv
  <2> SUFFICES ASSUME Init PROVE LoopInv
    OBVIOUS
  <2>1. count \in Nat /\ sz = count /\ horiz = 1 /\ idx = 0 /\ pc = "choose"
    BY SetupAssumption DEF Init
  <2>2. sz * horiz = count
    BY <2>1
  <2>3. 0 \in 0 .. MaxShift /\ Pow2[0] = 1
    BY Widths DEF MaxShift
  <2> QED
    BY <2>1, <2>2, <2>3 DEF LoopInv
<1> QED
  BY <1>1, LoopInvInductive, PTL DEF Spec

(* em86xx_mbus_setup_dma never loses or adds a byte and never writes a     *)
(* field above the limit, whatever the count.  The limit itself is written *)
(* (mbus.c:316, 322), which the comments above the three setup functions   *)
(* exclude.                                                                *)
THEOREM SetupMovesCount == Spec => []MovesCount
<1>1. Init => MovesCount
  BY DEF Init, MovesCount
<1>2. LoopInv /\ MovesCount /\ [Next]_vars => MovesCount'
  <2> SUFFICES ASSUME LoopInv, MovesCount, [Next]_vars PROVE MovesCount'
    OBVIOUS
  <2> USE SetupAssumption
  <2>1. CASE Linear
    <3>1. count \in Nat /\ count <= LinearMax /\ cnt' = 0 * Word + count /\ count' = count
      BY <2>1 DEF Linear, Write, LoopInv
    <3>2. Low' = count /\ High' = 0
      BY <3>1, FieldsWritten DEF Low, High
    <3> QED BY <3>1, <3>2 DEF MovesCount, Moved
  <2>2. CASE Double
    <3> DEFINE rest == count - LinearMax
    <3>1. /\ count \in Nat /\ rest \in Nat /\ rest <= LinearMax /\ count' = count
          /\ cnt' = rest * Word + LinearMax /\ count <= 2 * LinearMax
      BY <2>2 DEF Double, Write, LoopInv
    <3> HIDE DEF rest
    <3>2. Low' = LinearMax /\ High' = rest
      BY <3>1, FieldsWritten DEF Low, High
    <3>3. LinearMax + rest = count
      BY <3>1 DEF rest
    <3> QED BY <3>1, <3>2, <3>3 DEF MovesCount, Moved
  <2>3. CASE Rectangle
    BY <2>3 DEF Rectangle, MovesCount
  <2>4. CASE Halve
    BY <2>4 DEF Halve, MovesCount
  <2>5. CASE StartRectangle
    <3>1. Lines = sz
      BY ExactLines DEF Lines, LoopInv
    <3>2. horiz \in Nat /\ sz \in Nat /\ sz * horiz = count /\ count \in Nat
          /\ count > 2 * LinearMax
      <4>1. idx \in 0 .. MaxShift /\ horiz = Pow2[idx]
        BY DEF LoopInv
      <4>2. horiz \in Nat
        BY <4>1, Widths
      <4> QED
        BY <2>5, <4>2 DEF LoopInv, StartRectangle
    <3> HIDE SetupAssumption
    <3>3. cnt' = sz * Word + horiz /\ count' = count /\ horiz <= LinearMax /\ sz <= LinearMax
      BY <2>5, <3>1 DEF StartRectangle, Write, Fits
    <3>4. Low' = horiz /\ High' = sz
      BY <3>2, <3>3, FieldsWritten DEF Low, High
    <3>5. horiz * sz = sz * horiz
      BY <3>2
    <3>6. Moved' = horiz * sz
      BY <3>2, <3>3, <3>4, SetupAssumption DEF Moved
    <3> QED
      BY <3>2, <3>3, <3>4, <3>5, <3>6 DEF MovesCount
  <2>6. CASE Bug
    BY <2>6 DEF Bug, MovesCount
  <2>7. CASE UNCHANGED vars
    BY <2>7 DEF vars, MovesCount, Moved, Low, High
  <2> QED
    BY <2>1, <2>2, <2>3, <2>4, <2>5, <2>6, <2>7 DEF Next
<1> QED
  BY <1>1, <1>2, LoopInvariant, PTL DEF Spec

(* A whole number of sectors, up to LinearMax of them, never runs into the *)
(* BUG() of em86xx_mbus_setup_dma.                                         *)
THEOREM SetupNeverBugs == Spec => []SectorsNeverBug
<1>1. Init => SectorsNeverBug
  BY DEF Init, SectorsNeverBug
<1>2. LoopInv /\ SectorsNeverBug /\ [Next]_vars => SectorsNeverBug'
  <2> SUFFICES ASSUME LoopInv, SectorsNeverBug, [Next]_vars PROVE SectorsNeverBug'
    OBVIOUS
  <2>1. CASE Bug
    <3> SUFFICES ASSUME count % Sector = 0, count <= Sector * LinearMax PROVE FALSE
      BY <2>1, SetupAssumption DEF Bug, SectorsNeverBug, LoopInv, Sector
    <3>1. Lines = sz /\ horiz \in 1 .. 1024
      BY ExactLines, Widths DEF Lines, LoopInv
    <3>2. PICK m \in Nat : count = Sector * m
      BY DEF LoopInv, Sector
    <3>3. idx >= 9
      BY <2>1, <3>2, SectorsReachWidth DEF Bug, GoesOn, LoopInv, MaxShift
    <3>4. horiz = 512 \/ horiz = 1024
      <4>1. idx \in 0 .. 10 /\ horiz = Pow2[idx]
        BY DEF LoopInv, MaxShift
      <4>2. idx = 9 \/ idx = 10
        BY <3>3, <4>1
      <4> QED
        BY <4>1, <4>2, Widths
    <3>5. sz <= LinearMax
      BY <3>4, SetupAssumption DEF LoopInv, Sector
    <3> QED
      BY <2>1, <3>1, <3>5, SetupAssumption DEF Bug, Fits
  <2>2. CASE ~Bug
    BY <2>2 DEF Next, SectorsNeverBug, Linear, Double, Rectangle, Halve,
                StartRectangle, Write, vars
  <2> QED
    BY <2>1, <2>2
<1> QED
  BY <1>1, <1>2, LoopInvariant, PTL DEF Spec
=============================================================================
