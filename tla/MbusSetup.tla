------------------------------ MODULE MbusSetup ------------------------------
(***************************************************************************)
(* How em86xx_mbus_setup_dma (arch/mips/tangox/mbus.c) moves a number of   *)
(* bytes that one register field cannot hold: as one run, as two runs, or  *)
(* as a rectangle whose width is a power of two found by a loop.           *)
(***************************************************************************)
EXTENDS Integers

CONSTANTS LinearMax,   \* MBUS_LINEAR_MAX
          Counts       \* byte counts the drivers ask for

(* MIF_cnt has two fields of 16 bits.                                      *)
Word == 65536

(* The widest rectangle, 2^10, fits a field, and so does the maximum.      *)
ASSUME SetupAssumption ==
  /\ LinearMax \in Nat /\ LinearMax >= 1024 /\ LinearMax < Word
  /\ Counts \subseteq Nat

VARIABLES pc, count, idx, horiz, sz,
          cnt          \* MIF_cnt

vars == <<pc, count, idx, horiz, sz, cnt>>

(* The loop ends after MaxShift rounds.                                    *)
MaxShift == 10

Init ==
  /\ pc = "choose" /\ count \in Counts
  /\ idx = 0 /\ horiz = 1 /\ sz = count
  /\ cnt = 0

(* (high << 16) | low, for a low that fits.                                *)
Write(low, high) == pc' = "started" /\ cnt' = high * Word + low

Linear ==
  /\ pc = "choose" /\ count <= LinearMax
  /\ Write(count, 0)
  /\ UNCHANGED <<count, idx, horiz, sz>>

(* Mutant: the second run starts one byte early.                           *)
Double_Overlaps ==
  /\ pc = "choose" /\ count > LinearMax /\ count <= 2 * LinearMax
  /\ Write(LinearMax, count - LinearMax + 1)
  /\ UNCHANGED <<count, idx, horiz, sz>>

Double ==
  /\ pc = "choose" /\ count > LinearMax /\ count <= 2 * LinearMax
  /\ Write(LinearMax, count - LinearMax)
  /\ UNCHANGED <<count, idx, horiz, sz>>

Rectangle ==
  /\ pc = "choose" /\ count > 2 * LinearMax
  /\ pc' = "loop"
  /\ UNCHANGED <<count, idx, horiz, sz, cnt>>

(* Mutant: the loop stops at a width of 128.                               *)
GoesOn_Short == idx < 7 /\ sz % 2 = 0

(* The loop's condition and body.                                          *)
GoesOn == idx < MaxShift /\ sz % 2 = 0

(* Mutant: the width is not doubled.                                       *)
Halve_KeepsWidth ==
  /\ pc = "loop" /\ GoesOn
  /\ idx' = idx + 1 /\ sz' = sz \div 2
  /\ UNCHANGED <<pc, count, horiz, cnt>>

Halve ==
  /\ pc = "loop" /\ GoesOn
  /\ idx' = idx + 1 /\ horiz' = 2 * horiz /\ sz' = sz \div 2
  /\ UNCHANGED <<pc, count, cnt>>

(* count >> idx.                                                           *)
Lines == count \div horiz

Fits == horiz <= LinearMax /\ Lines <= LinearMax

StartRectangle ==
  /\ pc = "loop" /\ ~GoesOn /\ Fits
  /\ Write(horiz, Lines)
  /\ UNCHANGED <<count, idx, horiz, sz>>

(* BUG().                                                                  *)
Bug ==
  /\ pc = "loop" /\ ~GoesOn /\ ~Fits
  /\ pc' = "bug"
  /\ UNCHANGED <<count, idx, horiz, sz, cnt>>

Next == Linear \/ Double \/ Rectangle \/ Halve \/ StartRectangle \/ Bug
Spec == Init /\ [][Next]_vars

-----------------------------------------------------------------------------
(* Properties.                                                             *)

(* Bytes the channel moves, from the fields of its register: a run, or two *)
(* runs, or a rectangle.                                                   *)
Low == cnt % Word
High == cnt \div Word
Moved == IF count <= 2 * LinearMax THEN Low + High ELSE Low * High

(* The register that starts the channel moves exactly the bytes asked for, *)
(* although lines is rounded down and both fields share it, and no field   *)
(* exceeds the maximum.                                                    *)
MovesCount ==
  pc = "started" => Moved = count /\ Low <= LinearMax /\ High <= LinearMax

(* mbus.c:196, 215-216 and 240-241 "< MBUS_LINEAR_MAX": does not hold and  *)
(* no configuration checks it.  The tests of em86xx_mbus_setup_dma are     *)
(* "<=" (lines 316, 321, 335), and line 322 passes the maximum itself;     *)
(* 0x2000 - 1 still fits thirteen bits.                                    *)
FieldsBelowMax == pc = "started" => Low < LinearMax /\ High < LinearMax

(* A whole number of sectors, up to LinearMax of them, never ends in       *)
(* BUG(): the loop cannot stop before the width has reached a sector.      *)
Sector == 512
SectorsNeverBug ==
  pc = "bug" => count % Sector # 0 \/ count > Sector * LinearMax

(* The strengthening of both: the loop keeps width times rest equal to the *)
(* count, with a width that is the idx-th power of two.                    *)
Pow2 == [k \in 0 .. MaxShift |->
  CASE k = 0 -> 1 [] k = 1 -> 2 [] k = 2 -> 4 [] k = 3 -> 8 [] k = 4 -> 16
    [] k = 5 -> 32 [] k = 6 -> 64 [] k = 7 -> 128 [] k = 8 -> 256
    [] k = 9 -> 512 [] OTHER -> 1024]
LoopInv ==
  /\ pc \in {"choose", "loop", "started", "bug"}
  /\ count \in Nat /\ sz \in Nat
  /\ idx \in 0 .. MaxShift
  /\ horiz = Pow2[idx]
  /\ sz * horiz = count
  /\ pc = "loop" => count > 2 * LinearMax
=============================================================================
