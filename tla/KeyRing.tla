------------------------------- MODULE KeyRing -------------------------------
(***************************************************************************)
(* The circular key buffer that the infra-red and the front panel driver   *)
(* share in form: n slots, a producer index p and a consumer index c, an   *)
(* empty ring when they are equal, so at most n - 1 keys.                  *)
(***************************************************************************)
EXTENDS Integers, Sequences

(* Mutant: the index does not wrap.                                        *)
Succ_NoWrap(n, i) == i + 1

(* (idx + 1) % buffer_size                                                 *)
Succ(n, i) == (i + 1) % n

(* Mutant: a full ring keeps its oldest key, and then looks empty.         *)
MakeRoom_Never(n, p, c) == c

(* The consumer index when a key arrives: a full ring gives up its oldest  *)
(* key.                                                                    *)
MakeRoom(n, p, c) == IF Succ(n, p) = c THEN Succ(n, c) ELSE c

(* How many keys lie between the consumer and the producer index.          *)
UsedSlots(n, p, c) == IF p >= c THEN p - c ELSE p - c + n

(* The slot of the i-th oldest key.                                        *)
SlotOf(n, c, i) == IF c + i <= n THEN c + i - 1 ELSE c + i - 1 - n

(* The keys in the ring, oldest first.                                     *)
KeysIn(n, b, p, c) == [i \in 1 .. UsedSlots(n, p, c) |-> b[SlotOf(n, c, i)]]
=============================================================================
