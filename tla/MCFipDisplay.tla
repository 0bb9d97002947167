---------------------------- MODULE MCFipDisplay ----------------------------
(* FipDisplay for TLC: two digits, a few of the characters, two bits.    *)
EXTENDS FipDisplay, TLC

Space == 10
LetterA == 11
Unsupported == 12
MCGlyph == (0 :> << {0}, {} >>) @@ (1 :> << {}, {0} >>)
             @@ (Space :> << {}, {} >>) @@ (LetterA :> << {0, 7}, {0} >>)
MCMask == << {}, {7} >>
MCTexts == UNION {[1 .. n -> {1, LetterA, Unsupported}] : n \in 0 .. 3}
MCTimes == { <<1, 0, 0>>, <<10, 60, 0>>, <<11, 0, 0>> }
(* Inside the copy, behind it beside the panel's addresses, and behind it  *)
(* at the address of byte 1.                                               *)
MCTargets == { <<1, 7>>, <<2, 32>>, <<7, 0>>, <<9, 0>>, <<9, 8>> }
=============================================================================
