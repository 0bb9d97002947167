------------------------------- MODULE MCScard -------------------------------
(* Scard for TLC: a card that is silent with 3V, wants both line settings  *)
(* reversed and can stop its clock, and a damaged card.                    *)
EXTENDS Scard

MCCards == {
  [v3 |-> "silent", v5 |-> "ok",    conv |-> {"pol", "msb"}, stops |-> TRUE],
  [v3 |-> "corrupt", v5 |-> "junk", conv |-> {},             stops |-> FALSE]}
=============================================================================
