----------------------------- MODULE MCIrRemote -----------------------------
(* IrRemote for TLC: key codes and reader threads are interchangeable.     *)
EXTENDS IrRemote, TLC

Symmetry == Permutations(Codes) \union Permutations(Readers)
=============================================================================
