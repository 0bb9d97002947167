---------------------------- MODULE MCFrontPanel ----------------------------
(* FrontPanel for TLC: keys and processes are interchangeable.             *)
EXTENDS FrontPanel, TLC

Symmetry == Permutations(Keys) \union Permutations(Procs)
=============================================================================
