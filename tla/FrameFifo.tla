------------------------------ MODULE FrameFifo ------------------------------
(***************************************************************************)
(* What each direction of a network interface promises: while it is up,    *)
(* frames leave one at a time in the order in which they entered, at most  *)
(* Capacity are inside, and closing the interface is the only way to throw *)
(* frames away.                                                            *)
(***************************************************************************)
EXTENDS Naturals, Sequences

CONSTANTS Capacity, Frames

VARIABLES up,      \* the interface is open, being opened or being closed
          queue    \* frames inside, oldest first

vars == <<up, queue>>

Init == up = FALSE /\ queue = <<>>

Put(f) ==
  /\ up /\ Len(queue) < Capacity
  /\ queue' = Append(queue, f)
  /\ UNCHANGED up

Take ==
  /\ up /\ queue # <<>>
  /\ queue' = Tail(queue)
  /\ UNCHANGED up

Open  == ~up /\ up' = TRUE /\ UNCHANGED queue
Close == up /\ up' = FALSE /\ queue' = <<>>

Next == (\E f \in Frames : Put(f)) \/ Take \/ Open \/ Close

Spec == Init /\ [][Next]_vars
=============================================================================
