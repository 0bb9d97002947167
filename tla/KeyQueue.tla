------------------------------- MODULE KeyQueue -------------------------------
(***************************************************************************)
(* What the key devices of the Tango2 kernel (the infra-red remote and the *)
(* front panel) promise to their readers: a bounded first-in first-out     *)
(* queue that keeps the latest keys and drops the oldest one when a key    *)
(* arrives while it is full.  A read takes a prefix of the queue in one    *)
(* step; the taken keys are in the reader's hand until its call returns.   *)
(* The device is exclusive; opening it empties the queue, and nothing else *)
(* does.  Keys may arrive and make room while it is closed.                *)
(***************************************************************************)
EXTENDS Naturals, Sequences

CONSTANTS Capacity,  \* keys the queue can hold
          Entry,     \* what the driver stores for one key
          Readers    \* threads that share the open device

VARIABLES users,     \* how many have the device open, at most one
          queue,     \* keys waiting to be read, oldest first
          hand       \* reader -> keys taken and not yet returned to user space

vars == <<users, queue, hand>>

Init ==
    /\ users = 0
    /\ queue = <<>>
    /\ hand = [r \in Readers |-> <<>>]

(* A key arrives; when the queue is full the oldest key makes room.        *)
Push(e) ==
    /\ queue' = Append(IF Len(queue) = Capacity THEN Tail(queue) ELSE queue, e)
    /\ UNCHANGED <<users, hand>>

(* A reader of the open device takes the n oldest keys.                    *)
Take(r, n) ==
    /\ users = 1 /\ hand[r] = <<>>
    /\ hand' = [hand EXCEPT ![r] = SubSeq(queue, 1, n)]
    /\ queue' = SubSeq(queue, n + 1, Len(queue))
    /\ UNCHANGED users

(* The keys in the reader's hand are returned to user space.               *)
Return(r) ==
    /\ hand' = [hand EXCEPT ![r] = <<>>]
    /\ UNCHANGED <<users, queue>>

(* The next user opens the device, or the user closes it.                  *)
Open ==
    /\ users = 0 /\ users' = 1
    /\ queue' = <<>>
    /\ UNCHANGED hand

Close ==
    /\ users = 1 /\ users' = 0
    /\ UNCHANGED <<queue, hand>>

Next ==
    \/ \E e \in Entry : Push(e)
    \/ \E r \in Readers : \E n \in 0..Len(queue) : Take(r, n)
    \/ \E r \in Readers : Return(r)
    \/ Open \/ Close

Spec == Init /\ [][Next]_vars
=============================================================================
