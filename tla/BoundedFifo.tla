---------------------------- MODULE BoundedFifo ----------------------------
(***************************************************************************)
(* What a ring promises: a FIFO queue of at most bound objects.  Objects   *)
(* are named 0, 1, 2... in the order in which they enter, so that a lost,  *)
(* repeated or misplaced object shows in the queue itself.                 *)
(***************************************************************************)
EXTENDS Integers, Sequences

VARIABLES bound, \* never changes
          q,     \* the objects in the queue, oldest first
          next   \* the name of the next object to enter

Init == bound \in Nat /\ q = << >> /\ next = 0

Enqueue(k) ==
  /\ next' = next + k
  /\ Len(q) + k <= bound
  /\ q' = q \o [i \in 1..k |-> next + i - 1]
  /\ UNCHANGED bound

Dequeue(k) ==
  /\ k <= Len(q)
  /\ q' = SubSeq(q, k + 1, Len(q))
  /\ UNCHANGED <<bound, next>>

Next == \E k \in 1..bound : Enqueue(k) \/ Dequeue(k)

Spec == Init /\ [][Next]_<<bound, q, next>>

=============================================================================
