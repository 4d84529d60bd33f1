--------------------------- MODULE FifoQueuePair ---------------------------
(***************************************************************************)
(* What a queue pair promises its users, without rings, indices or sense   *)
(* bits: a bounded FIFO of work requests that the NIC takes in order and   *)
(* finishes in some order, and a bounded FIFO of completions that the      *)
(* application takes in order.                                             *)
(***************************************************************************)
EXTENDS Naturals, Sequences, FiniteSets

CONSTANTS Capacity,     \* places of either queue
          Requests,     \* the work requests
          Completions,  \* the completions
          Shown(_, _)   \* what the caller sees after a completion

VARIABLES wqFifo,   \* requests the NIC has not taken
          working,  \* requests it has taken and not finished
          cqFifo,   \* completions the application has not taken
          seen      \* what the application was last shown

fifoVars == <<wqFifo, working, cqFifo, seen>>

Post(r) == /\ Len(wqFifo) + working < Capacity
           /\ wqFifo' = Append(wqFifo, r)
           /\ UNCHANGED <<working, cqFifo, seen>>

Take == /\ wqFifo # << >>
        /\ wqFifo' = Tail(wqFifo)
        /\ working' = working + 1
        /\ UNCHANGED <<cqFifo, seen>>

Finish == /\ working > 0
          /\ working' = working - 1
          /\ UNCHANGED <<wqFifo, cqFifo, seen>>

Deliver(c) == /\ Len(cqFifo) < Capacity
              /\ cqFifo' = Append(cqFifo, c)
              /\ UNCHANGED <<wqFifo, working, seen>>

Consume == /\ cqFifo # << >>
           /\ cqFifo' = Tail(cqFifo)
           /\ seen' = Shown(seen, Head(cqFifo))
           /\ UNCHANGED <<wqFifo, working>>

FifoInit == wqFifo = << >> /\ working = 0 /\ cqFifo = << >>

FifoNext == \/ \E r \in Requests : Post(r)
            \/ Take
            \/ Finish
            \/ \E c \in Completions : Deliver(c)
            \/ Consume

FifoSpec == FifoInit /\ [][FifoNext]_fifoVars

=============================================================================
