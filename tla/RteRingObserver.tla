-------------------------- MODULE RteRingObserver --------------------------
(***************************************************************************)
(* rte_ring_count, rte_ring_free_count, rte_ring_full and rte_ring_empty   *)
(* of rte_ring.h, called while producers and consumers work: two loads,    *)
(* first of prod.tail and then of cons.tail, and arithmetic on them.       *)
(***************************************************************************)
EXTENDS RteRing

VARIABLES opc,     \* "idle" or, between the two loads, "loaded"
          ptail,   \* the local prod_tail
          count,   \* the result of rte_ring_count, -1 if there is none
          empty,   \* the result of rte_ring_empty from the same two loads
          seen     \* history: the numbers of entries held during the call

ovars == <<opc, ptail, count, empty, seen>>

Held == Dist(tail["prod"], tail["cons"])

\* (prod_tail - cons_tail) & mask, at most the capacity.
CountOf(p, c) ==
  LET k == ((p - c) % Mod) % Size IN IF k > r.capacity THEN r.capacity ELSE k

\* Mutant: the claimed objects are counted before they are published.
LoadProdHead ==
  /\ opc = "idle" /\ count = -1
  /\ opc' = "loaded" /\ ptail' = head["prod"] /\ seen' = {Held}
  /\ UNCHANGED <<vars, count, empty>>

LoadProdTail ==
  /\ opc = "idle" /\ count = -1
  /\ opc' = "loaded" /\ ptail' = tail["prod"] /\ seen' = {Held}
  /\ UNCHANGED <<vars, count, empty>>

LoadConsTail ==
  /\ opc = "loaded"
  /\ opc' = "idle"
  /\ count' = CountOf(ptail, tail["cons"])
  /\ empty' = (tail["cons"] = ptail)
  /\ UNCHANGED <<vars, ptail, seen>>

\* Anything else the ring does; a result is forgotten once it has been used.
RingStep ==
  /\ Next
  /\ IF opc = "loaded"
     THEN seen' = seen \cup {Held'} /\ UNCHANGED <<ptail, count, empty>>
     ELSE seen' = {} /\ ptail' = Start /\ count' = -1 /\ empty' = FALSE
  /\ UNCHANGED opc

ObserverInit ==
  /\ Init
  /\ opc = "idle" /\ ptail = Start /\ count = -1 /\ empty = FALSE /\ seen = {}

ObserverNext == LoadProdTail \/ LoadConsTail \/ RingStep

\* A thread inside a call keeps running; nobody has to start a call.
FairObserverSpec ==
  /\ ObserverInit /\ [][ObserverNext]_<<vars, ovars>>
  /\ \A t \in Threads : WF_vars(Step(t))

-----------------------------------------------------------------------------
Returned == opc = "idle" /\ count # -1

\* rte_ring_count and rte_ring_empty, whatever moves between their two loads: if
\* the ring is reported not empty it held an object at some moment of the call,
\* and if no tail moved the count is what the ring held, also where the indices
\* wrap and where the capacity is below size - 1.
QueriesHonest ==
  Returned => /\ ~empty => \E k \in seen : k > 0
              /\ Cardinality(seen) = 1 => seen = {count}

=============================================================================
