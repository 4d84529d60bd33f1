--------------------------- MODULE MCRteRingLive ---------------------------
EXTENDS RteRingObserver

Ring(prod, cons, capacity, htd_max, objects) ==
  [prod |-> prod, cons |-> cons, capacity |-> capacity, htd_max |-> htd_max,
   c11 |-> TRUE, one_core |-> FALSE, apis |-> {"call"}, solo |-> FALSE,
   objects |-> objects]

LiveRings == {Ring("MT", "ST", 2, 0, 2), Ring("HTS", "ST", 2, 0, 2),
              Ring("RTS", "ST", 3, 1, 2)}

=============================================================================
