----------------------------- MODULE MCRteRing -----------------------------
EXTENDS RteRing, TLC

Ring(prod, cons, capacity, htd_max, objects) ==
  [prod |-> prod, cons |-> cons, capacity |-> capacity, htd_max |-> htd_max,
   c11 |-> FALSE, one_core |-> FALSE, apis |-> {"call"}, solo |-> FALSE,
   objects |-> objects]

\* MT rings: in the C11 build; in the generic build with all threads on one
\* core; and in the generic build with one user per side.
MtRings == {[Ring("MT", "MT", 2, 0, 2) EXCEPT !.c11 = TRUE],
            [Ring("MT", "ST", 3, 0, 3) EXCEPT !.one_core = TRUE],
            [Ring("MT", "MT", 3, 0, 4) EXCEPT !.solo = TRUE]}

\* The peek and the zero-copy calls, among several threads of an HTS side and
\* mixed with each other and the plain ones.
StartRings == {[Ring("HTS", "ST", 2, 0, 2) EXCEPT !.c11 = TRUE, !.apis = {"peek"}],
               [Ring("ST", "HTS", 2, 0, 2) EXCEPT !.apis = {"zc"}],
               [Ring("HTS", "HTS", 2, 0, 2) EXCEPT !.apis = Apis, !.solo = TRUE],
               [Ring("ST", "ST", 3, 0, 3) EXCEPT !.apis = Apis]}

SafetyRings == MtRings \cup StartRings
                 \cup {Ring("HTS", "ST", 2, 0, 2), Ring("ST", "HTS", 2, 0, 2),
                       Ring("RTS", "ST", 2, 1, 3), Ring("ST", "RTS", 3, 0, 3)}

\* The generic build with the threads on different cores.
SeveralCores == {Ring("MT", "ST", 3, 0, 2)}

\* Threads of one side are interchangeable.
SideSymmetry == Permutations(Producers) \cup Permutations(Consumers)

=============================================================================
