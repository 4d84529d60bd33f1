------------------------------ MODULE RteTailqs ------------------------------
(***************************************************************************)
(* The registry of tail queues, rte_lib/include/eal_common_tailqs.c: each  *)
(* library registers the name of its list in every process, the primary    *)
(* process creates a head for it in shared memory and the others look the  *)
(* head up.  The functions are "not multi-thread safe, and should only be  *)
(* called from a single thread at a time", so each call is one step.       *)
(* External: EAL_REGISTER_TAILQ runs once for each list and its panic ends *)
(* the process, and so does a failure of rte_eal_tailqs_init; a secondary  *)
(* process is initialised after the primary one.                           *)
(***************************************************************************)
EXTENDS Naturals, Integers, Sequences
LOCAL INSTANCE SequencesExt

CONSTANTS Primary, Secondaries,  \* processes
          TailqNames,            \* names of the lists, sequences of characters
          RTE_TAILQ_NAMESIZE, RTE_MAX_TAILQ

ASSUME TailqAssumption ==
  /\ RTE_TAILQ_NAMESIZE \in Nat /\ RTE_TAILQ_NAMESIZE > 2
  /\ RTE_MAX_TAILQ \in Nat \ {0}
  /\ \A n \in TailqNames : Len(n) \in 1..(RTE_TAILQ_NAMESIZE - 1)

Processes == {Primary} \cup Secondaries

NoHead == -1

VARIABLES tailq_head,        \* shared: the names of the heads
          rte_tailqs_count,  \* per process: -1 before rte_eal_tailqs_init
          elem_head,         \* per process: the names on its local list
          t_head,              \* per process and name: the head of the element
          tried,             \* per process: the constructors that have run
          up                 \* the processes that run

tailqVars == <<tailq_head, rte_tailqs_count, elem_head, t_head, tried, up>>

-----------------------------------------------------------------------------
Chars(s, k) == SubSeq(s, 1, IF Len(s) < k THEN Len(s) ELSE k)

\* strncmp(a, b, k) says that they are equal.
SameUpTo(a, b, k) == Chars(a, k) = Chars(b, k)

rte_eal_tailq_lookup(heads, name) ==
  LET hits == {i \in DOMAIN heads : SameUpTo(name, heads[i], RTE_TAILQ_NAMESIZE - 1)}
  IN IF hits = {} THEN NoHead ELSE CHOOSE i \in hits : \A j \in hits : i <= j

\* Mutant: one more character is cut off.
StoredNameShort(name) == Chars(name, RTE_TAILQ_NAMESIZE - 3)

\* strlcpy(head->name, name, sizeof(head->name) - 1).
StoredName(name) == Chars(name, RTE_TAILQ_NAMESIZE - 2)

\* rte_eal_tailq_create: the heads, the count and the result.
rte_eal_tailq_create(heads, count, name) ==
  IF rte_eal_tailq_lookup(heads, name) = NoHead /\ count + 1 < RTE_MAX_TAILQ
  THEN [heads |-> [heads EXCEPT ![count] = StoredName(name)],
        count |-> count + 1, head |-> count]
  ELSE [heads |-> heads, count |-> count, head |-> NoHead]

rte_eal_tailq_update(p, heads, count, name) ==
  IF p = Primary THEN rte_eal_tailq_create(heads, count, name)
  ELSE [heads |-> heads, count |-> count, head |-> rte_eal_tailq_lookup(heads, name)]

\* rte_eal_tailq_register from the constructor of EAL_REGISTER_TAILQ.
rte_eal_tailq_register(p, name) ==
  LET u == rte_eal_tailq_update(p, tailq_head, rte_tailqs_count[p], name)
      registered == \E i \in DOMAIN elem_head[p] :
                      SameUpTo(name, elem_head[p][i], RTE_TAILQ_NAMESIZE)
      late == rte_tailqs_count[p] >= 0
  IN /\ p \in up /\ name \notin tried[p]
     /\ tried' = [tried EXCEPT ![p] = @ \cup {name}]
     /\ \/ /\ registered \/ (late /\ u.head = NoHead)
           /\ up' = up \ {p}
           /\ UNCHANGED <<tailq_head, rte_tailqs_count, elem_head, t_head>>
        \/ /\ ~registered /\ ~late
           /\ elem_head' = [elem_head EXCEPT ![p] = Append(@, name)]
           /\ UNCHANGED <<tailq_head, rte_tailqs_count, t_head, up>>
        \/ /\ ~registered /\ late /\ u.head # NoHead
           /\ elem_head' = [elem_head EXCEPT ![p] = Append(@, name)]
           /\ tailq_head' = u.heads
           /\ rte_tailqs_count' = [rte_tailqs_count EXCEPT ![p] = u.count]
           /\ t_head' = [t_head EXCEPT ![p][name] = u.head]
           /\ UNCHANGED up

\* rte_eal_tailqs_init: the elements that came early get their heads, up to
\* the first one that gets none.
rte_eal_tailqs_init(p) ==
  LET start == [heads |-> tailq_head, count |-> 0, head |-> t_head[p], ok |-> TRUE]
      one(s, name) ==
        LET u == rte_eal_tailq_update(p, s.heads, s.count, name)
        IN IF ~s.ok THEN s
           ELSE [heads |-> u.heads, count |-> u.count,
                 head |-> [s.head EXCEPT ![name] = u.head], ok |-> u.head # NoHead]
      end == FoldLeft(one, start, elem_head[p])
  IN /\ p \in up /\ rte_tailqs_count[p] = -1
     /\ p # Primary => rte_tailqs_count[Primary] >= 0
     /\ tailq_head' = end.heads
     /\ rte_tailqs_count' = [rte_tailqs_count EXCEPT ![p] = end.count]
     /\ t_head' = [t_head EXCEPT ![p] = end.head]
     /\ up' = IF end.ok THEN up ELSE up \ {p}
     /\ UNCHANGED <<elem_head, tried>>

TailqInit ==
  /\ tailq_head = [i \in 0..(RTE_MAX_TAILQ - 1) |-> << >>]
  /\ rte_tailqs_count = [p \in Processes |-> -1]
  /\ elem_head = [p \in Processes |-> << >>]
  /\ t_head = [p \in Processes |-> [n \in TailqNames |-> NoHead]]
  /\ tried = [p \in Processes |-> {}]
  /\ up = Processes

TailqNext ==
  \E p \in Processes :
    \/ \E n \in TailqNames : rte_eal_tailq_register(p, n)
    \/ rte_eal_tailqs_init(p)

TailqSpec == TailqInit /\ [][TailqNext]_tailqVars

-----------------------------------------------------------------------------
\* The lists that process p may use: it runs and has been initialised.
Usable(p) == IF p \in up /\ rte_tailqs_count[p] >= 0 THEN {elem_head[p][i] : i \in DOMAIN elem_head[p]}
             ELSE {}

\* Whatever the order of early and late registrations in the processes, every
\* list a process may use has a head, and the lists of two processes, or of
\* one, share a head exactly if they have the same name; for names that
\* rte_eal_tailq_create does not cut off ("Each tailq is identified by name").
HeadsByName ==
  (\A p \in Processes : \A n \in tried[p] : Len(n) <= RTE_TAILQ_NAMESIZE - 2) =>
    \A p, q \in Processes : \A n \in Usable(p), k \in Usable(q) :
      t_head[p][n] # NoHead /\ (t_head[p][n] = t_head[q][k] <=> n = k)

=============================================================================
