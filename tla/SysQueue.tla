----------------------------- MODULE SysQueue ------------------------------
(***************************************************************************)
(* The lists of rte_lib/include/queue.h, at the level of their pointers:   *)
(* SLIST (first, next), LIST (also prev), STAILQ (first, last, next) and   *)
(* TAILQ (all four).  A memory m holds the fields of the heads and of the  *)
(* elements.  The fields last and prev hold the address of a pointer: that *)
(* of the field first of a head, or of the field next of an element.  The  *)
(* address is named by the head or the element it belongs to.              *)
(***************************************************************************)
EXTENDS Naturals, Sequences, FiniteSets
LOCAL INSTANCE SequencesExt

CONSTANTS Heads, Elems, NULL

ASSUME ListAssumption ==
  /\ IsFiniteSet(Elems)
  /\ Heads \cap Elems = {} /\ NULL \notin Heads \cup Elems

Kinds == {"SLIST", "LIST", "STAILQ", "TAILQ"}

VARIABLES kind,  \* the kind of the lists; never changes
          mem,   \* the pointers
          seqs   \* history: the elements each list should hold

listVars == <<kind, mem, seqs>>

\* *a and *a = v
Deref(m, a) == IF a \in Heads THEN m.first[a] ELSE m.next[a]
StorePtr(m, a, v) == IF a \in Heads THEN [m EXCEPT !.first[a] = v]
                                 ELSE [m EXCEPT !.next[a] = v]

\* The elements met by a walk along next, and the loops
\* while (NEXT(curelm) != x) curelm = NEXT(curelm)
Walk(m, h) ==
  LET f[n \in 0..Cardinality(Elems)] ==
        IF n = 0 THEN m.first[h]
        ELSE IF f[n - 1] = NULL THEN NULL ELSE m.next[f[n - 1]]
  IN f
Walked(m, h) == {Walk(m, h)[n] : n \in 0..Cardinality(Elems)} \ {NULL}
Before(m, h, x) == CHOOSE c \in Walked(m, h) : m.next[c] = x

-----------------------------------------------------------------------------
SLIST_INIT(m, h) == [m EXCEPT !.first[h] = NULL]

SLIST_CONCAT(m, h, g) ==
  IF m.first[g] = NULL THEN m
  ELSE LET a == IF m.first[h] = NULL THEN h ELSE Before(m, h, NULL)
       IN SLIST_INIT(StorePtr(m, a, m.first[g]), g)

SLIST_INSERT_AFTER(m, x, e) == [m EXCEPT !.next[e] = m.next[x], !.next[x] = e]

SLIST_INSERT_HEAD(m, h, e) == [m EXCEPT !.next[e] = m.first[h], !.first[h] = e]

SLIST_REMOVE_AFTER(m, x) == [m EXCEPT !.next[x] = m.next[m.next[x]]]

SLIST_REMOVE_HEAD(m, h) == [m EXCEPT !.first[h] = m.next[m.first[h]]]

SLIST_REMOVE(m, h, e) == IF m.first[h] = e THEN SLIST_REMOVE_HEAD(m, h)
                         ELSE SLIST_REMOVE_AFTER(m, Before(m, h, e))

\* The address found by SLIST_FOREACH_PREVPTR.
Prevptr(m, h, e) == IF m.first[h] = e THEN h ELSE Before(m, h, e)

SLIST_REMOVE_PREVPTR(m, p, e) == StorePtr(m, p, m.next[e])

SLIST_SWAP(m, h, g) == [m EXCEPT !.first[h] = m.first[g], !.first[g] = m.first[h]]

-----------------------------------------------------------------------------
STAILQ_INIT(m, h) == [m EXCEPT !.first[h] = NULL, !.last[h] = h]

STAILQ_CONCAT(m, h, g) ==
  IF m.first[g] = NULL THEN m
  ELSE STAILQ_INIT([StorePtr(m, m.last[h], m.first[g]) EXCEPT !.last[h] = m.last[g]], g)

STAILQ_INSERT_AFTER(m, h, x, e) ==
  [m EXCEPT !.next[e] = m.next[x], !.next[x] = e,
            !.last[h] = IF m.next[x] = NULL THEN e ELSE @]

STAILQ_INSERT_HEAD(m, h, e) ==
  [m EXCEPT !.next[e] = m.first[h], !.first[h] = e,
            !.last[h] = IF m.first[h] = NULL THEN e ELSE @]

STAILQ_INSERT_TAIL(m, h, e) ==
  [StorePtr([m EXCEPT !.next[e] = NULL], m.last[h], e) EXCEPT !.last[h] = e]

STAILQ_LAST(m, h) == IF m.first[h] = NULL THEN NULL ELSE m.last[h]

\* Mutant: the last element is removed and last goes on pointing at it.
STAILQ_REMOVE_AFTER_KEEPING_LAST(m, h, x) == [m EXCEPT !.next[x] = m.next[m.next[x]]]

STAILQ_REMOVE_AFTER(m, h, x) ==
  LET n == m.next[m.next[x]]
  IN [m EXCEPT !.next[x] = n, !.last[h] = IF n = NULL THEN x ELSE @]

STAILQ_REMOVE_HEAD(m, h) ==
  LET n == m.next[m.first[h]]
  IN [m EXCEPT !.first[h] = n, !.last[h] = IF n = NULL THEN h ELSE @]

STAILQ_REMOVE(m, h, e) == IF m.first[h] = e THEN STAILQ_REMOVE_HEAD(m, h)
                          ELSE STAILQ_REMOVE_AFTER(m, h, Before(m, h, e))

STAILQ_SWAP(m, h, g) ==
  [m EXCEPT !.first[h] = m.first[g], !.first[g] = m.first[h],
            !.last[h] = IF m.first[g] = NULL THEN h ELSE m.last[g],
            !.last[g] = IF m.first[h] = NULL THEN g ELSE m.last[h]]

-----------------------------------------------------------------------------
\* if (e != NULL) e->prev = a
SetPrev(m, e, a) == IF e = NULL THEN m ELSE [m EXCEPT !.prev[e] = a]

LIST_INIT(m, h) == [m EXCEPT !.first[h] = NULL]

LIST_CONCAT(m, h, g) ==
  IF m.first[g] = NULL THEN m
  ELSE LET a == IF m.first[h] = NULL THEN h ELSE Before(m, h, NULL)
       IN LIST_INIT(SetPrev(StorePtr(m, a, m.first[g]), m.first[g], a), g)

LIST_INSERT_AFTER(m, x, e) ==
  [SetPrev(m, m.next[x], e) EXCEPT !.next[e] = m.next[x], !.next[x] = e, !.prev[e] = x]

LIST_INSERT_BEFORE(m, x, e) ==
  [StorePtr([m EXCEPT !.prev[e] = m.prev[x], !.next[e] = x], m.prev[x], e)
     EXCEPT !.prev[x] = e]

LIST_INSERT_HEAD(m, h, e) ==
  [SetPrev(m, m.first[h], e) EXCEPT !.next[e] = m.first[h], !.first[h] = e, !.prev[e] = h]

LIST_PREV(m, e, h) == IF m.prev[e] = h THEN NULL ELSE m.prev[e]

LIST_REMOVE(m, e) == StorePtr(SetPrev(m, m.next[e], m.prev[e]), m.prev[e], m.next[e])

LIST_SWAP(m, h, g) ==
  SetPrev(SetPrev([m EXCEPT !.first[h] = m.first[g], !.first[g] = m.first[h]],
                  m.first[g], h), m.first[h], g)

-----------------------------------------------------------------------------
TAILQ_INIT(m, h) == [m EXCEPT !.first[h] = NULL, !.last[h] = h]

TAILQ_CONCAT(m, h, g) ==
  IF m.first[g] = NULL THEN m
  ELSE TAILQ_INIT([SetPrev(StorePtr(m, m.last[h], m.first[g]), m.first[g], m.last[h])
                     EXCEPT !.last[h] = m.last[g]], g)

\* if (e != NULL) e->prev = a; else head->last = a
SetPrevOrLast(m, h, e, a) == IF e = NULL THEN [m EXCEPT !.last[h] = a]
                                         ELSE [m EXCEPT !.prev[e] = a]

TAILQ_INSERT_AFTER(m, h, x, e) ==
  [SetPrevOrLast(m, h, m.next[x], e)
     EXCEPT !.next[e] = m.next[x], !.next[x] = e, !.prev[e] = x]

TAILQ_INSERT_BEFORE(m, x, e) ==
  [StorePtr([m EXCEPT !.prev[e] = m.prev[x], !.next[e] = x], m.prev[x], e)
     EXCEPT !.prev[x] = e]

TAILQ_INSERT_HEAD(m, h, e) ==
  [SetPrevOrLast(m, h, m.first[h], e)
     EXCEPT !.next[e] = m.first[h], !.first[h] = e, !.prev[e] = h]

TAILQ_INSERT_TAIL(m, h, e) ==
  [StorePtr([m EXCEPT !.next[e] = NULL, !.prev[e] = m.last[h]], m.last[h], e)
     EXCEPT !.last[h] = e]

\* An entry laid over with the type of a head: its prev is read as last.
LastField(m, a) == IF a \in Heads THEN m.last[a] ELSE m.prev[a]

TAILQ_LAST(m, h) == Deref(m, LastField(m, m.last[h]))

TAILQ_PREV(m, e) == Deref(m, LastField(m, m.prev[e]))

TAILQ_LAST_FAST(m, h) == IF m.first[h] = NULL THEN NULL ELSE m.last[h]

TAILQ_PREV_FAST(m, e, h) == IF m.prev[e] = h THEN NULL ELSE m.prev[e]

TAILQ_REMOVE(m, h, e) ==
  StorePtr(SetPrevOrLast(m, h, m.next[e], m.prev[e]), m.prev[e], m.next[e])

TAILQ_SWAP(m, h, g) ==
  SetPrevOrLast(SetPrevOrLast([m EXCEPT !.first[h] = m.first[g],
                                        !.first[g] = m.first[h],
                                        !.last[h] = m.last[g],
                                        !.last[g] = m.last[h]],
                              h, m.first[g], h), g, m.first[h], g)

-----------------------------------------------------------------------------
\* The checks that a kernel built with INVARIANTS makes; false is a panic.
QMD_SLIST_CHECK_PREVPTR(m, p, e) == Deref(m, p) = e

QMD_LIST_CHECK_HEAD(m, h) == m.first[h] # NULL => m.prev[m.first[h]] = h
QMD_LIST_CHECK_NEXT(m, e) == m.next[e] # NULL => m.prev[m.next[e]] = e
QMD_LIST_CHECK_PREV(m, e) == Deref(m, m.prev[e]) = e

QMD_TAILQ_CHECK_HEAD(m, h) == m.first[h] # NULL => m.prev[m.first[h]] = h
QMD_TAILQ_CHECK_TAIL(m, h) == Deref(m, m.last[h]) = NULL
QMD_TAILQ_CHECK_NEXT(m, e) == m.next[e] # NULL => m.prev[m.next[e]] = e
QMD_TAILQ_CHECK_PREV(m, e) == Deref(m, m.prev[e]) = e

Unlinked == Elems \ UNION {Range(seqs[h]) : h \in Heads}
Pos(h, e) == CHOOSE k \in DOMAIN seqs[h] : seqs[h][k] = e

Becomes(m, h, s) == mem' = m /\ seqs' = [seqs EXCEPT ![h] = s] /\ UNCHANGED kind

InsertHead(h, e) ==
  Becomes(CASE kind = "SLIST" -> SLIST_INSERT_HEAD(mem, h, e)
            [] kind = "LIST" -> LIST_INSERT_HEAD(mem, h, e)
            [] kind = "STAILQ" -> STAILQ_INSERT_HEAD(mem, h, e)
            [] kind = "TAILQ" -> TAILQ_INSERT_HEAD(mem, h, e), h, <<e>> \o seqs[h])

InsertTail(h, e) ==
  /\ kind \in {"STAILQ", "TAILQ"}
  /\ Becomes(IF kind = "STAILQ" THEN STAILQ_INSERT_TAIL(mem, h, e)
                                ELSE TAILQ_INSERT_TAIL(mem, h, e), h, seqs[h] \o <<e>>)

InsertAfter(h, x, e) ==
  Becomes(CASE kind = "SLIST" -> SLIST_INSERT_AFTER(mem, x, e)
            [] kind = "LIST" -> LIST_INSERT_AFTER(mem, x, e)
            [] kind = "STAILQ" -> STAILQ_INSERT_AFTER(mem, h, x, e)
            [] kind = "TAILQ" -> TAILQ_INSERT_AFTER(mem, h, x, e),
          h, InsertAt(seqs[h], Pos(h, x) + 1, e))

InsertBefore(h, x, e) ==
  /\ kind \in {"LIST", "TAILQ"}
  /\ Becomes(IF kind = "LIST" THEN LIST_INSERT_BEFORE(mem, x, e)
                              ELSE TAILQ_INSERT_BEFORE(mem, x, e),
             h, InsertAt(seqs[h], Pos(h, x), e))

Removal(h, e) ==
  Becomes(CASE kind = "SLIST" -> SLIST_REMOVE(mem, h, e)
            [] kind = "LIST" -> LIST_REMOVE(mem, e)
            [] kind = "STAILQ" -> STAILQ_REMOVE(mem, h, e)
            [] kind = "TAILQ" -> TAILQ_REMOVE(mem, h, e), h, Remove(seqs[h], e))

RemovePrevptr(h, e) ==
  /\ kind = "SLIST"
  /\ Becomes(SLIST_REMOVE_PREVPTR(mem, Prevptr(mem, h, e), e), h, Remove(seqs[h], e))

Concat(h, g) ==
  /\ mem' = CASE kind = "SLIST" -> SLIST_CONCAT(mem, h, g)
              [] kind = "LIST" -> LIST_CONCAT(mem, h, g)
              [] kind = "STAILQ" -> STAILQ_CONCAT(mem, h, g)
              [] kind = "TAILQ" -> TAILQ_CONCAT(mem, h, g)
  /\ seqs' = [seqs EXCEPT ![h] = @ \o seqs[g], ![g] = << >>]
  /\ UNCHANGED kind

Swap(h, g) ==
  /\ mem' = CASE kind = "SLIST" -> SLIST_SWAP(mem, h, g)
              [] kind = "LIST" -> LIST_SWAP(mem, h, g)
              [] kind = "STAILQ" -> STAILQ_SWAP(mem, h, g)
              [] kind = "TAILQ" -> TAILQ_SWAP(mem, h, g)
  /\ seqs' = [seqs EXCEPT ![h] = seqs[g], ![g] = seqs[h]]
  /\ UNCHANGED kind

ListInit ==
  /\ kind \in Kinds
  /\ mem = [first |-> [h \in Heads |-> NULL], last |-> [h \in Heads |-> h],
            next |-> [e \in Elems |-> NULL], prev |-> [e \in Elems |-> NULL]]
  /\ seqs = [h \in Heads |-> << >>]

ListNext ==
  \E h \in Heads :
    \/ \E e \in Unlinked : \/ InsertHead(h, e) \/ InsertTail(h, e)
                       \/ \E x \in Range(seqs[h]) : InsertAfter(h, x, e) \/ InsertBefore(h, x, e)
    \/ \E e \in Range(seqs[h]) : Removal(h, e) \/ RemovePrevptr(h, e)
    \/ \E g \in Heads \ {h} : Concat(h, g) \/ Swap(h, g)

ListSpec == ListInit /\ [][ListNext]_listVars

-----------------------------------------------------------------------------
\* Every list holds the elements that were put into it, in their order,
\* whatever stale pointers removed elements and emptied heads carry: the walk
\* from first, the reverse walk with prev and the last element all agree, and
\* none of the checks that INVARIANTS compiles in would panic.
ListsHoldSequences ==
  \A h \in Heads :
    LET s == seqs[h]
        at(k) == IF k \in DOMAIN s THEN s[k] ELSE NULL
        w == Walk(mem, h)
    IN /\ \A n \in DOMAIN w : w[n] = at(n + 1)
       /\ kind = "STAILQ" => STAILQ_LAST(mem, h) = at(Len(s))
       /\ kind = "TAILQ" =>
            /\ TAILQ_LAST(mem, h) = at(Len(s)) /\ TAILQ_LAST_FAST(mem, h) = at(Len(s))
            /\ \A k \in DOMAIN s : /\ TAILQ_PREV(mem, s[k]) = at(k - 1)
                                   /\ TAILQ_PREV_FAST(mem, s[k], h) = at(k - 1)
            /\ QMD_TAILQ_CHECK_HEAD(mem, h) /\ QMD_TAILQ_CHECK_TAIL(mem, h)
            /\ \A e \in Range(s) : QMD_TAILQ_CHECK_NEXT(mem, e) /\ QMD_TAILQ_CHECK_PREV(mem, e)
       /\ kind = "LIST" =>
            /\ \A k \in DOMAIN s : LIST_PREV(mem, s[k], h) = at(k - 1)
            /\ QMD_LIST_CHECK_HEAD(mem, h)
            /\ \A e \in Range(s) : QMD_LIST_CHECK_NEXT(mem, e) /\ QMD_LIST_CHECK_PREV(mem, e)
       /\ kind = "SLIST" =>
            \A e \in Range(s) : QMD_SLIST_CHECK_PREVPTR(mem, Prevptr(mem, h, e), e)

=============================================================================
