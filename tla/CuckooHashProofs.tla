-------------------------- MODULE CuckooHashProofs --------------------------
(***************************************************************************)
(* The hash table, for every number of buckets, entries, keys and writers. *)
(* What was inserted can be found, after any number of moves: TableInv is  *)
(* the invariant, Effect what a step can do to the table, the ring of free *)
(* slots and the call.  The places of the slots are defined here and used  *)
(* in CuckooSlotProofs.                                                    *)
(***************************************************************************)
EXTENDS CuckooHash, FiniteSetTheorems, TLAPS

\* Zenon does every leaf that names no other prover.
USE Zenon

-----------------------------------------------------------------------------
(***************************************************************************)
(* Numbers, and the walk along a chain of buckets.                         *)
(***************************************************************************)

LEMMA LeastNat ==
  ASSUME NEW S \in SUBSET Nat, S # {}
  PROVE  \E x \in S : \A y \in S : x <= y
  <1> DEFINE R == OpToRel(<, Nat)
  <1>1. IsWellFoundedOn(R, Nat)
    BY NatLessThanWellFounded
  <1>2. \E x \in S : \A y \in S : ~(<<y, x>> \in R)
    <2> HIDE DEF R
    <2> QED
      BY <1>1, WFMin
  <1>3. \A x, y \in Nat : x < y => <<x, y>> \in R
    BY DEF OpToRel
  <1> HIDE DEF R
  <1>4. \A x, y \in Nat : ~(y < x) => x <= y
    BY SMT
  <1> QED
    BY <1>2, <1>3, <1>4

LEMMA FirstIs ==
  ASSUME NEW S \in SUBSET Nat, S # {}
  PROVE  First(S) \in S /\ \A j \in S : First(S) <= j
  BY LeastNat DEF First

\* The walk's recursion, for the links in nx.
Walks(f, nx, m, b) ==
  f = [n \in 0..m |-> IF n = 0 THEN b ELSE IF f[n - 1] = NULL THEN NULL ELSE nx[f[n - 1]]]

LEMMA WalkExists == ASSUME NEW m \in Nat, NEW nx, NEW b PROVE \E f : Walks(f, nx, m, b)
  <1> DEFINE S == {k \in Nat : ~\E f : Walks(f, nx, k, b)}
  <1>1. ASSUME S # {} PROVE FALSE
    <2>1. PICK k \in S : \A y \in S : k <= y
      BY <1>1, LeastNat
    <2>2. k \in Nat /\ ~\E f : Walks(f, nx, k, b)
      BY <2>1
    <2>3. CASE k = 0
      <3> DEFINE f == [n \in 0..0 |-> b]
      <3>1. Walks(f, nx, 0, b)
        <4>1. \A n \in 0..0 : n = 0
          BY SMT
        <4>2. f = [n \in 0..0 |-> IF n = 0 THEN b ELSE IF f[n - 1] = NULL THEN NULL ELSE nx[f[n - 1]]]
          BY <4>1
        <4> QED
          BY <4>2 DEF Walks
      <3> HIDE DEF f
      <3> QED
        BY <2>2, <2>3, <3>1
    <2>4. CASE k # 0
      <3> DEFINE j == k - 1
      <3>1. j \in Nat /\ ~(k <= j)
        BY SMT, <2>2, <2>4
      <3>2. \E f : Walks(f, nx, j, b)
        BY <2>1, <3>1
      <3>3. PICK f : Walks(f, nx, j, b)
        BY <3>2
      <3> DEFINE v == IF f[j] = NULL THEN NULL ELSE nx[f[j]]
                 g == [n \in 0..k |-> IF n = k THEN v ELSE f[n]]
      <3>4. \A n \in 0..j : /\ n \in 0..k /\ n # k
                            /\ n # 0 => n - 1 \in 0..j
        BY SMT, <2>2
      <3>5. \A n \in 0..k : n = k \/ n \in 0..j
        BY SMT, <2>2
      <3>6. j \in 0..j /\ 0 \in 0..j
        BY SMT, <3>1
      <3>7. \A n \in 0..j : f[n] = IF n = 0 THEN b ELSE IF f[n - 1] = NULL THEN NULL ELSE nx[f[n - 1]]
        BY <3>3 DEF Walks
      <3>8. \A n \in 0..j : g[n] = f[n]
        BY <3>4
      <3>9. \A n \in 0..k : g[n] = IF n = 0 THEN b ELSE IF g[n - 1] = NULL THEN NULL ELSE nx[g[n - 1]]
        <4> TAKE n \in 0..k
        <4>1. CASE n = k
          <5>1. g[n] = v /\ n - 1 = j /\ n # 0
            BY <2>4, <4>1
          <5>2. g[n - 1] = f[j]
            BY <3>6, <3>8, <5>1
          <5> QED
            BY <5>1, <5>2
        <4>2. CASE n \in 0..j
          <5>1. g[n] = f[n] /\ (n # 0 => g[n - 1] = f[n - 1])
            BY <3>4, <3>8, <4>2
          <5> HIDE DEF g
          <5> QED
            BY <3>7, <4>2, <5>1
        <4> QED
          BY <3>5, <4>1, <4>2
      <3>10. g = [n \in 0..k |-> g[n]]
        OBVIOUS
      <3> HIDE DEF g
      <3>11. Walks(g, nx, k, b)
        BY <3>9, <3>10 DEF Walks
      <3> QED
        BY <2>2, <3>11
    <2> QED
      BY <2>3, <2>4
  <1> QED
    BY <1>1

WalkOf(nx, m, b) == CHOOSE f : Walks(f, nx, m, b)
ChainOf(nx, m, b) == {WalkOf(nx, m, b)[n] : n \in 0..m} \ {NULL}

LEMMA WalkStep ==
  ASSUME NEW m \in Nat, NEW nx, NEW b
  PROVE  /\ WalkOf(nx, m, b)[0] = b
         /\ \A n \in 0..m : n # 0 =>
              WalkOf(nx, m, b)[n] = IF WalkOf(nx, m, b)[n - 1] = NULL THEN NULL
                                    ELSE nx[WalkOf(nx, m, b)[n - 1]]
  <1> DEFINE f == WalkOf(nx, m, b)
  <1>1. Walks(f, nx, m, b)
    BY WalkExists DEF WalkOf
  <1>2. 0 \in 0..m
    BY SMT
  <1> HIDE DEF f
  <1>3. /\ f[0] = b
        /\ \A n \in 0..m : n # 0 => f[n] = IF f[n - 1] = NULL THEN NULL ELSE nx[f[n - 1]]
    BY <1>1, <1>2 DEF Walks
  <1> QED
    BY <1>3 DEF f

LEMMA WalkIs ==
  /\ \A b : Walk(b) = WalkOf(next, h.num_buckets, b)
  /\ \A b : Walk(b)' = WalkOf(next', h'.num_buckets, b)
  <1>1. ASSUME NEW b PROVE Walk(b) = WalkOf(next, h.num_buckets, b)
    BY DEF Walk, WalkOf, Walks
  <1>2. ASSUME NEW b PROVE Walk(b)' = WalkOf(next', h'.num_buckets, b)
    BY DEF Walk, WalkOf, Walks
  <1> QED
    BY <1>1, <1>2

LEMMA WalkFrom ==
  ASSUME h.num_buckets \in Nat, NEW b
  PROVE  /\ Walk(b)[0] = b
         /\ \A n \in 0..h.num_buckets : n # 0 =>
              Walk(b)[n] = IF Walk(b)[n - 1] = NULL THEN NULL ELSE next[Walk(b)[n - 1]]
  <1> DEFINE m == h.num_buckets
             nx == next
             f == Walk(b)
  <1>1. f = WalkOf(nx, m, b) /\ m \in Nat
    BY WalkIs
  <1> HIDE DEF m, nx, f
  <1>2. /\ f[0] = b
        /\ \A n \in 0..m : n # 0 => f[n] = IF f[n - 1] = NULL THEN NULL ELSE nx[f[n - 1]]
    BY SMT, <1>1, WalkStep
  <1> QED
    BY <1>2 DEF m, nx, f

-----------------------------------------------------------------------------
(***************************************************************************)
(* The invariant.                                                          *)
(***************************************************************************)

\* What rte_hash_create and the hash function see to.
Sigs == {0} \cup {k.sig : k \in h.keys}

HashOK ==
  /\ h.num_buckets \in Nat /\ h.bucket_entries \in Nat \ {0} /\ h.slots \in Nat
  /\ h.writers \in Nat /\ (~h.writer_takes_lock => h.writers <= 1)
  /\ \A k \in h.keys : k.prim \in MainBuckets
  /\ \A b \in MainBuckets, s \in Sigs :
       AltBucket(b, s) \in MainBuckets /\ AltBucket(AltBucket(b, s), s) = b

\* The extendable buckets are taken in their order, and so a chain ascends.
FirstFree == (2 * h.num_buckets) - Len(free_ext)

LinksOK ==
  /\ Len(free_ext) \in 0..h.num_buckets
  /\ free_ext = [n \in 1..Len(free_ext) |-> (FirstFree + n) - 1]
  /\ next = [b \in Buckets |-> next[b]]
  /\ \A b \in Buckets :
       next[b] # NULL => next[b] \in ExtBuckets /\ b < next[b] /\ next[b] < FirstFree

\* An extendable bucket that has not been taken is empty.
EntriesOK ==
  /\ sig_current = [b \in Buckets |-> [i \in Positions |-> sig_current[b][i]]]
  /\ key_idx = [b \in Buckets |-> [i \in Positions |-> key_idx[b][i]]]
  /\ \A b \in Buckets, i \in Positions :
       sig_current[b][i] \in Sigs /\ (FirstFree <= b => key_idx[b][i] = EMPTY_SLOT)

\* The locals of a call, and the path of a search.
Locals == {"key", "slot", "ret", "pos", "queue", "at", "i", "sec", "node", "cslot"}
IsLoc(l) == l = [f \in Locals |-> l[f]]

Node == [b : MainBuckets, prev : Nat, pslot : Nat]

NodeOK(k, n, x) ==
  /\ x.prev < n
  /\ x.prev # 0 => x.pslot \in Positions
  /\ x.prev = 0 => x.b \in {k.prim, Sec(k)}

PathOK(l) ==
  /\ l.queue \in Seq(Node) /\ l.at \in 1..Len(l.queue) /\ l.i \in Positions
  /\ \A n \in 1..Len(l.queue) : NodeOK(l.key, n, l.queue[n])

\* Where the lock may be held, and where there is a path.
Within == {"move", "back_load", "back_put"}
Searching == {"search", "expand", "move_lock", "move"}

WriterOK(w) ==
  /\ IsLoc(loc[w])
  /\ pc[w] # "idle" => loc[w].key \in h.keys
  /\ pc[w] \in Searching => PathOK(loc[w])
  /\ pc[w] = "move" => /\ lock = w
                       /\ loc[w].node \in 1..Len(loc[w].queue) /\ loc[w].cslot \in Positions

\* Who may be in a critical section of several steps.
LockOK ==
  /\ pc = [w \in Writers |-> pc[w]] /\ loc = [w \in Writers |-> loc[w]]
  /\ lock # None => lock \in Writers /\ pc[lock] \in Within
  /\ ~h.writer_takes_lock =>
       \A v, w \in Writers : pc[v] # "idle" /\ pc[w] # "idle" => v = w

\* The entry that a move is about to fill: its contents do not count.
Hole(b, i) ==
  \E w \in Writers : /\ pc[w] = "move"
                     /\ b = loc[w].queue[loc[w].node].b /\ i = loc[w].cslot

\* Every key and slot once stored is in an entry that counts, of a bucket in
\* which the key is looked for.
Homes(k) == {k.prim} \cup Chain(Sec(k))
EntryHas(b, i, k, s) == ~Hole(b, i) /\ key_idx[b][i] = s /\ sig_current[b][i] = k.sig

StoredInv ==
  \A e \in stored :
    /\ e[1] \in h.keys /\ e[2] # EMPTY_SLOT
    /\ \E b \in Homes(e[1]), i \in Positions : EntryHas(b, i, e[1], e[2])

TableInv ==
  HashOK /\ LinksOK /\ EntriesOK /\ LockOK /\ (\A w \in Writers : WriterOK(w)) /\ StoredInv

\* The places where a slot can be: the ring of free slots, the entries that
\* count, and the calls in progress.
AtRing(q, s) == \E n \in (slots_head + 1)..slots_tail : q = <<"ring", n>> /\ slots[n] = s
AtEntry(q, s) ==
  \E b \in Buckets, i \in Positions :
    q = <<"entry", <<b, i>>>> /\ ~Hole(b, i) /\ key_idx[b][i] = s
AtCall(q, s) == \E w \in Writers : q = <<"call", w>> /\ loc[w].slot = s

Holds(q, s) == AtRing(q, s) \/ AtEntry(q, s) \/ AtCall(q, s)

\* No slot is in two of them, and none is in none of them.
OnePlace == \A s \in 1..h.slots : \A p, q : Holds(p, s) /\ Holds(q, s) => p = q
SomePlace == \A s \in 1..h.slots : \E q : Holds(q, s)

\* Where a call has no slot.
NoSlot == {"idle", "check", "alloc_load", "alloc_take", "done"}

SlotTypes ==
  /\ slots \in Seq(0..h.slots) /\ Len(slots) = slots_tail /\ slots_head \in 0..slots_tail
  /\ \A b \in Buckets, i \in Positions : key_idx[b][i] \in 0..h.slots
  /\ \A w \in Writers :
       /\ loc[w].slot \in 0..h.slots
       /\ pc[w] \in NoSlot => loc[w].slot = EMPTY_SLOT
       /\ pc[w] = "alloc_take" => loc[w].pos \in Nat /\ loc[w].pos < slots_tail

SlotInv == ~raced => SlotTypes /\ OnePlace
CoverInv == ~raced => SomePlace

-----------------------------------------------------------------------------
(***************************************************************************)
(* Buckets and chains.                                                     *)
(***************************************************************************)

LEMMA Shapes ==
  ASSUME HashOK
  PROVE  /\ MainBuckets \subseteq Buckets /\ ExtBuckets \subseteq Buckets /\ Buckets \subseteq Nat
         /\ NULL \notin Buckets /\ 1 \in Positions /\ Positions \subseteq Nat
         /\ \A k \in h.keys : k.sig \in Sigs /\ k.prim \in MainBuckets /\ Sec(k) \in MainBuckets
  <1>1. MainBuckets \subseteq Buckets /\ ExtBuckets \subseteq Buckets
    BY DEF Buckets
  <1>2. \A b \in Buckets : b \in Nat
    BY SMT DEF HashOK, Buckets, MainBuckets, ExtBuckets
  <1>3. NULL \notin Nat
    BY SMT DEF NULL
  <1>4. 1 \in Positions /\ \A i \in Positions : i \in Nat
    BY SMT DEF HashOK, Positions
  <1>5. \A k \in h.keys : k.sig \in Sigs /\ k.prim \in MainBuckets
    BY DEF HashOK, Sigs
  <1>6. \A k \in h.keys : Sec(k) \in MainBuckets
    BY <1>5 DEF HashOK, Sec
  <1> QED
    BY <1>1, <1>2, <1>3, <1>4, <1>5, <1>6

\* The steps of a walk from a bucket of the table: they ascend, in step with
\* the chained buckets that have been taken.
LEMMA WalkAscends ==
  ASSUME HashOK, LinksOK, NEW b \in MainBuckets, NEW n \in 0..h.num_buckets, Walk(b)[n] # NULL
  PROVE  /\ Walk(b)[n] \in Buckets
         /\ n # 0 => (h.num_buckets + n) - 1 <= Walk(b)[n] /\ Walk(b)[n] < FirstFree
  <1> DEFINE N == h.num_buckets
             f == Walk(b)
             Good(k) == f[k] # NULL => /\ f[k] \in Buckets
                                       /\ k # 0 => (N + k) - 1 <= f[k] /\ f[k] < FirstFree
             S == {k \in Nat : k <= N /\ ~Good(k)}
  <1>1. N \in Nat /\ n \in Nat /\ n <= N
    BY SMT DEF HashOK
  <1>2. /\ f[0] = b
        /\ \A k \in 0..N : k # 0 => f[k] = IF f[k - 1] = NULL THEN NULL ELSE next[f[k - 1]]
    BY <1>1, WalkFrom
  <1>3. ASSUME S # {} PROVE FALSE
    <2>1. PICK k \in S : \A y \in S : k <= y
      BY <1>3, LeastNat
    <2>2. k \in Nat /\ k <= N /\ ~Good(k)
      BY <2>1
    <2>3. CASE k = 0
      <3>1. f[k] = b /\ b \in Buckets
        BY <1>2, <2>3, Shapes
      <3> QED
        BY <2>2, <2>3, <3>1
    <2>4. CASE k # 0
      <3> DEFINE j == k - 1
                 c == f[j]
                 d == f[k]
      <3>1. j \in Nat /\ j <= N /\ ~(k <= j) /\ k \in 0..N
        BY SMT, <1>1, <2>2, <2>4
      <3>2. Good(j)
        BY <2>1, <3>1
      <3>3. d # NULL
        BY <2>2
      <3>4. d = IF c = NULL THEN NULL ELSE next[c]
        BY <1>2, <2>4, <3>1
      <3>5. c # NULL /\ d = next[c]
        BY <3>3, <3>4
      <3>6. c \in Buckets /\ (j # 0 => (N + j) - 1 <= c)
        BY <3>2, <3>5
      <3>7. d \in ExtBuckets /\ c < d /\ d < FirstFree
        BY <3>3, <3>5, <3>6 DEF LinksOK
      <3>8. c \in Nat /\ d \in Nat /\ N <= d
        <4> HIDE DEF c, d
        <4> QED
          BY SMT, <1>1, <3>6, <3>7, Shapes DEF ExtBuckets
      <3> HIDE DEF c, d
      <3>9. (N + k) - 1 <= d
        BY SMTT(20), <1>1, <2>2, <3>1, <3>6, <3>7, <3>8
      <3> QED
        BY <2>2, <3>7, <3>9, Shapes DEF d
    <2> QED
      BY <2>3, <2>4
  <1> QED
    BY <1>1, <1>3

LEMMA ChainIs ==
  ASSUME HashOK, LinksOK, NEW b \in MainBuckets
  PROVE  b \in Chain(b) /\ Chain(b) \subseteq Buckets
  <1>1. 0 \in 0..h.num_buckets
    BY SMT DEF HashOK
  <1>2. Walk(b)[0] = b
    BY WalkFrom DEF HashOK
  <1>3. b # NULL
    BY Shapes
  <1>4. b \in Chain(b)
    BY <1>1, <1>2, <1>3 DEF Chain
  <1>5. ASSUME NEW c \in Chain(b) PROVE c \in Buckets
    <2>1. PICK n \in 0..h.num_buckets : c = Walk(b)[n] /\ c # NULL
      BY <1>5 DEF Chain
    <2> QED
      BY <2>1, WalkAscends
  <1> QED
    BY <1>4, <1>5

\* A chain has an end, where rte_hash_get_last_bkt stops; until all extendable
\* buckets are taken it is short of the bound on the walk.
LEMMA ChainEnds ==
  ASSUME HashOK, LinksOK, NEW b \in MainBuckets
  PROVE  \E n \in 0..h.num_buckets :
           /\ Walk(b)[n] # NULL /\ next[Walk(b)[n]] = NULL
           /\ Walk(b)[n] = rte_hash_get_last_bkt(b)
           /\ Len(free_ext) # 0 => n + 1 \in 0..h.num_buckets
  <1> DEFINE N == h.num_buckets
             f == Walk(b)
             S == {k \in Nat : k \notin 0..N \/ f[k] = NULL}
  <1>1. N \in Nat /\ N + 1 \in S
    BY SMT DEF HashOK
  <1>2. PICK k \in S : \A y \in S : k <= y
    BY <1>1, LeastNat
  <1> DEFINE m == k - 1
             c == f[m]
  <1>3. /\ f[0] = b
        /\ \A n \in 0..N : n # 0 => f[n] = IF f[n - 1] = NULL THEN NULL ELSE next[f[n - 1]]
    BY <1>1, WalkFrom
  <1>4. k # 0
    <2>1. 0 \in 0..N
      BY SMT, <1>1
    <2> QED
      BY <1>2, <1>3, <2>1, Shapes
  <1>5. k \in Nat /\ k <= N + 1
    BY <1>1, <1>2
  <1>6. m \in 0..N /\ m \in Nat /\ ~(k <= m) /\ m + 1 = k
    BY SMT, <1>1, <1>4, <1>5
  <1>7. c # NULL
    BY <1>2, <1>6
  <1>8. c \in Buckets /\ (m # 0 => (N + m) - 1 <= c /\ c < FirstFree)
    BY <1>6, <1>7, WalkAscends
  <1> HIDE DEF m
  <1>9. next[c] = NULL
    <2>1. CASE k \in 0..N
      <3>1. f[k] = NULL
        BY <1>2, <2>1
      <3>2. f[k] = IF f[k - 1] = NULL THEN NULL ELSE next[f[k - 1]]
        BY <1>3, <1>4, <2>1
      <3> QED
        BY <1>7, <3>1, <3>2 DEF m
    <2>2. CASE k \notin 0..N
      <3>1. m = N
        BY SMT, <1>1, <1>5, <1>6, <2>2
      <3>2. ASSUME next[c] # NULL PROVE FALSE
        <4> DEFINE d == next[c]
        <4>1. c < d /\ d < FirstFree /\ d \in ExtBuckets
          BY <1>8, <3>2 DEF LinksOK
        <4>2. c \in Nat /\ d \in Nat /\ Len(free_ext) \in 0..N
          BY <1>8, <4>1, Shapes DEF LinksOK
        <4>3. (m # 0 => (N + m) - 1 <= c) /\ FirstFree = (2 * N) - Len(free_ext)
          BY <1>8 DEF FirstFree
        <4>4. d \in N..((2 * N) - 1)
          BY <4>1 DEF ExtBuckets
        <4> HIDE DEF c, d
        <4> QED
          BY SMT, <1>1, <3>1, <4>1, <4>2, <4>3, <4>4
      <3> QED
        BY <3>2
    <2> QED
      BY <2>1, <2>2
  <1>10. Len(free_ext) # 0 => m + 1 \in 0..N
    <2>1. c \in Nat /\ Len(free_ext) \in 0..N
      BY <1>8, Shapes DEF LinksOK
    <2>2. (m # 0 => (N + m) - 1 <= c /\ c < FirstFree) /\ FirstFree = (2 * N) - Len(free_ext)
      BY <1>8 DEF FirstFree
    <2>3. \A x \in 0..N : x # 0 => N # 0
      BY SMT, <1>1
    <2> HIDE DEF c
    <2> QED
      BY SMT, <1>1, <1>6, <2>1, <2>2, <2>3
  <1>11. \A d \in Chain(b) : next[d] = NULL => d = c
    <2> SUFFICES ASSUME NEW n \in 0..N, f[n] # NULL, next[f[n]] = NULL PROVE f[n] = c
      BY DEF Chain
    <2>1. n < k
      <3> DEFINE T == {j \in Nat : j \in 0..N /\ k <= j /\ f[j] # NULL}
      <3>1. ASSUME T # {} PROVE FALSE
        <4>1. PICK j \in T : \A y \in T : j <= y
          BY <3>1, LeastNat
        <4>2. j \in 0..N /\ k <= j /\ f[j] # NULL /\ j \in Nat
          BY <4>1
        <4>3. j # k
          BY <1>2, <4>2
        <4>4. j - 1 \in Nat /\ j - 1 \in 0..N /\ k <= j - 1 /\ ~(j <= j - 1) /\ j # 0
          BY SMT, <1>1, <1>5, <4>2, <4>3
        <4>5. f[j - 1] = NULL
          BY <4>1, <4>4
        <4> QED
          BY <1>3, <4>2, <4>4, <4>5
      <3>2. n \in Nat /\ (~(n < k) => k <= n)
        BY SMT, <1>1, <1>5
      <3> QED
        BY <3>1, <3>2
    <2>2. n = m \/ (n + 1 \in 0..N /\ n + 1 # 0 /\ ~(k <= n + 1) /\ n + 1 \in Nat)
      BY SMT, <1>1, <1>5, <1>6, <2>1
    <2>3. ASSUME n + 1 \in 0..N, n + 1 # 0, ~(k <= n + 1), n + 1 \in Nat PROVE FALSE
      <3>1. (n + 1) - 1 = n
        BY SMT
      <3>2. f[n + 1] = NULL
        BY <1>3, <2>3, <3>1
      <3> QED
        BY <1>2, <2>3, <3>2
    <2> QED
      BY <2>2, <2>3
  <1>12. c \in Chain(b)
    BY <1>6, <1>7 DEF Chain
  <1>13. rte_hash_get_last_bkt(b) = c
    BY <1>9, <1>11, <1>12 DEF rte_hash_get_last_bkt
  <1> QED
    BY <1>6, <1>7, <1>9, <1>10, <1>13

\* Chaining another bucket keeps every walk, up to its end.
LEMMA ChainKept ==
  ASSUME HashOK, LinksOK, h' = h, \A c \in Buckets : next[c] # NULL => next'[c] = next[c],
         NEW b \in MainBuckets
  PROVE  /\ \A n \in 0..h.num_buckets : Walk(b)[n] # NULL => Walk(b)'[n] = Walk(b)[n]
         /\ \A n \in 0..h.num_buckets : n # 0 /\ Walk(b)'[n - 1] # NULL =>
              Walk(b)'[n] = next'[Walk(b)'[n - 1]]
         /\ Chain(b) \subseteq Chain(b)'
         /\ \A n \in 0..h.num_buckets : Walk(b)'[n] # NULL => Walk(b)'[n] \in Chain(b)'
  <1> DEFINE N == h.num_buckets
             f == Walk(b)
             g == Walk(b)'
             nx == next'
             S == {k \in Nat : k \in 0..N /\ f[k] # NULL /\ g[k] # f[k]}
  <1>1. N \in Nat
    BY DEF HashOK
  <1>2. /\ f[0] = b
        /\ \A k \in 0..N : k # 0 => f[k] = IF f[k - 1] = NULL THEN NULL ELSE next[f[k - 1]]
    BY <1>1, WalkFrom
  <1>3. /\ g[0] = b
        /\ \A k \in 0..N : k # 0 => g[k] = IF g[k - 1] = NULL THEN NULL ELSE nx[g[k - 1]]
    <2>1. g = WalkOf(nx, N, b)
      BY WalkIs
    <2> HIDE DEF g, nx, N
    <2> QED
      BY SMT, <1>1, <2>1, WalkStep
  <1>4. ASSUME S # {} PROVE FALSE
    <2>1. PICK k \in S : \A y \in S : k <= y
      BY <1>4, LeastNat
    <2>2. k \in Nat /\ k \in 0..N /\ f[k] # NULL /\ g[k] # f[k]
      BY <2>1
    <2>3. k # 0
      BY <1>2, <1>3, <2>2
    <2>4. k - 1 \in Nat /\ k - 1 \in 0..N /\ ~(k <= k - 1)
      BY SMT, <1>1, <2>2, <2>3
    <2>5. f[k - 1] # NULL /\ f[k] = next[f[k - 1]]
      BY <1>2, <2>2, <2>3
    <2>6. g[k - 1] = f[k - 1]
      BY <2>1, <2>4, <2>5
    <2>7. f[k - 1] \in Buckets
      BY <2>4, <2>5, WalkAscends
    <2>8. nx[f[k - 1]] = next[f[k - 1]]
      BY <2>2, <2>5, <2>7
    <2>9. g[k] = nx[g[k - 1]]
      BY <1>3, <2>2, <2>3, <2>5, <2>6
    <2> QED
      BY <2>2, <2>5, <2>6, <2>8, <2>9
  <1>5. \A n \in 0..N : f[n] # NULL => g[n] = f[n]
    <2>1. \A n \in 0..N : n \in Nat
      BY SMT, <1>1
    <2> QED
      BY <1>4, <2>1
  <1>6. Chain(b)' = {g[n] : n \in 0..N} \ {NULL}
    BY DEF Chain
  <1>7. Chain(b) = {f[n] : n \in 0..N} \ {NULL}
    BY DEF Chain
  <1>8. \A n \in 0..N : n # 0 /\ g[n - 1] # NULL => g[n] = nx[g[n - 1]]
    BY <1>3
  <1>9. Chain(b) \subseteq Chain(b)' /\ \A n \in 0..N : g[n] # NULL => g[n] \in Chain(b)'
    <2> HIDE DEF f, g
    <2> QED
      BY <1>5, <1>6, <1>7
  <1> QED
    BY <1>5, <1>8, <1>9

LEMMA HashKept ==
  ASSUME HashOK, h' = h
  PROVE  /\ HashOK' /\ MainBuckets' = MainBuckets /\ ExtBuckets' = ExtBuckets
         /\ Buckets' = Buckets /\ Positions' = Positions /\ Sigs' = Sigs /\ Node' = Node
         /\ \A k : Sec(k)' = Sec(k)
         /\ \A b, s : AltBucket(b, s)' = AltBucket(b, s)
  BY DEF HashOK, MainBuckets, ExtBuckets, Buckets, Positions, Sigs, Sec, AltBucket, Node

LEMMA HomesKept ==
  ASSUME HashOK, LinksOK, h' = h, \A c \in Buckets : next[c] # NULL => next'[c] = next[c],
         NEW k \in h.keys
  PROVE  Homes(k) \subseteq Buckets /\ Homes(k) \subseteq Homes(k)'
  <1>1. k.prim \in MainBuckets /\ Sec(k) \in MainBuckets /\ MainBuckets \subseteq Buckets
    BY Shapes
  <1>2. PICK a \in MainBuckets : a = Sec(k)
    BY <1>1
  <1>3. Sec(k)' = a
    BY <1>2, HashKept
  <1>4. Chain(Sec(k))' = Chain(a)'
    <2>1. /\ Chain(Sec(k))' = ChainOf(next', h'.num_buckets, Sec(k)')
          /\ Chain(a)' = ChainOf(next', h'.num_buckets, a)
      BY DEF Chain, Walk, ChainOf, WalkOf, Walks
    <2> QED
      BY <1>3, <2>1
  <1>5. Chain(Sec(k)) = Chain(a)
    BY <1>2
  <1>6. Chain(a) \subseteq Chain(a)' /\ Chain(a) \subseteq Buckets
    BY ChainKept, ChainIs
  <1> QED
    BY <1>1, <1>4, <1>5, <1>6 DEF Homes

-----------------------------------------------------------------------------
(***************************************************************************)
(* What a step of a writer does to the calls and to the lock.              *)
(***************************************************************************)

\* The writer's place and locals after a step, and how the step uses the lock.

LockMoves(w) ==
  \/ lock' = lock /\ (lock = w => pc'[w] \in Within)
  \/ lock' = w /\ MayLock /\ pc'[w] \in Within
  \/ lock = w /\ lock' = None

Turn(w) ==
  /\ h' = h /\ LockMoves(w)
  /\ pc' = [pc EXCEPT ![w] = pc'[w]] /\ loc' = [loc EXCEPT ![w] = loc'[w]]
  /\ IsLoc(loc'[w])
  /\ pc'[w] # "idle" => loc'[w].key \in h.keys
  /\ pc'[w] \in Searching => PathOK(loc'[w])
  /\ pc'[w] = "move" => /\ lock' = w
                        /\ loc'[w].node \in 1..Len(loc'[w].queue) /\ loc'[w].cslot \in Positions

\* The writer is in a call, or may start one.
Called(w) ==
  \/ pc[w] # "idle"
  \/ lock' = lock /\ (~h.writer_takes_lock => \A v \in Writers : pc[v] = "idle")

\* While a writer is in a move, no other one that is in a call may lock.
LEMMA Alone ==
  ASSUME TableInv, NEW v \in Writers, NEW w \in Writers, v # w, pc[v] = "move", pc[w] # "idle",
         MayLock
  PROVE  FALSE
  <1>1. lock = v /\ v # None
    BY WritersAssumption DEF TableInv, WriterOK
  <1>2. ~h.writer_takes_lock
    BY <1>1 DEF MayLock
  <1> QED
    BY <1>2 DEF TableInv, LockOK

LEMMA TurnOthers ==
  ASSUME TableInv, NEW w \in Writers, Turn(w)
  PROVE  /\ \A v \in Writers : v # w => pc'[v] = pc[v] /\ loc'[v] = loc[v]
         /\ pc' = [v \in Writers |-> pc'[v]] /\ loc' = [v \in Writers |-> loc'[v]]
  BY DEF TableInv, LockOK, Turn

LEMMA TurnKeeps ==
  ASSUME TableInv, NEW w \in Writers, Called(w), Turn(w)
  PROVE  LockOK' /\ \A v \in Writers : WriterOK(v)'
  <1>1. /\ \A v \in Writers : v # w => pc'[v] = pc[v] /\ loc'[v] = loc[v]
        /\ pc' = [v \in Writers |-> pc'[v]] /\ loc' = [v \in Writers |-> loc'[v]]
    BY TurnOthers
  <1>2. HashOK' /\ h' = h /\ \A l : PathOK(l)' <=> PathOK(l)
    BY HashKept DEF TableInv, Turn, PathOK, NodeOK
  <1>3. \A v \in Writers : v # w /\ lock = v /\ pc[v] = "move" => lock' = v
    <2> SUFFICES ASSUME NEW v \in Writers, v # w, lock = v, pc[v] = "move" PROVE lock' = v
      OBVIOUS
    <2>1. pc[w] # "idle" => ~MayLock
      BY Alone
    <2> QED
      BY <2>1 DEF Turn, LockMoves, Called
  <1>4. \A v \in Writers : WriterOK(v)'
    <2> TAKE v \in Writers
    <2>1. CASE v = w
      <3>1. IsLoc(loc'[w]) /\ (pc'[w] # "idle" => loc'[w].key \in h'.keys)
        BY <1>2 DEF Turn
      <3>2. pc'[w] \in Searching => PathOK(loc'[w])
        BY DEF Turn
      <3>3. pc'[w] = "move" => /\ lock' = w /\ loc'[w].node \in 1..Len(loc'[w].queue)
                               /\ loc'[w].cslot \in Positions'
        BY <1>2, HashKept DEF Turn, TableInv
      <3>4. PathOK(loc'[w]) = PathOK(loc[w])'
        BY <1>2, HashKept DEF PathOK, NodeOK, TableInv
      <3> QED
        BY <2>1, <3>1, <3>2, <3>3, <3>4 DEF WriterOK, IsLoc
    <2>2. CASE v # w
      <3>1. WriterOK(v) /\ pc'[v] = pc[v] /\ loc'[v] = loc[v]
        BY <1>1, <2>2 DEF TableInv
      <3>2. PathOK(loc[v]) => PathOK(loc[v])'
        BY <1>2, <3>1, HashKept DEF PathOK, NodeOK, TableInv
      <3>3. pc[v] = "move" => lock' = v
        BY <1>3, <2>2, <3>1 DEF WriterOK
      <3>4. Positions' = Positions
        BY <1>2, HashKept DEF TableInv
      <3> QED
        BY <1>2, <3>1, <3>2, <3>3, <3>4 DEF WriterOK, IsLoc
    <2> QED
      BY <2>1, <2>2
  <1>5. lock' # None => lock' \in Writers /\ pc'[lock'] \in Within
    <2>1. CASE lock' = lock /\ (lock = w => pc'[w] \in Within)
      <3>1. lock # None => lock \in Writers /\ pc[lock] \in Within
        BY DEF TableInv, LockOK, Within
      <3> QED
        BY <1>1, <2>1, <3>1
    <2> QED
      BY <2>1 DEF Turn, LockMoves
  <1>6. ~h'.writer_takes_lock =>
          \A u, v \in Writers : pc'[u] # "idle" /\ pc'[v] # "idle" => u = v
    BY <1>1, <1>2 DEF TableInv, LockOK, Called
  <1> QED
    BY <1>1, <1>4, <1>5, <1>6 DEF LockOK, Within

\* The entry that the writer's move is about to fill.
AtHole(l, b, i) == b = l.queue[l.node].b /\ i = l.cslot

LEMMA HolesStay ==
  ASSUME TableInv, NEW w \in Writers, Turn(w), pc[w] # "move", pc'[w] # "move"
  PROVE  \A b, i : Hole(b, i)' <=> Hole(b, i)
  <1>1. \A v \in Writers : v # w => pc'[v] = pc[v] /\ loc'[v] = loc[v]
    BY TurnOthers
  <1> QED
    BY <1>1 DEF Hole

LEMMA NoHole ==
  ASSUME TableInv, NEW w \in Writers, pc[w] # "idle", pc[w] # "move", MayLock
  PROVE  \A b, i : ~Hole(b, i)
  BY Alone DEF Hole

\* A hole is the one of the writer that moves.
LEMMA MoversHole ==
  ASSUME TableInv, NEW w \in Writers, pc[w] = "move"
  PROVE  \A b, i : Hole(b, i) <=> AtHole(loc[w], b, i)
  <1>1. \A v \in Writers : pc[v] = "move" => v = w
    BY DEF TableInv, WriterOK
  <1> QED
    BY <1>1 DEF Hole, AtHole

LEMMA HoleAfter ==
  ASSUME TableInv, NEW w \in Writers, Turn(w), \A v \in Writers : v # w => pc[v] # "move"
  PROVE  \A b, i : Hole(b, i)' <=> pc'[w] = "move" /\ AtHole(loc'[w], b, i)
  <1>1. \A v \in Writers : v # w => pc'[v] = pc[v] /\ loc'[v] = loc[v]
    BY TurnOthers
  <1> QED
    BY <1>1 DEF Hole, AtHole

\* What is stored stays stored if the entries that count stay as they are.
LEMMA StoredKept ==
  ASSUME TableInv, h' = h, \A c \in Buckets : next[c] # NULL => next'[c] = next[c],
         \A b \in Buckets, i \in Positions :
           ~Hole(b, i) /\ key_idx[b][i] # EMPTY_SLOT =>
             /\ ~Hole(b, i)' /\ key_idx'[b][i] = key_idx[b][i]
             /\ sig_current'[b][i] = sig_current[b][i],
         \A e \in stored' : e \in stored \/
           /\ e[1] \in h.keys /\ e[2] # EMPTY_SLOT
           /\ \E b \in Homes(e[1])', i \in Positions : EntryHas(b, i, e[1], e[2])'
  PROVE  StoredInv'
  <1> SUFFICES ASSUME NEW e \in stored'
               PROVE  /\ e[1] \in h.keys /\ e[2] # EMPTY_SLOT
                      /\ \E b \in Homes(e[1])', i \in Positions : EntryHas(b, i, e[1], e[2])'
    BY HashKept DEF StoredInv, TableInv
  <1>1. CASE e \in stored
    <2> DEFINE k == e[1]
               s == e[2]
    <2>1. k \in h.keys /\ s # EMPTY_SLOT
      BY <1>1 DEF TableInv, StoredInv
    <2>2. PICK b \in Homes(k), i \in Positions : EntryHas(b, i, k, s)
      BY <1>1 DEF TableInv, StoredInv
    <2> HIDE DEF k, s
    <2>3. Homes(k) \subseteq Buckets /\ Homes(k) \subseteq Homes(k)'
      BY <2>1, HomesKept DEF TableInv
    <2>4. b \in Buckets /\ b \in Homes(k)'
      BY <2>2, <2>3
    <2>5. EntryHas(b, i, k, s)'
      BY <2>1, <2>2, <2>4 DEF EntryHas
    <2> QED
      BY <2>1, <2>4, <2>5 DEF k, s
  <1> QED
    BY <1>1

\* A step that leaves the buckets alone and neither starts nor ends a move.
LEMMA QuietStep ==
  ASSUME TableInv, NEW w \in Writers, Called(w), pc[w] # "move", Turn(w), pc'[w] # "move",
         UNCHANGED table
  PROVE  TableInv'
  <1>1. h' = h /\ UNCHANGED <<sig_current, key_idx, next, free_ext, stored>>
    BY DEF Turn, table
  <1>2. HashOK' /\ LockOK' /\ \A v \in Writers : WriterOK(v)'
    BY <1>1, HashKept, TurnKeeps DEF TableInv
  <1>3. LinksOK' /\ EntriesOK'
    BY <1>1, HashKept DEF TableInv, LinksOK, EntriesOK, FirstFree
  <1>4. StoredInv'
    BY <1>1, HolesStay, StoredKept
  <1> QED
    BY <1>2, <1>3, <1>4 DEF TableInv


-----------------------------------------------------------------------------
(***************************************************************************)
(* The steps that leave the buckets alone.                                 *)
(***************************************************************************)

LEMMA NotLocked ==
  ASSUME TableInv, NEW w \in Writers, pc[w] \notin Within
  PROVE  lock # w
  BY WritersAssumption DEF TableInv, LockOK, Within

LEMMA Becomes ==
  ASSUME TableInv, NEW w \in Writers, NEW p, NEW m, h' = h,
         pc' = [pc EXCEPT ![w] = p], loc' = [loc EXCEPT ![w] = m],
         IsLoc(m), p # "idle" => m.key \in h.keys, p \in Searching => PathOK(m),
         p = "move" => /\ lock' = w
                       /\ m.node \in 1..Len(m.queue) /\ m.cslot \in Positions,
         \/ lock' = lock /\ (lock = w => p \in Within)
         \/ lock' = w /\ MayLock /\ p \in Within
         \/ lock = w /\ lock' = None
  PROVE  Turn(w) /\ pc'[w] = p /\ loc'[w] = m
  <1>1. pc = [v \in Writers |-> pc[v]] /\ loc = [v \in Writers |-> loc[v]]
    BY DEF TableInv, LockOK
  <1>2. pc'[w] = p /\ loc'[w] = m
    BY <1>1
  <1> QED
    BY <1>2 DEF Turn, LockMoves, Searching


LEMMA LocStays ==
  ASSUME TableInv, NEW w \in Writers, NEW p, h' = h, pc[w] \notin Within \cup {"idle"},
         p \notin {"idle", "move"}, pc[w] \in Searching \/ p \notin Searching,
         pc' = [pc EXCEPT ![w] = p], loc' = loc, lock' = lock
  PROVE  Turn(w) /\ pc'[w] = p /\ loc'[w] = loc[w]
  <1>1. loc = [v \in Writers |-> loc[v]]
    BY DEF TableInv, LockOK
  <1>2. PICK m : m = loc[w]
    OBVIOUS
  <1>3. loc' = [loc EXCEPT ![w] = m]
    BY <1>1, <1>2
  <1>4. IsLoc(m) /\ m.key \in h.keys /\ (p \in Searching => PathOK(m))
    BY <1>2 DEF TableInv, WriterOK
  <1> QED
    BY <1>2, <1>3, <1>4, Becomes, NotLocked

LEMMA GivesBack ==
  ASSUME TableInv, NEW w \in Writers, NEW ret, h' = h, pc[w] \notin Within \cup {"idle"},
         GiveBack(w, ret), lock' = lock \/ (lock' = w /\ MayLock)
  PROVE  Turn(w) /\ pc'[w] = "back_load" /\ loc'[w].slot = loc[w].slot
  <1>1. PICK l : l = loc[w]
    OBVIOUS
  <1>2. PICK m : m = [l EXCEPT !.ret = ret]
    OBVIOUS
  <1>3. IsLoc(l) /\ l.key \in h.keys
    BY <1>1 DEF TableInv, WriterOK
  <1>4. IsLoc(m) /\ m.key = l.key /\ m.slot = l.slot
    BY <1>2, <1>3 DEF IsLoc, Locals
  <1>5. pc' = [pc EXCEPT ![w] = "back_load"] /\ loc' = [loc EXCEPT ![w] = m]
    BY <1>1, <1>2 DEF GiveBack, Goto
  <1> QED
    BY ZenonT(30), <1>1, <1>3, <1>4, <1>5, Becomes, NotLocked DEF Searching, Within

LEMMA Returns ==
  ASSUME TableInv, NEW w \in Writers, NEW ret, h' = h, pc[w] # "idle", ReturnRet(w, ret),
         hash_rw_writer_unlock(w)
  PROVE  Turn(w) /\ pc'[w] = "done" /\ loc'[w].slot = EMPTY_SLOT
  <1>1. PICK k : k = loc[w].key
    OBVIOUS
  <1>2. PICK m : m = [Idle EXCEPT !.key = k, !.ret = ret]
    OBVIOUS
  <1>3. k \in h.keys
    BY <1>1 DEF TableInv, WriterOK
  <1>4. IsLoc(m) /\ m.key = k /\ m.slot = EMPTY_SLOT
    <2>1. IsLoc(Idle) /\ Idle.slot = EMPTY_SLOT
      BY SMT DEF IsLoc, Locals, Idle
    <2> QED
      BY <1>2, <2>1 DEF IsLoc, Locals
  <1>5. pc' = [pc EXCEPT ![w] = "done"] /\ loc' = [loc EXCEPT ![w] = m]
    BY <1>1, <1>2 DEF ReturnRet, Goto
  <1>6. (lock' = lock /\ lock # w) \/ (lock = w /\ lock' = None)
    BY DEF hash_rw_writer_unlock
  <1> QED
    BY <1>3, <1>4, <1>5, <1>6, Becomes DEF Searching

LEMMA Starts ==
  ASSUME TableInv, NEW w \in Writers, NEW b, NEW sec, h' = h, pc[w] \notin Within \cup {"idle"},
         b \in {loc[w].key.prim, Sec(loc[w].key)}, StartSearch(w, b, sec), lock' = lock
  PROVE  Turn(w) /\ pc'[w] = "search" /\ loc'[w].slot = loc[w].slot
  <1>1. PICK l : l = loc[w]
    OBVIOUS
  <1>2. PICK x : x = [b |-> b, prev |-> 0, pslot |-> 0]
    OBVIOUS
  <1>3. PICK m : m = [l EXCEPT !.queue = <<x>>, !.at = 1, !.i = 1, !.sec = sec]
    OBVIOUS
  <1>4. IsLoc(l) /\ l.key \in h.keys
    BY <1>1 DEF TableInv, WriterOK
  <1>5. IsLoc(m) /\ m.key = l.key /\ m.slot = l.slot /\ m.queue = <<x>> /\ m.at = 1 /\ m.i = 1
    BY <1>3, <1>4 DEF IsLoc, Locals
  <1>6. pc' = [pc EXCEPT ![w] = "search"] /\ loc' = [loc EXCEPT ![w] = m]
    BY <1>1, <1>2, <1>3 DEF StartSearch, Goto
  <1>7. PathOK(m)
    <2>1. b \in MainBuckets /\ 1 \in Positions
      BY <1>1, <1>4, Shapes DEF TableInv
    <2>2. x \in Node
      BY SMT, <1>2, <2>1 DEF Node
    <2>3. <<x>> \in Seq(Node) /\ Len(<<x>>) = 1 /\ <<x>>[1] = x /\ 1 \in 1..1
          /\ \A n \in 1..1 : n = 1
      BY SMT, <2>2
    <2>4. NodeOK(m.key, 1, x)
      <3>1. x.b = b /\ x.prev = 0 /\ x.prev < 1
        BY SMT, <1>2
      <3> QED
        BY <1>1, <1>5, <3>1 DEF NodeOK
    <2> QED
      BY <1>5, <2>1, <2>3, <2>4 DEF PathOK
  <1> QED
    BY ZenonT(30), <1>1, <1>4, <1>5, <1>6, <1>7, Becomes, NotLocked

\* A step that leaves the buckets alone, neither starts nor ends a move, and
\* takes no slot and gives none away.
Plain(w) ==
  /\ Turn(w) /\ Called(w) /\ pc[w] # "move" /\ pc'[w] # "move" /\ UNCHANGED table
  /\ UNCHANGED freeSlots
  /\ SlotTypes => /\ loc'[w].slot = loc[w].slot
                  /\ pc'[w] \in NoSlot => loc'[w].slot = EMPTY_SLOT
                  /\ pc'[w] = "alloc_take" => loc'[w].pos \in Nat /\ loc'[w].pos < slots_tail

LEMMA SlotOf ==
  ASSUME SlotTypes, NEW w \in Writers, pc[w] \in NoSlot
  PROVE  loc[w].slot = EMPTY_SLOT
  BY DEF SlotTypes

LEMMA CheckPlain == ASSUME TableInv, NEW w \in Writers, h' = h, Check(w) PROVE Plain(w)
  <1>1. pc[w] = "check" /\ UNCHANGED <<table, freeSlots>> /\ lock' = lock /\ lock # w
    BY NotLocked DEF Check, Within
  <1>2. \/ \E ret : ReturnRet(w, ret)
        \/ pc' = [pc EXCEPT ![w] = "alloc_load"] /\ loc' = loc
    BY DEF Check, Goto
  <1>3. CASE \E ret : ReturnRet(w, ret)
    <2>1. PICK ret : ReturnRet(w, ret)
      BY <1>3
    <2>2. hash_rw_writer_unlock(w)
      BY <1>1 DEF hash_rw_writer_unlock
    <2>3. Turn(w) /\ pc'[w] = "done" /\ loc'[w].slot = EMPTY_SLOT
      BY <1>1, <2>1, <2>2, Returns
    <2> QED
      BY <1>1, <2>3, SlotOf DEF Plain, Called, NoSlot
  <1>4. CASE pc' = [pc EXCEPT ![w] = "alloc_load"] /\ loc' = loc
    <2>1. Turn(w) /\ pc'[w] = "alloc_load" /\ loc'[w] = loc[w]
      BY <1>1, <1>4, LocStays DEF Within, Searching
    <2> QED
      BY <1>1, <2>1, SlotOf DEF Plain, Called, NoSlot
  <1> QED
    BY <1>2, <1>3, <1>4

LEMMA AllocLoadPlain == ASSUME TableInv, NEW w \in Writers, h' = h, AllocLoad(w) PROVE Plain(w)
  <1>1. pc[w] = "alloc_load" /\ UNCHANGED <<table, freeSlots>> /\ lock' = lock /\ lock # w
    BY NotLocked DEF AllocLoad, Within
  <1>2. PICK l : l = loc[w]
    OBVIOUS
  <1>3. IsLoc(l) /\ l.key \in h.keys
    BY <1>1, <1>2 DEF TableInv, WriterOK
  <1>4. SlotTypes => l.slot = EMPTY_SLOT
    BY <1>1, <1>2, SlotOf DEF NoSlot
  <1>5. CASE slots_head = slots_tail
    <2>1. PICK m : m = [l EXCEPT !.slot = EMPTY_SLOT]
      OBVIOUS
    <2>2. IsLoc(m) /\ m.key = l.key /\ m.slot = EMPTY_SLOT
      BY <1>3, <2>1 DEF IsLoc, Locals
    <2>3. pc' = [pc EXCEPT ![w] = "store_key"] /\ loc' = [loc EXCEPT ![w] = m]
      BY <1>2, <1>5, <2>1 DEF AllocLoad, Goto
    <2>4. Turn(w) /\ pc'[w] = "store_key" /\ loc'[w] = m
      BY <1>1, <1>3, <2>2, <2>3, Becomes DEF Searching
    <2> QED
      BY <1>1, <1>2, <1>4, <2>2, <2>4 DEF Plain, Called, NoSlot
  <1>6. CASE slots_head # slots_tail
    <2>1. PICK n : n = slots_head
      OBVIOUS
    <2>2. PICK m : m = [l EXCEPT !.pos = n]
      OBVIOUS
    <2>3. IsLoc(m) /\ m.key = l.key /\ m.slot = l.slot /\ m.pos = n
      BY <1>3, <2>2 DEF IsLoc, Locals
    <2>4. pc' = [pc EXCEPT ![w] = "alloc_take"] /\ loc' = [loc EXCEPT ![w] = m]
      BY <1>2, <1>6, <2>1, <2>2 DEF AllocLoad, Goto
    <2>5. Turn(w) /\ pc'[w] = "alloc_take" /\ loc'[w] = m
      BY <1>1, <1>3, <2>3, <2>4, Becomes DEF Searching
    <2>6. SlotTypes => n \in Nat /\ n < slots_tail
      <3>1. SlotTypes => slots_tail \in Nat /\ slots_head \in 0..slots_tail
        <4>1. SlotTypes => slots \in Seq(0..h.slots) /\ Len(slots) = slots_tail
                           /\ slots_head \in 0..slots_tail
          BY DEF SlotTypes
        <4> QED
          BY SMT, <4>1
      <3> QED
        BY SMT, <1>6, <2>1, <3>1
    <2> QED
      BY <1>1, <1>2, <1>4, <2>3, <2>5, <2>6 DEF Plain, Called, NoSlot
  <1> QED
    BY <1>5, <1>6

LEMMA StoreKeyPlain == ASSUME TableInv, NEW w \in Writers, h' = h, StoreKey(w) PROVE Plain(w)
  <1>1. /\ pc[w] = "store_key" /\ UNCHANGED <<table, freeSlots>> /\ lock' = lock
        /\ pc' = [pc EXCEPT ![w] = "insert"] /\ loc' = loc
    BY DEF StoreKey, Goto
  <1>2. Turn(w) /\ pc'[w] = "insert" /\ loc'[w] = loc[w]
    BY <1>1, LocStays DEF Within, Searching
  <1> QED
    BY <1>1, <1>2 DEF Plain, Called, NoSlot

LEMMA SearchEntryPlain == ASSUME TableInv, NEW w \in Writers, h' = h, SearchEntry(w) PROVE Plain(w)
  <1>1. /\ pc[w] = "search" /\ UNCHANGED <<table, freeSlots>> /\ lock' = lock /\ loc' = loc
        /\ \E p \in {"move_lock", "expand"} : pc' = [pc EXCEPT ![w] = p]
    BY DEF SearchEntry, Goto
  <1>2. PICK p \in {"move_lock", "expand"} : pc' = [pc EXCEPT ![w] = p]
    BY <1>1
  <1>3. Turn(w) /\ pc'[w] = p /\ loc'[w] = loc[w]
    BY <1>1, <1>2, LocStays DEF Within, Searching
  <1> QED
    BY <1>1, <1>3 DEF Plain, Called, NoSlot

LEMMA DonePlain == ASSUME TableInv, NEW w \in Writers, h' = h, Done(w) PROVE Plain(w)
  <1>1. /\ pc[w] = "done" /\ UNCHANGED <<table, freeSlots>> /\ lock' = lock /\ lock # w
        /\ pc' = [pc EXCEPT ![w] = "idle"] /\ loc' = [loc EXCEPT ![w] = Idle]
    BY NotLocked DEF Done, Goto, Within
  <1>2. IsLoc(Idle) /\ Idle.slot = EMPTY_SLOT
    BY SMT DEF IsLoc, Locals, Idle
  <1>3. Turn(w) /\ pc'[w] = "idle" /\ loc'[w] = Idle
    BY <1>1, <1>2, Becomes DEF Searching
  <1> QED
    BY <1>1, <1>2, <1>3, SlotOf DEF Plain, Called, NoSlot

\* The search goes on with one more bucket on its queue.
LEMMA ExpandPlain == ASSUME TableInv, NEW w \in Writers, h' = h, Expand(w) PROVE Plain(w)
  <1>1. pc[w] = "expand" /\ UNCHANGED <<table, freeSlots>> /\ lock' = lock /\ lock # w
    BY NotLocked DEF Expand, Within
  <1>2. PICK l : l = loc[w]
    OBVIOUS
  <1>3. IsLoc(l) /\ l.key \in h.keys /\ PathOK(l)
    BY <1>1, <1>2 DEF TableInv, WriterOK, Searching
  <1>4. PICK b : b = l.queue[l.at].b
    OBVIOUS
  <1>5. PICK x : x = [b |-> AltBucket(b, sig_current[b][l.i]), prev |-> l.at, pslot |-> l.i]
    OBVIOUS
  <1>6. PICK a : a = IF l.i = h.bucket_entries THEN l.at + 1 ELSE l.at
    OBVIOUS
  <1>7. PICK j : j = IF l.i = h.bucket_entries THEN 1 ELSE l.i + 1
    OBVIOUS
  <1>8. PICK q : q = Append(l.queue, x)
    OBVIOUS
  <1>9. PICK m : m = [l EXCEPT !.queue = q, !.at = a, !.i = j]
    OBVIOUS
  <1>10. IsLoc(m) /\ m.key = l.key /\ m.slot = l.slot /\ m.queue = q /\ m.at = a /\ m.i = j
    BY <1>3, <1>9 DEF IsLoc, Locals
  <1>11. pc' = [pc EXCEPT ![w] = "search"] /\ loc' = [loc EXCEPT ![w] = m]
    BY ZenonT(30), <1>2, <1>4, <1>5, <1>6, <1>7, <1>8, <1>9 DEF Expand, Goto
  <1>12. PathOK(m)
    <2>1. /\ l.queue \in Seq(Node) /\ l.at \in 1..Len(l.queue) /\ l.i \in Positions
          /\ \A n \in 1..Len(l.queue) : NodeOK(l.key, n, l.queue[n])
      BY <1>3 DEF PathOK
    <2>2. b \in MainBuckets
      <3>1. l.queue[l.at] \in Node
        BY SMT, <2>1
      <3> QED
        BY SMT, <1>4, <3>1 DEF Node
    <2>3. AltBucket(b, sig_current[b][l.i]) \in MainBuckets
      <3>1. sig_current[b][l.i] \in Sigs
        BY <2>1, <2>2, Shapes DEF TableInv, EntriesOK
      <3> QED
        BY <2>2, <3>1 DEF TableInv, HashOK
    <2>4. Positions \subseteq Nat /\ Positions = 1..h.bucket_entries /\ h.bucket_entries \in Nat \ {0}
      BY Shapes DEF TableInv, Positions, HashOK
    <2>5. l.at \in Nat /\ l.at # 0 /\ l.i \in Nat
      BY SMT, <2>1, <2>4
    <2>6. x \in Node /\ x.prev = l.at /\ x.pslot = l.i
      <3> DEFINE c == AltBucket(b, sig_current[b][l.i])
      <3> HIDE DEF c
      <3>1. x = [b |-> c, prev |-> l.at, pslot |-> l.i] /\ c \in MainBuckets
        BY <1>5, <2>3 DEF c
      <3> QED
        BY SMT, <2>5, <3>1 DEF Node
    <2>7. /\ q \in Seq(Node) /\ Len(q) = Len(l.queue) + 1 /\ q[Len(q)] = x
          /\ \A n \in 1..Len(l.queue) : q[n] = l.queue[n]
          /\ \A n \in 1..Len(q) : n = Len(q) \/ n \in 1..Len(l.queue)
      BY SMT, <1>8, <2>1, <2>6
    <2>8. l.at < Len(q) /\ a \in 1..Len(q)
      BY SMT, <1>6, <2>1, <2>7
    <2>9. j \in Positions
      BY SMT, <1>7, <2>1, <2>4
    <2>10. NodeOK(l.key, Len(q), x)
      BY <2>1, <2>5, <2>6, <2>8 DEF NodeOK
    <2>11. \A n \in 1..Len(q) : NodeOK(l.key, n, q[n])
      BY <2>1, <2>7, <2>10
    <2> QED
      BY <1>10, <2>7, <2>8, <2>9, <2>11 DEF PathOK
  <1>13. Turn(w) /\ pc'[w] = "search" /\ loc'[w] = m
    BY <1>1, <1>3, <1>10, <1>11, <1>12, Becomes
  <1> QED
    BY <1>1, <1>2, <1>10, <1>13 DEF Plain, Called, NoSlot

LEMMA GivesBackPlain ==
  ASSUME TableInv, NEW w \in Writers, NEW ret, h' = h, pc[w] \notin Within \cup {"idle"},
         GiveBack(w, ret), lock' = lock \/ (lock' = w /\ MayLock), UNCHANGED <<table, freeSlots>>
  PROVE  Plain(w)
  <1>1. Turn(w) /\ pc'[w] = "back_load" /\ loc'[w].slot = loc[w].slot
    BY GivesBack
  <1> QED
    BY <1>1 DEF Plain, Called, NoSlot, Within

LEMMA StartsPlain ==
  ASSUME TableInv, NEW w \in Writers, NEW b, NEW sec, h' = h, pc[w] \notin Within \cup {"idle"},
         b \in {loc[w].key.prim, Sec(loc[w].key)}, StartSearch(w, b, sec), lock' = lock,
         UNCHANGED <<table, freeSlots>>
  PROVE  Plain(w)
  <1>1. Turn(w) /\ pc'[w] = "search" /\ loc'[w].slot = loc[w].slot
    BY Starts
  <1> QED
    BY <1>1 DEF Plain, Called, NoSlot, Within

LEMMA StaysPlain ==
  ASSUME TableInv, NEW w \in Writers, NEW p, h' = h, pc[w] \in Searching \ {"move"},
         p \in {"ext", "expand"}, pc' = [pc EXCEPT ![w] = p], loc' = loc, lock' = lock,
         UNCHANGED <<table, freeSlots>>
  PROVE  Plain(w)
  <1>1. Turn(w) /\ pc'[w] = p /\ loc'[w] = loc[w]
    BY LocStays DEF Within, Searching
  <1> QED
    BY <1>1 DEF Plain, Called, NoSlot, Searching

LEMMA SearchFailsPlain == ASSUME TableInv, NEW w \in Writers, h' = h, SearchFails(w) PROVE Plain(w)
  <1>1. pc[w] = "search" /\ UNCHANGED <<table, freeSlots>> /\ lock' = lock
    BY DEF SearchFails
  <1>2. \/ StartSearch(w, Sec(loc[w].key), TRUE)
        \/ GiveBack(w, ENOSPC)
        \/ pc' = [pc EXCEPT ![w] = "ext"] /\ loc' = loc
    BY DEF SearchFails, Goto
  <1>3. ASSUME StartSearch(w, Sec(loc[w].key), TRUE) PROVE Plain(w)
    <2>1. PICK b : b = Sec(loc[w].key)
      OBVIOUS
    <2>2. StartSearch(w, b, TRUE)
      BY <1>3, <2>1
    <2> QED
      BY <1>1, <2>1, <2>2, StartsPlain DEF Within
  <1>4. ASSUME GiveBack(w, ENOSPC) PROVE Plain(w)
    BY <1>1, <1>4, GivesBackPlain DEF Within
  <1>5. ASSUME pc' = [pc EXCEPT ![w] = "ext"] /\ loc' = loc PROVE Plain(w)
    BY <1>1, <1>5, StaysPlain DEF Searching
  <1> QED
    BY <1>2, <1>3, <1>4, <1>5

-----------------------------------------------------------------------------
(***************************************************************************)
(* The steps that put an entry into a bucket.                              *)
(***************************************************************************)

\* A call ends by putting its key k into an entry that did not count, of a
\* bucket in which k is looked for.
Puts(w, k, b, i) ==
  /\ Turn(w) /\ pc[w] # "idle" /\ pc'[w] = "done" /\ loc'[w].slot = EMPTY_SLOT
  /\ k = loc[w].key /\ k \in h.keys /\ b \in Buckets /\ i \in Positions
  /\ PutEntry(b, i, k, loc[w].slot)
  /\ Hole(b, i) \/ key_idx[b][i] = EMPTY_SLOT
  /\ \A c, j : Hole(c, j) => c = b /\ j = i
  /\ \A v \in Writers : v # w => pc[v] # "move"
  /\ \A c \in Buckets : next[c] # NULL => next'[c] = next[c]
  /\ LinksOK' /\ FirstFree <= FirstFree' /\ b < FirstFree' /\ b \in Homes(k)'
  /\ UNCHANGED freeSlots

LEMMA FirstFreeIs ==
  ASSUME HashOK, LinksOK
  PROVE  /\ FirstFree \in Nat /\ h.num_buckets <= FirstFree
         /\ \A b \in MainBuckets : b < FirstFree
  BY SMTT(20) DEF HashOK, LinksOK, FirstFree, MainBuckets

Grid(f, B, P) == f = [c \in B |-> [j \in P |-> f[c][j]]]
With(f, b, i, x) == [f EXCEPT ![b][i] = x]

LEMMA Cells ==
  ASSUME NEW B, NEW P, NEW f, Grid(f, B, P), NEW b \in B, NEW i \in P, NEW x, NEW g,
         g = With(f, b, i, x)
  PROVE  /\ Grid(g, B, P) /\ g[b][i] = x
         /\ \A c \in B, j \in P : c # b \/ j # i => g[c][j] = f[c][j]
  <1> USE DEF Grid, With
  <1>1. PICK row : row = [f[b] EXCEPT ![i] = x]
    OBVIOUS
  <1>2. f[b] = [j \in P |-> f[b][j]]
    OBVIOUS
  <1>3. row = [j \in P |-> row[j]] /\ row[i] = x /\ \A j \in P : j # i => row[j] = f[b][j]
    BY <1>1, <1>2
  <1>4. g = [f EXCEPT ![b] = row]
    BY <1>1
  <1>5. g[b] = row /\ (\A c \in B : c # b => g[c] = f[c]) /\ g = [c \in B |-> g[c]]
    BY <1>4
  <1>6. \A c \in B : f[c] = [j \in P |-> f[c][j]]
    OBVIOUS
  <1>7. ASSUME NEW c \in B PROVE g[c] = [j \in P |-> g[c][j]]
    <2>1. CASE c = b
      BY <1>3, <1>5, <2>1
    <2>2. CASE c # b
      <3>1. g[c] = f[c]
        BY <1>5, <2>2
      <3> QED
        BY <1>6, <3>1
    <2> QED
      BY <2>1, <2>2
  <1> QED
    BY <1>3, <1>5, <1>7

LEMMA PutEntries ==
  ASSUME EntriesOK, HashOK, NEW b \in Buckets, NEW i \in Positions, NEW k, NEW s, PutEntry(b, i, k, s)
  PROVE  /\ Grid(sig_current', Buckets, Positions) /\ Grid(key_idx', Buckets, Positions)
         /\ key_idx'[b][i] = s /\ sig_current'[b][i] = k.sig
         /\ \A c \in Buckets, j \in Positions : c # b \/ j # i =>
              key_idx'[c][j] = key_idx[c][j] /\ sig_current'[c][j] = sig_current[c][j]
  <1>1. /\ sig_current' = With(sig_current, b, i, k.sig)
        /\ key_idx' = With(key_idx, b, i, s)
    BY DEF PutEntry, With
  <1>2. Grid(sig_current, Buckets, Positions) /\ Grid(key_idx, Buckets, Positions)
    BY DEF EntriesOK, Grid
  <1>3. /\ Grid(sig_current', Buckets, Positions) /\ sig_current'[b][i] = k.sig
        /\ \A c \in Buckets, j \in Positions :
             c # b \/ j # i => sig_current'[c][j] = sig_current[c][j]
    BY SMTT(20), <1>1, <1>2, Cells
  <1>4. /\ Grid(key_idx', Buckets, Positions) /\ key_idx'[b][i] = s
        /\ \A c \in Buckets, j \in Positions :
             c # b \/ j # i => key_idx'[c][j] = key_idx[c][j]
    BY SMT, <1>1, <1>2, Cells
  <1> QED
    BY <1>3, <1>4

LEMMA PutStep ==
  ASSUME TableInv, NEW w \in Writers, NEW k, NEW b, NEW i, Puts(w, k, b, i)
  PROVE  TableInv'
  <1>1. HashOK' /\ LockOK' /\ (\A v \in Writers : WriterOK(v)') /\ LinksOK' /\ h' = h
    BY HashKept, TurnKeeps DEF TableInv, Puts, Turn, Called
  <1>2. b \in Buckets /\ i \in Positions /\ k \in h.keys /\ PutEntry(b, i, k, loc[w].slot)
    BY DEF Puts
  <1>3. PICK s : s = loc[w].slot
    OBVIOUS
  <1>4. /\ Grid(sig_current', Buckets, Positions) /\ Grid(key_idx', Buckets, Positions)
        /\ key_idx'[b][i] = s /\ sig_current'[b][i] = k.sig
        /\ \A c \in Buckets, j \in Positions : c # b \/ j # i =>
             key_idx'[c][j] = key_idx[c][j] /\ sig_current'[c][j] = sig_current[c][j]
    <2>1. PutEntry(b, i, k, s)
      BY <1>2, <1>3
    <2> QED
      BY ZenonT(30), <1>2, <2>1, PutEntries DEF TableInv
  <1>5. Buckets' = Buckets /\ Positions' = Positions /\ Sigs' = Sigs /\ k.sig \in Sigs
    BY <1>1, <1>2, HashKept, Shapes DEF TableInv
  <1>6. \A c, j : ~Hole(c, j)'
    BY HoleAfter DEF Puts
  <1>7. FirstFree' \in Nat
    BY SMT, <1>1 DEF HashOK, LinksOK, FirstFree
  <1>8. EntriesOK'
    <2>1. ASSUME NEW c \in Buckets, NEW j \in Positions
          PROVE  sig_current'[c][j] \in Sigs /\ (FirstFree' <= c => key_idx'[c][j] = EMPTY_SLOT)
      <3>1. CASE c = b /\ j = i
        <4>1. b < FirstFree' /\ b \in Nat
          BY <1>2, Shapes DEF Puts, TableInv
        <4>2. ~(FirstFree' <= b)
          BY SMT, <1>7, <4>1
        <4> QED
          BY <1>4, <1>5, <3>1, <4>2
      <3>2. CASE c # b \/ j # i
        <4>1. FirstFree <= FirstFree' /\ c \in Nat /\ FirstFree \in Nat
          BY Shapes, FirstFreeIs DEF Puts, TableInv
        <4>2. FirstFree' <= c => FirstFree <= c
          BY SMT, <1>7, <4>1
        <4> QED
          BY ZenonT(30), <1>4, <3>2, <4>2 DEF TableInv, EntriesOK
      <3> QED
        BY <3>1, <3>2
    <2> QED
      BY <1>4, <1>5, <2>1 DEF EntriesOK, Grid
  <1>9. StoredInv'
    <2>1. \A c \in Buckets, j \in Positions :
            ~Hole(c, j) /\ key_idx[c][j] # EMPTY_SLOT =>
              /\ ~Hole(c, j)' /\ key_idx'[c][j] = key_idx[c][j]
              /\ sig_current'[c][j] = sig_current[c][j]
      BY <1>4, <1>6 DEF Puts
    <2>2. \A e \in stored' : e \in stored \/
            /\ e[1] \in h.keys /\ e[2] # EMPTY_SLOT
            /\ \E c \in Homes(e[1])', j \in Positions : EntryHas(c, j, e[1], e[2])'
      <3>1. ASSUME NEW e \in stored', e \notin stored
            PROVE  e = <<k, s>> /\ s # EMPTY_SLOT
        BY <1>2, <1>3, <3>1 DEF PutEntry
      <3>2. EntryHas(b, i, k, s)' /\ b \in Homes(k)'
        BY <1>4, <1>6 DEF EntryHas, Puts
      <3>3. <<k, s>>[1] = k /\ <<k, s>>[2] = s
        OBVIOUS
      <3> TAKE e \in stored'
      <3>4. CASE e \notin stored
        <4>1. e[1] = k /\ e[2] = s /\ s # EMPTY_SLOT
          BY <3>1, <3>3, <3>4
        <4> QED
          BY <1>2, <3>2, <4>1
      <3> QED
        BY <3>4
    <2>3. \A c \in Buckets : next[c] # NULL => next'[c] = next[c]
      BY DEF Puts
    <2> QED
      BY <1>1, <2>1, <2>2, <2>3, StoredKept
  <1> QED
    BY <1>1, <1>8, <1>9 DEF TableInv

LEMMA PutsEmpty ==
  ASSUME TableInv, NEW w \in Writers, h' = h, pc[w] \in {"insert", "ext"}, MayLock,
         ReturnSlot(w), lock' = lock, UNCHANGED freeSlots,
         NEW k, k = loc[w].key, NEW b \in Buckets, NEW i \in EmptyAt(b),
         PutEntry(b, i, k, loc[w].slot),
         \A c \in Buckets : next[c] # NULL => next'[c] = next[c],
         LinksOK', FirstFree <= FirstFree', b < FirstFree', b \in Homes(k)'
  PROVE  Puts(w, k, b, i)
  <1>1. pc[w] # "idle" /\ pc[w] # "move" /\ pc[w] \notin Within
    BY DEF Within
  <1>2. PICK ret : ReturnRet(w, ret)
    BY DEF ReturnSlot
  <1>3. hash_rw_writer_unlock(w)
    BY <1>1, NotLocked DEF hash_rw_writer_unlock
  <1>4. Turn(w) /\ pc'[w] = "done" /\ loc'[w].slot = EMPTY_SLOT
    BY <1>1, <1>2, <1>3, Returns
  <1>5. k \in h.keys
    BY <1>1 DEF TableInv, WriterOK
  <1>6. i \in Positions /\ key_idx[b][i] = EMPTY_SLOT
    BY DEF EmptyAt
  <1>7. \A c, j : ~Hole(c, j)
    BY <1>1, NoHole
  <1>8. \A v \in Writers : v # w => pc[v] # "move"
    BY <1>1, Alone
  <1> QED
    BY <1>1, <1>4, <1>5, <1>6, <1>7, <1>8 DEF Puts

LEMMA LinksSame ==
  ASSUME TableInv, h' = h, UNCHANGED <<next, free_ext>>
  PROVE  LinksOK' /\ FirstFree' = FirstFree /\ FirstFree <= FirstFree'
  <1>1. LinksOK' /\ FirstFree' = FirstFree
    BY HashKept DEF TableInv, LinksOK, FirstFree
  <1>2. FirstFree \in Nat
    BY FirstFreeIs DEF TableInv
  <1> QED
    BY SMT, <1>1, <1>2

LEMMA InsertStep ==
  ASSUME TableInv, NEW w \in Writers, h' = h, cuckoo_insert(w)
  PROVE  Plain(w) \/ \E k, b, i : Puts(w, k, b, i)
  <1>1. pc[w] = "insert" /\ MayLock /\ UNCHANGED <<freeSlots, lock>>
    BY DEF cuckoo_insert
  <1>2. PICK k : k = loc[w].key
    OBVIOUS
  <1>3. \/ \E ret : GiveBack(w, ret) /\ UNCHANGED table
        \/ /\ EmptyAt(k.prim) # {} /\ PutEntry(k.prim, First(EmptyAt(k.prim)), k, loc[w].slot)
           /\ ReturnSlot(w) /\ UNCHANGED <<next, free_ext>>
        \/ StartSearch(w, k.prim, FALSE) /\ UNCHANGED table
    BY <1>2 DEF cuckoo_insert
  <1>4. ASSUME \E ret : GiveBack(w, ret) /\ UNCHANGED table PROVE Plain(w)
    BY <1>1, <1>4, GivesBackPlain DEF Within
  <1>5. ASSUME StartSearch(w, k.prim, FALSE) /\ UNCHANGED table PROVE Plain(w)
    <2>1. PICK b : b = k.prim
      OBVIOUS
    <2>2. StartSearch(w, b, FALSE) /\ b \in {loc[w].key.prim, Sec(loc[w].key)}
      BY <1>2, <1>5, <2>1
    <2> QED
      BY <1>1, <1>5, <2>2, StartsPlain DEF Within
  <1>6. ASSUME EmptyAt(k.prim) # {}, PutEntry(k.prim, First(EmptyAt(k.prim)), k, loc[w].slot),
               ReturnSlot(w), UNCHANGED <<next, free_ext>>
        PROVE  \E b, i : Puts(w, k, b, i)
    <2>1. PICK b : b = k.prim
      OBVIOUS
    <2>2. PICK i : i = First(EmptyAt(b))
      OBVIOUS
    <2>3. k \in h.keys /\ b \in MainBuckets /\ b \in Buckets /\ Positions \subseteq Nat
      BY <1>1, <1>2, <2>1, Shapes DEF TableInv, WriterOK
    <2>4. i \in EmptyAt(b)
      <3>1. EmptyAt(b) \subseteq Nat /\ EmptyAt(b) # {}
        BY <1>6, <2>1, <2>3 DEF EmptyAt
      <3> QED
        BY <2>2, <3>1, FirstIs
    <2>5. PutEntry(b, i, k, loc[w].slot)
      BY <1>6, <2>1, <2>2
    <2>6. LinksOK' /\ FirstFree' = FirstFree /\ FirstFree <= FirstFree' /\ b < FirstFree
      BY <1>6, <2>3, LinksSame, FirstFreeIs DEF TableInv
    <2>7. b \in Homes(k)'
      BY <2>1 DEF Homes
    <2>8. \A c \in Buckets : next[c] # NULL => next'[c] = next[c]
      BY <1>6
    <2> QED
      BY <1>1, <1>2, <1>6, <2>3, <2>4, <2>5, <2>6, <2>7, <2>8, PutsEmpty
  <1> QED
    BY <1>3, <1>4, <1>5, <1>6

\* The last bucket of a chain, and the first free one to chain to it.
Links(k, d) ==
  /\ free_ext # << >> /\ d = Head(free_ext) /\ free_ext' = Tail(free_ext)
  /\ next' = [next EXCEPT ![rte_hash_get_last_bkt(Sec(k))] = d]

LEMMA LinkNew ==
  ASSUME TableInv, h' = h, NEW k \in h.keys, NEW d, Links(k, d)
  PROVE  /\ d \in Buckets /\ LinksOK' /\ FirstFree <= FirstFree' /\ d < FirstFree'
         /\ d = FirstFree /\ d \in Homes(k)'
         /\ \A c \in Buckets : next[c] # NULL => next'[c] = next[c]
  <1> DEFINE N == h.num_buckets
             F == FirstFree
             L == Len(free_ext)
  <1>1. PICK last : last = rte_hash_get_last_bkt(Sec(k))
    OBVIOUS
  <1>2. /\ free_ext # << >> /\ d = Head(free_ext) /\ free_ext' = Tail(free_ext)
        /\ next' = [next EXCEPT ![last] = d]
    BY <1>1 DEF Links
  <1>3. HashOK /\ LinksOK /\ N \in Nat
    BY DEF TableInv, HashOK
  <1>4. PICK a \in MainBuckets : a = Sec(k)
    BY <1>3, Shapes
  <1>5. L \in 0..N /\ free_ext = [n \in 1..L |-> (F + n) - 1] /\ F = (2 * N) - L
    BY <1>3 DEF LinksOK, FirstFree
  <1>6. L # 0
    <2> HIDE DEF F
    <2> QED
      BY SMTT(20), <1>3, <1>5, <1>2
  <1>7. F \in Nat /\ N <= F /\ F < 2 * N /\ L \in Nat
    <2>1. L \in 0..N /\ F = (2 * N) - L
      BY <1>5
    <2> HIDE DEF F, L, N
    <2> QED
      BY SMTT(20), <1>3, <1>6, <2>1
  <1>8. d = F /\ L = Len(free_ext) /\ free_ext \in Seq(Nat)
    <2> HIDE DEF F
    <2>1. free_ext \in Seq(Nat)
      BY SMTT(20), <1>5, <1>7
    <2>2. Head(free_ext) = free_ext[1]
      BY SMT, <2>1
    <2>3. free_ext[1] = (F + 1) - 1
      BY SMT, <1>5, <1>6
    <2> QED
      BY SMTT(20), <1>7, <1>2, <2>1, <2>2, <2>3
  <1>9. PICK n \in 0..N : /\ Walk(a)[n] # NULL /\ next[Walk(a)[n]] = NULL
                          /\ Walk(a)[n] = last /\ n + 1 \in 0..N
    BY <1>1, <1>3, <1>4, <1>6, ChainEnds
  <1>10. last \in Buckets /\ last # NULL /\ (n # 0 => last < F)
    BY <1>3, <1>9, WalkAscends
  <1>11. Walk(a)[0] = a
    BY <1>3, WalkFrom
  <1>12. last < F /\ last \in Nat
    <2>1. n = 0 => last < F
      BY <1>3, <1>9, <1>11, FirstFreeIs
    <2> QED
      BY <1>3, <1>10, <2>1, Shapes
  <1>13. d \in ExtBuckets /\ d \in Buckets
    <2>1. d \in N..((2 * N) - 1)
      <3> HIDE DEF F
      <3> QED
        BY SMT, <1>3, <1>7, <1>8
    <2> QED
      BY <2>1 DEF ExtBuckets, Buckets
  <1>14. /\ next = [c \in Buckets |-> next[c]] /\ next' = [c \in Buckets |-> next'[c]]
         /\ next'[last] = d /\ \A c \in Buckets : c # last => next'[c] = next[c]
    BY <1>3, <1>10, <1>2 DEF LinksOK
  <1>15. \A c \in Buckets : next[c] # NULL => next'[c] = next[c]
    BY <1>9, <1>14
  <1>16. Len(free_ext') = L - 1 /\ FirstFree' = F + 1
    <2>1. Len(free_ext') = L - 1
      <3> HIDE DEF F
      <3> QED
        BY SMT, <1>6, <1>8, <1>2
    <2>2. FirstFree' = (2 * N) - Len(free_ext')
      BY DEF FirstFree
    <2>3. F = (2 * N) - L
      BY <1>5
    <2> HIDE DEF F, L, N
    <2> QED
      BY SMTT(20), <1>3, <1>7, <2>1, <2>2, <2>3
  <1>17. LinksOK'
    <2>1. Len(free_ext') \in 0..N
      <3>1. L \in 0..N
        BY <1>5
      <3> HIDE DEF F, L, N
      <3> QED
        BY SMT, <1>3, <1>6, <1>16, <3>1
    <2>2. free_ext' = [m \in 1..Len(free_ext') |-> (FirstFree' + m) - 1]
      <3>1. PICK t : t = Tail(free_ext)
        OBVIOUS
      <3>2. t \in Seq(Nat) /\ Len(t) = L - 1
        BY SMT, <1>6, <1>8, <3>1
      <3>3. \A m \in 1..(L - 1) : t[m] = free_ext[m + 1]
        BY SMT, <1>6, <1>8, <3>1
      <3>4. t = [m \in 1..Len(t) |-> t[m]]
        BY SMT, <3>2
      <3> HIDE DEF F, L
      <3>5. \A m \in 1..(L - 1) : free_ext[m + 1] = ((F + 1) + m) - 1
        BY SMT, <1>5, <1>7
      <3>6. t = [m \in 1..Len(t) |-> (FirstFree' + m) - 1]
        BY <1>16, <3>2, <3>3, <3>4, <3>5
      <3> QED
        BY <1>2, <3>1, <3>6
    <2>3. ASSUME NEW c \in Buckets, next'[c] # NULL
          PROVE  next'[c] \in ExtBuckets /\ c < next'[c] /\ next'[c] < FirstFree'
      <3>1. CASE c = last
        <4>1. d < F + 1
          BY SMT, <1>7, <1>8
        <4> QED
          BY <1>8, <1>12, <1>13, <1>14, <1>16, <3>1, <4>1
      <3>2. CASE c # last
        <4>1. next'[c] = next[c] /\ next[c] # NULL
          BY <1>14, <2>3, <3>2
        <4>2. next[c] \in ExtBuckets /\ c < next[c] /\ next[c] < F
          BY <1>3, <4>1 DEF LinksOK
        <4>3. next[c] \in Nat
          BY <1>3, <4>2, Shapes
        <4>4. next[c] < F + 1
          BY SMT, <1>7, <4>2, <4>3
        <4> QED
          BY <1>16, <4>1, <4>2, <4>4
      <3> QED
        BY <3>1, <3>2
    <2> QED
      BY <1>14, <2>1, <2>2, <2>3, HashKept, <1>3 DEF LinksOK
  <1>18. F <= FirstFree' /\ d < FirstFree'
    BY SMT, <1>7, <1>8, <1>16
  <1>19. d \in Homes(k)'
    <2>1. Walk(a)'[n] = last
      BY <1>3, <1>9, <1>15, ChainKept
    <2>2. (n + 1) - 1 = n /\ n + 1 # 0
      BY SMT, <1>3
    <2>3. PICK m \in 0..N : m = n + 1 /\ m # 0 /\ m - 1 = n
      BY <1>9, <2>2
    <2>4. Walk(a)'[m] = d
      <3>1. m # 0 /\ Walk(a)'[m - 1] # NULL => Walk(a)'[m] = next'[Walk(a)'[m - 1]]
        BY <1>3, <1>15, ChainKept
      <3> QED
        BY <1>10, <1>14, <2>1, <2>3, <3>1
    <2>5. d # NULL
      BY <1>3, <1>13, Shapes
    <2>6. d \in Chain(a)'
      BY <1>3, <1>15, <2>4, <2>5, ChainKept
    <2>7. Chain(Sec(k))' = Chain(a)'
      <3>1. Sec(k)' = a
        BY <1>3, <1>4, HashKept
      <3>2. /\ Chain(Sec(k))' = ChainOf(next', h'.num_buckets, Sec(k)')
            /\ Chain(a)' = ChainOf(next', h'.num_buckets, a)
        BY DEF Chain, Walk, ChainOf, WalkOf, Walks
      <3> QED
        BY <3>1, <3>2
    <2> QED
      BY <2>6, <2>7 DEF Homes
  <1> QED
    BY <1>8, <1>13, <1>15, <1>17, <1>18, <1>19

\* No room in the chain and no bucket left: the call fails and keeps its slot.
Lost(w) ==
  /\ Turn(w) /\ pc[w] = "ext" /\ pc'[w] = "done" /\ loc'[w].slot = EMPTY_SLOT
  /\ UNCHANGED <<table, freeSlots>>
  /\ free_ext = << >> /\ \A b \in Chain(Sec(loc[w].key)) : EmptyAt(b) = {}

LEMMA ExtendStep ==
  ASSUME TableInv, NEW w \in Writers, h' = h, Extend(w)
  PROVE  Plain(w) \/ Lost(w) \/ \E k, b, i : Puts(w, k, b, i)
  <1>1. pc[w] = "ext" /\ MayLock /\ UNCHANGED freeSlots
    BY DEF Extend
  <1>2. PICK k : k = loc[w].key
    OBVIOUS
  <1>3. k \in h.keys
    BY <1>1, <1>2 DEF TableInv, WriterOK
  <1>4. PICK a \in MainBuckets : a = Sec(k)
    BY <1>3, Shapes DEF TableInv
  <1> DEFINE N == h.num_buckets
             at == Walk(a)
             room == {n \in 0..N : at[n] # NULL /\ EmptyAt(at[n]) # {}}
  <1>5. \/ \E ret : GiveBack(w, ret) /\ lock' = w /\ UNCHANGED table
        \/ /\ room # {}
           /\ PutEntry(at[First(room)], First(EmptyAt(at[First(room)])), k, loc[w].slot)
           /\ ReturnSlot(w) /\ UNCHANGED <<next, free_ext, lock>>
        \/ /\ room = {} /\ free_ext # << >> /\ PutEntry(Head(free_ext), 1, k, loc[w].slot)
           /\ next' = [next EXCEPT ![rte_hash_get_last_bkt(Sec(k))] = Head(free_ext)]
           /\ free_ext' = Tail(free_ext) /\ ReturnSlot(w) /\ UNCHANGED lock
        \/ /\ room = {} /\ free_ext = << >> /\ ReturnRet(w, ENOSPC) /\ UNCHANGED <<table, lock>>
    BY <1>2, <1>4 DEF Extend
  <1> HIDE DEF room, at
  <1>6. ASSUME \E ret : GiveBack(w, ret) /\ lock' = w /\ UNCHANGED table PROVE Plain(w)
    BY <1>1, <1>6, GivesBackPlain DEF Within
  <1>7. ASSUME room # {},
               PutEntry(at[First(room)], First(EmptyAt(at[First(room)])), k, loc[w].slot),
               ReturnSlot(w), UNCHANGED <<next, free_ext, lock>>
        PROVE  \E b, i : Puts(w, k, b, i)
    <2>1. PICK n : n = First(room)
      OBVIOUS
    <2>2. n \in room
      <3>1. room \subseteq Nat
        BY SMT DEF room
      <3> QED
        BY <1>7, <2>1, <3>1, FirstIs
    <2>3. PICK b : b = at[n]
      OBVIOUS
    <2>4. n \in 0..N /\ b # NULL /\ EmptyAt(b) # {}
      BY <2>2, <2>3 DEF room
    <2>5. b \in Buckets /\ (n # 0 => b < FirstFree)
      BY <2>3, <2>4, WalkAscends DEF TableInv, at
    <2>6. b < FirstFree
      <3>1. n = 0 => b = a
        BY <2>3, WalkFrom DEF TableInv, HashOK, at
      <3> QED
        BY <2>5, <3>1, FirstFreeIs DEF TableInv
    <2>7. b \in Homes(k)'
      <3>1. b \in Chain(a)
        BY <2>3, <2>4 DEF Chain, at
      <3>2. Homes(k) \subseteq Homes(k)'
        BY <1>3, <1>7, HomesKept DEF TableInv
      <3> QED
        BY <1>4, <3>1, <3>2 DEF Homes
    <2>8. PICK i : i = First(EmptyAt(b))
      OBVIOUS
    <2>9. i \in EmptyAt(b)
      <3>1. EmptyAt(b) \subseteq Nat
        BY Shapes DEF EmptyAt, TableInv
      <3> QED
        BY <2>4, <2>8, <3>1, FirstIs
    <2>10. PutEntry(b, i, k, loc[w].slot)
      BY <1>7, <2>1, <2>3, <2>8
    <2>11. LinksOK' /\ FirstFree' = FirstFree /\ FirstFree <= FirstFree'
      BY <1>7, LinksSame
    <2>12. \A c \in Buckets : next[c] # NULL => next'[c] = next[c]
      BY <1>7
    <2> QED
      BY <1>1, <1>2, <1>7, <2>5, <2>6, <2>7, <2>9, <2>10, <2>11, <2>12, PutsEmpty
  <1>8. ASSUME free_ext # << >>, PutEntry(Head(free_ext), 1, k, loc[w].slot),
               next' = [next EXCEPT ![rte_hash_get_last_bkt(Sec(k))] = Head(free_ext)],
               free_ext' = Tail(free_ext), ReturnSlot(w), UNCHANGED lock
        PROVE  \E b, i : Puts(w, k, b, i)
    <2>1. PICK d : d = Head(free_ext)
      OBVIOUS
    <2>2. Links(k, d)
      BY <1>8, <2>1 DEF Links
    <2>3. PutEntry(d, 1, k, loc[w].slot)
      BY <1>8, <2>1
    <2>4. /\ d \in Buckets /\ LinksOK' /\ FirstFree <= FirstFree' /\ d < FirstFree'
          /\ d = FirstFree /\ d \in Homes(k)'
          /\ \A c \in Buckets : next[c] # NULL => next'[c] = next[c]
      BY <1>3, <2>2, LinkNew
    <2>5. 1 \in EmptyAt(d)
      <3>1. 1 \in Positions /\ d \in Nat
        BY <2>4, Shapes DEF TableInv
      <3>2. FirstFree <= d
        BY SMT, <2>4, <3>1
      <3> QED
        BY <2>4, <3>1, <3>2 DEF EmptyAt, TableInv, EntriesOK
    <2> QED
      BY <1>1, <1>2, <1>8, <2>3, <2>4, <2>5, PutsEmpty
  <1>9. ASSUME room = {}, free_ext = << >>, ReturnRet(w, ENOSPC), UNCHANGED <<table, lock>>
        PROVE  Lost(w)
    <2>1. hash_rw_writer_unlock(w)
      BY <1>1, <1>9, NotLocked DEF hash_rw_writer_unlock, Within
    <2>2. Turn(w) /\ pc'[w] = "done" /\ loc'[w].slot = EMPTY_SLOT
      BY <1>1, <1>9, <2>1, Returns
    <2>3. \A b \in Chain(a) : EmptyAt(b) = {}
      BY <1>9 DEF room, Chain, at
    <2> QED
      BY <1>1, <1>2, <1>4, <1>9, <2>2, <2>3 DEF Lost
  <1> QED
    BY <1>5, <1>6, <1>7, <1>8, <1>9

-----------------------------------------------------------------------------
(***************************************************************************)
(* A move, from the lock to the unlock.                                    *)
(***************************************************************************)

\* The lock is taken, and an empty entry becomes the hole.
Opens(w) ==
  /\ Turn(w) /\ pc[w] = "move_lock" /\ pc'[w] = "move" /\ loc'[w].slot = loc[w].slot
  /\ \A v \in Writers : v # w => pc[v] # "move"
  /\ \A b, i : AtHole(loc'[w], b, i) => key_idx[b][i] = EMPTY_SLOT
  /\ UNCHANGED <<table, freeSlots>>

LEMMA MoveLockStep ==
  ASSUME TableInv, NEW w \in Writers, h' = h, MoveLock(w)
  PROVE  Plain(w) \/ Opens(w)
  <1>1. pc[w] = "move_lock" /\ MayLock /\ UNCHANGED <<table, freeSlots>>
    BY DEF MoveLock
  <1>2. PICK l : l = loc[w]
    OBVIOUS
  <1>3. PICK m : m = [l EXCEPT !.node = l.at, !.cslot = l.i]
    OBVIOUS
  <1>4. \/ pc' = [pc EXCEPT ![w] = "expand"] /\ UNCHANGED <<loc, lock>>
        \/ \E ret : GiveBack(w, ret) /\ UNCHANGED lock
        \/ /\ key_idx[l.queue[l.at].b][l.i] = EMPTY_SLOT /\ lock' = w
           /\ loc' = [loc EXCEPT ![w] = m] /\ pc' = [pc EXCEPT ![w] = "move"]
    BY <1>2, <1>3 DEF MoveLock, Goto
  <1>5. ASSUME pc' = [pc EXCEPT ![w] = "expand"], UNCHANGED <<loc, lock>> PROVE Plain(w)
    BY <1>1, <1>5, StaysPlain DEF Searching
  <1>6. ASSUME \E ret : GiveBack(w, ret) /\ UNCHANGED lock PROVE Plain(w)
    BY <1>1, <1>6, GivesBackPlain DEF Within
  <1>7. ASSUME key_idx[l.queue[l.at].b][l.i] = EMPTY_SLOT, lock' = w,
               loc' = [loc EXCEPT ![w] = m], pc' = [pc EXCEPT ![w] = "move"]
        PROVE  Opens(w)
    <2>1. IsLoc(l) /\ l.key \in h.keys /\ PathOK(l)
      BY <1>1, <1>2 DEF TableInv, WriterOK, Searching
    <2>2. /\ IsLoc(m) /\ m.key = l.key /\ m.slot = l.slot /\ m.queue = l.queue /\ m.at = l.at
          /\ m.i = l.i /\ m.node = l.at /\ m.cslot = l.i
      BY <1>3, <2>1 DEF IsLoc, Locals
    <2>3. PathOK(m)
      BY <2>1, <2>2 DEF PathOK
    <2>4. m.node \in 1..Len(m.queue) /\ m.cslot \in Positions
      BY <2>1, <2>2 DEF PathOK
    <2>5. Turn(w) /\ pc'[w] = "move" /\ loc'[w] = m
      BY ZenonT(30), <1>1, <1>7, <2>1, <2>2, <2>3, <2>4, Becomes DEF Within
    <2>6. \A v \in Writers : v # w => pc[v] # "move"
      BY <1>1, Alone
    <2>7. \A b, i : AtHole(m, b, i) => key_idx[b][i] = EMPTY_SLOT
      BY <1>7, <2>2 DEF AtHole
    <2> QED
      BY <1>1, <1>2, <2>2, <2>5, <2>6, <2>7 DEF Opens
  <1> QED
    BY <1>4, <1>5, <1>6, <1>7

LEMMA OpensStep ==
  ASSUME TableInv, NEW w \in Writers, Opens(w)
  PROVE  TableInv'
  <1>1. h' = h /\ UNCHANGED <<sig_current, key_idx, next, free_ext, stored>>
    BY DEF Turn, table, Opens
  <1>2. HashOK' /\ LockOK' /\ \A v \in Writers : WriterOK(v)'
    BY <1>1, HashKept, TurnKeeps DEF TableInv, Opens, Called
  <1>3. LinksOK' /\ EntriesOK'
    BY <1>1, HashKept DEF TableInv, LinksOK, EntriesOK, FirstFree
  <1>4. \A b, i : Hole(b, i)' => key_idx[b][i] = EMPTY_SLOT
    BY HoleAfter DEF Opens
  <1>5. StoredInv'
    BY <1>1, <1>4, StoredKept
  <1> QED
    BY <1>2, <1>3, <1>5 DEF TableInv

\* Where a move is on its path.
LEMMA Moving ==
  ASSUME TableInv, NEW w \in Writers, pc[w] = "move", NEW l, l = loc[w], NEW cur, cur = l.queue[l.node]
  PROVE  /\ IsLoc(l) /\ l.key \in h.keys /\ PathOK(l) /\ lock = w
         /\ cur.b \in MainBuckets /\ l.cslot \in Positions
         /\ cur.prev = 0 => cur.b \in {l.key.prim, Sec(l.key)}
         /\ cur.prev # 0 => /\ cur.prev \in 1..Len(l.queue) /\ cur.pslot \in Positions
                            /\ l.queue[cur.prev].b \in MainBuckets
  <1>1. /\ IsLoc(l) /\ l.key \in h.keys /\ PathOK(l) /\ lock = w
        /\ l.node \in 1..Len(l.queue) /\ l.cslot \in Positions
    BY DEF TableInv, WriterOK, Searching
  <1>2. l.queue \in Seq(Node) /\ NodeOK(l.key, l.node, cur)
    BY <1>1 DEF PathOK
  <1>3. \A n \in 1..Len(l.queue) : l.queue[n] \in Node
    BY SMT, <1>2
  <1>4. \A x \in Node : x.b \in MainBuckets /\ x.prev \in Nat
    BY SMT DEF Node
  <1>5. cur.b \in MainBuckets /\ cur.prev \in Nat
    BY <1>1, <1>3, <1>4
  <1>6. cur.prev # 0 => cur.prev \in 1..Len(l.queue)
    <2>1. cur.prev < l.node /\ Len(l.queue) \in Nat
      <3>1. Len(l.queue) \in Nat
        BY SMT, <1>2
      <3> QED
        BY <1>2, <3>1 DEF NodeOK
    <2> QED
      BY SMT, <1>1, <1>5, <2>1
  <1>7. cur.prev # 0 => cur.pslot \in Positions
    BY <1>2 DEF NodeOK
  <1>8. cur.prev = 0 => cur.b \in {l.key.prim, Sec(l.key)}
    BY <1>2 DEF NodeOK
  <1>9. cur.prev # 0 => l.queue[cur.prev].b \in MainBuckets
    BY <1>3, <1>4, <1>6
  <1> QED
    BY <1>1, <1>5, <1>6, <1>7, <1>8, <1>9

\* The entry <<c, j>> is moved down into the hole <<b, i>>, and is the next hole.
Shifts(w, b, i, c, j) ==
  /\ Turn(w) /\ pc[w] = "move" /\ pc'[w] = "move" /\ loc'[w].slot = loc[w].slot
  /\ AtHole(loc[w], b, i) /\ AtHole(loc'[w], c, j)
  /\ b \in MainBuckets /\ i \in Positions /\ c \in MainBuckets /\ j \in Positions
  /\ AltBucket(c, sig_current[c][j]) = b
  /\ sig_current' = With(sig_current, b, i, sig_current[c][j])
  /\ key_idx' = With(key_idx, b, i, key_idx[c][j])
  /\ UNCHANGED <<next, free_ext, stored, freeSlots>>

\* The path is stale: the hole is emptied and the search goes on.
Closes(w, b, i) ==
  /\ Turn(w) /\ pc[w] = "move" /\ pc'[w] = "expand" /\ loc'[w].slot = loc[w].slot
  /\ AtHole(loc[w], b, i) /\ b \in MainBuckets /\ i \in Positions
  /\ key_idx' = With(key_idx, b, i, EMPTY_SLOT)
  /\ UNCHANGED <<sig_current, next, free_ext, stored, freeSlots>>

LEMMA MoveStep ==
  ASSUME TableInv, NEW w \in Writers, h' = h, Move(w)
  PROVE  (\E b, i, c, j : Shifts(w, b, i, c, j)) \/ \E b, i : Closes(w, b, i)
  <1>1. PICK l : l = loc[w]
    OBVIOUS
  <1>2. PICK cur : cur = l.queue[l.node]
    OBVIOUS
  <1>3. PICK b, i, c, j : b = cur.b /\ i = l.cslot /\ c = l.queue[cur.prev].b /\ j = cur.pslot
    OBVIOUS
  <1>4. pc[w] = "move" /\ cur.prev # 0 /\ UNCHANGED <<next, free_ext, stored, freeSlots>>
    BY <1>1, <1>2 DEF Move
  <1>5. /\ IsLoc(l) /\ l.key \in h.keys /\ PathOK(l) /\ lock = w
        /\ b \in MainBuckets /\ i \in Positions /\ c \in MainBuckets /\ j \in Positions
        /\ cur.prev \in 1..Len(l.queue)
    BY <1>1, <1>2, <1>3, <1>4, Moving
  <1>6. AtHole(loc[w], b, i)
    BY <1>1, <1>2, <1>3 DEF AtHole
  <1>7. \/ /\ AltBucket(c, sig_current[c][j]) = b
           /\ sig_current' = With(sig_current, b, i, sig_current[c][j])
           /\ key_idx' = With(key_idx, b, i, key_idx[c][j])
           /\ loc' = [loc EXCEPT ![w] = [l EXCEPT !.node = cur.prev, !.cslot = j]]
           /\ UNCHANGED <<pc, lock>>
        \/ /\ key_idx' = With(key_idx, b, i, EMPTY_SLOT)
           /\ hash_rw_writer_unlock(w) /\ pc' = [pc EXCEPT ![w] = "expand"]
           /\ loc' = [loc EXCEPT ![w] = [l EXCEPT !.node = 0, !.cslot = 0]]
           /\ UNCHANGED sig_current
    BY ZenonT(30), <1>1, <1>2, <1>3 DEF Move, Goto, With
  <1>8. ASSUME AltBucket(c, sig_current[c][j]) = b,
               sig_current' = With(sig_current, b, i, sig_current[c][j]),
               key_idx' = With(key_idx, b, i, key_idx[c][j]),
               loc' = [loc EXCEPT ![w] = [l EXCEPT !.node = cur.prev, !.cslot = j]],
               UNCHANGED <<pc, lock>>
        PROVE  Shifts(w, b, i, c, j)
    <2>1. PICK m : m = [l EXCEPT !.node = cur.prev, !.cslot = j]
      OBVIOUS
    <2>2. /\ IsLoc(m) /\ m.key = l.key /\ m.slot = l.slot /\ m.queue = l.queue /\ m.at = l.at
          /\ m.i = l.i /\ m.node = cur.prev /\ m.cslot = j
      BY <1>5, <2>1 DEF IsLoc, Locals
    <2>3. PathOK(m) /\ m.node \in 1..Len(m.queue)
      BY <1>5, <2>2 DEF PathOK
    <2>4. pc' = [pc EXCEPT ![w] = "move"]
      BY <1>4, <1>8 DEF TableInv, LockOK
    <2>5. Turn(w) /\ pc'[w] = "move" /\ loc'[w] = m
      <3>1. loc' = [loc EXCEPT ![w] = m] /\ lock' = w /\ m.cslot \in Positions
        BY <1>5, <1>8, <2>1, <2>2
      <3>2. m.key \in h.keys /\ lock' = lock /\ "move" \in Within /\ IsLoc(m)
        BY <1>5, <2>2, <3>1 DEF Within
      <3> QED
        BY <2>3, <2>4, <3>1, <3>2, Becomes
    <2>6. AtHole(loc'[w], c, j)
      BY <1>3, <2>2, <2>5 DEF AtHole
    <2> QED
      BY <1>1, <1>4, <1>5, <1>6, <1>8, <2>2, <2>5, <2>6 DEF Shifts
  <1>9. ASSUME key_idx' = With(key_idx, b, i, EMPTY_SLOT), hash_rw_writer_unlock(w),
               pc' = [pc EXCEPT ![w] = "expand"],
               loc' = [loc EXCEPT ![w] = [l EXCEPT !.node = 0, !.cslot = 0]],
               UNCHANGED sig_current
        PROVE  Closes(w, b, i)
    <2>1. PICK m : m = [l EXCEPT !.node = 0, !.cslot = 0]
      OBVIOUS
    <2>2. /\ IsLoc(m) /\ m.key = l.key /\ m.slot = l.slot /\ m.queue = l.queue /\ m.at = l.at
          /\ m.i = l.i
      BY <1>5, <2>1 DEF IsLoc, Locals
    <2>3. PathOK(m)
      BY <1>5, <2>2 DEF PathOK
    <2>4. lock = w /\ lock' = None
      BY <1>5, <1>9 DEF hash_rw_writer_unlock
    <2>5. Turn(w) /\ pc'[w] = "expand" /\ loc'[w] = m
      <3>1. loc' = [loc EXCEPT ![w] = m]
        BY <1>9, <2>1
      <3>2. m.key \in h.keys /\ IsLoc(m) /\ pc' = [pc EXCEPT ![w] = "expand"]
        BY <1>5, <1>9, <2>2
      <3> QED
        BY <2>3, <2>4, <3>1, <3>2, Becomes
    <2> QED
      BY <1>1, <1>4, <1>5, <1>6, <1>9, <2>2, <2>5 DEF Closes
  <1> QED
    BY <1>7, <1>8, <1>9

LEMMA MovePutStep ==
  ASSUME TableInv, NEW w \in Writers, h' = h, MovePut(w)
  PROVE  \E k, b, i : Puts(w, k, b, i)
  <1>1. PICK l : l = loc[w]
    OBVIOUS
  <1>2. PICK cur : cur = l.queue[l.node]
    OBVIOUS
  <1>3. PICK k, b, i : k = l.key /\ b = cur.b /\ i = l.cslot
    OBVIOUS
  <1>4. /\ pc[w] = "move" /\ cur.prev = 0 /\ UNCHANGED <<next, free_ext, freeSlots>>
        /\ PutEntry(b, i, k, loc[w].slot) /\ hash_rw_writer_unlock(w)
        /\ \E ret : ReturnRet(w, ret)
    BY <1>1, <1>2, <1>3 DEF MovePut, ReturnSlot
  <1>5. k \in h.keys /\ b \in MainBuckets /\ i \in Positions /\ b \in {k.prim, Sec(k)}
    BY <1>1, <1>2, <1>3, <1>4, Moving
  <1>6. Turn(w) /\ pc'[w] = "done" /\ loc'[w].slot = EMPTY_SLOT
    BY <1>4, Returns
  <1>7. \A c, j : Hole(c, j) <=> c = b /\ j = i
    BY <1>1, <1>2, <1>3, <1>4, MoversHole DEF AtHole
  <1>8. \A v \in Writers : v # w => pc[v] # "move"
    BY <1>4 DEF TableInv, WriterOK
  <1>9. LinksOK' /\ FirstFree <= FirstFree' /\ b < FirstFree' /\ b \in Buckets
    BY <1>4, <1>5, LinksSame, FirstFreeIs, Shapes DEF TableInv
  <1>10. b \in Homes(k)'
    <2>1. Homes(k) \subseteq Homes(k)'
      BY <1>4, <1>5, HomesKept DEF TableInv
    <2>2. Sec(k) \in Chain(Sec(k))
      <3>1. PICK a \in MainBuckets : a = Sec(k)
        BY <1>5, Shapes DEF TableInv
      <3> QED
        BY <3>1, ChainIs DEF TableInv
    <2> QED
      BY <1>5, <2>1, <2>2 DEF Homes
  <1> QED
    BY <1>1, <1>3, <1>4, <1>5, <1>6, <1>7, <1>8, <1>9, <1>10 DEF Puts

LEMMA MoverHoles ==
  ASSUME TableInv, NEW w \in Writers, pc[w] = "move", NEW b, NEW i, AtHole(loc[w], b, i), Turn(w)
  PROVE  /\ \A x, y : Hole(x, y) <=> x = b /\ y = i
         /\ \A x, y : Hole(x, y)' <=> pc'[w] = "move" /\ AtHole(loc'[w], x, y)
  <1>1. \A v \in Writers : v # w => pc[v] # "move"
    BY DEF TableInv, WriterOK
  <1>2. \A x, y : Hole(x, y) <=> AtHole(loc[w], x, y)
    BY MoversHole
  <1>3. \A x, y : AtHole(loc[w], x, y) <=> x = b /\ y = i
    BY DEF AtHole
  <1> QED
    BY <1>1, <1>2, <1>3, HoleAfter

\* A bucket of the table is the other bucket of the keys that are in the one it
\* is paired with: a move keeps a key where it is looked for.
LEMMA OtherHome ==
  ASSUME TableInv, NEW k \in h.keys, NEW c \in MainBuckets, c \in Homes(k)
  PROVE  AltBucket(c, k.sig) \in Homes(k)
  <1>1. PICK a \in MainBuckets : a = Sec(k)
    BY Shapes DEF TableInv
  <1>2. c \in Chain(a) => c = a
    <2> SUFFICES ASSUME NEW n \in 0..h.num_buckets, c = Walk(a)[n], c # NULL PROVE c = a
      BY DEF Chain
    <2>1. n # 0 => (h.num_buckets + n) - 1 <= c
      BY WalkAscends DEF TableInv
    <2>2. c \in 0..(h.num_buckets - 1) /\ h.num_buckets \in Nat
      BY DEF MainBuckets, TableInv, HashOK
    <2>3. n = 0
      BY SMT, <2>1, <2>2
    <2> QED
      BY <2>2, <2>3, WalkFrom
  <1>3. c = k.prim \/ c = Sec(k)
    BY <1>1, <1>2 DEF Homes
  <1>4. a \in Chain(a)
    BY ChainIs DEF TableInv
  <1>5. AltBucket(k.prim, k.sig) = Sec(k)
    BY DEF Sec
  <1>6. AltBucket(Sec(k), k.sig) = k.prim
    <2>1. k.prim \in MainBuckets /\ k.sig \in Sigs
      BY Shapes DEF TableInv
    <2> QED
      BY <2>1 DEF TableInv, HashOK, Sec
  <1> QED
    BY <1>1, <1>3, <1>4, <1>5, <1>6 DEF Homes

LEMMA ShiftsStep ==
  ASSUME TableInv, NEW w \in Writers, NEW b, NEW i, NEW c, NEW j, Shifts(w, b, i, c, j)
  PROVE  TableInv'
  <1>1. /\ b \in MainBuckets /\ i \in Positions /\ c \in MainBuckets /\ j \in Positions
        /\ b \in Buckets /\ c \in Buckets /\ UNCHANGED <<next, free_ext, stored>> /\ h' = h
        /\ pc[w] = "move" /\ pc'[w] = "move" /\ Turn(w)
    BY Shapes DEF Shifts, Turn, TableInv
  <1>2. HashOK' /\ LockOK' /\ (\A v \in Writers : WriterOK(v)') /\ LinksOK'
    BY <1>1, HashKept, TurnKeeps, LinksSame DEF TableInv, Called
  <1>3. \A x, y : (Hole(x, y) <=> x = b /\ y = i) /\ (Hole(x, y)' <=> x = c /\ y = j)
    <2>1. AtHole(loc[w], b, i) /\ AtHole(loc'[w], c, j)
      BY DEF Shifts
    <2>2. \A x, y : AtHole(loc'[w], x, y) <=> x = c /\ y = j
      BY <2>1 DEF AtHole
    <2>3. /\ \A x, y : Hole(x, y) <=> x = b /\ y = i
          /\ \A x, y : Hole(x, y)' <=> pc'[w] = "move" /\ AtHole(loc'[w], x, y)
      BY <1>1, <2>1, MoverHoles
    <2> QED
      BY <1>1, <2>2, <2>3
  <1>4. Grid(sig_current, Buckets, Positions) /\ Grid(key_idx, Buckets, Positions)
    BY DEF EntriesOK, Grid, TableInv
  <1>5. /\ Grid(sig_current', Buckets, Positions) /\ sig_current'[b][i] = sig_current[c][j]
        /\ \A x \in Buckets, y \in Positions :
             x # b \/ y # i => sig_current'[x][y] = sig_current[x][y]
    <2>1. sig_current' = With(sig_current, b, i, sig_current[c][j])
      BY DEF Shifts
    <2> QED
      BY SMTT(20), <1>1, <1>4, <2>1, Cells
  <1>6. /\ Grid(key_idx', Buckets, Positions) /\ key_idx'[b][i] = key_idx[c][j]
        /\ \A x \in Buckets, y \in Positions : x # b \/ y # i => key_idx'[x][y] = key_idx[x][y]
    <2>1. key_idx' = With(key_idx, b, i, key_idx[c][j])
      BY DEF Shifts
    <2> QED
      BY SMTT(20), <1>1, <1>4, <2>1, Cells
  <1>7. Buckets' = Buckets /\ Positions' = Positions /\ Sigs' = Sigs
    BY <1>1, HashKept DEF TableInv
  <1>8. EntriesOK'
    <2>1. \A x \in Buckets, y \in Positions :
            sig_current[x][y] \in Sigs /\ (FirstFree <= x => key_idx[x][y] = EMPTY_SLOT)
      BY DEF TableInv, EntriesOK
    <2>2. ~(FirstFree <= b)
      <3>1. b < FirstFree /\ FirstFree \in Nat /\ b \in Nat
        BY <1>1, FirstFreeIs, Shapes DEF TableInv
      <3> QED
        BY SMT, <3>1
    <2>3. FirstFree' = FirstFree
      BY <1>1, LinksSame
    <2>4. ASSUME NEW x \in Buckets, NEW y \in Positions
          PROVE  sig_current'[x][y] \in Sigs /\ (FirstFree <= x => key_idx'[x][y] = EMPTY_SLOT)
      <3>1. CASE x = b /\ y = i
        BY <1>1, <1>5, <2>1, <2>2, <3>1
      <3>2. CASE x # b \/ y # i
        BY <1>5, <1>6, <2>1, <3>2
      <3> QED
        BY <3>1, <3>2
    <2> QED
      BY <1>5, <1>6, <1>7, <2>3, <2>4 DEF EntriesOK, Grid
  <1>9. StoredInv'
    <2> SUFFICES ASSUME NEW e \in stored
                 PROVE  /\ e[1] \in h.keys /\ e[2] # EMPTY_SLOT
                        /\ \E x \in Homes(e[1])', y \in Positions : EntryHas(x, y, e[1], e[2])'
      BY <1>1, <1>7 DEF StoredInv
    <2>1. PICK k, s : k = e[1] /\ s = e[2]
      OBVIOUS
    <2>2. k \in h.keys /\ s # EMPTY_SLOT
      BY <2>1 DEF TableInv, StoredInv
    <2>3. PICK x \in Homes(k), y \in Positions : EntryHas(x, y, k, s)
      BY <2>1 DEF TableInv, StoredInv
    <2>4. Homes(k) \subseteq Buckets /\ Homes(k) \subseteq Homes(k)'
      BY <1>1, <2>2, HomesKept DEF TableInv
    <2>5. CASE x = c /\ y = j
      <3>1. key_idx[c][j] = s /\ sig_current[c][j] = k.sig /\ ~Hole(c, j)
        BY <2>3, <2>5 DEF EntryHas
      <3>2. b \in Homes(k)
        BY <1>1, <2>2, <2>3, <2>5, <3>1, OtherHome DEF Shifts
      <3>3. EntryHas(b, i, k, s)'
        BY <1>3, <1>5, <1>6, <3>1 DEF EntryHas
      <3> QED
        BY <1>1, <2>1, <2>2, <2>4, <3>2, <3>3
    <2>6. CASE x # c \/ y # j
      <3>1. EntryHas(x, y, k, s)'
        BY <1>3, <1>5, <1>6, <2>3, <2>4, <2>6 DEF EntryHas
      <3> QED
        BY <2>1, <2>2, <2>3, <2>4, <3>1
    <2> QED
      BY <2>5, <2>6
  <1> QED
    BY <1>2, <1>8, <1>9 DEF TableInv

LEMMA ClosesStep ==
  ASSUME TableInv, NEW w \in Writers, NEW b, NEW i, Closes(w, b, i)
  PROVE  TableInv'
  <1>1. /\ i \in Positions /\ b \in Buckets /\ h' = h /\ Turn(w)
        /\ UNCHANGED <<sig_current, next, free_ext, stored>>
        /\ pc[w] = "move" /\ pc'[w] # "move"
    BY Shapes DEF Closes, Turn, TableInv
  <1>2. HashOK' /\ LockOK' /\ (\A v \in Writers : WriterOK(v)') /\ LinksOK'
    BY <1>1, HashKept, TurnKeeps, LinksSame DEF TableInv, Called
  <1>3. \A x, y : (Hole(x, y) <=> x = b /\ y = i) /\ ~Hole(x, y)'
    <2>1. AtHole(loc[w], b, i)
      BY DEF Closes
    <2>2. /\ \A x, y : Hole(x, y) <=> x = b /\ y = i
          /\ \A x, y : Hole(x, y)' <=> pc'[w] = "move" /\ AtHole(loc'[w], x, y)
      BY <1>1, <2>1, MoverHoles
    <2> QED
      BY <1>1, <2>2
  <1>4. /\ Grid(key_idx', Buckets, Positions) /\ key_idx'[b][i] = EMPTY_SLOT
        /\ \A x \in Buckets, y \in Positions : x # b \/ y # i => key_idx'[x][y] = key_idx[x][y]
    <2>1. key_idx' = With(key_idx, b, i, EMPTY_SLOT)
      BY DEF Closes
    <2>2. Grid(key_idx, Buckets, Positions)
      BY DEF EntriesOK, Grid, TableInv
    <2> QED
      BY SMTT(20), <1>1, <2>1, <2>2, Cells
  <1>5. EntriesOK'
    <2>1. Buckets' = Buckets /\ Positions' = Positions /\ Sigs' = Sigs /\ FirstFree' = FirstFree
      BY <1>1, HashKept, LinksSame DEF TableInv
    <2>2. /\ \A x \in Buckets, y \in Positions :
               sig_current[x][y] \in Sigs /\ (FirstFree <= x => key_idx[x][y] = EMPTY_SLOT)
          /\ Grid(sig_current, Buckets, Positions)
      BY DEF TableInv, EntriesOK, Grid
    <2>3. ASSUME NEW x \in Buckets, NEW y \in Positions, FirstFree <= x
          PROVE  key_idx'[x][y] = EMPTY_SLOT
      <3>1. CASE x = b /\ y = i
        BY <1>4, <3>1
      <3>2. CASE x # b \/ y # i
        <4>1. key_idx'[x][y] = key_idx[x][y]
          BY <1>4, <3>2
        <4>2. key_idx[x][y] = EMPTY_SLOT
          BY <2>2, <2>3
        <4> QED
          BY <4>1, <4>2
      <3> QED
        BY <3>1, <3>2
    <2> QED
      BY <1>1, <1>4, <2>1, <2>2, <2>3 DEF EntriesOK, Grid
  <1>6. StoredInv'
    <2>1. \A x \in Buckets, y \in Positions :
            ~Hole(x, y) /\ key_idx[x][y] # EMPTY_SLOT =>
              /\ ~Hole(x, y)' /\ key_idx'[x][y] = key_idx[x][y]
              /\ sig_current'[x][y] = sig_current[x][y]
      BY <1>1, <1>3, <1>4
    <2> QED
      BY <1>1, <2>1, StoredKept
  <1> QED
    BY <1>2, <1>5, <1>6 DEF TableInv

-----------------------------------------------------------------------------
(***************************************************************************)
(* The ring of free slots, the start of a call, and all steps.             *)
(***************************************************************************)

\* The call takes the slot at its position of the ring; it gives it back.
Takes(w) ==
  /\ Turn(w) /\ pc[w] = "alloc_take" /\ pc'[w] = "store_key" /\ UNCHANGED table
  /\ loc'[w].slot = slots[loc[w].pos + 1]
  /\ slots_head' = loc[w].pos + 1 /\ raced' = (raced \/ slots_head # loc[w].pos)
  /\ UNCHANGED <<slots, slots_tail>>

LEMMA AllocTakeStep == ASSUME TableInv, NEW w \in Writers, h' = h, AllocTake(w) PROVE Takes(w)
  <1>1. PICK l, x : l = loc[w] /\ x = slots[loc[w].pos + 1]
    OBVIOUS
  <1>2. PICK m : m = [l EXCEPT !.slot = x, !.pos = 0]
    OBVIOUS
  <1>3. /\ pc[w] = "alloc_take" /\ pc' = [pc EXCEPT ![w] = "store_key"]
        /\ loc' = [loc EXCEPT ![w] = m] /\ UNCHANGED <<table, lock, slots, slots_tail>>
        /\ slots_head' = loc[w].pos + 1 /\ raced' = (raced \/ slots_head # loc[w].pos)
    BY <1>1, <1>2 DEF AllocTake, Goto
  <1>4. IsLoc(l) /\ l.key \in h.keys /\ lock # w
    BY <1>1, <1>3, NotLocked DEF TableInv, WriterOK, Within
  <1>5. IsLoc(m) /\ m.key = l.key /\ m.slot = x
    BY <1>2, <1>4 DEF IsLoc, Locals
  <1>6. Turn(w) /\ pc'[w] = "store_key" /\ loc'[w] = m
    BY <1>3, <1>4, <1>5, Becomes DEF Searching
  <1> QED
    BY <1>1, <1>3, <1>5, <1>6 DEF Takes

Returned(w) ==
  /\ Turn(w) /\ pc[w] = "back_put" /\ pc'[w] = "done" /\ UNCHANGED table
  /\ loc'[w].slot = EMPTY_SLOT
  /\ slots' = [n \in 1..(IF loc[w].pos < Len(slots) THEN Len(slots) ELSE loc[w].pos + 1) |->
                 IF n = loc[w].pos + 1 THEN loc[w].slot ELSE slots[n]]
  /\ slots_tail' = loc[w].pos + 1 /\ raced' = (raced \/ slots_tail # loc[w].pos)
  /\ UNCHANGED slots_head

\* The ring of free slots is full, and the slot is dropped.
Drops(w) ==
  /\ Turn(w) /\ pc[w] = "back_load" /\ pc'[w] = "done" /\ loc'[w].slot = EMPTY_SLOT
  /\ UNCHANGED <<table, freeSlots>> /\ slots_tail - slots_head >= h.capacity

LEMMA BackLoadStep ==
  ASSUME TableInv, NEW w \in Writers, h' = h, BackLoad(w)
  PROVE  Plain(w) \/ Drops(w)
  <1>1. pc[w] = "back_load" /\ UNCHANGED <<table, freeSlots>>
    BY DEF BackLoad
  <1>2. PICK l : l = loc[w]
    OBVIOUS
  <1>3. PICK m : m = [l EXCEPT !.pos = slots_tail]
    OBVIOUS
  <1>4. IsLoc(l) /\ l.key \in h.keys
    BY <1>1, <1>2 DEF TableInv, WriterOK
  <1>5. IsLoc(m) /\ m.key = l.key /\ m.slot = l.slot
    BY <1>3, <1>4 DEF IsLoc, Locals
  <1>6. ASSUME pc' = [pc EXCEPT ![w] = "back_put"], loc' = [loc EXCEPT ![w] = m], lock' = lock
        PROVE  Plain(w)
    <2>1. Turn(w) /\ pc'[w] = "back_put" /\ loc'[w] = m
      BY <1>1, <1>4, <1>5, <1>6, Becomes DEF Searching, Within
    <2> QED
      BY <1>1, <1>2, <1>5, <2>1 DEF Plain, Called, NoSlot
  <1>7. ASSUME slots_tail - slots_head >= h.capacity, ReturnRet(w, loc[w].ret),
               hash_rw_writer_unlock(w)
        PROVE  Drops(w)
    <2>1. Turn(w) /\ pc'[w] = "done" /\ loc'[w].slot = EMPTY_SLOT
      BY <1>1, <1>7, Returns
    <2> QED
      BY <1>1, <1>7, <2>1 DEF Drops
  <1> QED
    BY <1>2, <1>3, <1>6, <1>7 DEF BackLoad, Goto

LEMMA BackPutStep == ASSUME TableInv, NEW w \in Writers, h' = h, BackPut(w) PROVE Returned(w)
  <1>1. /\ pc[w] = "back_put" /\ (\E ret : ReturnRet(w, ret)) /\ hash_rw_writer_unlock(w)
        /\ UNCHANGED <<table, slots_head>>
    BY DEF BackPut
  <1>2. Turn(w) /\ pc'[w] = "done" /\ loc'[w].slot = EMPTY_SLOT
    BY <1>1, Returns
  <1> QED
    BY <1>1, <1>2 DEF BackPut, Returned

LEMMA AddKeyPlain ==
  ASSUME TableInv, NEW w \in Writers, NEW k \in h.keys, rte_hash_add_key(w, k)
  PROVE  Plain(w)
  <1>1. PICK m : m = [Idle EXCEPT !.key = k]
    OBVIOUS
  <1>2. /\ pc[w] = "idle" /\ Cardinality({v \in Writers : pc[v] # "idle"}) < h.writers
        /\ UNCHANGED <<h, table, freeSlots, lock>>
        /\ pc' = [pc EXCEPT ![w] = "check"] /\ loc' = [loc EXCEPT ![w] = m]
    BY <1>1 DEF rte_hash_add_key, Goto
  <1>3. IsLoc(m) /\ m.key = k /\ m.slot = EMPTY_SLOT
    <2>1. IsLoc(Idle) /\ Idle.slot = EMPTY_SLOT
      BY SMT DEF IsLoc, Locals, Idle
    <2> QED
      BY <1>1, <2>1 DEF IsLoc, Locals
  <1>4. lock # w
    BY <1>2, NotLocked DEF Within
  <1>5. Turn(w) /\ pc'[w] = "check" /\ loc'[w] = m
    BY <1>2, <1>3, <1>4, Becomes DEF Searching
  <1>6. Called(w)
    <2> DEFINE S == {v \in Writers : pc[v] # "idle"}
    <2>1. IsFiniteSet(S) /\ Cardinality(S) \in Nat
      BY WritersAssumption, FS_Subset, FS_CardinalityType
    <2>2. h.writers \in Nat /\ (~h.writer_takes_lock => h.writers <= 1) /\ Cardinality(S) < h.writers
      BY <1>2 DEF TableInv, HashOK
    <2> HIDE DEF S
    <2>3. ~h.writer_takes_lock => Cardinality(S) = 0
      BY SMT, <2>1, <2>2
    <2>4. ~h.writer_takes_lock => S = {}
      BY <2>1, <2>3, FS_EmptySet
    <2> QED
      BY <1>2, <2>4 DEF Called, S
  <1> QED
    BY <1>2, <1>3, <1>5, <1>6, SlotOf DEF Plain, NoSlot

\* What a step does.
Effect(w) ==
  \/ Plain(w) \/ Takes(w) \/ Returned(w) \/ Drops(w) \/ Lost(w) \/ Opens(w)
  \/ \E k, b, i : Puts(w, k, b, i)
  \/ \E b, i, c, j : Shifts(w, b, i, c, j)
  \/ \E b, i : Closes(w, b, i)

LEMMA StepEffect == ASSUME TableInv, NEW w \in Writers, Step(w), h' = h PROVE Effect(w)
  <1>1. ASSUME Check(w) \/ AllocLoad(w) \/ StoreKey(w) \/ SearchEntry(w) PROVE Plain(w)
    BY <1>1, CheckPlain, AllocLoadPlain, StoreKeyPlain, SearchEntryPlain
  <1>2. ASSUME Expand(w) \/ SearchFails(w) \/ Done(w) PROVE Plain(w)
    BY <1>2, ExpandPlain, SearchFailsPlain, DonePlain
  <1>3. ASSUME AllocTake(w) PROVE Takes(w)
    BY <1>3, AllocTakeStep
  <1>4. ASSUME BackPut(w) PROVE Returned(w)
    BY <1>4, BackPutStep
  <1>5. ASSUME cuckoo_insert(w) PROVE Plain(w) \/ \E k, b, i : Puts(w, k, b, i)
    BY <1>5, InsertStep
  <1>6. ASSUME Extend(w) PROVE Plain(w) \/ Lost(w) \/ \E k, b, i : Puts(w, k, b, i)
    BY <1>6, ExtendStep
  <1>7. ASSUME MoveLock(w) PROVE Plain(w) \/ Opens(w)
    BY <1>7, MoveLockStep
  <1>8. ASSUME Move(w)
        PROVE  (\E b, i, c, j : Shifts(w, b, i, c, j)) \/ \E b, i : Closes(w, b, i)
    BY <1>8, MoveStep
  <1>9. ASSUME MovePut(w) PROVE \E k, b, i : Puts(w, k, b, i)
    BY <1>9, MovePutStep
  <1>10. ASSUME BackLoad(w) PROVE Plain(w) \/ Drops(w)
    BY <1>10, BackLoadStep
  <1> QED
    BY <1>1, <1>2, <1>3, <1>4, <1>5, <1>6, <1>7, <1>8, <1>9, <1>10 DEF Step, Effect

LEMMA NextEffect == ASSUME TableInv, Next PROVE \E w \in Writers : Effect(w)
  <1>1. PICK w \in Writers : \/ Step(w) /\ UNCHANGED <<h, adds>>
                             \/ \E k \in h.keys : rte_hash_add_key(w, k)
    BY DEF Next
  <1>2. ASSUME NEW k \in h.keys, rte_hash_add_key(w, k) PROVE Effect(w)
    BY <1>2, AddKeyPlain DEF Effect
  <1> QED
    BY <1>1, <1>2, StepEffect

LEMMA TableStep == ASSUME TableInv, [Next]_vars PROVE TableInv'
  <1>1. CASE Next
    <2>1. PICK w \in Writers : Effect(w)
      BY <1>1, NextEffect
    <2>2. ASSUME Plain(w) \/ Takes(w) \/ Returned(w) \/ Drops(w) \/ Lost(w) PROVE TableInv'
      BY <2>2, QuietStep DEF Plain, Takes, Returned, Drops, Lost, Called
    <2> QED
      BY <2>1, <2>2, OpensStep, PutStep, ShiftsStep, ClosesStep DEF Effect
  <1>2. CASE UNCHANGED vars
    <2>1. /\ h' = h /\ UNCHANGED <<sig_current, key_idx, next, free_ext, stored, pc, loc, lock>>
      BY <1>2 DEF vars
    <2>2. HashOK' /\ LockOK'
      BY <2>1, HashKept DEF TableInv, LockOK
    <2>3. LinksOK' /\ EntriesOK'
      BY <2>1, HashKept DEF TableInv, LinksOK, EntriesOK, FirstFree
    <2>4. ASSUME NEW w \in Writers PROVE WriterOK(w)'
      BY <2>1, HashKept DEF TableInv, WriterOK, PathOK, NodeOK, IsLoc
    <2>5. \A b, i : Hole(b, i)' <=> Hole(b, i)
      BY <2>1 DEF Hole
    <2>6. StoredInv'
      BY <2>1, <2>5, StoredKept
    <2> QED
      BY <2>2, <2>3, <2>4, <2>6 DEF TableInv
  <1> QED
    BY <1>1, <1>2

LEMMA InitHash == ASSUME Init PROVE HashOK
  <1>1. PICK p \in Tables : Valid(p) /\ h = Created(p)
    BY DEF Init
  <1>2. /\ h.bucket_entries = p.bucket_entries /\ h.slots = p.entries /\ h.keys = p.keys
        /\ h.writers = p.writers
        /\ h.writer_takes_lock = (p.extra_flag \cap {"MULTI_WRITER_ADD", "RW_CONCURRENCY"} # {})
    BY SMT, <1>1 DEF Created
  <1>3. /\ p.entries \in Nat /\ p.bucket_entries \in Nat \ {0} /\ p.writers \in Nat
        /\ p.writers > 1 => "MULTI_WRITER_ADD" \in p.extra_flag
        /\ \A k \in p.keys : k.prim \in Nat
    BY TablesAssumption
  <1>4. ~h.writer_takes_lock => h.writers <= 1
    <2>1. ~h.writer_takes_lock => "MULTI_WRITER_ADD" \notin p.extra_flag
      BY <1>2
    <2>2. ~(p.writers > 1) => p.writers <= 1
      BY SMT, <1>3
    <2> QED
      BY <1>2, <1>3, <2>1, <2>2
  <1> DEFINE n == h.num_buckets
  <1>5. /\ n \in Nat /\ \A k \in h.keys : k.prim < n
        /\ \A b \in 0..(n - 1), s \in Sigs : BitXor(b, s) \in Nat /\ BitXor(BitXor(b, s) % n, s) % n = b
    BY ZenonT(30), <1>1, <1>2, XorAssumption DEF Sigs
  <1>6. \A k \in h.keys : k.prim \in 0..(n - 1)
    <2> HIDE DEF n
    <2>1. \A x \in Nat : x < n => x \in 0..(n - 1)
      BY SMT, <1>5
    <2> QED
      BY <1>2, <1>3, <1>5, <2>1
  <1>7. ASSUME NEW b \in 0..(n - 1), NEW s \in Sigs
        PROVE  AltBucket(b, s) \in 0..(n - 1) /\ AltBucket(AltBucket(b, s), s) = b
    <2>1. BitXor(b, s) \in Nat /\ BitXor(BitXor(b, s) % n, s) % n = b
      BY <1>5
    <2>2. PICK x : x = BitXor(b, s)
      OBVIOUS
    <2>3. x % n \in 0..(n - 1)
      <3> HIDE DEF n
      <3>1. n \in Nat /\ n > 0 /\ x \in Nat
        BY SMTT(20), <1>5, <2>1, <2>2
      <3> QED
        BY SMT, <3>1
    <2> QED
      BY <2>1, <2>2, <2>3 DEF AltBucket
  <1> QED
    BY <1>2, <1>3, <1>4, <1>5, <1>6, <1>7 DEF HashOK, MainBuckets

LEMMA InitTable == ASSUME Init PROVE TableInv
  <1>1. HashOK
    BY InitHash
  <1>2. EntriesOK
    <2>1. /\ sig_current = [b \in Buckets |-> [i \in Positions |-> 0]]
          /\ key_idx = [b \in Buckets |-> [i \in Positions |-> EMPTY_SLOT]]
      BY DEF Init
    <2>2. \A b \in Buckets, i \in Positions :
            sig_current[b][i] = 0 /\ key_idx[b][i] = EMPTY_SLOT
      BY <2>1
    <2>3. 0 \in Sigs
      BY DEF Sigs
    <2> QED
      BY <2>1, <2>2, <2>3 DEF EntriesOK
  <1>3. LinksOK
    <2> DEFINE N == h.num_buckets
    <2>1. N \in Nat /\ next = [b \in Buckets |-> NULL]
      BY <1>1 DEF Init, HashOK
    <2>2. free_ext = [n \in 1..N |-> (N + n) - 1] \/ free_ext = << >>
      <3>1. free_ext = ExtRing
        BY DEF Init
      <3>2. CASE h.ext
        <4>1. \A n \in 1..N : N + (n - 1) = (N + n) - 1
          BY SMT, <2>1
        <4>2. free_ext = [n \in 1..N |-> N + (n - 1)]
          BY <3>1, <3>2 DEF ExtRing
        <4> QED
          BY <4>1, <4>2
      <3>3. CASE ~h.ext
        BY <3>1, <3>3 DEF ExtRing
      <3> QED
        BY <3>2, <3>3
    <2>3. Len(free_ext) \in 0..N /\ free_ext = [n \in 1..Len(free_ext) |-> (FirstFree + n) - 1]
      <3>1. CASE free_ext = [n \in 1..N |-> (N + n) - 1]
        <4>1. Len(free_ext) = N
          BY SMTT(20), <2>1, <3>1
        <4>2. FirstFree = N
          BY SMTT(20), <2>1, <4>1 DEF FirstFree
        <4>3. N \in 0..N
          BY SMT, <2>1
        <4> QED
          BY <3>1, <4>1, <4>2, <4>3
      <3>2. CASE free_ext = << >>
        <4>1. Len(free_ext) = 0 /\ 0 \in 0..N
          BY SMTT(20), <2>1, <3>2
        <4>2. << >> = [n \in 1..0 |-> (FirstFree + n) - 1]
          BY SMT
        <4> QED
          BY <3>2, <4>1, <4>2
      <3> QED
        BY <2>2, <3>1, <3>2
    <2>4. \A b \in Buckets : next[b] = NULL
      BY <2>1
    <2> QED
      BY <2>1, <2>3, <2>4 DEF LinksOK
  <1>4. /\ pc = [w \in Writers |-> "idle"] /\ loc = [w \in Writers |-> Idle]
        /\ lock = None /\ stored = {}
    BY DEF Init
  <1>5. IsLoc(Idle)
    BY SMT DEF IsLoc, Locals, Idle
  <1>6. LockOK /\ StoredInv
    BY <1>4 DEF LockOK, StoredInv
  <1>7. \A w \in Writers : WriterOK(w)
    BY <1>4, <1>5 DEF WriterOK, Searching
  <1> QED
    BY <1>1, <1>2, <1>3, <1>6, <1>7 DEF TableInv

\* The table stays sound, whatever the interleaving: the chains of extendable
\* buckets end and share no bucket taken later, the paths of the searches stay
\* within the table, at most one writer moves entries, and every key and slot
\* once stored is in an entry that counts.
THEOREM TableAlwaysSound == Spec => []TableInv
  <1>1. Init => TableInv
    BY InitTable
  <1>2. TableInv /\ [Next]_vars => TableInv'
    BY TableStep
  <1> QED
    BY <1>1, <1>2, PTL DEF Spec

\* What was inserted can be found: outside the critical sections every key and
\* slot once put into a bucket is, after any number of moves by any number of
\* writers, in an entry with its signature of its primary bucket or of its
\* secondary one with its chain (rte_hash_cuckoo_move_insert_mw).
THEOREM StoredAlwaysReachable == Spec => []StoredReachable
  <1>1. TableInv => StoredReachable
    <2> SUFFICES ASSUME TableInv, lock = None, NEW e \in stored
                 PROVE  \E b \in {e[1].prim} \cup Chain(Sec(e[1])), i \in Positions :
                          key_idx[b][i] = e[2] /\ sig_current[b][i] = e[1].sig
      BY DEF StoredReachable
    <2> QED
      BY DEF TableInv, StoredInv, Homes, EntryHas
  <1> QED
    BY <1>1, TableAlwaysSound, PTL

=============================================================================
