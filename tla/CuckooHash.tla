----------------------------- MODULE CuckooHash -----------------------------
(***************************************************************************)
(* rte_hash_add_key of rte_lib/rte_cuckoo_hash.c, called by several        *)
(* writers.  A table has a number of buckets of Entries entries, each a    *)
(* short signature and the index of a key slot, with slot 0 for "empty".   *)
(* A key belongs in its primary or its alternative bucket.  A writer looks *)
(* for the key, takes a key slot from the ring of free slots, and puts it  *)
(* into the primary bucket, or searches breadth first, without the lock,   *)
(* for a path of entries to shift, or chains an extendable bucket.         *)
(* Bucket contents change only under the writer lock (RteRwlock); the ring *)
(* of free slots is used with the single-thread calls, outside the lock.   *)
(***************************************************************************)
EXTENDS Integers, Sequences, FiniteSets

CONSTANTS BitXor(_, _),   \* the exclusive or of two numbers
          Writers,
          Tables   \* the tables to consider: entries, key_len and extra_flag,
                   \*   parameters of rte_hash_create; bucket_entries,
                   \*   RTE_HASH_BUCKET_ENTRIES; queue,
                   \*   RTE_HASH_BFS_QUEUE_MAX_LEN; keys, the keys that are
                   \*   added: records [id, prim, sig, head] with primary
                   \*   bucket, short signature and first 8 bytes; writers,
                   \*   how many of the writers call at once; adds, a bound
                   \*   on the calls

None == "none"

ASSUME WritersAssumption == IsFiniteSet(Writers) /\ None \notin Writers

\* Several writers need RTE_HASH_EXTRA_FLAGS_MULTI_WRITER_ADD (rte_hash.h).
ASSUME TablesAssumption ==
  \A t \in Tables :
    /\ t.entries \in Nat /\ t.bucket_entries \in Nat \ {0} /\ t.key_len \in Nat
    /\ t.queue \in Nat /\ t.writers \in Nat /\ t.adds \in Nat
    /\ t.writers > 1 => "MULTI_WRITER_ADD" \in t.extra_flag
    /\ \A k \in t.keys : k.prim \in Nat /\ k.sig \in Nat

EMPTY_SLOT == 0
ENOSPC == -28
NULL == -1
NoKey == [id |-> None, prim |-> 0, sig |-> 0, head |-> 0]

VARIABLES h,                    \* the fields of the table that never change
          sig_current, key_idx, \* per bucket and position
          next,                 \* per bucket: the chained bucket, or NULL
          key_store,            \* per slot: the key in it
          slots, slots_tail,    \* free_slots: what was put in, and prod.tail
          slots_head,           \* free_slots: cons.head
          free_ext,             \* free_ext_bkts, used under the lock only
          lock,                 \* the writer between writer lock and unlock
          pc, loc,              \* per writer: place in the call, locals
          stored,               \* history: <<key, slot>> put into a bucket
          adds,                 \* calls so far
          raced                 \* history: two calls on free_slots overlapped

vars == <<h, sig_current, key_idx, next, key_store, slots, slots_tail, slots_head,
          free_ext, lock, pc, loc, stored, adds, raced>>

table == <<sig_current, key_idx, next, free_ext, stored>>
freeSlots == <<slots, slots_tail, slots_head, raced>>

\* The first num_buckets are h->buckets, the others h->buckets_ext.
MainBuckets == 0..(h.num_buckets - 1)
ExtBuckets == h.num_buckets..(2 * h.num_buckets - 1)
Buckets == MainBuckets \cup ExtBuckets
Positions == 1..h.bucket_entries

\* key: the argument; slot: slot_id; ret: the value to return; pos: the ring
\* index loaded; queue, at, i: the search and its position; sec: searching
\* from the secondary bucket; bkt, node: the entry to fill next in a move.
Idle == [key |-> NoKey, slot |-> EMPTY_SLOT, ret |-> 0, pos |-> 0,
         queue |-> << >>, at |-> 0, i |-> 0, sec |-> FALSE,
         node |-> 0, cslot |-> 0]

\* __hash_rw_writer_lock: without writer_takes_lock there is no lock to wait for.
MayLock == h.writer_takes_lock => lock = None

\* __hash_rw_writer_unlock, by a writer that has locked; a way out that is also
\* taken by a writer that has not leaves the lock alone.
hash_rw_writer_unlock(w) == lock' = IF lock = w THEN None ELSE lock

Goto(w, place) == pc' = [pc EXCEPT ![w] = place]

-----------------------------------------------------------------------------
AltBucket(b, sig) == BitXor(b, sig) % h.num_buckets

Sec(k) == AltBucket(k.prim, k.sig)

\* FOR_EACH_BUCKET: a bucket and the buckets chained to it, in order, and then
\* NULL.
Walk(b) ==
  LET at[n \in 0..h.num_buckets] ==
        IF n = 0 THEN b ELSE IF at[n - 1] = NULL THEN NULL ELSE next[at[n - 1]]
  IN at

Chain(b) == {Walk(b)[n] : n \in 0..h.num_buckets} \ {NULL}

rte_hash_get_last_bkt(b) == CHOOSE c \in Chain(b) : next[c] = NULL

\* rte_hash_cmp_eq compares sizeof(key1) bytes, the size of a pointer.
SameKey(k, slot) ==
  key_store[slot] # NoKey /\ key_store[slot].head = k.head

First(S) == CHOOSE i \in S : \A j \in S : i <= j

\* search_and_update: the slot of the first entry with this signature and key.
\* An empty entry whose stale signature matches is looked up in slot 0, and if
\* it matches the search ends there: 0 - 1 is the code's "not found".
search_and_update(k, b) ==
  LET hits == {i \in Positions : sig_current[b][i] = k.sig
                                 /\ SameKey(k, key_idx[b][i])}
  IN IF hits = {} THEN EMPTY_SLOT ELSE key_idx[b][First(hits)]

\* One bucket, then another one with its chain; EMPTY_SLOT if not found.
Search(k, b1, b2) ==
  LET at == Walk(b2)
      hits == {n \in 0..h.num_buckets :
                 at[n] # NULL /\ search_and_update(k, at[n]) # EMPTY_SLOT}
  IN IF search_and_update(k, b1) # EMPTY_SLOT THEN search_and_update(k, b1)
     ELSE IF hits = {} THEN EMPTY_SLOT ELSE search_and_update(k, at[First(hits)])

EmptyAt(b) == {i \in Positions : key_idx[b][i] = EMPTY_SLOT}
\* Store signature and key index, and remember who put it there.
PutEntry(b, i, k, slot) ==
  /\ sig_current' = [sig_current EXCEPT ![b][i] = k.sig]
  /\ key_idx' = [key_idx EXCEPT ![b][i] = slot]
  /\ stored' = IF slot = EMPTY_SLOT THEN stored ELSE stored \cup {<<k, slot>>}

ReturnRet(w, ret) ==
  /\ loc' = [loc EXCEPT ![w] = [Idle EXCEPT !.key = loc[w].key, !.ret = ret]]
  /\ Goto(w, "done")

\* return slot_id - 1 as an int32_t.
ReturnSlot(w) == ReturnRet(w, loc[w].slot - 1)

\* enqueue_slot_back first, then return ret.
GiveBack(w, ret) ==
  /\ loc' = [loc EXCEPT ![w].ret = ret]
  /\ Goto(w, "back_load")

-----------------------------------------------------------------------------
rte_hash_add_key(w, k) ==
  /\ pc[w] = "idle" /\ adds < h.adds
  /\ Cardinality({v \in Writers : pc[v] # "idle"}) < h.writers
  /\ loc' = [loc EXCEPT ![w] = [Idle EXCEPT !.key = k]]
  /\ adds' = adds + 1 /\ UNCHANGED h
  /\ Goto(w, "check")
  /\ UNCHANGED <<table, key_store, freeSlots, lock>>

\* The first look, a critical section without changes: is the key there?
Check(w) ==
  LET k == loc[w].key
      s == Search(k, k.prim, Sec(k))
  IN /\ pc[w] = "check" /\ MayLock
     /\ IF s # EMPTY_SLOT THEN ReturnRet(w, s - 1)
        ELSE Goto(w, "alloc_load") /\ UNCHANGED loc
     /\ UNCHANGED <<table, key_store, freeSlots, lock>>

\* alloc_slot: rte_ring_sc_dequeue_elem, a load of the head and the tail and
\* then the store of the new head.  If the ring is empty the code reports it
\* and goes on with slot 0.
AllocLoad(w) ==
  /\ pc[w] = "alloc_load"
  /\ IF slots_head = slots_tail
     THEN loc' = [loc EXCEPT ![w].slot = EMPTY_SLOT] /\ Goto(w, "store_key")
     ELSE loc' = [loc EXCEPT ![w].pos = slots_head] /\ Goto(w, "alloc_take")
  /\ UNCHANGED <<table, key_store, freeSlots, lock>>

AllocTake(w) ==
  /\ pc[w] = "alloc_take"
  /\ slots_head' = loc[w].pos + 1
  /\ raced' = (raced \/ slots_head # loc[w].pos)
  /\ loc' = [loc EXCEPT ![w].slot = slots[loc[w].pos + 1], ![w].pos = 0]
  /\ Goto(w, "store_key")
  /\ UNCHANGED <<table, key_store, slots, slots_tail, lock>>

StoreKey(w) ==
  /\ pc[w] = "store_key"
  /\ key_store' = [key_store EXCEPT ![loc[w].slot] = loc[w].key]
  /\ Goto(w, "insert")
  /\ UNCHANGED <<table, freeSlots, lock, loc>>

StartSearch(w, b, sec) ==
  /\ loc' = [loc EXCEPT ![w].queue = <<[b |-> b, prev |-> 0, pslot |-> 0]>>,
                        ![w].at = 1, ![w].i = 1, ![w].sec = sec]
  /\ Goto(w, "search")

\* Mutant: the key is not looked for again under the lock.
cuckoo_insert_nocheck(w) ==
  LET k == loc[w].key
  IN /\ pc[w] = "insert" /\ MayLock
     /\ \/ /\ EmptyAt(k.prim) # {}
           /\ PutEntry(k.prim, First(EmptyAt(k.prim)), k, loc[w].slot)
           /\ ReturnSlot(w)
           /\ UNCHANGED <<next, free_ext>>
        \/ /\ EmptyAt(k.prim) = {}
           /\ StartSearch(w, k.prim, FALSE)
           /\ UNCHANGED table
     /\ UNCHANGED <<key_store, freeSlots, lock>>

\* rte_hash_cuckoo_insert_mw, one critical section: look again, then use an
\* empty entry of the primary bucket.
cuckoo_insert(w) ==
  LET k == loc[w].key
      s == Search(k, k.prim, Sec(k))
  IN /\ pc[w] = "insert" /\ MayLock
     /\ \/ s # EMPTY_SLOT /\ GiveBack(w, s - 1) /\ UNCHANGED table
        \/ /\ s = EMPTY_SLOT /\ EmptyAt(k.prim) # {}
           /\ PutEntry(k.prim, First(EmptyAt(k.prim)), k, loc[w].slot)
           /\ ReturnSlot(w)
           /\ UNCHANGED <<next, free_ext>>
        \/ /\ s = EMPTY_SLOT /\ EmptyAt(k.prim) = {}
           /\ StartSearch(w, k.prim, FALSE)
           /\ UNCHANGED table
     /\ UNCHANGED <<key_store, freeSlots, lock>>

-----------------------------------------------------------------------------
\* The queue of nodes is walked while it has room for another bucket's entries.
QueueHasRoom(l) ==
  l.at <= Len(l.queue) /\ Len(l.queue) < h.queue - h.bucket_entries

\* rte_hash_cuckoo_make_space_mw, without the lock: look at one entry.
SearchEntry(w) ==
  LET l == loc[w]
  IN /\ pc[w] = "search"
     /\ l.i > 1 \/ QueueHasRoom(l)
     /\ Goto(w, IF key_idx[l.queue[l.at].b][l.i] = EMPTY_SLOT
                THEN "move_lock" ELSE "expand")
     /\ UNCHANGED <<table, key_store, freeSlots, lock, loc>>

\* The entry is taken: append the bucket its key could move to.
Expand(w) ==
  LET l == loc[w]
      b == l.queue[l.at].b
      node == [b |-> AltBucket(b, sig_current[b][l.i]), prev |-> l.at,
               pslot |-> l.i]
  IN /\ pc[w] = "expand"
     /\ loc' = [loc EXCEPT ![w].queue = Append(@, node),
                           ![w].at = IF l.i = h.bucket_entries THEN @ + 1 ELSE @,
                           ![w].i = IF l.i = h.bucket_entries THEN 1 ELSE @ + 1]
     /\ Goto(w, "search")
     /\ UNCHANGED <<table, key_store, freeSlots, lock>>

\* -ENOSPC: search again from the secondary bucket, then give up or extend.
SearchFails(w) ==
  LET l == loc[w]
  IN /\ pc[w] = "search" /\ l.i = 1
     /\ ~QueueHasRoom(l)
     /\ \/ ~l.sec /\ StartSearch(w, Sec(l.key), TRUE)
        \/ l.sec /\ ~h.ext /\ GiveBack(w, ENOSPC)
        \/ l.sec /\ h.ext /\ Goto(w, "ext") /\ UNCHANGED loc
     /\ UNCHANGED <<table, key_store, freeSlots, lock>>

\* rte_hash_cuckoo_move_insert_mw takes the lock: has the empty entry gone,
\* has the key been inserted meanwhile?
MoveLock(w) ==
  LET l == loc[w]
      k == l.key
      s == IF l.sec THEN Search(k, Sec(k), k.prim) ELSE Search(k, k.prim, Sec(k))
      gone == key_idx[l.queue[l.at].b][l.i] # EMPTY_SLOT
  IN /\ pc[w] = "move_lock" /\ MayLock
     /\ \/ gone /\ Goto(w, "expand") /\ UNCHANGED <<loc, lock>>
        \/ ~gone /\ s # EMPTY_SLOT /\ GiveBack(w, s - 1) /\ UNCHANGED lock
        \/ /\ ~gone /\ s = EMPTY_SLOT
           /\ lock' = w
           /\ loc' = [loc EXCEPT ![w].node = l.at, ![w].cslot = l.i]
           /\ Goto(w, "move")
     /\ UNCHANGED <<table, key_store, freeSlots>>

\* Mutant: the path is followed as it was found.
MoveUnchecked(w) ==
  LET cur == loc[w].queue[loc[w].node]
      from == loc[w].queue[cur.prev].b
  IN /\ pc[w] = "move" /\ cur.prev # 0
     /\ sig_current' = [sig_current EXCEPT ![cur.b][loc[w].cslot] =
                                             sig_current[from][cur.pslot]]
     /\ key_idx' = [key_idx EXCEPT ![cur.b][loc[w].cslot] =
                                     key_idx[from][cur.pslot]]
     /\ loc' = [loc EXCEPT ![w].node = cur.prev, ![w].cslot = cur.pslot]
     /\ UNCHANGED <<pc, lock, next, free_ext, stored, key_store, freeSlots>>

\* One round of its loop, under the lock: move the parent's entry down, or, if
\* that entry no longer belongs there, empty the place and search on.
Move(w) ==
  LET cur == loc[w].queue[loc[w].node]
      from == loc[w].queue[cur.prev].b
      valid == AltBucket(from, sig_current[from][cur.pslot]) = cur.b
  IN /\ pc[w] = "move" /\ cur.prev # 0
     /\ \/ /\ valid
           /\ sig_current' = [sig_current EXCEPT ![cur.b][loc[w].cslot] =
                                                   sig_current[from][cur.pslot]]
           /\ key_idx' = [key_idx EXCEPT ![cur.b][loc[w].cslot] =
                                           key_idx[from][cur.pslot]]
           /\ loc' = [loc EXCEPT ![w].node = cur.prev, ![w].cslot = cur.pslot]
           /\ UNCHANGED <<pc, lock>>
        \/ /\ ~valid
           /\ key_idx' = [key_idx EXCEPT ![cur.b][loc[w].cslot] = EMPTY_SLOT]
           /\ hash_rw_writer_unlock(w) /\ Goto(w, "expand")
           /\ loc' = [loc EXCEPT ![w].node = 0, ![w].cslot = 0]
           /\ UNCHANGED sig_current
     /\ UNCHANGED <<next, free_ext, stored, key_store, freeSlots>>

\* The root of the path is free: put the new key there and unlock.
MovePut(w) ==
  LET cur == loc[w].queue[loc[w].node]
  IN /\ pc[w] = "move" /\ cur.prev = 0
     /\ PutEntry(cur.b, loc[w].cslot, loc[w].key, loc[w].slot)
     /\ hash_rw_writer_unlock(w)
     /\ ReturnSlot(w)
     /\ UNCHANGED <<next, free_ext, key_store, freeSlots>>

-----------------------------------------------------------------------------
\* The extendable part, under the lock: look again, use an empty entry of the
\* secondary bucket or its chain, or chain a new bucket.  If there is none left
\* the call fails and keeps its slot.
Extend(w) ==
  LET k == loc[w].key
      s == Search(k, k.prim, Sec(k))
      at == Walk(Sec(k))
      room == {n \in 0..h.num_buckets : at[n] # NULL /\ EmptyAt(at[n]) # {}}
      to == at[First(room)]
      last == rte_hash_get_last_bkt(Sec(k))
  IN /\ pc[w] = "ext" /\ MayLock
     /\ \/ /\ s # EMPTY_SLOT
           /\ GiveBack(w, s - 1) /\ lock' = w
           /\ UNCHANGED table
        \/ /\ s = EMPTY_SLOT /\ room # {}
           /\ PutEntry(to, First(EmptyAt(to)), k, loc[w].slot)
           /\ ReturnSlot(w)
           /\ UNCHANGED <<next, free_ext, lock>>
        \/ /\ s = EMPTY_SLOT /\ room = {} /\ free_ext # << >>
           /\ PutEntry(Head(free_ext), 1, k, loc[w].slot)
           /\ next' = [next EXCEPT ![last] = Head(free_ext)]
           /\ free_ext' = Tail(free_ext)
           /\ ReturnSlot(w)
           /\ UNCHANGED lock
        \/ /\ s = EMPTY_SLOT /\ room = {} /\ free_ext = << >>
           /\ ReturnRet(w, ENOSPC)
           /\ UNCHANGED <<table, lock>>
     /\ UNCHANGED <<key_store, freeSlots>>

\* enqueue_slot_back: rte_ring_sp_enqueue_elem, a load of the head and the other
\* side's tail, and then the element and the new tail.  If the ring is full the
\* error is dropped, and the slot with it.
BackLoad(w) ==
  /\ pc[w] = "back_load"
  /\ \/ /\ slots_tail - slots_head < h.capacity
        /\ loc' = [loc EXCEPT ![w].pos = slots_tail]
        /\ Goto(w, "back_put") /\ UNCHANGED lock
     \/ /\ slots_tail - slots_head >= h.capacity
        /\ ReturnRet(w, loc[w].ret) /\ hash_rw_writer_unlock(w)
  /\ UNCHANGED <<table, key_store, freeSlots>>

\* Mutant: the slot is not given back.
BackPutLost(w) ==
  /\ pc[w] = "back_put"
  /\ hash_rw_writer_unlock(w)
  /\ ReturnRet(w, loc[w].ret)
  /\ UNCHANGED <<table, key_store, freeSlots>>

BackPut(w) ==
  /\ pc[w] = "back_put"
  /\ slots' = [n \in 1..(IF loc[w].pos < Len(slots) THEN Len(slots)
                                                    ELSE loc[w].pos + 1) |->
                 IF n = loc[w].pos + 1 THEN loc[w].slot ELSE slots[n]]
  /\ slots_tail' = loc[w].pos + 1
  /\ raced' = (raced \/ slots_tail # loc[w].pos)
  /\ hash_rw_writer_unlock(w)
  /\ ReturnRet(w, loc[w].ret)
  /\ UNCHANGED <<table, key_store, slots_head>>

Done(w) ==
  /\ pc[w] = "done"
  /\ loc' = [loc EXCEPT ![w] = Idle]
  /\ Goto(w, "idle")
  /\ UNCHANGED <<table, key_store, freeSlots, lock>>

-----------------------------------------------------------------------------
\* RTE_HASH_EXTRA_FLAGS_MASK.
ExtraFlags == {"TRANS_MEM_SUPPORT", "MULTI_WRITER_ADD", "RW_CONCURRENCY", "EXT_TABLE",
               "NO_FREE_ON_DEL", "RW_CONCURRENCY_LF"}
ENTRIES_MAX == 2^30

\* The parameters that rte_hash_create does not refuse.  With the largest number
\* of entries the ring of free slots would be larger than a ring can be.
Valid(p) ==
  /\ p.entries \in p.bucket_entries..ENTRIES_MAX /\ p.key_len # 0
  /\ p.entries # ENTRIES_MAX
  /\ p.extra_flag \subseteq ExtraFlags
  /\ ~({"RW_CONCURRENCY", "RW_CONCURRENCY_LF"} \subseteq p.extra_flag)

\* rte_align32pow2.
PowerOf2(x) == LET n == CHOOSE k \in 0..30 : 2^k >= x /\ \A j \in 0..(k - 1) : 2^j < x
               IN 2^n

\* The fields of the table that rte_hash_create derives from its parameters;
\* slots is num_key_slots without the dummy entry, capacity that of the ring of
\* free slots.
Created(p) ==
  [num_buckets |-> PowerOf2(p.entries) \div p.bucket_entries,
   bucket_entries |-> p.bucket_entries,
   slots |-> p.entries, capacity |-> PowerOf2(p.entries + 1) - 1,
   ext |-> "EXT_TABLE" \in p.extra_flag,
   writer_takes_lock |-> p.extra_flag \cap {"MULTI_WRITER_ADD", "RW_CONCURRENCY"} # {},
   queue |-> p.queue, keys |-> p.keys, writers |-> p.writers, adds |-> p.adds]

\* Primary buckets and signatures are parts of a hash that fit the table, and
\* the exclusive or with a signature, twice, leads back to a bucket.
ASSUME XorAssumption ==
  \A t \in Tables : Valid(t) =>
    LET n == Created(t).num_buckets
    IN /\ n \in Nat /\ \A k \in t.keys : k.prim < n
       /\ \A b \in 0..(n - 1), s \in {0} \cup {k.sig : k \in t.keys} :
            BitXor(b, s) \in Nat /\ BitXor(BitXor(b, s) % n, s) % n = b

\* Mutant: one extra bucket less, i < num_buckets.
ExtRingOneLess == IF h.ext THEN [n \in 1..(h.num_buckets - 1) |-> h.num_buckets + n - 1]
                  ELSE << >>

ExtRing == IF h.ext THEN [n \in 1..h.num_buckets |-> h.num_buckets + n - 1]
           ELSE << >>

\* The empty table that rte_hash_create sets out to build.
Init ==
  /\ h \in {Created(p) : p \in {q \in Tables : Valid(q)}}
  /\ sig_current = [b \in Buckets |-> [i \in Positions |-> 0]]
  /\ key_idx = [b \in Buckets |-> [i \in Positions |-> EMPTY_SLOT]]
  /\ next = [b \in Buckets |-> NULL]
  /\ key_store = [n \in 0..h.slots |-> NoKey]
  /\ slots = [n \in 1..h.slots |-> n] /\ slots_tail = h.slots
  /\ slots_head = 0 /\ free_ext = ExtRing /\ lock = None
  /\ pc = [w \in Writers |-> "idle"] /\ loc = [w \in Writers |-> Idle]
  /\ stored = {} /\ adds = 0 /\ raced = FALSE

Step(w) ==
  \/ Check(w) \/ AllocLoad(w) \/ AllocTake(w) \/ StoreKey(w)
  \/ cuckoo_insert(w) \/ SearchEntry(w) \/ Expand(w) \/ SearchFails(w)
  \/ MoveLock(w) \/ Move(w) \/ MovePut(w) \/ Extend(w)
  \/ BackLoad(w) \/ BackPut(w) \/ Done(w)

Next ==
  \E w \in Writers :
    \/ Step(w) /\ UNCHANGED <<h, adds>>
    \/ \E k \in h.keys : rte_hash_add_key(w, k)

Spec == Init /\ [][Next]_vars

-----------------------------------------------------------------------------
Used == {p \in Buckets \X Positions : key_idx[p[1]][p[2]] # EMPTY_SLOT}
InRing == {slots[n] : n \in (slots_head + 1)..slots_tail}

\* While nobody is in a critical section every key slot is named by at most one
\* bucket entry: no move leaves an entry in two places and no slot is handed
\* out twice (alloc_slot, rte_hash_cuckoo_move_insert_mw).
SlotsUnique ==
  lock = None =>
    \A p, q \in Used : p # q => key_idx[p[1]][p[2]] # key_idx[q[1]][q[2]]

\* What was inserted can be found: outside the critical sections every key and
\* slot once put into a bucket is, after any number of moves by any writer, in
\* an entry with its signature of its primary bucket or of the secondary one
\* with its chain (the check of prev_alt_bkt_idx against a stale path).
StoredReachable ==
  lock = None =>
    \A e \in stored :
      \E b \in {e[1].prim} \cup Chain(Sec(e[1])), i \in Positions :
        key_idx[b][i] = e[2] /\ sig_current[b][i] = e[1].sig

\* Every key slot is in the ring of free slots, in a bucket, or held by a call
\* in progress, and in only one of these: failed and repeated insertions give
\* their slot back exactly once.
SlotsConserved ==
  lock = None =>
    LET inBuckets == {key_idx[p[1]][p[2]] : p \in Used}
        held == {loc[w].slot : w \in {v \in Writers : pc[v] # "done"}}
                  \ {EMPTY_SLOT}
    IN /\ (inBuckets \cup InRing \cup held) \ {EMPTY_SLOT} = 1..h.slots
       /\ inBuckets \cap InRing = {} /\ held \cap InRing = {}
       /\ held \cap inBuckets = {}

\* With several writers the single-consumer, single-producer calls on the ring
\* of free slots are the only weak point: as long as no two of them have
\* overlapped, slots are neither shared nor lost, however the searches, moves
\* and insertions interleave.
SafeWithoutSlotRace == ~raced => SlotsUnique /\ SlotsConserved

\* Keys that the table cannot tell apart: rte_hash_cmp_eq looks at their first
\* eight bytes only, and the search before it at their signatures.
Alike(k, l) == k.sig = l.sig /\ k.head = l.head

\* An index stands for one key and a key for one index, as long as no two calls
\* on the ring of free slots have overlapped and for keys that differ in the
\* first 8 bytes.  No key is in the table twice, although a writer searches, lets
\* go of the lock and inserts later ("Check if key was inserted after last
\* check"); and the index that rte_hash_add_key returns is that of a slot that
\* holds the key ("Return index where key is stored").  Of longer keys that agree
\* there and in their hash, the first one takes the place of the others.
IndexIdentifiesKey ==
  ~raced =>
    /\ lock = None =>
         \A p, q \in Used :
           LET k == key_store[key_idx[p[1]][p[2]]]
               l == key_store[key_idx[q[1]][q[2]]]
           IN p # q => ~(Alike(k, l) /\ k.prim = l.prim)
    /\ \A w \in Writers :
         pc[w] = "done" /\ loc[w].ret >= 0 => Alike(key_store[loc[w].ret + 1], loc[w].key)

\* The limits of an insertion.  The search queue, filled a bucket at a time, is
\* never filled beyond its end (the "curr_bkt" loop of make_space_mw); the
\* extendable buckets, as many as there are buckets, do not run out: whenever a
\* writer needs a new one there is one, or room in its chain; and a slot that is
\* given back finds room in the ring of free slots, although the number 0 of a
\* failed alloc_slot is given back too.
LimitsSuffice ==
  \A w \in Writers :
    /\ Len(loc[w].queue) <= h.queue
    /\ ~raced /\ pc[w] = "ext" /\ free_ext = << >> =>
         \E b \in Chain(Sec(loc[w].key)) : EmptyAt(b) # {}
    /\ ~raced /\ pc[w] = "back_load" => slots_tail - slots_head < h.capacity

=============================================================================
