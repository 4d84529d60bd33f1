------------------------------ MODULE RteRing ------------------------------
(***************************************************************************)
(* The ring of rte_lib/ring: a power-of-two array with a head and a tail   *)
(* index for the producers and another pair for the consumers.  A thread   *)
(* claims a range by moving the head, copies its objects, and publishes    *)
(* the range by moving the tail.  Enqueue and dequeue are the same code    *)
(* with the sides exchanged, so every step below stands for both; the      *)
(* functions, at the end, are groups of these steps.  The sync_type of a   *)
(* side decides how its head and its tail move:                            *)
(*   ST   plain stores                      rte_ring_generic_pvt.h, _c11_  *)
(*   MT   exchange of head, ordered tails   rte_ring_generic_pvt.h, _c11_  *)
(*   HTS  one claim at a time               rte_ring_hts_elem_pvt.h        *)
(*   RTS  the last to finish moves the tail rte_ring_rts_elem_pvt.h        *)
(* The exchange of rte_ring_generic_pvt.h is rte_atomic32_cmpset, whose    *)
(* cmpxchgl has no lock prefix: it is atomic for the threads of one core   *)
(* only.  Besides the calls that claim, copy and publish there are the     *)
(* peek and zero-copy calls, which claim in a start and publish, or give   *)
(* back, in a finish (rte_ring_peek.h, rte_ring_peek_zc.h).                *)
(* Indices are unsigned and wrap at Mod, the code's 2^32.                  *)
(***************************************************************************)
EXTENDS Integers, FiniteSets, Sequences

CONSTANTS Producers, Consumers,
          Rings,      \* the rings to consider: the sync_type of each side, the
                      \*   capacity (below Size - 1 for an EXACT_SZ ring),
                      \*   htd_max of the RTS sides; the build (c11: with
                      \*   RTE_USE_C11_MEM_MODEL) and whether the threads
                      \*   share a core; the calls in use, and whether
                      \*   each side has one user at a time; and a bound: no
                      \*   enqueue is started after this many objects
          Size,       \* r->size
          Mod,        \* the indices wrap here
          Start,      \* where the indices of the idle, empty ring stand
          MaxBurst    \* the largest number of objects a call asks for

Burst == 1..MaxBurst
Threads == Producers \cup Consumers
Sides == {"prod", "cons"}
Behaviors == {"FIXED", "VARIABLE"}
SyncTypes == {"ST", "MT", "HTS", "RTS"}
Apis == {"call", "peek", "zc"}
Index == 0..(Mod - 1)

ASSUME ThreadsAssumption ==
  /\ IsFiniteSet(Producers) /\ IsFiniteSet(Consumers)
  /\ Producers \cap Consumers = {}
ASSUME RingsAssumption ==
  Rings \subseteq [prod : SyncTypes, cons : SyncTypes, capacity : 1..(Size - 1),
                   htd_max : Nat, c11 : BOOLEAN, one_core : BOOLEAN,
                   apis : SUBSET Apis, solo : BOOLEAN, objects : Nat]
ASSUME SizeAssumption ==
  /\ Size \in Nat \ {0} /\ Mod \in Nat \ {0} /\ Mod % Size = 0 /\ Start \in Index
  /\ MaxBurst \in Nat \ {0}
\* Bound: no index laps a thread between its load and its exchange.
ASSUME LapAssumption ==
  \A q \in Rings : q.objects + (MaxBurst * Cardinality(Producers)) < Mod

NoObject == -1

VARIABLES r,             \* the fields of the ring that never change
          head, tail,    \* per side: the position
          hcnt, tcnt,    \* per side: the reference counters of RTS
          ring,          \* the array
          pc, loc,       \* per thread: place in the call, and its locals
          claimed,       \* history: objects claimed on each side so far
          base           \* history: claimed[side] when the thread claimed

vars == <<r, head, tail, hcnt, tcnt, ring, pc, loc, claimed, base>>

\* sync, api: the form of the call; old, oldx: the value of head (and its
\* companion word) that was loaded; seen: what cmpxchgl read; max: the number
\* asked for; n: the number claimed; i: copied so far; obj: the object last
\* copied out; ot, nt: the old and the new tail in __rte_ring_rts_update_tail.
Side(t) == IF t \in Producers THEN "prod" ELSE "cons"
Other(s) == IF s = "prod" THEN "cons" ELSE "prod"
SyncOf(t) == loc[t].sync

Dist(a, b) == (a - b) % Mod
Slot(p) == p % Size

NoTail == [pos |-> 0, cnt |-> 0]
Idle == [sync |-> "ST", api |-> "call", old |-> 0, oldx |-> 0, seen |-> 0,
         max |-> 0, beh |-> "FIXED", n |-> 0, i |-> 0, obj |-> NoObject,
         ot |-> NoTail, nt |-> NoTail]

-----------------------------------------------------------------------------
\* The forms of a call.  rte_ring_enqueue_bulk and its like dispatch on the
\* ring's sync type; the functions whose name fixes one serve rings of that
\* type, and the single-threaded ones (sp_, sc_) MT rings as well.  Single
\* objects are a bulk of one.
Form(sync, api, beh) == [sync |-> sync, api |-> api, beh |-> beh]

SyncsFor(s) == {r[s]} \cup (IF r[s] = "MT" THEN {"ST"} ELSE {})

HtsForms(s) == {Form(sync, "call", beh) : sync \in {r[s]} \cap {"HTS"}, beh \in Behaviors}
RtsForms(s) == {Form(sync, "call", beh) : sync \in {r[s]} \cap {"RTS"}, beh \in Behaviors}

EnqueueBulk == {Form(sync, "call", "FIXED") : sync \in SyncsFor("prod")}
DequeueBulk == {Form(sync, "call", "FIXED") : sync \in SyncsFor("cons")}
EnqueueBurst == {Form(sync, "call", "VARIABLE") : sync \in SyncsFor("prod")}
DequeueBurst == {Form(sync, "call", "VARIABLE") : sync \in SyncsFor("cons")}

\* The start functions serve ST and HTS sides; for MT and RTS they claim
\* nothing.
StartForms(s, api) ==
  {Form(sync, api, beh) : sync \in {r[s]} \cap {"ST", "HTS"}, beh \in Behaviors}

EnqueueStart == StartForms("prod", "peek")
DequeueStart == StartForms("cons", "peek")
EnqueueZcStart == StartForms("prod", "zc")
DequeueZcStart == StartForms("cons", "zc")

EnqueueForms ==
  {f \in UNION {EnqueueBulk, EnqueueBurst, HtsForms("prod"), RtsForms("prod"),
               EnqueueStart, EnqueueZcStart} : f.api \in r.apis}
DequeueForms ==
  {f \in UNION {DequeueBulk, DequeueBurst, HtsForms("cons"), RtsForms("cons"),
               DequeueStart, DequeueZcStart} : f.api \in r.apis}

\* The callers' part of the contract: a single-threaded call has its side for
\* itself.
SideFree(t, sync) ==
  \A u \in Threads \ {t} :
    Side(u) = Side(t) /\ pc[u] # "idle" =>
      ~r.solo /\ sync # "ST" /\ SyncOf(u) # "ST"

\* The sync type of the form picks the functions that are called from here on.
Begin(t, n, f) ==
  /\ pc[t] = "idle"
  /\ SideFree(t, f.sync)
  /\ loc' = [loc EXCEPT ![t] = [Idle EXCEPT !.sync = f.sync, !.api = f.api,
                                           !.max = n, !.beh = f.beh]]
  /\ pc' = [pc EXCEPT ![t] = "load"]
  /\ UNCHANGED <<r, head, tail, hcnt, tcnt, ring, claimed, base>>

Enqueue(t, n, f) == t \in Producers /\ claimed["prod"] < r.objects /\ Begin(t, n, f)

Dequeue(t, n, f) == t \in Consumers /\ Begin(t, n, f)

\* The word next to the head that is loaded and exchanged together with it.
Companion(s) == CASE r[s] = "HTS" -> tail[s]
                  [] r[s] = "RTS" -> hcnt[s]
                  [] OTHER -> 0

\* Mutant: an HTS side does not wait for the claim in progress.
AfterLoadNoWait(s) == IF r[s] = "RTS" THEN "wait" ELSE "avail"

\* __rte_ring_hts_head_wait loads again until head and tail are equal.
AfterLoad(s) ==
  CASE r[s] = "HTS" -> IF head[s] = tail[s] THEN "avail" ELSE "load"
    [] r[s] = "RTS" -> "wait"
    [] OTHER -> "avail"

\* The locals at the top of the loop: only the request is kept.
Again(t) == [Idle EXCEPT !.sync = loc[t].sync, !.api = loc[t].api,
                         !.max = loc[t].max, !.beh = loc[t].beh]

Loaded(t) ==
  /\ loc' = [loc EXCEPT ![t] = [Again(t) EXCEPT !.old = head[Side(t)],
                                               !.oldx = Companion(Side(t))]]
  /\ pc' = [pc EXCEPT ![t] = AfterLoad(Side(t))]

LoadHead(t) ==
  /\ pc[t] = "load"
  /\ Loaded(t)
  /\ UNCHANGED <<r, head, tail, hcnt, tcnt, ring, claimed, base>>

\* Mutant: the distance is compared with the signed order of the indices.
RtsHeadWaitSigned(t) ==
  /\ pc[t] = "wait"
  /\ pc' = [pc EXCEPT ![t] =
              IF loc[t].old - tail[Side(t)] > r.htd_max THEN "load" ELSE "avail"]
  /\ UNCHANGED <<r, head, tail, hcnt, tcnt, ring, loc, claimed, base>>

\* __rte_ring_rts_head_wait: too far ahead of the tail, load again.
RtsHeadWait(t) ==
  /\ pc[t] = "wait"
  /\ pc' = [pc EXCEPT ![t] =
              IF Dist(loc[t].old, tail[Side(t)]) > r.htd_max THEN "load"
                                                          ELSE "avail"]
  /\ UNCHANGED <<r, head, tail, hcnt, tcnt, ring, loc, claimed, base>>

\* What the other side's tail leaves to claim, as unsigned arithmetic.
Entries(s, old) ==
  IF s = "prod" THEN (r.capacity + tail["cons"] - old) % Mod
                ELSE (tail["prod"] - old) % Mod

Take(beh, max, entries) ==
  IF max > entries THEN (IF beh = "FIXED" THEN 0 ELSE entries) ELSE max

\* Read the other side's tail; return 0 if there is nothing to claim.
CheckEntries(t) ==
  LET e == Entries(Side(t), loc[t].old)
      n == Take(loc[t].beh, loc[t].max, e)
  IN /\ pc[t] = "avail"
     /\ IF n = 0
        THEN loc' = [loc EXCEPT ![t] = Idle]
        ELSE loc' = [loc EXCEPT ![t].n = n]
     /\ pc' = [pc EXCEPT ![t] = IF n = 0 THEN "idle" ELSE "move"]
     /\ UNCHANGED <<r, head, tail, hcnt, tcnt, ring, claimed, base>>

\* Mutant: the head is stored without the comparison.
HeadUnchangedSkipped(t) == TRUE

HeadUnchanged(t) ==
  /\ head[Side(t)] = loc[t].old
  /\ Companion(Side(t)) = loc[t].oldx

\* Does the exchange of head fall apart into a load and a store?
Torn(t) == SyncOf(t) = "MT" /\ ~r.c11 /\ ~r.one_core

\* What the thread does with its claim: the call copies; a peek enqueue gets the
\* objects with its finish; a peek dequeue copies out, and the user of a
\* zero-copy call reads or writes the slots, before the finish.
PeekEnqueue(t) == loc[t].api = "peek" /\ t \in Producers

Claim(t) ==
  LET s == Side(t)
  IN /\ head' = [head EXCEPT ![s] = (loc[t].old + loc[t].n) % Mod]
     /\ hcnt' = IF r[s] = "RTS"
                THEN [hcnt EXCEPT ![s] = (loc[t].oldx + 1) % Mod] ELSE hcnt
     /\ base' = [base EXCEPT ![t] = claimed[s]]
     /\ claimed' = [claimed EXCEPT ![s] = @ + loc[t].n]
     /\ pc' = [pc EXCEPT ![t] = IF PeekEnqueue(t) THEN "started" ELSE "copy"]
     /\ UNCHANGED <<r, tail, tcnt, ring, loc>>

\* The claim: a store on an ST side, a successful exchange otherwise.
MoveHead(t) ==
  /\ pc[t] = "move" /\ ~Torn(t)
  /\ SyncOf(t) = "ST" \/ HeadUnchanged(t)
  /\ Claim(t)

\* A failed exchange.  MT starts over with its own load of the head; the
\* exchange of C11, HTS and RTS has loaded it.
MoveHeadFails(t) ==
  /\ pc[t] = "move" /\ ~Torn(t) /\ SyncOf(t) # "ST" /\ ~HeadUnchanged(t)
  /\ IF SyncOf(t) = "MT" /\ ~r.c11
     THEN /\ pc' = [pc EXCEPT ![t] = "load"]
          /\ loc' = [loc EXCEPT ![t] = Again(t)]
     ELSE Loaded(t)
  /\ UNCHANGED <<r, head, tail, hcnt, tcnt, ring, claimed, base>>

\* rte_atomic32_cmpset across cores: cmpxchgl reads the head and compares, and
\* then stores the new value, or the one it has read if they were not equal.
CmpsetLoad(t) ==
  /\ pc[t] = "move" /\ Torn(t)
  /\ loc' = [loc EXCEPT ![t].seen = head[Side(t)]]
  /\ pc' = [pc EXCEPT ![t] = "cmpset"]
  /\ UNCHANGED <<r, head, tail, hcnt, tcnt, ring, claimed, base>>

CmpsetStore(t) ==
  /\ pc[t] = "cmpset"
  /\ IF loc[t].seen = loc[t].old
     THEN Claim(t)
     ELSE /\ head' = [head EXCEPT ![Side(t)] = loc[t].seen]
          /\ pc' = [pc EXCEPT ![t] = "load"]
          /\ loc' = [loc EXCEPT ![t] = Again(t)]
          /\ UNCHANGED <<r, tail, hcnt, tcnt, ring, claimed, base>>

\* Mutant: the copy does not continue at the start of the array.
CopySlotNoWrap(t) == LET k == Slot(loc[t].old) + loc[t].i
                     IN IF k < Size THEN k ELSE Size - 1

CopySlot(t) == LET k == Slot(loc[t].old) + loc[t].i
               IN IF k < Size THEN k ELSE k - Size

\* The slots a zero-copy start hands out: n1 from ptr1 on, the rest from ptr2,
\* the start of the array.
ZcSlot(t) ==
  LET idx == Slot(loc[t].old)
      n1 == IF idx + loc[t].n > Size THEN Size - idx ELSE loc[t].n
  IN IF loc[t].i < n1 THEN idx + loc[t].i ELSE loc[t].i - n1

AfterCopy(t) ==
  CASE loc[t].api = "call" -> IF SyncOf(t) = "RTS" THEN "rts_tail" ELSE "update"
    [] PeekEnqueue(t) -> "publish"
    [] OTHER -> "started"

\* __rte_ring_{enqueue,dequeue}_elems, one object per step.  An object is
\* named by the position at which it was claimed.
Copied(t) ==
  pc' = [pc EXCEPT ![t] = IF loc[t].i + 1 < loc[t].n THEN "copy" ELSE AfterCopy(t)]

SlotOf(t) == IF loc[t].api = "zc" THEN ZcSlot(t) ELSE CopySlot(t)

EnqueueElem(t) ==
  /\ pc[t] = "copy" /\ t \in Producers
  /\ ring' = [ring EXCEPT ![SlotOf(t)] = base[t] + loc[t].i]
  /\ loc' = [loc EXCEPT ![t].i = @ + 1]
  /\ Copied(t)
  /\ UNCHANGED <<r, head, tail, hcnt, tcnt, claimed, base>>

DequeueElem(t) ==
  /\ pc[t] = "copy" /\ t \in Consumers
  /\ loc' = [loc EXCEPT ![t].i = @ + 1, ![t].obj = ring[SlotOf(t)]]
  /\ Copied(t)
  /\ UNCHANGED <<r, head, tail, hcnt, tcnt, ring, claimed, base>>

\* __rte_ring_{st,hts}_get_tail: not more than was started, or nothing.
Finishing(s, k) == IF Dist(head[s], tail[s]) >= k THEN k ELSE 0

\* The finish functions with k of the objects; 0 gives the whole claim up.  The
\* position is the ring's tail.
Finish(t, k, after) ==
  LET n == Finishing(Side(t), k)
  IN /\ pc[t] = "started" /\ k <= loc[t].n
     /\ loc' = [loc EXCEPT ![t].old = tail[Side(t)], ![t].n = n]
     /\ pc' = [pc EXCEPT ![t] = IF n = 0 THEN "publish" ELSE after]
     /\ UNCHANGED <<r, head, tail, hcnt, tcnt, ring, claimed, base>>

EnqueueFinish(t, k) == PeekEnqueue(t) /\ Finish(t, k, "copy")
DequeueFinish(t, k) ==
  t \in Consumers /\ loc[t].api = "peek" /\ Finish(t, k, "publish")
EnqueueZcFinish(t, k) ==
  t \in Producers /\ loc[t].api = "zc" /\ Finish(t, k, "publish")
DequeueZcFinish(t, k) ==
  t \in Consumers /\ loc[t].api = "zc" /\ Finish(t, k, "publish")

Return(t) ==
  /\ pc' = [pc EXCEPT ![t] = "idle"]
  /\ loc' = [loc EXCEPT ![t] = Idle]
  /\ base' = [base EXCEPT ![t] = 0]

\* The wait ends.
rte_wait_until_equal_32(v, expected) == v = expected

\* __rte_ring_update_tail waits, if MT, until the claims before this one are
\* published; __rte_ring_hts_update_tail has none to wait for.
UpdateTail(t) ==
  /\ pc[t] = "update" /\ SyncOf(t) # "HTS"
  /\ SyncOf(t) = "MT" => rte_wait_until_equal_32(tail[Side(t)], loc[t].old)
  /\ tail' = [tail EXCEPT ![Side(t)] = (loc[t].old + loc[t].n) % Mod]
  /\ Return(t)
  /\ UNCHANGED <<r, head, hcnt, tcnt, ring, claimed>>

HtsUpdateTail(t) ==
  /\ pc[t] = "update" /\ SyncOf(t) = "HTS"
  /\ tail' = [tail EXCEPT ![Side(t)] = (loc[t].old + loc[t].n) % Mod]
  /\ Return(t)
  /\ UNCHANGED <<r, head, hcnt, tcnt, ring, claimed>>

\* __rte_ring_st_set_head_tail stores the head, and then the tail as UpdateTail
\* does.
StSetHead(t) ==
  LET s == Side(t)
  IN /\ pc[t] = "publish" /\ SyncOf(t) = "ST"
     /\ head' = [head EXCEPT ![s] = (loc[t].old + loc[t].n) % Mod]
     /\ claimed' = [claimed EXCEPT ![s] = base[t] + loc[t].n]
     /\ pc' = [pc EXCEPT ![t] = "update"]
     /\ UNCHANGED <<r, tail, hcnt, tcnt, ring, loc, base>>

\* __rte_ring_hts_set_head_tail stores both at once.
HtsSetHeadTail(t) ==
  LET s == Side(t)
      pos == (loc[t].old + loc[t].n) % Mod
  IN /\ pc[t] = "publish" /\ SyncOf(t) = "HTS"
     /\ head' = [head EXCEPT ![s] = pos]
     /\ tail' = [tail EXCEPT ![s] = pos]
     /\ claimed' = [claimed EXCEPT ![s] = base[t] + loc[t].n]
     /\ Return(t)
     /\ UNCHANGED <<r, hcnt, tcnt, ring>>

-----------------------------------------------------------------------------
\* __rte_ring_rts_update_tail: load the tail, then in a loop load the head,
\* count this claim as finished and, if that makes it the last one, take over
\* the head's position.
RtsLoadTail(t) ==
  /\ pc[t] = "rts_tail"
  /\ loc' = [loc EXCEPT ![t].ot = [pos |-> tail[Side(t)],
                                   cnt |-> tcnt[Side(t)]]]
  /\ pc' = [pc EXCEPT ![t] = "rts_head"]
  /\ UNCHANGED <<r, head, tail, hcnt, tcnt, ring, claimed, base>>

\* Mutant: the counter is compared before it is incremented.
NewTailOffByOne(s, ot) ==
  [pos |-> IF ot.cnt = hcnt[s] THEN head[s] ELSE ot.pos,
   cnt |-> (ot.cnt + 1) % Mod]

NewTail(s, ot) ==
  LET c == (ot.cnt + 1) % Mod
  IN [pos |-> IF c = hcnt[s] THEN head[s] ELSE ot.pos, cnt |-> c]

RtsLoadHead(t) ==
  /\ pc[t] = "rts_head"
  /\ loc' = [loc EXCEPT ![t].nt = NewTail(Side(t), loc[t].ot)]
  /\ pc' = [pc EXCEPT ![t] = "rts_cas"]
  /\ UNCHANGED <<r, head, tail, hcnt, tcnt, ring, claimed, base>>

RtsMoveTail(t) ==
  LET s == Side(t)
      current == [pos |-> tail[s], cnt |-> tcnt[s]]
  IN /\ pc[t] = "rts_cas"
     /\ \/ /\ current = loc[t].ot
           /\ tail' = [tail EXCEPT ![s] = loc[t].nt.pos]
           /\ tcnt' = [tcnt EXCEPT ![s] = loc[t].nt.cnt]
           /\ Return(t)
        \/ /\ current # loc[t].ot
           /\ loc' = [loc EXCEPT ![t].ot = current]
           /\ pc' = [pc EXCEPT ![t] = "rts_head"]
           /\ UNCHANGED <<tail, tcnt, base>>
     /\ UNCHANGED <<r, head, hcnt, ring, claimed>>

-----------------------------------------------------------------------------
\* An empty ring at rest: rte_ring_init and rte_ring_reset leave all indices
\* at 0, and every later quiet moment has them at some other common value.
Init ==
  /\ r \in Rings
  /\ head = [s \in Sides |-> Start] /\ tail = [s \in Sides |-> Start]
  /\ hcnt = [s \in Sides |-> Start] /\ tcnt = [s \in Sides |-> Start]
  /\ ring = [k \in 0..(Size - 1) |-> NoObject]
  /\ pc = [t \in Threads |-> "idle"]
  /\ loc = [t \in Threads |-> Idle]
  /\ claimed = [s \in Sides |-> 0]
  /\ base = [t \in Threads |-> 0]

-----------------------------------------------------------------------------
(***************************************************************************)
(* The functions, as the steps their threads take.                         *)
(***************************************************************************)
MoveLoop(t) == LoadHead(t) \/ CheckEntries(t) \/ MoveHead(t) \/ MoveHeadFails(t)
Cmpset(t) == CmpsetLoad(t) \/ CmpsetStore(t)

Generic(t) == SyncOf(t) \in {"ST", "MT"} /\ ~r.c11
C11(t) == SyncOf(t) \in {"ST", "MT"} /\ r.c11

generic_move_prod_head(t) == t \in Producers /\ Generic(t) /\ (MoveLoop(t) \/ Cmpset(t))
generic_move_cons_head(t) == t \in Consumers /\ Generic(t) /\ (MoveLoop(t) \/ Cmpset(t))
c11_move_prod_head(t) == t \in Producers /\ C11(t) /\ MoveLoop(t)
c11_move_cons_head(t) == t \in Consumers /\ C11(t) /\ MoveLoop(t)
hts_move_prod_head(t) == t \in Producers /\ SyncOf(t) = "HTS" /\ MoveLoop(t)
hts_move_cons_head(t) == t \in Consumers /\ SyncOf(t) = "HTS" /\ MoveLoop(t)
rts_move_prod_head(t) ==
  t \in Producers /\ SyncOf(t) = "RTS" /\ (MoveLoop(t) \/ RtsHeadWait(t))
rts_move_cons_head(t) ==
  t \in Consumers /\ SyncOf(t) = "RTS" /\ (MoveLoop(t) \/ RtsHeadWait(t))
rts_update_tail(t) == RtsLoadTail(t) \/ RtsLoadHead(t) \/ RtsMoveTail(t)

\* RTE_USE_C11_MEM_MODEL chooses one of the two files.
move_prod_head(t) == generic_move_prod_head(t) \/ c11_move_prod_head(t)
move_cons_head(t) == generic_move_cons_head(t) \/ c11_move_cons_head(t)

\* The calls: move the head, copy, move the tail.
Call(t, side, syncs) ==
  pc[t] # "idle" /\ loc[t].api = "call" /\ Side(t) = side /\ SyncOf(t) \in syncs

do_enqueue_elem(t) ==
  Call(t, "prod", {"ST", "MT"}) /\ (move_prod_head(t) \/ EnqueueElem(t) \/ UpdateTail(t))
do_dequeue_elem(t) ==
  Call(t, "cons", {"ST", "MT"}) /\ (move_cons_head(t) \/ DequeueElem(t) \/ UpdateTail(t))
do_hts_enqueue_elem(t) ==
  Call(t, "prod", {"HTS"}) /\ (hts_move_prod_head(t) \/ EnqueueElem(t) \/ HtsUpdateTail(t))
do_hts_dequeue_elem(t) ==
  Call(t, "cons", {"HTS"}) /\ (hts_move_cons_head(t) \/ DequeueElem(t) \/ HtsUpdateTail(t))
do_rts_enqueue_elem(t) ==
  Call(t, "prod", {"RTS"}) /\ (rts_move_prod_head(t) \/ EnqueueElem(t) \/ rts_update_tail(t))
do_rts_dequeue_elem(t) ==
  Call(t, "cons", {"RTS"}) /\ (rts_move_cons_head(t) \/ DequeueElem(t) \/ rts_update_tail(t))

\* The start functions claim; the one for a peek dequeue copies out as well.
StartProd(t) == move_prod_head(t) \/ hts_move_prod_head(t)
StartCons(t) == move_cons_head(t) \/ hts_move_cons_head(t)
do_enqueue_start(t) == loc[t].api = "peek" /\ StartProd(t)
do_dequeue_start(t) == loc[t].api = "peek" /\ (StartCons(t) \/ DequeueElem(t))
do_enqueue_zc_elem_start(t) == loc[t].api = "zc" /\ StartProd(t)
do_dequeue_zc_elem_start(t) == loc[t].api = "zc" /\ StartCons(t)

\* The user of a zero-copy call fills or empties the slots (external).
ZcUser(t) == loc[t].api = "zc" /\ (EnqueueElem(t) \/ DequeueElem(t))

\* The finish functions after their first step.
set_head_tail(t) ==
  loc[t].api # "call" /\ (StSetHead(t) \/ UpdateTail(t) \/ HtsSetHeadTail(t))
FinishCopy(t) == PeekEnqueue(t) /\ EnqueueElem(t)

Step(t) ==
  \/ do_enqueue_elem(t) \/ do_hts_enqueue_elem(t) \/ do_rts_enqueue_elem(t)
  \/ do_dequeue_elem(t) \/ do_hts_dequeue_elem(t) \/ do_rts_dequeue_elem(t)
  \/ do_enqueue_start(t) \/ do_enqueue_zc_elem_start(t)
  \/ do_dequeue_start(t) \/ do_dequeue_zc_elem_start(t)
  \/ ZcUser(t) \/ FinishCopy(t) \/ set_head_tail(t)

Next ==
  \E t \in Threads :
    \/ \E n \in Burst, f \in EnqueueForms : Enqueue(t, n, f)
    \/ \E n \in Burst, f \in DequeueForms : Dequeue(t, n, f)
    \/ \E k \in Burst \cup {0} : \/ EnqueueFinish(t, k) \/ EnqueueZcFinish(t, k)
                                 \/ DequeueFinish(t, k) \/ DequeueZcFinish(t, k)
    \/ Step(t)

Spec == Init /\ [][Next]_vars

-----------------------------------------------------------------------------
Working == {"copy", "started", "publish", "update", "rts_tail", "rts_head",
            "rts_cas"}
InFlight == {t \in Threads : pc[t] \in Working}

Slots(t) == {Slot(loc[t].old + k) : k \in 0..(loc[t].n - 1)}

\* No array slot is written by one thread while another reads or writes it:
\* the ranges being copied are disjoint, across both sides
\* (__rte_ring_move_prod_head, __rte_ring_move_cons_head).
SlotsDisjoint ==
  \A t, u \in InFlight :
    t # u /\ pc[t] = "copy" /\ pc[u] = "copy" => Slots(t) \cap Slots(u) = {}

\* A consumer copies out exactly the objects enqueued at the positions it
\* claimed, in order: nothing is lost, repeated, overwritten or read before it
\* was written (__rte_ring_dequeue_elems after the claim).
ObjectsInOrder ==
  \A t \in Consumers \cap InFlight :
    loc[t].i > 0 => loc[t].obj = base[t] + loc[t].i - 1

\* "thread is allowed to proceed with changing head.value, only when:
\* head.value - tail.value <= HTD_MAX" (rte_ring_rts.h): the distance is checked
\* before the exchange, and it still holds when the exchange succeeds.
RtsHeadWithinDistance ==
  [][\A s \in Sides :
       r[s] = "RTS" /\ head'[s] # head[s]
         => Dist(head[s], tail[s]) <= r.htd_max]_vars

\* Every call returns: threads waiting for an earlier claim to be published,
\* for the HTS tail or for the RTS distance, or losing exchanges, get on.  A
\* thread loses an exchange only when another succeeds, and the bound on objects
\* (r.objects) limits how often: nothing is said of competitors without end.
CallsReturn == \A t \in Threads : pc[t] # "idle" ~> pc[t] = "idle"

-----------------------------------------------------------------------------
\* What the ring holds, read off the array between the two tails.
Contents ==
  [k \in 1..Dist(tail["prod"], tail["cons"]) |->
     ring[Slot(tail["cons"] + k - 1)]]

Fifo == INSTANCE BoundedFifo WITH bound <- r.capacity, q <- Contents,
                                  next <- Dist(tail["prod"], Start)

\* The ring implements a bounded FIFO queue: moving a producer tail appends the
\* next objects in the order in which they were claimed, moving a consumer tail
\* removes the oldest, and no other step changes what the array holds between
\* the tails.
ImplementsBoundedFifo == Fifo!Spec

=============================================================================
