-------------------------- MODULE CuckooSlotProofs --------------------------
(***************************************************************************)
(* The slots of the keys, for every number of buckets, entries, keys and   *)
(* writers.  A slot is in the ring of free slots, in an entry that counts, *)
(* or with a call; every step moves one slot from one of these places to   *)
(* another one, or none.                                                   *)
(***************************************************************************)
EXTENDS CuckooHashProofs

\* Zenon does every leaf that names no other prover.
USE Zenon

-----------------------------------------------------------------------------
(***************************************************************************)
(* Places, before and after a step.                                        *)
(***************************************************************************)

LEMMA Kinds ==
  /\ \A q, s : AtRing(q, s) => q[1] = "ring"
  /\ \A q, s : AtEntry(q, s) => q[1] = "entry"
  /\ \A q, s : AtCall(q, s) => q[1] = "call"
  <1>1. ASSUME NEW q, NEW s, AtRing(q, s) PROVE q[1] = "ring"
    BY SMT, <1>1 DEF AtRing
  <1>2. ASSUME NEW q, NEW s, AtEntry(q, s) PROVE q[1] = "entry"
    BY SMT, <1>2 DEF AtEntry
  <1>3. ASSUME NEW q, NEW s, AtCall(q, s) PROVE q[1] = "call"
    BY SMT, <1>3 DEF AtCall
  <1> QED
    BY <1>1, <1>2, <1>3

\* At most one slot moves, from the place p to the place r.
Moved(p, r, t) ==
  \A q, s : s \in 1..h.slots /\ Holds(q, s)' =>
    (Holds(q, s) /\ q # p) \/ (q = r /\ s = t /\ Holds(p, t))

LEMMA OneMoved ==
  ASSUME OnePlace, h' = h, NEW p, NEW r, NEW t, Moved(p, r, t)
  PROVE  OnePlace'
  <1> SUFFICES ASSUME NEW s \in 1..h.slots, NEW a, NEW b, Holds(a, s)', Holds(b, s)'
               PROVE  a = b
    BY DEF OnePlace
  <1>1. (Holds(a, s) /\ a # p) \/ (a = r /\ s = t /\ Holds(p, t))
    BY DEF Moved
  <1>2. (Holds(b, s) /\ b # p) \/ (b = r /\ s = t /\ Holds(p, t))
    BY DEF Moved
  <1>3. \A x, y : Holds(x, s) /\ Holds(y, s) => x = y
    BY DEF OnePlace
  <1> QED
    BY <1>1, <1>2, <1>3

LEMMA NoneMoved ==
  ASSUME OnePlace, h' = h, \A q, s : s \in 1..h.slots /\ Holds(q, s)' => Holds(q, s)
  PROVE  OnePlace'
  BY DEF OnePlace

LEMMA SomeKept ==
  ASSUME SomePlace, h' = h,
         \A q, s : s \in 1..h.slots /\ Holds(q, s) => \E r : Holds(r, s)'
  PROVE  SomePlace'
  BY DEF SomePlace

\* The calls, before and after a step of one of them.
OtherCall(w, q, s) == \E v \in Writers : v # w /\ q = <<"call", v>> /\ loc[v].slot = s

LEMMA Calls ==
  ASSUME TableInv, NEW w \in Writers, Turn(w)
  PROVE  /\ \A q, s : AtCall(q, s) <=> OtherCall(w, q, s) \/ (q = <<"call", w>> /\ loc[w].slot = s)
         /\ \A q, s : AtCall(q, s)' <=> OtherCall(w, q, s) \/ (q = <<"call", w>> /\ loc'[w].slot = s)
         /\ \A q, s : OtherCall(w, q, s) => q # <<"call", w>> /\ q[1] = "call"
  <1>1. \A v \in Writers : v # w => loc'[v] = loc[v]
    BY TurnOthers
  <1>2. ASSUME NEW q, NEW s
        PROVE  AtCall(q, s) <=> OtherCall(w, q, s) \/ (q = <<"call", w>> /\ loc[w].slot = s)
    BY DEF AtCall, OtherCall
  <1>3. ASSUME NEW q, NEW s
        PROVE  AtCall(q, s)' <=> OtherCall(w, q, s) \/ (q = <<"call", w>> /\ loc'[w].slot = s)
    BY <1>1 DEF AtCall, OtherCall
  <1>4. ASSUME NEW q, NEW s, OtherCall(w, q, s) PROVE q # <<"call", w>> /\ q[1] = "call"
    <2>1. PICK v \in Writers : v # w /\ q = <<"call", v>>
      BY <1>4 DEF OtherCall
    <2> QED
      BY SMT, <2>1
  <1> QED
    BY <1>2, <1>3, <1>4

LEMMA RingSame ==
  ASSUME UNCHANGED <<slots, slots_head, slots_tail>>
  PROVE  \A q, s : AtRing(q, s)' <=> AtRing(q, s)
  BY DEF AtRing

\* The entries, if none but <<b, i>> changes or becomes or ceases to be a hole.
LEMMA EntriesSame ==
  ASSUME TableInv, h' = h, NEW S,
         \A c \in Buckets, j \in Positions : <<c, j>> \notin S =>
           (Hole(c, j)' <=> Hole(c, j)) /\ key_idx'[c][j] = key_idx[c][j]
  PROVE  /\ \A q, s : AtEntry(q, s) /\ (\A x \in S : q # <<"entry", x>>) => AtEntry(q, s)'
         /\ \A q, s : AtEntry(q, s)' /\ (\A x \in S : q # <<"entry", x>>) => AtEntry(q, s)
  <1>1. Buckets' = Buckets /\ Positions' = Positions
    BY HashKept DEF TableInv
  <1>2. ASSUME NEW q, NEW s, AtEntry(q, s), \A x \in S : q # <<"entry", x>> PROVE AtEntry(q, s)'
    BY <1>1, <1>2 DEF AtEntry
  <1>3. ASSUME NEW q, NEW s, AtEntry(q, s)', \A x \in S : q # <<"entry", x>> PROVE AtEntry(q, s)
    <2>1. PICK b \in Buckets, i \in Positions :
            q = <<"entry", <<b, i>>>> /\ ~Hole(b, i)' /\ key_idx'[b][i] = s
      BY <1>1, <1>3 DEF AtEntry
    <2>2. <<b, i>> \notin S
      BY <1>3, <2>1
    <2> QED
      BY <2>1, <2>2 DEF AtEntry
  <1> QED
    BY <1>2, <1>3

LEMMA EntryAt ==
  ASSUME NEW b \in Buckets, NEW i \in Positions, h' = h
  PROVE  /\ \A s : AtEntry(<<"entry", <<b, i>>>>, s) <=> ~Hole(b, i) /\ key_idx[b][i] = s
         /\ \A s : AtEntry(<<"entry", <<b, i>>>>, s)' <=> ~Hole(b, i)' /\ key_idx'[b][i] = s
  <1>1. Buckets' = Buckets /\ Positions' = Positions
    BY DEF Buckets, Positions, MainBuckets, ExtBuckets
  <1>2. ASSUME NEW s PROVE AtEntry(<<"entry", <<b, i>>>>, s) <=> ~Hole(b, i) /\ key_idx[b][i] = s
    BY DEF AtEntry
  <1>3. ASSUME NEW s
        PROVE  AtEntry(<<"entry", <<b, i>>>>, s)' <=> ~Hole(b, i)' /\ key_idx'[b][i] = s
    BY <1>1 DEF AtEntry
  <1> QED
    BY <1>2, <1>3

LEMMA RingTypes ==
  ASSUME SlotTypes
  PROVE  /\ slots \in Seq(0..h.slots) /\ Len(slots) = slots_tail /\ slots_tail \in Nat
         /\ slots_head \in 0..slots_tail /\ slots_head \in Nat
         /\ \A n \in (slots_head + 1)..slots_tail : n \in 1..slots_tail
  <1>1. slots \in Seq(0..h.slots) /\ Len(slots) = slots_tail /\ slots_head \in 0..slots_tail
    BY DEF SlotTypes
  <1> QED
    BY SMT, <1>1

LEMMA TypesKept ==
  ASSUME TableInv, SlotTypes, NEW w \in Writers, Turn(w),
         slots' \in Seq(0..h.slots), Len(slots') = slots_tail', slots_head' \in 0..slots_tail',
         slots_tail <= slots_tail',
         \A b \in Buckets, i \in Positions : key_idx'[b][i] \in 0..h.slots,
         loc'[w].slot \in 0..h.slots, pc'[w] \in NoSlot => loc'[w].slot = EMPTY_SLOT,
         pc'[w] = "alloc_take" => loc'[w].pos \in Nat /\ loc'[w].pos < slots_tail'
  PROVE  SlotTypes'
  <1>1. h' = h /\ Buckets' = Buckets /\ Positions' = Positions
    BY HashKept DEF TableInv, Turn
  <1>2. \A v \in Writers : v # w => pc'[v] = pc[v] /\ loc'[v] = loc[v]
    BY TurnOthers
  <1>3. slots_tail \in Nat /\ slots_tail' \in Nat
    BY SMT, RingTypes
  <1>4. \A x \in Nat : x < slots_tail => x < slots_tail'
    BY SMT, <1>3
  <1>5. ASSUME NEW v \in Writers
        PROVE  /\ loc'[v].slot \in 0..h.slots
               /\ pc'[v] \in NoSlot => loc'[v].slot = EMPTY_SLOT
               /\ pc'[v] = "alloc_take" => loc'[v].pos \in Nat /\ loc'[v].pos < slots_tail'
    <2>1. CASE v = w
      BY <2>1
    <2>2. CASE v # w
      BY <1>2, <1>4, <2>2 DEF SlotTypes
    <2> QED
      BY <2>1, <2>2
  <1> QED
    BY <1>1, <1>5 DEF SlotTypes, NoSlot

LEMMA TypesSame ==
  ASSUME TableInv, SlotTypes, NEW w \in Writers, Turn(w), UNCHANGED freeSlots,
         \A b \in Buckets, i \in Positions : key_idx'[b][i] \in 0..h.slots,
         loc'[w].slot \in 0..h.slots, pc'[w] \in NoSlot => loc'[w].slot = EMPTY_SLOT,
         pc'[w] = "alloc_take" => loc'[w].pos \in Nat /\ loc'[w].pos < slots_tail
  PROVE  SlotTypes'
  <1>1. UNCHANGED <<slots, slots_tail, slots_head>>
    BY DEF freeSlots
  <1>2. /\ slots' \in Seq(0..h.slots) /\ Len(slots') = slots_tail' /\ slots_head' \in 0..slots_tail'
        /\ slots_tail \in Nat
    BY <1>1, RingTypes
  <1>3. slots_tail <= slots_tail'
    BY SMTT(20), <1>1, <1>2
  <1> QED
    BY <1>1, <1>2, <1>3, TypesKept

LEMMA EmptyIsNone == EMPTY_SLOT \notin 1..h.slots /\ (h.slots \in Nat => EMPTY_SLOT \in 0..h.slots)
  BY SMT DEF EMPTY_SLOT

LEMMA SlotAfter ==
  ASSUME TableInv, SlotTypes
  PROVE  /\ \A w \in Writers : loc[w].slot \in 0..h.slots
         /\ \A b \in Buckets, i \in Positions : key_idx[b][i] \in 0..h.slots
         /\ EMPTY_SLOT \in 0..h.slots
  BY EmptyIsNone DEF SlotTypes, TableInv, HashOK

LEMMA EntriesStay ==
  ASSUME TableInv, NEW w \in Writers, Turn(w), pc[w] # "move", pc'[w] # "move", UNCHANGED table
  PROVE  \A q, s : AtEntry(q, s)' <=> AtEntry(q, s)
  <1>1. Buckets' = Buckets /\ Positions' = Positions /\ key_idx' = key_idx
    BY HashKept DEF TableInv, Turn, table
  <1>2. \A b, i : Hole(b, i)' <=> Hole(b, i)
    BY HolesStay
  <1> QED
    BY <1>1, <1>2 DEF AtEntry

LEMMA PlainSlots ==
  ASSUME TableInv, SlotTypes, OnePlace, NEW w \in Writers, Plain(w)
  PROVE  SlotTypes' /\ OnePlace' /\ (SomePlace => SomePlace')
  <1>1. /\ Turn(w) /\ UNCHANGED <<table, freeSlots>> /\ loc'[w].slot = loc[w].slot /\ h' = h
        /\ pc'[w] \in NoSlot => loc'[w].slot = EMPTY_SLOT
        /\ pc'[w] = "alloc_take" => loc'[w].pos \in Nat /\ loc'[w].pos < slots_tail
    BY DEF Plain, Turn
  <1>2. UNCHANGED <<key_idx, slots, slots_tail, slots_head>>
    BY <1>1 DEF table, freeSlots
  <1>3. SlotTypes'
    BY <1>1, <1>2, SlotAfter, TypesSame
  <1>4. \A q, s : AtEntry(q, s)' <=> AtEntry(q, s)
    BY EntriesStay DEF Plain
  <1>5. \A q, s : AtRing(q, s)' <=> AtRing(q, s)
    BY <1>2, RingSame
  <1>6. \A q, s : AtCall(q, s)' <=> AtCall(q, s)
    BY <1>1, Calls
  <1>7. \A q, s : Holds(q, s)' <=> Holds(q, s)
    BY <1>4, <1>5, <1>6 DEF Holds
  <1> QED
    BY <1>1, <1>3, <1>7, NoneMoved, SomeKept

LEMMA TakesSlots ==
  ASSUME TableInv, SlotTypes, OnePlace, NEW w \in Writers, Takes(w), slots_head = loc[w].pos
  PROVE  SlotTypes' /\ OnePlace' /\ (SomePlace => SomePlace')
  <1>1. PICK n, t : n = loc[w].pos + 1 /\ t = slots[n]
    OBVIOUS
  <1>2. /\ Turn(w) /\ UNCHANGED <<table, slots, slots_tail>> /\ loc'[w].slot = t /\ h' = h
        /\ slots_head' = n /\ n = slots_head + 1 /\ pc'[w] = "store_key"
        /\ pc[w] = "alloc_take" /\ loc[w].slot = EMPTY_SLOT
    BY <1>1, SlotOf DEF Takes, Turn, NoSlot
  <1>3. loc[w].pos < slots_tail
    BY <1>2 DEF SlotTypes
  <1>4. n \in 1..slots_tail /\ n \in 0..slots_tail /\ slots_tail <= slots_tail /\ t \in 0..h.slots
    <2>1. n \in 1..slots_tail /\ n \in 0..slots_tail /\ slots_tail <= slots_tail
      BY SMTT(20), <1>1, <1>3, RingTypes
    <2>2. \A x \in 1..slots_tail : slots[x] \in 0..h.slots
      <3>1. PICK R : R = 0..h.slots
        OBVIOUS
      <3>2. slots \in Seq(R) /\ Len(slots) = slots_tail
        BY <3>1, RingTypes
      <3>3. \A x \in 1..Len(slots) : slots[x] \in R
        BY SMT, <3>2
      <3> QED
        BY <3>1, <3>2, <3>3
    <2> QED
      BY <1>1, <2>1, <2>2
  <1>5. SlotTypes'
    <2>1. /\ slots' \in Seq(0..h.slots) /\ Len(slots') = slots_tail' /\ slots_head' \in 0..slots_tail'
          /\ slots_tail <= slots_tail'
      BY <1>2, <1>4, RingTypes
    <2>2. \A b \in Buckets, i \in Positions : key_idx'[b][i] \in 0..h.slots
      BY <1>2, SlotAfter DEF table
    <2> QED
      BY <1>2, <1>4, <2>1, <2>2, TypesKept DEF NoSlot
  <1> DEFINE p == <<"ring", n>>
             r == <<"call", w>>
  <1>6. \A q, s : AtEntry(q, s)' <=> AtEntry(q, s)
    BY <1>2, EntriesStay
  <1>7. AtRing(p, t) /\ \A q, s : AtRing(q, s)' <=> AtRing(q, s) /\ q # p
    <2>1. n \in (slots_head + 1)..slots_tail
      BY SMTT(20), <1>2, <1>4, RingTypes
    <2>2. \A m : m \in (n + 1)..slots_tail <=> m \in (slots_head + 1)..slots_tail /\ m # n
      BY SMTT(20), <1>2, <1>4, RingTypes
    <2>3. AtRing(p, t)
      BY <1>1, <2>1 DEF AtRing
    <2>4. ASSUME NEW q, NEW s PROVE AtRing(q, s)' <=> AtRing(q, s) /\ q # p
      <3>1. AtRing(q, s)' <=> \E m \in (n + 1)..slots_tail : q = <<"ring", m>> /\ slots[m] = s
        BY <1>2 DEF AtRing
      <3>2. \A m : <<"ring", m>> = p <=> m = n
        OBVIOUS
      <3> HIDE DEF p
      <3> QED
        BY <2>2, <3>1, <3>2 DEF AtRing
    <2> QED
      BY <2>3, <2>4
  <1>8. \A q, s : AtCall(q, s) => OtherCall(w, q, s) \/ (q = r /\ s = EMPTY_SLOT)
    BY <1>2, Calls
  <1>9. /\ \A q, s : OtherCall(w, q, s) => AtCall(q, s) /\ AtCall(q, s)'
        /\ \A q, s : AtCall(q, s)' => OtherCall(w, q, s) \/ (q = r /\ s = t)
        /\ AtCall(r, t)'
    BY <1>2, Calls
  <1>10. p[1] = "ring"
    BY SMT
  <1> HIDE DEF p, r
  <1>11. Moved(p, r, t)
    BY <1>6, <1>7, <1>9, <1>10, Kinds DEF Holds, Moved
  <1>12. \A q, s : s \in 1..h.slots /\ Holds(q, s) => \E x : Holds(x, s)'
    <2> SUFFICES ASSUME NEW q, NEW s, s \in 1..h.slots, Holds(q, s) PROVE \E x : Holds(x, s)'
      OBVIOUS
    <2>1. CASE q = p
      <3>1. AtRing(p, s)
        BY <1>10, <2>1, Kinds DEF Holds
      <3>2. s = t
        BY <1>1, <3>1 DEF AtRing, p
      <3> QED
        BY <1>9, <3>2 DEF Holds
    <2>2. CASE q # p
      BY <1>6, <1>7, <1>8, <1>9, <2>2, EmptyIsNone DEF Holds
    <2> QED
      BY <2>1, <2>2
  <1>13. OnePlace'
    BY <1>2, <1>11, OneMoved
  <1>14. SomePlace => SomePlace'
    BY <1>2, <1>12, SomeKept
  <1> QED
    BY <1>5, <1>13, <1>14

LEMMA ReturnedSlots ==
  ASSUME TableInv, SlotTypes, OnePlace, NEW w \in Writers, Returned(w), slots_tail = loc[w].pos
  PROVE  SlotTypes' /\ OnePlace' /\ (SomePlace => SomePlace')
  <1>1. PICK n, t, R : n = slots_tail + 1 /\ t = loc[w].slot /\ R = 0..h.slots
    OBVIOUS
  <1>2. /\ Turn(w) /\ UNCHANGED <<table, slots_head>> /\ loc'[w].slot = EMPTY_SLOT /\ h' = h
        /\ slots_tail' = n /\ pc'[w] = "done" /\ pc[w] = "back_put"
    BY <1>1 DEF Returned, Turn
  <1>3. /\ slots \in Seq(R) /\ Len(slots) = slots_tail /\ slots_tail \in Nat /\ t \in R
        /\ slots_head \in 0..slots_tail /\ EMPTY_SLOT \in R
    BY <1>1, RingTypes, SlotAfter
  <1>4. slots' = [m \in 1..n |-> IF m = n THEN t ELSE slots[m]]
    <2>1. (IF loc[w].pos < Len(slots) THEN Len(slots) ELSE loc[w].pos + 1) = n
      BY SMTT(20), <1>1, <1>3
    <2> QED
      BY <1>1, <2>1 DEF Returned
  <1>5. /\ slots' \in Seq(R) /\ Len(slots') = n /\ slots'[n] = t /\ slots_head \in 0..n
        /\ slots_tail <= n
        /\ \A m \in (slots_head + 1)..slots_tail : slots'[m] = slots[m] /\ m # n
        /\ n \in (slots_head + 1)..n
        /\ \A m : m \in (slots_head + 1)..n <=> m \in (slots_head + 1)..slots_tail \/ m = n
    <2>1. /\ slots_head \in 0..n /\ slots_tail <= n /\ n \in (slots_head + 1)..n
          /\ n \in 1..n /\ n \in Nat
          /\ \A m \in (slots_head + 1)..slots_tail : m \in 1..n /\ m # n
          /\ \A m : m \in (slots_head + 1)..n <=> m \in (slots_head + 1)..slots_tail \/ m = n
          /\ \A m \in 1..n : m # n => m \in 1..Len(slots)
      BY SMTT(20), <1>1, <1>3
    <2>2. \A m \in 1..Len(slots) : slots[m] \in R
      BY SMT, <1>3
    <2>3. \A m \in 1..n : slots'[m] = IF m = n THEN t ELSE slots[m]
      BY <1>4
    <2>4. \A m \in 1..n : slots'[m] \in R
      BY <1>3, <2>1, <2>2, <2>3
    <2>5. slots' = [m \in 1..n |-> slots'[m]]
      BY <1>4
    <2>6. slots' \in [1..n -> R]
      BY <2>4, <2>5
    <2>7. slots' \in Seq(R) /\ Len(slots') = n
      BY SMTT(20), <2>1, <2>6
    <2> QED
      BY <2>1, <2>3, <2>7
  <1>6. SlotTypes'
    <2>1. \A b \in Buckets, i \in Positions : key_idx'[b][i] \in 0..h.slots
      BY <1>2, SlotAfter DEF table
    <2> QED
      BY <1>1, <1>2, <1>3, <1>5, <2>1, TypesKept
  <1> DEFINE p == <<"call", w>>
             r == <<"ring", n>>
  <1>7. \A q, s : AtEntry(q, s)' <=> AtEntry(q, s)
    BY <1>2, EntriesStay
  <1>8. /\ \A q, s : AtRing(q, s)' => AtRing(q, s) \/ (q = r /\ s = t)
        /\ \A q, s : AtRing(q, s) => AtRing(q, s)'
        /\ AtRing(r, t)'
    <2>1. ASSUME NEW q, NEW s
          PROVE  AtRing(q, s)' <=> \E m \in (slots_head + 1)..n : q = <<"ring", m>> /\ slots'[m] = s
      BY <1>2 DEF AtRing
    <2>2. ASSUME NEW q, NEW s, AtRing(q, s)' PROVE AtRing(q, s) \/ (q = r /\ s = t)
      <3>1. PICK m \in (slots_head + 1)..n : q = <<"ring", m>> /\ slots'[m] = s
        BY <2>1, <2>2
      <3>2. CASE m = n
        BY <1>5, <3>1, <3>2
      <3>3. CASE m # n
        <4>1. m \in (slots_head + 1)..slots_tail /\ slots[m] = s
          BY <1>5, <3>1, <3>3
        <4> QED
          BY <3>1, <4>1 DEF AtRing
      <3> QED
        BY <3>2, <3>3
    <2>3. ASSUME NEW q, NEW s, AtRing(q, s) PROVE AtRing(q, s)'
      <3>1. PICK m \in (slots_head + 1)..slots_tail : q = <<"ring", m>> /\ slots[m] = s
        BY <2>3 DEF AtRing
      <3>2. m \in (slots_head + 1)..n /\ slots'[m] = s
        BY <1>5, <3>1
      <3> QED
        BY <2>1, <3>1, <3>2
    <2>4. AtRing(r, t)'
      BY <1>5, <2>1
    <2> QED
      BY <2>2, <2>3, <2>4
  <1>9. /\ \A q, s : AtCall(q, s) <=> OtherCall(w, q, s) \/ (q = p /\ s = t)
        /\ \A q, s : AtCall(q, s)' <=> OtherCall(w, q, s) \/ (q = p /\ s = EMPTY_SLOT)
        /\ \A q, s : OtherCall(w, q, s) => q # p
    BY <1>1, <1>2, Calls
  <1>10. p[1] = "call"
    BY SMT
  <1> HIDE DEF p, r
  <1>11. Moved(p, r, t)
    BY <1>7, <1>8, <1>9, <1>10, Kinds, EmptyIsNone DEF Holds, Moved
  <1>12. \A q, s : s \in 1..h.slots /\ Holds(q, s) => \E x : Holds(x, s)'
    BY <1>7, <1>8, <1>9 DEF Holds
  <1>13. OnePlace'
    BY <1>2, <1>11, OneMoved
  <1>14. SomePlace => SomePlace'
    BY <1>2, <1>12, SomeKept
  <1> QED
    BY <1>6, <1>13, <1>14

LEMMA PutsSlots ==
  ASSUME TableInv, SlotTypes, OnePlace, NEW w \in Writers, NEW k, NEW b, NEW i, Puts(w, k, b, i)
  PROVE  SlotTypes' /\ OnePlace' /\ (SomePlace => SomePlace')
  <1>1. PICK t : t = loc[w].slot
    OBVIOUS
  <1>2. /\ Turn(w) /\ UNCHANGED freeSlots /\ loc'[w].slot = EMPTY_SLOT /\ h' = h
        /\ pc'[w] = "done" /\ b \in Buckets /\ i \in Positions /\ PutEntry(b, i, k, t)
        /\ Hole(b, i) \/ key_idx[b][i] = EMPTY_SLOT
        /\ \A c, j : Hole(c, j) => c = b /\ j = i
    BY <1>1 DEF Puts, Turn
  <1>3. /\ key_idx'[b][i] = t
        /\ \A c \in Buckets, j \in Positions : c # b \/ j # i => key_idx'[c][j] = key_idx[c][j]
    <2>1. key_idx' = With(key_idx, b, i, t) /\ Grid(key_idx, Buckets, Positions)
      BY <1>2 DEF TableInv, EntriesOK, Grid, PutEntry, With
    <2> QED
      BY SMTT(20), <1>2, <2>1, Cells
  <1>4. \A c, j : ~Hole(c, j)'
    BY HoleAfter DEF Puts
  <1>5. SlotTypes'
    <2>1. ASSUME NEW c \in Buckets, NEW j \in Positions PROVE key_idx'[c][j] \in 0..h.slots
      <3>1. CASE c = b /\ j = i
        BY <1>1, <1>3, <3>1, SlotAfter
      <3>2. CASE c # b \/ j # i
        <4>1. key_idx'[c][j] = key_idx[c][j]
          BY <1>3, <3>2
        <4> QED
          BY <4>1, SlotAfter
      <3> QED
        BY <3>1, <3>2
    <2> QED
      BY <1>2, <2>1, SlotAfter, TypesSame
  <1> DEFINE p == <<"call", w>>
             r == <<"entry", <<b, i>>>>
  <1>6. \A q, s : AtRing(q, s)' <=> AtRing(q, s)
    BY <1>2, RingSame DEF freeSlots
  <1>7. /\ \A q, s : AtCall(q, s) <=> OtherCall(w, q, s) \/ (q = p /\ s = t)
        /\ \A q, s : AtCall(q, s)' <=> OtherCall(w, q, s) \/ (q = p /\ s = EMPTY_SLOT)
        /\ \A q, s : OtherCall(w, q, s) => q # p
    BY <1>1, <1>2, Calls
  <1>8. /\ \A s : AtEntry(r, s)' <=> s = t
        /\ \A s : AtEntry(r, s) => s = EMPTY_SLOT
    BY <1>2, <1>3, <1>4, EntryAt
  <1>9. \A q, s : q # r => (AtEntry(q, s)' <=> AtEntry(q, s))
    <2>1. PICK S : S = {<<b, i>>}
      OBVIOUS
    <2>2. ASSUME NEW c \in Buckets, NEW j \in Positions, <<c, j>> \notin S
          PROVE  (Hole(c, j)' <=> Hole(c, j)) /\ key_idx'[c][j] = key_idx[c][j]
      <3>1. c # b \/ j # i
        BY <2>1, <2>2
      <3> QED
        BY <1>2, <1>3, <1>4, <3>1
    <2>3. /\ \A q, s : AtEntry(q, s) /\ (\A x \in S : q # <<"entry", x>>) => AtEntry(q, s)'
          /\ \A q, s : AtEntry(q, s)' /\ (\A x \in S : q # <<"entry", x>>) => AtEntry(q, s)
      BY <1>2, <2>2, EntriesSame
    <2>4. \A q : q # r => \A x \in S : q # <<"entry", x>>
      BY <2>1
    <2> QED
      BY <2>3, <2>4
  <1>10. p[1] = "call"
    BY SMT
  <1> HIDE DEF p, r
  <1>11. Moved(p, r, t)
    BY <1>6, <1>7, <1>8, <1>9, <1>10, Kinds, EmptyIsNone DEF Holds, Moved
  <1>12. \A q, s : s \in 1..h.slots /\ Holds(q, s) => \E x : Holds(x, s)'
    BY <1>6, <1>7, <1>8, <1>9, EmptyIsNone DEF Holds
  <1>13. OnePlace'
    BY <1>2, <1>11, OneMoved
  <1>14. SomePlace => SomePlace'
    BY <1>2, <1>12, SomeKept
  <1> QED
    BY <1>5, <1>13, <1>14

LEMMA ShiftsSlots ==
  ASSUME TableInv, SlotTypes, OnePlace, NEW w \in Writers, NEW b, NEW i, NEW c, NEW j,
         Shifts(w, b, i, c, j)
  PROVE  SlotTypes' /\ OnePlace' /\ (SomePlace => SomePlace')
  <1>1. PICK t : t = key_idx[c][j]
    OBVIOUS
  <1>2. /\ Turn(w) /\ UNCHANGED freeSlots /\ loc'[w].slot = loc[w].slot /\ h' = h
        /\ pc'[w] = "move" /\ b \in Buckets /\ i \in Positions /\ c \in Buckets /\ j \in Positions
        /\ pc[w] = "move" /\ AtHole(loc[w], b, i) /\ AtHole(loc'[w], c, j)
        /\ key_idx' = With(key_idx, b, i, t)
    BY <1>1, Shapes DEF Shifts, Turn, TableInv
  <1>3. /\ key_idx'[b][i] = t
        /\ \A x \in Buckets, y \in Positions : x # b \/ y # i => key_idx'[x][y] = key_idx[x][y]
    <2>1. Grid(key_idx, Buckets, Positions)
      BY DEF EntriesOK, Grid, TableInv
    <2> QED
      BY SMTT(20), <1>2, <2>1, Cells
  <1>4. \A x, y : (Hole(x, y) <=> x = b /\ y = i) /\ (Hole(x, y)' <=> x = c /\ y = j)
    <2>1. \A x, y : AtHole(loc'[w], x, y) <=> x = c /\ y = j
      BY <1>2 DEF AtHole
    <2>2. /\ \A x, y : Hole(x, y) <=> x = b /\ y = i
          /\ \A x, y : Hole(x, y)' <=> pc'[w] = "move" /\ AtHole(loc'[w], x, y)
      BY <1>2, MoverHoles
    <2> QED
      BY <1>2, <2>1, <2>2
  <1>5. SlotTypes'
    <2>1. ASSUME NEW x \in Buckets, NEW y \in Positions PROVE key_idx'[x][y] \in 0..h.slots
      <3>1. CASE x = b /\ y = i
        BY <1>1, <1>2, <1>3, <3>1, SlotAfter
      <3>2. CASE x # b \/ y # i
        <4>1. key_idx'[x][y] = key_idx[x][y]
          BY <1>3, <3>2
        <4> QED
          BY <4>1, SlotAfter
      <3> QED
        BY <3>1, <3>2
    <2> QED
      BY <1>2, <2>1, SlotAfter, TypesSame DEF NoSlot
  <1> DEFINE p == <<"entry", <<c, j>>>>
             r == <<"entry", <<b, i>>>>
  <1>6. \A q, s : AtRing(q, s)' <=> AtRing(q, s)
    BY <1>2, RingSame DEF freeSlots
  <1>7. \A q, s : AtCall(q, s)' <=> AtCall(q, s)
    BY <1>2, Calls
  <1>8. /\ \A s : ~AtEntry(r, s) /\ ~AtEntry(p, s)'
        /\ p # r => \A s : (AtEntry(p, s) <=> s = t) /\ (AtEntry(r, s)' <=> s = t)
    <2>1. \A s : ~AtEntry(r, s) /\ ~AtEntry(p, s)'
      BY <1>2, <1>4, EntryAt
    <2>2. ASSUME p # r PROVE \A s : (AtEntry(p, s) <=> s = t) /\ (AtEntry(r, s)' <=> s = t)
      <3>1. ~(c = b /\ j = i)
        BY <2>2
      <3>2. ~Hole(c, j) /\ ~Hole(b, i)'
        BY <1>4, <3>1
      <3>3. \A s : AtEntry(p, s) <=> ~Hole(c, j) /\ key_idx[c][j] = s
        BY <1>2, EntryAt
      <3>4. \A s : AtEntry(r, s)' <=> ~Hole(b, i)' /\ key_idx'[b][i] = s
        BY <1>2, EntryAt
      <3> QED
        BY <1>1, <1>3, <3>2, <3>3, <3>4
    <2> QED
      BY <2>1, <2>2
  <1>9. \A q, s : q # r /\ q # p => (AtEntry(q, s)' <=> AtEntry(q, s))
    <2>1. PICK S : S = {<<b, i>>, <<c, j>>}
      OBVIOUS
    <2>2. ASSUME NEW x \in Buckets, NEW y \in Positions, <<x, y>> \notin S
          PROVE  (Hole(x, y)' <=> Hole(x, y)) /\ key_idx'[x][y] = key_idx[x][y]
      <3>1. (x # b \/ y # i) /\ (x # c \/ y # j)
        BY <2>1, <2>2
      <3> QED
        BY <1>3, <1>4, <3>1
    <2>3. /\ \A q, s : AtEntry(q, s) /\ (\A x \in S : q # <<"entry", x>>) => AtEntry(q, s)'
          /\ \A q, s : AtEntry(q, s)' /\ (\A x \in S : q # <<"entry", x>>) => AtEntry(q, s)
      BY <1>2, <2>2, EntriesSame
    <2>4. \A q : q # r /\ q # p => \A x \in S : q # <<"entry", x>>
      BY <2>1
    <2> QED
      BY <2>3, <2>4
  <1>10. p[1] = "entry" /\ r[1] = "entry"
    BY SMT
  <1> HIDE DEF p, r
  <1>11. Moved(p, r, t)
    <2> SUFFICES ASSUME NEW q, NEW s, s \in 1..h.slots, Holds(q, s)'
                 PROVE  (Holds(q, s) /\ q # p) \/ (q = r /\ s = t /\ Holds(p, t))
      BY DEF Moved
    <2>1. CASE AtRing(q, s)' \/ AtCall(q, s)'
      BY <1>6, <1>7, <1>10, <2>1, Kinds DEF Holds
    <2>2. CASE AtEntry(q, s)'
      BY <1>8, <1>9, <2>2 DEF Holds
    <2> QED
      BY <2>1, <2>2 DEF Holds
  <1>12. \A q, s : s \in 1..h.slots /\ Holds(q, s) => \E x : Holds(x, s)'
    <2> SUFFICES ASSUME NEW q, NEW s, Holds(q, s) PROVE \E x : Holds(x, s)'
      OBVIOUS
    <2>1. CASE AtEntry(q, s)
      BY <1>8, <1>9, <2>1 DEF Holds
    <2> QED
      BY <1>6, <1>7, <2>1 DEF Holds
  <1>13. OnePlace'
    BY <1>2, <1>11, OneMoved
  <1>14. SomePlace => SomePlace'
    BY <1>2, <1>12, SomeKept
  <1> QED
    BY <1>5, <1>13, <1>14

LEMMA ClosesSlots ==
  ASSUME TableInv, SlotTypes, OnePlace, NEW w \in Writers, NEW b, NEW i, Closes(w, b, i)
  PROVE  SlotTypes' /\ OnePlace' /\ (SomePlace => SomePlace')
  <1>1. /\ Turn(w) /\ UNCHANGED freeSlots /\ loc'[w].slot = loc[w].slot /\ h' = h
        /\ pc'[w] = "expand" /\ b \in Buckets /\ i \in Positions
        /\ pc[w] = "move" /\ AtHole(loc[w], b, i)
        /\ key_idx' = With(key_idx, b, i, EMPTY_SLOT)
    BY Shapes DEF Closes, Turn, TableInv
  <1>2. /\ key_idx'[b][i] = EMPTY_SLOT
        /\ \A x \in Buckets, y \in Positions : x # b \/ y # i => key_idx'[x][y] = key_idx[x][y]
    <2>1. Grid(key_idx, Buckets, Positions)
      BY DEF EntriesOK, Grid, TableInv
    <2> QED
      BY SMTT(20), <1>1, <2>1, Cells
  <1>3. \A x, y : (Hole(x, y) <=> x = b /\ y = i) /\ ~Hole(x, y)'
    <2>1. /\ \A x, y : Hole(x, y) <=> x = b /\ y = i
          /\ \A x, y : Hole(x, y)' <=> pc'[w] = "move" /\ AtHole(loc'[w], x, y)
      BY <1>1, MoverHoles
    <2> QED
      BY <1>1, <2>1
  <1>4. SlotTypes'
    <2>1. ASSUME NEW x \in Buckets, NEW y \in Positions PROVE key_idx'[x][y] \in 0..h.slots
      <3>1. CASE x = b /\ y = i
        BY <1>2, <3>1, SlotAfter
      <3>2. CASE x # b \/ y # i
        <4>1. key_idx'[x][y] = key_idx[x][y]
          BY <1>2, <3>2
        <4> QED
          BY <4>1, SlotAfter
      <3> QED
        BY <3>1, <3>2
    <2> QED
      BY <1>1, <2>1, SlotAfter, TypesSame DEF NoSlot
  <1> DEFINE r == <<"entry", <<b, i>>>>
  <1>5. \A q, s : AtRing(q, s)' <=> AtRing(q, s)
    BY <1>1, RingSame DEF freeSlots
  <1>6. \A q, s : AtCall(q, s)' <=> AtCall(q, s)
    BY <1>1, Calls
  <1>7. \A s : ~AtEntry(r, s) /\ (AtEntry(r, s)' => s = EMPTY_SLOT)
    <2>1. \A s : AtEntry(r, s) <=> ~Hole(b, i) /\ key_idx[b][i] = s
      BY <1>1, EntryAt
    <2>2. \A s : AtEntry(r, s)' <=> ~Hole(b, i)' /\ key_idx'[b][i] = s
      BY <1>1, EntryAt
    <2> QED
      BY <1>2, <1>3, <2>1, <2>2
  <1>8. \A q, s : q # r => (AtEntry(q, s)' <=> AtEntry(q, s))
    <2>1. PICK S : S = {<<b, i>>}
      OBVIOUS
    <2>2. ASSUME NEW x \in Buckets, NEW y \in Positions, <<x, y>> \notin S
          PROVE  (Hole(x, y)' <=> Hole(x, y)) /\ key_idx'[x][y] = key_idx[x][y]
      <3>1. x # b \/ y # i
        BY <2>1, <2>2
      <3> QED
        BY <1>2, <1>3, <3>1
    <2>3. /\ \A q, s : AtEntry(q, s) /\ (\A x \in S : q # <<"entry", x>>) => AtEntry(q, s)'
          /\ \A q, s : AtEntry(q, s)' /\ (\A x \in S : q # <<"entry", x>>) => AtEntry(q, s)
      BY <1>1, <2>2, EntriesSame
    <2>4. \A q : q # r => \A x \in S : q # <<"entry", x>>
      BY <2>1
    <2> QED
      BY <2>3, <2>4
  <1> HIDE DEF r
  <1>9. \A q, s : s \in 1..h.slots => (Holds(q, s)' <=> Holds(q, s))
    BY <1>5, <1>6, <1>7, <1>8, EmptyIsNone DEF Holds
  <1> QED
    BY <1>1, <1>4, <1>9, NoneMoved, SomeKept

LEMMA OpensSlots ==
  ASSUME TableInv, SlotTypes, OnePlace, NEW w \in Writers, Opens(w)
  PROVE  SlotTypes' /\ OnePlace' /\ (SomePlace => SomePlace')
  <1>1. /\ Turn(w) /\ UNCHANGED <<table, freeSlots>> /\ loc'[w].slot = loc[w].slot /\ h' = h
        /\ pc'[w] = "move" /\ pc[w] = "move_lock" /\ \A v \in Writers : v # w => pc[v] # "move"
    BY DEF Opens, Turn
  <1>2. key_idx' = key_idx /\ UNCHANGED <<slots, slots_tail, slots_head>>
    BY <1>1 DEF table, freeSlots
  <1>3. SlotTypes'
    BY <1>1, <1>2, SlotAfter, TypesSame DEF NoSlot
  <1>4. \A b, i : ~Hole(b, i) /\ (Hole(b, i)' => key_idx[b][i] = EMPTY_SLOT)
    <2>1. \A b, i : ~Hole(b, i)
      BY <1>1 DEF Hole
    <2>2. \A b, i : Hole(b, i)' => AtHole(loc'[w], b, i)
      BY <1>1, HoleAfter
    <2> QED
      BY <2>1, <2>2 DEF Opens
  <1>5. \A q, s : AtRing(q, s)' <=> AtRing(q, s)
    BY <1>2, RingSame
  <1>6. \A q, s : AtCall(q, s)' <=> AtCall(q, s)
    BY <1>1, Calls
  <1>7. \A q, s : s # EMPTY_SLOT => (AtEntry(q, s)' <=> AtEntry(q, s))
    <2>1. Buckets' = Buckets /\ Positions' = Positions
      BY <1>1, HashKept DEF TableInv
    <2>2. ASSUME NEW q, NEW s, s # EMPTY_SLOT PROVE AtEntry(q, s) => AtEntry(q, s)'
      BY <1>2, <1>4, <2>1, <2>2 DEF AtEntry
    <2>3. ASSUME NEW q, NEW s, s # EMPTY_SLOT PROVE AtEntry(q, s)' => AtEntry(q, s)
      BY <1>2, <1>4, <2>1, <2>3 DEF AtEntry
    <2> QED
      BY <2>2, <2>3
  <1>8. \A q, s : s \in 1..h.slots => (Holds(q, s)' <=> Holds(q, s))
    BY <1>5, <1>6, <1>7, EmptyIsNone DEF Holds
  <1> QED
    BY <1>1, <1>3, <1>8, NoneMoved, SomeKept

\* A call that fails loses its slot, but does not put it anywhere else.
LEMMA LostSlots ==
  ASSUME TableInv, SlotTypes, OnePlace, NEW w \in Writers, Lost(w) \/ Drops(w)
  PROVE  SlotTypes' /\ OnePlace'
  <1>1. /\ Turn(w) /\ UNCHANGED <<table, freeSlots>> /\ loc'[w].slot = EMPTY_SLOT /\ h' = h
        /\ pc'[w] = "done" /\ pc[w] \in {"ext", "back_load"}
    BY DEF Lost, Drops, Turn
  <1>2. key_idx' = key_idx /\ UNCHANGED <<slots, slots_tail, slots_head>>
    BY <1>1 DEF table, freeSlots
  <1>3. SlotTypes'
    BY <1>1, <1>2, SlotAfter, TypesSame
  <1>4. \A q, s : AtEntry(q, s)' <=> AtEntry(q, s)
    BY <1>1, EntriesStay
  <1>5. \A q, s : AtRing(q, s)' <=> AtRing(q, s)
    BY <1>2, RingSame
  <1>6. \A q, s : s # EMPTY_SLOT /\ AtCall(q, s)' => AtCall(q, s)
    BY <1>1, Calls
  <1>7. \A q, s : s \in 1..h.slots /\ Holds(q, s)' => Holds(q, s)
    BY <1>4, <1>5, <1>6, EmptyIsNone DEF Holds
  <1> QED
    BY <1>1, <1>3, <1>7, NoneMoved

LEMMA SlotEnds ==
  ASSUME SlotTypes
  PROVE  slots_tail \in Nat /\ slots_head \in Nat /\ slots_tail - slots_head \in Nat
  <1>1. slots \in Seq(0..h.slots) /\ Len(slots) = slots_tail /\ slots_head \in 0..slots_tail
    BY DEF SlotTypes
  <1> QED
    BY SMT, <1>1

\* The limits exclude it.
LEMMA NeverLost ==
  ASSUME SlotInv, ~raced, LimitsSuffice, h.capacity \in Nat, NEW w \in Writers, Lost(w) \/ Drops(w)
  PROVE  FALSE
  <1>1. CASE Lost(w)
    BY <1>1 DEF Lost, LimitsSuffice
  <1>2. CASE Drops(w)
    <2>1. slots_tail - slots_head < h.capacity /\ slots_tail - slots_head >= h.capacity
      BY <1>2 DEF Drops, LimitsSuffice
    <2>2. slots_tail - slots_head \in Nat
      BY SlotEnds DEF SlotInv
    <2> QED
      BY SMT, <2>1, <2>2
  <1> QED
    BY <1>1, <1>2

LEMMA EffectSlots ==
  ASSUME TableInv, SlotInv, NEW w \in Writers, Effect(w), ~raced'
  PROVE  /\ ~raced /\ SlotTypes' /\ OnePlace'
         /\ SomePlace => SomePlace' \/ Lost(w) \/ Drops(w)
  <1>1. ~raced /\ (Takes(w) => slots_head = loc[w].pos) /\ (Returned(w) => slots_tail = loc[w].pos)
    <2>1. ASSUME Takes(w) PROVE ~raced /\ slots_head = loc[w].pos
      BY <2>1 DEF Takes
    <2>2. ASSUME Returned(w) PROVE ~raced /\ slots_tail = loc[w].pos
      BY <2>2 DEF Returned
    <2>3. ASSUME UNCHANGED freeSlots PROVE ~raced
      BY <2>3 DEF freeSlots
    <2>4. Takes(w) \/ Returned(w) \/ UNCHANGED freeSlots
      BY DEF Effect, Plain, Lost, Drops, Opens, Puts, Shifts, Closes
    <2> QED
      BY <2>1, <2>2, <2>3, <2>4
  <1>2. SlotTypes /\ OnePlace
    BY <1>1 DEF SlotInv
  <1>3. ASSUME Plain(w) \/ Takes(w) \/ Returned(w) \/ Opens(w)
        PROVE  SlotTypes' /\ OnePlace' /\ (SomePlace => SomePlace')
    BY <1>1, <1>2, <1>3, PlainSlots, TakesSlots, ReturnedSlots, OpensSlots
  <1>4. ASSUME NEW k, NEW b, NEW i, Puts(w, k, b, i)
        PROVE  SlotTypes' /\ OnePlace' /\ (SomePlace => SomePlace')
    BY <1>2, <1>4, PutsSlots
  <1>5. ASSUME NEW b, NEW i, NEW c, NEW j, Shifts(w, b, i, c, j)
        PROVE  SlotTypes' /\ OnePlace' /\ (SomePlace => SomePlace')
    BY <1>2, <1>5, ShiftsSlots
  <1>6. ASSUME NEW b, NEW i, Closes(w, b, i)
        PROVE  SlotTypes' /\ OnePlace' /\ (SomePlace => SomePlace')
    BY <1>2, <1>6, ClosesSlots
  <1>7. ASSUME Lost(w) \/ Drops(w) PROVE SlotTypes' /\ OnePlace'
    BY <1>2, <1>7, LostSlots
  <1> QED
    BY <1>1, <1>3, <1>4, <1>5, <1>6, <1>7 DEF Effect

LEMMA SlotsStutter == ASSUME UNCHANGED vars PROVE (SlotInv => SlotInv') /\ (CoverInv => CoverInv')
  <1>1. /\ h' = h /\ raced' = raced
        /\ UNCHANGED <<key_idx, slots, slots_tail, slots_head, pc, loc>>
    BY DEF vars
  <1>2. Buckets' = Buckets /\ Positions' = Positions
    BY <1>1 DEF Buckets, Positions, MainBuckets, ExtBuckets
  <1>3. \A b, i : Hole(b, i)' <=> Hole(b, i)
    BY <1>1 DEF Hole
  <1>4. \A q, s : AtEntry(q, s)' <=> AtEntry(q, s)
    BY <1>1, <1>2, <1>3 DEF AtEntry
  <1>5. \A q, s : (AtRing(q, s)' <=> AtRing(q, s)) /\ (AtCall(q, s)' <=> AtCall(q, s))
    BY <1>1 DEF AtRing, AtCall
  <1>6. \A q, s : Holds(q, s)' <=> Holds(q, s)
    BY <1>4, <1>5 DEF Holds
  <1>7. SlotTypes => SlotTypes'
    BY <1>1, <1>2 DEF SlotTypes
  <1> QED
    BY <1>1, <1>6, <1>7 DEF SlotInv, CoverInv, OnePlace, SomePlace

LEMMA SlotStep == ASSUME TableInv, SlotInv, [Next]_vars PROVE SlotInv'
  <1>1. CASE Next
    <2>1. PICK w \in Writers : Effect(w)
      BY <1>1, NextEffect
    <2> QED
      BY <2>1, EffectSlots DEF SlotInv
  <1>2. CASE UNCHANGED vars
    BY <1>2, SlotsStutter
  <1> QED
    BY <1>1, <1>2

LEMMA CoverStep ==
  ASSUME TableInv, SlotInv, CoverInv, LimitsSuffice, h.capacity \in Nat, [Next]_vars
  PROVE  CoverInv'
  <1>1. CASE Next
    <2>1. PICK w \in Writers : Effect(w)
      BY <1>1, NextEffect
    <2>2. ASSUME ~raced' PROVE SomePlace'
      <3>1. ~raced /\ (SomePlace => SomePlace' \/ Lost(w) \/ Drops(w))
        BY <2>1, <2>2, EffectSlots
      <3>2. SomePlace
        BY <3>1 DEF CoverInv
      <3> QED
        BY <3>1, <3>2, NeverLost
    <2> QED
      BY <2>2 DEF CoverInv
  <1>2. CASE UNCHANGED vars
    BY <1>2, SlotsStutter
  <1> QED
    BY <1>1, <1>2

\* At first the ring has all the slots, and nothing else has any.
LEMMA InitSlots == ASSUME Init PROVE SlotInv /\ CoverInv
  <1>1. TableInv
    BY InitTable
  <1>2. PICK N : N = h.slots
    OBVIOUS
  <1>3. N \in Nat
    BY <1>1, <1>2 DEF TableInv, HashOK
  <1>4. slots = [n \in 1..N |-> n] /\ slots_tail = N /\ slots_head = 0
    BY <1>2 DEF Init
  <1>5. /\ slots \in Seq(0..N) /\ Len(slots) = slots_tail /\ slots_head \in 0..slots_tail
        /\ (slots_head + 1)..slots_tail = 1..N
    BY SMTT(20), <1>3, <1>4
  <1>6. \A b \in Buckets, i \in Positions : key_idx[b][i] = EMPTY_SLOT
    BY DEF Init
  <1>7. \A w \in Writers : pc[w] = "idle" /\ loc[w].slot = EMPTY_SLOT
    BY DEF Init, Idle
  <1>8. SlotTypes
    BY <1>2, <1>3, <1>5, <1>6, <1>7, EmptyIsNone DEF SlotTypes
  <1>9. \A q, s : s \in 1..N => (Holds(q, s) <=> q = <<"ring", s>>)
    <2>1. ASSUME NEW q, NEW s \in 1..N PROVE AtRing(q, s) <=> q = <<"ring", s>>
      BY <1>4, <1>5 DEF AtRing
    <2>2. ASSUME NEW q, NEW s \in 1..N PROVE ~AtEntry(q, s) /\ ~AtCall(q, s)
      BY <1>2, <1>6, <1>7, EmptyIsNone DEF AtEntry, AtCall
    <2> QED
      BY <2>1, <2>2 DEF Holds
  <1>10. OnePlace
    <2> SUFFICES ASSUME NEW s \in 1..N, NEW p, NEW q, Holds(p, s), Holds(q, s) PROVE p = q
      BY <1>2 DEF OnePlace
    <2>1. p = <<"ring", s>> /\ q = <<"ring", s>>
      BY <1>9
    <2> QED
      BY <2>1
  <1>11. SomePlace
    <2> SUFFICES ASSUME NEW s \in 1..N PROVE \E q : Holds(q, s)
      BY <1>2 DEF SomePlace
    <2>1. Holds(<<"ring", s>>, s)
      BY <1>9
    <2> QED
      BY <2>1
  <1> QED
    BY <1>8, <1>10, <1>11 DEF SlotInv, CoverInv

-----------------------------------------------------------------------------
(***************************************************************************)
(* What the places say of the table.                                       *)
(***************************************************************************)

\* No entry is a hole while nobody has the lock.
LEMMA FreeOfHoles == ASSUME TableInv, lock = None PROVE \A b, i : ~Hole(b, i)
  <1>1. ASSUME NEW b, NEW i, Hole(b, i) PROVE FALSE
    <2>1. PICK w \in Writers : pc[w] = "move"
      BY <1>1 DEF Hole
    <2>2. lock = w
      BY <2>1 DEF TableInv, WriterOK
    <2> QED
      BY <2>2, WritersAssumption
  <1> QED
    BY <1>1

\* While nobody has the lock, the places are those of the specification.
LEMMA InUse ==
  ASSUME TableInv, SlotTypes, lock = None, NEW p \in Used
  PROVE  /\ key_idx[p[1]][p[2]] \in 1..h.slots /\ p = <<p[1], p[2]>>
         /\ AtEntry(<<"entry", p>>, key_idx[p[1]][p[2]])
  <1>1. PICK b \in Buckets, i \in Positions : p = <<b, i>> /\ key_idx[p[1]][p[2]] # EMPTY_SLOT
    BY SMT DEF Used
  <1>2. p[1] = b /\ p[2] = i
    BY SMT, <1>1
  <1>3. key_idx[b][i] \in 0..h.slots /\ key_idx[b][i] # EMPTY_SLOT
    BY <1>1, <1>2 DEF SlotTypes
  <1>4. key_idx[b][i] \in 1..h.slots
    BY SMT, <1>3 DEF EMPTY_SLOT, TableInv, HashOK
  <1>5. ~Hole(b, i)
    BY FreeOfHoles
  <1>6. AtEntry(<<"entry", p>>, key_idx[b][i])
    BY <1>1, <1>5 DEF AtEntry
  <1> QED
    BY <1>1, <1>2, <1>4, <1>6

Held == {loc[w].slot : w \in {v \in Writers : pc[v] # "done"}} \ {EMPTY_SLOT}

LEMMA HeldByCall ==
  ASSUME SlotTypes, TableInv
  PROVE  /\ \A s \in Held : s \in 1..h.slots /\ \E w \in Writers : AtCall(<<"call", w>>, s)
         /\ \A q, s : s \in 1..h.slots /\ AtCall(q, s) => s \in Held
  <1>1. ASSUME NEW s \in Held PROVE s \in 1..h.slots /\ \E w \in Writers : AtCall(<<"call", w>>, s)
    <2>1. PICK w \in Writers : s = loc[w].slot
      BY DEF Held
    <2>2. s \in 0..h.slots /\ s # EMPTY_SLOT
      BY <2>1 DEF SlotTypes, Held
    <2>3. s \in 1..h.slots
      BY SMT, <2>2 DEF EMPTY_SLOT, TableInv, HashOK
    <2> QED
      BY <2>1, <2>3 DEF AtCall
  <1>2. ASSUME NEW q, NEW s \in 1..h.slots, AtCall(q, s) PROVE s \in Held
    <2>1. PICK w \in Writers : loc[w].slot = s
      BY <1>2 DEF AtCall
    <2>2. s # EMPTY_SLOT
      BY EmptyIsNone
    <2>3. pc[w] # "done"
      BY <2>1, <2>2 DEF SlotTypes, NoSlot
    <2> QED
      BY <2>1, <2>2, <2>3 DEF Held
  <1> QED
    BY <1>1, <1>2

\* The slots are in the places of the specification, in one each.
LEMMA Disjoint ==
  ASSUME TableInv, SlotTypes, OnePlace, lock = None
  PROVE  /\ \A p, q \in Used : p # q => key_idx[p[1]][p[2]] # key_idx[q[1]][q[2]]
         /\ {key_idx[p[1]][p[2]] : p \in Used} \cap InRing = {}
         /\ Held \cap InRing = {} /\ Held \cap {key_idx[p[1]][p[2]] : p \in Used} = {}
  <1>1. ASSUME NEW s \in InRing, s \in 1..h.slots
        PROVE  \E n : AtRing(<<"ring", n>>, s)
    BY DEF InRing, AtRing
  <1>2. ASSUME NEW p \in Used, NEW q \in Used, key_idx[p[1]][p[2]] = key_idx[q[1]][q[2]]
        PROVE  p = q
    <2>1. PICK s : s = key_idx[p[1]][p[2]]
      OBVIOUS
    <2>2. s \in 1..h.slots /\ AtEntry(<<"entry", p>>, s) /\ AtEntry(<<"entry", q>>, s)
      BY <1>2, <2>1, InUse
    <2>3. <<"entry", p>> = <<"entry", q>>
      BY <2>2 DEF OnePlace, Holds
    <2> QED
      BY SMT, <2>3
  <1>3. \A m, n : <<"entry", m>> # <<"ring", n>> /\ <<"call", m>> # <<"ring", n>>
                  /\ <<"call", m>> # <<"entry", n>>
    BY SMT
  <1>4. ASSUME NEW p \in Used, NEW s, s = key_idx[p[1]][p[2]]
        PROVE  s \in 1..h.slots /\ Holds(<<"entry", p>>, s)
    BY <1>4, InUse DEF Holds
  <1>5. ASSUME NEW p \in Used, key_idx[p[1]][p[2]] \in InRing PROVE FALSE
    <2>1. PICK s : s = key_idx[p[1]][p[2]]
      OBVIOUS
    <2>2. s \in 1..h.slots /\ Holds(<<"entry", p>>, s)
      BY <1>4, <2>1
    <2>3. PICK n : Holds(<<"ring", n>>, s)
      BY <1>1, <1>5, <2>1, <2>2 DEF Holds
    <2> QED
      BY <1>3, <2>2, <2>3 DEF OnePlace
  <1>6. ASSUME NEW s \in Held, s \in InRing PROVE FALSE
    <2>1. PICK w \in Writers : s \in 1..h.slots /\ Holds(<<"call", w>>, s)
      BY HeldByCall DEF Holds
    <2>2. PICK n : Holds(<<"ring", n>>, s)
      BY <1>1, <1>6, <2>1 DEF Holds
    <2> QED
      BY <1>3, <2>1, <2>2 DEF OnePlace
  <1>7. ASSUME NEW p \in Used, key_idx[p[1]][p[2]] \in Held PROVE FALSE
    <2>1. PICK s : s = key_idx[p[1]][p[2]]
      OBVIOUS
    <2>2. s \in 1..h.slots /\ Holds(<<"entry", p>>, s)
      BY <1>4, <2>1
    <2>3. PICK w \in Writers : Holds(<<"call", w>>, s)
      BY <1>7, <2>1, HeldByCall DEF Holds
    <2> QED
      BY <1>3, <2>2, <2>3 DEF OnePlace
  <1> QED
    BY <1>2, <1>5, <1>6, <1>7

LEMMA Covered ==
  ASSUME TableInv, SlotTypes, SomePlace, lock = None
  PROVE  ({key_idx[p[1]][p[2]] : p \in Used} \cup InRing \cup Held) \ {EMPTY_SLOT} = 1..h.slots
  <1>1. ASSUME NEW s \in 1..h.slots
        PROVE  s # EMPTY_SLOT /\ (s \in InRing \/ s \in Held \/ \E p \in Used : s = key_idx[p[1]][p[2]])
    <2>1. PICK q : Holds(q, s)
      BY DEF SomePlace
    <2>2. s # EMPTY_SLOT
      BY EmptyIsNone
    <2>3. ASSUME AtRing(q, s) PROVE s \in InRing
      BY <2>3 DEF AtRing, InRing
    <2>4. ASSUME AtCall(q, s) PROVE s \in Held
      BY <2>4, HeldByCall
    <2>5. ASSUME AtEntry(q, s) PROVE \E p \in Used : s = key_idx[p[1]][p[2]]
      <3>1. PICK b \in Buckets, i \in Positions : key_idx[b][i] = s
        BY <2>5 DEF AtEntry
      <3>2. PICK p : p = <<b, i>>
        OBVIOUS
      <3>3. p \in Buckets \X Positions /\ p[1] = b /\ p[2] = i
        BY SMT, <3>2
      <3> QED
        BY <2>2, <3>1, <3>3 DEF Used
    <2> QED
      BY <2>1, <2>2, <2>3, <2>4, <2>5 DEF Holds
  <1>2. \A p \in Used : key_idx[p[1]][p[2]] \in 1..h.slots
    BY InUse
  <1>3. \A s \in Held : s \in 1..h.slots
    BY HeldByCall
  <1>4. ASSUME NEW s \in InRing, s # EMPTY_SLOT PROVE s \in 1..h.slots
    <2>1. PICK n \in (slots_head + 1)..slots_tail : s = slots[n]
      BY DEF InRing
    <2>2. PICK R : R = 0..h.slots
      OBVIOUS
    <2>3. slots \in Seq(R) /\ Len(slots) = slots_tail /\ slots_head \in 0..slots_tail
      BY <2>2 DEF SlotTypes
    <2>4. s \in R
      BY SMTT(20), <2>1, <2>3
    <2> QED
      BY SMTT(20), <1>4, <2>2, <2>4 DEF EMPTY_SLOT, TableInv, HashOK
  <1> QED
    BY <1>1, <1>2, <1>3, <1>4

LEMMA NamedOnce ==
  ASSUME TableInv, SlotInv, ~raced PROVE SlotsUnique
  BY Disjoint DEF SlotsUnique, SlotInv

\* No slot is shared, for any number of writers: as long as no two calls on the
\* ring of free slots have overlapped, no key slot is in two bucket entries, and
\* none that is in an entry or with a call is free too (alloc_slot,
\* rte_hash_cuckoo_move_insert_mw).
SlotsApart ==
  ~raced => /\ SlotsUnique
            /\ lock = None => /\ {key_idx[p[1]][p[2]] : p \in Used} \cap InRing = {}
                              /\ Held \cap InRing = {}
                              /\ Held \cap {key_idx[p[1]][p[2]] : p \in Used} = {}

\* For every number of writers and every table, also one with extendable
\* buckets: until two calls on the ring of free slots overlap, alloc_slot never
\* hands out a slot that is in a bucket entry or with another call.
THEOREM NoSlotShared == Spec => []SlotsApart
  <1>1. Init => TableInv /\ SlotInv
    BY InitTable, InitSlots
  <1>2. TableInv /\ SlotInv /\ [Next]_vars => (TableInv /\ SlotInv)'
    BY TableStep, SlotStep
  <1>3. TableInv /\ SlotInv => SlotsApart
    BY Disjoint, NamedOnce DEF SlotsApart, SlotInv
  <1> QED
    BY <1>1, <1>2, <1>3, PTL DEF Spec

-----------------------------------------------------------------------------
(***************************************************************************)
(* The ring of free slots has room.                                        *)
(***************************************************************************)

\* The calls in progress, and those that have a slot or the number 0 of none.
Busy == {w \in Writers : pc[w] # "idle"}
Holding == {w \in Writers : pc[w] \notin NoSlot}

\* An alloc_slot that fails adds a 0 to the numbers that will be given back, but
\* then the ring is empty: they are all with calls in progress.
RoomInv ==
  /\ h.capacity \in Nat /\ h.slots \in Nat \ {0} /\ h.slots <= h.capacity
  /\ h.writers \in Nat /\ Cardinality(Busy) <= h.writers
  /\ ~raced => \E n \in {h.slots, h.writers} :
                 (slots_tail - slots_head) + Cardinality(Holding) <= n

\* rte_align32pow2 rounds up.
LEMMA PowerRounds ==
  ASSUME NEW x \in Nat, x <= ENTRIES_MAX
  PROVE  PowerOf2(x) \in Int /\ x <= PowerOf2(x)
  <1> DEFINE P(k) == 2^k >= x
             Q(k) == P(k) /\ \A j \in 0..(k - 1) : 2^j < x
             S == {k \in 0..30 : P(k)}
  <1>1. \A k \in 0..30 : 2^k \in Int
    BY SMT
  <1>2. 30 \in S
    BY SMT DEF ENTRIES_MAX
  <1>3. PICK k \in S : \A y \in S : k <= y
    <2>1. S \in SUBSET Nat
      BY SMT
    <2> QED
      BY <1>2, <2>1, LeastNat
  <1>4. Q(k)
    <2> SUFFICES ASSUME NEW j \in 0..(k - 1) PROVE 2^j < x
      BY <1>3
    <2>1. j \in 0..30 /\ ~(k <= j)
      BY SMT, <1>3
    <2>2. j \notin S
      BY <1>3, <2>1
    <2>3. ~(2^j >= x)
      BY <2>1, <2>2
    <2> QED
      BY SMT, <1>1, <2>1, <2>3
  <1>5. k \in 0..30
    BY <1>3
  <1> DEFINE n == CHOOSE i \in 0..30 : Q(i)
  <1>6. n \in 0..30 /\ Q(n)
    BY <1>4, <1>5
  <1>7. PowerOf2(x) = 2^n
    BY DEF PowerOf2
  <1> HIDE DEF n
  <1> QED
    BY SMT, <1>1, <1>6, <1>7

LEMMA InitRoom == ASSUME Init PROVE RoomInv
  <1>1. PICK p \in Tables : Valid(p) /\ h = Created(p)
    BY DEF Init
  <1>2. /\ h.slots = p.entries /\ h.capacity = PowerOf2(p.entries + 1) - 1
        /\ h.writers = p.writers
    BY SMT, <1>1 DEF Created
  <1>3. p.entries \in Nat /\ p.bucket_entries \in Nat \ {0} /\ p.writers \in Nat
    BY TablesAssumption
  <1>4. p.entries \in p.bucket_entries..ENTRIES_MAX /\ p.entries # ENTRIES_MAX
    BY <1>1 DEF Valid
  <1>5. ENTRIES_MAX \in Int
    BY SMT DEF ENTRIES_MAX
  <1>6. p.entries \in Nat \ {0} /\ p.entries + 1 \in Nat /\ p.entries + 1 <= ENTRIES_MAX
    BY SMT, <1>3, <1>4, <1>5
  <1>7. PowerOf2(p.entries + 1) \in Int /\ p.entries + 1 <= PowerOf2(p.entries + 1)
    BY <1>6, PowerRounds
  <1>8. h.capacity \in Nat /\ h.slots <= h.capacity
    BY SMT, <1>2, <1>6, <1>7
  <1>9. Busy = {} /\ Holding = {} /\ Cardinality({}) = 0
    BY FS_EmptySet DEF Init, Busy, Holding, NoSlot
  <1>10. slots_tail = h.slots /\ slots_head = 0
    BY DEF Init
  <1>11. 0 <= h.writers /\ (slots_tail - slots_head) + 0 <= h.slots
    BY SMT, <1>2, <1>3, <1>10
  <1> QED
    BY <1>2, <1>3, <1>6, <1>8, <1>9, <1>11 DEF RoomInv

LEMMA Counted ==
  /\ IsFiniteSet(Busy) /\ IsFiniteSet(Holding)
  /\ Cardinality(Busy) \in Nat /\ Cardinality(Holding) \in Nat
  /\ Holding \subseteq Busy /\ Cardinality(Holding) <= Cardinality(Busy)
  <1>1. Busy \subseteq Writers /\ Holding \subseteq Busy
    BY DEF Busy, Holding, NoSlot
  <1>2. IsFiniteSet(Busy)
    BY <1>1, WritersAssumption, FS_Subset
  <1> QED
    BY <1>1, <1>2, FS_Subset, FS_CardinalityType

LEMMA Goes ==
  ASSUME TableInv, NEW w \in Writers, NEW x, Goto(w, x)
  PROVE  pc'[w] = x
  BY DEF Goto, TableInv, LockOK

\* Where a call gets a slot.
LEMMA BeginsToHold ==
  ASSUME TableInv, NEW w \in Writers, Step(w)
  PROVE  /\ pc[w] # "idle"
         /\ pc[w] \in NoSlot /\ pc'[w] \notin NoSlot =>
              AllocTake(w) \/ (AllocLoad(w) /\ slots_head = slots_tail)
  <1>1. pc[w] # "idle"
    BY DEF Step, Check, AllocLoad, AllocTake, StoreKey, cuckoo_insert, SearchEntry, Expand,
           SearchFails, MoveLock, Move, MovePut, Extend, BackLoad, BackPut, Done
  <1>2. ASSUME Check(w) PROVE pc'[w] \in NoSlot
    BY <1>2, Goes DEF Check, ReturnRet, NoSlot
  <1>3. ASSUME AllocLoad(w), slots_head # slots_tail PROVE pc'[w] \in NoSlot
    BY <1>3, Goes DEF AllocLoad, NoSlot
  <1>4. ASSUME Done(w) PROVE pc'[w] \in NoSlot
    BY <1>4, Goes DEF Done, NoSlot
  <1>5. ASSUME StoreKey(w) \/ cuckoo_insert(w) \/ SearchEntry(w) \/ Expand(w) \/ SearchFails(w)
                 \/ MoveLock(w) \/ Move(w) \/ MovePut(w) \/ Extend(w) \/ BackLoad(w) \/ BackPut(w)
        PROVE  pc[w] \notin NoSlot
    BY <1>5 DEF StoreKey, cuckoo_insert, SearchEntry, Expand, SearchFails, MoveLock, Move, MovePut,
                Extend, BackLoad, BackPut, NoSlot
  <1> QED
    BY <1>1, <1>2, <1>3, <1>4, <1>5 DEF Step

\* What becomes of the two sets when w takes its turn.
LEMMA SetsAfter ==
  ASSUME TableInv, NEW w \in Writers, Turn(w)
  PROVE  /\ pc[w] # "idle" => Busy' \subseteq Busy
         /\ Busy' \subseteq Busy \cup {w}
         /\ pc'[w] \in NoSlot \/ pc[w] \notin NoSlot => Holding' \subseteq Holding
         /\ pc'[w] \in NoSlot => Holding' = Holding \ {w}
         /\ Holding' \subseteq Holding \cup {w}
  <1>1. \A v \in Writers : v # w => pc'[v] = pc[v]
    BY TurnOthers
  <1> QED
    BY <1>1 DEF Busy, Holding

LEMMA RoomStep == ASSUME TableInv, SlotInv, RoomInv, [Next]_vars PROVE RoomInv'
  <1>1. ASSUME h' = h, Cardinality(Busy') <= h.writers,
               ~raced' => \E n \in {h.slots, h.writers} :
                            (slots_tail' - slots_head') + Cardinality(Holding') <= n
        PROVE  RoomInv'
    BY <1>1 DEF RoomInv
  <1>2. ASSUME NEW w \in Writers, Step(w), h' = h PROVE RoomInv'
    <2>1. Effect(w)
      BY <1>2, StepEffect
    <2>2. Turn(w)
      BY <2>1 DEF Effect, Plain, Takes, Returned, Drops, Lost, Opens, Puts, Shifts, Closes
    <2>3. pc[w] # "idle"
      BY <1>2, BeginsToHold
    <2>4. Cardinality(Busy') <= Cardinality(Busy) /\ Cardinality(Busy') \in Nat
      BY <2>2, <2>3, SetsAfter, Counted, FS_Subset, FS_CardinalityType
    <2>5. Cardinality(Busy') <= h.writers
      BY SMT, <2>4, Counted DEF RoomInv
    <2>6. ASSUME ~raced'
          PROVE  \E n \in {h.slots, h.writers} :
                   (slots_tail' - slots_head') + Cardinality(Holding') <= n
      <3>1. ~raced /\ SlotTypes
        BY <2>1, <2>6, EffectSlots DEF SlotInv
      <3>2. slots_tail \in Nat /\ slots_head \in Nat
        BY <3>1, SlotEnds
      <3>3. PICK n \in {h.slots, h.writers} : (slots_tail - slots_head) + Cardinality(Holding) <= n
        BY <3>1 DEF RoomInv
      <3>4. n \in Nat
        BY <3>3 DEF RoomInv
      <3>5. IsFiniteSet(Holding') /\ Cardinality(Holding') \in Nat
        BY <2>2, SetsAfter, Counted, FS_Subset, FS_CardinalityType, FS_AddElement
      <3>6. CASE Returned(w)
        <4>1. /\ pc'[w] \in NoSlot /\ w \in Holding /\ slots_tail' = slots_tail + 1
              /\ slots_head' = slots_head
          BY <2>6, <3>6 DEF Returned, Holding, NoSlot
        <4>2. Holding' = Holding \ {w}
          BY <2>2, <4>1, SetsAfter
        <4>3. Cardinality(Holding') = Cardinality(Holding) - 1
          BY <4>1, <4>2, Counted, FS_RemoveElement
        <4>4. (slots_tail' - slots_head') + Cardinality(Holding') <= n
          BY SMT, <3>2, <3>3, <3>4, <4>1, <4>3, Counted
        <4> QED
          BY <4>4
      <3>7. CASE Takes(w)
        <4>1. slots_tail' = slots_tail /\ slots_head' = slots_head + 1
          BY <2>6, <3>7 DEF Takes
        <4>2. Cardinality(Holding') <= Cardinality(Holding) + 1
          <5>1. IsFiniteSet(Holding \cup {w}) /\ Holding' \subseteq Holding \cup {w}
            BY <2>2, SetsAfter, Counted, FS_AddElement
          <5>2. /\ Cardinality(Holding') <= Cardinality(Holding \cup {w})
                /\ Cardinality(Holding \cup {w}) \in {Cardinality(Holding), Cardinality(Holding) + 1}
            BY <5>1, Counted, FS_Subset, FS_AddElement
          <5> QED
            BY SMT, <3>5, <5>2, Counted
        <4>3. (slots_tail' - slots_head') + Cardinality(Holding') <= n
          BY SMT, <3>2, <3>3, <3>4, <3>5, <4>1, <4>2, Counted
        <4> QED
          BY <4>3
      <3>8. CASE ~Returned(w) /\ ~Takes(w)
        <4>1. slots_tail' = slots_tail /\ slots_head' = slots_head
          BY <2>1, <3>8 DEF Effect, Plain, Lost, Drops, Opens, Puts, Shifts, Closes, freeSlots
        <4>2. CASE pc'[w] \in NoSlot \/ pc[w] \notin NoSlot
          <5>1. Cardinality(Holding') <= Cardinality(Holding)
            BY <2>2, <4>2, SetsAfter, Counted, FS_Subset
          <5>2. (slots_tail' - slots_head') + Cardinality(Holding') <= n
            BY SMT, <3>2, <3>3, <3>4, <3>5, <4>1, <5>1, Counted
          <5> QED
            BY <5>2
        <4>3. CASE pc'[w] \notin NoSlot /\ pc[w] \in NoSlot
          <5>1. slots_head = slots_tail
            BY <1>2, <3>8, <4>3, BeginsToHold, AllocTakeStep
          <5>2. Holding' \subseteq Busy' /\ IsFiniteSet(Busy')
            BY <2>2, <2>3, SetsAfter, Counted, FS_Subset DEF Holding, Busy, NoSlot
          <5>3. Cardinality(Holding') <= Cardinality(Busy')
            BY <5>2, FS_Subset
          <5>4. (slots_tail' - slots_head') + Cardinality(Holding') <= h.writers
            BY SMT, <2>4, <2>5, <3>2, <3>5, <4>1, <5>1, <5>3 DEF RoomInv
          <5> QED
            BY <5>4
        <4> QED
          BY <4>2, <4>3
      <3> QED
        BY <3>6, <3>7, <3>8
    <2> QED
      BY <1>1, <1>2, <2>5, <2>6
  <1>3. ASSUME NEW w \in Writers, NEW k \in h.keys, rte_hash_add_key(w, k) PROVE RoomInv'
    <2>1. /\ h' = h /\ UNCHANGED freeSlots /\ pc'[w] = "check" /\ pc[w] = "idle" /\ Turn(w)
          /\ Cardinality(Busy) < h.writers
      BY <1>3, Goes, AddKeyPlain DEF rte_hash_add_key, Plain, Busy
    <2>2. Holding' = Holding
      BY <2>1, SetsAfter DEF Holding, NoSlot
    <2>3. IsFiniteSet(Busy \cup {w}) /\ Busy' \subseteq Busy \cup {w}
      BY <2>1, SetsAfter, Counted, FS_AddElement
    <2>4. /\ Cardinality(Busy') <= Cardinality(Busy \cup {w}) /\ Cardinality(Busy') \in Nat
          /\ Cardinality(Busy \cup {w}) \in {Cardinality(Busy), Cardinality(Busy) + 1}
      BY <2>3, Counted, FS_Subset, FS_AddElement, FS_CardinalityType
    <2>5. Cardinality(Busy') <= h.writers
      BY SMT, <2>1, <2>4, Counted DEF RoomInv
    <2>6. slots_tail' = slots_tail /\ slots_head' = slots_head /\ raced' = raced
      BY <2>1 DEF freeSlots
    <2> QED
      BY <1>1, <2>1, <2>2, <2>5, <2>6 DEF RoomInv
  <1>4. CASE UNCHANGED vars
    <2>1. h' = h /\ Busy' = Busy /\ Holding' = Holding /\ UNCHANGED <<slots_tail, slots_head, raced>>
      BY <1>4 DEF vars, Busy, Holding
    <2> QED
      BY <1>1, <2>1 DEF RoomInv
  <1> QED
    BY <1>2, <1>3, <1>4 DEF Next

\* Up to as many writers as the ring has places.
LEMMA HasRoom ==
  ASSUME SlotInv, RoomInv, ~raced, h.writers <= h.capacity, NEW w \in Writers, pc[w] = "back_load"
  PROVE  slots_tail - slots_head < h.capacity
  <1>1. slots_tail - slots_head \in Nat
    BY SlotEnds DEF SlotInv
  <1>2. w \in Holding
    BY DEF Holding, NoSlot
  <1>3. Cardinality(Holding) # 0
    BY <1>2, Counted, FS_EmptySet
  <1>4. PICK n \in {h.slots, h.writers} : (slots_tail - slots_head) + Cardinality(Holding) <= n
    BY DEF RoomInv
  <1>5. n \in Nat /\ n <= h.capacity /\ h.capacity \in Nat
    BY <1>4 DEF RoomInv
  <1> QED
    BY SMT, <1>1, <1>3, <1>4, <1>5, Counted

\* A slot that enqueue_slot_back returns finds room in the ring of free slots, for
\* every table and up to as many writers as the ring has places, until two calls
\* on the ring overlap: the 0 that it also takes back does not fill it.
THEOREM FreeSlotsFit ==
  Spec => [](~raced /\ h.writers <= h.capacity =>
               \A w \in Writers : pc[w] = "back_load" => slots_tail - slots_head < h.capacity)
  <1>1. Init => TableInv /\ SlotInv /\ RoomInv
    BY InitTable, InitSlots, InitRoom
  <1>2. TableInv /\ SlotInv /\ RoomInv /\ [Next]_vars => (TableInv /\ SlotInv /\ RoomInv)'
    BY TableStep, SlotStep, RoomStep
  <1>3. SlotInv /\ RoomInv =>
          (~raced /\ h.writers <= h.capacity =>
             \A w \in Writers : pc[w] = "back_load" => slots_tail - slots_head < h.capacity)
    BY HasRoom
  <1> QED
    BY <1>1, <1>2, <1>3, PTL DEF Spec

-----------------------------------------------------------------------------
LEMMA SafeWhenCovered ==
  ASSUME TableInv, SlotInv, CoverInv PROVE SafeWithoutSlotRace
  <1> SUFFICES ASSUME ~raced PROVE SlotsUnique /\ SlotsConserved
    BY DEF SafeWithoutSlotRace
  <1>1. SlotTypes /\ OnePlace /\ SomePlace
    BY DEF SlotInv, CoverInv
  <1>2. ASSUME lock = None
        PROVE  /\ ({key_idx[p[1]][p[2]] : p \in Used} \cup InRing \cup Held) \ {EMPTY_SLOT} = 1..h.slots
               /\ {key_idx[p[1]][p[2]] : p \in Used} \cap InRing = {}
               /\ Held \cap InRing = {} /\ Held \cap {key_idx[p[1]][p[2]] : p \in Used} = {}
    BY <1>1, <1>2, Disjoint, Covered
  <1> QED
    BY <1>2, NamedOnce DEF SlotsConserved, Held

\* Nor is a slot lost, as long as the limits of an insertion suffice: the two
\* returns of rte_hash_add_key that keep a slot are the one for want of an
\* extendable bucket and the one that meets a full ring of free slots.
THEOREM NoSlotLost == Spec /\ []LimitsSuffice => []SafeWithoutSlotRace
  <1>1. Init => TableInv /\ SlotInv /\ RoomInv /\ CoverInv
    BY InitTable, InitSlots, InitRoom
  <1>2. /\ TableInv /\ SlotInv /\ RoomInv /\ [Next]_vars => (TableInv /\ SlotInv /\ RoomInv)'
        /\ TableInv /\ SlotInv /\ RoomInv /\ CoverInv /\ LimitsSuffice /\ [Next]_vars
             => CoverInv'
    BY TableStep, SlotStep, RoomStep, CoverStep DEF RoomInv
  <1>3. TableInv /\ SlotInv /\ CoverInv => SafeWithoutSlotRace
    BY SafeWhenCovered
  <1> QED
    BY <1>1, <1>2, <1>3, PTL DEF Spec

-----------------------------------------------------------------------------
(***************************************************************************)
(* One writer at a time: a table created without flags.                    *)
(***************************************************************************)

\* The position that a call has loaded is still the end of the ring that it is
\* about to move, and only a table with extendable buckets uses them.
AloneInv ==
  /\ \A w \in Writers : pc[w] = "ext" => h.ext
  /\ ~h.writer_takes_lock =>
       /\ ~raced
       /\ \A w \in Writers : /\ pc[w] = "alloc_take" => loc[w].pos = slots_head
                             /\ pc[w] = "back_put" => loc[w].pos = slots_tail

LEMMA Comes ==
  ASSUME TableInv, NEW w \in Writers, Step(w)
  PROVE  /\ pc'[w] = "ext" => h.ext
         /\ pc'[w] = "alloc_take" => AllocLoad(w)
         /\ pc'[w] = "back_put" => BackLoad(w)
  <1> DEFINE Elsewhere == pc'[w] # "ext" /\ pc'[w] # "alloc_take" /\ pc'[w] # "back_put"
  <1>1. /\ \A ret : ReturnRet(w, ret) => Elsewhere
        /\ \A ret : GiveBack(w, ret) => Elsewhere
        /\ \A b, s : StartSearch(w, b, s) => Elsewhere
    BY Goes DEF ReturnRet, GiveBack, StartSearch
  <1>2. ASSUME Check(w) PROVE Elsewhere
    BY <1>1, <1>2, Goes DEF Check
  <1>3. ASSUME AllocTake(w) \/ StoreKey(w) \/ Expand(w) \/ Done(w) PROVE Elsewhere
    BY <1>3, Goes DEF AllocTake, StoreKey, Expand, Done
  <1>4. ASSUME cuckoo_insert(w) \/ MovePut(w) PROVE Elsewhere
    BY <1>1, <1>4 DEF cuckoo_insert, MovePut, ReturnSlot
  <1>5. ASSUME Extend(w) \/ BackPut(w) PROVE Elsewhere
    BY <1>1, <1>5 DEF Extend, BackPut, ReturnSlot
  <1>6. ASSUME SearchEntry(w) PROVE Elsewhere
    BY <1>6, Goes DEF SearchEntry
  <1>7. ASSUME SearchFails(w) PROVE Elsewhere \/ (pc'[w] = "ext" /\ h.ext)
    BY <1>1, <1>7, Goes DEF SearchFails
  <1>8. ASSUME MoveLock(w) PROVE Elsewhere
    BY <1>1, <1>8, Goes DEF MoveLock
  <1>9. ASSUME Move(w) PROVE Elsewhere
    BY <1>9, Goes DEF Move
  <1>10. ASSUME AllocLoad(w) PROVE pc'[w] = "store_key" \/ pc'[w] = "alloc_take"
    BY <1>10, Goes DEF AllocLoad
  <1>11. ASSUME BackLoad(w) PROVE pc'[w] = "back_put" \/ Elsewhere
    BY <1>1, <1>11, Goes DEF BackLoad
  <1> QED
    BY <1>2, <1>3, <1>4, <1>5, <1>6, <1>7, <1>8, <1>9, <1>10, <1>11 DEF Step

LEMMA Loaded ==
  ASSUME TableInv, NEW w \in Writers, h' = h
  PROVE  /\ AllocLoad(w) /\ pc'[w] = "alloc_take" => loc'[w].pos = slots_head'
         /\ BackLoad(w) /\ pc'[w] = "back_put" => loc'[w].pos = slots_tail'
  <1>1. PICK l : l = loc[w]
    OBVIOUS
  <1>2. IsLoc(l) /\ loc = [v \in Writers |-> loc[v]]
    BY <1>1 DEF TableInv, WriterOK, LockOK
  <1>3. ASSUME AllocLoad(w), pc'[w] = "alloc_take" PROVE loc'[w].pos = slots_head'
    <2>1. Goto(w, "store_key") \/ loc' = [loc EXCEPT ![w] = [l EXCEPT !.pos = slots_head]]
      BY <1>1, <1>3 DEF AllocLoad
    <2>2. loc'[w] = [l EXCEPT !.pos = slots_head]
      BY <1>2, <1>3, <2>1, Goes
    <2>3. slots_head' = slots_head
      BY <1>3 DEF AllocLoad, freeSlots
    <2> QED
      BY <1>2, <2>2, <2>3 DEF IsLoc, Locals
  <1>4. ASSUME BackLoad(w), pc'[w] = "back_put" PROVE loc'[w].pos = slots_tail'
    <2>1. loc' = [loc EXCEPT ![w] = [l EXCEPT !.pos = slots_tail]] /\ slots_tail' = slots_tail
      BY <1>1, <1>4, Goes DEF BackLoad, ReturnRet, freeSlots
    <2>2. loc'[w] = [l EXCEPT !.pos = slots_tail]
      BY <1>2, <2>1
    <2> QED
      BY <1>2, <2>1, <2>2 DEF IsLoc, Locals
  <1> QED
    BY <1>3, <1>4

LEMMA AloneStep == ASSUME TableInv, AloneInv, [Next]_vars PROVE AloneInv'
  <1>1. ASSUME NEW w \in Writers, Step(w), h' = h PROVE AloneInv'
    <2>1. Effect(w)
      BY <1>1, StepEffect
    <2>2. Turn(w)
      BY <2>1 DEF Effect, Plain, Takes, Returned, Drops, Lost, Opens, Puts, Shifts, Closes
    <2>3. \A v \in Writers : v # w => pc'[v] = pc[v] /\ loc'[v] = loc[v]
      BY <2>2, TurnOthers
    <2>4. \A v \in Writers : pc'[v] = "ext" => h.ext
      BY <1>1, <2>3, Comes DEF AloneInv
    <2>5. ASSUME ~h.writer_takes_lock
          PROVE  /\ ~raced'
                 /\ \A v \in Writers : /\ pc'[v] = "alloc_take" => loc'[v].pos = slots_head'
                                       /\ pc'[v] = "back_put" => loc'[v].pos = slots_tail'
      <3>1. pc[w] # "idle"
        BY <1>1 DEF Step, Check, AllocLoad, AllocTake, StoreKey, cuckoo_insert, SearchEntry, Expand,
                    SearchFails, MoveLock, Move, MovePut, Extend, BackLoad, BackPut, Done
      <3>2. \A v \in Writers : v # w => pc'[v] = "idle"
        BY <2>3, <2>5, <3>1 DEF TableInv, LockOK
      <3>3. /\ pc'[w] = "alloc_take" => loc'[w].pos = slots_head'
            /\ pc'[w] = "back_put" => loc'[w].pos = slots_tail'
        BY <1>1, Comes, Loaded
      <3>4. ~raced'
        <4>1. ASSUME Takes(w) PROVE ~raced'
          BY <2>5, <4>1 DEF Takes, AloneInv
        <4>2. ASSUME Returned(w) PROVE ~raced'
          BY <2>5, <4>2 DEF Returned, AloneInv
        <4>3. ASSUME UNCHANGED freeSlots PROVE ~raced'
          BY <2>5, <4>3 DEF freeSlots, AloneInv
        <4>4. Takes(w) \/ Returned(w) \/ UNCHANGED freeSlots
          BY <2>1 DEF Effect, Plain, Lost, Drops, Opens, Puts, Shifts, Closes
        <4> QED
          BY <4>1, <4>2, <4>3, <4>4
      <3> QED
        BY <3>2, <3>3, <3>4
    <2> QED
      BY <1>1, <2>4, <2>5 DEF AloneInv
  <1>2. ASSUME NEW w \in Writers, NEW k \in h.keys, rte_hash_add_key(w, k) PROVE AloneInv'
    <2>1. h' = h /\ UNCHANGED freeSlots /\ pc'[w] = "check" /\ Turn(w)
      BY <1>2, Goes, AddKeyPlain DEF rte_hash_add_key, Plain
    <2>2. \A v \in Writers : v # w => pc'[v] = pc[v] /\ loc'[v] = loc[v]
      BY <2>1, TurnOthers
    <2> QED
      BY <2>1, <2>2 DEF AloneInv, freeSlots
  <1>3. CASE UNCHANGED vars
    BY <1>3 DEF AloneInv, vars
  <1> QED
    BY <1>1, <1>2, <1>3 DEF Next

\* Neither of the two ways to lose a slot is open.
Kept == ~h.ext /\ h.writers <= h.capacity

LEMMA AloneCovers ==
  ASSUME TableInv, SlotInv, RoomInv, AloneInv, [Next]_vars
  PROVE  (Kept => CoverInv) => (Kept => CoverInv)'
  <1>1. CASE Next
    <2>1. PICK w \in Writers : Effect(w)
      BY <1>1, NextEffect
    <2>2. Kept' = Kept
      <3>1. h' = h
        BY ZenonT(30), <2>1 DEF Effect, Plain, Takes, Returned, Drops, Lost, Opens, Puts, Shifts,
             Closes, Turn
      <3> QED
        BY <3>1 DEF Kept
    <2>3. Lost(w) => h.ext
      BY DEF Lost, AloneInv
    <2>4. ASSUME ~raced, Kept, Drops(w) PROVE FALSE
      <3>1. slots_tail - slots_head < h.capacity /\ slots_tail - slots_head >= h.capacity
        BY <2>4, HasRoom DEF Drops, Kept
      <3>2. slots_tail - slots_head \in Nat /\ h.capacity \in Nat
        BY <2>4, SlotEnds DEF SlotInv, RoomInv
      <3> QED
        BY SMT, <3>1, <3>2
    <2>5. ASSUME ~raced', Kept, CoverInv PROVE SomePlace'
      BY <2>1, <2>3, <2>4, <2>5, EffectSlots DEF CoverInv, Kept
    <2> QED
      BY <2>2, <2>5 DEF CoverInv
  <1>2. CASE UNCHANGED vars
    BY <1>2, SlotsStutter DEF vars, Kept
  <1> QED
    BY <1>1, <1>2

\* A table without extendable buckets keeps all its slots, with up to as many
\* writers as the ring of free slots has places, until two calls on the ring
\* overlap (rte_hash_add_key, alloc_slot, enqueue_slot_back).
THEOREM PlainTableKeepsSlots ==
  Spec => [](~h.ext /\ h.writers <= h.capacity => SafeWithoutSlotRace)
  <1>1. Init => TableInv /\ SlotInv /\ RoomInv /\ AloneInv /\ CoverInv
    BY InitTable, InitSlots, InitRoom DEF Init, AloneInv
  <1>2. TableInv /\ SlotInv /\ RoomInv /\ AloneInv /\ [Next]_vars
          => (TableInv /\ SlotInv /\ RoomInv /\ AloneInv)'
    BY TableStep, SlotStep, RoomStep, AloneStep
  <1>3. TableInv /\ SlotInv /\ RoomInv /\ AloneInv /\ (Kept => CoverInv) /\ [Next]_vars
          => (Kept => CoverInv)'
    BY AloneCovers
  <1>4. TableInv /\ SlotInv /\ (Kept => CoverInv)
          => (~h.ext /\ h.writers <= h.capacity => SafeWithoutSlotRace)
    BY SafeWhenCovered DEF Kept
  <1> QED
    BY <1>1, <1>2, <1>3, <1>4, PTL DEF Spec

\* A table created without flags, so that one call follows the other: calls on
\* the ring of free slots never overlap, every key slot is in the ring, in a
\* bucket entry or with the call, and it is in only one of these
\* (rte_hash_create, alloc_slot, enqueue_slot_back).
THEOREM FlaglessTableSafe ==
  Spec => [](~h.ext /\ ~h.writer_takes_lock => SlotsUnique /\ SlotsConserved)
  <1>1. Init => TableInv /\ SlotInv /\ RoomInv /\ AloneInv
    BY InitTable, InitSlots, InitRoom DEF Init, AloneInv
  <1>2. TableInv /\ SlotInv /\ RoomInv /\ AloneInv /\ [Next]_vars
          => (TableInv /\ SlotInv /\ RoomInv /\ AloneInv)'
    BY TableStep, SlotStep, RoomStep, AloneStep
  <1>3. TableInv /\ RoomInv => (~h.writer_takes_lock => h.writers <= h.capacity)
    <2> SUFFICES ASSUME TableInv, RoomInv, ~h.writer_takes_lock PROVE h.writers <= h.capacity
      OBVIOUS
    <2>1. h.writers <= 1 /\ h.writers \in Nat
      BY DEF TableInv, HashOK
    <2>2. h.capacity \in Nat /\ h.slots \in Nat \ {0} /\ h.slots <= h.capacity
      BY DEF RoomInv
    <2> QED
      BY SMT, <2>1, <2>2
  <1>4. TableInv /\ RoomInv /\ AloneInv /\ (~h.ext /\ h.writers <= h.capacity => SafeWithoutSlotRace)
          => (~h.ext /\ ~h.writer_takes_lock => SlotsUnique /\ SlotsConserved)
    BY <1>3 DEF AloneInv, SafeWithoutSlotRace
  <1> QED
    BY <1>1, <1>2, <1>4, PlainTableKeepsSlots, PTL DEF Spec

=============================================================================
