--------------------------- MODULE RteRingCreate ---------------------------
(***************************************************************************)
(* rte_ring_create_elem, rte_ring_init, rte_ring_free and rte_ring_lookup  *)
(* of rte_lib/ring/rte_ring.c, called by several threads: the arithmetic   *)
(* on the size of a ring, and the list in which all rings are found.  The  *)
(* critical sections under the lock of the list are single steps.          *)
(***************************************************************************)
EXTENDS Naturals, Sequences, FiniteSets

CONSTANTS RingThreads, RingNames,
          Requests,    \* what the threads create: esize, count, flags
          Zones,       \* addresses of memory zones
          UintBits,    \* the width of an unsigned int
          HeaderSize,  \* sizeof(struct rte_ring)
          LineSize     \* RTE_CACHE_LINE_SIZE

UintMod == 2^UintBits

ASSUME UintAssumption ==
  /\ UintBits \in Nat \ {0} /\ 2^0 = 1
  /\ \A e \in 0..UintBits : 2^e \in Nat /\ (e < UintBits => 2^(e + 1) = 2 * (2^e))
ASSUME RequestsAssumption ==
  \A q \in Requests : q.esize \in 0..(UintMod - 1) /\ q.count \in 0..(UintMod - 1)
ASSUME ZonesAssumption ==
  /\ HeaderSize \in Nat /\ LineSize \in Nat \ {0}
  /\ IsFiniteSet(RingThreads)

NoZone == "NULL"

VARIABLES zones,   \* the name each live zone was reserved for
          rings,   \* what is written in each zone
          list,    \* the data of the entries of the list of rings
          tes,     \* history: entries allocated and not freed
          handed,  \* the rings that create returned and nobody has freed
          place,     \* per thread: place in its call
          arg      \* per thread: the request, name or ring of its call

regVars == <<zones, rings, list, tes, handed, place, arg>>

-----------------------------------------------------------------------------
IsPow2(k) == \E e \in 0..UintBits : k = 2^e

\* Mutant: the largest power of two below.
Align32pow2Down(k) == CHOOSE p \in 1..UintMod : IsPow2(p) /\ p <= k /\ k < 2 * p

\* rte_align32pow2: the next power of two, in unsigned arithmetic.
Align32pow2(k) ==
  IF k = 0 THEN 0
  ELSE (CHOOSE p \in 1..UintMod : IsPow2(p) /\ p >= k /\ p < 2 * k) % UintMod

\* POWEROF2, which takes 0 for a power of two, and RTE_RING_SZ_MASK.
CountOK(count) == (count = 0 \/ IsPow2(count)) /\ count <= (UintMod \div 2) - 1

Align(sz, to) == ((sz + to - 1) \div to) * to

\* rte_ring_get_memsize_elem, of valid arguments.
Memsize(esize, count) == Align(HeaderSize + ((count * esize) % UintMod), LineSize)

RoundedCount(q) ==
  IF "EXACT_SZ" \in q.flags THEN Align32pow2((q.count + 1) % UintMod) ELSE q.count

ArgumentsOK(q) == q.esize % 4 = 0 /\ CountOK(RoundedCount(q))

\* get_sync_type for one side: at most one of the flags of the side.
SyncFlags(s) == IF s = "prod" THEN {"SP_ENQ", "MP_RTS_ENQ", "MP_HTS_ENQ"}
                              ELSE {"SC_DEQ", "MC_RTS_DEQ", "MC_HTS_DEQ"}
SyncType(flags, s) ==
  LET f == flags \cap SyncFlags(s)
  IN CASE f = {} -> "MT"
       [] f \in {{"SP_ENQ"}, {"SC_DEQ"}} -> "ST"
       [] f \in {{"MP_RTS_ENQ"}, {"MC_RTS_DEQ"}} -> "RTS"
       [] f \in {{"MP_HTS_ENQ"}, {"MC_HTS_DEQ"}} -> "HTS"
       [] OTHER -> "EINVAL"

RING_F_MASK == SyncFlags("prod") \cup SyncFlags("cons") \cup {"EXACT_SZ"}

HTD_MAX_DEF == 8

NoRing == [name |-> NoZone, esize |-> 0, bytes |-> 0, size |-> 0, mask |-> 0,
           capacity |-> 0, prod_htd_max |-> 0, cons_htd_max |-> 0]

\* rte_ring_init in a zone of so many bytes where was is written: unknown flags
\* change nothing, contradictory ones leave an empty ring.
RingInit(was, q, name, bytes) ==
  LET size == RoundedCount(q)
      mask == (size + UintMod - 1) % UintMod
      capacity == IF "EXACT_SZ" \in q.flags THEN q.count ELSE mask
      htd(s) == IF SyncType(q.flags, s) = "RTS" THEN capacity \div HTD_MAX_DEF ELSE 0
  IN CASE ~(q.flags \subseteq RING_F_MASK) -> [was EXCEPT !.bytes = bytes]
       [] "EINVAL" \in {SyncType(q.flags, s) : s \in {"prod", "cons"}} ->
            [NoRing EXCEPT !.name = name, !.bytes = bytes]
       [] OTHER ->
            [name |-> name, esize |-> q.esize, bytes |-> bytes, size |-> size,
             mask |-> mask, capacity |-> capacity, prod_htd_max |-> htd("prod"),
             cons_htd_max |-> htd("cons")]

-----------------------------------------------------------------------------
EnterPlace(t, p) == place' = [place EXCEPT ![t] = p]

\* The entries for a ring, the first of some, and the list without one.
Entries(z) == {k \in DOMAIN list : list[k] = z}
FirstOf(ks) == CHOOSE k \in ks : \A j \in ks : k <= j
Without(s, i) == [k \in 1..(Len(s) - 1) |-> IF k < i THEN s[k] ELSE s[k + 1]]

\* Up to the lock: the arguments are checked and an entry is allocated.
Create(t, q, name) ==
  /\ place[t] = "idle"
  /\ \/ /\ ArgumentsOK(q)
        /\ arg' = [arg EXCEPT ![t] = [req |-> q, name |-> name]]
        /\ tes' = tes + 1
        /\ EnterPlace(t, "reserve")
     \/ UNCHANGED <<arg, tes, place>>
  /\ UNCHANGED <<zones, rings, list, handed>>

\* With the lock: reserve a zone, which fails for a name in use or if there is
\* no room, initialise it and add the entry.  The result of
\* rte_ring_init is ignored.
Reserve(t) ==
  LET q == arg[t].req
      name == arg[t].name
  IN /\ place[t] = "reserve"
     /\ \/ \E z \in Zones :
             /\ z \notin DOMAIN zones /\ \A y \in DOMAIN zones : zones[y] # name
             /\ zones' = [y \in DOMAIN zones \cup {z} |-> IF y = z THEN name ELSE zones[y]]
             /\ rings' = [rings EXCEPT ![z] =
                             RingInit(@, q, name, Memsize(q.esize, RoundedCount(q)))]
             /\ list' = Append(list, z)
             /\ handed' = handed \cup {z}
             /\ UNCHANGED tes
        \/ /\ tes' = tes - 1
           /\ UNCHANGED <<zones, rings, list, handed>>
     /\ EnterPlace(t, "idle")
     /\ arg' = [arg EXCEPT ![t] = NoZone]

\* rte_ring_free: the zone goes back before the lock is taken.
Free(t, z) ==
  /\ place[t] = "idle" /\ z \in handed
  /\ handed' = handed \ {z}
  /\ \/ /\ zones' = [y \in DOMAIN zones \ {z} |-> zones[y]]
        /\ arg' = [arg EXCEPT ![t] = z]
        /\ EnterPlace(t, "unlist")
     \/ UNCHANGED <<zones, arg, place>>     \* rte_memzone_free has failed
  /\ UNCHANGED <<rings, list, tes>>

\* Mutant: the entry stays in the list.
UnlistNothing(t) ==
  /\ place[t] = "unlist"
  /\ EnterPlace(t, "free_te")
  /\ UNCHANGED <<zones, rings, list, tes, handed, arg>>

\* With the lock: the first entry for this ring is removed.
Unlist(t) ==
  /\ place[t] = "unlist"
  /\ IF Entries(arg[t]) = {} THEN EnterPlace(t, "idle") /\ UNCHANGED list
     ELSE EnterPlace(t, "free_te") /\ list' = Without(list, FirstOf(Entries(arg[t])))
  /\ UNCHANGED <<zones, rings, tes, handed, arg>>

FreeEntry(t) ==
  /\ place[t] = "free_te"
  /\ tes' = tes - 1
  /\ EnterPlace(t, "idle")
  /\ arg' = [arg EXCEPT ![t] = NoZone]
  /\ UNCHANGED <<zones, rings, list, handed>>

\* rte_ring_lookup: the first entry whose ring has the name.
Lookup(name) ==
  LET hits == {k \in DOMAIN list : rings[list[k]].name = name}
  IN IF hits = {} THEN NoZone ELSE list[FirstOf(hits)]

RegInit ==
  /\ zones = << >> /\ rings = [z \in Zones |-> NoRing]
  /\ list = << >> /\ tes = 0 /\ handed = {}
  /\ place = [t \in RingThreads |-> "idle"]
  /\ arg = [t \in RingThreads |-> NoZone]

RegNext ==
  \E t \in RingThreads :
    \/ \E q \in Requests, n \in RingNames : Create(t, q, n)
    \/ Reserve(t) \/ Unlist(t) \/ FreeEntry(t)
    \/ \E z \in Zones : Free(t, z)

RegSpec == RegInit /\ [][RegNext]_regVars

-----------------------------------------------------------------------------
\* The threads between giving a zone back and removing its entry.
Unlisting(z) == {t \in RingThreads : place[t] = "unlist" /\ arg[t] = z}

\* Although rte_ring_free gives the zone back before it takes the lock, and
\* another thread may get the same zone at once, every live ring has one entry
\* in the list, every other entry belongs to a free in progress, and no entry
\* is leaked or freed twice; and while no free is in progress rte_ring_lookup
\* finds the live ring of a name and nothing else.
ListMatchesRings ==
  /\ \A z \in Zones :
       Cardinality(Entries(z))
         = Cardinality(Unlisting(z)) + (IF z \in DOMAIN zones THEN 1 ELSE 0)
  /\ tes = Len(list) + Cardinality({t \in RingThreads : place[t] \in {"reserve", "free_te"}})
  /\ (\A z \in Zones : Unlisting(z) = {}) =>
       \A n \in RingNames :
         LET live == {z \in DOMAIN zones : zones[z] = n}
         IN IF live = {} THEN Lookup(n) = NoZone ELSE {Lookup(n)} = live

\* A ring that rte_ring_create_elem returns has a power of two of slots, more
\* slots than objects it accepts, and room for all of them in its zone; for
\* requests with known flags, of at least one object, whose size does not wrap.
RingsFit ==
  \A z \in DOMAIN zones :
    LET g == rings[z]
    IN g.size > 0 /\ g.size * g.esize < UintMod =>
         /\ IsPow2(g.size) /\ g.mask = g.size - 1 /\ g.capacity < g.size
         /\ HeaderSize + (g.size * g.esize) <= g.bytes
         /\ g.prod_htd_max <= g.capacity /\ g.cons_htd_max <= g.capacity

=============================================================================
