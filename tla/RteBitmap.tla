------------------------------ MODULE RteBitmap ------------------------------
(***************************************************************************)
(* The two-level bitmap of rte_lib/include/rte_bitmap.h: array2 holds the  *)
(* bits, array1 one bit for each cache line of array2, and a cursor walks  *)
(* the lines that array1 says are not empty.  A slab is the set of the     *)
(* offsets of its bits; sizes count slabs, the unit of all the arithmetic. *)
(***************************************************************************)
EXTENDS Naturals, FiniteSets
LOCAL INSTANCE FiniteSetsExt

CONSTANTS SlabBits,      \* RTE_BITMAP_SLAB_BIT_SIZE
          LineSlabs,     \* RTE_BITMAP_CL_SLAB_SIZE
          ContextSlabs,  \* the slabs of struct rte_bitmap
          BitCounts,     \* n_bits of the bitmaps that are made
          SlabValues     \* what rte_bitmap_set_slab is given

ASSUME BitmapAssumption ==
  /\ \A k \in {SlabBits, LineSlabs} : \E e \in 1..7 : k = 2^e
  /\ ContextSlabs \in Nat \ {0}
  /\ BitCounts \subseteq Nat \ {0}
  /\ \A v \in SlabValues : v \subseteq 0..(SlabBits - 1)

VARIABLES bmp,    \* the bitmap
          n_bits, \* its size, 0 before it is made
          hollow  \* history: an empty slab was set since the bitmap was empty

bitmapVars == <<bmp, n_bits, hollow>>

LineBits == SlabBits * LineSlabs
Offsets == 0..(SlabBits - 1)

-----------------------------------------------------------------------------
CeilDiv(a, b) == (a + b - 1) \div b

\* __rte_bitmap_get_memory_footprint: the lines of array2, the slabs of array1
\* and the lines of the context with array1.
Array2Lines(n) == CeilDiv(n, LineBits)
Array1Slabs(n) ==
  LET k == CeilDiv(Array2Lines(n), SlabBits)
  IN CHOOSE p \in {2^e : e \in 0..20} : p >= k /\ p < 2 * k
ContextLines(n) == CeilDiv(ContextSlabs + Array1Slabs(n), LineSlabs)
Footprint(n) == (ContextLines(n) + Array2Lines(n)) * LineSlabs

Index2Set(b) == (b.index1 * SlabBits + b.offset1) * LineSlabs
Index1Inc(b) == [b EXCEPT !.index1 = (b.index1 + 1) % b.array1_size]

ScanInit(b) ==
  LET c == [b EXCEPT !.index1 = b.array1_size - 1, !.offset1 = SlabBits - 1]
  IN [c EXCEPT !.index2 = Index2Set(c) + LineSlabs, !.go2 = 0]

\* Of slab i, the bits that __rte_bitmap_clear_slab_overhead_bits keeps.
Below(i, pos) == {o \in Offsets : i * SlabBits + o < pos}

\* A bitmap for n bits of which the first k1 of array1 and the first k2 of
\* array2 are set.
NewBitmap(n, k1, k2) ==
  LET s1 == Array1Slabs(n)
      s2 == Array2Lines(n) * LineSlabs
  IN ScanInit([array1 |-> [i \in 0..(s1 - 1) |-> Below(i, k1)],
               array2 |-> [i \in 0..(s2 - 1) |-> Below(i, k2)],
               array1_size |-> s1, array2_size |-> s2,
               index1 |-> 0, offset1 |-> 0, index2 |-> 0, go2 |-> 0])

\* rte_bitmap_init, in memory that is large enough.
rte_bitmap_init(n) ==
  /\ n_bits = 0
  /\ n_bits' = n
  /\ bmp' = NewBitmap(n, 0, 0)
  /\ hollow' = FALSE

\* rte_bitmap_init_with_all_set, in memory of exactly the footprint.
rte_bitmap_init_with_all_set(n) ==
  /\ n_bits = 0
  /\ n_bits' = n
  /\ bmp' = NewBitmap(n, Array2Lines(n), n)
  /\ hollow' = FALSE

rte_bitmap_reset ==
  /\ n_bits > 0
  /\ bmp' = NewBitmap(n_bits, 0, 0)
  /\ hollow' = FALSE
  /\ UNCHANGED n_bits

-----------------------------------------------------------------------------
Slab2(pos) == pos \div SlabBits
Slab1(pos) == pos \div (SlabBits * LineBits)
Offset1(pos) == (pos \div LineBits) % SlabBits

rte_bitmap_get(pos) == pos % SlabBits \in bmp.array2[Slab2(pos)]

\* rte_bitmap_set_slab, and rte_bitmap_set of the single bit at pos.
rte_bitmap_set_slab(pos, slab) ==
  /\ n_bits > 0
  /\ bmp' = [bmp EXCEPT !.array2[Slab2(pos)] = @ \cup slab,
                        !.array1[Slab1(pos)] = @ \cup {Offset1(pos)}]
  /\ hollow' = (hollow \/ slab = {})
  /\ UNCHANGED n_bits

rte_bitmap_set(pos) == rte_bitmap_set_slab(pos, {pos % SlabBits})

\* Mutant: only the first half of the line is looked at.
LineNotEmptyHalf(a2, first) ==
  \E i \in first..(first + (LineSlabs \div 2) - 1) : a2[i] # {}

LineNotEmpty(a2, first) == \E i \in first..(first + LineSlabs - 1) : a2[i] # {}

rte_bitmap_clear(pos) ==
  LET index2 == Slab2(pos)
      a2 == [bmp.array2 EXCEPT ![index2] = @ \ {pos % SlabBits}]
      first == (index2 \div LineSlabs) * LineSlabs
      a1 == IF a2[index2] # {} \/ LineNotEmpty(a2, first) THEN bmp.array1
            ELSE [bmp.array1 EXCEPT ![Slab1(pos)] = @ \ {Offset1(pos)}]
  IN /\ n_bits > 0
     /\ bmp' = [bmp EXCEPT !.array1 = a1, !.array2 = a2]
     /\ UNCHANGED <<n_bits, hollow>>

-----------------------------------------------------------------------------
\* __rte_bitmap_mask1_get: the bits above the cursor.
Mask1(b) == {o \in Offsets : o > b.offset1}

\* __rte_bitmap_scan_search: the rest of the slab of the cursor, then all the
\* slabs of array1, this one again at the end.
ScanSearch(b) ==
  LET here == b.array1[b.index1] \cap Mask1(b)
      slab(k) == b.array1[(b.index1 + k) % b.array1_size]
      hits == {k \in 1..b.array1_size : slab(k) # {}}
  IN IF here # {} THEN [found |-> TRUE, b |-> [b EXCEPT !.offset1 = Min(here)]]
     ELSE IF hits = {}
     THEN [found |-> FALSE, b |-> Index1Inc([b EXCEPT !.offset1 = 0])]
     ELSE [found |-> TRUE,
           b |-> [b EXCEPT !.index1 = (@ + Min(hits)) % b.array1_size,
                           !.offset1 = Min(slab(Min(hits)))]]

\* __rte_bitmap_scan_read: the next slab of the line that is not empty; slab is
\* the one that is stored in *pos and *slab, if any.
ScanRead(b) ==
  LET end == ((b.index2 \div LineSlabs) + 1) * LineSlabs
      hits == {i \in b.index2..(end - 1) : b.array2[i] # {}}
      to(i) == [b EXCEPT !.index2 = i, !.go2 = i % LineSlabs]
  IN IF b.go2 = 0 THEN [found |-> FALSE, slab |-> {}, b |-> b]
     ELSE IF hits = {} THEN [found |-> FALSE, slab |-> {}, b |-> to(end)]
     ELSE [found |-> TRUE, slab |-> {Min(hits)}, b |-> to(Min(hits) + 1)]

ScanReadInit(b) == [b EXCEPT !.index2 = Index2Set(b), !.go2 = 1]

\* rte_bitmap_scan; that the second read finds something is not checked.
Scan(b) ==
  LET read == ScanRead(b)
      search == ScanSearch(read.b)
  IN IF read.found THEN read
     ELSE IF search.found
     THEN [ScanRead(ScanReadInit(search.b)) EXCEPT !.found = TRUE]
     ELSE [found |-> FALSE, slab |-> {}, b |-> search.b]

rte_bitmap_scan ==
  /\ n_bits > 0
  /\ bmp' = Scan(bmp).b
  /\ UNCHANGED <<n_bits, hollow>>

BitmapInit == bmp = << >> /\ n_bits = 0 /\ hollow = FALSE

BitmapNext ==
  \/ \E n \in BitCounts : rte_bitmap_init(n) \/ rte_bitmap_init_with_all_set(n)
  \/ rte_bitmap_reset
  \/ \E pos \in 0..(n_bits - 1) :
       \/ rte_bitmap_set(pos) \/ rte_bitmap_clear(pos)
       \/ \E v \in SlabValues :
            /\ \A o \in v : Slab2(pos) * SlabBits + o < n_bits
            /\ rte_bitmap_set_slab(pos, v)
  \/ rte_bitmap_scan

BitmapSpec == BitmapInit /\ [][BitmapNext]_bitmapVars

-----------------------------------------------------------------------------
\* The lines whose bit of array1 is set, by their first slab.
Marked == UNION {{(i * SlabBits + o) * LineSlabs : o \in bmp.array1[i]} : i \in DOMAIN bmp.array1}

NonEmpty == {first \in {i * LineSlabs : i \in 0..(Array2Lines(n_bits) - 1)} :
               LineNotEmpty(bmp.array2, first)}

\* "the bit in array1 is set only when there is at least one bit set within its
\* associated array2 bits, otherwise the bit in array1 is cleared", for every
\* line of array2 and for no other bit of array1.
SummaryExact == n_bits > 0 => Marked = NonEmpty

\* What the next k calls of rte_bitmap_scan return.
Scans(k) ==
  LET after[j \in 0..k] == IF j = 0 THEN bmp ELSE Scan(after[j - 1]).b
  IN [j \in 1..k |-> Scan(after[j - 1])]

\* Wherever earlier scans, sets and clears have left the cursor, a sweep of as
\* many scans as there are slabs with a bit returns each of these slabs once
\* (rte_bitmap_scan, "with automatic wrap-around"), and a scan finds nothing
\* only in an empty bitmap; for this array1 has to be exact, and it is as long as
\* rte_bitmap_set_slab was given no empty slab.  An empty slab marks its line all
\* the same, and every sweep has a call for the line that returns 1 and stores
\* no slab; the other lines are not disturbed.  The context, array1 and array2
\* lie one after the other in the footprint.
ScanSweeps ==
  n_bits > 0 =>
    LET busy == {i \in DOMAIN bmp.array2 : bmp.array2[i] # {}}
        sweep == Scans(Cardinality(busy) + Cardinality(Marked \ NonEmpty))
        stored == {j \in DOMAIN sweep : sweep[j].slab # {}}
    IN /\ NonEmpty \subseteq Marked
       /\ ~hollow => SummaryExact
       /\ UNION {sweep[j].slab : j \in stored} = busy /\ Cardinality(stored) = Cardinality(busy)
       /\ \A j \in DOMAIN sweep : sweep[j].found
       /\ Scan(bmp).found <=> Marked # {}
       /\ ContextSlabs + bmp.array1_size <= ContextLines(n_bits) * LineSlabs
       /\ ContextLines(n_bits) * LineSlabs + bmp.array2_size = Footprint(n_bits)
       /\ bmp.array2_size * SlabBits >= n_bits

=============================================================================
