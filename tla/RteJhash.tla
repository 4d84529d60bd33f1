------------------------------- MODULE RteJhash -------------------------------
(***************************************************************************)
(* The hash functions of rte_lib/rte_jhash.h, rte_jhash being the default  *)
(* function of the hash tables.  RTE_ARCH_X86 is not defined in the build, *)
(* so a key that is not at a multiple of 4 is read through the aligned     *)
(* words around it.  Words have 4 bytes of ByteBits bits; the distances of *)
(* the rotations are taken modulo the width.                               *)
(***************************************************************************)
EXTENDS Naturals, Sequences
LOCAL INSTANCE SequencesExt
LOCAL INSTANCE Bitwise

CONSTANTS ByteBits,   \* CHAR_BIT
          Golden,     \* RTE_JHASH_GOLDEN_RATIO
          Seeds,      \* values of the seeds
          Memories,   \* what may be around and in the key: sequences of bytes
          KeyLengths

ASSUME ByteAssumption == ByteBits \in Nat \ {0}

VARIABLE key   \* the memory, the place and length of the key, and the seeds

WordBits == 4 * ByteBits
WordMod == 2^WordBits

Add(x, y) == (x + y) % WordMod
Sub(x, y) == (x + WordMod - y) % WordMod

rot(x, k) ==
  LET d == k % WordBits
  IN ((x * (2^d)) % WordMod) + (x \div (2^(WordBits - d)))

-----------------------------------------------------------------------------
\* One line of __rte_jhash_mix: x -= z; x ^= rot(z, k); z += y.
MixStep(x, y, z, k) == <<Sub(x, z) ^^ rot(z, k), y, Add(z, y)>>

\* The six lines, the names turned by one after each.
rte_jhash_mix(s) ==
  LET line(t, k) == LET u == MixStep(t[1], t[2], t[3], k) IN <<u[2], u[3], u[1]>>
  IN FoldLeft(line, s, <<4, 6, 8, 16, 19, 4>>)

\* The seven of __rte_jhash_final: x ^= y; x -= rot(y, k), for c, a, b, c...
rte_jhash_final(s) ==
  LET one(t, i) ==
        LET x == <<3, 1, 2>>[((i - 1) % 3) + 1]
            y == <<2, 3, 1>>[((i - 1) % 3) + 1]
            k == <<14, 11, 25, 16, 4, 14, 24>>[i]
        IN [t EXCEPT ![x] = Sub(@ ^^ t[y], rot(t[y], k))]
  IN FoldLeft(one, s, <<1, 2, 3, 4, 5, 6, 7>>)

\* The aligned word at word address w of a little-endian memory.
WordAt(mem, w) ==
  LET byte(i) == IF 4 * w + i + 1 \in DOMAIN mem THEN mem[4 * w + i + 1] ELSE 0
  IN byte(0) + (byte(1) * 2^ByteBits) + (byte(2) * 2^(2 * ByteBits))
       + (byte(3) * 2^(3 * ByteBits))

\* Mutant: the shift goes the wrong way, as on a big-endian machine.
BIT_SHIFT_BE(x, y, k) == ((x * 2^k) % WordMod) + (y \div (2^(WordBits - k)))

\* BIT_SHIFT, cut to 32 bits by the addition or the mask that follows.
BIT_SHIFT(x, y, k) == (x \div (2^k)) + ((y * (2^(WordBits - k))) % WordMod)

\* Word i of the key at k: k[i], or put together from two words.
KeyWord(mem, k, i, s) ==
  IF s = 0 THEN WordAt(mem, k + i)
  ELSE BIT_SHIFT(WordAt(mem, k + i), WordAt(mem, k + i + 1), s)

\* What the last block adds for word i when n bytes of the key are left:
\* LOWER8b_MASK, LOWER16b_MASK and LOWER24b_MASK cut a word that is not whole.
LastWord(mem, k, i, s, n) ==
  IF n >= 4 * i + 4 THEN KeyWord(mem, k, i, s)
  ELSE IF n > 4 * i THEN KeyWord(mem, k, i, s) % (2^((n - 4 * i) * ByteBits))
  ELSE 0

\* __rte_jhash_2hashes.
jhash_2hashes(mem, at, length, pc, pb, check_align) ==
  LET k == at \div 4
      s == IF check_align THEN (at % 4) * ByteBits ELSE 0
      first == Add(Add(Golden, length % WordMod), pc)
      blocks == IF length = 0 THEN 0 ELSE (length - 1) \div 12
      block(t, j) ==
        rte_jhash_mix([i \in 1..3 |-> Add(t[i], KeyWord(mem, k + 3 * (j - 1), i - 1, s))])
      t == FoldLeft(block, <<first, first, Add(first, pb)>>, [j \in 1..blocks |-> j])
      last == [i \in 1..3 |->
                 Add(t[i], LastWord(mem, k + 3 * blocks, i - 1, s, length - 12 * blocks))]
      end == IF length = 0 THEN t ELSE rte_jhash_final(last)
  IN [pc |-> end[3], pb |-> end[2]]

rte_jhash_2hashes(mem, at, length, pc, pb) ==
  jhash_2hashes(mem, at, length, pc, pb, TRUE)
rte_jhash_32b_2hashes(mem, at, length, pc, pb) ==
  jhash_2hashes(mem, at, 4 * length, pc, pb, FALSE)
rte_jhash(mem, at, length, initval) ==
  rte_jhash_2hashes(mem, at, length, initval, 0).pc
rte_jhash_32b(mem, at, length, initval) ==
  rte_jhash_32b_2hashes(mem, at, length, initval, 0).pc

\* __rte_jhash_3words and the functions for 3, 2 and 1 words.
jhash_3words(a, b, c, initval) ==
  LET g == Add(Golden, initval)
  IN rte_jhash_final(<<Add(a, g), Add(b, g), Add(c, g)>>)[3]
rte_jhash_3words(a, b, c, initval) ==
  jhash_3words(Add(a, 12), Add(b, 12), Add(c, 12), initval)
rte_jhash_2words(a, b, initval) == jhash_3words(Add(a, 8), Add(b, 8), 8, initval)
rte_jhash_1word(a, initval) == jhash_3words(Add(a, 4), 4, 4, initval)

-----------------------------------------------------------------------------
JhashKeys == [mem : Memories, at : 0..7, length : KeyLengths, pc : Seeds, pb : Seeds]

JhashInit == key \in JhashKeys

\* The key alone, at the start of a memory that is zero after it.
Alone == SubSeq(key.mem, key.at + 1, key.at + key.length)

\* Two equal keys have equal hashes, wherever in memory they are and whatever
\* is next to them: "the memory region just after may be read (but not used in
\* the computation)" (__rte_jhash_2hashes, both ways to read the words); and
\* the functions for whole words agree with rte_jhash.
SameKeySameHash ==
  LET w(i) == WordAt(Alone, i)
      h == rte_jhash(Alone, 0, key.length, key.pc)
  IN /\ rte_jhash_2hashes(key.mem, key.at, key.length, key.pc, key.pb)
          = rte_jhash_2hashes(Alone, 0, key.length, key.pc, key.pb)
     /\ key.length % 4 = 0 => h = rte_jhash_32b(Alone, 0, key.length \div 4, key.pc)
     /\ key.length = 4 => h = rte_jhash_1word(w(0), key.pc)
     /\ key.length = 8 => h = rte_jhash_2words(w(0), w(1), key.pc)
     /\ key.length = 12 => h = rte_jhash_3words(w(0), w(1), w(2), key.pc)

=============================================================================
