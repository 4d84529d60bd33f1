------------------------------ MODULE RteWords ------------------------------
(***************************************************************************)
(* The operations on machine words of rte_lib/include: powers of 2, first  *)
(* and last set bits and alignment (rte_common.h), single bits             *)
(* (rte_bitops.h), byte order (generic/rte_byteorder.h) and division by a  *)
(* reciprocal (rte_reciprocal.h).                                          *)
(* A word is the set of its 1 bits, so that the operations on bits have    *)
(* their real width of 32 or 64.  Alignment and division are arithmetic of *)
(* words of NumBits bits.                                                  *)
(***************************************************************************)
EXTENDS Integers, FiniteSets
LOCAL INSTANCE FiniteSetsExt

CONSTANT NumBits    \* width of the numbers

ASSUME NumAssumption == NumBits \in 2..14 /\ NumBits % 2 = 0

Num == 0..(2^NumBits - 1)

VARIABLE operand  \* [bits, x, nr], a word and a bit of it; [a, d], two numbers;
                  \* or [size, minus, range, gap, suffix], a text after its blanks

-----------------------------------------------------------------------------
\* C's >>, + 1 and - 1 on words.
Shr(x, k) == {b - k : b \in {c \in x : c >= k}}
Inc(x, w) == LET zeros == (0..(w - 1)) \ x
             IN IF zeros = {} THEN {}
                ELSE (x \ 0..Min(zeros)) \cup {Min(zeros)}
Dec(x, w) == IF x = {} THEN 0..(w - 1)
             ELSE (x \ {Min(x)}) \cup 0..(Min(x) - 1)

\* Mutant: the shift by 16 is missing.
Combine32Short(x) ==
  LET s1 == x  \cup Shr(x, 1)
      s2 == s1 \cup Shr(s1, 2)
      s4 == s2 \cup Shr(s2, 4)
  IN s4 \cup Shr(s4, 8)

rte_combine32ms1b(x) ==
  LET s1 == x  \cup Shr(x, 1)
      s2 == s1 \cup Shr(s1, 2)
      s4 == s2 \cup Shr(s2, 4)
      s8 == s4 \cup Shr(s4, 8)
  IN s8 \cup Shr(s8, 16)

rte_combine64ms1b(x) == LET s16 == rte_combine32ms1b(x) IN s16 \cup Shr(s16, 32)

rte_is_power_of_2(n) == n # {} /\ n \cap Dec(n, 32) = {}

rte_align32pow2(x) == Inc(rte_combine32ms1b(Dec(x, 32)), 32)
rte_align64pow2(v) == Inc(rte_combine64ms1b(Dec(v, 64)), 64)

\* The subtraction x - (x >> 1), where x >> 1 has no bit that x has not.
rte_align32prevpow2(x) == LET c == rte_combine32ms1b(x) IN c \ Shr(c, 1)
rte_align64prevpow2(v) == LET c == rte_combine64ms1b(v) IN c \ Shr(c, 1)

\* __builtin_ctz and __builtin_clz: any number for 0, which C leaves undefined.
BuiltinCtz(x, w) == IF x = {} THEN 0..w ELSE {Min(x)}
BuiltinClz(x, w) == IF x = {} THEN 0..w ELSE {w - 1 - Max(x)}

\* The values these may return.
rte_bsf32(v) == BuiltinCtz(v, 32)
rte_bsf64(v) == BuiltinCtz(v, 64)
rte_bsf32_safe(v) == IF v = {} THEN [ret |-> 0, pos |-> {}] ELSE [ret |-> 1, pos |-> rte_bsf32(v)]
rte_bsf64_safe(v) == IF v = {} THEN [ret |-> 0, pos |-> {}] ELSE [ret |-> 1, pos |-> rte_bsf64(v)]
rte_log2_u32(v) == IF v = {} THEN {0} ELSE rte_bsf32(rte_align32pow2(v))
rte_log2_u64(v) == IF v = {} THEN {0} ELSE rte_bsf64(rte_align64pow2(v))
rte_fls_u32(x) == IF x = {} THEN {0} ELSE {32 - n : n \in BuiltinClz(x, 32)}
rte_fls_u64(x) == IF x = {} THEN {0} ELSE {64 - n : n \in BuiltinClz(x, 64)}

\* What the relaxed operations return, and the words set and clear leave; the
\* test_and operations leave the same.
rte_bit_relaxed32(x, nr) ==
  [get |-> x \cap {nr}, set |-> x \cup {nr}, clear |-> x \ {nr},
   test_and_set |-> x \cap {nr}, test_and_clear |-> x \cap {nr}]
\* The 64-bit test_and_set returns all of the word it has read.
rte_bit_relaxed64(x, nr) ==
  [get |-> x \cap {nr}, set |-> x \cup {nr}, clear |-> x \ {nr},
   test_and_set |-> x, test_and_clear |-> x \cap {nr}]

\* Byte i of x, moved up by s bits.
Moved(x, i, s) == {b + s : b \in x \cap (8 * i)..(8 * i + 7)}
RTE_STATIC_BSWAP16(x) == Moved(x, 0, 8) \cup Moved(x, 1, -8)
RTE_STATIC_BSWAP32(x) == Moved(x, 0, 24) \cup Moved(x, 1, 8) \cup Moved(x, 2, -8) \cup Moved(x, 3, -24)
RTE_STATIC_BSWAP64(x) ==
  UNION {Moved(x, i, 56 - 16 * i) : i \in 0..7}

\* Mask of the first ln > 0 bits, as a type of w bits.
RTE_LEN2MASK(ln, w) == Shr(0..63, 64 - ln) \cap 0..(w - 1)

\* C's * 1024 on words of 64 bits.
Times1024(x) == {b + 10 : b \in x} \cap 0..63

\* The text t has a minus or not, then a number that strtoull reads as the word
\* t.size or finds out of range, t.gap spaces and a suffix.  strtoull stops at
\* the first space; one is skipped.
rte_str_to_size(t) ==
  LET endptr == IF t.gap <= 1 THEN t.suffix ELSE " "
      G == IF endptr \in {"G", "g"} THEN Times1024(t.size) ELSE t.size
      M == IF endptr \in {"G", "g", "M", "m"} THEN Times1024(G) ELSE G
      K == IF endptr \in {"G", "g", "M", "m", "K", "k"} THEN Times1024(M) ELSE M
  IN IF t.minus \/ t.range THEN {} ELSE K

-----------------------------------------------------------------------------
\* Unsigned arithmetic of NumBits.
Wrapped(n) == n % (2^NumBits)

\* & with the complement of a power of 2 less 1.
RTE_ALIGN_FLOOR(v, align) == v - (v % align)
RTE_ALIGN_CEIL(v, align) == RTE_ALIGN_FLOOR(Wrapped(v + (align - 1)), align)
RTE_PTR_ALIGN_FLOOR(ptr, align) == RTE_ALIGN_FLOOR(ptr, align)
RTE_PTR_ALIGN_CEIL(ptr, align) == RTE_PTR_ALIGN_FLOOR(Wrapped(ptr + (align - 1)), align)
rte_is_aligned(ptr, align) == RTE_PTR_ALIGN_CEIL(ptr, align) = ptr

RTE_MIN(a, b) == IF a < b THEN a ELSE b
RTE_MAX(a, b) == IF a > b THEN a ELSE b

RTE_ALIGN_MUL_CEIL(v, mul) == Wrapped((Wrapped(v + mul - 1) \div mul) * mul)
RTE_ALIGN_MUL_FLOOR(v, mul) == (v \div mul) * mul
RTE_ALIGN_MUL_NEAR(v, mul) ==
  LET ceil  == RTE_ALIGN_MUL_CEIL(v, mul)
      floor == RTE_ALIGN_MUL_FLOOR(v, mul)
  IN IF Wrapped(ceil - v) > v - floor THEN floor ELSE ceil

\* External: rte_reciprocal_value(d), for d > 0.
rte_reciprocal_value(d) ==
  LET l == CHOOSE k \in 0..NumBits : 2^k >= d /\ \A j \in 0..(k - 1) : 2^j < d
  IN [m |-> Wrapped(((2^NumBits) * ((2^l) - d)) \div d + 1),
      sh1 |-> IF l < 1 THEN l ELSE 1,
      sh2 |-> IF l > 1 THEN l - 1 ELSE 0]

rte_reciprocal_divide(a, R) ==
  LET t == (a * R.m) \div (2^NumBits)
  IN Wrapped(t + (Wrapped(a - t) \div (2^R.sh1))) \div (2^R.sh2)

\* The high word of a product, from products of half words.
mullhi_u64(x, y) ==
  LET H  == 2^(NumBits \div 2)
      u1 == x \div H
      u0 == x % H
      v1 == y \div H
      v0 == y % H
      t1 == Wrapped(u1 * v0 + ((u0 * v0) \div H))
      t2 == Wrapped(u0 * v1 + (t1 % H))
  IN Wrapped(u1 * v1 + (t1 \div H) + (t2 \div H))

rte_reciprocal_divide_u64(a, R) ==
  LET t == mullhi_u64(a, R.m)
  IN Wrapped(t + (Wrapped(a - t) \div (2^R.sh1))) \div (2^R.sh2)

-----------------------------------------------------------------------------
\* Words with one run of 1 bits, or with two 1 bits, and 0.
WordInit ==
  operand \in
    UNION {[bits : {w}, nr : {0, 7, w - 1},
            x : {i..j : i, j \in 0..(w - 1)} \cup {{i, j} : i, j \in 0..(w - 1)}] : w \in {32, 64}}
    \cup [a : Num, d : Num \ {0}]
    \cup [size : {{}, {0}, {0, 33}, {34}, {53}, {54}, {10, 63}}, minus : BOOLEAN,
          range : BOOLEAN, gap : 0..2, suffix : {"", "k", "K", "m", "M", "g", "G", "b"}]

\* The least power of 2 that is not less than a word of w bits, which is 2^w,
\* and then the word 0, above 2^(w-1); by the position of its bit.
PowerAbove(x) == IF Cardinality(x) = 1 THEN Max(x) ELSE Max(x) + 1

BitsExact(w, x, nr, combine, above, below, safe, log2, fls, bit, swap(_)) ==
  LET power == IF x = {} THEN {} ELSE {PowerAbove(x)} \cap 0..(w - 1)
  IN /\ combine = IF x = {} THEN {} ELSE 0..Max(x)
     /\ above = power
     /\ below = IF x = {} THEN {} ELSE {Max(x)}
     /\ safe.ret = 1 <=> x # {}
     /\ safe.ret = 1 => safe.pos = {Min(x)}
     /\ log2 = IF x = {} THEN {0} ELSE IF power # {} THEN power ELSE 0..w
     /\ fls = {IF x = {} THEN 0 ELSE Max(x) + 1}
     /\ bit.get # {} <=> nr \in x
     /\ bit.set \cap bit.clear = x \ {nr} /\ bit.set \ bit.clear = {nr}
     /\ bit.test_and_clear # {} <=> nr \in x
     /\ bit.test_and_set = IF w = 32 THEN x \cap {nr} ELSE x
     /\ RTE_LEN2MASK(nr + 1, w) = 0..nr
     /\ swap(swap(x)) = x
     /\ \A b \in x : (w - 8 - 8 * (b \div 8)) + (b % 8) \in swap(x)

\* By the exponent that a suffix, at most one space away, stands for.
SizeExact(t, size) ==
  LET exp == CASE t.gap > 1              -> 0
               [] t.suffix \in {"k", "K"} -> 10
               [] t.suffix \in {"m", "M"} -> 20
               [] t.suffix \in {"g", "G"} -> 30
               [] OTHER                  -> 0
  IN IF t.minus \/ t.range THEN size = {}
     ELSE (\A b \in t.size : b + exp <= 63) => size = {b + exp : b \in t.size}

\* The shifts and decrements of the word operations compute what their names
\* say for a word of any width, at 0 and at the top bit too: the powers of 2
\* around it (0 where the next one does not fit), its first and last 1 bit, its
\* logarithm rounded up (above the greatest power, where the next one does not
\* fit, rte_log2_u32 and rte_log2_u64 count the trailing zeros of 0 and may
\* return anything), one bit of it whatever the others are (but all of them in
\* rte_bit_relaxed_test_and_set64), and its bytes the other way round.  The
\* alignments are the
\* multiples around a number where these fit, and the multiplication by a
\* reciprocal is the division for every divisor, with the high word put
\* together from half words as well.  A size with a suffix is that many kilo-,
\* mega- or gigabytes where these fit, and 0 if it is negative or out of range.
WordOpsExact ==
  CASE "size" \in DOMAIN operand -> SizeExact(operand, rte_str_to_size(operand))
    [] "bits" \in DOMAIN operand ->
       LET x == operand.x  nr == operand.nr
       IN IF operand.bits = 32
          THEN /\ BitsExact(32, x, nr, rte_combine32ms1b(x), rte_align32pow2(x),
                    rte_align32prevpow2(x), rte_bsf32_safe(x), rte_log2_u32(x),
                    rte_fls_u32(x), rte_bit_relaxed32(x, nr), RTE_STATIC_BSWAP32)
               /\ LET y == x \cap 0..15  swapped == RTE_STATIC_BSWAP16(y)
                  IN swapped = {(b + 8) % 16 : b \in y}
               /\ rte_is_power_of_2(x) <=> Cardinality(x) = 1
          ELSE BitsExact(64, x, nr, rte_combine64ms1b(x), rte_align64pow2(x),
                 rte_align64prevpow2(x), rte_bsf64_safe(x), rte_log2_u64(x),
                 rte_fls_u64(x), rte_bit_relaxed64(x, nr), RTE_STATIC_BSWAP64)
    [] OTHER ->
       LET a == operand.a  d == operand.d
           multiples == {n \in Num : n % d = 0}
           least == Min({n \in 0..(2^(NumBits + 1)) : n % d = 0 /\ n >= a})
       IN /\ rte_reciprocal_divide(a, rte_reciprocal_value(d)) = a \div d
          /\ rte_reciprocal_divide_u64(a, rte_reciprocal_value(d)) = a \div d
          /\ mullhi_u64(a, d) = (a * d) \div (2^NumBits)
          /\ RTE_ALIGN_MUL_FLOOR(a, d) = Max({n \in multiples : n <= a})
          /\ a + d - 1 \in Num =>
               /\ RTE_ALIGN_MUL_CEIL(a, d) = least
               /\ \A n \in multiples :
                    LET near == RTE_ALIGN_MUL_NEAR(a, d)
                        Dist(k) == IF k < a THEN a - k ELSE k - a
                    IN Dist(near) <= Dist(n)
          /\ (\E k \in 0..(NumBits - 1) : d = 2^k) =>
               /\ RTE_ALIGN_FLOOR(a, d) = RTE_ALIGN_MUL_FLOOR(a, d)
               /\ least \in Num => /\ RTE_ALIGN_CEIL(a, d) = least
                                   /\ RTE_PTR_ALIGN_CEIL(a, d) = least
               /\ rte_is_aligned(a, d) <=> a % d = 0
          /\ {RTE_MIN(a, d), RTE_MAX(a, d)} = {a, d} /\ RTE_MIN(a, d) <= RTE_MAX(a, d)

\* "@return The original bit." (rte_bit_relaxed_test_and_set64): what is returned
\* is not 0 exactly when the bit was set.  The code returns the whole word.
OriginalBitReturned ==
  "bits" \in DOMAIN operand /\ operand.bits = 64 =>
    (rte_bit_relaxed64(operand.x, operand.nr).test_and_set # {} <=> operand.nr \in operand.x)

=============================================================================
