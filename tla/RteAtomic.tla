------------------------------ MODULE RteAtomic ------------------------------
(***************************************************************************)
(* The counters rte_atomic16_t, rte_atomic32_t and rte_atomic64_t of       *)
(* rte_lib/include/generic/rte_atomic.h, with the bodies that              *)
(* RTE_FORCE_INTRINSICS selects, except that rte_atomic32_cmpset has its   *)
(* assembler body: it is there in any case.  The __sync and __atomic       *)
(* builtins are external: each is one step.  The assembler body has no     *)
(* lock prefix, so that its load and its store are two steps unless all    *)
(* users run on one core.  Without __LP64__ a 64-bit counter is stored to  *)
(* by a loop of a load and a compare-and-set.                              *)
(* External: the users.  They count the references to an object up or      *)
(* down, where the one who is told that the count is 0 frees it; they use  *)
(* a counter as a flag that one of them may have; or they add to a sum     *)
(* that any of them may reset.                                             *)
(***************************************************************************)
EXTENDS Integers, FiniteSets

CONSTANTS Users,
          SignBit,  \* the value of the counter's sign bit: 2^15, 2^31 or 2^63
          MaxSum    \* bound of what is added between two resets

ASSUME CntAssumption ==
  /\ SignBit \in Nat \ {0, 1}
  /\ IsFiniteSet(Users) /\ Cardinality(Users) < 2 * SignBit

Uses == [width : {16, 32, 64}, lp64 : BOOLEAN, one_core : BOOLEAN,
         for : {"refs", "refs_down", "flag", "sum"}]

VARIABLES use,    \* one of Uses; never changes
          v_cnt,  \* v->cnt
          refs,   \* who has a reference, or the flag
          told,   \* history: how often a test said 0 since the object is new
          sum,    \* history: what was added since the last reset
          step,   \* per user: "out", "cmpset" or "read" in a loop, or "torn" in
                  \* the middle of the 32-bit compare-and-set
          tmp     \* per user: the value loaded, 0 outside of these

atomicVars == <<use, v_cnt, refs, told, sum, step, tmp>>

\* A value as a signed integer of the counter's width.
Signed(v) == LET m == v % (2 * SignBit) IN IF m < SignBit THEN m ELSE m - (2 * SignBit)

-----------------------------------------------------------------------------
\* The counter after add, sub, inc, dec, add_return and sub_return, which the
\* last two return.
rte_atomic16_add(v, inc) == Signed(v + inc)
rte_atomic32_add(v, inc) == Signed(v + inc)
rte_atomic64_add(v, inc) == Signed(v + inc)

\* Mutant: __sync_fetch_and_add(&v->cnt, inc) == 0.
rte_atomic16_and_test_old(v, inc) == v = 0

\* inc_and_test and dec_and_test.
rte_atomic16_and_test(v, inc) == rte_atomic16_add(v, inc) = 0
rte_atomic32_and_test(v, inc) == rte_atomic32_add(v, inc) = 0
rte_atomic64_and_test(v, inc) == rte_atomic64_add(v, inc) = 0

\* cmpset and exchange of a counter that is loaded as v: what is stored in it,
\* and what the call returns.  cmpxchgl stores what it has loaded if it fails.
rte_atomic16_cmpset(v, exp, src) == [v |-> IF v = exp THEN src ELSE v, ret |-> v = exp]
rte_atomic32_cmpset(v, exp, src) == [v |-> IF v = exp THEN src ELSE v, ret |-> v = exp]
rte_atomic64_cmpset(v, exp, src) == [v |-> IF v = exp THEN src ELSE v, ret |-> v = exp]

rte_atomic16_exchange(v, new) == [v |-> new, ret |-> v]
rte_atomic32_exchange(v, new) == [v |-> new, ret |-> v]
rte_atomic64_exchange(v, new) == [v |-> new, ret |-> v]

rte_atomic16_test_and_set(v) == rte_atomic16_cmpset(v, 0, 1)
rte_atomic32_test_and_set(v) == rte_atomic32_cmpset(v, 0, 1)
rte_atomic64_test_and_set(v) == rte_atomic64_cmpset(v, 0, 1)

Added(inc) == CASE use.width = 16 -> rte_atomic16_add(v_cnt, inc)
                [] use.width = 32 -> rte_atomic32_add(v_cnt, inc)
                [] use.width = 64 -> rte_atomic64_add(v_cnt, inc)
Tested(inc) == CASE use.width = 16 -> rte_atomic16_and_test(v_cnt, inc)
                 [] use.width = 32 -> rte_atomic32_and_test(v_cnt, inc)
                 [] use.width = 64 -> rte_atomic64_and_test(v_cnt, inc)
FlagSet == CASE use.width = 16 -> rte_atomic16_test_and_set(v_cnt)
             [] use.width = 32 -> rte_atomic32_test_and_set(v_cnt)
             [] use.width = 64 -> rte_atomic64_test_and_set(v_cnt)

\* Is rte_atomic32_cmpset, across cores, a load and a store?
TornSet == use.width = 32 /\ ~use.one_core

Exchanged(new) == CASE use.width = 16 -> rte_atomic16_exchange(v_cnt, new)
                    [] use.width = 32 -> rte_atomic32_exchange(v_cnt, new)
                    [] use.width = 64 -> rte_atomic64_exchange(v_cnt, new)

-----------------------------------------------------------------------------
\* Up or down to 0.
One == IF use.for = "refs_down" THEN -1 ELSE 1

\* External: the value stored, 1 or -1 reference to a new object, 0 in a flag
\* or a sum; and when the user t stores it.
NewValue == IF use.for \in {"flag", "sum"} THEN 0 ELSE One
MayStore(t) ==
  /\ step[t] = "out"
  /\ CASE use.for = "flag" -> t \in refs
       [] use.for = "sum"  -> TRUE
       [] OTHER            -> refs = {} /\ \A u \in Users : step[u] # "cmpset"

Stored(t) ==
  /\ refs' = CASE use.for = "flag" -> refs \ {t}
               [] use.for = "sum"  -> refs
               [] OTHER            -> {t}
  /\ told' = 0 /\ sum' = 0
  /\ step' = [step EXCEPT ![t] = "out"]

\* init, set and clear as a plain store, of 64 bits only with __LP64__.
PlainStore(t) ==
  /\ MayStore(t)
  /\ v_cnt' = NewValue
  /\ Stored(t)
  /\ UNCHANGED <<use, tmp>>

rte_atomic16_set(t) == use.width = 16 /\ PlainStore(t)
rte_atomic32_set(t) == use.width = 32 /\ PlainStore(t)
rte_atomic64_set_lp64(t) == use.width = 64 /\ use.lp64 /\ PlainStore(t)

\* tmp = v->cnt without __LP64__ is two loads; with the stores that may come
\* between them, any value can be put together.
LoadCnt(t) == \E v \in {Signed(n) : n \in 0..((2 * SignBit) - 1)} : tmp' = [tmp EXCEPT ![t] = v]

\* The loop of rte_atomic64_init, _set and _clear: tmp = v->cnt, then a
\* compare-and-set, and again while it fails.
rte_atomic64_set_load(t) ==
  /\ use.width = 64 /\ ~use.lp64 /\ MayStore(t)
  /\ LoadCnt(t)
  /\ step' = [step EXCEPT ![t] = "cmpset"]
  /\ UNCHANGED <<use, v_cnt, refs, told, sum>>

rte_atomic64_set(t) ==
  /\ step[t] = "cmpset"
  /\ LET c == rte_atomic64_cmpset(v_cnt, tmp[t], NewValue)
     IN /\ v_cnt' = c.v
        /\ \/ c.ret /\ Stored(t)
           \/ ~c.ret /\ step' = [step EXCEPT ![t] = "out"] /\ UNCHANGED <<refs, told, sum>>
  /\ tmp' = [tmp EXCEPT ![t] = 0]
  /\ UNCHANGED use

\* add: as many references as the users in S get.
AddRefs(t, S) ==
  /\ use.for \in {"refs", "refs_down"}
  /\ t \in refs /\ S # {} /\ S \cap refs = {}
  /\ v_cnt' = Added(One * Cardinality(S))
  /\ refs' = refs \cup S
  /\ UNCHANGED <<use, told, sum, step, tmp>>

\* dec_and_test; inc_and_test where the count goes up to 0.
DropRef(t) ==
  /\ use.for \in {"refs", "refs_down"}
  /\ t \in refs
  /\ v_cnt' = Added(0 - One)
  /\ told' = told + (IF Tested(0 - One) THEN 1 ELSE 0)
  /\ refs' = refs \ {t}
  /\ UNCHANGED <<use, sum, step, tmp>>

\* add, inc, sub and dec.
AddToSum(inc) ==
  /\ use.for = "sum" /\ sum + inc \in -MaxSum..MaxSum
  /\ v_cnt' = Added(inc) /\ sum' = sum + inc
  /\ UNCHANGED <<use, refs, told, step, tmp>>

\* test_and_set says 1, or the exchange of a 1 returns 0.
TakeFlag(t) ==
  /\ use.for = "flag" /\ t \notin refs /\ step[t] = "out"
  /\ \/ /\ ~TornSet
        /\ v_cnt' = FlagSet.v
        /\ refs' = IF FlagSet.ret THEN refs \cup {t} ELSE refs
     \/ /\ v_cnt' = Exchanged(1).v
        /\ refs' = IF Exchanged(1).ret = 0 THEN refs \cup {t} ELSE refs
  /\ UNCHANGED <<use, told, sum, step, tmp>>

\* test_and_set with the two steps of rte_atomic32_cmpset.
TornLoad(t) ==
  /\ use.for = "flag" /\ TornSet /\ t \notin refs /\ step[t] = "out"
  /\ tmp' = [tmp EXCEPT ![t] = v_cnt]
  /\ step' = [step EXCEPT ![t] = "torn"]
  /\ UNCHANGED <<use, v_cnt, refs, told, sum>>

TornStore(t) ==
  /\ step[t] = "torn"
  /\ LET c == rte_atomic32_test_and_set(tmp[t])
     IN /\ v_cnt' = c.v
        /\ refs' = IF c.ret THEN refs \cup {t} ELSE refs
  /\ tmp' = [tmp EXCEPT ![t] = 0]
  /\ step' = [step EXCEPT ![t] = "out"]
  /\ UNCHANGED <<use, told, sum>>

\* rte_atomic64_read without __LP64__ writes back what it has loaded, if the
\* counter still holds it.
rte_atomic64_read(t) ==
  /\ use.width = 64 /\ ~use.lp64 /\ step[t] = "out"
  /\ LoadCnt(t)
  /\ step' = [step EXCEPT ![t] = "read"]
  /\ UNCHANGED <<use, v_cnt, refs, told, sum>>

ReadBack(t) ==
  /\ step[t] = "read"
  /\ v_cnt' = rte_atomic64_cmpset(v_cnt, tmp[t], tmp[t]).v
  /\ step' = [step EXCEPT ![t] = "out"]
  /\ tmp' = [tmp EXCEPT ![t] = 0]
  /\ UNCHANGED <<use, refs, told, sum>>

\* The object of the first count is made by the first store.
AtomicInit ==
  /\ use \in Uses
  /\ v_cnt = 0 /\ refs = {} /\ told = 1 /\ sum = 0
  /\ step = [t \in Users |-> "out"] /\ tmp = [t \in Users |-> 0]

AtomicNext ==
  \E t \in Users :
    \/ rte_atomic16_set(t) \/ rte_atomic32_set(t) \/ rte_atomic64_set_lp64(t)
    \/ rte_atomic64_set_load(t) \/ rte_atomic64_set(t)
    \/ rte_atomic64_read(t) \/ ReadBack(t)
    \/ DropRef(t) \/ TakeFlag(t) \/ TornLoad(t) \/ TornStore(t)
    \/ \E S \in SUBSET Users : AddRefs(t, S)
    \/ \E inc \in {-1, 1, 2} : AddToSum(inc)

AtomicSpec == AtomicInit /\ [][AtomicNext]_atomicVars

-----------------------------------------------------------------------------
\* In whatever order references are taken and dropped, and also where the count
\* passes the sign of its type, exactly one of the users, the one that drops
\* the last reference, is told so by dec_and_test or inc_and_test; and no
\* addition is lost or survives a reset, in the loop without __LP64__ as well.
\* test_and_set gives a flag to one user at a time, unless it is the 32-bit one
\* and the users run on several cores (rte_atomic32_cmpset).
OneIsTold ==
  CASE use.for = "flag" -> ~TornSet => Cardinality(refs) <= 1
    [] use.for = "sum"  -> v_cnt = Signed(sum)
    [] OTHER            -> told = IF refs = {} THEN 1 ELSE 0

=============================================================================
