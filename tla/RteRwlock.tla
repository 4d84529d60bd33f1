----------------------------- MODULE RteRwlock -----------------------------
(***************************************************************************)
(* The read-write lock of rte_lib/include/generic/rte_rwlock.h: one        *)
(* counter, -1 while a writer holds the lock and the number of readers     *)
(* otherwise, that is loaded and then changed by compare-and-exchange.     *)
(* The cuckoo hash table serialises its writers with it.                   *)
(***************************************************************************)
EXTENDS Integers, FiniteSets

CONSTANTS Threads,
          SpuriousFailure  \* may the weak compare-and-exchange fail spuriously?

ASSUME ThreadsAssumption == IsFiniteSet(Threads)
ASSUME SpuriousAssumption == SpuriousFailure \in BOOLEAN

VARIABLES cnt,   \* rwl->cnt
          pc,    \* where each thread is: "idle", "load", "cas", "reads", "writes"
          op,    \* the lock function it is in
          x      \* its local x

vars == <<cnt, pc, op, x>>

ReadOps == {"read_lock", "read_trylock"}
WriteOps == {"write_lock", "write_trylock"}
TryOps == {"read_trylock", "write_trylock"}

Holders == {t \in Threads : pc[t] \in {"reads", "writes"}}
Readers == {t \in Threads : pc[t] = "reads"}

-----------------------------------------------------------------------------
Call(t, o) ==
  /\ pc[t] = "idle"
  /\ pc' = [pc EXCEPT ![t] = "load"]
  /\ op' = [op EXCEPT ![t] = o]
  /\ UNCHANGED <<cnt, x>>

\* Mutant: a reader waits at 0 as well.
UnavailableAtZero(o, c) == IF o \in ReadOps THEN c <= 0 ELSE c # 0

\* The lock cannot be had: held by a writer, or for a writer held at all.
Unavailable(o, c) == IF o \in ReadOps THEN c < 0 ELSE c # 0

\* Load the counter.  If the lock cannot be had, pause and repeat, or return
\* -EBUSY from the try functions.
Load(t) ==
  /\ pc[t] = "load"
  /\ x' = [x EXCEPT ![t] = cnt]
  /\ pc' = [pc EXCEPT ![t] =
              IF ~Unavailable(op[t], cnt) THEN "cas"
              ELSE IF op[t] \in TryOps THEN "idle" ELSE "load"]
  /\ UNCHANGED <<cnt, op>>

\* Mutant: the counter is stored without comparing it with the value loaded.
StoreBlindly(t) ==
  /\ pc[t] = "cas"
  /\ cnt' = IF op[t] \in ReadOps THEN x[t] + 1 ELSE -1
  /\ pc' = [pc EXCEPT ![t] = IF op[t] \in ReadOps THEN "reads" ELSE "writes"]
  /\ UNCHANGED <<op, x>>

CasSucceeds(t) ==
  /\ pc[t] = "cas" /\ cnt = x[t]
  /\ cnt' = IF op[t] \in ReadOps THEN x[t] + 1 ELSE -1
  /\ pc' = [pc EXCEPT ![t] = IF op[t] \in ReadOps THEN "reads" ELSE "writes"]
  /\ UNCHANGED <<op, x>>

\* Only write_trylock gives up after a failed exchange.
CasFails(t) ==
  /\ pc[t] = "cas" /\ (cnt # x[t] \/ SpuriousFailure)
  /\ pc' = [pc EXCEPT ![t] = IF op[t] = "write_trylock" THEN "idle" ELSE "load"]
  /\ UNCHANGED <<cnt, op, x>>

read_unlock(t) ==
  /\ pc[t] = "reads"
  /\ cnt' = cnt - 1
  /\ pc' = [pc EXCEPT ![t] = "idle"]
  /\ UNCHANGED <<op, x>>

\* Mutant: the writer releases its lock as a reader does.
write_unlock_sub(t) ==
  /\ pc[t] = "writes"
  /\ cnt' = cnt - 1
  /\ pc' = [pc EXCEPT ![t] = "idle"]
  /\ UNCHANGED <<op, x>>

write_unlock(t) ==
  /\ pc[t] = "writes"
  /\ cnt' = 0
  /\ pc' = [pc EXCEPT ![t] = "idle"]
  /\ UNCHANGED <<op, x>>

-----------------------------------------------------------------------------
Init == /\ cnt = 0
        /\ pc = [t \in Threads |-> "idle"]
        /\ op = [t \in Threads |-> "read_lock"]
        /\ x = [t \in Threads |-> 0]

\* The lock functions are the same steps; they differ in when they wait, in what
\* they exchange, and in when they give up.
TryOnce(t) == Load(t) \/ CasSucceeds(t) \/ CasFails(t)
read_lock(t) == op[t] = "read_lock" /\ TryOnce(t)
read_trylock(t) == op[t] = "read_trylock" /\ TryOnce(t)
write_lock(t) == op[t] = "write_lock" /\ TryOnce(t)
write_trylock(t) == op[t] = "write_trylock" /\ TryOnce(t)

\* What a thread does once it has called a lock function.
Step(t) == \/ read_lock(t) \/ read_trylock(t) \/ write_lock(t) \/ write_trylock(t)
           \/ read_unlock(t) \/ write_unlock(t)

Next == \E t \in Threads : Step(t) \/ \E o \in ReadOps \cup WriteOps : Call(t, o)

Spec == Init /\ [][Next]_vars

\* The exchange fails although the counter is the value loaded.
SpuriousStep(t) == cnt = x[t] /\ CasFails(t)

\* A thread inside a lock function, or holding the lock, goes on, and the weak
\* exchanges do not fail spuriously for ever.
FairSpec == /\ Spec
            /\ \A t \in Threads : WF_vars(Step(t))
            /\ <>[][\A t \in Threads : ~SpuriousStep(t)]_vars

-----------------------------------------------------------------------------
RwLocals == /\ cnt \in Int
            /\ pc \in [Threads -> {"idle", "load", "cas", "reads", "writes"}]
            /\ op \in [Threads -> ReadOps \cup WriteOps]
            /\ x \in [Threads -> Int]

\* The counter and every thread's locals keep their types, and the counter
\* takes no value below the -1 of a write lock.
RwTypeOK == RwLocals /\ cnt >= -1

\* rte_rwlock_t: "-1 when W lock held, > 0 when R locks held", and in fact the
\* exact number of readers, so no acquisition or release is ever lost.
CntExact == cnt = IF \E t \in Threads : pc[t] = "writes" THEN -1 ELSE Cardinality(Readers)

\* A writer that took the lock with write_lock or write_trylock holds it alone.
WriterAlone == \A t \in Threads : pc[t] = "writes" => Holders = {t}

\* The inductive strengthening: exclusion, the exact counter, and a thread
\* about to exchange has loaded a value from which its lock may be had.
RwInv == /\ WriterAlone
         /\ CntExact
         /\ \A t \in Threads : pc[t] = "cas" => ~Unavailable(op[t], x[t])

\* The comment on write_trylock: -EBUSY only because the lock "was already
\* locked for reading or writing", even when the exchange lost a race; and
\* read_trylock only "because a writer holds the lock".  The one exception is
\* a spurious failure of the weak exchange.
BusyOnlyIfHeld ==
  [][\A t \in Threads :
       pc[t] \in {"load", "cas"} /\ pc'[t] = "idle" =>
         \/ \E h \in Holders : op[t] = "read_trylock" => pc[h] = "writes"
         \/ SpuriousStep(t)]_vars

\* Some thread always gets the lock: a thread that waits in a blocking lock
\* function leads to a state in which it, or another thread, holds the lock.
SomeoneEnters ==
  (\E t \in Threads : pc[t] \in {"load", "cas"} /\ op[t] \notin TryOps)
     ~> Holders # {}

=============================================================================
