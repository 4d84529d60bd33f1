----------------------------- MODULE RteMutex ------------------------------
(***************************************************************************)
(* The mutual-exclusion locks of rte_lib/include/generic: the ticket lock  *)
(* (rte_ticketlock.h), which serves in the order of arrival, the spin lock *)
(* (rte_spinlock.h), and the recursive form of both, which remembers the   *)
(* thread that has the lock and counts how often it took it.               *)
(***************************************************************************)
EXTENDS Naturals, Sequences, FiniteSets

CONSTANTS Lockers,    \* the threads
          TicketMod,  \* 2^16: current and next are uint16_t
          Locks,      \* the locks to consider: lock type, recursive or not
          MaxDepth    \* bound on how often a thread takes a recursive lock

ASSUME LockersAssumption == IsFiniteSet(Lockers)
NoUser == 0  \* no thread's id

ASSUME UserAssumption == NoUser \notin Lockers
\* There are fewer threads than tickets.
ASSUME TicketAssumption == TicketMod \in Nat \ {0} /\ Cardinality(Lockers) < TicketMod
ASSUME LocksAssumption == Locks \subseteq [type : {"spin", "ticket"}, rec : BOOLEAN]


VARIABLES lk,              \* the lock; never changes
          locked,          \* of the spin lock
          current, next,   \* of the ticket lock
          user, count,     \* of the recursive lock
          at, try,         \* per thread: place in the call, and is it a trylock?
          me, old,         \* per thread: its ticket; the tickets trylock loaded
          depth,           \* per thread: lock calls returned and not undone
          line             \* history: who took a ticket and is not done yet

word == <<locked, current, next>>
owner == <<user, count>>
local == <<at, try, me, old>>
mutexVars == <<lk, word, owner, local, depth, line>>

Goto(t, p) == at' = [at EXCEPT ![t] = p]

\* A local variable that is not used again.
Forget(v, t, none) == [v EXCEPT ![t] = none]

-----------------------------------------------------------------------------
\* The recursive functions look at the user first.
Enter(t) == IF lk.rec THEN "user" ELSE "acquire"

\* Between its lock and unlock calls a thread that has a recursive lock may
\* call lock again.
CallLock(t, b) ==
  /\ at[t] = "out" \/ (at[t] = "in" /\ lk.rec /\ depth[t] < MaxDepth)
  /\ try' = [try EXCEPT ![t] = b]
  /\ Goto(t, Enter(t))
  /\ UNCHANGED <<lk, word, owner, me, old, depth, line>>

CheckUser(t) ==
  /\ at[t] = "user"
  /\ Goto(t, IF user = t THEN "count" ELSE "acquire")
  /\ try' = IF user = t THEN Forget(try, t, FALSE) ELSE try
  /\ UNCHANGED <<lk, word, owner, me, old, depth, line>>

\* The inner lock is taken: the plain call returns, the recursive one goes on.
Acquired(t) ==
  /\ Goto(t, IF lk.rec THEN "own" ELSE "in")
  /\ depth' = IF lk.rec THEN depth ELSE [depth EXCEPT ![t] = 1]

SetUser(t) ==
  /\ at[t] = "own"
  /\ user' = t
  /\ Goto(t, "count")
  /\ UNCHANGED <<lk, word, count, try, me, old, depth, line>>

CountUp(t) ==
  /\ at[t] = "count"
  /\ count' = count + 1
  /\ depth' = [depth EXCEPT ![t] = @ + 1]
  /\ Goto(t, "in")
  /\ UNCHANGED <<lk, word, user, try, me, old, line>>

-----------------------------------------------------------------------------
\* rte_spinlock_lock and rte_spinlock_trylock: one exchange, and after a failed
\* one the lock function waits until it reads 0.
SpinExchange(t) ==
  /\ at[t] = "acquire" /\ lk.type = "spin"
  /\ locked' = 1
  /\ IF locked = 0
     THEN Acquired(t)
     ELSE Goto(t, IF try[t] THEN "out" ELSE "wait") /\ UNCHANGED depth
  /\ try' = Forget(try, t, FALSE)
  /\ UNCHANGED <<lk, current, next, owner, me, old, line>>

SpinWait(t) ==
  /\ at[t] = "wait" /\ lk.type = "spin"
  /\ locked = 0
  /\ Goto(t, "acquire")
  /\ UNCHANGED <<lk, word, owner, try, me, old, depth, line>>

Succ(k) == (k + 1) % TicketMod

\* The wait ends.
rte_wait_until_equal_16(v, expected) == v = expected

\* rte_ticketlock_lock: take a ticket, wait until it is served.
TakeTicket(t) ==
  /\ at[t] = "acquire" /\ lk.type = "ticket" /\ ~try[t]
  /\ me' = [me EXCEPT ![t] = next]
  /\ next' = Succ(next)
  /\ line' = Append(line, t)
  /\ Goto(t, "wait")
  /\ UNCHANGED <<lk, locked, current, owner, try, old, depth>>

TicketWait(t) ==
  /\ at[t] = "wait" /\ lk.type = "ticket"
  /\ rte_wait_until_equal_16(current, me[t])
  /\ Acquired(t)
  /\ me' = Forget(me, t, 0)
  /\ UNCHANGED <<lk, word, owner, try, old, line>>

\* rte_ticketlock_trylock: load both tickets and exchange them if they are
\* equal.
LoadTickets(t) ==
  /\ at[t] = "acquire" /\ lk.type = "ticket" /\ try[t]
  /\ IF next = current
     THEN old' = [old EXCEPT ![t] = <<current, next>>] /\ Goto(t, "exchange")
     ELSE Goto(t, "out") /\ UNCHANGED old
  /\ try' = Forget(try, t, FALSE)
  /\ UNCHANGED <<lk, word, owner, me, depth, line>>

\* Mutant: the exchange compares the next ticket only.
TicketsUnchangedNext(t) == next = old[t][2]

TicketsUnchanged(t) == <<current, next>> = old[t]

ExchangeTickets(t) ==
  /\ at[t] = "exchange"
  /\ IF TicketsUnchanged(t)
     THEN next' = Succ(old[t][2]) /\ line' = Append(line, t) /\ Acquired(t)
     ELSE Goto(t, "out") /\ UNCHANGED <<next, line, depth>>
  /\ old' = Forget(old, t, <<0, 0>>)
  /\ UNCHANGED <<lk, locked, current, owner, try, me>>

-----------------------------------------------------------------------------
\* Mutant: the recursive lock is released by the first unlock.
UnlockAtOnce(t) ==
  /\ at[t] = "in"
  /\ depth' = [depth EXCEPT ![t] = @ - 1]
  /\ count' = IF lk.rec THEN count - 1 ELSE count
  /\ Goto(t, IF lk.rec THEN "clear" ELSE "release")
  /\ UNCHANGED <<lk, word, user, try, me, old, line>>

\* The unlock functions; the recursive ones release at count 0.
Unlock(t) ==
  /\ at[t] = "in"
  /\ depth' = [depth EXCEPT ![t] = @ - 1]
  /\ count' = IF lk.rec THEN count - 1 ELSE count
  /\ Goto(t, IF ~lk.rec THEN "release" ELSE IF count = 1 THEN "clear" ELSE "in")
  /\ UNCHANGED <<lk, word, user, try, me, old, line>>

ClearUser(t) ==
  /\ at[t] = "clear"
  /\ user' = NoUser
  /\ Goto(t, "release")
  /\ UNCHANGED <<lk, word, count, try, me, old, depth, line>>

SpinRelease(t) ==
  /\ at[t] = "release" /\ lk.type = "spin"
  /\ locked' = 0
  /\ Goto(t, "out")
  /\ UNCHANGED <<lk, current, next, owner, try, me, old, depth, line>>

\* rte_ticketlock_unlock: load the current ticket, store the next one.
LoadCurrent(t) ==
  /\ at[t] = "release" /\ lk.type = "ticket"
  /\ me' = [me EXCEPT ![t] = current]
  /\ Goto(t, "store")
  /\ UNCHANGED <<lk, word, owner, try, old, depth, line>>

\* Mutant: the ticket that is handed out next is served.
StoreCurrentNext(t) ==
  /\ at[t] = "store"
  /\ current' = next
  /\ line' = Tail(line)
  /\ me' = Forget(me, t, 0)
  /\ Goto(t, "out")
  /\ UNCHANGED <<lk, locked, next, owner, try, old, depth>>

StoreCurrent(t) ==
  /\ at[t] = "store"
  /\ current' = Succ(me[t])
  /\ line' = Tail(line)
  /\ me' = Forget(me, t, 0)
  /\ Goto(t, "out")
  /\ UNCHANGED <<lk, locked, next, owner, try, old, depth>>

-----------------------------------------------------------------------------
MutexInit ==
  /\ lk \in Locks
  /\ locked = 0 /\ current = 0 /\ next = 0
  /\ user = NoUser /\ count = 0
  /\ at = [t \in Lockers |-> "out"] /\ try = [t \in Lockers |-> FALSE]
  /\ me = [t \in Lockers |-> 0] /\ old = [t \in Lockers |-> <<0, 0>>]
  /\ depth = [t \in Lockers |-> 0]
  /\ line = << >>

MutexStep(t) ==
  \/ CheckUser(t) \/ SetUser(t) \/ CountUp(t)
  \/ SpinExchange(t) \/ SpinWait(t)
  \/ TakeTicket(t) \/ TicketWait(t) \/ LoadTickets(t) \/ ExchangeTickets(t)
  \/ Unlock(t) \/ ClearUser(t) \/ SpinRelease(t) \/ LoadCurrent(t) \/ StoreCurrent(t)

MutexNext ==
  \E t \in Lockers : MutexStep(t) \/ \E b \in BOOLEAN : CallLock(t, b)

MutexSpec == MutexInit /\ [][MutexNext]_mutexVars

\* A thread inside a lock function goes on, and one that has the lock unlocks.
MutexFairness == \A t \in Lockers : WF_mutexVars(MutexStep(t))

-----------------------------------------------------------------------------
\* rte_spinlock_is_locked, rte_ticketlock_is_locked.
IsLocked == IF lk.type = "spin" THEN locked = 1 ELSE current # next

Inside == {t \in Lockers : depth[t] > 0}

\* One thread at a time is between lock and unlock, whatever mixture of lock
\* and trylock calls raced for it and wherever the tickets wrap; and the
\* is_locked functions do not call a lock free that someone has.  In the
\* recursive forms user and count, which other threads read and write without
\* the lock, are those of the thread that has it.
MutualExclusion == /\ \A t, u \in Inside : t = u
                   /\ Inside # {} => IsLocked
                   /\ lk.rec => \A t \in Inside : user = t /\ count = depth[t]

\* The ticket lock serves in the order in which the tickets were taken, and a
\* trylock does not get in ahead of a thread that waits.
ServedInOrder ==
  lk.type = "ticket" => \A t \in Inside : line # << >> /\ t = Head(line)

\* Every thread that waits for a ticket lock gets it.
TicketServed ==
  \A t \in Lockers :
    (lk.type = "ticket" /\ ~lk.rec /\ at[t] = "wait") ~> depth[t] > 0

=============================================================================
