---------------------------- MODULE RteLockProofs ---------------------------
(***************************************************************************)
(* The locks of rte_lib exclude, for every finite set of threads: the spin *)
(* lock, the ticket lock and their recursive forms, and the read-write     *)
(* lock.  The ticket lock also serves in order, for every width of the     *)
(* tickets that gives each thread one of its own.                          *)
(* The atomic counters tell one user, for every number of users, and the   *)
(* cycle counter loses no time when it wraps.                              *)
(***************************************************************************)
EXTENDS RteMutex, RteRwlock, RteAtomic, RteTime, FiniteSetTheorems, TLAPS

\* Zenon does every leaf that names no other prover.
USE Zenon

-----------------------------------------------------------------------------
(***************************************************************************)
(* The inductive invariant of the spin lock, the ticket lock and their     *)
(* recursive forms, and the proof that every step of a thread keeps it.    *)
(***************************************************************************)

Tickets == 0 .. TicketMod - 1

Steps == {"out", "user", "acquire", "wait", "exchange", "own", "count", "in", "clear",
          "release", "store"}

\* The k-th ticket after a.
Plus(a, k) == IF a + k < TicketMod THEN a + k ELSE a + k - TicketMod

MutexTypeOK ==
  /\ lk \in [type : {"spin", "ticket"}, rec : BOOLEAN]
  /\ locked \in {0, 1} /\ current \in Tickets /\ next \in Tickets
  /\ user \in Lockers \cup {NoUser} /\ count \in Nat
  /\ at \in [Lockers -> Steps] /\ try \in [Lockers -> BOOLEAN]
  /\ me \in [Lockers -> Tickets] /\ old \in [Lockers -> Tickets \X Tickets]
  /\ depth \in [Lockers -> Nat]
  /\ line \in Seq(Lockers)

\* Between taking the inner lock and releasing it; a call that finds its own
\* thread as the user keeps it.
Holds(t) == at[t] \in {"own", "count", "in", "clear", "release", "store"} \/ depth[t] > 0

Waits(t) == at[t] = "wait"

\* A thread that has the recursive lock is its user, except while it enters
\* and leaves it, and only that thread is.
Places(t) ==
  /\ at[t] = "in" => depth[t] > 0
  /\ at[t] \notin {"in", "count", "user"} => depth[t] = 0
  /\ ~lk.rec => /\ at[t] \notin {"user", "own", "count", "clear"}
                /\ depth[t] <= 1
  /\ lk.rec => (user = t <=> at[t] \in {"count", "in", "clear"} \/ (at[t] = "user" /\ depth[t] > 0))
  /\ at[t] \in {"exchange", "store"} => lk.type = "ticket"
  /\ at[t] = "store" => me[t] = current

\* trylock goes on with tickets that are equal.
LoadedEqual(t) == at[t] = "exchange" => old[t][1] = old[t][2]

CountInv ==
  lk.rec => /\ \A t \in Lockers : Holds(t) => count = depth[t]
            /\ (\A t \in Lockers : ~Holds(t)) => count = 0

Alone == \A t, u \in Lockers : Holds(t) /\ Holds(u) => t = u

SpinInv == lk.type = "spin" => (locked = 1 <=> \E t \in Lockers : Holds(t))

\* The threads in line have the tickets from the current one on, in order; the
\* first of them may have the lock, the others wait.
LineInv ==
  /\ \A j, k \in 1 .. Len(line) : line[j] = line[k] => j = k
  /\ \A k \in 1 .. Len(line) : Waits(line[k]) \/ Holds(line[k])
  /\ \A t \in Lockers : Waits(t) \/ Holds(t) => \E k \in 1 .. Len(line) : line[k] = t
  /\ \A t \in Lockers : Holds(t) => line # << >> /\ line[1] = t
  /\ \A k \in 1 .. Len(line) : Waits(line[k]) => me[line[k]] = Plus(current, k - 1)
  /\ Len(line) < TicketMod
  /\ next = Plus(current, Len(line))

TicketInv == lk.type = "ticket" => LineInv

MutexInv ==
  /\ MutexTypeOK /\ CountInv /\ Alone /\ SpinInv /\ TicketInv
  /\ \A t \in Lockers : Places(t) /\ LoadedEqual(t)

-----------------------------------------------------------------------------
\* The 16-bit increment of a ticket (rte_ticketlock.h).
LEMMA SuccIsPlus == ASSUME NEW a \in Tickets PROVE Succ(a) = Plus(a, 1) /\ Succ(a) \in Tickets
  <1>1. TicketMod \in Nat \ {0} /\ a \in Nat /\ a < TicketMod
    BY SMT, TicketAssumption DEF Tickets
  <1>2. (a + 1) % TicketMod = IF a + 1 < TicketMod THEN a + 1 ELSE a + 1 - TicketMod
    <2>1. CASE a + 1 < TicketMod
      BY <1>1, <2>1, SMT
    <2>2. CASE a + 1 = TicketMod
      <3>1. TicketMod % TicketMod = 0
        BY <1>1, SMT
      <3> QED
        BY SMT, <1>1, <2>2, <3>1
    <2> QED
      BY SMT, <1>1, <2>1, <2>2
  <1> QED
    BY SMT, <1>1, <1>2 DEF Succ, Plus, Tickets

\* Going on from the next ticket.
LEMMA PlusOne ==
  ASSUME NEW a \in Tickets, NEW k \in Nat, k < TicketMod
  PROVE  Plus(Plus(a, 1), k) = Plus(a, k + 1) /\ Plus(Plus(a, k), 1) = Plus(a, k + 1)
  BY SMT, TicketAssumption DEF Plus, Tickets

\* Fewer than TicketMod tickets on the ticket is another one.
LEMMA PlusNotSame ==
  ASSUME NEW a \in Tickets, NEW k \in Nat, k < TicketMod, Plus(a, k) = a
  PROVE  k = 0
  BY SMT, TicketAssumption DEF Plus, Tickets

\* A step that neither takes nor releases the inner lock.
LEMMA QuietStep ==
  ASSUME MutexInv,
         UNCHANGED <<lk, locked, current, next, line>>,
         \A u \in Lockers : Holds(u)' <=> Holds(u),
         lk.type = "ticket" =>
           \A u \in Lockers : (Waits(u)' <=> Waits(u)) /\ (Waits(u) => me'[u] = me[u])
  PROVE  Alone' /\ SpinInv' /\ TicketInv'
  <1>1. Alone' /\ SpinInv'
    BY DEF MutexInv, Alone, SpinInv
  <1>2. ASSUME lk.type = "ticket" PROVE LineInv'
    <2>1. LineInv /\ line \in Seq(Lockers) /\ \A k \in 1 .. Len(line) : line[k] \in Lockers
      BY SMT, <1>2 DEF MutexInv, TicketInv, MutexTypeOK
    <2> QED
      BY <1>2, <2>1 DEF LineInv, Plus
  <1> QED
    BY <1>1, <1>2 DEF TicketInv

\* A lock or trylock call begins.
LEMMA CallLockStep ==
  ASSUME MutexInv, NEW t \in Lockers, NEW b \in BOOLEAN, CallLock(t, b) PROVE MutexInv'
  <1> USE UserAssumption DEF MutexInv, MutexTypeOK
  <1>1. MutexTypeOK'
    BY DEF CallLock, Goto, Enter, word, owner, Steps
  <1>2. \A u \in Lockers : Holds(u)' <=> Holds(u)
    BY DEF CallLock, Goto, Enter, word, owner, Holds, Places
  <1>3. lk.type = "ticket" =>
          \A u \in Lockers : (Waits(u)' <=> Waits(u)) /\ (Waits(u) => me'[u] = me[u])
    BY DEF CallLock, Goto, Enter, word, owner, Waits
  <1>4. Alone' /\ SpinInv' /\ TicketInv'
    BY <1>2, <1>3, QuietStep DEF CallLock, word
  <1>5. \A u \in Lockers : Places(u)'
    BY SMT DEF CallLock, Goto, Enter, word, owner, Places, CountInv, Alone, Holds
  <1>6. CountInv'
    BY <1>2 DEF CallLock, Goto, Enter, word, owner, CountInv, Alone, Holds, Places
  <1>7. \A u \in Lockers : LoadedEqual(u)'
    BY DEF CallLock, Goto, Enter, word, owner, LoadedEqual
  <1> QED
    BY <1>1, <1>4, <1>5, <1>6, <1>7

\* The recursive functions read the user without the lock: only the thread itself
\* finds itself there.
LEMMA CheckUserStep == ASSUME MutexInv, NEW t \in Lockers, CheckUser(t) PROVE MutexInv'
  <1> USE UserAssumption DEF MutexInv, MutexTypeOK
  <1>1. MutexTypeOK'
    BY DEF CheckUser, Goto, Forget, word, owner, Steps
  <1>2. \A u \in Lockers : Holds(u)' <=> Holds(u)
    BY DEF CheckUser, Goto, Forget, word, owner, Holds, Places
  <1>3. lk.type = "ticket" =>
          \A u \in Lockers : (Waits(u)' <=> Waits(u)) /\ (Waits(u) => me'[u] = me[u])
    BY DEF CheckUser, Goto, Forget, word, owner, Waits
  <1>4. Alone' /\ SpinInv' /\ TicketInv'
    BY <1>2, <1>3, QuietStep DEF CheckUser, word
  <1>5. \A u \in Lockers : Places(u)'
    BY SMT DEF CheckUser, Goto, Forget, word, owner, Places, CountInv, Alone, Holds
  <1>6. CountInv'
    BY <1>2 DEF CheckUser, Goto, Forget, word, owner, CountInv, Alone, Holds, Places
  <1>7. \A u \in Lockers : LoadedEqual(u)'
    BY DEF CheckUser, Goto, Forget, word, owner, LoadedEqual
  <1> QED
    BY <1>1, <1>4, <1>5, <1>6, <1>7

\* The thread that has taken the inner lock becomes the user.
LEMMA SetUserStep == ASSUME MutexInv, NEW t \in Lockers, SetUser(t) PROVE MutexInv'
  <1> USE UserAssumption DEF MutexInv, MutexTypeOK
  <1>1. MutexTypeOK'
    BY DEF SetUser, Goto, word, owner, Steps
  <1>2. \A u \in Lockers : Holds(u)' <=> Holds(u)
    BY DEF SetUser, Goto, word, owner, Holds, Places
  <1>3. lk.type = "ticket" =>
          \A u \in Lockers : (Waits(u)' <=> Waits(u)) /\ (Waits(u) => me'[u] = me[u])
    BY DEF SetUser, Goto, word, owner, Waits
  <1>4. Alone' /\ SpinInv' /\ TicketInv'
    BY <1>2, <1>3, QuietStep DEF SetUser, word
  <1>5. \A u \in Lockers : Places(u)'
    <2> SUFFICES ASSUME NEW u \in Lockers PROVE Places(u)'
      OBVIOUS
    <2>1. CASE u = t
      BY <2>1 DEF SetUser, Goto, word, owner, Places, CountInv, Alone, Holds
    <2>2. CASE u # t
      BY <2>2 DEF SetUser, Goto, word, owner, Places, CountInv, Alone, Holds
    <2> QED
      BY <2>1, <2>2
  <1>6. CountInv'
    BY <1>2 DEF SetUser, Goto, word, owner, CountInv, Alone, Holds, Places
  <1>7. \A u \in Lockers : LoadedEqual(u)'
    BY DEF SetUser, Goto, word, owner, LoadedEqual
  <1> QED
    BY <1>1, <1>4, <1>5, <1>6, <1>7

\* The user counts its call.
LEMMA CountUpStep == ASSUME MutexInv, NEW t \in Lockers, CountUp(t) PROVE MutexInv'
  <1> USE UserAssumption DEF MutexInv, MutexTypeOK
  <1>1. MutexTypeOK'
    BY SMT DEF CountUp, Goto, word, owner, Steps
  <1>2. \A u \in Lockers : Holds(u)' <=> Holds(u)
    BY DEF CountUp, Goto, word, owner, Holds, Places
  <1>3. lk.type = "ticket" =>
          \A u \in Lockers : (Waits(u)' <=> Waits(u)) /\ (Waits(u) => me'[u] = me[u])
    BY DEF CountUp, Goto, word, owner, Waits
  <1>4. Alone' /\ SpinInv' /\ TicketInv'
    BY <1>2, <1>3, QuietStep DEF CountUp, word
  <1>5. \A u \in Lockers : Places(u)'
    BY SMT DEF CountUp, Goto, word, owner, Places, CountInv, Alone, Holds
  <1>6. CountInv'
    BY SMT, <1>2 DEF CountUp, Goto, word, owner, CountInv, Alone, Holds, Places
  <1>7. \A u \in Lockers : LoadedEqual(u)'
    BY DEF CountUp, Goto, word, owner, LoadedEqual
  <1> QED
    BY <1>1, <1>4, <1>5, <1>6, <1>7

\* The wait of rte_spinlock_lock ends.
LEMMA SpinWaitStep == ASSUME MutexInv, NEW t \in Lockers, SpinWait(t) PROVE MutexInv'
  <1> USE UserAssumption DEF MutexInv, MutexTypeOK
  <1>1. MutexTypeOK'
    BY DEF SpinWait, Goto, word, owner, Steps
  <1>2. \A u \in Lockers : Holds(u)' <=> Holds(u)
    BY DEF SpinWait, Goto, word, owner, Holds, Places
  <1>3. lk.type = "ticket" =>
          \A u \in Lockers : (Waits(u)' <=> Waits(u)) /\ (Waits(u) => me'[u] = me[u])
    BY DEF SpinWait, Goto, word, owner, Waits
  <1>4. Alone' /\ SpinInv' /\ TicketInv'
    BY <1>2, <1>3, QuietStep DEF SpinWait, word
  <1>5. \A u \in Lockers : Places(u)'
    BY DEF SpinWait, Goto, word, owner, Places, CountInv, Alone, Holds
  <1>6. CountInv'
    BY <1>2 DEF SpinWait, Goto, word, owner, CountInv, Alone, Holds, Places
  <1>7. \A u \in Lockers : LoadedEqual(u)'
    BY DEF SpinWait, Goto, word, owner, LoadedEqual
  <1> QED
    BY <1>1, <1>4, <1>5, <1>6, <1>7

\* rte_ticketlock_trylock has loaded the tickets.
LEMMA LoadTicketsStep == ASSUME MutexInv, NEW t \in Lockers, LoadTickets(t) PROVE MutexInv'
  <1> USE UserAssumption DEF MutexInv, MutexTypeOK
  <1>1. MutexTypeOK'
    <2>1. old' \in [Lockers -> Tickets \X Tickets]
      <3>1. <<current, next>> \in Tickets \X Tickets
        OBVIOUS
      <3>2. CASE next = current
        BY <3>1, <3>2, Zenon DEF LoadTickets
      <3>3. CASE next # current
        BY <3>3 DEF LoadTickets
      <3> QED
        BY <3>2, <3>3
    <2> QED
      BY <2>1, Zenon DEF LoadTickets, Goto, Forget, word, owner, Steps
  <1>2. \A u \in Lockers : Holds(u)' <=> Holds(u)
    BY DEF LoadTickets, Goto, Forget, word, owner, Holds, Places
  <1>3. lk.type = "ticket" =>
          \A u \in Lockers : (Waits(u)' <=> Waits(u)) /\ (Waits(u) => me'[u] = me[u])
    BY DEF LoadTickets, Goto, Forget, word, owner, Waits
  <1>4. Alone' /\ SpinInv' /\ TicketInv'
    BY <1>2, <1>3, QuietStep DEF LoadTickets, word
  <1>5. \A u \in Lockers : Places(u)'
    BY SMT DEF LoadTickets, Goto, Forget, word, owner, Places, CountInv, Alone, Holds
  <1>6. CountInv'
    BY <1>2 DEF LoadTickets, Goto, Forget, word, owner, CountInv, Alone, Holds, Places
  <1>7. \A u \in Lockers : LoadedEqual(u)'
    <2>1. CASE next = current
      <3>1. /\ old'[t] = <<current, next>>
            /\ \A u \in Lockers : u # t => old'[u] = old[u] /\ at'[u] = at[u]
        BY <2>1 DEF LoadTickets, Goto
      <3>2. old'[t][1] = old'[t][2]
        <4>1. <<current, next>>[1] = current /\ <<current, next>>[2] = next
          OBVIOUS
        <4> QED
          BY <2>1, <3>1, <4>1, Zenon
      <3> QED
        BY <3>1, <3>2, Zenon DEF LoadedEqual
    <2>2. CASE next # current
      BY <2>2 DEF LoadTickets, Goto, LoadedEqual
    <2> QED
      BY <2>1, <2>2
  <1> QED
    BY <1>1, <1>4, <1>5, <1>6, <1>7

\* An unlock function begins; a recursive one may end there.
LEMMA UnlockStep == ASSUME MutexInv, NEW t \in Lockers, Unlock(t) PROVE MutexInv'
  <1> USE UserAssumption DEF MutexInv, MutexTypeOK
  <1>1. MutexTypeOK'
    <2>1. depth[t] > 0 /\ (lk.rec => count = depth[t])
      BY DEF Unlock, Places, CountInv, Holds
    <2>2. depth' \in [Lockers -> Nat] /\ count' \in Nat
      BY SMT, <2>1 DEF Unlock
    <2> QED
      BY <2>2 DEF Unlock, Goto, word, owner, Steps
  <1>2. \A u \in Lockers : Holds(u)' <=> Holds(u)
    BY DEF Unlock, Goto, word, owner, Holds, Places
  <1>3. lk.type = "ticket" =>
          \A u \in Lockers : (Waits(u)' <=> Waits(u)) /\ (Waits(u) => me'[u] = me[u])
    BY DEF Unlock, Goto, word, owner, Waits
  <1>4. Alone' /\ SpinInv' /\ TicketInv'
    BY <1>2, <1>3, QuietStep DEF Unlock, word
  <1>5. \A u \in Lockers : Places(u)'
    BY SMT DEF Unlock, Goto, word, owner, Places, CountInv, Alone, Holds
  <1>6. CountInv'
    BY SMT, <1>2 DEF Unlock, Goto, word, owner, CountInv, Alone, Holds, Places
  <1>7. \A u \in Lockers : LoadedEqual(u)'
    BY DEF Unlock, Goto, word, owner, LoadedEqual
  <1> QED
    BY <1>1, <1>4, <1>5, <1>6, <1>7

\* The recursive unlock functions clear the user before the release.
LEMMA ClearUserStep == ASSUME MutexInv, NEW t \in Lockers, ClearUser(t) PROVE MutexInv'
  <1> USE UserAssumption DEF MutexInv, MutexTypeOK
  <1>1. MutexTypeOK'
    BY DEF ClearUser, Goto, word, owner, Steps
  <1>2. \A u \in Lockers : Holds(u)' <=> Holds(u)
    BY DEF ClearUser, Goto, word, owner, Holds, Places
  <1>3. lk.type = "ticket" =>
          \A u \in Lockers : (Waits(u)' <=> Waits(u)) /\ (Waits(u) => me'[u] = me[u])
    BY DEF ClearUser, Goto, word, owner, Waits
  <1>4. Alone' /\ SpinInv' /\ TicketInv'
    BY <1>2, <1>3, QuietStep DEF ClearUser, word
  <1>5. \A u \in Lockers : Places(u)'
    <2> SUFFICES ASSUME NEW u \in Lockers PROVE Places(u)'
      OBVIOUS
    <2>1. CASE u = t
      BY <2>1 DEF ClearUser, Goto, word, owner, Places, CountInv, Alone, Holds
    <2>2. CASE u # t
      <3>1. at'[u] = at[u] /\ user' = NoUser /\ u # NoUser
        BY <2>2 DEF ClearUser, Goto
      <3>2. depth' = depth /\ me' = me /\ current' = current /\ lk' = lk
        BY DEF ClearUser, word
      <3>3. lk.rec => user # u
        BY <2>2 DEF ClearUser, Places
      <3>4. lk.rec => ~(at[u] \in {"count", "in", "clear"} \/ (at[u] = "user" /\ depth[u] > 0))
        BY <3>3 DEF Places
      <3> QED
        BY <3>1, <3>2, <3>4 DEF Places
    <2> QED
      BY <2>1, <2>2
  <1>6. CountInv'
    BY <1>2 DEF ClearUser, Goto, word, owner, CountInv, Alone, Holds, Places
  <1>7. \A u \in Lockers : LoadedEqual(u)'
    BY DEF ClearUser, Goto, word, owner, LoadedEqual
  <1> QED
    BY <1>1, <1>4, <1>5, <1>6, <1>7

\* rte_ticketlock_unlock has loaded the current ticket, which nobody else changes.
LEMMA LoadCurrentStep == ASSUME MutexInv, NEW t \in Lockers, LoadCurrent(t) PROVE MutexInv'
  <1> USE UserAssumption DEF MutexInv, MutexTypeOK
  <1>1. MutexTypeOK'
    BY DEF LoadCurrent, Goto, word, owner, Steps
  <1>2. \A u \in Lockers : Holds(u)' <=> Holds(u)
    BY DEF LoadCurrent, Goto, word, owner, Holds, Places
  <1>3. lk.type = "ticket" =>
          \A u \in Lockers : (Waits(u)' <=> Waits(u)) /\ (Waits(u) => me'[u] = me[u])
    BY DEF LoadCurrent, Goto, word, owner, Waits
  <1>4. Alone' /\ SpinInv' /\ TicketInv'
    BY <1>2, <1>3, QuietStep DEF LoadCurrent, word
  <1>5. \A u \in Lockers : Places(u)'
    BY DEF LoadCurrent, Goto, word, owner, Places, CountInv, Alone, Holds
  <1>6. CountInv'
    BY <1>2 DEF LoadCurrent, Goto, word, owner, CountInv, Alone, Holds, Places
  <1>7. \A u \in Lockers : LoadedEqual(u)'
    BY DEF LoadCurrent, Goto, word, owner, LoadedEqual
  <1> QED
    BY <1>1, <1>4, <1>5, <1>6, <1>7

\* A call that takes the inner lock while nobody has it.
LEMMA AcquireStep ==
  ASSUME MutexInv, NEW t \in Lockers, Acquired(t), UNCHANGED <<lk, owner>>,
         at[t] \in {"acquire", "wait", "exchange"}, \A u \in Lockers : ~Holds(u),
         \A u \in Lockers : at[u] # "store"
  PROVE  /\ at' \in [Lockers -> Steps] /\ depth' \in [Lockers -> Nat]
         /\ \A u \in Lockers : Holds(u)' <=> u = t
         /\ \A u \in Lockers : Waits(u)' <=> Waits(u) /\ u # t
         /\ CountInv' /\ Alone' /\ \A u \in Lockers : Places(u)'
  <1> USE DEF MutexInv, MutexTypeOK, Acquired, Goto, owner
  <1>1. at' \in [Lockers -> Steps] /\ depth' \in [Lockers -> Nat]
    BY DEF Steps
  <1>2. \A u \in Lockers : Holds(u)' <=> u = t
    BY DEF Holds, Places
  <1>3. \A u \in Lockers : Waits(u)' <=> Waits(u) /\ u # t
    BY DEF Waits
  <1>4. CountInv'
    <2>1. lk.rec => count = 0 /\ depth[t] = 0 /\ depth' = depth
      BY Zenon DEF CountInv, Places
    <2> QED
      BY <1>2, <2>1 DEF CountInv
  <1>5. Alone'
    BY <1>2 DEF Alone
  <1>6. \A u \in Lockers : Places(u)'
    BY SMT DEF Places, Holds
  <1> QED
    BY <1>1, <1>2, <1>3, <1>4, <1>5, <1>6

\* The exchange of the spin lock takes the lock only from nobody.
LEMMA SpinExchangeStep == ASSUME MutexInv, NEW t \in Lockers, SpinExchange(t) PROVE MutexInv'
  <1> USE UserAssumption DEF MutexInv, MutexTypeOK
  <1>1. try' \in [Lockers -> BOOLEAN]
    BY DEF SpinExchange, Forget
  <1>0. \A u \in Lockers : LoadedEqual(u)'
    BY DEF SpinExchange, Acquired, Goto, LoadedEqual
  <1>2. CASE locked = 0
    <2>1. \A u \in Lockers : ~Holds(u) /\ at[u] # "store"
      BY SMT, <1>2 DEF SpinExchange, SpinInv, Holds
    <2>2. /\ at' \in [Lockers -> Steps] /\ depth' \in [Lockers -> Nat]
          /\ \A u \in Lockers : Holds(u)' <=> u = t
          /\ CountInv' /\ Alone' /\ \A u \in Lockers : Places(u)'
      BY <1>2, <2>1, AcquireStep DEF SpinExchange
    <2>3. SpinInv' /\ TicketInv'
      BY <2>2 DEF SpinExchange, SpinInv, TicketInv
    <2> QED
      BY <1>0, <1>1, <2>2, <2>3, Zenon DEF SpinExchange, owner
  <1>3. CASE locked # 0
    <2>1. at' \in [Lockers -> Steps]
      <3>1. /\ at' = [at EXCEPT ![t] = IF try[t] THEN "out" ELSE "wait"]
            /\ at \in [Lockers -> Steps]
        BY <1>3, Zenon DEF SpinExchange, Goto
      <3> HIDE DEF MutexInv, MutexTypeOK
      <3> QED
        BY <3>1 DEF Steps
    <2>2. \A u \in Lockers : Holds(u)' <=> Holds(u)
      BY <1>3 DEF SpinExchange, Goto, Holds
    <2>3. Alone' /\ SpinInv' /\ TicketInv'
      BY <1>3, <2>2 DEF SpinExchange, Alone, SpinInv, TicketInv
    <2>4. \A u \in Lockers : Places(u)'
      BY SMT, <1>3 DEF SpinExchange, Goto, Places, owner
    <2>5. CountInv'
      BY <1>3, <2>2 DEF SpinExchange, CountInv, owner
    <2> QED
      BY <1>0, <1>1, <1>3, <2>1, <2>3, <2>4, <2>5, Zenon DEF SpinExchange, owner
  <1> QED
    BY <1>2, <1>3

\* The release of the spin lock.
LEMMA SpinReleaseStep == ASSUME MutexInv, NEW t \in Lockers, SpinRelease(t) PROVE MutexInv'
  <1> USE UserAssumption DEF MutexInv, MutexTypeOK
  <1>1. MutexTypeOK'
    BY DEF SpinRelease, Goto, Steps, owner
  <1>2. \A u \in Lockers : ~Holds(u)' /\ (Holds(u) => u = t)
    BY SMT DEF SpinRelease, Goto, Holds, Alone, Places
  <1>3. Alone' /\ SpinInv' /\ TicketInv'
    BY SMT, <1>2 DEF SpinRelease, Alone, SpinInv, TicketInv
  <1>4. \A u \in Lockers : Places(u)'
    BY DEF SpinRelease, Goto, Places, owner
  <1>5. CountInv'
    <2>1. lk.rec => count = 0
      BY Zenon DEF SpinRelease, CountInv, Holds, Places
    <2> QED
      BY <1>2, <2>1 DEF SpinRelease, CountInv, owner
  <1>6. \A u \in Lockers : LoadedEqual(u)'
    BY DEF SpinRelease, Goto, LoadedEqual
  <1> QED
    BY <1>1, <1>3, <1>4, <1>5, <1>6

-----------------------------------------------------------------------------
(***************************************************************************)
(* The steps by which a thread gets into the ticket lock.                  *)
(***************************************************************************)
\* The wait for a ticket ends for the first in line only.
LEMMA TicketWaitStep == ASSUME MutexInv, NEW t \in Lockers, TicketWait(t) PROVE MutexInv'
  <1>a. /\ lk \in [type : {"spin", "ticket"}, rec : BOOLEAN]
        /\ locked \in {0, 1} /\ current \in Tickets /\ next \in Tickets
        /\ user \in Lockers \cup {NoUser} /\ count \in Nat
        /\ at \in [Lockers -> Steps] /\ try \in [Lockers -> BOOLEAN]
        /\ me \in [Lockers -> Tickets] /\ old \in [Lockers -> Tickets \X Tickets]
        /\ depth \in [Lockers -> Nat] /\ line \in Seq(Lockers)
    BY DEF MutexInv, MutexTypeOK
  <1>b. /\ CountInv /\ Alone /\ SpinInv /\ TicketInv
        /\ \A u \in Lockers : Places(u) /\ LoadedEqual(u)
    BY DEF MutexInv
  <1>1. LineInv /\ Len(line) \in Nat /\ lk.type = "ticket" /\ Waits(t) /\ ~Holds(t)
    BY SMT, <1>a, <1>b DEF TicketWait, TicketInv, Holds, Waits, Places
  <1>2. PICK k \in 1 .. Len(line) : line[k] = t
    BY <1>1 DEF LineInv
  <1>3. k = 1
    <2>1. me[t] = Plus(current, k - 1) /\ Len(line) < TicketMod
      BY <1>1, <1>2 DEF LineInv
    <2>2. current = me[t]
      BY DEF TicketWait, rte_wait_until_equal_16
    <2>3. k - 1 \in Nat /\ k - 1 < TicketMod
      BY SMT, <1>1, <1>2, <2>1, TicketAssumption
    <2>4. k - 1 = 0
      BY <1>a, <2>1, <2>2, <2>3, PlusNotSame
    <2> QED
      BY SMT, <1>2, <2>4
  <1>4. \A u \in Lockers : ~Holds(u) /\ at[u] # "store"
    BY <1>1, <1>2, <1>3 DEF LineInv, Holds
  <1>5. /\ at' \in [Lockers -> Steps] /\ depth' \in [Lockers -> Nat]
        /\ \A u \in Lockers : Holds(u)' <=> u = t
        /\ \A u \in Lockers : Waits(u)' <=> Waits(u) /\ u # t
        /\ CountInv' /\ Alone' /\ \A u \in Lockers : Places(u)'
    BY <1>4, AcquireStep DEF TicketWait
  <1>6. me' \in [Lockers -> Tickets] /\ \A u \in Lockers : u # t => me'[u] = me[u]
    BY SMT, <1>a, TicketAssumption DEF TicketWait, Forget, Tickets
  <1>7. UNCHANGED <<line, current, next, locked>> /\ \A j \in 1 .. Len(line) : line[j] \in Lockers
    <2>1. UNCHANGED <<line, current, next, locked>>
      BY DEF TicketWait, word
    <2>2. line \in Seq(Lockers)
      BY <1>a
    <2> QED
      BY SMT, <2>1, <2>2
  <1>8. LineInv'
    <2>1. \A j \in 1 .. Len(line) : Waits(line[j])' \/ Holds(line[j])'
      <3> TAKE j \in 1 .. Len(line)
      <3>1. line[j] \in Lockers /\ line' = line /\ (Waits(line[j]) \/ Holds(line[j]))
        BY <1>1, <1>7 DEF LineInv
      <3>2. CASE line[j] = t
        <4>1. Holds(t)'
          BY <1>5
        <4> QED
          BY <3>1, <3>2, <4>1 DEF Holds
      <3>3. CASE line[j] # t
        <4>1. Waits(line[j])
          BY <1>4, <3>1
        <4>2. \A u \in Lockers : u = line[j] => Waits(u)'
          BY <1>5, <3>1, <3>3, <4>1
        <4> QED
          BY <3>1, <4>2 DEF Waits
      <3> QED
        BY <3>2, <3>3
    <2>2. \A u \in Lockers : Waits(u)' \/ Holds(u)' => \E j \in 1 .. Len(line) : line[j] = u
      BY <1>1, <1>2, <1>5 DEF LineInv
    <2>3. \A u \in Lockers : Holds(u)' => line # << >> /\ line[1] = u
      BY SMT, <1>1, <1>2, <1>3, <1>5
    <2>4. \A j \in 1 .. Len(line) : Waits(line[j])' => me'[line[j]] = Plus(current, j - 1)
      <3> SUFFICES ASSUME NEW j \in 1 .. Len(line), Waits(line[j])'
                   PROVE  me'[line[j]] = Plus(current, j - 1)
        OBVIOUS
      <3>1. /\ line[j] \in Lockers /\ line' = line
            /\ Waits(line[j]) => me[line[j]] = Plus(current, j - 1)
        BY <1>1, <1>7 DEF LineInv
      <3>2. \A u \in Lockers : u = line[j] => Waits(u)'
        BY <3>1 DEF Waits
      <3>3. line[j] # t /\ Waits(line[j])
        BY <1>5, <3>1, <3>2
      <3> QED
        BY <1>6, <3>1, <3>3
    <2> QED
      BY <1>1, <1>7, <2>1, <2>2, <2>3, <2>4 DEF LineInv, Plus
  <1>9. \A u \in Lockers : LoadedEqual(u)'
    BY <1>a, <1>b DEF TicketWait, Acquired, Goto, LoadedEqual
  <1>10. MutexTypeOK'
    BY <1>a, <1>5, <1>6, <1>7 DEF TicketWait, owner, MutexTypeOK
  <1>11. SpinInv' /\ TicketInv'
    BY <1>1, <1>8 DEF TicketWait, SpinInv, TicketInv
  <1> QED
    BY <1>5, <1>9, <1>10, <1>11 DEF MutexInv

-----------------------------------------------------------------------------
(***************************************************************************)
(* The release of the ticket lock.                                         *)
(***************************************************************************)
\* The release of the ticket lock serves the next in line.
LEMMA StoreCurrentStep == ASSUME MutexInv, NEW t \in Lockers, StoreCurrent(t) PROVE MutexInv'
  <1>a. /\ lk \in [type : {"spin", "ticket"}, rec : BOOLEAN]
        /\ locked \in {0, 1} /\ current \in Tickets /\ next \in Tickets
        /\ user \in Lockers \cup {NoUser} /\ count \in Nat
        /\ at \in [Lockers -> Steps] /\ try \in [Lockers -> BOOLEAN]
        /\ me \in [Lockers -> Tickets] /\ old \in [Lockers -> Tickets \X Tickets]
        /\ depth \in [Lockers -> Nat] /\ line \in Seq(Lockers)
    BY DEF MutexInv, MutexTypeOK
  <1>b. /\ CountInv /\ Alone /\ SpinInv /\ TicketInv
        /\ \A u \in Lockers : Places(u) /\ LoadedEqual(u)
    BY DEF MutexInv
  <1> DEFINE n == Len(line)
  <1>1. LineInv /\ n \in Nat /\ lk.type = "ticket" /\ Holds(t) /\ depth[t] = 0 /\ me[t] = current
    <2>1. at[t] = "store" /\ Places(t)
      BY <1>b DEF StoreCurrent
    <2>2. Holds(t) /\ depth[t] = 0 /\ me[t] = current /\ lk.type = "ticket"
      BY <2>1 DEF Holds, Places
    <2> QED
      BY SMT, <1>a, <1>b, <2>2 DEF TicketInv
  <1>2. n > 0 /\ line[1] = t
    BY SMT, <1>1 DEF LineInv
  <1>3. current' = Plus(current, 1) /\ current' \in Tickets
    BY <1>a, <1>1, SuccIsPlus DEF StoreCurrent
  <1>4. /\ line' \in Seq(Lockers) /\ Len(line') = n - 1
        /\ \A k \in 1 .. n - 1 : line'[k] = line[k + 1] /\ line[k + 1] \in Lockers
    BY SMT, <1>a, <1>1, <1>2 DEF StoreCurrent
  <1>5. MutexTypeOK'
    <2>1. me' \in [Lockers -> Tickets]
      BY SMT, <1>a, TicketAssumption DEF StoreCurrent, Forget, Tickets
    <2> QED
      BY <1>a, <1>3, <1>4, <2>1 DEF StoreCurrent, Goto, Steps, owner, MutexTypeOK
  <1>6. \A u \in Lockers : /\ ~Holds(u)' /\ (Holds(u) => u = t)
                           /\ Waits(u)' <=> Waits(u)
                           /\ u # t => me'[u] = me[u]
    BY SMT, <1>a, <1>b, <1>1 DEF StoreCurrent, Goto, Forget, Holds, Waits, Alone
  <1>7. Alone' /\ SpinInv'
    BY <1>1, <1>6 DEF StoreCurrent, Alone, SpinInv
  <1>8. CountInv'
    <2>1. lk.rec => count = 0
      BY <1>b, <1>1 DEF CountInv
    <2> QED
      BY <2>1, <1>6 DEF StoreCurrent, CountInv, owner
  <1>9. \A u \in Lockers : Places(u)'
    <2> SUFFICES ASSUME NEW u \in Lockers PROVE Places(u)'
      OBVIOUS
    <2>1. u # t => at[u] # "store"
      BY <1>6 DEF Holds
    <2> QED
      BY <1>a, <1>b, <1>1, <2>1 DEF StoreCurrent, Goto, Forget, Places, owner
  <1>10. LineInv'
    <2> HIDE DEF n
    <2>1. /\ \A j, k \in 1 .. n : line[j] = line[k] => j = k
          /\ \A k \in 1 .. n : Waits(line[k]) \/ Holds(line[k])
          /\ \A u \in Lockers : Waits(u) \/ Holds(u) => \E k \in 1 .. n : line[k] = u
          /\ \A k \in 1 .. n : Waits(line[k]) => me[line[k]] = Plus(current, k - 1)
          /\ n < TicketMod /\ next = Plus(current, n)
      BY <1>1, Zenon DEF LineInv, n
    <2>2. \A k \in 1 .. n - 1 : k \in 1 .. n /\ k + 1 \in 1 .. n /\ line[k + 1] # t
      BY SMT, <1>1, <1>2, <2>1
    <2>3. \A j, k \in 1 .. n - 1 : line'[j] = line'[k] => j = k
      BY SMT, <1>1, <1>4, <2>1, <2>2
    <2>4. \A k \in 1 .. n - 1 : Waits(line[k])' \/ Holds(line[k])'
      <3> TAKE k \in 1 .. n - 1
      <3>1. Waits(line[k + 1])
        BY <1>4, <1>6, <2>1, <2>2
      <3>2. \A u \in Lockers : u = line[k + 1] => Waits(u)'
        BY <1>6, <3>1
      <3> QED
        BY <1>4, <3>2 DEF Waits
    <2>5. \A u \in Lockers : Waits(u)' \/ Holds(u)' => \E k \in 1 .. n - 1 : line'[k] = u
      <3> SUFFICES ASSUME NEW u \in Lockers, Waits(u)' PROVE \E k \in 1 .. n - 1 : line'[k] = u
        BY <1>6
      <3>1. PICK k \in 1 .. n : line[k] = u
        BY <1>6, <2>1
      <3>2. k # 1
        BY <1>2, <3>1 DEF StoreCurrent, Waits, Goto, MutexInv, MutexTypeOK
      <3>3. k - 1 \in 1 .. n - 1 /\ (k - 1) + 1 = k
        BY SMT, <1>1, <3>1, <3>2
      <3> QED
        BY <1>4, <3>1, <3>3
    <2>6. current \in Tickets /\ TicketMod \in Nat
      BY TicketAssumption DEF MutexInv, MutexTypeOK
    <2>7. \A k \in 1 .. n - 1 : Waits(line[k])' => me'[line'[k]] = Plus(current', k - 1)
      <3> SUFFICES ASSUME NEW k \in 1 .. n - 1, Waits(line[k])'
                   PROVE  me'[line'[k]] = Plus(current', k - 1)
        OBVIOUS
      <3>1. me'[line'[k]] = me[line[k + 1]] /\ Waits(line[k + 1])
        BY <1>4, <1>6, <2>1, <2>2
      <3>2. k \in Nat /\ k - 1 \in Nat /\ k - 1 < TicketMod /\ (k + 1) - 1 = k /\ (k - 1) + 1 = k
        BY SMT, <1>1, <2>1, <2>6
      <3>3. me[line[k + 1]] = Plus(current, (k + 1) - 1)
        BY <2>1, <2>2, <3>1
      <3>4. Plus(Plus(current, 1), k - 1) = Plus(current, (k - 1) + 1)
        BY <2>6, <3>2, PlusOne
      <3> QED
        BY <1>3, <3>1, <3>2, <3>3, <3>4, Zenon
    <2>8. next' = Plus(current', n - 1)
      <3>1. next' = next
        BY DEF StoreCurrent
      <3>2. n - 1 \in Nat /\ n - 1 < TicketMod /\ (n - 1) + 1 = n
        BY SMT, <1>1, <1>2, <2>1, <2>6
      <3>3. Plus(Plus(current, 1), n - 1) = Plus(current, (n - 1) + 1)
        BY <2>6, <3>2, PlusOne
      <3> QED
        BY <1>3, <2>1, <3>1, <3>2, <3>3, Zenon
    <2>9. (\A u \in Lockers : ~Holds(u)') /\ n - 1 < TicketMod
      BY SMT, <1>1, <1>6, <2>1, <2>6
    <2>10. Len(line') = n - 1
      BY <1>4
    <2> QED
      BY <2>3, <2>4, <2>5, <2>7, <2>8, <2>9, <2>10, Zenon DEF LineInv
  <1>11. \A u \in Lockers : LoadedEqual(u)'
    BY <1>a, <1>b DEF StoreCurrent, Goto, LoadedEqual
  <1> QED
    BY <1>5, <1>7, <1>8, <1>9, <1>10, <1>11 DEF TicketInv, MutexInv

-----------------------------------------------------------------------------
(***************************************************************************)
(* The steps that lengthen the line.                                       *)
(***************************************************************************)

\* Threads that stand in line once each are fewer than there are tickets.
LinesAreShort ==
  \A s \in Seq(Lockers) :
    (\A j, k \in 1 .. Len(s) : s[j] = s[k] => j = k) => Len(s) < TicketMod

\* A thread that takes a ticket stands at the end of the line.
LEMMA TakeTicketStep ==
  ASSUME LinesAreShort, MutexInv, NEW t \in Lockers, TakeTicket(t) PROVE MutexInv'
  <1>a. /\ lk \in [type : {"spin", "ticket"}, rec : BOOLEAN]
        /\ locked \in {0, 1} /\ current \in Tickets /\ next \in Tickets
        /\ user \in Lockers \cup {NoUser} /\ count \in Nat
        /\ at \in [Lockers -> Steps] /\ try \in [Lockers -> BOOLEAN]
        /\ me \in [Lockers -> Tickets] /\ old \in [Lockers -> Tickets \X Tickets]
        /\ depth \in [Lockers -> Nat] /\ line \in Seq(Lockers)
    BY DEF MutexInv, MutexTypeOK
  <1>b. /\ CountInv /\ Alone /\ SpinInv /\ TicketInv
        /\ \A u \in Lockers : Places(u) /\ LoadedEqual(u)
    BY DEF MutexInv
  <1> DEFINE n == Len(line)
  <1>1. LineInv /\ n \in Nat /\ ~Holds(t) /\ ~Waits(t)
    BY SMT, <1>a, <1>b DEF TakeTicket, TicketInv, Holds, Waits, Places
  <1>2. next' = Succ(next) /\ next' \in Tickets /\ next' = Plus(next, 1)
    BY <1>a, SuccIsPlus DEF TakeTicket
  <1>3. /\ line' \in Seq(Lockers) /\ Len(line') = n + 1 /\ line'[n + 1] = t
        /\ \A k \in 1 .. n : line'[k] = line[k] /\ line[k] \in Lockers /\ line[k] # t
    <2>1. line \in Seq(Lockers) /\ line' = Append(line, t)
      BY <1>a DEF TakeTicket
    <2>2. \A k \in 1 .. n : line[k] \in Lockers /\ line[k] # t
      <3>1. \A k \in 1 .. n : Waits(line[k]) \/ Holds(line[k])
        BY <1>1 DEF LineInv
      <3> QED
        BY SMT, <1>1, <2>1, <3>1 DEF Waits, Holds
    <2>3. Append(line, t) \in Seq(Lockers) /\ Len(Append(line, t)) = Len(line) + 1
      BY SMT, <2>1
    <2>4. Append(line, t)[Len(line) + 1] = t
      BY SMT, <2>1
    <2>5. \A k \in 1 .. Len(line) : Append(line, t)[k] = line[k]
      BY SMT, <2>1
    <2> QED
      BY <2>1, <2>2, <2>3, <2>4, <2>5, Zenon
  <1>4. MutexTypeOK'
    BY <1>a, <1>2, <1>3 DEF TakeTicket, Goto, Steps, owner, MutexTypeOK
  <1>5. \A u \in Lockers : /\ Holds(u)' <=> Holds(u)
                           /\ Waits(u)' <=> Waits(u) \/ u = t
                           /\ u # t => me'[u] = me[u]
    BY <1>a, <1>1 DEF TakeTicket, Goto, Holds, Waits
  <1>6. Alone' /\ SpinInv'
    BY <1>b, <1>5 DEF TakeTicket, Alone, SpinInv
  <1>7. CountInv' /\ \A u \in Lockers : Places(u)'
    BY <1>a, <1>b, <1>1, <1>5 DEF TakeTicket, Goto, CountInv, Places, owner
  <1>8. LineInv'
    <2> HIDE DEF n
    <2>1. /\ \A j, k \in 1 .. n : line[j] = line[k] => j = k
          /\ \A k \in 1 .. n : Waits(line[k]) \/ Holds(line[k])
          /\ \A u \in Lockers : Waits(u) \/ Holds(u) => \E k \in 1 .. n : line[k] = u
          /\ \A u \in Lockers : Holds(u) => line # << >> /\ line[1] = u
          /\ \A k \in 1 .. n : Waits(line[k]) => me[line[k]] = Plus(current, k - 1)
          /\ next = Plus(current, n)
      BY <1>1 DEF LineInv, n
    <2>2. \A j, k \in 1 .. n + 1 : line'[j] = line'[k] => j = k
      BY SMT, <1>1, <1>3, <2>1
    <2>3. \A k \in 1 .. n + 1 : Waits(line[k])' \/ Holds(line[k])'
      <3> TAKE k \in 1 .. n + 1
      <3>1. CASE k = n + 1
        BY <3>1, <1>3, <1>5 DEF Waits
      <3>2. CASE k \in 1 .. n
        BY SMT, <3>2, <1>3, <1>5, <2>1 DEF Waits, Holds
      <3> QED
        BY SMT, <1>1, <3>1, <3>2
    <2>4. \A u \in Lockers : Waits(u)' \/ Holds(u)' => \E k \in 1 .. n + 1 : line'[k] = u
      <3> SUFFICES ASSUME NEW u \in Lockers, Waits(u)' \/ Holds(u)'
                   PROVE  \E k \in 1 .. n + 1 : line'[k] = u
        OBVIOUS
      <3>1. CASE u = t
        BY SMT, <3>1, <1>1, <1>3
      <3>2. CASE u # t
        <4>1. PICK k \in 1 .. n : line[k] = u
          BY <3>2, <1>5, <2>1
        <4> QED
          BY SMT, <1>1, <1>3, <4>1
      <3> QED
        BY <3>1, <3>2
    <2>5. \A u \in Lockers : Holds(u)' => line' # << >> /\ line'[1] = u
      <3> SUFFICES ASSUME NEW u \in Lockers, Holds(u)'
                   PROVE  line' # << >> /\ line'[1] = u
        OBVIOUS
      <3>1. line[1] = u /\ \E k \in 1 .. n : line[k] = u
        BY <1>5, <2>1
      <3>2. 1 \in 1 .. n
        BY SMT, <1>1, <3>1
      <3> QED
        BY SMT, <1>1, <1>3, <3>1, <3>2
    <2>6. n + 1 < TicketMod
      BY <1>3, <2>2 DEF LinesAreShort
    <2>7. me'[t] = next /\ current' = current
      <3>1. t \in DOMAIN me
        BY DEF MutexInv, MutexTypeOK
      <3> QED
        BY <3>1 DEF TakeTicket
    <2>8. \A k \in 1 .. n + 1 : Waits(line[k])' => me'[line'[k]] = Plus(current, k - 1)
      <3> SUFFICES ASSUME NEW k \in 1 .. n + 1, Waits(line[k])'
                   PROVE  me'[line'[k]] = Plus(current, k - 1)
        OBVIOUS
      <3>1. CASE k = n + 1
        BY SMTT(20), <3>1, <1>1, <1>3, <2>1, <2>7
      <3>2. CASE k \in 1 .. n
        BY SMT, <3>2, <1>3, <1>5, <2>1 DEF Waits
      <3> QED
        BY SMT, <1>1, <3>1, <3>2
    <2>9. next' = Plus(current, n + 1)
      <3>1. current \in Tickets /\ next \in Tickets /\ TicketMod \in Nat
        BY TicketAssumption DEF MutexInv, MutexTypeOK
      <3>2. n < TicketMod
        BY SMT, <1>1, <2>6, <3>1
      <3> QED
        BY <1>1, <1>2, <2>1, <3>1, <3>2, PlusOne, Zenon
    <2> QED
      BY <1>3, <2>2, <2>3, <2>4, <2>5, <2>6, <2>7, <2>8, <2>9 DEF LineInv, Plus
  <1>9. \A u \in Lockers : LoadedEqual(u)'
    BY <1>a, <1>b DEF TakeTicket, Goto, LoadedEqual
  <1> QED
    BY <1>4, <1>6, <1>7, <1>8, <1>9 DEF TicketInv, MutexInv

\* rte_ticketlock_trylock takes a ticket only when nobody stands in line.
LEMMA ExchangeTicketsStep ==
  ASSUME LinesAreShort, MutexInv, NEW t \in Lockers, ExchangeTickets(t) PROVE MutexInv'
  <1>a. /\ lk \in [type : {"spin", "ticket"}, rec : BOOLEAN]
        /\ locked \in {0, 1} /\ current \in Tickets /\ next \in Tickets
        /\ user \in Lockers \cup {NoUser} /\ count \in Nat
        /\ at \in [Lockers -> Steps] /\ try \in [Lockers -> BOOLEAN]
        /\ me \in [Lockers -> Tickets] /\ old \in [Lockers -> Tickets \X Tickets]
        /\ depth \in [Lockers -> Nat] /\ line \in Seq(Lockers)
    BY DEF MutexInv, MutexTypeOK
  <1>b. /\ CountInv /\ Alone /\ SpinInv /\ TicketInv
        /\ \A u \in Lockers : Places(u) /\ LoadedEqual(u)
    BY DEF MutexInv
  <1>1. LineInv /\ Len(line) \in Nat /\ lk.type = "ticket" /\ ~Waits(t)
    BY SMT, <1>a, <1>b DEF ExchangeTickets, TicketInv, Waits, Places
  <1>2. old' \in [Lockers -> Tickets \X Tickets]
    <2>1. <<0, 0>> \in Tickets \X Tickets
      BY SMT, TicketAssumption DEF Tickets
    <2> QED
      BY <1>a, <2>1 DEF ExchangeTickets, Forget
  <1>0. \A u \in Lockers : LoadedEqual(u)'
    BY <1>a, <1>b DEF ExchangeTickets, Acquired, Goto, Forget, LoadedEqual
  <1>3. CASE TicketsUnchanged(t)
    <2>1. current = next /\ old[t][2] = next
      <3>1. old[t][1] = old[t][2] /\ <<current, next>> = old[t]
        BY <1>b, <1>3 DEF TicketsUnchanged, LoadedEqual, ExchangeTickets
      <3>2. <<current, next>>[1] = current /\ <<current, next>>[2] = next
        OBVIOUS
      <3> QED
        BY <3>1, <3>2, Zenon
    <2>2. line = << >>
      <3>1. current = Plus(current, Len(line)) /\ Len(line) < TicketMod
        BY <1>1, <2>1 DEF LineInv
      <3>2. Len(line) = 0
        BY <1>a, <1>1, <3>1, PlusNotSame
      <3> QED
        BY SMT, <3>2
    <2>3. \A u \in Lockers : ~Holds(u) /\ ~Waits(u) /\ at[u] # "store"
      BY SMT, <1>1, <2>2 DEF LineInv, Holds
    <2>4. /\ at' \in [Lockers -> Steps] /\ depth' \in [Lockers -> Nat]
          /\ \A u \in Lockers : Holds(u)' <=> u = t
          /\ \A u \in Lockers : Waits(u)' <=> Waits(u) /\ u # t
          /\ CountInv' /\ Alone' /\ \A u \in Lockers : Places(u)'
      BY <1>3, <2>3, AcquireStep DEF ExchangeTickets
    <2>5. next' = Plus(current, 1) /\ next' \in Tickets /\ current' = current
      BY <1>a, <1>3, <2>1, SuccIsPlus DEF ExchangeTickets
    <2>6. line' = <<t>>
      BY SMT, <1>3, <2>2 DEF ExchangeTickets
    <2>7. LineInv'
      <3>1. 1 < TicketMod
        <4>1. <<t>> \in Seq(Lockers) /\ Len(<<t>>) = 1
          BY SMT
        <4>2. \A j, k \in 1 .. Len(<<t>>) : <<t>>[j] = <<t>>[k] => j = k
          BY SMT, <4>1
        <4>3. Len(<<t>>) < TicketMod
          BY <4>1, <4>2, Zenon DEF LinesAreShort
        <4> QED
          BY <4>1, <4>3
      <3>2. Len(line') = 1 /\ line'[1] = t /\ line' # << >> /\ 1 .. Len(line') = {1}
        BY SMT, <2>6
      <3>3. \A k \in 1 .. Len(line') : k = 1
        BY <3>2
      <3>4. Holds(line[1])' /\ ~Waits(line[1])'
        <4>1. Holds(t)' /\ ~Waits(t)'
          BY <2>4
        <4> QED
          BY <3>2, <4>1 DEF Holds, Waits
      <3>5. \A u \in Lockers : Waits(u)' \/ Holds(u)' => u = t
        BY <2>3, <2>4
      <3>6. next' = Plus(current', Len(line'))
        BY <2>5, <3>2, Zenon
      <3> QED
        BY <3>1, <3>2, <3>3, <3>4, <3>5, <3>6 DEF LineInv
    <2>8. UNCHANGED <<lk, locked, current, user, count, try, me>>
      BY DEF ExchangeTickets, owner
    <2>9. MutexTypeOK'
      BY SMT, <1>a, <1>2, <2>4, <2>5, <2>6, <2>8 DEF MutexTypeOK
    <2>10. SpinInv' /\ TicketInv'
      BY <1>1, <2>7, <2>8 DEF SpinInv, TicketInv
    <2> QED
      BY <1>0, <2>4, <2>9, <2>10 DEF MutexInv
  <1>4. CASE ~TicketsUnchanged(t)
    <2>1. at' \in [Lockers -> Steps]
      <3>1. at' = [at EXCEPT ![t] = "out"] /\ at \in [Lockers -> Steps]
        BY <1>a, <1>4, Zenon DEF ExchangeTickets, Goto
      <3> QED
        BY <3>1 DEF Steps
    <2>2. /\ UNCHANGED <<lk, locked, current, next, line, depth, me>>
          /\ \A u \in Lockers : (Holds(u)' <=> Holds(u)) /\ (Waits(u)' <=> Waits(u))
      BY <1>a, <1>4 DEF ExchangeTickets, Goto, Holds, Waits
    <2>3. Alone' /\ SpinInv' /\ TicketInv'
      BY <2>2, QuietStep
    <2>4. \A u \in Lockers : Places(u)'
      <3>1. at' = [at EXCEPT ![t] = "out"] /\ at[t] = "exchange"
            /\ UNCHANGED <<lk, user, depth, me, current>>
        BY <1>4, Zenon DEF ExchangeTickets, Goto, owner
      <3> QED
        BY <1>a, <1>b, <3>1 DEF Places
    <2>5. CountInv'
      BY <1>b, <2>2 DEF ExchangeTickets, CountInv, owner
    <2> QED
      BY <1>a, <1>b, <1>0, <1>2, <2>1, <2>2, <2>3, <2>4, <2>5 DEF ExchangeTickets, owner,
         MutexInv, MutexTypeOK
  <1> QED
    BY <1>3, <1>4 DEF MutexInv

-----------------------------------------------------------------------------
\* At first nobody has the lock or waits for it.
LEMMA MutexStart == MutexInit => MutexInv
  <1> SUFFICES ASSUME MutexInit PROVE MutexInv
    OBVIOUS
  <1>1. TicketMod \in Nat \ {0} /\ 0 \in Tickets
    BY SMT, TicketAssumption DEF Tickets
  <1>2. MutexTypeOK
    <2>1. lk \in [type : {"spin", "ticket"}, rec : BOOLEAN]
      BY LocksAssumption DEF MutexInit
    <2>2. /\ at \in [Lockers -> Steps] /\ try \in [Lockers -> BOOLEAN]
          /\ depth \in [Lockers -> Nat] /\ line \in Seq(Lockers)
      BY SMT DEF MutexInit, Steps
    <2>3. me \in [Lockers -> Tickets] /\ old \in [Lockers -> Tickets \X Tickets]
      BY <1>1 DEF MutexInit
    <2> QED
      BY <1>1, <2>1, <2>2, <2>3 DEF MutexInit, MutexTypeOK
  <1>3. \A t \in Lockers : ~Holds(t) /\ ~Waits(t) /\ at[t] = "out" /\ depth[t] = 0
    BY SMT DEF MutexInit, Holds, Waits
  <1>4. CountInv /\ Alone /\ SpinInv
    BY SMT, <1>3 DEF MutexInit, CountInv, Alone, SpinInv
  <1>5. TicketInv
    BY SMT, <1>1, <1>3 DEF MutexInit, TicketInv, LineInv, Plus
  <1>6. \A t \in Lockers : Places(t) /\ LoadedEqual(t)
    BY SMT, <1>3, UserAssumption DEF MutexInit, Places, LoadedEqual
  <1> QED
    BY <1>2, <1>4, <1>5, <1>6 DEF MutexInv

\* Every step of every thread keeps the invariant.
LEMMA MutexStepInv == LinesAreShort /\ MutexInv /\ [MutexNext]_mutexVars => MutexInv'
  <1> SUFFICES ASSUME LinesAreShort, MutexInv, [MutexNext]_mutexVars PROVE MutexInv'
    OBVIOUS
  <1>1. ASSUME NEW t \in Lockers, MutexStep(t) PROVE MutexInv'
    BY <1>1, CheckUserStep, SetUserStep, CountUpStep, SpinExchangeStep, SpinWaitStep,
       TakeTicketStep, TicketWaitStep, LoadTicketsStep, ExchangeTicketsStep, UnlockStep,
       ClearUserStep, SpinReleaseStep, LoadCurrentStep, StoreCurrentStep DEF MutexStep
  <1>2. ASSUME NEW t \in Lockers, NEW b \in BOOLEAN, CallLock(t, b) PROVE MutexInv'
    BY <1>2, CallLockStep
  <1>3. CASE UNCHANGED mutexVars
    <2>1. /\ UNCHANGED <<lk, locked, current, next, line, user, count, at, try, me, old, depth>>
          /\ \A u \in Lockers : (Holds(u)' <=> Holds(u)) /\ (Waits(u)' <=> Waits(u))
      BY <1>3 DEF mutexVars, word, owner, local, Holds, Waits
    <2>2. Alone' /\ SpinInv' /\ TicketInv'
      BY <2>1, QuietStep
    <2>3. MutexTypeOK' /\ CountInv'
      <3>1. MutexTypeOK'
        BY <2>1 DEF MutexInv, MutexTypeOK
      <3>2. CountInv'
        BY <2>1 DEF MutexInv, CountInv
      <3> QED
        BY <3>1, <3>2
    <2>4. \A u \in Lockers : Places(u)' /\ LoadedEqual(u)'
      BY <2>1 DEF MutexInv, Places, LoadedEqual
    <2> QED
      BY <2>2, <2>3, <2>4 DEF MutexInv
  <1> QED
    BY <1>1, <1>2, <1>3 DEF MutexNext

-----------------------------------------------------------------------------
(***************************************************************************)
(* The spin lock and the ticket lock.                                      *)
(***************************************************************************)
\* Threads that stand in line once each are no more than there are tickets.
LEMMA LineShort == LinesAreShort
  <1> SUFFICES ASSUME NEW s \in Seq(Lockers),
                      \A j, k \in 1 .. Len(s) : s[j] = s[k] => j = k
               PROVE  Len(s) < TicketMod
    BY DEF LinesAreShort
  <1>1. Len(s) \in Nat /\ s \in [1 .. Len(s) -> Lockers]
    BY SMT
  <1>2. s \in Injection(1 .. Len(s), Lockers)
    BY <1>1 DEF Injection, IsInjective
  <1>3. Cardinality(1 .. Len(s)) <= Cardinality(Lockers)
    BY <1>2, FS_Injection, LockersAssumption
  <1>4. Cardinality(1 .. Len(s)) = IF 1 > Len(s) THEN 0 ELSE Len(s) - 1 + 1
    <2>1. 1 \in Int /\ Len(s) \in Int
      BY SMT, <1>1
    <2> QED
      BY <2>1, FS_Interval, Zenon
  <1>5. Cardinality(Lockers) \in Nat
    BY LockersAssumption, FS_CardinalityType
  <1> QED
    BY SMT, <1>1, <1>3, <1>4, <1>5, TicketAssumption

\* The inductive invariant of the four locks: who holds, who stands in line with
\* which ticket, and what user and count say.
THEOREM MutexInvariant == MutexSpec => []MutexInv
  BY LineShort, MutexStart, MutexStepInv, PTL DEF MutexSpec

\* For every set of threads and every ticket width that exceeds their number,
\* the spin lock, the ticket lock and their recursive forms let one thread in
\* at a time, is_locked sees it, and user and count are that thread's
\* (rte_spinlock.h, rte_ticketlock.h).
THEOREM LocksExclude == MutexSpec => []MutualExclusion
  <1>1. MutexInv => MutualExclusion
    <2> SUFFICES ASSUME MutexInv PROVE MutualExclusion
      OBVIOUS
    <2>1. \A t \in Inside : t \in Lockers /\ Holds(t) /\ at[t] \in {"in", "count", "user"}
      BY SMT DEF Inside, Holds, MutexInv, Places, MutexTypeOK
    <2>2. \A t, u \in Inside : t = u
      BY <2>1 DEF MutexInv, Alone
    <2>3. Inside # {} => IsLocked
      <3> SUFFICES ASSUME NEW t \in Inside PROVE IsLocked
        OBVIOUS
      <3>1. CASE lk.type = "spin"
        BY <3>1, <2>1 DEF MutexInv, SpinInv, IsLocked
      <3>2. CASE lk.type = "ticket"
        <4>1. LineInv /\ line \in Seq(Lockers) /\ current \in Tickets /\ TicketMod \in Nat
          BY <3>2, TicketAssumption DEF MutexInv, TicketInv, MutexTypeOK
        <4>2. Len(line) \in Nat /\ Len(line) > 0
          BY SMT, <2>1, <4>1 DEF LineInv
        <4>3. next = Plus(current, Len(line)) /\ Len(line) < TicketMod
          BY <4>1 DEF LineInv
        <4>4. current # next
          BY SMTT(20), <4>1, <4>2, <4>3, PlusNotSame
        <4> QED
          BY <3>2, <4>4 DEF IsLocked
      <3> QED
        BY <3>1, <3>2 DEF MutexInv, MutexTypeOK
    <2>4. lk.rec => \A t \in Inside : user = t /\ count = depth[t]
      BY <2>1, SMTT(30) DEF MutexInv, CountInv, Places, Inside
    <2> QED
      BY <2>2, <2>3, <2>4 DEF MutualExclusion
  <1> QED
    BY <1>1, MutexInvariant, PTL

\* Likewise the ticket lock lets in the thread that has stood in line longest,
\* wherever the tickets wrap (rte_ticketlock_lock and rte_ticketlock_trylock).
THEOREM TicketsInOrder == MutexSpec => []ServedInOrder
  <1>1. MutexInv => ServedInOrder
    BY SMT DEF MutexInv, TicketInv, LineInv, ServedInOrder, Inside, Holds, MutexTypeOK
  <1> QED
    BY <1>1, MutexInvariant, PTL

-----------------------------------------------------------------------------
(***************************************************************************)
(* The read-write lock.                                                    *)
(***************************************************************************)
LEMMA RwInitType == Init => RwLocals
  BY SMT DEF Init, RwLocals, ReadOps

\* A step of a lock function is one of the shared steps.
LEMMA RwSteps ==
  ASSUME NEW t \in Threads, Step(t)
  PROVE  Load(t) \/ CasSucceeds(t) \/ CasFails(t) \/ read_unlock(t) \/ write_unlock(t)
  BY DEF Step, read_lock, read_trylock, write_lock, write_trylock, TryOnce

LEMMA RwNextType == RwLocals /\ [Next]_vars => RwLocals'
  <1> SUFFICES ASSUME RwLocals, [Next]_vars PROVE RwLocals'
    OBVIOUS
  <1>1. ASSUME NEW t \in Threads, NEW o \in ReadOps \cup WriteOps, Call(t, o)
        PROVE  RwLocals'
    BY <1>1 DEF Call, RwLocals
  <1>2. ASSUME NEW t \in Threads, Load(t) PROVE RwLocals'
    BY <1>2 DEF Load, RwLocals
  <1>3. ASSUME NEW t \in Threads, CasSucceeds(t) PROVE RwLocals'
    BY SMT, <1>3 DEF CasSucceeds, RwLocals
  <1>4. ASSUME NEW t \in Threads, CasFails(t) PROVE RwLocals'
    BY <1>4 DEF CasFails, RwLocals
  <1>5. ASSUME NEW t \in Threads, read_unlock(t) \/ write_unlock(t) PROVE RwLocals'
    BY SMT, <1>5 DEF read_unlock, write_unlock, RwLocals
  <1>6. CASE UNCHANGED vars
    BY <1>6 DEF vars, RwLocals
  <1> QED
    BY <1>1, <1>2, <1>3, <1>4, <1>5, <1>6, RwSteps DEF Next

\* The number of readers is a natural number, 0 only without readers.
LEMMA ReadersCount ==
  /\ IsFiniteSet(Readers)
  /\ Cardinality(Readers) \in Nat
  /\ Cardinality(Readers) = 0 <=> Readers = {}
  <1>1. IsFiniteSet(Readers)
    BY ThreadsAssumption, FS_Subset DEF Readers
  <1> QED
    BY <1>1, FS_CardinalityType, FS_EmptySet

LEMMA RwInitInv == Init => RwInv
  <1> SUFFICES ASSUME Init PROVE RwInv
    OBVIOUS
  <1>1. Readers = {}
    BY DEF Init, Readers
  <1>2. CntExact
    BY <1>1, FS_EmptySet DEF Init, CntExact
  <1> QED
    BY <1>2 DEF Init, RwInv, WriterAlone

\* A thread whose pc stays out of "reads" and "writes" does not disturb RwInv.
LEMMA RwQuietStep ==
  ASSUME RwLocals, RwInv, NEW t \in Threads,
         NEW p \in {"idle", "load", "cas"}, pc[t] \in {"idle", "load", "cas"},
         pc' = [pc EXCEPT ![t] = p], cnt' = cnt,
         \A u \in Threads : u # t => op'[u] = op[u] /\ x'[u] = x[u],
         p = "cas" => ~Unavailable(op'[t], x'[t])
  PROVE  RwInv'
  <1>1. /\ Readers' = Readers /\ Holders' = Holders
        /\ \A u \in Threads : pc'[u] = "writes" <=> pc[u] = "writes"
    BY DEF RwLocals, Readers, Holders
  <1>2. WriterAlone'
    BY <1>1 DEF RwInv, WriterAlone
  <1>3. CntExact'
    BY <1>1 DEF RwInv, CntExact
  <1>4. ASSUME NEW u \in Threads, pc'[u] = "cas" PROVE ~Unavailable(op'[u], x'[u])
    BY <1>4 DEF RwInv, RwLocals, Unavailable
  <1> QED
    BY <1>2, <1>3, <1>4 DEF RwInv, Unavailable

LEMMA RwAcquire == ASSUME RwLocals, RwInv, NEW t \in Threads, CasSucceeds(t) PROVE RwInv'
  <1>1. pc[t] = "cas" /\ cnt = x[t] /\ ~Unavailable(op[t], cnt)
    BY DEF CasSucceeds, RwInv
  <1>2. /\ t \notin Readers
        /\ \A u \in Threads : u # t => pc'[u] = pc[u]
        /\ op' = op /\ x' = x
    BY <1>1 DEF CasSucceeds, Readers, RwLocals
  <1>3. \A u \in Threads : pc'[u] = "cas" => ~Unavailable(op'[u], x'[u])
    BY <1>2 DEF RwInv, CasSucceeds, RwLocals
  <1>4. CASE op[t] \in ReadOps
    <2>1. cnt' = cnt + 1 /\ pc'[t] = "reads" /\ cnt >= 0
      BY SMT, <1>1, <1>4 DEF CasSucceeds, RwLocals, Unavailable
    <2>2. /\ \A u \in Threads : pc[u] # "writes"
          /\ cnt = Cardinality(Readers)
      BY SMT, <2>1, ReadersCount DEF RwInv, CntExact
    <2>3. Readers' = Readers \cup {t}
      BY <1>2, <2>1 DEF Readers
    <2>4. Cardinality(Readers') = Cardinality(Readers) + 1
      BY <1>2, <2>3, ReadersCount, FS_AddElement
    <2>5. \A u \in Threads : pc'[u] # "writes"
      BY <1>2, <2>1, <2>2
    <2> QED
      BY <1>3, <2>1, <2>2, <2>4, <2>5 DEF RwInv, WriterAlone, CntExact, Unavailable
  <1>5. CASE op[t] \notin ReadOps
    <2>1. cnt' = -1 /\ pc'[t] = "writes" /\ cnt = 0
      BY <1>1, <1>5 DEF CasSucceeds, RwLocals, Unavailable
    <2>2. \A u \in Threads : pc[u] # "writes" /\ Readers = {}
      BY SMT, <2>1, ReadersCount DEF RwInv, CntExact
    <2>3. Holders' = {t} /\ \A u \in Threads : pc'[u] = "writes" => u = t
      BY <1>2, <2>1, <2>2 DEF Holders, Readers
    <2> QED
      BY <1>3, <2>1, <2>3 DEF RwInv, WriterAlone, CntExact, Unavailable
  <1> QED
    BY <1>4, <1>5

LEMMA RwRelease ==
  ASSUME RwLocals, RwInv, NEW t \in Threads, read_unlock(t) \/ write_unlock(t)
  PROVE  RwInv'
  <1>1. /\ pc'[t] = "idle"
        /\ \A u \in Threads : u # t => pc'[u] = pc[u]
        /\ op' = op /\ x' = x
    BY DEF read_unlock, write_unlock, RwLocals
  <1>2. \A u \in Threads : pc'[u] = "cas" => ~Unavailable(op'[u], x'[u])
    BY <1>1 DEF RwInv
  <1>3. CASE read_unlock(t)
    <2>1. pc[t] = "reads" /\ cnt' = cnt - 1
      BY <1>3 DEF read_unlock
    <2>2. \A u \in Threads : pc[u] # "writes"
      BY <2>1 DEF RwInv, WriterAlone, Holders
    <2>3. cnt = Cardinality(Readers) /\ t \in Readers
      BY <2>1, <2>2 DEF RwInv, CntExact, Readers
    <2>4. Readers' = Readers \ {t}
      BY <1>1 DEF Readers
    <2>5. Cardinality(Readers') = Cardinality(Readers) - 1
      BY <2>3, <2>4, ReadersCount, FS_RemoveElement
    <2>6. \A u \in Threads : pc'[u] # "writes"
      BY <1>1, <2>2
    <2> QED
      BY <1>2, <2>1, <2>3, <2>5, <2>6 DEF RwInv, WriterAlone, CntExact, Unavailable
  <1>4. CASE write_unlock(t)
    <2>1. pc[t] = "writes" /\ cnt' = 0
      BY <1>4 DEF write_unlock
    <2>2. Holders = {t}
      BY <2>1 DEF RwInv, WriterAlone
    <2>3. Readers' = {} /\ \A u \in Threads : pc'[u] # "writes"
      BY <1>1, <2>2 DEF Readers, Holders
    <2> QED
      BY <1>2, <2>1, <2>3, FS_EmptySet DEF RwInv, WriterAlone, CntExact, Unavailable
  <1> QED
    BY <1>3, <1>4

LEMMA RwNextInv == RwLocals /\ RwInv /\ [Next]_vars => RwInv'
  <1> SUFFICES ASSUME RwLocals, RwInv, [Next]_vars PROVE RwInv'
    OBVIOUS
  <1>1. ASSUME NEW t \in Threads, NEW o \in ReadOps \cup WriteOps, Call(t, o)
        PROVE  RwInv'
    BY <1>1, RwQuietStep DEF Call, RwLocals
  <1>2. ASSUME NEW t \in Threads, Load(t) PROVE RwInv'
    <2>1. CASE Unavailable(op[t], cnt)
      BY <1>2, <2>1, RwQuietStep DEF Load, RwLocals
    <2>2. CASE ~Unavailable(op[t], cnt)
      <3>1. pc' = [pc EXCEPT ![t] = "cas"] /\ op'[t] = op[t] /\ x'[t] = cnt
        BY <1>2, <2>2 DEF Load, RwLocals
      <3> QED BY <1>2, <2>2, <3>1, RwQuietStep DEF Load, RwLocals, Unavailable
    <2> QED BY <2>1, <2>2
  <1>3. ASSUME NEW t \in Threads, CasFails(t) PROVE RwInv'
    BY <1>3, RwQuietStep DEF CasFails, RwLocals
  <1>4. CASE UNCHANGED vars
    BY <1>4 DEF vars, RwInv, WriterAlone, CntExact, Unavailable, Holders, Readers
  <1> QED
    BY <1>1, <1>2, <1>3, <1>4, RwSteps, RwAcquire, RwRelease DEF Next

LEMMA RwLocalTypes == Spec => []RwLocals
  BY RwInitType, RwNextType, PTL DEF Spec

\* Exclusion, the exact counter and the loaded values hold in every state.
THEOREM RwInvariant == Spec => []RwInv
  <1>1. Spec => []RwLocals
    BY RwLocalTypes
  <1> QED
    BY <1>1, RwInitInv, RwNextInv, PTL DEF Spec

\* The counter and the locals of every thread keep their types.
THEOREM RwTyping == Spec => []RwTypeOK
  <1>1. RwLocals /\ RwInv => RwTypeOK
    BY SMT, ReadersCount DEF RwInv, CntExact, RwTypeOK
  <1> QED
    BY <1>1, RwLocalTypes, RwInvariant, PTL

\* A thread that holds the write lock is the only holder of the lock.
THEOREM WriterExclusion == Spec => []WriterAlone
  <1>1. RwInv => WriterAlone
    BY DEF RwInv
  <1> QED
    BY <1>1, RwInvariant, PTL

\* The counter is -1 under a writer and the number of readers otherwise.
THEOREM CounterExact == Spec => []CntExact
  <1>1. RwInv => CntExact
    BY DEF RwInv
  <1> QED
    BY <1>1, RwInvariant, PTL

\* What a counter other than 0 says.
LEMMA CounterSays ==
  ASSUME RwLocals, RwInv
  PROVE  /\ cnt # 0 => \E h \in Holders : TRUE
         /\ cnt < 0 => \E h \in Holders : pc[h] = "writes"
  <1>1. CASE \E t \in Threads : pc[t] = "writes"
    BY <1>1 DEF Holders
  <1>2. CASE ~\E t \in Threads : pc[t] = "writes"
    <2>1. cnt = Cardinality(Readers)
      BY <1>2 DEF RwInv, CntExact
    <2>2. ~(cnt < 0)
      BY SMT, <2>1, ReadersCount
    <2>3. cnt # 0 => Readers # {}
      BY <2>1, ReadersCount
    <2>4. Readers \subseteq Holders
      BY DEF Readers, Holders
    <2> QED BY <2>2, <2>3, <2>4
  <1> QED BY <1>1, <1>2

LEMMA BusyStep ==
  ASSUME RwLocals, RwInv, [Next]_vars, NEW t \in Threads,
         pc[t] \in {"load", "cas"}, pc'[t] = "idle"
  PROVE  \/ \E h \in Holders : op[t] = "read_trylock" => pc[h] = "writes"
         \/ SpuriousStep(t)
  <1>1. \E u \in Threads : Step(u) \/ \E o \in ReadOps \cup WriteOps : Call(u, o)
    BY DEF Next, vars
  <1>2. PICK u \in Threads : \/ Load(u) \/ CasSucceeds(u) \/ CasFails(u)
                             \/ read_unlock(u) \/ write_unlock(u)
                             \/ \E o \in ReadOps \cup WriteOps : Call(u, o)
    BY <1>1, RwSteps
  <1>3. u = t
    BY <1>2 DEF Load, CasSucceeds, CasFails, read_unlock, write_unlock, Call, RwLocals
  <1>4. Load(t) \/ CasFails(t)
    <2>1. ~read_unlock(t) /\ ~write_unlock(t) /\ \A o : ~Call(t, o)
      BY DEF read_unlock, write_unlock, Call
    <2>2. ~CasSucceeds(t)
      BY DEF CasSucceeds, RwLocals
    <2> QED BY <1>2, <1>3, <2>1, <2>2
  <1>5. CASE Load(t)
    <2>1. Unavailable(op[t], cnt)
      BY <1>5 DEF Load, RwLocals
    <2>2. CASE op[t] \in ReadOps
      <3>1. cnt < 0
        BY <2>1, <2>2 DEF Unavailable
      <3> QED BY <3>1, CounterSays
    <2>3. CASE op[t] \notin ReadOps
      <3>1. cnt # 0 /\ op[t] # "read_trylock"
        BY <2>1, <2>3 DEF Unavailable, ReadOps
      <3> QED BY <3>1, CounterSays
    <2> QED BY <2>2, <2>3
  <1>6. CASE CasFails(t)
    <2>1. op[t] = "write_trylock" /\ pc[t] = "cas"
      BY <1>6 DEF CasFails, RwLocals
    <2>2. x[t] = 0
      BY <2>1 DEF RwInv, Unavailable, ReadOps
    <2>3. CASE cnt = x[t]
      BY <1>6, <2>3 DEF SpuriousStep
    <2>4. CASE cnt # x[t]
      <3>1. op[t] # "read_trylock"
        BY <2>1
      <3> QED BY <2>2, <2>4, <3>1, CounterSays
    <2> QED BY <2>3, <2>4
  <1> QED BY <1>4, <1>5, <1>6

\* For every number of threads: a try function returns -EBUSY only while the
\* lock is held, for read_trylock by a writer, unless the weak exchange failed
\* spuriously (rte_rwlock_read_trylock, rte_rwlock_write_trylock).
THEOREM BusyMeansHeld == Spec => BusyOnlyIfHeld
  <1>1. RwLocals /\ RwInv /\ [Next]_vars =>
          [\A t \in Threads :
             pc[t] \in {"load", "cas"} /\ pc'[t] = "idle" =>
               \/ \E h \in Holders : op[t] = "read_trylock" => pc[h] = "writes"
               \/ SpuriousStep(t)]_vars
    BY BusyStep
  <1> QED
    BY <1>1, RwLocalTypes, RwInvariant, PTL DEF Spec, BusyOnlyIfHeld

-----------------------------------------------------------------------------
(***************************************************************************)
(* Remainders, of which SMT knows the defining equation.                   *)
(***************************************************************************)

\* What the remainder is.
LEMMA ModOf ==
  ASSUME NEW a \in Int, NEW m \in Nat \ {0}
  PROVE  /\ a % m \in Int /\ 0 <= a % m /\ a % m < m
         /\ a \div m \in Int /\ a = (m * (a \div m)) + (a % m)
  BY SMT

\* Only one number below m is the remainder.
LEMMA ModUnique ==
  ASSUME NEW m \in Nat \ {0}, NEW q \in Int, NEW p \in Int,
         NEW r \in Int, NEW s \in Int, 0 <= r, r < m, 0 <= s, s < m,
         (m * q) + r = (m * p) + s
  PROVE  q = p /\ r = s
  <1>1. ASSUME q < p PROVE FALSE
    <2>1. m * (q + 1) <= m * p
      BY SMT, <1>1
    <2>2. m * (q + 1) = (m * q) + m
      BY SMT
    <2> QED
      BY SMT, <2>1, <2>2
  <1>2. ASSUME p < q PROVE FALSE
    <2>1. m * (p + 1) <= m * q
      BY SMT, <1>2
    <2>2. m * (p + 1) = (m * p) + m
      BY SMT
    <2> QED
      BY SMT, <2>1, <2>2
  <1>3. q = p
    BY SMT, <1>1, <1>2
  <1> QED
    BY SMT, <1>3

\* Numbers that differ by a multiple of m have the same remainder.
LEMMA ModCongruent ==
  ASSUME NEW m \in Nat \ {0}, NEW a \in Int, NEW b \in Int, NEW k \in Int, a = b + (m * k)
  PROVE  a % m = b % m
  <1>1. /\ a % m \in Int /\ 0 <= a % m /\ a % m < m
        /\ a \div m \in Int /\ a = (m * (a \div m)) + (a % m)
    BY ModOf
  <1>2. /\ b % m \in Int /\ 0 <= b % m /\ b % m < m
        /\ b \div m \in Int /\ b = (m * (b \div m)) + (b % m)
    BY ModOf
  <1>3. (m * (b \div m)) + (m * k) = m * ((b \div m) + k) /\ (b \div m) + k \in Int
    BY SMT, <1>2
  <1>4. (m * (a \div m)) + (a % m) = (m * ((b \div m) + k)) + (b % m)
    <2> DEFINE d == m * (a \div m)
               y == m * (b \div m)
               z == m * k
    <2>1. d \in Int /\ y \in Int /\ z \in Int
      BY SMT, <1>1, <1>2
    <2> HIDE DEF d, y, z
    <2>2. d + (a % m) = (y + z) + (b % m)
      BY SMT, <2>1, <1>1, <1>2 DEF d, y, z
    <2> QED
      BY <2>2, <1>3 DEF d, y, z
  <1> DEFINE q == a \div m
             p == (b \div m) + k
             r == a % m
             s == b % m
  <1>5. /\ q \in Int /\ p \in Int /\ r \in Int /\ s \in Int
        /\ 0 <= r /\ r < m /\ 0 <= s /\ s < m /\ (m * q) + r = (m * p) + s
    BY <1>1, <1>2, <1>3, <1>4
  <1> HIDE DEF q, p, r, s
  <1>6. r = s
    BY <1>5, ModUnique
  <1> QED
    BY <1>6 DEF r, s

\* Below 0 the remainders start again from m - 1.
LEMMA ModBelow ==
  ASSUME NEW m \in Nat \ {0}, NEW n \in Nat \ {0}, n < m
  PROVE  (0 - n) % m = m - n
  <1> DEFINE a == 0 - n
             b == m - n
             k == 0 - 1
  <1>1. a \in Int /\ b \in Int /\ k \in Int /\ a = b + (m * k)
    BY SMT
  <1>2. b % m = b
    BY SMT
  <1> HIDE DEF a, b, k
  <1>3. a % m = b % m
    BY <1>1, ModCongruent
  <1> QED
    BY <1>2, <1>3 DEF a, b

-----------------------------------------------------------------------------
(***************************************************************************)
(* The atomic counters.                                                    *)
(***************************************************************************)

\* The types of the counter and of its users.
AtomicTypeOK ==
  /\ use \in Uses /\ v_cnt \in Int /\ refs \in SUBSET Users /\ told \in Nat /\ sum \in Int
  /\ step \in [Users -> {"out", "cmpset", "read", "torn"}] /\ tmp \in [Users -> Int]

\* A reference count is the number of references, as a value of the counter's
\* width; a user who stores is alone with an object that has none.
RefsInv ==
  /\ v_cnt = Signed(One * Cardinality(refs))
  /\ told = IF refs = {} THEN 1 ELSE 0
  /\ \A t \in Users : step[t] = "cmpset" =>
       refs = {} /\ \A u \in Users : step[u] = "cmpset" => u = t

\* A flag that is set in one step is 0 or 1, and says whether some user has it.
FlagInv ==
  /\ v_cnt \in {0, 1} /\ (v_cnt = 0 <=> refs = {})
  /\ \A t, u \in refs : t = u
  /\ \A t \in Users : step[t] = "cmpset" => t \in refs

\* Only flags are set in two steps, and stored to by other loops in one width.
TornInv == \A t \in Users : /\ step[t] = "torn" => use.for = "flag" /\ TornSet
                            /\ step[t] = "cmpset" => use.width = 64

\* The inductive invariant of the counters.
AtomicInv ==
  /\ AtomicTypeOK
  /\ use.for \in {"refs", "refs_down"} => RefsInv
  /\ use.for = "flag" /\ ~TornSet => FlagInv
  /\ TornInv
  /\ use.for = "sum" => v_cnt = Signed(sum)

\* The number of values of a counter.
Width == 2 * SignBit

LEMMA WidthPositive == Width \in Nat \ {0} /\ SignBit \in Nat /\ Width = 2 * SignBit /\ SignBit >= 2
  BY SMT, CntAssumption DEF Width

\* A counter's value differs from the number by a multiple of the width.
LEMMA SignedOf ==
  ASSUME NEW v \in Int
  PROVE  Signed(v) \in Int /\ \E k \in Int : Signed(v) = v + (Width * k)
  <1>1. /\ v % Width \in Int /\ 0 <= v % Width /\ v % Width < Width
        /\ v \div Width \in Int /\ v = (Width * (v \div Width)) + (v % Width)
    BY ModOf, WidthPositive
  <1>2. Signed(v) = IF v % Width < SignBit THEN v % Width ELSE (v % Width) - Width
    BY DEF Signed, Width
  <1> DEFINE q == v \div Width
             r == v % Width
  <1>3. q \in Int /\ r \in Int /\ v = (Width * q) + r
    BY <1>1
  <1>4. Signed(v) = r \/ Signed(v) = r - Width
    BY <1>2
  <1> HIDE DEF q, r
  <1>5. Width * (0 - q) = 0 - (Width * q) /\ Width * ((0 - q) - 1) = (0 - (Width * q)) - Width
    BY SMT, <1>3, WidthPositive
  <1> DEFINE d == Width * q
  <1>6. d \in Int /\ v = d + r /\ Width * (0 - q) = 0 - d /\ Width * ((0 - q) - 1) = (0 - d) - Width
    <2>1. d \in Int
      BY SMT, <1>3, WidthPositive
    <2> QED
      BY <2>1, <1>3, <1>5
  <1> HIDE DEF d
  <1>7. r = v + (0 - d) /\ r - Width = v + ((0 - d) - Width) /\ 0 - q \in Int /\ (0 - q) - 1 \in Int
        /\ r - Width \in Int
    BY SMT, <1>6, <1>3, WidthPositive
  <1>8. r = v + (Width * (0 - q)) /\ r - Width = v + (Width * ((0 - q) - 1))
    BY <1>6, <1>7
  <1> QED
    BY <1>3, <1>4, <1>7, <1>8

\* Numbers that differ by a multiple of the width are the same counter.
LEMMA SignedSame ==
  ASSUME NEW a \in Int, NEW b \in Int, NEW k \in Int, a = b + (Width * k)
  PROVE  Signed(a) = Signed(b)
  <1>1. a % Width = b % Width
    BY ModCongruent, WidthPositive
  <1> QED
    BY <1>1 DEF Signed, Width

\* What is added to a counter is added to the number it stands for.
LEMMA SignedSum ==
  ASSUME NEW a \in Int, NEW b \in Int
  PROVE  Signed(Signed(a) + b) = Signed(a + b)
  <1>1. PICK k \in Int : Signed(a) = a + (Width * k)
    BY SignedOf
  <1>2. Signed(a) + b \in Int /\ a + b \in Int /\ Signed(a) + b = (a + b) + (Width * k)
    <2> DEFINE d == Width * k
               y == Signed(a)
    <2>1. d \in Int /\ y \in Int /\ y = a + d
      <3>1. d \in Int
        BY SMT, WidthPositive
      <3> QED
        BY <3>1, <1>1, SignedOf
    <2> HIDE DEF d, y
    <2>2. y + b \in Int /\ a + b \in Int /\ y + b = (a + b) + d
      BY SMT, <2>1
    <2> QED
      BY <2>2 DEF d, y
  <1> QED
    BY <1>2, SignedSame

\* The counter of fewer references than it has values is 0 only without any.
LEMMA SignedSmall ==
  ASSUME NEW n \in Nat, n < Width
  PROVE  /\ Signed(n) = 0 <=> n = 0
         /\ Signed(0 - n) = 0 <=> n = 0
  <1>1. n % Width = n
    BY SMT, WidthPositive
  <1>2. Signed(n) = 0 <=> n = 0
    BY SMT, <1>1, WidthPositive DEF Signed, Width
  <1>3. n # 0 => (0 - n) % Width = Width - n
    BY ModBelow, WidthPositive
  <1>4. n = 0 => 0 - n = n
    BY SMT
  <1>5. n # 0 => Signed(0 - n) # 0
    <2> DEFINE y == (0 - n) % Width
    <2>1. n # 0 => y = Width - n
      BY <1>3
    <2>2. Signed(0 - n) = IF y < SignBit THEN y ELSE y - Width
      BY DEF Signed, Width
    <2> HIDE DEF y
    <2> QED
      BY SMT, <2>1, <2>2, WidthPositive
  <1> QED
    BY <1>2, <1>4, <1>5

\* One reference, counted up or down.
LEMMA SignedOne == Signed(0) = 0 /\ Signed(1) = 1 /\ Signed(-1) = -1
  <1>1. 1 % Width = 1 /\ 0 % Width = 0
    BY SMT, WidthPositive
  <1>2. 1 < Width /\ 1 \in Nat \ {0} /\ -1 = 0 - 1
    BY SMT, WidthPositive
  <1>3. (0 - 1) % Width = Width - 1
    BY <1>2, ModBelow, WidthPositive
  <1>5. Signed(0) = 0 /\ Signed(1) = 1
    BY SMT, <1>1, WidthPositive DEF Signed, Width
  <1> DEFINE y == (-1) % Width
  <1>6. y = Width - 1
    BY <1>2, <1>3
  <1>7. Signed(-1) = IF y < SignBit THEN y ELSE y - Width
    BY DEF Signed, Width
  <1> HIDE DEF y
  <1> QED
    BY SMTT(20), <1>5, <1>6, <1>7, WidthPositive

\* The counter of no reference.
LEMMA CountNone == Signed(One * Cardinality({})) = 0
  <1>1. Cardinality({}) = 0
    BY FS_EmptySet
  <1>2. One * 0 = 0
    BY SMT DEF One
  <1> QED
    BY <1>1, <1>2, SignedOne

\* One is 1 or -1, and NewValue counts one reference.
LEMMA OneValues == One \in Int /\ (One = 1 \/ One = -1) /\ NewValue \in Int
                   /\ (use.for \in {"refs", "refs_down"} => NewValue = One)
                   /\ (use.for \notin {"refs", "refs_down"} => One = 1)
  <1>1. One \in Int /\ (One = 1 \/ One = -1) /\ 0 \in Int
    BY SMT DEF One
  <1> QED
    BY <1>1 DEF One, NewValue

\* How many references users can have.
LEMMA RefsFinite ==
  ASSUME NEW S \in SUBSET Users
  PROVE  IsFiniteSet(S) /\ Cardinality(S) \in Nat /\ Cardinality(S) < Width
  <1>1. IsFiniteSet(S) /\ Cardinality(S) <= Cardinality(Users)
    BY FS_Subset, CntAssumption
  <1>2. Cardinality(S) \in Nat /\ Cardinality(Users) \in Nat
    BY <1>1, FS_CardinalityType, CntAssumption
  <1> QED
    BY SMT, <1>1, <1>2, CntAssumption DEF Width

\* What every width adds.
LEMMA AddedIs == ASSUME use \in Uses, NEW inc PROVE Added(inc) = Signed(v_cnt + inc)
  <1>1. use.width = 16 \/ use.width = 32 \/ use.width = 64
    BY DEF Uses
  <1> QED
    BY <1>1 DEF Added, rte_atomic16_add, rte_atomic32_add, rte_atomic64_add

\* The widths are three.
LEMMA WidthsDiffer ==
  ASSUME use \in Uses
  PROVE  (use.width = 16 \/ use.width = 32 \/ use.width = 64) /\ 16 # 32 /\ 16 # 64 /\ 32 # 64
  <1>1. 16 # 32 /\ 16 # 64 /\ 32 # 64
    BY SMT
  <1> QED
    BY <1>1 DEF Uses

\* What every width tests.
LEMMA TestedIs == ASSUME use \in Uses, NEW inc PROVE Tested(inc) <=> Added(inc) = 0
  <1>1. CASE use.width = 16
    BY <1>1, WidthsDiffer DEF Tested, Added, rte_atomic16_and_test
  <1>2. CASE use.width = 32
    BY <1>2, WidthsDiffer DEF Tested, Added, rte_atomic32_and_test
  <1>3. CASE use.width = 64
    BY <1>3, WidthsDiffer DEF Tested, Added, rte_atomic64_and_test
  <1> QED
    BY <1>1, <1>2, <1>3, WidthsDiffer

\* What every width's test_and_set and exchange do.
LEMMA FlagIs ==
  ASSUME use \in Uses
  PROVE  /\ FlagSet.v = (IF v_cnt = 0 THEN 1 ELSE v_cnt) /\ (FlagSet.ret <=> v_cnt = 0)
         /\ Exchanged(1).v = 1 /\ Exchanged(1).ret = v_cnt
  <1>1. /\ FlagSet = [v |-> IF v_cnt = 0 THEN 1 ELSE v_cnt, ret |-> v_cnt = 0]
        /\ Exchanged(1) = [v |-> 1, ret |-> v_cnt]
    <2>1. CASE use.width = 16
      BY <2>1, WidthsDiffer DEF FlagSet, Exchanged, rte_atomic16_test_and_set,
                                rte_atomic16_cmpset, rte_atomic16_exchange
    <2>2. CASE use.width = 32
      BY <2>2, WidthsDiffer DEF FlagSet, Exchanged, rte_atomic32_test_and_set,
                                rte_atomic32_cmpset, rte_atomic32_exchange
    <2>3. CASE use.width = 64
      BY <2>3, WidthsDiffer DEF FlagSet, Exchanged, rte_atomic64_test_and_set,
                                rte_atomic64_cmpset, rte_atomic64_exchange
    <2> QED
      BY <2>1, <2>2, <2>3, WidthsDiffer
  <1>2. Exchanged(1).v = 1 /\ Exchanged(1).ret = v_cnt
    BY SMT, <1>1
  <1> DEFINE new == IF v_cnt = 0 THEN 1 ELSE v_cnt
             was0 == v_cnt = 0
  <1>3. FlagSet = [v |-> new, ret |-> was0]
    BY <1>1
  <1> HIDE DEF new, was0
  <1>4. FlagSet.v = new /\ FlagSet.ret = was0
    BY <1>3
  <1> QED
    BY <1>2, <1>4 DEF new, was0

\* Nobody is torn but in TornLoad.
LEMMA TornKept ==
  ASSUME AtomicInv, use' = use,
         \A u \in Users : /\ step'[u] = "torn" => step[u] = "torn"
                          /\ step'[u] = "cmpset" => step[u] = "cmpset" \/ use.width = 64
  PROVE  TornInv' /\ (TornSet' <=> TornSet)
  <1>1. TornSet' <=> TornSet
    BY DEF TornSet
  <1>2. ASSUME NEW u \in Users
        PROVE  /\ step'[u] = "torn" => use'.for = "flag" /\ TornSet'
               /\ step'[u] = "cmpset" => use'.width = 64
    <2>1. /\ step[u] = "torn" => use.for = "flag" /\ TornSet
          /\ step[u] = "cmpset" => use.width = 64
      BY DEF AtomicInv, TornInv
    <2> QED
      BY <1>1, <2>1
  <1> QED
    BY <1>1, <1>2 DEF TornInv

\* A store by the one user of a new object, of the flag or of the sum.
LEMMA StoreStep ==
  ASSUME AtomicInv, NEW t \in Users,
         v_cnt' = NewValue, Stored(t), use' = use, tmp' \in [Users -> Int],
         use.for = "flag" => t \in refs,
         use.for \in {"refs", "refs_down"} =>
           refs = {} /\ \A u \in Users : step[u] = "cmpset" => u = t
  PROVE  AtomicInv'
  <1>1. use \in Uses /\ use.for \in {"refs", "refs_down", "flag", "sum"}
    BY DEF AtomicInv, AtomicTypeOK, Uses
  <1>2. step' = [step EXCEPT ![t] = "out"] /\ told' = 0 /\ sum' = 0
    BY DEF Stored
  <1>3. \A u \in Users : step'[u] = IF u = t THEN "out" ELSE step[u]
    BY <1>2 DEF AtomicInv, AtomicTypeOK
  <1>4. AtomicTypeOK'
    <2>1. refs' \in SUBSET Users
      BY <1>1 DEF Stored, AtomicInv, AtomicTypeOK
    <2>2. step' \in [Users -> {"out", "cmpset", "read", "torn"}]
      BY <1>2 DEF AtomicInv, AtomicTypeOK
    <2>3. 0 \in Int /\ 0 \in Nat
      BY SMT
    <2> QED
      BY <1>1, <1>2, <2>1, <2>2, <2>3, OneValues DEF AtomicTypeOK
  <1>5. ASSUME use.for \in {"refs", "refs_down"} PROVE RefsInv'
    <2>1. refs' = {t}
      BY <1>5 DEF Stored
    <2>2. One' = One
      BY DEF One
    <2>3. v_cnt' = Signed(One * Cardinality({t}))
      <3>1. One * 1 = One
        BY SMT, OneValues
      <3>2. Cardinality({t}) = 1
        BY FS_Singleton
      <3> QED
        BY <3>1, <3>2, <1>5, OneValues, SignedOne
    <2>4. \A u \in Users : step'[u] # "cmpset"
      BY <1>5, <1>3
    <2> QED
      BY <1>2, <2>1, <2>2, <2>3, <2>4 DEF RefsInv, Signed
  <1>6. ASSUME use.for = "flag", ~TornSet PROVE FlagInv'
    <2>1. refs' = {} /\ v_cnt' = 0
      BY <1>6 DEF Stored, NewValue, AtomicInv, FlagInv
    <2>2. \A u \in Users : step'[u] # "cmpset"
      BY <1>3, <1>6 DEF AtomicInv, FlagInv
    <2> QED
      BY <2>1, <2>2 DEF FlagInv
  <1>7. ASSUME use.for = "sum" PROVE v_cnt' = Signed(sum')
    BY <1>7, <1>2, SignedOne DEF NewValue
  <1>8. TornInv' /\ (TornSet' <=> TornSet)
    BY <1>3, TornKept
  <1> QED
    BY <1>4, <1>5, <1>6, <1>7, <1>8 DEF AtomicInv, Signed

\* A step that touches neither the counter nor who has references.
LEMMA IdleStep ==
  ASSUME AtomicInv, NEW t \in Users, NEW s \in {"out", "read"},
         step' = [step EXCEPT ![t] = s], tmp' \in [Users -> Int],
         v_cnt' = v_cnt, refs' = refs, told' = told, sum' = sum, use' = use
  PROVE  AtomicInv'
  <1>1. \A u \in Users : /\ step'[u] = "cmpset" => step[u] = "cmpset"
                         /\ step'[u] = "torn" => step[u] = "torn"
    BY DEF AtomicInv, AtomicTypeOK
  <1>2. AtomicTypeOK'
    BY DEF AtomicInv, AtomicTypeOK
  <1>3. One' = One
    BY DEF One
  <1>4. TornInv' /\ (TornSet' <=> TornSet)
    BY <1>1, TornKept
  <1> QED
    BY <1>1, <1>2, <1>3, <1>4 DEF AtomicInv, RefsInv, FlagInv, Signed

LEMMA PlainStoreStep == ASSUME AtomicInv, NEW t \in Users, PlainStore(t) PROVE AtomicInv'
  <1>1. tmp' \in [Users -> Int]
    BY DEF PlainStore, AtomicInv, AtomicTypeOK
  <1>2. use.for = "flag" => t \in refs
    BY DEF PlainStore, MayStore
  <1>3. use.for \in {"refs", "refs_down"} =>
          refs = {} /\ \A u \in Users : step[u] = "cmpset" => u = t
    BY DEF PlainStore, MayStore
  <1> QED
    BY <1>1, <1>2, <1>3, StoreStep DEF PlainStore

\* What LoadCnt leaves in tmp.
LEMMA LoadType == ASSUME AtomicInv, NEW t \in Users, LoadCnt(t) PROVE tmp' \in [Users -> Int]
  <1>1. \A n \in 0..((2 * SignBit) - 1) : Signed(n) \in Int
    <2>1. \A n \in 0..((2 * SignBit) - 1) : n \in Int
      BY SMT, WidthPositive
    <2> QED
      BY <2>1, SignedOf
  <1>2. PICK n \in 0..((2 * SignBit) - 1) : tmp' = [tmp EXCEPT ![t] = Signed(n)]
    BY DEF LoadCnt
  <1>3. Signed(n) \in Int /\ tmp \in [Users -> Int]
    BY <1>1 DEF AtomicInv, AtomicTypeOK
  <1> QED
    BY <1>2, <1>3

LEMMA SetLoadStep == ASSUME AtomicInv, NEW t \in Users, rte_atomic64_set_load(t) PROVE AtomicInv'
  <1>1. tmp' \in [Users -> Int] /\ MayStore(t)
    BY LoadType DEF rte_atomic64_set_load
  <1>2. \A u \in Users : step'[u] = IF u = t THEN "cmpset" ELSE step[u]
    BY DEF rte_atomic64_set_load, AtomicInv, AtomicTypeOK
  <1>3. AtomicTypeOK'
    BY <1>1 DEF rte_atomic64_set_load, AtomicInv, AtomicTypeOK
  <1>4. One' = One
    BY DEF One, rte_atomic64_set_load
  <1>5. ASSUME use.for \in {"refs", "refs_down"} PROVE RefsInv'
    <2>1. refs = {} /\ \A u \in Users : step[u] # "cmpset"
      BY <1>1, <1>5 DEF MayStore
    <2>2. \A u \in Users : step'[u] = "cmpset" => u = t
      BY <1>2, <2>1
    <2> QED
      BY <1>4, <1>5, <2>1, <2>2 DEF rte_atomic64_set_load, AtomicInv, RefsInv, Signed
  <1>6. ASSUME use.for = "flag", ~TornSet PROVE FlagInv'
    <2>1. t \in refs
      BY <1>1, <1>6 DEF MayStore
    <2>2. FlagInv /\ v_cnt' = v_cnt /\ refs' = refs
      BY <1>6 DEF rte_atomic64_set_load, AtomicInv
    <2>3. \A u \in Users : step'[u] = "cmpset" => u \in refs
      BY <1>2, <2>1, <2>2 DEF FlagInv
    <2> QED
      BY <2>2, <2>3 DEF FlagInv
  <1>7. TornInv' /\ (TornSet' <=> TornSet)
    <2>1. use' = use /\ use.width = 64
      BY DEF rte_atomic64_set_load
    <2>2. \A u \in Users : step'[u] = "torn" => step[u] = "torn"
      BY <1>2
    <2> QED
      BY <2>1, <2>2, TornKept
  <1> QED
    BY <1>3, <1>5, <1>6, <1>7 DEF rte_atomic64_set_load, AtomicInv, Signed

LEMMA SetStep == ASSUME AtomicInv, NEW t \in Users, rte_atomic64_set(t) PROVE AtomicInv'
  <1>1. tmp' \in [Users -> Int]
    <2>1. 0 \in Int
      BY SMT
    <2> QED
      BY <2>1 DEF rte_atomic64_set, AtomicInv, AtomicTypeOK
  <1> DEFINE c == rte_atomic64_cmpset(v_cnt, tmp[t], NewValue)
  <1>2. /\ c.v = (IF v_cnt = tmp[t] THEN NewValue ELSE v_cnt)
        /\ c.ret <=> v_cnt = tmp[t]
    BY DEF rte_atomic64_cmpset
  <1>3. /\ v_cnt' = c.v /\ use' = use /\ step[t] = "cmpset"
        /\ \/ c.ret /\ Stored(t)
           \/ ~c.ret /\ step' = [step EXCEPT ![t] = "out"] /\ UNCHANGED <<refs, told, sum>>
    BY DEF rte_atomic64_set
  <1> HIDE DEF c
  <1>4. CASE v_cnt = tmp[t]
    <2>1. v_cnt' = NewValue /\ Stored(t)
      BY <1>2, <1>3, <1>4
    <2>2. use.for = "flag" => t \in refs
      <3>1. ~TornSet
        BY <1>3, WidthsDiffer DEF AtomicInv, AtomicTypeOK, TornInv, TornSet
      <3> QED
        BY <1>3, <3>1 DEF AtomicInv, FlagInv
    <2>3. use.for \in {"refs", "refs_down"} =>
            refs = {} /\ \A u \in Users : step[u] = "cmpset" => u = t
      BY <1>3 DEF AtomicInv, RefsInv
    <2> QED
      BY <1>1, <1>3, <2>1, <2>2, <2>3, StoreStep
  <1>5. CASE v_cnt # tmp[t]
    BY <1>1, <1>2, <1>3, <1>5, IdleStep
  <1> QED
    BY <1>4, <1>5

LEMMA ReadStep ==
  ASSUME AtomicInv, NEW t \in Users, rte_atomic64_read(t) \/ ReadBack(t)
  PROVE  AtomicInv'
  <1>1. CASE rte_atomic64_read(t)
    <2>1. tmp' \in [Users -> Int]
      BY <1>1, LoadType DEF rte_atomic64_read
    <2> QED
      BY <1>1, <2>1, IdleStep DEF rte_atomic64_read
  <1>2. CASE ReadBack(t)
    <2>1. tmp' \in [Users -> Int]
      <3>1. 0 \in Int
        BY SMT
      <3> QED
        BY <1>2, <3>1 DEF ReadBack, AtomicInv, AtomicTypeOK
    <2>2. rte_atomic64_cmpset(v_cnt, tmp[t], tmp[t]).v = v_cnt
      BY SMT DEF rte_atomic64_cmpset
    <2> QED
      BY <1>2, <2>1, <2>2, IdleStep DEF ReadBack
  <1> QED
    BY <1>1, <1>2

\* References taken while one is held are counted.
LEMMA AddRefsStep ==
  ASSUME AtomicInv, NEW t \in Users, NEW S \in SUBSET Users, AddRefs(t, S)
  PROVE  AtomicInv'
  <1>1. /\ use \in Uses /\ refs \in SUBSET Users /\ v_cnt \in Int /\ t \in refs /\ RefsInv
        /\ use.for \in {"refs", "refs_down"} /\ S \cap refs = {}
        /\ v_cnt' = Added(One * Cardinality(S)) /\ refs' = refs \cup S
        /\ use' = use /\ told' = told /\ sum' = sum /\ step' = step /\ tmp' = tmp
    BY DEF AddRefs, AtomicInv, AtomicTypeOK
  <1>2. Cardinality(S) \in Nat /\ Cardinality(refs) \in Nat /\ IsFiniteSet(S) /\ IsFiniteSet(refs)
    BY <1>1, RefsFinite
  <1>3. Cardinality(refs \cup S) = Cardinality(refs) + Cardinality(S)
    <2>1. Cardinality(refs \cup S) = Cardinality(refs) + Cardinality(S) - Cardinality(refs \cap S)
      BY <1>2, FS_Union
    <2>2. refs \cap S = {}
      BY <1>1
    <2>3. Cardinality(refs \cap S) = 0
      BY <2>2, FS_EmptySet
    <2>4. \A m, n \in Nat : m + n - 0 = m + n
      BY SMT
    <2> QED
      BY <1>2, <2>1, <2>3, <2>4
  <1> DEFINE a == One * Cardinality(refs)
             b == One * Cardinality(S)
  <1>4. a \in Int /\ b \in Int /\ One * Cardinality(refs \cup S) = a + b
    BY SMT, <1>2, <1>3, OneValues
  <1>5. v_cnt' = Signed(v_cnt + b) /\ v_cnt = Signed(a)
    BY <1>1, AddedIs DEF RefsInv
  <1> HIDE DEF a, b
  <1>6. v_cnt' = Signed(a + b)
    BY <1>4, <1>5, SignedSum
  <1>7. One' = One
    BY <1>1 DEF One
  <1>8. v_cnt' = Signed(One * Cardinality(refs'))
    BY <1>1, <1>4, <1>6
  <1>9. refs # {} /\ refs' # {} /\ \A u \in Users : step[u] # "cmpset"
    BY <1>1 DEF RefsInv
  <1>10. RefsInv'
    BY <1>1, <1>7, <1>8, <1>9 DEF RefsInv, Signed
  <1>11. v_cnt' \in Int
    <2>1. a + b \in Int
      BY SMT, <1>4
    <2> QED
      BY <1>6, <2>1, SignedOf
  <1> QED
    BY <1>1, <1>10, <1>11, TornKept DEF AtomicInv, AtomicTypeOK

\* The test says 0 to the one that drops the last reference, and to no other.
LEMMA DropRefStep == ASSUME AtomicInv, NEW t \in Users, DropRef(t) PROVE AtomicInv'
  <1>1. /\ use \in Uses /\ refs \in SUBSET Users /\ v_cnt \in Int /\ t \in refs /\ RefsInv
        /\ use.for \in {"refs", "refs_down"} /\ refs' = refs \ {t}
        /\ v_cnt' = Added(0 - One) /\ told' = told + (IF Tested(0 - One) THEN 1 ELSE 0)
        /\ use' = use /\ sum' = sum /\ step' = step /\ tmp' = tmp
    BY DEF DropRef, AtomicInv, AtomicTypeOK
  <1>2. Cardinality(refs) \in Nat /\ IsFiniteSet(refs)
    BY <1>1, RefsFinite
  <1>3. Cardinality(refs \ {t}) = Cardinality(refs) - 1
    BY <1>1, <1>2, FS_RemoveElement
  <1>4. Cardinality(refs \ {t}) \in Nat /\ Cardinality(refs \ {t}) < Width
    BY <1>1, RefsFinite
  <1> DEFINE n == Cardinality(refs \ {t})
             a == One * Cardinality(refs)
             b == 0 - One
  <1>5. a \in Int /\ b \in Int /\ One * n = a + b /\ (One * n = n \/ One * n = 0 - n)
    BY SMT, <1>2, <1>3, <1>4, OneValues
  <1>6. v_cnt' = Signed(v_cnt + b) /\ v_cnt = Signed(a)
    BY <1>1, AddedIs DEF RefsInv
  <1>7. n \in Nat /\ n < Width /\ One' = One
    BY <1>1, <1>4 DEF One
  <1>8. n = 0 <=> refs \ {t} = {}
    <2>1. IsFiniteSet(refs \ {t})
      BY <1>1, RefsFinite
    <2> QED
      BY <2>1, FS_EmptySet
  <1>9. Tested(b) <=> v_cnt' = 0
    BY <1>1, TestedIs
  <1>10. told = 0 /\ told' = told + (IF Tested(b) THEN 1 ELSE 0)
    BY <1>1 DEF RefsInv
  <1>11. refs' = refs \ {t} /\ v_cnt' = Signed(a + b)
    BY <1>1, <1>5, <1>6, SignedSum
  <1>12. v_cnt' = Signed(One * Cardinality(refs'))
    BY <1>5, <1>11
  <1> HIDE DEF a, b, n
  <1>13. v_cnt' = Signed(n) \/ v_cnt' = Signed(0 - n)
    BY <1>5, <1>11
  <1>14. v_cnt' = 0 <=> n = 0
    BY <1>7, <1>13, SignedSmall
  <1>15. told' = IF refs' = {} THEN 1 ELSE 0
    <2>1. 0 + 1 = 1 /\ 0 + 0 = 0
      BY SMT
    <2> QED
      BY <1>8, <1>9, <1>10, <1>11, <1>14, <2>1
  <1>16. \A u \in Users : step[u] # "cmpset"
    BY <1>1 DEF RefsInv
  <1>17. RefsInv'
    BY <1>1, <1>7, <1>12, <1>15, <1>16 DEF RefsInv, Signed
  <1>18. v_cnt' \in Int /\ told' \in Nat
    <2>1. a + b \in Int /\ 0 \in Nat /\ 1 \in Nat
      BY SMT, <1>5
    <2> QED
      BY <1>11, <1>15, <2>1, SignedOf
  <1> QED
    BY <1>1, <1>17, <1>18, TornKept DEF AtomicInv, AtomicTypeOK

LEMMA AddToSumStep == ASSUME AtomicInv, NEW inc \in {-1, 1, 2}, AddToSum(inc) PROVE AtomicInv'
  <1>1. /\ use \in Uses /\ use.for = "sum" /\ sum \in Int /\ v_cnt \in Int /\ v_cnt = Signed(sum)
        /\ v_cnt' = Added(inc) /\ sum' = sum + inc
        /\ use' = use /\ refs' = refs /\ told' = told /\ step' = step /\ tmp' = tmp
    BY DEF AddToSum, AtomicInv, AtomicTypeOK
  <1>2. inc \in Int /\ sum + inc \in Int
    BY SMT, <1>1
  <1>3. v_cnt' = Signed(v_cnt + inc)
    BY <1>1, AddedIs
  <1>4. v_cnt' = Signed(sum')
    BY <1>1, <1>2, <1>3, SignedSum
  <1>5. v_cnt' \in Int /\ sum' \in Int
    BY <1>1, <1>2, <1>4, SignedOf
  <1> QED
    BY <1>1, <1>4, <1>5, TornKept DEF AtomicInv, AtomicTypeOK, Signed

\* Only a user who finds the flag 0 gets it.
LEMMA TakeFlagStep == ASSUME AtomicInv, NEW t \in Users, TakeFlag(t) PROVE AtomicInv'
  <1>1. /\ use \in Uses /\ use.for = "flag" /\ refs \in SUBSET Users /\ v_cnt \in Int
        /\ use' = use /\ told' = told /\ sum' = sum /\ step' = step /\ tmp' = tmp
    BY DEF TakeFlag, AtomicInv, AtomicTypeOK
  <1>2. 0 # 1 /\ 1 \in Int
    BY SMT
  <1>3. v_cnt' \in Int /\ refs' \in SUBSET Users
    BY <1>1, <1>2, FlagIs DEF TakeFlag
  <1>4. TornInv' /\ (TornSet' <=> TornSet)
    BY <1>1, TornKept
  <1>5. ASSUME ~TornSet PROVE FlagInv'
    <2>1. FlagInv
      BY <1>1, <1>5 DEF AtomicInv
    <2>2. /\ v_cnt' \in {0, 1} /\ v_cnt' = 1
          /\ refs' = IF v_cnt = 0 THEN refs \cup {t} ELSE refs
      BY <1>1, <2>1, FlagIs DEF TakeFlag, FlagInv
    <2> QED
      BY <1>1, <1>2, <2>1, <2>2 DEF FlagInv
  <1> QED
    BY <1>1, <1>3, <1>4, <1>5 DEF AtomicInv, AtomicTypeOK

\* The steps of a flag that is set in two keep the types.
LEMMA TornFlagStep ==
  ASSUME AtomicInv, NEW t \in Users, TornLoad(t) \/ TornStore(t) PROVE AtomicInv'
  <1>1. /\ use \in Uses /\ use.for = "flag" /\ TornSet /\ refs \in SUBSET Users /\ v_cnt \in Int
        /\ tmp \in [Users -> Int] /\ use' = use /\ told' = told /\ sum' = sum
    BY DEF TornLoad, TornStore, AtomicInv, AtomicTypeOK, TornInv
  <1>2. TornSet'
    BY <1>1 DEF TornSet
  <1>3. 0 \in Int /\ 1 \in Int
    BY SMT
  <1>4. v_cnt' \in Int /\ refs' \in SUBSET Users /\ tmp' \in [Users -> Int]
    <2>1. CASE TornLoad(t)
      BY <1>1, <2>1 DEF TornLoad
    <2>2. CASE TornStore(t)
      <3> DEFINE c == rte_atomic32_test_and_set(tmp[t])
      <3>1. c.v = IF tmp[t] = 0 THEN 1 ELSE tmp[t]
        BY DEF rte_atomic32_test_and_set, rte_atomic32_cmpset
      <3>2. c.v \in Int
        BY <1>1, <1>3, <3>1
      <3> QED
        BY <1>1, <1>3, <2>2, <3>2 DEF TornStore
    <2> QED
      BY <2>1, <2>2
  <1>5. step' = [step EXCEPT ![t] = "torn"] \/ step' = [step EXCEPT ![t] = "out"]
    BY DEF TornLoad, TornStore
  <1>6. AtomicTypeOK'
    BY <1>1, <1>4, <1>5 DEF AtomicInv, AtomicTypeOK
  <1>7. TornInv'
    <2>1. \A u \in Users : step'[u] \in {step[u], "torn", "out"}
      BY <1>5 DEF AtomicInv, AtomicTypeOK
    <2> QED
      BY <1>1, <1>2, <2>1 DEF AtomicInv, TornInv
  <1> QED
    BY <1>1, <1>2, <1>6, <1>7 DEF AtomicInv

LEMMA AtomicStart == AtomicInit => AtomicInv
  <1> SUFFICES ASSUME AtomicInit PROVE AtomicInv
    OBVIOUS
  <1>1. 0 \in Int /\ 1 \in Nat /\ 0 \in {0, 1}
    BY SMT
  <1>2. AtomicTypeOK
    BY <1>1 DEF AtomicInit, AtomicTypeOK
  <1>3. RefsInv
    BY CountNone DEF AtomicInit, RefsInv
  <1>4. FlagInv
    BY <1>1 DEF AtomicInit, FlagInv
  <1>5. v_cnt = Signed(sum)
    BY SignedOne DEF AtomicInit
  <1>6. TornInv
    BY DEF AtomicInit, TornInv
  <1> QED
    BY <1>2, <1>3, <1>4, <1>5, <1>6 DEF AtomicInv

LEMMA AtomicStep == AtomicInv /\ [AtomicNext]_atomicVars => AtomicInv'
  <1> SUFFICES ASSUME AtomicInv, [AtomicNext]_atomicVars PROVE AtomicInv'
    OBVIOUS
  <1>1. ASSUME UNCHANGED atomicVars PROVE AtomicInv'
    BY <1>1 DEF atomicVars, AtomicInv, AtomicTypeOK, RefsInv, FlagInv, TornInv, TornSet, Signed, One
  <1>2. ASSUME NEW t \in Users,
               rte_atomic16_set(t) \/ rte_atomic32_set(t) \/ rte_atomic64_set_lp64(t)
        PROVE  AtomicInv'
    BY <1>2, PlainStoreStep DEF rte_atomic16_set, rte_atomic32_set, rte_atomic64_set_lp64
  <1> QED
    BY <1>1, <1>2, SetLoadStep, SetStep, ReadStep, DropRefStep, TakeFlagStep, TornFlagStep,
       AddRefsStep, AddToSumStep
    DEF AtomicNext

\* Whatever the width of the counters and the number of their users, who are
\* fewer than a counter has values, and in whatever order they take and drop
\* references, exactly one of them is told by dec_and_test or inc_and_test that
\* the count is 0, the one that drops the last reference; and no addition is
\* lost.  test_and_set gives a flag to one user at a time where it is one step:
\* at 16 and 64 bits, and at 32 bits while all users run on one core.
THEOREM OneIsAlwaysTold == AtomicSpec => []OneIsTold
  <1>1. AtomicInv => OneIsTold
    <2> SUFFICES ASSUME AtomicInv PROVE OneIsTold
      OBVIOUS
    <2>1. use.for \in {"refs", "refs_down", "flag", "sum"}
      BY DEF AtomicInv, AtomicTypeOK, Uses
    <2>2. CASE use.for = "flag" /\ ~TornSet
      <3>1. refs \in SUBSET Users /\ \A t, u \in refs : t = u
        BY <2>2 DEF AtomicInv, AtomicTypeOK, FlagInv
      <3>2. CASE refs = {}
        <4>1. Cardinality(refs) = 0
          BY <3>2, FS_EmptySet
        <4> QED
          BY SMT, <4>1, <2>2 DEF OneIsTold
      <3>3. CASE refs # {}
        <4> PICK t \in refs : TRUE
          BY <3>3
        <4>1. refs = {t}
          BY <3>1
        <4>2. Cardinality(refs) = 1
          BY <4>1, FS_Singleton
        <4> QED
          BY SMT, <4>2, <2>2 DEF OneIsTold
      <3> QED
        BY <3>2, <3>3
    <2>5. CASE use.for = "flag" /\ TornSet
      BY <2>5 DEF OneIsTold
    <2>3. CASE use.for = "sum"
      BY <2>3 DEF OneIsTold, AtomicInv
    <2>4. CASE use.for \in {"refs", "refs_down"}
      BY <2>4 DEF OneIsTold, AtomicInv, RefsInv
    <2> QED
      BY <2>1, <2>2, <2>3, <2>4, <2>5
  <1> QED
    BY <1>1, AtomicStart, AtomicStep, PTL DEF AtomicSpec

-----------------------------------------------------------------------------
(***************************************************************************)
(* The cycle counter.                                                      *)
(***************************************************************************)

\* The inductive invariant of the cycle counter.
TimeInv ==
  /\ tc \in [cycle_last : 0..cc_mask, nsec : Nat, nsec_frac : 0..nsec_mask] /\ elapsed \in Nat
  /\ (tc.nsec * (2^cc_shift)) + tc.nsec_frac = elapsed

\* The counter, read after at most as many cycles as it takes to wrap once,
\* tells how many there were.
LEMMA DeltaExact ==
  ASSUME NEW last \in 0..cc_mask, NEW cycles \in 0..cc_mask
  PROVE  /\ (last + cycles) % (cc_mask + 1) \in 0..cc_mask
         /\ CycleDelta(last, (last + cycles) % (cc_mask + 1)) = cycles
  <1> DEFINE m == 2^CounterBits
             now == (last + cycles) % m
  <1>1. /\ m \in Nat \ {0} /\ cc_mask = m - 1 /\ cc_mask + 1 = m
        /\ last \in Int /\ cycles \in Int /\ 0 <= last /\ 0 <= cycles /\ last < m /\ cycles < m
    <2>1. m \in Nat \ {0} /\ cc_mask = m - 1 /\ last \in 0..(m - 1) /\ cycles \in 0..(m - 1)
      BY TimeAssumption DEF cc_mask
    <2> HIDE DEF m
    <2> QED
      BY SMT, <2>1
  <1>2. now = IF last + cycles < m THEN last + cycles ELSE (last + cycles) - m
    <2> HIDE DEF m
    <2>1. CASE last + cycles < m
      BY SMT, <1>1, <2>1
    <2>2. CASE ~(last + cycles < m)
      <3> DEFINE a == last + cycles
                 b == (last + cycles) - m
                 k == 1
      <3>1. a \in Int /\ b \in Int /\ k \in Int /\ a = b + (m * k) /\ 0 <= b /\ b < m
        BY SMT, <1>1, <2>2
      <3>2. b % m = b
        BY SMT, <1>1, <3>1
      <3> HIDE DEF a, b, k
      <3>3. a % m = b % m
        BY <1>1, <3>1, ModCongruent
      <3> QED
        BY <2>2, <3>2, <3>3 DEF a, b
    <2> QED
      BY <2>1, <2>2
  <1>3. now = (last + cycles) % (cc_mask + 1)
    BY <1>1
  <1> HIDE DEF m, now
  <1>4. now \in 0..cc_mask /\ CycleDelta(last, now) = cycles
    BY SMT, <1>1, <1>2 DEF CycleDelta
  <1> QED
    BY <1>3, <1>4

\* A division loses nothing.
LEMMA DivModSum ==
  ASSUME NEW n \in Nat, NEW k \in Nat \ {0}
  PROVE  /\ n \div k \in Nat /\ n % k \in 0..(k - 1)
         /\ ((n \div k) * k) + (n % k) = n
  <1>1. /\ n % k \in Int /\ 0 <= n % k /\ n % k < k
        /\ n \div k \in Int /\ n = (k * (n \div k)) + (n % k)
    BY SMT, ModOf
  <1>2. n \div k \in Nat /\ n % k \in 0..(k - 1)
    BY SMT
  <1>3. (n \div k) * k = k * (n \div k)
    BY SMT, <1>1
  <1> QED
    BY <1>1, <1>2, <1>3

LEMMA TimeStep == ASSUME TimeInv, [TimeNext]_timeVars PROVE TimeInv'
  <1>1. CASE UNCHANGED timeVars
    BY <1>1 DEF TimeInv, timeVars, cc_mask, nsec_mask
  <1>2. CASE TimeNext
    <2>1. PICK cycles \in 0..cc_mask : rte_timecounter_update(cycles)
      BY <1>2 DEF TimeNext
    <2> DEFINE P == 2^cc_shift
               now == (tc.cycle_last + cycles) % (cc_mask + 1)
               n == cycles + tc.nsec_frac
    <2>2. now \in 0..cc_mask /\ CycleDelta(tc.cycle_last, now) = cycles
      BY DeltaExact DEF TimeInv
    <2>3. /\ tc' = [cycle_last |-> now, nsec |-> tc.nsec + (n \div P), nsec_frac |-> n % P]
          /\ elapsed' = elapsed + cycles
      <3>1. nsec_mask + 1 = P
        BY SMT, TimeAssumption DEF nsec_mask
      <3> QED
        BY <2>1, <2>2, <3>1 DEF rte_timecounter_update, CyclesToNs
    <2>4. /\ P \in Nat \ {0} /\ n \in Nat /\ cycles \in Nat /\ tc.nsec \in Nat /\ tc.nsec_frac \in Nat
          /\ elapsed \in Nat /\ (tc.nsec * P) + tc.nsec_frac = elapsed /\ nsec_mask = P - 1
      <3>1. P \in Nat \ {0} /\ nsec_mask = P - 1 /\ cc_mask \in Int
        BY SMT, TimeAssumption DEF nsec_mask, cc_mask
      <3>2. /\ tc.nsec_frac \in 0..nsec_mask /\ tc.nsec \in Nat /\ elapsed \in Nat
            /\ (tc.nsec * P) + tc.nsec_frac = elapsed
        BY DEF TimeInv
      <3> HIDE DEF P
      <3>3. n \in Nat /\ cycles \in Nat /\ tc.nsec_frac \in Nat
        BY SMT, <3>1, <3>2
      <3> QED
        BY <3>1, <3>2, <3>3
    <2> HIDE DEF P, n, now
    <2>5. /\ n \div P \in Nat /\ n % P \in 0..(P - 1) /\ ((n \div P) * P) + (n % P) = n
      BY <2>4, DivModSum
    <2>6. /\ tc.nsec + (n \div P) \in Nat /\ elapsed + cycles \in Nat
          /\ ((tc.nsec + (n \div P)) * P) + (n % P) = elapsed + cycles
      <3> DEFINE a == tc.nsec
                 b == n \div P
                 r == n % P
      <3>1. a \in Nat /\ b \in Nat /\ r \in Int
        BY SMT, <2>4, <2>5
      <3>2. (a * P) + tc.nsec_frac = elapsed /\ (b * P) + r = cycles + tc.nsec_frac
        BY <2>4, <2>5 DEF n
      <3> HIDE DEF a, b, r
      <3>3. (a + b) * P = (a * P) + (b * P) /\ a * P \in Int /\ b * P \in Int
        BY SMT, <3>1, <2>4
      <3> DEFINE d == a * P
                 y == b * P
      <3>4. d \in Int /\ y \in Int /\ d + tc.nsec_frac = elapsed /\ y + r = cycles + tc.nsec_frac
        BY <3>2, <3>3
      <3> HIDE DEF d, y
      <3>5. (d + y) + r = elapsed + cycles /\ a + b \in Nat /\ elapsed + cycles \in Nat
        BY SMT, <3>1, <3>4, <2>4
      <3> QED
        BY <3>3, <3>5 DEF d, y, a, b, r
    <2>7. /\ tc'.cycle_last = now /\ tc'.nsec = tc.nsec + (n \div P) /\ tc'.nsec_frac = n % P
          /\ tc' \in [cycle_last : 0..cc_mask, nsec : Nat, nsec_frac : 0..nsec_mask]
      BY <2>2, <2>3, <2>4, <2>5, <2>6
    <2>8. (tc'.nsec * P) + tc'.nsec_frac = elapsed' /\ elapsed' \in Nat
      BY <2>3, <2>6, <2>7
    <2> QED
      BY <2>7, <2>8 DEF TimeInv, P, cc_mask, nsec_mask
  <1> QED
    BY <1>1, <1>2

\* Whatever the width of the hardware counter and the shift, no cycle is lost or
\* counted twice by rte_timecounter_update, as long as it is called once per
\* wrap of the counter, and a timespec says the same nanoseconds.
THEOREM TimeAlwaysExact == TimeSpec => []TimeExact
  <1>1. TimeInit => TimeInv
    <2> SUFFICES ASSUME TimeInit PROVE TimeInv
      OBVIOUS
    <2>1. PICK now \in 0..cc_mask : tc = [cycle_last |-> now, nsec |-> 0, nsec_frac |-> 0]
      BY DEF TimeInit
    <2> DEFINE P == 2^cc_shift
    <2>2. P \in Nat \ {0} /\ nsec_mask = P - 1 /\ elapsed = 0
      BY TimeAssumption DEF nsec_mask, TimeInit
    <2> HIDE DEF P
    <2>3. 0 \in 0..nsec_mask /\ (0 * P) + 0 = 0 /\ 0 \in Nat
      BY SMT, <2>2
    <2> QED
      BY <2>1, <2>2, <2>3 DEF TimeInv, P
  <1>2. TimeInv => TimeExact
    <2> SUFFICES ASSUME TimeInv PROVE TimeExact
      OBVIOUS
    <2>1. tc.nsec \in Nat /\ tc.nsec_frac \in 0..nsec_mask
      BY DEF TimeInv
    <2>2. nsec_mask \in Int
      BY SMT, TimeAssumption DEF nsec_mask
    <2>3. tc.nsec_frac <= nsec_mask
      BY SMT, <2>1, <2>2
    <2>4. rte_timespec_to_ns(rte_ns_to_timespec(tc.nsec)) = tc.nsec
      BY <2>1, DivModSum, TimeAssumption DEF rte_timespec_to_ns, rte_ns_to_timespec
    <2> QED
      BY <2>3, <2>4 DEF TimeExact, TimeInv
  <1> QED
    BY <1>1, <1>2, TimeStep, PTL DEF TimeSpec

=============================================================================
