-------------------------- MODULE RteRingInvariant --------------------------
(***************************************************************************)
(* The inductive invariant of the ring, and the proof that every step of   *)
(* the ring keeps it.  The indices wrap; what is said of them is said of   *)
(* the number of objects they stand for, the distance from Start.          *)
(***************************************************************************)
EXTENDS RteRing, TLAPS

\* Zenon does every leaf that names no other prover.
USE Zenon

\* The number of objects that an index stands for.
Num(x) == Dist(x, Start)

\* The objects published on a side, the slot of an object, and how far the
\* objects of a side may be claimed.
Pub(s) == Num(tail[s])
Cell(m) == (Start + m) % Size
Lim(s) == IF s = "prod" THEN r.capacity + Pub("cons") ELSE Pub("prod")

Places == {"idle", "load", "wait", "avail", "move", "cmpset"} \cup Working
Tails == [pos : Index, cnt : Index]
Locals == [sync : SyncTypes, api : Apis, old : Index, oldx : Index, seen : Index,
           max : Nat, beh : Behaviors, n : Nat, i : Nat, obj : Int,
           ot : Tails, nt : Tails]

RingTypeOK ==
  /\ r \in Rings
  /\ head \in [Sides -> Index] /\ tail \in [Sides -> Index]
  /\ hcnt \in [Sides -> Index] /\ tcnt \in [Sides -> Index]
  /\ ring \in [0..(Size - 1) -> Int]
  /\ pc \in [Threads -> Places] /\ loc \in [Threads -> Locals]
  /\ claimed \in [Sides -> Nat] /\ base \in [Threads -> Nat]

\* The objects in flight on the two sides: consumers follow producers, and
\* producers are at most a capacity ahead.
PosInv ==
  /\ \A s \in Sides : /\ Num(head[s]) = claimed[s]
                      /\ r[s] = "RTS" => Num(hcnt[s]) <= claimed[s]
  /\ Pub("cons") <= claimed["cons"] /\ claimed["cons"] <= Pub("prod")
  /\ Pub("prod") <= claimed["prod"] /\ claimed["prod"] <= r.capacity + Pub("cons")

Works(t, s) == Side(t) = s /\ pc[t] \in Working
\* Where the claim of a thread ends: a started one is the last of its side.
End(t) == IF loc[t].api = "call" THEN base[t] + loc[t].n ELSE claimed[Side(t)]

\* A single-threaded call has its side for itself.
ContractInv ==
  \A t, u \in Threads :
    t # u /\ Side(t) = Side(u) /\ pc[t] # "idle" /\ pc[u] # "idle"
      => ~r.solo /\ SyncOf(t) # "ST"

DisjInv ==
  \A t, u \in Threads :
    t # u /\ Works(t, Side(u)) /\ Works(u, Side(u)) => End(t) <= base[u] \/ End(u) <= base[t]

\* What is claimed and not published has an owner, unless it waits for the last
\* thread of an RTS side.
CoverInv ==
  \A s \in Sides : \A m \in Nat :
    Pub(s) <= m /\ m < claimed[s] =>
      \/ \E u \in Threads : Works(u, s) /\ base[u] <= m /\ m < End(u)
      \/ r[s] = "RTS" /\ (s = "prod" => ring[Cell(m)] = m)

HeldInv == \A m \in Nat : Pub("cons") <= m /\ m < Pub("prod") => ring[Cell(m)] = m

\* The form of the call fits the ring and the place the thread has reached.
FormInv(t) ==
  pc[t] # "idle" =>
    /\ SyncOf(t) = r[Side(t)] \/ (SyncOf(t) = "ST" /\ r[Side(t)] = "MT")
    /\ loc[t].api # "call" => SyncOf(t) \in {"ST", "HTS"}
    /\ pc[t] = "wait" => SyncOf(t) = "RTS"
    /\ pc[t] = "cmpset" => Torn(t)
    /\ pc[t] \in {"started", "publish"} => loc[t].api # "call"
    /\ pc[t] \in {"rts_tail", "rts_head", "rts_cas"} => SyncOf(t) = "RTS"
    /\ pc[t] = "update" => SyncOf(t) # "RTS" /\ (SyncOf(t) = "HTS" => loc[t].api = "call")
    /\ loc[t].max <= MaxBurst

\* What a thread that has not claimed yet knows from its loads.
LoadInv(t) ==
  /\ pc[t] \in {"wait", "avail", "move", "cmpset"} =>
       Num(loc[t].old) <= Lim(Side(t)) /\ loc[t].i = 0
  /\ pc[t] \in {"avail", "move", "cmpset"} =>
       /\ SyncOf(t) = "ST" \/ Torn(t) => loc[t].old = head[Side(t)]
       /\ SyncOf(t) = "HTS" => loc[t].oldx = loc[t].old
       /\ SyncOf(t) = "RTS" => Num(loc[t].old) <= Pub(Side(t)) + r.htd_max
  /\ pc[t] \in {"move", "cmpset"} =>
       /\ 0 < loc[t].n /\ loc[t].n <= loc[t].max
       /\ Num(loc[t].old) + loc[t].n <= Lim(Side(t))
  /\ pc[t] = "cmpset" => loc[t].seen = loc[t].old

\* The claim of a thread that has one.
ClaimInv(t) ==
  pc[t] \in Working =>
    /\ Num(loc[t].old) = base[t] /\ Pub(Side(t)) <= base[t]
    /\ base[t] + loc[t].n <= End(t) /\ End(t) <= claimed[Side(t)]
    /\ loc[t].api = "call" => loc[t].n > 0
    /\ SyncOf(t) \in {"ST", "HTS"} => base[t] = Pub(Side(t))
    /\ SyncOf(t) = "HTS" => base[t] < claimed[Side(t)]
    /\ pc[t] = "update" /\ loc[t].api # "call" => claimed[Side(t)] = base[t] + loc[t].n

\* How far a thread has copied, and what.
CopyInv(t) ==
  pc[t] \in Working =>
    /\ pc[t] = "copy" => loc[t].i < loc[t].n
    /\ t \in Producers =>
         /\ pc[t] = "started" => loc[t].i = IF loc[t].api = "peek" THEN 0 ELSE loc[t].n
         /\ pc[t] \in Working \ {"copy", "started"} => loc[t].n <= loc[t].i
         /\ \A j \in Nat : j < loc[t].i /\ j < loc[t].n => ring[Cell(base[t] + j)] = base[t] + j
    /\ t \in Consumers /\ loc[t].i > 0 => loc[t].obj = base[t] + loc[t].i - 1

\* What a thread that finishes an RTS claim knows: unless the tail has moved
\* since it loaded it, the claims below the new tail are all finished.
TailInv(t) ==
  LET s == Side(t)
  IN /\ pc[t] \in {"rts_head", "rts_cas"} => Num(loc[t].ot.cnt) <= Num(tcnt[s])
     /\ pc[t] = "rts_cas" =>
          /\ Num(loc[t].nt.cnt) = Num(loc[t].ot.cnt) + 1
          /\ loc[t].ot = [pos |-> tail[s], cnt |-> tcnt[s]] =>
               \/ loc[t].nt.pos = tail[s]
               \/ /\ End(t) <= Num(loc[t].nt.pos) /\ Num(loc[t].nt.pos) <= claimed[s]
                  /\ \A u \in Threads : u # t /\ Works(u, s) => Num(loc[t].nt.pos) <= base[u]

ThreadInv(t) == FormInv(t) /\ LoadInv(t) /\ ClaimInv(t) /\ CopyInv(t) /\ TailInv(t)

RingInv ==
  /\ RingTypeOK /\ PosInv /\ ContractInv /\ DisjInv /\ CoverInv /\ HeldInv
  /\ \A t \in Threads : ThreadInv(t)

\* What counting adds: an index never laps a thread, and the two counters of an
\* RTS side differ by the number of its threads that have a claim.
Roomy ==
  \A t \in Producers : pc[t] \in {"move", "cmpset"} => claimed["prod"] + loc[t].n < Mod
Counted ==
  \A s \in Sides : r[s] = "RTS" =>
    /\ Num(tcnt[s]) <= Num(hcnt[s])
    /\ \A t \in Threads : Works(t, s) => Num(tcnt[s]) < Num(hcnt[s])
    /\ Num(hcnt[s]) = Num(tcnt[s]) + 1 =>
         \A t, u \in Threads : Works(t, s) /\ Works(u, s) => t = u

-----------------------------------------------------------------------------
(***************************************************************************)
(* Indices and slots.                                                      *)
(***************************************************************************)
LEMMA TimesAtLeast ==
  ASSUME NEW m \in Nat, NEW d \in Int, d >= 1 PROVE m * d >= m
  <1>1. m * d = m * (d - 1) + m
    BY SMT
  <1>2. m * (d - 1) >= 0
    BY SMT
  <1>3. m * (d - 1) \in Int
    BY SMT
  <1> QED
    BY SMT, <1>1, <1>2, <1>3

LEMMA ModIs ==
  ASSUME NEW m \in Nat \ {0}, NEW a \in Int
  PROVE  a \div m \in Int /\ a % m \in 0..(m - 1) /\ a = m * (a \div m) + (a % m)
  BY SMT

\* Numbers that differ by less than m and not at all modulo m are equal.
LEMMA ModApart ==
  ASSUME NEW m \in Nat \ {0}, NEW p \in Int, NEW q \in Int, NEW c \in Int, NEW d \in Int,
         c - d < m, d - c < m, m * p + c = m * q + d
  PROVE  c = d
  <1>2. m * (p - q) = d - c /\ m * (q - p) = c - d
    BY SMT
  <1>3. CASE p - q >= 1
    BY SMT, <1>2, <1>3, TimesAtLeast
  <1>4. CASE q - p >= 1
    BY SMT, <1>2, <1>4, TimesAtLeast
  <1>5. CASE p = q
    BY SMT, <1>2, <1>5
  <1> QED
    BY SMT, <1>3, <1>4, <1>5

LEMMA ModUnique ==
  ASSUME NEW m \in Nat \ {0}, NEW a \in Int, NEW q \in Int, NEW b \in 0..(m - 1), a = m * q + b
  PROVE  a % m = b
  <1> DEFINE p == a \div m
             c == a % m
  <1>1. p \in Int /\ c \in 0..(m - 1) /\ a = m * p + c
    BY ModIs
  <1> HIDE DEF p, c
  <1>2. c \in Int /\ b \in Int /\ c - b < m /\ b - c < m
    BY SMT, <1>1
  <1>3. c = b
    BY <1>1, <1>2, ModApart
  <1> QED BY <1>3 DEF c

LEMMA Wrap ==
  ASSUME NEW a \in Int, -Mod <= a, a < 2 * Mod
  PROVE  a % Mod = IF a < 0 THEN a + Mod ELSE IF a < Mod THEN a ELSE a - Mod
  <1>0. Mod \in Nat \ {0}
    BY SizeAssumption
  <1>1. CASE a < 0
    <2>1. a + Mod \in 0..(Mod - 1) /\ a = Mod * (-1) + (a + Mod)
      BY SMT, <1>0, <1>1
    <2> QED BY SMT, <1>0, <1>1, <2>1, ModUnique
  <1>2. CASE 0 <= a /\ a < Mod
    <2>1. a \in 0..(Mod - 1) /\ a = Mod * 0 + a
      BY SMT, <1>0, <1>2
    <2> QED BY SMT, <1>0, <1>2, <2>1, ModUnique
  <1>3. CASE Mod <= a
    <2>1. a - Mod \in 0..(Mod - 1) /\ a = Mod * 1 + (a - Mod)
      BY SMT, <1>0, <1>3
    <2> QED BY SMT, <1>0, <1>3, <2>1, ModUnique
  <1> QED BY SMT, <1>0, <1>1, <1>2, <1>3

LEMMA DistIs ==
  ASSUME NEW x \in Index, NEW y \in Index
  PROVE  Dist(x, y) = IF x < y THEN x - y + Mod ELSE x - y
  <1>1. x - y \in Int /\ -Mod <= x - y /\ x - y < Mod /\ Mod \in Nat \ {0}
    BY SMT, SizeAssumption DEF Index
  <1>2. x - y < 2 * Mod
    BY SMT, <1>1
  <1> QED BY SMT, <1>1, <1>2, Wrap DEF Dist, Index

LEMMA NumIs ==
  ASSUME NEW x \in Index
  PROVE  Num(x) = (IF x < Start THEN x - Start + Mod ELSE x - Start) /\ Num(x) \in Index
  <1>1. Num(x) = IF x < Start THEN x - Start + Mod ELSE x - Start
    BY DistIs, SizeAssumption DEF Num
  <1> QED BY SMT, <1>1, SizeAssumption DEF Index

LEMMA NumOne ==
  ASSUME NEW x \in Index, NEW y \in Index, Num(x) = Num(y) PROVE x = y
  BY SMT, NumIs, SizeAssumption DEF Index

LEMMA NumPlus ==
  ASSUME NEW x \in Index, NEW k \in Nat, Num(x) + k < Mod
  PROVE  (x + k) % Mod \in Index /\ Num((x + k) % Mod) = Num(x) + k
  <1>1. /\ Start \in Nat /\ Start < Mod /\ Mod \in Nat /\ x \in Nat /\ x < Mod
        /\ Num(x) = IF x < Start THEN x - Start + Mod ELSE x - Start
    BY SMT, NumIs, SizeAssumption DEF Index
  <1>2. (x + k) % Mod = IF x + k < Mod THEN x + k ELSE x + k - Mod
    <2> DEFINE a == x + k
    <2>1. a \in Int /\ -Mod <= a /\ a < 2 * Mod /\ ~(a < 0)
      BY SMT, <1>1
    <2> HIDE DEF a
    <2>2. a % Mod = IF a < Mod THEN a ELSE a - Mod
      BY SMT, <2>1, Wrap
    <2> QED BY SMT, <1>1, <2>2 DEF a
  <1>3. (x + k) % Mod \in Index
    BY SMT, <1>1, <1>2 DEF Index
  <1> QED BY SMT, <1>1, <1>2, <1>3, NumIs

LEMMA DistNum ==
  ASSUME NEW x \in Index, NEW y \in Index
  PROVE  /\ Dist(x, y) \in Nat /\ Num(x) - Num(y) <= Dist(x, y)
         /\ Num(y) <= Num(x) => Dist(x, y) = Num(x) - Num(y)
  <1>1. /\ Start \in Nat /\ Start < Mod /\ Mod \in Nat
        /\ x \in Nat /\ x < Mod /\ y \in Nat /\ y < Mod
        /\ Num(x) = IF x < Start THEN x - Start + Mod ELSE x - Start
        /\ Num(y) = IF y < Start THEN y - Start + Mod ELSE y - Start
    BY SMT, NumIs, SizeAssumption DEF Index
  <1>2. Dist(x, y) = IF x < y THEN x - y + Mod ELSE x - y
    BY DistIs
  <1> QED BY SMT, <1>1, <1>2

\* What is left to claim, as the code computes it, is never too much.
LEMMA LeftNum ==
  ASSUME NEW x \in Index, NEW y \in Index, NEW c \in Nat, c < Mod, Num(x) <= c + Num(y)
  PROVE  (c + y - x) % Mod \in Nat /\ Num(x) + ((c + y - x) % Mod) <= c + Num(y)
  <1>1. /\ Start \in Nat /\ Start < Mod /\ Mod \in Nat
        /\ x \in Nat /\ x < Mod /\ y \in Nat /\ y < Mod
        /\ Num(x) = IF x < Start THEN x - Start + Mod ELSE x - Start
        /\ Num(y) = IF y < Start THEN y - Start + Mod ELSE y - Start
    BY SMT, NumIs, SizeAssumption DEF Index
  <1> DEFINE a == c + y - x
  <1>2. a \in Int /\ -Mod <= a /\ a < 2 * Mod
    BY SMT, <1>1
  <1> HIDE DEF a
  <1>3. a % Mod = IF a < 0 THEN a + Mod ELSE IF a < Mod THEN a ELSE a - Mod
    BY <1>2, Wrap
  <1>4. a % Mod \in Nat /\ Num(x) + (a % Mod) <= c + Num(y)
    BY SMT, <1>1, <1>2, <1>3 DEF a
  <1> QED BY <1>4 DEF a

LEMMA CellIs ==
  ASSUME NEW m \in Nat PROVE Cell(m) \in 0..(Size - 1)
  <1>1. Start + m \in Int /\ Size \in Nat \ {0}
    BY SMT, SizeAssumption DEF Index
  <1> QED BY <1>1, ModIs DEF Cell

\* Objects less than Size apart have slots of their own.
LEMMA CellOne ==
  ASSUME NEW m \in Nat, NEW k \in Nat, m - k < Size, k - m < Size, Cell(m) = Cell(k)
  PROVE  m = k
  <1> DEFINE a == Start + m
             b == Start + k
  <1>1. a \in Int /\ b \in Int /\ Size \in Nat \ {0}
    BY SMT, SizeAssumption DEF Index
  <1>2. a = Size * (a \div Size) + Cell(m) /\ b = Size * (b \div Size) + Cell(k)
    BY <1>1, ModIs DEF Cell
  <1>3. a \div Size \in Int /\ b \div Size \in Int /\ Cell(m) \in Int
    BY SMT, <1>1, ModIs, CellIs
  <1> HIDE DEF a, b
  <1>4. Size * (a \div Size) + (b - Cell(m)) = Size * (b \div Size) + (a - Cell(m))
    BY SMT, <1>1, <1>2, <1>3
  <1>5. b - Cell(m) \in Int /\ a - Cell(m) \in Int
    BY SMT, <1>1, <1>3
  <1>6. (b - Cell(m)) - (a - Cell(m)) < Size /\ (a - Cell(m)) - (b - Cell(m)) < Size
    BY SMT, <1>3, SizeAssumption DEF a, b, Index
  <1>7. b - Cell(m) = a - Cell(m)
    BY <1>1, <1>3, <1>4, <1>5, <1>6, ModApart
  <1> QED BY SMT, <1>3, <1>7, SizeAssumption DEF a, b, Index

LEMMA SlotIs ==
  ASSUME NEW x \in Index, NEW k \in Nat PROVE Slot(x + k) = Cell(Num(x) + k)
  <1> DEFINE a == Start + (Num(x) + k)
             K == Mod \div Size
  <1>0. /\ Size \in Nat \ {0} /\ Mod \in Nat /\ Start \in Nat /\ x \in Nat /\ Num(x) \in Nat
        /\ Num(x) = IF x < Start THEN x - Start + Mod ELSE x - Start
    BY SMT, NumIs, SizeAssumption DEF Index
  <1>1. K \in Int /\ Mod = Size * K
    BY SMT, <1>0, ModIs, SizeAssumption
  <1>2. a \in Int /\ a \div Size \in Int /\ Cell(Num(x) + k) \in 0..(Size - 1)
    BY SMT, <1>0, ModIs, CellIs
  <1>3. a = Size * (a \div Size) + Cell(Num(x) + k)
    BY <1>0, <1>2, ModIs DEF Cell
  <1> HIDE DEF K
  <1>4. CASE x + k = a
    BY SMT, <1>4 DEF Slot, Cell
  <1>5. CASE x + k = a - Mod
    <2>1. x + k \in Int /\ (a \div Size) - K \in Int
      BY SMT, <1>0, <1>1, <1>2
    <2> HIDE DEF a
    <2>2. x + k = Size * ((a \div Size) - K) + Cell(Num(x) + k)
      BY SMT, <1>0, <1>1, <1>2, <1>3, <1>5
    <2> QED BY <1>0, <1>2, <2>1, <2>2, ModUnique DEF Slot
  <1> QED BY SMT, <1>0, <1>4, <1>5

-----------------------------------------------------------------------------
(***************************************************************************)
(* What a step of one thread leaves to the others.                         *)
(***************************************************************************)
TypeFacts ==
  /\ r.capacity \in Nat /\ 0 < r.capacity /\ r.capacity < Size /\ r.htd_max \in Nat
  /\ Size \in Nat /\ Mod \in Nat /\ Size <= Mod
  /\ \A s \in Sides : /\ head[s] \in Index /\ tail[s] \in Index /\ claimed[s] \in Nat
                      /\ Pub(s) \in Nat /\ Pub(s) < Mod /\ Lim(s) \in Nat
                      /\ r[s] \in SyncTypes
  /\ \A t \in Threads : /\ Side(t) \in Sides /\ pc[t] \in Places /\ loc[t] \in Locals
                        /\ base[t] \in Nat

LEMMA Basics == RingTypeOK => TypeFacts
  <1> SUFFICES ASSUME RingTypeOK PROVE TypeFacts
    OBVIOUS
  <1>1. /\ r.capacity \in 1..(Size - 1) /\ r.htd_max \in Nat
        /\ \A s \in Sides : r[s] \in SyncTypes
    BY SMT, RingsAssumption DEF RingTypeOK, Sides
  <1>2. Size \in Nat /\ Mod \in Nat /\ Size <= Mod
    <2>1. Size \in Nat \ {0} /\ Mod \in Nat \ {0} /\ Mod = Size * (Mod \div Size)
          /\ Mod \div Size \in Int
      BY SMT, ModIs, SizeAssumption
    <2>2. Mod \div Size >= 1
      BY SMT, <2>1
    <2> QED BY SMT, <2>1, <2>2, TimesAtLeast
  <1>3. ASSUME NEW s \in Sides
        PROVE  /\ head[s] \in Index /\ tail[s] \in Index /\ claimed[s] \in Nat
               /\ Pub(s) \in Nat /\ Pub(s) < Mod
    <2>1. head[s] \in Index /\ tail[s] \in Index /\ claimed[s] \in Nat
      BY DEF RingTypeOK
    <2>2. Pub(s) \in Index
      BY <2>1, NumIs DEF Pub
    <2> QED BY SMT, <1>2, <2>1, <2>2 DEF Index
  <1>4. \A s \in Sides : Lim(s) \in Nat
    BY SMT, <1>1, <1>3 DEF Lim, Sides
  <1>5. \A t \in Threads : /\ Side(t) \in Sides /\ pc[t] \in Places /\ loc[t] \in Locals
                           /\ base[t] \in Nat
    BY DEF RingTypeOK, Side, Sides
  <1> QED BY SMT, <1>1, <1>2, <1>3, <1>4, <1>5 DEF TypeFacts

LEMMA BasicsNext == RingTypeOK' => TypeFacts'
  BY Basics, PTL

LEMMA LocalsAre ==
  ASSUME NEW l \in Locals
  PROVE  /\ l.sync \in SyncTypes /\ l.api \in Apis /\ l.old \in Index /\ l.oldx \in Index
         /\ l.seen \in Index /\ l.max \in Nat /\ l.n \in Nat /\ l.i \in Nat /\ l.obj \in Int
         /\ l.ot \in Tails /\ l.nt \in Tails /\ l.beh \in Behaviors
         /\ Num(l.old) \in Nat
  <1>1. /\ l.sync \in SyncTypes /\ l.api \in Apis /\ l.old \in Index /\ l.oldx \in Index
        /\ l.seen \in Index /\ l.max \in Nat /\ l.n \in Nat /\ l.i \in Nat /\ l.obj \in Int
        /\ l.ot \in Tails /\ l.nt \in Tails /\ l.beh \in Behaviors
    BY DEF Locals
  <1>2. Num(l.old) \in Nat
    BY SMT, <1>1, NumIs DEF Index
  <1> QED BY <1>1, <1>2

\* The thread u takes no part in the step.
Rests(u) == r' = r /\ pc'[u] = pc[u] /\ loc'[u] = loc[u] /\ base'[u] = base[u]

LEMMA FormKeeps == ASSUME NEW u \in Threads, Rests(u), FormInv(u) PROVE FormInv(u)'
  BY DEF Rests, FormInv, SyncOf, Torn, Side

LEMMA LoadKeeps ==
  ASSUME NEW u \in Threads, Rests(u), LoadInv(u), RingTypeOK, RingTypeOK',
         \A s \in Sides : Pub(s) <= Pub(s)',
         pc[u] # "idle" /\ (SyncOf(u) = "ST" \/ Torn(u)) => head'[Side(u)] = head[Side(u)]
  PROVE  LoadInv(u)'
  <1> PICK s \in Sides : s = Side(u)
    BY DEF Side, Sides
  <1>1. /\ Num(loc[u].old) \in Nat /\ loc[u].n \in Nat /\ Lim(s) \in Nat /\ Pub(s) \in Nat
        /\ Lim(s)' \in Nat /\ Pub(s)' \in Nat /\ r.htd_max \in Nat
    <2>1. loc[u] \in Locals
      BY Basics DEF TypeFacts
    <2> QED BY <2>1, Basics, BasicsNext, LocalsAre DEF Rests, TypeFacts
  <1>2. Lim(s) <= Lim(s)'
    <2>1. Pub("cons") <= Pub("cons")' /\ Pub("prod") <= Pub("prod")' /\ r' = r
      BY DEF Rests, Sides
    <2> QED BY SMT, <2>1, Basics, BasicsNext DEF Lim, Sides, TypeFacts
  <1> DEFINE o == loc[u].old
  <1>3. pc[u] \in {"wait", "avail", "move", "cmpset"} => Num(o) <= Lim(s)'
    BY SMT, <1>1, <1>2 DEF LoadInv
  <1>4. pc[u] \in {"avail", "move", "cmpset"} /\ SyncOf(u) = "RTS" => Num(o) <= Pub(s)' + r.htd_max
    BY SMT, <1>1 DEF LoadInv
  <1>5. pc[u] \in {"move", "cmpset"} => Num(o) + loc[u].n <= Lim(s)'
    BY SMT, <1>1, <1>2 DEF LoadInv
  <1> QED BY <1>3, <1>4, <1>5 DEF LoadInv, Rests, SyncOf, Torn, Side

LEMMA EndKeeps ==
  ASSUME NEW u \in Threads, Rests(u),
         loc[u].api # "call" => claimed'[Side(u)] = claimed[Side(u)]
  PROVE  End(u)' = End(u)
  BY DEF Rests, End, Side

LEMMA ClaimKeeps ==
  ASSUME NEW u \in Threads, Rests(u), FormInv(u), ClaimInv(u),
         pc[u] \in Working =>
           /\ Pub(Side(u))' <= base[u] /\ End(u) <= claimed'[Side(u)]
           /\ SyncOf(u) \in {"ST", "HTS"} => /\ Pub(Side(u))' = Pub(Side(u))
                                             /\ claimed'[Side(u)] = claimed[Side(u)]
  PROVE  ClaimInv(u)'
  <1> SUFFICES ASSUME pc[u] \in Working PROVE ClaimInv(u)'
    BY DEF ClaimInv, Rests
  <1> PICK s : s = Side(u)
    OBVIOUS
  <1>1. loc[u].api # "call" => claimed'[s] = claimed[s]
    BY DEF FormInv, Working
  <1>2. End(u)' = End(u)
    BY <1>1, EndKeeps
  <1>3. Side(u)' = s /\ Pub(Side(u))' = Pub(s)'
    BY DEF Side
  <1>4. pc'[u] = pc[u] /\ loc'[u] = loc[u] /\ base'[u] = base[u] /\ SyncOf(u)' = SyncOf(u)
    BY DEF Rests, SyncOf
  <1> QED BY <1>1, <1>2, <1>3, <1>4 DEF ClaimInv

LEMMA CopyKeeps ==
  ASSUME NEW u \in Threads, Rests(u), CopyInv(u),
         pc[u] \in Working /\ u \in Producers =>
           \A j \in Nat : j < loc[u].i /\ j < loc[u].n
                            => ring'[Cell(base[u] + j)] = ring[Cell(base[u] + j)]
  PROVE  CopyInv(u)'
  BY DEF Rests, CopyInv

LEMMA TailKeeps ==
  ASSUME NEW u \in Threads, Rests(u), FormInv(u), TailInv(u), RingTypeOK, RingTypeOK',
         pc[u] \in {"rts_head", "rts_cas"} =>
           /\ \/ tail'[Side(u)] = tail[Side(u)] /\ tcnt'[Side(u)] = tcnt[Side(u)]
              \/ Num(tcnt[Side(u)]) < Num(tcnt'[Side(u)])
           /\ claimed[Side(u)] <= claimed'[Side(u)]
           /\ \A v \in Threads : v # u /\ Works(v, Side(u))' =>
                \/ Works(v, Side(u)) /\ base'[v] = base[v]
                \/ claimed[Side(u)] <= base'[v]
  PROVE  TailInv(u)'
  <1> SUFFICES ASSUME pc[u] \in {"rts_head", "rts_cas"} PROVE TailInv(u)'
    BY DEF TailInv, Rests
  <1> PICK s : s = Side(u)
    OBVIOUS
  <1>1. /\ Side(u)' = s /\ s \in Sides /\ \A v \in Threads : Works(v, Side(u))' <=> Works(v, s)'
        /\ pc'[u] = pc[u] /\ loc'[u] = loc[u]
    BY DEF Side, Rests, Works, Sides
  <1>2. End(u)' = End(u)
    BY EndKeeps DEF FormInv
  <1>3. /\ loc[u].ot \in Tails /\ loc[u].nt \in Tails /\ Num(loc[u].ot.cnt) \in Nat
        /\ Num(loc[u].nt.pos) \in Nat /\ Num(tcnt[s]) \in Nat /\ Num(tcnt'[s]) \in Nat
        /\ claimed[s] \in Nat /\ claimed'[s] \in Nat
        /\ \A v \in Threads : base'[v] \in Nat
    <2>1. loc[u] \in Locals
      BY Basics DEF TypeFacts
    <2>2. loc[u].ot \in Tails /\ loc[u].nt \in Tails
      BY <2>1, LocalsAre
    <2>3. loc[u].ot.cnt \in Index /\ loc[u].nt.pos \in Index /\ tcnt[s] \in Index /\ tcnt'[s] \in Index
      BY <1>1, <2>2 DEF Tails, RingTypeOK
    <2> QED BY SMT, <1>1, <2>2, <2>3, Basics, BasicsNext, NumIs DEF TypeFacts, Index
  <1>4. Num(loc[u].ot.cnt) <= Num(tcnt'[s])
    BY SMT, <1>1, <1>3 DEF TailInv
  <1>5. ASSUME pc[u] = "rts_cas", loc[u].ot = [pos |-> tail'[s], cnt |-> tcnt'[s]],
               loc[u].nt.pos # tail'[s]
        PROVE  /\ End(u) <= Num(loc[u].nt.pos) /\ Num(loc[u].nt.pos) <= claimed'[s]
               /\ \A v \in Threads : v # u /\ Works(v, s)' => Num(loc[u].nt.pos) <= base'[v]
    <2>1. loc[u].ot.cnt = tcnt'[s]
      BY SMTT(20), <1>5
    <2>2. tail'[s] = tail[s] /\ tcnt'[s] = tcnt[s]
      BY SMT, <1>1, <1>3, <1>4, <2>1 DEF TailInv
    <2>3. /\ End(u) <= Num(loc[u].nt.pos) /\ Num(loc[u].nt.pos) <= claimed[s]
          /\ \A v \in Threads : v # u /\ Works(v, s) => Num(loc[u].nt.pos) <= base[v]
      BY <1>5, <2>2 DEF TailInv
    <2>4. Num(loc[u].nt.pos) <= claimed'[s]
      BY SMT, <1>3, <2>3
    <2>5. ASSUME NEW v \in Threads, v # u, Works(v, s)' PROVE Num(loc[u].nt.pos) <= base'[v]
      BY SMT, <1>1, <1>3, <2>3, <2>5
    <2> QED BY <2>3, <2>4, <2>5
  <1> QED BY <1>1, <1>2, <1>4, <1>5 DEF TailInv

LEMMA ContractKeeps ==
  ASSUME ContractInv, NEW t \in Threads, \A u \in Threads : u # t => Rests(u), r' = r,
         pc'[t] # "idle" => \/ pc[t] # "idle" /\ SyncOf(t)' = SyncOf(t)
                            \/ \A u \in Threads : u # t /\ Side(u) = Side(t) /\ pc[u] # "idle" =>
                                 ~r.solo /\ SyncOf(t)' # "ST" /\ SyncOf(u) # "ST"
  PROVE  ContractInv'
  <1> SUFFICES ASSUME NEW v \in Threads, NEW w \in Threads, v # w, Side(v) = Side(w),
                      pc'[v] # "idle", pc'[w] # "idle"
               PROVE  ~r.solo /\ SyncOf(v)' # "ST"
    BY DEF ContractInv, Side
  <1>1. \A u \in Threads : u # t => pc'[u] = pc[u] /\ SyncOf(u)' = SyncOf(u)
    BY DEF Rests, SyncOf
  <1>2. CASE v = t
    BY <1>1, <1>2 DEF ContractInv
  <1>3. CASE w = t
    BY <1>1, <1>3 DEF ContractInv
  <1>4. CASE v # t /\ w # t
    BY <1>1, <1>4 DEF ContractInv
  <1> QED BY <1>2, <1>3, <1>4

-----------------------------------------------------------------------------
(***************************************************************************)
(* The steps that change nothing but the locals of their thread.           *)
(***************************************************************************)
Private(t, p, l) ==
  /\ pc' = [pc EXCEPT ![t] = p] /\ loc' = [loc EXCEPT ![t] = l]
  /\ UNCHANGED <<r, head, tail, hcnt, tcnt, ring, claimed, base>>

LEMMA PrivateIs ==
  ASSUME RingTypeOK, NEW t \in Threads, NEW p \in Places, NEW l \in Locals, Private(t, p, l)
  PROVE  /\ RingTypeOK' /\ pc'[t] = p /\ loc'[t] = l
         /\ \A u \in Threads : u # t => Rests(u)
         /\ \A s : Pub(s)' = Pub(s) /\ Lim(s)' = Lim(s)
  <1>1. pc'[t] = p /\ loc'[t] = l /\ pc' \in [Threads -> Places] /\ loc' \in [Threads -> Locals]
        /\ \A u \in Threads : u # t => pc'[u] = pc[u] /\ loc'[u] = loc[u]
    BY DEF Private, RingTypeOK
  <1>2. r' = r /\ head' = head /\ tail' = tail /\ hcnt' = hcnt /\ tcnt' = tcnt /\ ring' = ring
        /\ claimed' = claimed /\ base' = base
    BY DEF Private
  <1>3. RingTypeOK'
    BY <1>1, <1>2 DEF RingTypeOK
  <1>4. \A u \in Threads : u # t => Rests(u)
    BY <1>1, <1>2 DEF Rests
  <1>5. \A s : Pub(s)' = Pub(s) /\ Lim(s)' = Lim(s)
    BY <1>2 DEF Pub, Lim
  <1> QED BY <1>1, <1>3, <1>4, <1>5

LEMMA PrivateKeeps ==
  ASSUME RingInv, NEW t \in Threads, NEW p \in Places, NEW l \in Locals, Private(t, p, l),
         p \in Working <=> pc[t] \in Working,
         p \in Working => l.api = loc[t].api /\ (l.api = "call" => l.n = loc[t].n),
         p # "idle" => (pc[t] # "idle" /\ l.sync = SyncOf(t)) \/ SideFree(t, l.sync),
         ThreadInv(t)'
  PROVE  RingInv'
  <1>1. /\ RingTypeOK' /\ pc'[t] = p /\ loc'[t] = l
        /\ \A u \in Threads : u # t => Rests(u)
        /\ \A s : Pub(s)' = Pub(s) /\ Lim(s)' = Lim(s)
    BY PrivateIs DEF RingInv
  <1>2. r' = r /\ head' = head /\ tail' = tail /\ hcnt' = hcnt /\ tcnt' = tcnt /\ ring' = ring
        /\ claimed' = claimed /\ base' = base
    BY DEF Private
  <1>3. \A u \in Threads, s \in Sides :
          /\ Works(u, s)' <=> Works(u, s)
          /\ Works(u, s) => End(u)' = End(u)
    BY <1>1, <1>2 DEF Works, End, Side, Rests
  <1>4. PosInv'
    BY <1>1, <1>2 DEF RingInv, PosInv
  <1>5. ContractInv'
    <2>1. p # "idle" => \/ pc[t] # "idle" /\ SyncOf(t)' = SyncOf(t)
                        \/ \A u \in Threads : u # t /\ Side(u) = Side(t) /\ pc[u] # "idle" =>
                             ~r.solo /\ SyncOf(t)' # "ST" /\ SyncOf(u) # "ST"
      BY <1>1 DEF SideFree, SyncOf
    <2> QED BY <1>1, <1>2, <2>1, ContractKeeps DEF RingInv
  <1>6. DisjInv'
    <2> SUFFICES ASSUME NEW v \in Threads, NEW u \in Threads, v # u,
                        Works(v, Side(u))', Works(u, Side(u))'
                 PROVE  (End(v) <= base[u] \/ End(u) <= base[v])'
      BY DEF DisjInv
    <2> PICK s \in Sides : s = Side(u) /\ Side(u)' = s
      BY DEF Side, Sides
    <2>0. Works(v, s)' /\ Works(u, s)'
      BY DEF Works
    <2>1. Works(v, s) /\ Works(u, s)
      BY <1>3, <2>0
    <2> QED BY <1>2, <1>3, <2>1 DEF RingInv, DisjInv
  <1>7. CoverInv'
    <2> SUFFICES ASSUME NEW s \in Sides, NEW m \in Nat, Pub(s) <= m, m < claimed[s]
                 PROVE  \/ \E u \in Threads : Works(u, s)' /\ base[u] <= m /\ m < End(u)'
                        \/ r[s] = "RTS" /\ (s = "prod" => ring[Cell(m)] = m)
      BY <1>1, <1>2 DEF CoverInv, Cell
    <2>1. \/ \E u \in Threads : Works(u, s) /\ base[u] <= m /\ m < End(u)
          \/ r[s] = "RTS" /\ (s = "prod" => ring[Cell(m)] = m)
      BY DEF RingInv, CoverInv
    <2> QED BY <1>3, <2>1
  <1>8. HeldInv'
    BY <1>1, <1>2 DEF RingInv, HeldInv, Cell
  <1>9. ASSUME NEW u \in Threads, u # t PROVE ThreadInv(u)'
    <2> PICK s \in Sides : s = Side(u)
      BY DEF Side, Sides
    <2>1. Rests(u) /\ ThreadInv(u) /\ RingTypeOK /\ RingTypeOK'
      BY <1>1, <1>9 DEF RingInv
    <2>2. FormInv(u)'
      BY <2>1, FormKeeps DEF ThreadInv
    <2>3. LoadInv(u)'
      <3>1. \A z \in Sides : Pub(z) <= Pub(z)'
        BY SMT, <1>1, <2>1, Basics DEF TypeFacts
      <3> QED BY <1>2, <2>1, <3>1, LoadKeeps DEF ThreadInv
    <2>4. ClaimInv(u)'
      <3>1. pc[u] \in Working => Pub(Side(u))' <= base[u] /\ End(u) <= claimed'[Side(u)]
                                 /\ Pub(Side(u))' = Pub(Side(u))
        BY <1>1, <1>2, <2>1 DEF ThreadInv, ClaimInv, Side
      <3> QED BY <1>2, <2>1, <3>1, ClaimKeeps DEF ThreadInv
    <2>5. CopyInv(u)'
      BY <1>2, <2>1, CopyKeeps DEF ThreadInv
    <2>6. TailInv(u)'
      <3>1. claimed[s] <= claimed'[s]
        BY SMT, <1>2, <2>1, Basics DEF TypeFacts
      <3>2. ASSUME NEW v \in Threads, Works(v, Side(u))' PROVE Works(v, Side(u))
        <4>1. Works(v, s)'
          BY <3>2 DEF Works, Side
        <4> QED BY <1>3, <4>1
      <3> QED BY <1>2, <2>1, <3>1, <3>2, TailKeeps DEF ThreadInv
    <2> QED BY <2>2, <2>3, <2>4, <2>5, <2>6 DEF ThreadInv
  <1> QED BY <1>1, <1>4, <1>5, <1>6, <1>7, <1>8, <1>9 DEF RingInv

LEMMA IdleIs ==
  ASSUME NEW s \in SyncTypes, NEW a \in Apis, NEW n \in Nat, NEW b \in Behaviors,
         NEW x \in Index, NEW y \in Index
  PROVE  /\ Idle \in Locals
         /\ [Idle EXCEPT !.sync = s, !.api = a, !.max = n, !.beh = b] \in Locals
         /\ [[Idle EXCEPT !.sync = s, !.api = a, !.max = n, !.beh = b]
               EXCEPT !.old = x, !.oldx = y] \in Locals
  <1>1. 0 \in Index /\ 0 \in Nat
    BY SMT, SizeAssumption DEF Index
  <1>2. NoTail \in Tails /\ NoObject \in Int
    BY SMT, <1>1 DEF NoTail, Tails, NoObject
  <1>3. Idle \in Locals
    BY SMT, <1>1, <1>2 DEF Idle, Locals, SyncTypes, Apis, Behaviors
  <1>4. [Idle EXCEPT !.sync = s, !.api = a, !.max = n, !.beh = b] \in Locals
    BY <1>3 DEF Locals
  <1> DEFINE l == [Idle EXCEPT !.sync = s, !.api = a, !.max = n, !.beh = b]
  <1> HIDE DEF l
  <1>5. l \in Locals => [l EXCEPT !.old = x, !.oldx = y] \in Locals
    BY DEF Locals
  <1> QED BY <1>3, <1>4, <1>5 DEF l

FormFits(f, s) ==
  /\ f.sync \in SyncTypes /\ f.api \in Apis /\ f.beh \in Behaviors
  /\ f.sync = r[s] \/ (f.sync = "ST" /\ r[s] = "MT")
  /\ f.api # "call" => f.sync \in {"ST", "HTS"}

LEMMA FormsFit ==
  ASSUME RingTypeOK, NEW s \in Sides,
         NEW f \in IF s = "prod" THEN EnqueueForms ELSE DequeueForms
  PROVE  FormFits(f, s)
  <1>1. r[s] \in SyncTypes /\ "FIXED" \in Behaviors /\ "VARIABLE" \in Behaviors
    BY Basics DEF TypeFacts, Behaviors
  <1>2. ASSUME NEW c \in SyncsFor(s), NEW b \in Behaviors PROVE FormFits(Form(c, "call", b), s)
    BY SMT, <1>1 DEF SyncsFor, Form, FormFits, SyncTypes, Apis
  <1>3. ASSUME NEW g \in HtsForms(s) \cup RtsForms(s) PROVE FormFits(g, s)
    <2>1. PICK b \in Behaviors : g = Form(r[s], "call", b)
      BY SMT DEF HtsForms, RtsForms
    <2> QED BY <1>2, <2>1 DEF SyncsFor
  <1>4. ASSUME NEW a \in {"peek", "zc"}, NEW g \in StartForms(s, a) PROVE FormFits(g, s)
    <2>1. PICK b \in Behaviors : g = Form(r[s], a, b) /\ r[s] \in {"ST", "HTS"}
      BY SMT DEF StartForms
    <2> QED BY SMT, <1>1, <2>1 DEF Form, FormFits, SyncTypes, Apis
  <1>5. CASE s = "prod"
    <2>1. f \in UNION {EnqueueBulk, EnqueueBurst, HtsForms("prod"), RtsForms("prod"),
                       EnqueueStart, EnqueueZcStart}
      BY <1>5 DEF EnqueueForms
    <2>2. ASSUME f \in EnqueueBulk \cup EnqueueBurst PROVE FormFits(f, s)
      BY <1>1, <1>2, <1>5, <2>2 DEF EnqueueBulk, EnqueueBurst
    <2> QED BY <1>3, <1>4, <1>5, <2>1, <2>2 DEF EnqueueStart, EnqueueZcStart
  <1>6. CASE s = "cons"
    <2>1. f \in UNION {DequeueBulk, DequeueBurst, HtsForms("cons"), RtsForms("cons"),
                       DequeueStart, DequeueZcStart}
      BY <1>6 DEF DequeueForms
    <2>2. ASSUME f \in DequeueBulk \cup DequeueBurst PROVE FormFits(f, s)
      BY <1>1, <1>2, <1>6, <2>2 DEF DequeueBulk, DequeueBurst
    <2> QED BY <1>3, <1>4, <1>6, <2>1, <2>2 DEF DequeueStart, DequeueZcStart
  <1> QED BY <1>5, <1>6 DEF Sides

LEMMA BeginKeeps ==
  ASSUME RingInv, NEW t \in Threads, NEW n \in Burst,
         NEW f \in IF Side(t) = "prod" THEN EnqueueForms ELSE DequeueForms, Begin(t, n, f)
  PROVE  RingInv'
  <1> PICK s \in Sides : s = Side(t)
    BY DEF Side, Sides
  <1> DEFINE l == [Idle EXCEPT !.sync = f.sync, !.api = f.api, !.max = n, !.beh = f.beh]
  <1>1. /\ f.sync \in SyncTypes /\ f.api \in Apis /\ f.beh \in Behaviors
        /\ f.sync = r[s] \/ (f.sync = "ST" /\ r[s] = "MT")
        /\ f.api # "call" => f.sync \in {"ST", "HTS"}
    BY FormsFit DEF RingInv, FormFits
  <1>2. n \in Nat /\ n <= MaxBurst
    BY SMT, SizeAssumption DEF Burst
  <1>3. 0 \in Index
    BY SMT, SizeAssumption DEF Index
  <1>4. l \in Locals
    BY <1>1, <1>2, <1>3, IdleIs
  <1>5. l.sync = f.sync /\ l.api = f.api /\ l.max = n
    BY SMT, <1>4 DEF Idle
  <1> HIDE DEF l
  <1>6. Private(t, "load", l) /\ "load" \in Places /\ pc[t] = "idle" /\ SideFree(t, l.sync)
    BY <1>5 DEF Begin, Private, Places, l
  <1>7. pc'[t] = "load" /\ loc'[t] = l /\ r' = r
    BY <1>4, <1>6, PrivateIs DEF RingInv, Private
  <1>8. "load" \notin Working /\ "idle" \notin Working
    BY DEF Working
  <1>9. ThreadInv(t)'
    <2>1. FormInv(t)'
      BY <1>1, <1>2, <1>5, <1>7 DEF FormInv, SyncOf, Side
    <2>2. LoadInv(t)' /\ ClaimInv(t)' /\ CopyInv(t)' /\ TailInv(t)'
      BY <1>7, <1>8 DEF LoadInv, ClaimInv, CopyInv, TailInv
    <2> QED BY <2>1, <2>2 DEF ThreadInv
  <1> QED BY <1>4, <1>6, <1>8, <1>9, PrivateKeeps

LEMMA AgainIs ==
  ASSUME RingTypeOK, NEW t \in Threads
  PROVE  /\ Again(t) \in Locals /\ Again(t).sync = SyncOf(t) /\ Again(t).api = loc[t].api
         /\ Again(t).max = loc[t].max /\ Again(t).i = 0
  <1>1. loc[t] \in Locals
    BY DEF RingTypeOK
  <1>2. /\ loc[t].sync \in SyncTypes /\ loc[t].api \in Apis /\ loc[t].max \in Nat
        /\ loc[t].beh \in Behaviors
    BY <1>1, LocalsAre
  <1>3. 0 \in Index
    BY SMT, SizeAssumption DEF Index
  <1>4. Again(t) \in Locals
    BY <1>2, <1>3, IdleIs DEF Again
  <1> QED BY SMT, <1>4 DEF Again, SyncOf, Idle

\* A thread that is not working has nothing to show for it.
LEMMA NoClaim ==
  ASSUME NEW t \in Threads, NEW p, pc'[t] = p, p \notin Working
  PROVE  ClaimInv(t)' /\ CopyInv(t)' /\ TailInv(t)'
  BY DEF ClaimInv, CopyInv, TailInv, Working

LEMMA LoadedKeeps ==
  ASSUME RingInv, NEW t \in Threads, pc[t] \in {"load", "move"}, Loaded(t),
         UNCHANGED <<r, head, tail, hcnt, tcnt, ring, claimed, base>>
  PROVE  RingInv'
  <1> PICK s \in Sides : s = Side(t)
    BY DEF Side, Sides
  <1> DEFINE a == Again(t)
             l == [a EXCEPT !.old = head[s], !.oldx = Companion(s)]
             p == AfterLoad(s)
  <1>0. /\ RingTypeOK /\ head[s] \in Index /\ tail[s] \in Index /\ hcnt[s] \in Index
        /\ r[s] \in SyncTypes /\ FormInv(t)
    BY Basics DEF RingInv, TypeFacts, ThreadInv, RingTypeOK
  <1>1. a \in Locals /\ a.sync = SyncOf(t) /\ a.api = loc[t].api /\ a.max = loc[t].max /\ a.i = 0
    BY <1>0, AgainIs
  <1>2. Companion(s) \in Index
    <2>1. 0 \in Index
      BY SMT, SizeAssumption DEF Index
    <2> QED BY <1>0, <2>1 DEF Companion
  <1> HIDE DEF a
  <1>3. l \in Locals
    BY <1>0, <1>1, <1>2 DEF Locals
  <1>4. /\ l.sync = SyncOf(t) /\ l.api = loc[t].api /\ l.max = loc[t].max
        /\ l.old = head[s] /\ l.oldx = Companion(s) /\ l.i = 0
    BY SMT, <1>1 DEF Locals
  <1>5. p \in {"load", "wait", "avail"}
    BY DEF AfterLoad
  <1>6. /\ p = "wait" => r[s] = "RTS"
        /\ p = "avail" => r[s] # "RTS" /\ (r[s] = "HTS" => head[s] = tail[s])
    BY DEF AfterLoad
  <1>7. r[s] = "HTS" => Companion(s) = tail[s]
    BY DEF Companion
  <1>8. Private(t, p, l) /\ p \in Places /\ p # "idle" /\ p \notin Working /\ pc[t] \notin Working
        /\ pc[t] # "idle"
    BY <1>5 DEF Loaded, Private, Places, Working, a
  <1> HIDE DEF l, p
  <1>9. pc'[t] = p /\ loc'[t] = l /\ r' = r /\ head' = head /\ Lim(s)' = Lim(s)
    BY <1>0, <1>3, <1>8, PrivateIs DEF Private
  <1>10. ThreadInv(t)'
    <2>1. FormInv(t)'
      BY <1>0, <1>4, <1>5, <1>6, <1>8, <1>9 DEF FormInv, SyncOf, Side, Torn
    <2>2. LoadInv(t)'
      <3>1. Num(head[s]) <= Lim(s)
        <4>1. s = "prod" \/ s = "cons"
          BY DEF Sides
        <4> QED BY SMT, <4>1 DEF RingInv, PosInv, Lim, Sides
      <3>2. r[s] = SyncOf(t) \/ (SyncOf(t) = "ST" /\ r[s] = "MT")
        BY <1>0, <1>8 DEF FormInv
      <3>3. p \in {"wait", "avail", "move", "cmpset"} => Num(l.old) <= Lim(s) /\ l.i = 0
        BY <1>4, <3>1
      <3>4. p \in {"avail", "move", "cmpset"} => /\ l.old = head[s]
                                                 /\ l.sync = "HTS" => l.oldx = l.old
                                                 /\ l.sync # "RTS"
        BY <1>4, <1>5, <1>6, <1>7, <3>2
      <3>5. Lim(Side(t))' = Lim(s)' /\ Side(t)' = s
        BY DEF Side
      <3> QED BY <1>5, <1>9, <3>3, <3>4, <3>5 DEF LoadInv, SyncOf
    <2>3. ClaimInv(t)' /\ CopyInv(t)' /\ TailInv(t)'
      BY <1>8, <1>9, NoClaim
    <2> QED BY <2>1, <2>2, <2>3 DEF ThreadInv
  <1> QED BY <1>3, <1>4, <1>8, <1>10, PrivateKeeps

LEMMA LoadHeadKeeps ==
  ASSUME RingInv, NEW t \in Threads, LoadHead(t) PROVE RingInv'
  BY LoadedKeeps DEF LoadHead

LEMMA MoveHeadFailsKeeps ==
  ASSUME RingInv, NEW t \in Threads, MoveHeadFails(t) PROVE RingInv'
  <1>0. RingTypeOK /\ FormInv(t) /\ pc[t] = "move"
    BY DEF RingInv, ThreadInv, MoveHeadFails
  <1>1. CASE SyncOf(t) = "MT" /\ ~r.c11
    <2> DEFINE l == Again(t)
    <2>1. l \in Locals /\ l.sync = SyncOf(t) /\ l.api = loc[t].api /\ l.max = loc[t].max
      BY <1>0, AgainIs
    <2> HIDE DEF l
    <2>2. Private(t, "load", l) /\ "load" \in Places /\ "load" \notin Working /\ "move" \notin Working
      BY <1>1 DEF MoveHeadFails, Private, Places, Working, l
    <2>3. pc'[t] = "load" /\ loc'[t] = l /\ r' = r
      BY <1>0, <2>1, <2>2, PrivateIs DEF Private
    <2>4. FormInv(t)' /\ LoadInv(t)'
      BY <1>0, <2>1, <2>3 DEF FormInv, LoadInv, SyncOf, Side
    <2>5. ClaimInv(t)' /\ CopyInv(t)' /\ TailInv(t)'
      BY <2>2, <2>3, NoClaim
    <2> QED BY <1>0, <2>1, <2>2, <2>4, <2>5, PrivateKeeps DEF ThreadInv
  <1>2. CASE ~(SyncOf(t) = "MT" /\ ~r.c11)
    BY <1>0, <1>2, LoadedKeeps DEF MoveHeadFails
  <1> QED BY <1>1, <1>2

LEMMA RtsHeadWaitKeeps ==
  ASSUME RingInv, NEW t \in Threads, RtsHeadWait(t) PROVE RingInv'
  <1> PICK s \in Sides : s = Side(t)
    BY DEF Side, Sides
  <1> DEFINE l == loc[t]
             d == Dist(l.old, tail[s])
             p == IF d > r.htd_max THEN "load" ELSE "avail"
  <1>0. RingTypeOK /\ FormInv(t) /\ LoadInv(t) /\ l \in Locals /\ pc[t] = "wait" /\ SyncOf(t) = "RTS"
    BY DEF RingInv, ThreadInv, RtsHeadWait, RingTypeOK, FormInv
  <1>1. Private(t, p, l) /\ p \in Places /\ p # "idle" /\ p \notin Working /\ "wait" \notin Working
    BY <1>0 DEF RtsHeadWait, Private, Places, Working, RingTypeOK
  <1>2. p \in {"load", "avail"}
    OBVIOUS
  <1>3. p = "avail" => Num(l.old) <= Pub(s) + r.htd_max
    <2>1. l.old \in Index /\ tail[s] \in Index /\ r.htd_max \in Nat /\ Pub(s) \in Nat /\ Num(l.old) \in Nat
      BY <1>0, Basics, LocalsAre DEF TypeFacts
    <2>2. d \in Nat /\ Num(l.old) - Pub(s) <= d
      BY <2>1, DistNum DEF Pub
    <2> QED BY SMT, <2>1, <2>2
  <1> HIDE DEF l, p
  <1>4. /\ pc'[t] = p /\ loc'[t] = l /\ l = loc[t] /\ r' = r
        /\ Lim(s)' = Lim(s) /\ Pub(s)' = Pub(s)
    BY <1>0, <1>1, PrivateIs DEF Private, l
  <1>5. Lim(Side(t))' = Lim(s)' /\ Pub(Side(t))' = Pub(s)' /\ Side(t)' = s
    BY DEF Side
  <1>6. FormInv(t)'
    BY <1>0, <1>1, <1>2, <1>4, <1>5 DEF FormInv, SyncOf, Torn
  <1>7. LoadInv(t)'
    BY <1>0, <1>2, <1>3, <1>4, <1>5 DEF LoadInv, SyncOf, Torn
  <1>8. ClaimInv(t)' /\ CopyInv(t)' /\ TailInv(t)'
    BY <1>1, <1>4, NoClaim
  <1> QED BY <1>0, <1>1, <1>4, <1>6, <1>7, <1>8, PrivateKeeps DEF ThreadInv, SyncOf

\* The code's unsigned difference never says that there is more to claim than
\* there is.
LEMMA EntriesAre ==
  ASSUME RingTypeOK, NEW s \in Sides, NEW x \in Index, Num(x) <= Lim(s)
  PROVE  Entries(s, x) \in Nat /\ Num(x) + Entries(s, x) <= Lim(s)
  <1>1. TypeFacts
    BY Basics
  <1>2. tail["cons"] \in Index /\ tail["prod"] \in Index /\ r.capacity \in Nat
        /\ r.capacity < Mod /\ Mod \in Nat \ {0} /\ 0 \in Nat /\ 0 < Mod
    BY SMT, <1>1, SizeAssumption DEF TypeFacts, Sides
  <1>3. CASE s = "prod"
    BY <1>2, <1>3, LeftNum DEF Entries, Lim, Pub
  <1>4. CASE s = "cons"
    <2>0. "cons" # "prod"
      OBVIOUS
    <2>1. Num(x) <= Num(tail["prod"]) /\ Num(tail["prod"]) \in Int /\ x \in Int /\ tail["prod"] \in Int
      BY SMT, <1>2, <1>4, <2>0, NumIs DEF Lim, Pub, Index
    <2>2. Num(x) <= 0 + Num(tail["prod"]) /\ 0 + tail["prod"] - x = tail["prod"] - x
          /\ 0 + Num(tail["prod"]) = Num(tail["prod"])
      BY SMT, <2>1
    <2>3. /\ (0 + tail["prod"] - x) % Mod \in Nat
          /\ Num(x) + ((0 + tail["prod"] - x) % Mod) <= 0 + Num(tail["prod"])
      BY <1>2, <2>2, LeftNum
    <2> QED BY <1>4, <2>0, <2>2, <2>3 DEF Entries, Lim, Pub
  <1> QED BY <1>3, <1>4 DEF Sides

LEMMA CheckEntriesKeeps ==
  ASSUME RingInv, NEW t \in Threads, CheckEntries(t) PROVE RingInv'
  <1> PICK s \in Sides : s = Side(t)
    BY DEF Side, Sides
  <1> DEFINE e == Entries(s, loc[t].old)
             n == Take(loc[t].beh, loc[t].max, e)
  <1>0. RingTypeOK /\ FormInv(t) /\ LoadInv(t) /\ loc[t] \in Locals /\ pc[t] = "avail"
    BY DEF RingInv, ThreadInv, CheckEntries, RingTypeOK
  <1>1. loc[t].old \in Index /\ loc[t].max \in Nat /\ Num(loc[t].old) \in Nat /\ Lim(s) \in Nat
    BY <1>0, Basics, LocalsAre DEF TypeFacts
  <1>2. e \in Nat /\ Num(loc[t].old) + e <= Lim(s)
    BY <1>0, <1>1, EntriesAre DEF LoadInv
  <1>3. n \in Nat /\ n <= loc[t].max /\ Num(loc[t].old) + n <= Lim(s)
    <2> HIDE DEF e
    <2> QED BY SMT, <1>1, <1>2 DEF Take
  <1>4. n # 0 => n > 0
    <2> HIDE DEF n
    <2> QED BY SMT, <1>3
  <1>5. "idle" \in Places /\ "move" \in Places /\ "idle" \notin Working /\ "move" \notin Working
        /\ "avail" \notin Working
    BY DEF Places, Working
  <1>6. CASE n = 0
    <2>1. Idle \in Locals
      <3>1. "ST" \in SyncTypes /\ "call" \in Apis /\ 0 \in Nat /\ "FIXED" \in Behaviors /\ 0 \in Index
        BY SMT, SizeAssumption DEF SyncTypes, Apis, Behaviors, Index
      <3> QED BY <3>1, IdleIs
    <2>2. Private(t, "idle", Idle)
      BY <1>6 DEF CheckEntries, Private
    <2>3. pc'[t] = "idle"
      BY <1>0, <1>5, <2>1, <2>2, PrivateIs
    <2>4. FormInv(t)' /\ LoadInv(t)'
      BY <2>3 DEF FormInv, LoadInv
    <2>5. ClaimInv(t)' /\ CopyInv(t)' /\ TailInv(t)'
      BY <1>5, <2>3, NoClaim
    <2> QED BY <1>0, <1>5, <2>1, <2>2, <2>4, <2>5, PrivateKeeps DEF ThreadInv
  <1>7. CASE n # 0
    <2> DEFINE l == [loc[t] EXCEPT !.n = n]
    <2>1. Private(t, "move", l)
      BY <1>0, <1>7 DEF CheckEntries, Private, RingTypeOK
    <2> HIDE DEF n
    <2>2. l \in Locals
      BY <1>0, <1>3 DEF Locals
    <2>3. /\ l.sync = loc[t].sync /\ l.api = loc[t].api /\ l.max = loc[t].max /\ l.n = n
          /\ l.old = loc[t].old /\ l.oldx = loc[t].oldx /\ l.i = loc[t].i
      BY SMT, <1>0 DEF Locals
    <2> HIDE DEF l
    <2>4. /\ pc'[t] = "move" /\ loc'[t] = l /\ r' = r /\ head' = head
          /\ Lim(s)' = Lim(s) /\ Pub(s)' = Pub(s)
      BY <1>0, <1>5, <2>1, <2>2, PrivateIs DEF Private
    <2>5. Lim(Side(t))' = Lim(s)' /\ Pub(Side(t))' = Pub(s)' /\ Side(t)' = s
      BY DEF Side
    <2>6. FormInv(t)'
      BY <1>0, <1>5, <2>3, <2>4, <2>5 DEF FormInv, SyncOf, Torn
    <2>7. LoadInv(t)'
      BY <1>0, <1>3, <1>4, <1>7, <2>3, <2>4, <2>5 DEF LoadInv, SyncOf, Torn
    <2>8. ClaimInv(t)' /\ CopyInv(t)' /\ TailInv(t)'
      BY <1>5, <2>4, NoClaim
    <2> QED BY <1>0, <1>5, <2>1, <2>2, <2>3, <2>4, <2>6, <2>7, <2>8, PrivateKeeps
            DEF ThreadInv, SyncOf
  <1> QED BY <1>6, <1>7

LEMMA CmpsetLoadKeeps ==
  ASSUME RingInv, NEW t \in Threads, CmpsetLoad(t) PROVE RingInv'
  <1> PICK s \in Sides : s = Side(t)
    BY DEF Side, Sides
  <1> DEFINE l == [loc[t] EXCEPT !.seen = head[s]]
  <1>0. /\ RingTypeOK /\ FormInv(t) /\ LoadInv(t) /\ loc[t] \in Locals /\ pc[t] = "move" /\ Torn(t)
        /\ head[s] \in Index
    BY DEF RingInv, ThreadInv, CmpsetLoad, RingTypeOK
  <1>1. Private(t, "cmpset", l)
    BY <1>0 DEF CmpsetLoad, Private, RingTypeOK
  <1>2. l \in Locals
    BY <1>0 DEF Locals
  <1>3. /\ l.sync = loc[t].sync /\ l.api = loc[t].api /\ l.max = loc[t].max /\ l.n = loc[t].n
        /\ l.old = loc[t].old /\ l.oldx = loc[t].oldx /\ l.seen = head[s] /\ l.i = loc[t].i
    BY SMT, <1>0 DEF Locals
  <1>4. "cmpset" \in Places /\ "cmpset" \notin Working /\ "move" \notin Working
    BY DEF Places, Working
  <1> HIDE DEF l
  <1>5. /\ pc'[t] = "cmpset" /\ loc'[t] = l /\ r' = r /\ head' = head
        /\ Lim(s)' = Lim(s) /\ Pub(s)' = Pub(s)
    BY <1>0, <1>1, <1>2, <1>4, PrivateIs DEF Private
  <1>6. Lim(Side(t))' = Lim(s)' /\ Pub(Side(t))' = Pub(s)' /\ Side(t)' = s
    BY DEF Side
  <1>7. FormInv(t)'
    BY <1>0, <1>4, <1>3, <1>5, <1>6 DEF FormInv, SyncOf, Torn
  <1>8. LoadInv(t)'
    BY <1>0, <1>3, <1>5, <1>6 DEF LoadInv, SyncOf, Torn
  <1>9. ClaimInv(t)' /\ CopyInv(t)' /\ TailInv(t)'
    BY <1>4, <1>5, NoClaim
  <1> QED BY <1>0, <1>1, <1>2, <1>3, <1>4, <1>5, <1>7, <1>8, <1>9, PrivateKeeps DEF ThreadInv, SyncOf

-----------------------------------------------------------------------------
(***************************************************************************)
(* Copying.                                                                *)
(***************************************************************************)
LEMMA SlotPlus ==
  ASSUME NEW x \in Nat, NEW k \in Nat, k < Size
  PROVE  /\ Slot(x) \in Nat /\ Slot(x) < Size
         /\ Slot(x + k) = IF Slot(x) + k < Size THEN Slot(x) + k ELSE Slot(x) + k - Size
  <1> DEFINE q == x \div Size
             b == Slot(x)
             a == x + k
  <1>1. Size \in Nat \ {0} /\ x \in Int /\ a \in Int
    BY SMT, SizeAssumption
  <1>2. q \in Int /\ b \in 0..(Size - 1) /\ x = Size * q + b
    BY <1>1, ModIs DEF Slot
  <1> HIDE DEF q, b
  <1>3. b \in Nat /\ b < Size
    BY SMT, <1>1, <1>2
  <1>4. CASE b + k < Size
    <2>1. b + k \in 0..(Size - 1) /\ a = Size * q + (b + k)
      BY SMT, <1>1, <1>2, <1>3, <1>4
    <2> HIDE DEF a
    <2>2. a % Size = b + k
      BY <1>1, <1>2, <2>1, ModUnique
    <2> QED BY <1>3, <1>4, <2>2 DEF Slot, a, b
  <1>5. CASE ~(b + k < Size)
    <2>1. /\ b + k - Size \in 0..(Size - 1) /\ q + 1 \in Int
          /\ a = Size * (q + 1) + (b + k - Size)
      BY SMT, <1>1, <1>2, <1>3, <1>5
    <2> HIDE DEF a
    <2>2. a % Size = b + k - Size
      BY <1>1, <2>1, ModUnique
    <2> QED BY <1>3, <1>5, <2>2 DEF Slot, a, b
  <1> QED BY <1>4, <1>5

\* What is claimed and not published fits the ring.
LEMMA ClaimFits ==
  ASSUME RingInv, NEW s \in Sides
  PROVE  Pub(s) <= claimed[s] /\ claimed[s] <= Pub(s) + r.capacity
  <1>1. PosInv /\ TypeFacts
    BY Basics DEF RingInv
  <1> QED BY SMT, <1>1 DEF PosInv, TypeFacts, Sides

LEMMA ClaimIs ==
  ASSUME RingInv, NEW t \in Threads, pc[t] \in Working
  PROVE  /\ loc[t] \in Locals /\ loc[t].n \in Nat /\ loc[t].i \in Nat /\ base[t] \in Nat
         /\ loc[t].old \in Index /\ Num(loc[t].old) = base[t]
         /\ Pub(Side(t)) <= base[t] /\ base[t] + loc[t].n <= End(t) /\ End(t) <= claimed[Side(t)]
         /\ End(t) \in Nat /\ claimed[Side(t)] <= Pub(Side(t)) + r.capacity
         /\ loc[t].n <= r.capacity /\ r.capacity < Size
  <1> PICK s \in Sides : s = Side(t)
    BY DEF Side, Sides
  <1>1. TypeFacts /\ ClaimInv(t)
    BY Basics DEF RingInv, ThreadInv
  <1>2. loc[t] \in Locals /\ base[t] \in Nat /\ Pub(s) \in Nat /\ claimed[s] \in Nat
        /\ r.capacity \in Nat /\ r.capacity < Size /\ Size \in Nat
    BY <1>1 DEF TypeFacts
  <1>3. loc[t].n \in Nat /\ loc[t].i \in Nat /\ loc[t].old \in Index
    BY <1>2, LocalsAre
  <1>4. End(t) \in Nat
    BY SMT, <1>2, <1>3 DEF End
  <1>5. /\ Num(loc[t].old) = base[t] /\ Pub(s) <= base[t]
        /\ base[t] + loc[t].n <= End(t) /\ End(t) <= claimed[s]
    BY <1>1 DEF ClaimInv
  <1>6. claimed[s] <= Pub(s) + r.capacity
    BY ClaimFits
  <1> QED BY SMT, <1>2, <1>3, <1>4, <1>5, <1>6

\* Both ways of walking the slots of a claim, with a wrap at the end of the
\* array, visit the slots of its objects.
LEMMA SlotOfIs ==
  ASSUME RingInv, NEW t \in Threads, pc[t] = "copy"
  PROVE  SlotOf(t) = Cell(base[t] + loc[t].i) /\ loc[t].i < loc[t].n
  <1> DEFINE x == loc[t].old
             j == loc[t].i
             n == loc[t].n
             b == Slot(x)
  <1>0. pc[t] \in Working
    BY DEF Working
  <1>1. /\ n \in Nat /\ j \in Nat /\ x \in Index /\ x \in Nat /\ Num(x) = base[t]
        /\ n < Size /\ Size \in Nat
    <2>1. n \in Nat /\ j \in Nat /\ x \in Index /\ Num(x) = base[t] /\ n <= r.capacity
          /\ r.capacity < Size
      BY <1>0, ClaimIs
    <2>2. r.capacity \in Nat /\ Size \in Nat
      BY Basics DEF RingInv, TypeFacts
    <2> QED BY SMT, <2>1, <2>2 DEF Index
  <1>2. j < n
    BY <1>0 DEF RingInv, ThreadInv, CopyInv
  <1>3. j < Size
    BY SMT, <1>1, <1>2
  <1>4. b \in Nat /\ b < Size /\ Slot(x + j) = IF b + j < Size THEN b + j ELSE b + j - Size
    BY <1>1, <1>3, SlotPlus
  <1>5. Slot(x + j) = Cell(base[t] + j)
    BY <1>1, SlotIs
  <1> HIDE DEF b, x, j, n
  <1>6. CopySlot(t) = IF b + j < Size THEN b + j ELSE b + j - Size
    <2>1. CopySlot(t) = IF b + j < Size THEN b + j ELSE (b + j) - Size
      BY DEF CopySlot, b, x, j
    <2> QED BY SMT, <1>1, <1>4, <2>1
  <1>7. ZcSlot(t) = IF b + j < Size THEN b + j ELSE b + j - Size
    <2>1. ZcSlot(t) = LET n1 == IF b + n > Size THEN Size - b ELSE n
                      IN IF j < n1 THEN b + j ELSE j - n1
      BY DEF ZcSlot, b, x, j, n
    <2> QED BY SMT, <1>1, <1>2, <1>4, <2>1
  <1> QED BY <1>2, <1>4, <1>5, <1>6, <1>7 DEF SlotOf, j, n

LEMMA AfterCopyIs ==
  ASSUME RingInv, NEW t \in Threads, pc[t] = "copy",
         NEW p, p = IF loc[t].i + 1 < loc[t].n THEN "copy" ELSE AfterCopy(t)
  PROVE  /\ p \in Working \ {"rts_head", "rts_cas"} /\ p # "idle"
         /\ p = "started" => loc[t].api # "call" /\ ~PeekEnqueue(t)
         /\ p = "publish" => loc[t].api # "call"
         /\ p = "rts_tail" => SyncOf(t) = "RTS"
         /\ p = "update" => SyncOf(t) # "RTS" /\ loc[t].api = "call"
         /\ p = "copy" => loc[t].i + 1 < loc[t].n
         /\ p # "copy" => loc[t].i + 1 = loc[t].n
  <1>1. loc[t].i \in Nat /\ loc[t].n \in Nat /\ loc[t].i < loc[t].n
    BY SlotOfIs, ClaimIs DEF Working
  <1>2. CASE loc[t].i + 1 < loc[t].n
    <2>1. p = "copy"
      BY <1>2
    <2> QED BY <1>2, <2>1 DEF Working
  <1>3. CASE ~(loc[t].i + 1 < loc[t].n)
    <2>1. loc[t].i + 1 = loc[t].n
      BY SMT, <1>1, <1>3
    <2>2. p = AfterCopy(t)
      BY <1>3
    <2>3. CASE loc[t].api = "call"
      <3>1. p = IF SyncOf(t) = "RTS" THEN "rts_tail" ELSE "update"
        BY SMT, <2>2, <2>3 DEF AfterCopy, PeekEnqueue
      <3> QED BY <2>1, <2>3, <3>1 DEF Working
    <2>4. CASE loc[t].api # "call" /\ PeekEnqueue(t)
      BY <2>1, <2>2, <2>4 DEF AfterCopy, Working
    <2>5. CASE loc[t].api # "call" /\ ~PeekEnqueue(t)
      BY <2>1, <2>2, <2>5 DEF AfterCopy, Working
    <2> QED BY <2>3, <2>4, <2>5
  <1> QED BY <1>2, <1>3

LEMMA DequeueElemKeeps ==
  ASSUME RingInv, NEW t \in Threads, DequeueElem(t) PROVE RingInv'
  <1> DEFINE o == ring[SlotOf(t)]
             l == [loc[t] EXCEPT !.i = @ + 1, !.obj = o]
             p == IF loc[t].i + 1 < loc[t].n THEN "copy" ELSE AfterCopy(t)
             s == "cons"
  <1>0. /\ RingTypeOK /\ FormInv(t) /\ ClaimInv(t) /\ CopyInv(t) /\ pc[t] = "copy"
        /\ pc[t] \in Working /\ t \in Consumers
    BY DEF RingInv, ThreadInv, DequeueElem, Working
  <1>1. s \in Sides /\ "prod" \in Sides /\ Side(t) = s /\ t \notin Producers
    BY <1>0, ThreadsAssumption DEF Side, Sides
  <1>2. /\ loc[t] \in Locals /\ loc[t].n \in Nat /\ loc[t].i \in Nat /\ base[t] \in Nat
        /\ Pub(s) <= base[t] /\ base[t] + loc[t].n <= End(t) /\ End(t) <= claimed[s]
        /\ End(t) \in Nat /\ loc[t].i < loc[t].n
    BY <1>0, <1>1, ClaimIs, SlotOfIs
  <1>3. o = base[t] + loc[t].i
    <2> DEFINE m == base[t] + loc[t].i
    <2>1. Pub(s) \in Nat /\ Pub("prod") \in Nat /\ claimed[s] \in Nat
      BY <1>0, <1>1, Basics DEF TypeFacts
    <2>2. claimed[s] <= Pub("prod")
      BY DEF RingInv, PosInv
    <2>3. m \in Nat /\ Pub(s) <= m /\ m < Pub("prod")
      BY SMT, <1>2, <2>1, <2>2
    <2>4. ring[Cell(m)] = m
      BY <2>3 DEF RingInv, HeldInv
    <2> QED BY <1>0, <2>4, SlotOfIs
  <1>4. p \in Places /\ p \in Working
    BY <1>0, AfterCopyIs DEF Places
  <1>5. Private(t, p, l)
    BY <1>0 DEF DequeueElem, Copied, Private, RingTypeOK
  <1> HIDE DEF o
  <1>6. l \in Locals
    <2>1. o \in Int /\ loc[t].i + 1 \in Nat
      BY SMT, <1>2, <1>3
    <2> QED BY <1>2, <2>1 DEF Locals
  <1>7. /\ l.sync = loc[t].sync /\ l.api = loc[t].api /\ l.max = loc[t].max /\ l.n = loc[t].n
        /\ l.old = loc[t].old /\ l.i = loc[t].i + 1 /\ l.obj = o
    BY SMT, <1>2 DEF Locals
  <1>8. /\ p \in Working \ {"rts_head", "rts_cas"} /\ p # "idle"
        /\ p = "started" => loc[t].api # "call"
        /\ p = "publish" => loc[t].api # "call"
        /\ p = "rts_tail" => SyncOf(t) = "RTS"
        /\ p = "update" => SyncOf(t) # "RTS" /\ loc[t].api = "call"
        /\ p = "copy" => loc[t].i + 1 < loc[t].n
    BY <1>0, AfterCopyIs
  <1> HIDE DEF l, p, s
  <1>9. /\ pc'[t] = p /\ loc'[t] = l /\ r' = r /\ claimed' = claimed /\ base' = base
        /\ Pub(s)' = Pub(s)
    BY <1>0, <1>4, <1>5, <1>6, PrivateIs DEF Private
  <1>10. Pub(Side(t))' = Pub(s)' /\ Side(t)' = s
    BY <1>1 DEF Side
  <1>11. End(t)' = End(t)
    BY <1>7, <1>9, <1>10, <1>1 DEF End
  <1>12. FormInv(t)'
    BY <1>0, <1>1, <1>4, <1>7, <1>8, <1>9, <1>10 DEF FormInv, SyncOf, Working
  <1>13. LoadInv(t)' /\ TailInv(t)'
    BY <1>8, <1>9 DEF LoadInv, TailInv, Working
  <1>14. ClaimInv(t)'
    BY <1>0, <1>1, <1>7, <1>8, <1>9, <1>10, <1>11 DEF ClaimInv, SyncOf
  <1>15. CopyInv(t)'
    <2>1. o = base[t] + (loc[t].i + 1) - 1
      BY SMT, <1>2, <1>3
    <2> QED BY <1>0, <1>1, <1>7, <1>8, <1>9, <2>1 DEF CopyInv
  <1> QED BY <1>0, <1>4, <1>5, <1>6, <1>7, <1>8, <1>12, <1>13, <1>14, <1>15, PrivateKeeps
          DEF ThreadInv, SyncOf

LEMMA FinishKeeps ==
  ASSUME RingInv, NEW t \in Threads, NEW k \in Nat, NEW after, Finish(t, k, after),
         after = IF PeekEnqueue(t) THEN "copy" ELSE "publish"
  PROVE  RingInv'
  <1> PICK s \in Sides : s = Side(t)
    BY DEF Side, Sides
  <1> DEFINE n == Finishing(s, k)
             l == [loc[t] EXCEPT !.old = tail[s], !.n = n]
             p == IF n = 0 THEN "publish" ELSE after
  <1>0. /\ RingTypeOK /\ FormInv(t) /\ ClaimInv(t) /\ CopyInv(t) /\ pc[t] = "started"
        /\ pc[t] \in Working /\ loc[t].api # "call" /\ SyncOf(t) \in {"ST", "HTS"}
        /\ tail[s] \in Index /\ k <= loc[t].n
    BY DEF RingInv, ThreadInv, Finish, Working, FormInv, RingTypeOK
  <1>1. /\ loc[t] \in Locals /\ loc[t].n \in Nat /\ loc[t].i \in Nat /\ base[t] \in Nat
        /\ End(t) = claimed[s] /\ base[t] + loc[t].n <= claimed[s] /\ claimed[s] \in Nat
        /\ base[t] = Pub(s)
    <2>1. claimed[s] \in Nat
      BY <1>0, Basics DEF TypeFacts
    <2> QED BY <1>0, <2>1, ClaimIs DEF End, ClaimInv
  <1>2. n \in Nat /\ n <= k
    BY SMT DEF Finishing
  <1>3. p \in {"copy", "publish"} /\ (p = "copy" => PeekEnqueue(t) /\ n # 0)
    OBVIOUS
  <1>4. Private(t, p, l)
    BY <1>0 DEF Finish, Private, RingTypeOK
  <1> HIDE DEF n
  <1>5. base[t] + n <= claimed[s] /\ n <= loc[t].n /\ (n # 0 => 0 < n)
    BY SMT, <1>0, <1>1, <1>2
  <1>6. l \in Locals
    BY <1>0, <1>1, <1>2 DEF Locals
  <1>7. /\ l.sync = loc[t].sync /\ l.api = loc[t].api /\ l.max = loc[t].max /\ l.n = n
        /\ l.old = tail[s] /\ l.i = loc[t].i /\ l.obj = loc[t].obj
    BY SMT, <1>1 DEF Locals
  <1>8. p \in Places /\ p \in Working /\ p # "idle"
    BY <1>3 DEF Places, Working
  <1> HIDE DEF l, p
  <1>9. /\ pc'[t] = p /\ loc'[t] = l /\ r' = r /\ claimed' = claimed /\ base' = base
        /\ ring' = ring /\ Pub(s)' = Pub(s)
    BY <1>0, <1>4, <1>6, <1>8, PrivateIs DEF Private
  <1>10. Pub(Side(t))' = Pub(s)' /\ Side(t)' = s
    BY DEF Side
  <1>11. End(t)' = End(t)
    BY <1>0, <1>7, <1>9, <1>10 DEF End
  <1>12. FormInv(t)'
    BY <1>0, <1>3, <1>7, <1>8, <1>9, <1>10 DEF FormInv, SyncOf
  <1>13. LoadInv(t)' /\ TailInv(t)'
    BY <1>3, <1>9 DEF LoadInv, TailInv
  <1>14. ClaimInv(t)'
    <2>1. Num(l.old) = base[t] /\ Pub(s) <= base[t]
      BY SMT, <1>1, <1>7 DEF Pub
    <2> QED BY <1>0, <1>1, <1>3, <1>5, <1>7, <1>9, <1>10, <1>11, <2>1 DEF ClaimInv, SyncOf
  <1>15. CopyInv(t)'
    <2>1. p = "copy" => l.i < l.n
      <3> SUFFICES ASSUME p = "copy" PROVE l.i < l.n
        OBVIOUS
      <3>1. loc[t].i = 0
        BY <1>0, <1>3 DEF CopyInv, PeekEnqueue
      <3> QED BY <1>3, <1>5, <1>7, <3>1
    <2>2. t \in Producers /\ p = "publish" => l.n <= l.i
      <3> SUFFICES ASSUME t \in Producers, p = "publish" PROVE n <= loc[t].i
        BY <1>7
      <3>1. loc[t].i = IF loc[t].api = "peek" THEN 0 ELSE loc[t].n
        BY <1>0 DEF CopyInv
      <3>2. PeekEnqueue(t) => n = 0
        BY DEF p
      <3>3. loc[t].api = "peek" => n = 0
        BY <3>2 DEF PeekEnqueue
      <3> QED BY SMT, <1>1, <1>5, <3>1, <3>3
    <2>3. ASSUME t \in Producers, NEW j \in Nat, j < l.i, j < l.n
          PROVE  ring[Cell(base[t] + j)] = base[t] + j
      <3>1. j < loc[t].i /\ j < loc[t].n
        BY SMT, <1>1, <1>2, <1>5, <1>7, <2>3
      <3> QED BY <1>0, <2>3, <3>1 DEF CopyInv
    <2>4. t \in Consumers /\ l.i > 0 => l.obj = base[t] + l.i - 1
      BY <1>0, <1>7 DEF CopyInv
    <2> QED BY <1>3, <1>9, <2>1, <2>2, <2>3, <2>4 DEF CopyInv, Cell
  <1> QED BY <1>0, <1>4, <1>6, <1>7, <1>8, <1>12, <1>13, <1>14, <1>15, PrivateKeeps
          DEF ThreadInv, SyncOf

-----------------------------------------------------------------------------
(***************************************************************************)
(* The steps that end an RTS call, up to the exchange of the tail.         *)
(***************************************************************************)
LEMMA RtsWorker ==
  ASSUME RingInv, NEW t \in Threads, pc[t] \in {"rts_tail", "rts_head", "rts_cas"}
  PROVE  /\ pc[t] \in Working /\ SyncOf(t) = "RTS" /\ r[Side(t)] = "RTS" /\ loc[t].api = "call"
         /\ tail[Side(t)] \in Index /\ tcnt[Side(t)] \in Index
         /\ [pos |-> tail[Side(t)], cnt |-> tcnt[Side(t)]] \in Tails
         /\ loc[t].ot \in Tails /\ loc[t].nt \in Tails
  <1> PICK s \in Sides : s = Side(t)
    BY DEF Side, Sides
  <1>1. FormInv(t) /\ RingTypeOK /\ pc[t] # "idle" /\ pc[t] \in Working
    BY DEF RingInv, ThreadInv, Working
  <1>2. SyncOf(t) = "RTS" /\ r[s] = "RTS" /\ loc[t].api = "call"
    BY <1>1 DEF FormInv
  <1>3. tail[s] \in Index /\ tcnt[s] \in Index /\ loc[t] \in Locals
    BY <1>1 DEF RingTypeOK
  <1>4. loc[t].ot \in Tails /\ loc[t].nt \in Tails
    BY <1>3, LocalsAre
  <1> QED BY <1>1, <1>2, <1>3, <1>4 DEF Tails

\* Steps within __rte_ring_rts_update_tail change nothing but the two tails the
\* thread holds.
LEMMA RtsStep ==
  ASSUME RingInv, NEW t \in Threads, pc[t] \in {"rts_tail", "rts_head", "rts_cas"},
         NEW p \in {"rts_head", "rts_cas"}, NEW l \in Locals, Private(t, p, l),
         /\ l.sync = loc[t].sync /\ l.api = loc[t].api /\ l.max = loc[t].max /\ l.n = loc[t].n
         /\ l.old = loc[t].old /\ l.i = loc[t].i /\ l.obj = loc[t].obj,
         TailInv(t)'
  PROVE  RingInv'
  <1> PICK s \in Sides : s = Side(t)
    BY DEF Side, Sides
  <1>0. /\ RingTypeOK /\ FormInv(t) /\ ClaimInv(t) /\ CopyInv(t) /\ pc[t] \in Working
        /\ SyncOf(t) = "RTS" /\ p \in Places /\ p \in Working /\ pc[t] # "idle" /\ p # "idle"
        /\ loc[t].api = "call"
    BY RtsWorker DEF RingInv, ThreadInv, Working, Places
  <1>1. /\ pc'[t] = p /\ loc'[t] = l /\ r' = r /\ claimed' = claimed /\ base' = base
        /\ ring' = ring /\ Pub(s)' = Pub(s)
    BY <1>0, PrivateIs DEF Private
  <1>2. Pub(Side(t))' = Pub(s)' /\ Side(t)' = s
    BY DEF Side
  <1>3. End(t)' = End(t)
    BY <1>1, <1>2 DEF End
  <1>4. FormInv(t)'
    BY <1>0, <1>1, <1>2 DEF FormInv, SyncOf
  <1>5. LoadInv(t)'
    BY <1>1 DEF LoadInv
  <1>6. ClaimInv(t)'
    BY <1>0, <1>1, <1>2, <1>3 DEF ClaimInv, SyncOf
  <1>7. CopyInv(t)'
    <2>1. p \in Working \ {"copy", "started"} /\ pc[t] \in Working \ {"copy", "started"}
      BY <1>0
    <2> QED BY <1>0, <1>1, <2>1 DEF CopyInv, Cell
  <1> QED BY <1>0, <1>4, <1>5, <1>6, <1>7, PrivateKeeps DEF ThreadInv, SyncOf

LEMMA RtsLoadTailKeeps ==
  ASSUME RingInv, NEW t \in Threads, pc[t] \in {"rts_tail", "rts_cas"},
         Private(t, "rts_head",
                 [loc[t] EXCEPT !.ot = [pos |-> tail[Side(t)], cnt |-> tcnt[Side(t)]]])
  PROVE  RingInv'
  <1> PICK s \in Sides : s = Side(t)
    BY DEF Side, Sides
  <1> DEFINE c == [pos |-> tail[s], cnt |-> tcnt[s]]
             l == [loc[t] EXCEPT !.ot = c]
  <1>1. RingTypeOK /\ loc[t] \in Locals /\ c \in Tails /\ tcnt[s] \in Index /\ c.cnt = tcnt[s]
    BY RtsWorker DEF RingInv, RingTypeOK
  <1>2. Private(t, "rts_head", l)
    OBVIOUS
  <1> HIDE DEF c
  <1>3. l \in Locals
    BY <1>1 DEF Locals
  <1>4. /\ l.sync = loc[t].sync /\ l.api = loc[t].api /\ l.max = loc[t].max /\ l.n = loc[t].n
        /\ l.old = loc[t].old /\ l.i = loc[t].i /\ l.obj = loc[t].obj /\ l.ot = c
    BY SMT, <1>1 DEF Locals
  <1> HIDE DEF l
  <1>5. pc'[t] = "rts_head" /\ loc'[t] = l /\ tcnt' = tcnt
    <2>1. "rts_head" \in Places
      BY DEF Places, Working
    <2>2. pc'[t] = "rts_head" /\ loc'[t] = l
      BY <1>1, <1>2, <1>3, <2>1, PrivateIs
    <2> QED BY <1>2, <2>2 DEF Private
  <1>6. TailInv(t)'
    <2>1. Num(tcnt[s]) <= Num(tcnt[s])
      BY SMT, <1>1, NumIs DEF Index
    <2>2. Side(t)' = s
      BY DEF Side
    <2> QED BY <1>1, <1>4, <1>5, <2>1, <2>2 DEF TailInv
  <1> QED BY <1>2, <1>3, <1>4, <1>6, RtsStep

LEMMA RtsLoadHeadKeeps ==
  ASSUME RingInv, Counted, NEW t \in Threads, RtsLoadHead(t) PROVE RingInv'
  <1> PICK s \in Sides : s = Side(t)
    BY DEF Side, Sides
  <1> DEFINE ot == loc[t].ot
             nt == NewTail(s, ot)
             l == [loc[t] EXCEPT !.nt = nt]
             c == (ot.cnt + 1) % Mod
  <1>1. /\ RingTypeOK /\ loc[t] \in Locals /\ ot \in Tails /\ pc[t] = "rts_head" /\ r[s] = "RTS"
        /\ Works(t, s) /\ TailInv(t) /\ PosInv /\ ClaimInv(t) /\ pc[t] \in Working
        /\ tcnt[s] \in Index /\ hcnt[s] \in Index /\ head[s] \in Index /\ loc[t].api = "call"
    BY RtsWorker DEF RingInv, RingTypeOK, RtsLoadHead, Works, ThreadInv
  <1>2. ot.cnt \in Index /\ ot.pos \in Index
    BY <1>1 DEF Tails
  <1>3. c \in Index /\ Num(c) = Num(ot.cnt) + 1
    <2>1. Num(ot.cnt) <= Num(tcnt[s])
      BY <1>1 DEF TailInv
    <2>2. Num(tcnt[s]) < Num(hcnt[s])
      BY <1>1 DEF Counted
    <2>3. Num(hcnt[s]) < Mod /\ Num(hcnt[s]) \in Nat /\ Num(tcnt[s]) \in Nat /\ Num(ot.cnt) \in Nat
          /\ Mod \in Nat
      BY SMTT(20), <1>1, <1>2, NumIs, SizeAssumption DEF Index
    <2>4. Num(ot.cnt) + 1 < Mod /\ 1 \in Nat
      BY SMT, <2>1, <2>2, <2>3
    <2> QED BY <1>2, <2>4, NumPlus
  <1>4. Private(t, "rts_cas", l)
    BY <1>1 DEF RtsLoadHead, Private, RingTypeOK
  <1>5. nt.cnt = c /\ nt.pos = IF c = hcnt[s] THEN head[s] ELSE ot.pos
    BY DEF NewTail
  <1>6. nt \in Tails
    BY <1>1, <1>2, <1>3 DEF NewTail, Tails
  <1> HIDE DEF nt, c
  <1>7. l \in Locals
    BY <1>1, <1>6 DEF Locals
  <1>8. /\ l.sync = loc[t].sync /\ l.api = loc[t].api /\ l.max = loc[t].max /\ l.n = loc[t].n
        /\ l.old = loc[t].old /\ l.i = loc[t].i /\ l.obj = loc[t].obj /\ l.ot = ot /\ l.nt = nt
    BY SMT, <1>1 DEF Locals
  <1>9. ASSUME ot = [pos |-> tail[s], cnt |-> tcnt[s]], nt.pos # tail[s]
        PROVE  /\ End(t) <= Num(nt.pos) /\ Num(nt.pos) <= claimed[s]
               /\ \A u \in Threads : u # t => ~Works(u, s)
    <2>1. ot.pos = tail[s] /\ ot.cnt = tcnt[s]
      BY SMT, <1>9
    <2>2. nt.pos = head[s] /\ c = hcnt[s]
      BY <1>5, <1>9, <2>1
    <2>3. Num(nt.pos) = claimed[s] /\ End(t) <= claimed[s]
      BY <1>1, <2>2 DEF PosInv, ClaimInv
    <2>4. Num(nt.pos) <= claimed[s]
      BY SMT, <1>1, <2>3, Basics DEF TypeFacts
    <2>5. \A u \in Threads : u # t => ~Works(u, s)
      BY <1>1, <1>3, <2>1, <2>2 DEF Counted
    <2> QED BY <2>3, <2>4, <2>5
  <1> HIDE DEF l, ot
  <1>10. /\ pc'[t] = "rts_cas" /\ loc'[t] = l /\ "rts_cas" \in Places
         /\ tcnt' = tcnt /\ tail' = tail /\ claimed' = claimed /\ base' = base
         /\ \A u \in Threads : u # t => (Works(u, s)' <=> Works(u, s))
    <2>1. "rts_cas" \in Places
      BY DEF Places, Working
    <2>2. pc'[t] = "rts_cas" /\ loc'[t] = l /\ \A u \in Threads : u # t => Rests(u)
      BY <1>1, <1>4, <1>7, <2>1, PrivateIs
    <2> QED BY <1>4, <2>1, <2>2 DEF Private, Rests, Works, Side
  <1>11. TailInv(t)'
    <2>1. Side(t)' = s /\ End(t)' = End(t) /\ \A u \in Threads : Works(u, Side(t))' <=> Works(u, s)'
      BY <1>8, <1>10 DEF Side, End, Works
    <2>2. Num(ot.cnt) <= Num(tcnt[s])
      BY <1>1 DEF TailInv, ot
    <2> QED BY <1>3, <1>5, <1>8, <1>9, <1>10, <2>1, <2>2 DEF TailInv
  <1> QED BY <1>1, <1>4, <1>7, <1>8, <1>11, RtsStep DEF ot

-----------------------------------------------------------------------------
(***************************************************************************)
(* The steps that move a head or a tail, or write a slot.                  *)
(***************************************************************************)
\* The exchange of the head is atomic: no side is MT, the build has the C11 one,
\* the threads share a core, or a side has one user at a time.
ExchangeAtomic ==
  \A q \in Rings : (\E s \in Sides : q[s] = "MT") => q.c11 \/ q.one_core \/ q.solo

\* A thread with an ST or HTS claim is the only one of its side with a claim.
LEMMA SideAlone ==
  ASSUME RingInv, NEW t \in Threads, NEW u \in Threads, t # u, NEW s \in Sides,
         Works(t, s), Works(u, s)
  PROVE  /\ SyncOf(t) \notin {"ST", "HTS"} /\ loc[t].api = "call"
         /\ SyncOf(u) \notin {"ST", "HTS"} /\ loc[u].api = "call"
  <1>1. /\ Side(t) = s /\ Side(u) = s /\ pc[t] \in Working /\ pc[u] \in Working
        /\ pc[t] # "idle" /\ pc[u] # "idle"
    BY DEF Works, Working
  <1>2. SyncOf(t) # "ST" /\ SyncOf(u) # "ST"
    BY <1>1 DEF RingInv, ContractInv
  <1>3. FormInv(t) /\ FormInv(u) /\ ClaimInv(t) /\ ClaimInv(u)
    BY DEF RingInv, ThreadInv
  <1>4. (SyncOf(t) = "HTS" <=> r[s] = "HTS") /\ (SyncOf(u) = "HTS" <=> r[s] = "HTS")
    BY <1>1, <1>2, <1>3 DEF FormInv
  <1>5. r[s] # "HTS"
    <2> SUFFICES ASSUME r[s] = "HTS" PROVE FALSE
      OBVIOUS
    <2>1. base[t] = Pub(s) /\ base[u] = Pub(s) /\ Pub(s) < claimed[s]
      BY <1>1, <1>3, <1>4 DEF ClaimInv
    <2>2. /\ loc[t].api = "call" => End(t) = base[t] + loc[t].n /\ loc[t].n > 0
          /\ loc[t].api # "call" => End(t) = claimed[s]
          /\ loc[u].api = "call" => End(u) = base[u] + loc[u].n /\ loc[u].n > 0
          /\ loc[u].api # "call" => End(u) = claimed[s]
      BY <1>1, <1>3 DEF ClaimInv, End
    <2>3. /\ base[t] \in Nat /\ base[u] \in Nat /\ loc[t].n \in Nat /\ loc[u].n \in Nat
          /\ claimed[s] \in Nat
      BY <1>1, ClaimIs, Basics DEF RingInv, TypeFacts
    <2>4. End(t) > base[u] /\ End(u) > base[t] /\ End(t) \in Nat /\ End(u) \in Nat
      BY SMT, <2>1, <2>2, <2>3
    <2>5. End(t) <= base[u] \/ End(u) <= base[t]
      BY <1>1 DEF RingInv, DisjInv, Works
    <2> QED BY SMT, <2>3, <2>4, <2>5
  <1> QED BY <1>1, <1>2, <1>3, <1>4, <1>5 DEF FormInv

\* What a thread may claim.
LEMMA ClaimReady ==
  ASSUME RingInv, Roomy, NEW t \in Threads, pc[t] \in {"move", "cmpset"},
         MoveHead(t) \/ CmpsetStore(t)
  PROVE  /\ Claim(t) /\ loc[t].old = head[Side(t)]
         /\ r[Side(t)] = "RTS" => loc[t].oldx = hcnt[Side(t)]
         /\ SyncOf(t) = "HTS" => head[Side(t)] = tail[Side(t)]
         /\ loc[t].n \in Nat /\ loc[t].n > 0 /\ loc[t].n <= loc[t].max
         /\ claimed[Side(t)] + loc[t].n <= Lim(Side(t)) /\ claimed[Side(t)] + loc[t].n < Mod
  <1> PICK s \in Sides : s = Side(t)
    BY DEF Side, Sides
  <1>0. /\ RingTypeOK /\ PosInv /\ FormInv(t) /\ LoadInv(t) /\ loc[t].n \in Nat /\ TypeFacts
        /\ claimed[s] \in Nat
    <2>1. loc[t] \in Locals /\ TypeFacts /\ claimed[s] \in Nat
      BY Basics DEF RingInv, TypeFacts
    <2> QED BY <2>1, LocalsAre DEF RingInv, ThreadInv
  <1>1. /\ loc[t].n > 0 /\ loc[t].n <= loc[t].max /\ Num(loc[t].old) + loc[t].n <= Lim(s)
        /\ SyncOf(t) = "ST" \/ Torn(t) => loc[t].old = head[s]
        /\ SyncOf(t) = "HTS" => loc[t].oldx = loc[t].old
        /\ pc[t] = "cmpset" => loc[t].seen = loc[t].old
    BY SMT, <1>0 DEF LoadInv
  <1>2. r[s] = SyncOf(t) \/ (SyncOf(t) = "ST" /\ r[s] = "MT")
    BY <1>0 DEF FormInv
  <1>3. Claim(t) /\ loc[t].old = head[s] /\ (SyncOf(t) = "ST" \/ Torn(t) \/ HeadUnchanged(t))
    <2>1. CASE MoveHead(t)
      BY <1>1, <2>1 DEF MoveHead, HeadUnchanged
    <2>2. CASE CmpsetStore(t)
      <3>1. pc[t] = "cmpset" /\ Torn(t)
        BY <1>0, <2>2 DEF CmpsetStore, FormInv
      <3> QED BY <1>1, <2>2, <3>1 DEF CmpsetStore
    <2> QED BY <2>1, <2>2
  <1>4. /\ r[s] = "RTS" => loc[t].oldx = hcnt[s]
        /\ SyncOf(t) = "HTS" => head[s] = tail[s]
    <2>1. SyncOf(t) \in {"HTS", "RTS"} => loc[t].oldx = Companion(s)
      BY <1>3 DEF HeadUnchanged, Torn
    <2>2. (r[s] = "HTS" => Companion(s) = tail[s]) /\ (r[s] = "RTS" => Companion(s) = hcnt[s])
      BY DEF Companion
    <2> QED BY <1>1, <1>2, <1>3, <2>1, <2>2
  <1>5. claimed[s] + loc[t].n <= Lim(s)
    BY <1>0, <1>1, <1>3 DEF PosInv
  <1>6. claimed[s] + loc[t].n < Mod
    <2>1. CASE s = "prod"
      BY <2>1 DEF Roomy, Side
    <2>2. CASE s = "cons"
      <3>1. Lim(s) = Pub("prod") /\ "prod" \in Sides
        BY <2>2 DEF Lim, Sides
      <3>2. Pub("prod") < Mod /\ Pub("prod") \in Nat /\ Mod \in Nat
        BY <1>0, <3>1 DEF TypeFacts
      <3> QED BY SMTT(20), <1>0, <1>5, <3>1, <3>2
    <2> QED BY <2>1, <2>2 DEF Sides
  <1> QED BY <1>0, <1>1, <1>3, <1>4, <1>5, <1>6

LEMMA RestKeeps ==
  ASSUME RingInv, RingTypeOK', NEW u \in Threads, Rests(u),
         \A s \in Sides : Pub(s) <= Pub(s)',
         pc[u] # "idle" /\ (SyncOf(u) = "ST" \/ Torn(u)) => head'[Side(u)] = head[Side(u)],
         pc[u] \in Working =>
           /\ Pub(Side(u))' <= base[u] /\ End(u) <= claimed'[Side(u)]
           /\ SyncOf(u) \in {"ST", "HTS"} => /\ Pub(Side(u))' = Pub(Side(u))
                                             /\ claimed'[Side(u)] = claimed[Side(u)],
         pc[u] \in Working /\ u \in Producers =>
           \A j \in Nat : j < loc[u].i /\ j < loc[u].n
                            => ring'[Cell(base[u] + j)] = ring[Cell(base[u] + j)],
         pc[u] \in {"rts_head", "rts_cas"} =>
           /\ \/ tail'[Side(u)] = tail[Side(u)] /\ tcnt'[Side(u)] = tcnt[Side(u)]
              \/ Num(tcnt[Side(u)]) < Num(tcnt'[Side(u)])
           /\ claimed[Side(u)] <= claimed'[Side(u)]
           /\ \A v \in Threads : v # u /\ Works(v, Side(u))' =>
                \/ Works(v, Side(u)) /\ base'[v] = base[v]
                \/ claimed[Side(u)] <= base'[v]
  PROVE  ThreadInv(u)'
  <1>1. /\ FormInv(u) /\ LoadInv(u) /\ ClaimInv(u) /\ CopyInv(u) /\ TailInv(u) /\ RingTypeOK
    BY DEF RingInv, ThreadInv
  <1>2. FormInv(u)'
    BY <1>1, FormKeeps
  <1>3. LoadInv(u)'
    BY <1>1, LoadKeeps
  <1>4. ClaimInv(u)'
    BY <1>1, ClaimKeeps
  <1>5. CopyInv(u)'
    BY <1>1, CopyKeeps
  <1>6. TailInv(u)'
    BY <1>1, TailKeeps
  <1> QED BY <1>2, <1>3, <1>4, <1>5, <1>6 DEF ThreadInv

\* What the claim of a thread writes.
ClaimEffect(t, s, p) ==
  /\ head'[s] \in Index /\ Num(head'[s]) = claimed[s] + loc[t].n
  /\ claimed'[s] = claimed[s] + loc[t].n
  /\ r[s] = "RTS" => Num(hcnt'[s]) = Num(hcnt[s]) + 1
  /\ \A z \in Sides : z # s =>
       head'[z] = head[z] /\ claimed'[z] = claimed[z] /\ hcnt'[z] = hcnt[z]
  /\ pc'[t] = p /\ base'[t] = claimed[s] /\ loc' = loc
  /\ \A u \in Threads : u # t => Rests(u)
  /\ r' = r /\ tail' = tail /\ tcnt' = tcnt /\ ring' = ring
  /\ \A z : Pub(z)' = Pub(z)

LEMMA ClaimDoes ==
  ASSUME RingInv, Roomy, NEW t \in Threads, pc[t] \in {"move", "cmpset"},
         MoveHead(t) \/ CmpsetStore(t), NEW s \in Sides, s = Side(t),
         NEW p, p = IF PeekEnqueue(t) THEN "started" ELSE "copy"
  PROVE  RingTypeOK' /\ ClaimEffect(t, s, p)
  <1>0. /\ RingTypeOK /\ PosInv /\ Claim(t) /\ loc[t].old = head[s]
        /\ r[s] = "RTS" => loc[t].oldx = hcnt[s]
        /\ loc[t].n \in Nat /\ loc[t].n > 0 /\ claimed[s] + loc[t].n < Mod
    BY ClaimReady DEF RingInv
  <1>1. head[s] \in Index /\ hcnt[s] \in Index /\ claimed[s] \in Nat /\ Num(head[s]) = claimed[s]
        /\ Num(hcnt[s]) \in Nat /\ (r[s] = "RTS" => Num(hcnt[s]) <= claimed[s])
    <2>1. head[s] \in Index /\ hcnt[s] \in Index /\ claimed[s] \in Nat
      BY <1>0 DEF RingTypeOK
    <2>2. Num(hcnt[s]) \in Nat
      BY SMT, <2>1, NumIs DEF Index
    <2> QED BY <1>0, <2>1, <2>2 DEF PosInv
  <1> DEFINE n == loc[t].n
             h == (head[s] + n) % Mod
             c == (hcnt[s] + 1) % Mod
  <1>2. h \in Index /\ Num(h) = claimed[s] + n
    BY ZenonT(30), <1>0, <1>1, NumPlus
  <1>3. r[s] = "RTS" => c \in Index /\ Num(c) = Num(hcnt[s]) + 1
    <2> SUFFICES ASSUME r[s] = "RTS" PROVE c \in Index /\ Num(c) = Num(hcnt[s]) + 1
      OBVIOUS
    <2>1. Num(hcnt[s]) + 1 < Mod /\ 1 \in Nat
      BY SMT, <1>0, <1>1, SizeAssumption
    <2> QED BY <1>1, <2>1, NumPlus
  <1>4. /\ head' = [head EXCEPT ![s] = h]
        /\ hcnt' = IF r[s] = "RTS" THEN [hcnt EXCEPT ![s] = c] ELSE hcnt
        /\ claimed' = [claimed EXCEPT ![s] = @ + n]
        /\ base' = [base EXCEPT ![t] = claimed[s]]
        /\ pc' = [pc EXCEPT ![t] = p]
        /\ r' = r /\ tail' = tail /\ tcnt' = tcnt /\ ring' = ring /\ loc' = loc
    BY <1>0 DEF Claim
  <1>5. claimed[s] + n \in Nat /\ p \in Places
    BY SMT, <1>0, <1>1 DEF Places, Working
  <1> HIDE DEF h, c, n
  <1>6. RingTypeOK'
    BY <1>0, <1>1, <1>2, <1>3, <1>4, <1>5 DEF RingTypeOK
  <1>7. /\ head'[s] = h /\ claimed'[s] = claimed[s] + n /\ (r[s] = "RTS" => hcnt'[s] = c)
        /\ \A z \in Sides : z # s =>
             head'[z] = head[z] /\ claimed'[z] = claimed[z] /\ hcnt'[z] = hcnt[z]
    BY <1>0, <1>4 DEF RingTypeOK
  <1>8. pc'[t] = p /\ base'[t] = claimed[s] /\ \A u \in Threads : u # t => Rests(u)
    BY <1>0, <1>4 DEF RingTypeOK, Rests
  <1>9. \A z : Pub(z)' = Pub(z)
    BY <1>4 DEF Pub
  <1> QED BY <1>2, <1>3, <1>4, <1>6, <1>7, <1>8, <1>9 DEF ClaimEffect, n

LEMMA ClaimKeepsAll ==
  ASSUME RingInv, Roomy, ExchangeAtomic, NEW t \in Threads, pc[t] \in {"move", "cmpset"},
         MoveHead(t) \/ CmpsetStore(t)
  PROVE  RingInv'
  <1> PICK s \in Sides : s = Side(t)
    BY DEF Side, Sides
  <1> DEFINE p == IF PeekEnqueue(t) THEN "started" ELSE "copy"
             n == loc[t].n
  <1>0. /\ RingTypeOK /\ PosInv /\ FormInv(t) /\ LoadInv(t) /\ TypeFacts /\ loc[t].old = head[s]
        /\ SyncOf(t) = "HTS" => head[s] = tail[s]
        /\ n \in Nat /\ n > 0 /\ claimed[s] + n <= Lim(s) /\ claimed[s] + n < Mod
        /\ claimed[s] \in Nat /\ Pub(s) \in Nat /\ pc[t] # "idle" /\ pc[t] \notin Working
    <2>1. RingTypeOK /\ TypeFacts /\ claimed[s] \in Nat /\ Pub(s) \in Nat
      BY Basics DEF RingInv, TypeFacts
    <2> QED BY <2>1, ClaimReady DEF RingInv, ThreadInv, Working
  <1>1. RingTypeOK' /\ ClaimEffect(t, s, p)
    BY ClaimDoes
  <1>p. p \in {"started", "copy"} /\ p \in Working /\ (p = "started" => loc[t].api = "peek" /\ t \in Producers)
        /\ (t \in Producers /\ loc[t].api = "peek" => p = "started")
    BY DEF Working, PeekEnqueue
  <1> HIDE DEF p
  <1>2. ASSUME NEW u \in Threads, Works(u, s)
        PROVE  u # t /\ SyncOf(u) \notin {"ST", "HTS"} /\ loc[u].api = "call" /\ SyncOf(t) # "ST"
    <2>1. u # t /\ pc[u] # "idle" /\ pc[u] \in Working /\ Side(u) = s
      BY <1>0, <1>2 DEF Works, Working
    <2>2. SyncOf(u) # "ST" /\ SyncOf(t) # "ST"
      BY <1>0, <2>1 DEF RingInv, ContractInv
    <2>3. FormInv(u) /\ ClaimInv(u)
      BY DEF RingInv, ThreadInv
    <2>4. SyncOf(u) # "HTS"
      <3> SUFFICES ASSUME SyncOf(u) = "HTS" PROVE FALSE
        OBVIOUS
      <3>1. r[s] = "HTS" /\ base[u] = Pub(s) /\ base[u] < claimed[s]
        BY <2>1, <2>3 DEF FormInv, ClaimInv
      <3>2. SyncOf(t) = "HTS"
        BY <1>0, <3>1 DEF FormInv
      <3>3. Pub(s) = claimed[s]
        BY <1>0, <3>2 DEF PosInv, Pub
      <3> QED BY SMT, <1>0, <3>1, <3>3
    <2> QED BY <2>1, <2>2, <2>3, <2>4 DEF FormInv
  <1>3. SyncOf(t) \in {"ST", "HTS"} => Pub(s) = claimed[s]
    <2>1. SyncOf(t) = "HTS" => Pub(s) = claimed[s]
      BY <1>0 DEF PosInv, Pub
    <2>2. ASSUME SyncOf(t) = "ST" PROVE Pub(s) = claimed[s]
      <3>1. Pub(s) <= claimed[s]
        BY ClaimFits
      <3>2. Pub(s) < claimed[s] => \/ \E u \in Threads : Works(u, s) \/ r[s] = "RTS"
        <4>1. Pub(s) <= Pub(s)
          BY SMT, <1>0
        <4> QED BY <1>0, <4>1 DEF RingInv, CoverInv
      <3>3. r[s] # "RTS"
        BY <1>0, <2>2 DEF FormInv
      <3>4. ~(Pub(s) < claimed[s])
        BY <1>2, <2>2, <3>2, <3>3
      <3> QED BY SMT, <1>0, <3>1, <3>4
    <2> QED BY <2>1, <2>2
  <1>4. /\ \A u \in Threads, z \in Sides : u # t => (Works(u, z)' <=> Works(u, z))
        /\ \A z \in Sides : Works(t, z)' <=> z = s
        /\ ~Works(t, s)
    <2>1. \A u \in Threads : u # t => pc'[u] = pc[u]
      BY <1>1 DEF ClaimEffect, Rests
    <2> QED BY <1>0, <1>1, <1>p, <2>1 DEF ClaimEffect, Works, Side
  <1>5. \A u \in Threads, z \in Sides : Works(u, z) => u # t /\ End(u)' = End(u) /\ base'[u] = base[u]
    <2> SUFFICES ASSUME NEW u \in Threads, NEW z \in Sides, Works(u, z)
                 PROVE  u # t /\ End(u)' = End(u) /\ base'[u] = base[u]
      OBVIOUS
    <2>1. u # t /\ Side(u) = z
      BY <1>0, <1>4 DEF Works
    <2>2. Rests(u)
      BY <1>1, <2>1 DEF ClaimEffect
    <2>3. loc[u].api # "call" => claimed'[z] = claimed[z]
      BY <1>1, <1>2 DEF ClaimEffect
    <2> QED BY <2>1, <2>2, <2>3, EndKeeps DEF Rests
  <1>6. End(t)' = claimed[s] + n /\ base'[t] = claimed[s] /\ claimed'[s] = claimed[s] + n
    BY <1>1 DEF ClaimEffect, End, Side
  <1>7. PosInv'
    <2>1. \A z \in Sides : /\ Num(head'[z]) = claimed'[z]
                           /\ r'[z] = "RTS" => Num(hcnt'[z]) <= claimed'[z]
      <3>1. Num(head'[s]) = claimed'[s] /\ (r'[s] = "RTS" => Num(hcnt'[s]) <= claimed'[s])
        <4>1. hcnt[s] \in Index /\ Num(hcnt[s]) \in Nat
          <5>1. hcnt[s] \in Index
            BY <1>0 DEF RingTypeOK
          <5> QED BY SMT, <5>1, NumIs DEF Index
        <4>2. r[s] = "RTS" => Num(hcnt[s]) <= claimed[s] /\ Num(hcnt'[s]) = Num(hcnt[s]) + 1
          BY <1>0, <1>1 DEF PosInv, ClaimEffect
        <4>3. r[s] = "RTS" => Num(hcnt'[s]) <= claimed[s] + n
          BY SMT, <1>0, <4>1, <4>2
        <4> QED BY <1>1, <1>6, <4>3 DEF ClaimEffect
      <3>2. \A z \in Sides : z # s => head'[z] = head[z] /\ claimed'[z] = claimed[z]
                                      /\ hcnt'[z] = hcnt[z] /\ r' = r
        BY <1>1 DEF ClaimEffect
      <3> QED BY <1>0, <3>1, <3>2 DEF PosInv
    <2>2. \A z \in Sides : claimed[z] <= claimed'[z] /\ claimed'[z] <= Lim(z)
      <3>1. claimed[s] <= claimed[s] + n
        BY SMT, <1>0
      <3>2. ASSUME NEW z \in Sides, z # s PROVE claimed[z] <= claimed'[z] /\ claimed'[z] <= Lim(z)
        <4>1. claimed'[z] = claimed[z] /\ claimed[z] \in Nat
          BY <1>0, <1>1, <3>2 DEF ClaimEffect, TypeFacts
        <4>2. claimed[z] <= Lim(z)
          BY SMTT(20), <1>0 DEF PosInv, Lim, Sides
        <4> QED BY SMT, <4>1, <4>2
      <3> QED BY <1>0, <1>6, <3>1, <3>2
    <2>3. Pub("cons") <= claimed'["cons"] /\ Pub("prod") <= claimed'["prod"]
      <3>1. \A z \in Sides : claimed[z] \in Nat /\ Pub(z) \in Nat /\ claimed'[z] \in Nat
        BY <1>0, <1>1, BasicsNext DEF TypeFacts
      <3> QED BY SMT, <1>0, <2>2, <3>1 DEF PosInv, Sides
    <2>4. Lim("cons") = Pub("prod") /\ Lim("prod") = r.capacity + Pub("cons")
      BY DEF Lim
    <2>5. "prod" \in Sides /\ "cons" \in Sides /\ r' = r /\ (\A z : Pub(z)' = Pub(z))
      BY <1>1 DEF Sides, ClaimEffect
    <2> QED BY <2>1, <2>2, <2>3, <2>4, <2>5 DEF PosInv
  <1>8. ContractInv'
    <2>1. SyncOf(t)' = SyncOf(t) /\ r' = r /\ \A u \in Threads : u # t => Rests(u)
      BY <1>1 DEF ClaimEffect, SyncOf
    <2> QED BY <1>0, <2>1, ContractKeeps DEF RingInv
  <1>9. DisjInv'
    <2> SUFFICES ASSUME NEW v \in Threads, NEW u \in Threads, v # u,
                        Works(v, Side(u))', Works(u, Side(u))'
                 PROVE  (End(v) <= base[u] \/ End(u) <= base[v])'
      BY DEF DisjInv
    <2> PICK z \in Sides : z = Side(u) /\ Side(u)' = z
      BY DEF Side, Sides
    <2>1. Works(v, z)' /\ Works(u, z)'
      BY DEF Works
    <2>2. ASSUME NEW w \in Threads, w # t, Works(w, s)' PROVE End(w)' <= base'[t]
      <3>1. Works(w, s) /\ pc[w] \in Working /\ Side(w) = s
        BY <1>4, <2>2 DEF Works
      <3>2. End(w) <= claimed[s]
        BY <3>1, ClaimIs
      <3> QED BY <1>5, <1>6, <3>1, <3>2
    <2>3. CASE v = t
      BY <1>4, <2>1, <2>2, <2>3
    <2>4. CASE u = t
      BY <1>4, <2>1, <2>2, <2>4
    <2>5. CASE v # t /\ u # t
      <3>1. Works(v, z) /\ Works(u, z)
        BY <1>4, <2>1, <2>5
      <3>2. End(v) <= base[u] \/ End(u) <= base[v]
        BY <3>1 DEF RingInv, DisjInv
      <3> QED BY <1>5, <3>1, <3>2
    <2> QED BY <2>3, <2>4, <2>5
  <1>10. CoverInv'
    <2>1. r' = r /\ ring' = ring /\ (\A z : Pub(z)' = Pub(z))
          /\ \A z \in Sides : z # s => claimed'[z] = claimed[z]
      BY <1>1 DEF ClaimEffect
    <2> SUFFICES ASSUME NEW z \in Sides, NEW m \in Nat, Pub(z) <= m, m < claimed'[z]
                 PROVE  \/ \E u \in Threads : Works(u, z)' /\ base'[u] <= m /\ m < End(u)'
                        \/ r[z] = "RTS" /\ (z = "prod" => ring[Cell(m)] = m)
      BY <2>1 DEF CoverInv, Cell
    <2>2. CASE m < claimed[z]
      <3>1. \/ \E u \in Threads : Works(u, z) /\ base[u] <= m /\ m < End(u)
            \/ r[z] = "RTS" /\ (z = "prod" => ring[Cell(m)] = m)
        BY <2>2 DEF RingInv, CoverInv
      <3> QED BY <1>4, <1>5, <3>1
    <2>3. CASE ~(m < claimed[z])
      <3>1. z = s
        BY <2>1, <2>3
      <3>2. claimed[s] <= m
        BY SMT, <1>0, <2>3, <3>1
      <3> QED BY <1>4, <1>6, <3>1, <3>2
    <2> QED BY <2>2, <2>3
  <1>11. HeldInv'
    <2>1. ring' = ring /\ \A z : Pub(z)' = Pub(z)
      BY <1>1 DEF ClaimEffect
    <2> QED BY <2>1 DEF RingInv, HeldInv, Cell
  <1>12. ThreadInv(t)'
    <2>1. /\ pc'[t] = p /\ loc' = loc /\ r' = r /\ Side(t)' = s /\ Pub(Side(t))' = Pub(s)
          /\ p \notin {"idle", "load", "wait", "avail", "move", "cmpset", "publish", "update",
                       "rts_tail", "rts_head", "rts_cas"}
      <3>1. Pub(Side(t))' = Pub(s)'
        BY DEF Side
      <3>2. Pub(s)' = Pub(s)
        BY <1>1 DEF ClaimEffect
      <3> QED BY <1>1, <1>p, <3>1, <3>2 DEF ClaimEffect, Side
    <2>2. FormInv(t)'
      BY <1>0, <1>p, <2>1 DEF FormInv, SyncOf
    <2>3. LoadInv(t)' /\ TailInv(t)'
      BY <2>1 DEF LoadInv, TailInv
    <2>4. ClaimInv(t)'
      <3>1. Num(loc[t].old) = claimed[s] /\ Pub(s) <= claimed[s]
        BY <1>0, ClaimFits DEF PosInv
      <3>2. claimed[s] + n <= claimed[s] + n /\ claimed[s] < claimed[s] + n
        BY SMT, <1>0
      <3> QED BY <1>0, <1>3, <1>6, <2>1, <3>1, <3>2 DEF ClaimInv, SyncOf
    <2>5. CopyInv(t)'
      <3>1. loc[t].i = 0
        BY <1>0 DEF LoadInv
      <3>2. 0 < n /\ ~(0 > 0) /\ \A j \in Nat : ~(j < 0)
        BY SMT, <1>0
      <3> QED BY <1>0, <1>p, <2>1, <3>1, <3>2 DEF CopyInv
    <2> QED BY <2>2, <2>3, <2>4, <2>5 DEF ThreadInv
  <1>13. ASSUME NEW u \in Threads, u # t PROVE ThreadInv(u)'
    <2>0. PICK z \in Sides : z = Side(u)
      BY DEF Side, Sides
    <2>1. Rests(u) /\ ring' = ring /\ tail' = tail /\ tcnt' = tcnt
          /\ (\A y : Pub(y)' = Pub(y)) /\ Pub(Side(u))' = Pub(z)
      <3>1. Pub(Side(u))' = Pub(z)'
        BY <2>0 DEF Side
      <3> QED BY <1>1, <1>13, <3>1 DEF ClaimEffect
    <2>2. \A y \in Sides : Pub(y) <= Pub(y)'
      BY SMT, <1>0, <2>1 DEF TypeFacts
    <2>3. pc[u] # "idle" /\ (SyncOf(u) = "ST" \/ Torn(u)) => head'[z] = head[z]
      <3>1. z # s => head'[z] = head[z]
        BY <1>1 DEF ClaimEffect
      <3>2. z = s /\ pc[u] # "idle" => ~r.solo /\ SyncOf(u) # "ST"
        BY <1>0, <1>13, <2>0 DEF RingInv, ContractInv
      <3>3. pc[u] # "idle" /\ Torn(u) => r.solo
        <4>1. pc[u] # "idle" /\ SyncOf(u) = "MT" => r[z] = "MT"
          BY <2>0 DEF FormInv, RingInv, ThreadInv
        <4> QED BY <1>0, <4>1 DEF Torn, ExchangeAtomic, RingTypeOK
      <3> QED BY <3>1, <3>2, <3>3
    <2>4. ASSUME pc[u] \in Working
          PROVE  /\ Pub(z) <= base[u] /\ End(u) <= claimed'[z]
                 /\ SyncOf(u) \in {"ST", "HTS"} => claimed'[z] = claimed[z]
      <3>1. Works(u, z)
        BY <2>0, <2>4 DEF Works
      <3>2. Pub(z) <= base[u] /\ End(u) <= claimed[z] /\ End(u) \in Nat
        BY <2>0, <2>4, ClaimIs
      <3>3. z = s \/ claimed'[z] = claimed[z]
        BY <1>1 DEF ClaimEffect
      <3>4. End(u) <= claimed[s] => End(u) <= claimed[s] + n
        BY SMT, <1>0, <3>2
      <3> QED BY <1>2, <1>6, <3>1, <3>2, <3>3, <3>4
    <2>5. /\ claimed[z] <= claimed'[z]
          /\ \A v \in Threads : v # u /\ Works(v, Side(u))' =>
               (Works(v, z) /\ base'[v] = base[v]) \/ claimed[z] <= base'[v]
      <3>1. claimed[z] <= claimed'[z] /\ claimed[s] <= claimed[s]
        <4>1. claimed[z] \in Nat /\ (z = s \/ claimed'[z] = claimed[z])
          BY <1>0, <1>1 DEF ClaimEffect, TypeFacts
        <4> QED BY SMT, <1>0, <1>6, <4>1
      <3>2. ASSUME NEW v \in Threads, Works(v, Side(u))'
            PROVE  (Works(v, z) /\ base'[v] = base[v]) \/ claimed[z] <= base'[v]
        <4>1. Works(v, z)'
          BY <2>0, <3>2 DEF Works, Side
        <4> QED BY <1>4, <1>5, <1>6, <3>1, <4>1
      <3> QED BY <3>1, <3>2
    <2> QED BY <1>1, <2>0, <2>1, <2>2, <2>3, <2>4, <2>5, RestKeeps
  <1> QED BY <1>1, <1>7, <1>8, <1>9, <1>10, <1>11, <1>12, <1>13 DEF RingInv

-----------------------------------------------------------------------------
(***************************************************************************)
(* Copying, and leaving with the claim published or given back.            *)
(***************************************************************************)
\* Writing one object leaves the slots of all the others in reach.
LEMMA ElemWritten ==
  ASSUME RingInv, NEW t \in Threads, EnqueueElem(t), NEW x, x = base[t] + loc[t].i
  PROVE  /\ x \in Nat /\ Pub("prod") <= x /\ x < claimed["prod"]
         /\ ring'[Cell(x)] = x
         /\ \A m \in Nat : m # x /\ Pub("cons") <= m /\ m < claimed["prod"]
                             => ring'[Cell(m)] = ring[Cell(m)]
  <1>0. pc[t] = "copy" /\ t \in Producers /\ pc[t] \in Working /\ Side(t) = "prod"
        /\ "prod" \in Sides /\ "cons" \in Sides
    BY DEF EnqueueElem, Working, Side, Sides
  <1>1. SlotOf(t) = Cell(x) /\ loc[t].i < loc[t].n
    BY <1>0, SlotOfIs
  <1>2. /\ loc[t].i \in Nat /\ loc[t].n \in Nat /\ base[t] \in Nat
        /\ Pub("prod") <= base[t] /\ base[t] + loc[t].n <= End(t) /\ End(t) <= claimed["prod"]
        /\ End(t) \in Nat
    BY <1>0, ClaimIs
  <1>3. /\ Pub("prod") \in Nat /\ Pub("cons") \in Nat /\ claimed["prod"] \in Nat
        /\ r.capacity \in Nat /\ r.capacity < Size /\ Size \in Nat
    BY <1>0, Basics DEF RingInv, TypeFacts
  <1>4. x \in Nat /\ Pub("prod") <= x /\ x < claimed["prod"]
    BY SMT, <1>1, <1>2, <1>3
  <1>5. Pub("cons") <= Pub("prod") /\ claimed["prod"] <= r.capacity + Pub("cons")
    <2>1. claimed["cons"] \in Nat /\ PosInv
      BY <1>0, Basics DEF RingInv, TypeFacts
    <2> QED BY SMT, <1>3, <2>1 DEF PosInv
  <1>6. ring' = [ring EXCEPT ![Cell(x)] = x] /\ ring \in [0..(Size - 1) -> Int]
    BY <1>1 DEF EnqueueElem, RingInv, RingTypeOK
  <1>7. Cell(x) \in 0..(Size - 1)
    BY <1>4, CellIs
  <1>8. ASSUME NEW m \in Nat, m # x, Pub("cons") <= m, m < claimed["prod"]
        PROVE  ring'[Cell(m)] = ring[Cell(m)]
    <2>1. m - x < Size /\ x - m < Size
      BY SMT, <1>3, <1>4, <1>5, <1>8
    <2>2. Cell(m) # Cell(x)
      BY <1>4, <1>8, <2>1, CellOne
    <2>3. Cell(m) \in 0..(Size - 1)
      BY CellIs
    <2> QED BY <1>6, <2>2, <2>3
  <1> QED BY <1>4, <1>6, <1>7, <1>8

LEMMA EnqueueElemKeeps ==
  ASSUME RingInv, NEW t \in Threads, EnqueueElem(t) PROVE RingInv'
  <1> DEFINE x == base[t] + loc[t].i
             s == "prod"
             p == IF loc[t].i + 1 < loc[t].n THEN "copy" ELSE AfterCopy(t)
             l == [loc[t] EXCEPT !.i = @ + 1]
  <1>0. /\ RingTypeOK /\ FormInv(t) /\ ClaimInv(t) /\ CopyInv(t) /\ TypeFacts /\ pc[t] = "copy"
        /\ pc[t] \in Working /\ t \in Producers /\ Side(t) = s /\ s \in Sides /\ "cons" \in Sides
    BY Basics DEF RingInv, ThreadInv, EnqueueElem, Working, Side, Sides
  <1>1. /\ x \in Nat /\ Pub(s) <= x /\ x < claimed[s] /\ ring'[Cell(x)] = x
        /\ \A m \in Nat : m # x /\ Pub("cons") <= m /\ m < claimed[s]
                             => ring'[Cell(m)] = ring[Cell(m)]
    BY ElemWritten
  <1>2. /\ loc[t] \in Locals /\ loc[t].i \in Nat /\ loc[t].n \in Nat /\ base[t] \in Nat
        /\ loc[t].i < loc[t].n
    BY <1>0, ClaimIs, SlotOfIs
  <1>3. /\ p \in Working \ {"rts_head", "rts_cas"} /\ p # "idle"
        /\ p = "started" => loc[t].api # "call" /\ ~PeekEnqueue(t)
        /\ p = "publish" => loc[t].api # "call"
        /\ p = "rts_tail" => SyncOf(t) = "RTS"
        /\ p = "update" => SyncOf(t) # "RTS" /\ loc[t].api = "call"
        /\ p = "copy" => loc[t].i + 1 < loc[t].n
        /\ p # "copy" => loc[t].i + 1 = loc[t].n
    BY <1>0, AfterCopyIs
  <1>4. /\ pc' = [pc EXCEPT ![t] = p] /\ loc' = [loc EXCEPT ![t] = l]
        /\ ring' = [ring EXCEPT ![SlotOf(t)] = x]
        /\ r' = r /\ head' = head /\ tail' = tail /\ hcnt' = hcnt /\ tcnt' = tcnt
        /\ claimed' = claimed /\ base' = base
    BY <1>0 DEF EnqueueElem, Copied, RingTypeOK
  <1>5. l \in Locals
    <2>1. loc[t].i + 1 \in Nat
      BY SMT, <1>2
    <2> QED BY <1>2, <2>1 DEF Locals
  <1>6. /\ l.sync = loc[t].sync /\ l.api = loc[t].api /\ l.max = loc[t].max /\ l.n = loc[t].n
        /\ l.old = loc[t].old /\ l.i = loc[t].i + 1
    BY SMT, <1>2 DEF Locals
  <1> HIDE DEF p, l, x, s
  <1>7. RingTypeOK'
    <2>1. p \in Places /\ x \in Int
      BY SMT, <1>1, <1>3 DEF Places
    <2> QED BY <1>0, <1>4, <1>5, <2>1 DEF RingTypeOK
  <1>8. pc'[t] = p /\ loc'[t] = l /\ (\A u \in Threads : u # t => Rests(u))
        /\ \A z : Pub(z)' = Pub(z)
    BY <1>0, <1>4 DEF RingTypeOK, Rests, Pub
  <1>9. \A u \in Threads, z \in Sides :
          /\ Works(u, z)' <=> Works(u, z)
          /\ End(u)' = End(u)
    <2> SUFFICES ASSUME NEW u \in Threads, NEW z \in Sides
                 PROVE  (Works(u, z)' <=> Works(u, z)) /\ End(u)' = End(u)
      OBVIOUS
    <2>1. (pc'[u] \in Working <=> pc[u] \in Working) /\ loc'[u].api = loc[u].api
          /\ loc'[u].n = loc[u].n
      BY <1>0, <1>3, <1>6, <1>8 DEF Rests
    <2>2. Works(u, z)' <=> Works(u, z)
      BY <2>1 DEF Works, Side
    <2>3. End(u)' = End(u)
      <3>1. claimed' = claimed /\ base' = base /\ Side(u)' = Side(u)
        BY <1>4 DEF Side
      <3> QED BY <2>1, <3>1 DEF End
    <2> QED BY <2>2, <2>3
  <1>10. PosInv'
    BY <1>4, <1>8 DEF RingInv, PosInv
  <1>11. ContractInv'
    <2>1. SyncOf(t)' = SyncOf(t) /\ pc[t] # "idle"
      BY <1>0, <1>6, <1>8 DEF SyncOf
    <2> QED BY <1>4, <1>8, <2>1, ContractKeeps DEF RingInv
  <1>12. DisjInv'
    <2> SUFFICES ASSUME NEW v \in Threads, NEW u \in Threads, v # u,
                        Works(v, Side(u))', Works(u, Side(u))'
                 PROVE  (End(v) <= base[u] \/ End(u) <= base[v])'
      BY DEF DisjInv
    <2> PICK z \in Sides : z = Side(u) /\ Side(u)' = z
      BY DEF Side, Sides
    <2>0. Works(v, z)' /\ Works(u, z)'
      BY DEF Works
    <2>1. Works(v, z) /\ Works(u, z)
      BY <1>9, <2>0
    <2> QED BY <1>4, <1>9, <2>1 DEF RingInv, DisjInv
  <1>13. \A m \in Nat : Pub("cons") <= m /\ m < claimed[s] /\ ring[Cell(m)] = m
                           => ring'[Cell(m)] = m
    BY <1>1
  <1>14. /\ Pub("cons") \in Nat /\ Pub(s) \in Nat /\ claimed[s] \in Nat
         /\ Pub("cons") <= Pub(s) /\ Pub(s) <= claimed[s]
    <2>1. Pub("cons") \in Nat /\ Pub(s) \in Nat /\ claimed[s] \in Nat /\ claimed["cons"] \in Nat
      BY <1>0 DEF TypeFacts
    <2>2. Pub("cons") <= claimed["cons"] /\ claimed["cons"] <= Pub(s) /\ Pub(s) <= claimed[s]
      BY DEF RingInv, PosInv, s
    <2> QED BY SMT, <2>1, <2>2
  <1>15. CoverInv'
    <2> SUFFICES ASSUME NEW z \in Sides, NEW m \in Nat, Pub(z) <= m, m < claimed[z]
                 PROVE  \/ \E u \in Threads : Works(u, z)' /\ base[u] <= m /\ m < End(u)'
                        \/ r[z] = "RTS" /\ (z = "prod" => ring'[Cell(m)] = m)
      BY <1>4, <1>8 DEF CoverInv, Cell
    <2>1. \/ \E u \in Threads : Works(u, z) /\ base[u] <= m /\ m < End(u)
          \/ r[z] = "RTS" /\ (z = "prod" => ring[Cell(m)] = m)
      BY DEF RingInv, CoverInv
    <2>2. z = s => Pub("cons") <= m
      BY SMT, <1>14
    <2> QED BY <1>9, <1>13, <2>1, <2>2 DEF s
  <1>16. HeldInv'
    <2> SUFFICES ASSUME NEW m \in Nat, Pub("cons") <= m, m < Pub(s) PROVE ring'[Cell(m)] = m
      BY <1>8 DEF HeldInv, Cell, s
    <2>1. m < claimed[s]
      BY SMT, <1>14
    <2> QED BY <1>13, <2>1 DEF RingInv, HeldInv, s
  <1>17. ThreadInv(t)'
    <2>1. Side(t)' = s /\ Pub(Side(t))' = Pub(s) /\ pc'[t] \notin {"load", "wait", "avail", "move", "cmpset"}
      <3>1. Pub(Side(t))' = Pub(s)'
        BY <1>0 DEF Side
      <3> QED BY <1>0, <1>3, <1>8, <3>1 DEF Side, Working
    <2>2. FormInv(t)'
      BY <1>0, <1>3, <1>4, <1>6, <1>8, <2>1 DEF FormInv, SyncOf
    <2>3. LoadInv(t)' /\ TailInv(t)'
      BY <1>3, <1>8, <2>1 DEF LoadInv, TailInv
    <2>4. ClaimInv(t)'
      BY <1>0, <1>3, <1>4, <1>6, <1>8, <1>9, <2>1 DEF ClaimInv, SyncOf
    <2>5. CopyInv(t)'
      <3>1. p = "copy" => l.i < l.n
        BY <1>3, <1>6
      <3>2. p = "started" => l.i = IF l.api = "peek" THEN 0 ELSE l.n
        BY <1>0, <1>3, <1>6 DEF PeekEnqueue
      <3>3. p \in Working \ {"copy", "started"} => l.n <= l.i
        <4>1. loc[t].i + 1 = loc[t].n => loc[t].n <= loc[t].i + 1
          BY SMT, <1>2
        <4> QED BY <1>3, <1>6, <4>1
      <3>4. ASSUME NEW j \in Nat, j < l.i, j < l.n PROVE ring'[Cell(base[t] + j)] = base[t] + j
        <4>1. CASE j = loc[t].i
          BY <1>1, <4>1 DEF x
        <4>2. CASE j # loc[t].i
          <5> DEFINE m == base[t] + j
          <5>0. Pub(s) <= base[t]
            BY <1>0, ClaimIs
          <5>1. j < loc[t].i /\ j < loc[t].n /\ m \in Nat /\ m < claimed[s] /\ Pub("cons") <= m
            BY SMTT(20), <1>1, <1>2, <1>6, <1>14, <3>4, <4>2, <5>0 DEF x
          <5>2. ring[Cell(m)] = m
            BY <1>0, <5>1 DEF CopyInv
          <5> QED BY <1>13, <5>1, <5>2
        <4> QED BY <4>1, <4>2
      <3>5. t \notin Consumers
        BY <1>0, ThreadsAssumption
      <3> QED BY <1>4, <1>8, <3>1, <3>2, <3>3, <3>4, <3>5 DEF CopyInv, Cell
    <2> QED BY <2>2, <2>3, <2>4, <2>5 DEF ThreadInv
  <1>18. ASSUME NEW u \in Threads, u # t PROVE ThreadInv(u)'
    <2>0. PICK z \in Sides : z = Side(u)
      BY DEF Side, Sides
    <2>1. Rests(u) /\ Pub(Side(u))' = Pub(z)
      <3>1. Pub(Side(u))' = Pub(z)'
        BY <2>0 DEF Side
      <3> QED BY <1>8, <1>18, <3>1
    <2>2. \A y \in Sides : Pub(y) <= Pub(y)'
      BY SMT, <1>0, <1>8 DEF TypeFacts
    <2>3. pc[u] \in Working => Pub(z) <= base[u] /\ End(u) <= claimed[z]
      BY <2>0, ClaimIs
    <2>4. ASSUME pc[u] \in Working, u \in Producers, NEW j \in Nat, j < loc[u].i, j < loc[u].n
          PROVE  ring'[Cell(base[u] + j)] = ring[Cell(base[u] + j)]
      <3> DEFINE m == base[u] + j
      <3>1. ring[Cell(m)] = m
        BY <2>4 DEF RingInv, ThreadInv, CopyInv
      <3>2. /\ z = s /\ loc[u].n \in Nat /\ base[u] \in Nat /\ Pub(s) <= base[u]
            /\ base[u] + loc[u].n <= End(u) /\ End(u) <= claimed[s] /\ End(u) \in Nat
        <4>1. z = s
          BY <2>0, <2>4 DEF Side, s
        <4> QED BY <2>0, <2>4, <4>1, ClaimIs
      <3>3. m \in Nat /\ Pub("cons") <= m /\ m < claimed[s]
        BY SMT, <1>14, <2>4, <3>2
      <3> QED BY <1>13, <3>1, <3>3
    <2>5. /\ claimed[z] <= claimed[z]
          /\ \A v \in Threads : Works(v, Side(u))' => Works(v, z)
      <3>1. claimed[z] <= claimed[z]
        BY SMT, <1>0 DEF TypeFacts
      <3>2. ASSUME NEW v \in Threads, Works(v, Side(u))' PROVE Works(v, z)
        <4>1. Works(v, z)'
          BY <2>0, <3>2 DEF Works, Side
        <4> QED BY <1>9, <4>1
      <3> QED BY <3>1, <3>2
    <2> QED BY <1>4, <1>7, <2>0, <2>1, <2>2, <2>3, <2>4, <2>5, RestKeeps
  <1> QED BY <1>7, <1>10, <1>11, <1>12, <1>15, <1>16, <1>17, <1>18 DEF RingInv

\* The thread returns and has moved the tail of its side.
Leaves(t, s) ==
  /\ pc'[t] = "idle" /\ r' = r /\ ring' = ring /\ hcnt' = hcnt
  /\ \A u \in Threads : u # t => Rests(u)
  /\ \A z \in Sides : z # s => /\ head'[z] = head[z] /\ tail'[z] = tail[z]
                               /\ tcnt'[z] = tcnt[z] /\ claimed'[z] = claimed[z]

LEMMA LeaveKeeps ==
  ASSUME RingInv, RingTypeOK', NEW t \in Threads, NEW s \in Sides, Works(t, s), Leaves(t, s),
         (claimed'[s] = claimed[s] /\ head'[s] = head[s]) \/ SyncOf(t) = "HTS",
         Num(head'[s]) = claimed'[s], claimed'[s] <= claimed[s],
         Pub(s) <= Pub(s)', Pub(s)' <= claimed'[s],
         \A u \in Threads : u # t /\ Works(u, s) => Pub(s)' <= base[u],
         \A m \in Nat : Pub(s)' <= m /\ m < claimed'[s] /\ base[t] <= m /\ m < End(t) =>
           r[s] = "RTS" /\ (s = "prod" => ring[Cell(m)] = m),
         \A m \in Nat : s = "prod" /\ Pub(s) <= m /\ m < Pub(s)' => ring[Cell(m)] = m,
         r[s] = "RTS" => Num(tcnt[s]) < Num(tcnt'[s])
  PROVE  RingInv'
  <1>0. /\ RingTypeOK /\ PosInv /\ TypeFacts /\ TypeFacts' /\ Side(t) = s /\ pc[t] \in Working
        /\ pc[t] # "idle" /\ FormInv(t)
    BY Basics, BasicsNext DEF RingInv, Works, Working, ThreadInv
  <1>1. r[s] = "RTS" => SyncOf(t) # "HTS"
    BY <1>0 DEF FormInv
  <1>2. /\ r' = r /\ ring' = ring /\ hcnt' = hcnt /\ (\A u \in Threads : u # t => Rests(u))
        /\ \A z \in Sides : z # s =>
             head'[z] = head[z] /\ tail'[z] = tail[z] /\ tcnt'[z] = tcnt[z]
             /\ claimed'[z] = claimed[z] /\ Pub(z)' = Pub(z)
    BY DEF Leaves, Pub
  <1>3. \A u \in Threads, z \in Sides : Works(u, z)' <=> u # t /\ Works(u, z)
    <2>1. pc'[t] \notin Working /\ \A u \in Threads : u # t => pc'[u] = pc[u]
      BY <1>2 DEF Leaves, Working, Rests
    <2> QED BY <2>1 DEF Works, Side
  <1>4. ASSUME NEW u \in Threads, u # t, Works(u, s)
        PROVE  /\ loc[u].api = "call" /\ SyncOf(u) \notin {"ST", "HTS"}
               /\ claimed'[s] = claimed[s]
    BY <1>4, SideAlone
  <1>5. ASSUME NEW u \in Threads, NEW z \in Sides, u # t, Works(u, z)
        PROVE  End(u)' = End(u) /\ base'[u] = base[u]
    <2>1. Rests(u) /\ Side(u) = z
      BY <1>2, <1>5 DEF Works
    <2>2. loc[u].api # "call" => claimed'[z] = claimed[z]
      BY <1>2, <1>4, <1>5
    <2> QED BY <2>1, <2>2, EndKeeps DEF Rests
  <1>6. PosInv'
    <2>1. ASSUME NEW z \in Sides
          PROVE  /\ Num(head'[z]) = claimed'[z] /\ (r'[z] = "RTS" => Num(hcnt'[z]) <= claimed'[z])
                 /\ claimed'[z] <= claimed[z] /\ Pub(z) <= Pub(z)' /\ Pub(z)' <= claimed'[z]
      <3>1. CASE z = s
        BY <1>0, <1>1, <1>2, <3>1 DEF PosInv
      <3>2. CASE z # s
        <4>1. Num(head'[z]) = claimed'[z] /\ (r'[z] = "RTS" => Num(hcnt'[z]) <= claimed'[z])
          BY <1>0, <1>2, <3>2 DEF PosInv
        <4>2. claimed'[z] = claimed[z] /\ Pub(z)' = Pub(z) /\ Pub(z) <= claimed[z]
          BY <1>2, <3>2, ClaimFits
        <4>3. claimed[z] <= claimed[z] /\ Pub(z) <= Pub(z)
          BY SMT, <1>0 DEF TypeFacts
        <4> QED BY <4>1, <4>2, <4>3
      <3> QED BY <3>1, <3>2
    <2>2. "prod" \in Sides /\ "cons" \in Sides
      BY DEF Sides
    <2>3. \A z \in Sides : /\ claimed[z] \in Nat /\ claimed'[z] \in Nat
                           /\ Pub(z) \in Nat /\ Pub(z)' \in Nat /\ r.capacity \in Nat
      BY <1>0 DEF TypeFacts
    <2>4. claimed'["cons"] <= Pub("prod")' /\ claimed'["prod"] <= r.capacity + Pub("cons")'
      BY SMT, <1>0, <2>1, <2>2, <2>3 DEF PosInv
    <2> QED BY <1>2, <2>1, <2>2, <2>4 DEF PosInv
  <1>7. ContractInv'
    BY <1>2, ContractKeeps DEF RingInv, Leaves
  <1>8. DisjInv'
    <2> SUFFICES ASSUME NEW v \in Threads, NEW u \in Threads, v # u,
                        Works(v, Side(u))', Works(u, Side(u))'
                 PROVE  (End(v) <= base[u] \/ End(u) <= base[v])'
      BY DEF DisjInv
    <2> PICK z \in Sides : z = Side(u) /\ Side(u)' = z
      BY DEF Side, Sides
    <2>0. Works(v, z)' /\ Works(u, z)'
      BY DEF Works
    <2>1. Works(v, z) /\ Works(u, z) /\ v # t /\ u # t
      BY <1>3, <2>0
    <2>2. End(v) <= base[u] \/ End(u) <= base[v]
      BY <2>1 DEF RingInv, DisjInv
    <2> QED BY <1>5, <2>1, <2>2
  <1>9. CoverInv'
    <2> SUFFICES ASSUME NEW z \in Sides, NEW m \in Nat, Pub(z)' <= m, m < claimed'[z]
                 PROVE  \/ \E u \in Threads : Works(u, z)' /\ base'[u] <= m /\ m < End(u)'
                        \/ r[z] = "RTS" /\ (z = "prod" => ring[Cell(m)] = m)
      BY <1>2 DEF CoverInv, Cell
    <2>1. Pub(z) <= m /\ m < claimed[z]
      <3>1. Pub(z) \in Nat /\ Pub(z)' \in Nat /\ claimed[z] \in Nat /\ claimed'[z] \in Nat
        BY <1>0 DEF TypeFacts
      <3> QED BY SMT, <1>2, <3>1
    <2>2. \/ \E u \in Threads : Works(u, z) /\ base[u] <= m /\ m < End(u)
          \/ r[z] = "RTS" /\ (z = "prod" => ring[Cell(m)] = m)
      BY <2>1 DEF RingInv, CoverInv
    <2>3. ASSUME NEW u \in Threads, Works(u, z), base[u] <= m, m < End(u)
          PROVE  \/ \E v \in Threads : Works(v, z)' /\ base'[v] <= m /\ m < End(v)'
                 \/ r[z] = "RTS" /\ (z = "prod" => ring[Cell(m)] = m)
      <3>1. CASE u = t
        BY <1>0, <2>3, <3>1 DEF Works
      <3>2. CASE u # t
        BY <1>3, <1>5, <2>3, <3>2
      <3> QED BY <3>1, <3>2
    <2> QED BY <2>2, <2>3
  <1>10. HeldInv'
    <2> SUFFICES ASSUME NEW m \in Nat, Pub("cons")' <= m, m < Pub("prod")' PROVE ring[Cell(m)] = m
      BY <1>2 DEF HeldInv, Cell
    <2>1. "prod" \in Sides /\ "cons" \in Sides
      BY DEF Sides
    <2>2. \A z \in Sides : Pub(z) \in Nat /\ Pub(z)' \in Nat
      BY <1>0 DEF TypeFacts
    <2>3. Pub("cons") <= m
      BY SMT, <1>2, <2>1, <2>2
    <2>4. CASE m < Pub("prod")
      BY <2>3, <2>4 DEF RingInv, HeldInv
    <2>5. CASE ~(m < Pub("prod"))
      <3>1. Pub("prod") <= m /\ Pub("prod")' # Pub("prod")
        BY SMTT(20), <2>1, <2>2, <2>5
      <3>2. s = "prod"
        BY <1>2, <2>1, <3>1
      <3> QED BY <3>1, <3>2
    <2> QED BY <2>4, <2>5
  <1>11. ThreadInv(t)'
    BY DEF ThreadInv, Leaves, FormInv, LoadInv, ClaimInv, CopyInv, TailInv, Working
  <1>12. ASSUME NEW u \in Threads, u # t PROVE ThreadInv(u)'
    <2>0. PICK z \in Sides : z = Side(u)
      BY DEF Side, Sides
    <2>1. Rests(u) /\ Pub(Side(u))' = Pub(z)' /\ FormInv(u)
      BY <1>2, <1>12, <2>0 DEF Side, RingInv, ThreadInv
    <2>2. \A y \in Sides : Pub(y) <= Pub(y)'
      <3>1. \A y \in Sides : Pub(y) \in Nat
        BY <1>0 DEF TypeFacts
      <3> QED BY SMT, <1>2, <3>1
    <2>3. pc[u] # "idle" /\ (SyncOf(u) = "ST" \/ Torn(u)) => head'[z] = head[z]
      <3>1. SyncOf(t) = "HTS" /\ z = s /\ pc[u] # "idle" => SyncOf(u) = "HTS"
        BY <1>0, <2>0, <2>1 DEF FormInv
      <3> QED BY <1>2, <3>1 DEF Torn
    <2>4. ASSUME pc[u] \in Working
          PROVE  /\ Pub(z)' <= base[u] /\ End(u) <= claimed'[z]
                 /\ SyncOf(u) \in {"ST", "HTS"} => Pub(z)' = Pub(z) /\ claimed'[z] = claimed[z]
      <3>1. Works(u, z)
        BY <2>0, <2>4 DEF Works
      <3>2. Pub(z) <= base[u] /\ End(u) <= claimed[z]
        BY <2>0, <2>4, ClaimIs
      <3>3. CASE z = s
        BY <1>4, <1>12, <3>1, <3>2, <3>3
      <3>4. CASE z # s
        BY <1>2, <3>2, <3>4
      <3> QED BY <3>3, <3>4
    <2>5. ASSUME pc[u] \in {"rts_head", "rts_cas"}
          PROVE  /\ \/ tail'[z] = tail[z] /\ tcnt'[z] = tcnt[z]
                    \/ Num(tcnt[z]) < Num(tcnt'[z])
                 /\ claimed[z] <= claimed'[z]
      <3>1. r[z] = "RTS" /\ Works(u, z)
        BY <2>0, <2>5, RtsWorker DEF Works
      <3>2. claimed'[z] = claimed[z]
        BY ZenonT(30), <1>2, <1>4, <1>12, <3>1
      <3>3. claimed[z] <= claimed[z]
        BY SMT, <1>0 DEF TypeFacts
      <3> QED BY <1>2, <3>1, <3>2, <3>3
    <2>6. ASSUME NEW v \in Threads, Works(v, Side(u))' PROVE Works(v, z) /\ base'[v] = base[v]
      <3>1. Works(v, z)'
        BY <2>0, <2>6 DEF Works, Side
      <3> QED BY <1>3, <1>5, <3>1
    <2> QED BY <1>2, <2>0, <2>1, <2>2, <2>3, <2>4, <2>5, <2>6, RestKeeps
  <1> QED BY <1>6, <1>7, <1>8, <1>9, <1>10, <1>11, <1>12 DEF RingInv

LEMMA ClaimEnd ==
  ASSUME RingInv, NEW t \in Threads, pc[t] \in Working, NEW x, x = (loc[t].old + loc[t].n) % Mod
  PROVE  x \in Index /\ Num(x) = base[t] + loc[t].n
  <1> PICK s \in Sides : s = Side(t)
    BY DEF Side, Sides
  <1>1. /\ loc[t].n \in Nat /\ base[t] \in Nat /\ loc[t].old \in Index /\ Num(loc[t].old) = base[t]
        /\ base[t] + loc[t].n <= End(t) /\ End(t) <= claimed[s] /\ End(t) \in Nat
    BY ClaimIs
  <1>2. Num(head[s]) = claimed[s] /\ head[s] \in Index /\ claimed[s] \in Nat /\ Mod \in Nat
    BY Basics DEF RingInv, PosInv, TypeFacts
  <1>3. claimed[s] < Mod
    BY SMTT(20), <1>2, NumIs DEF Index
  <1>4. Num(loc[t].old) + loc[t].n < Mod
    BY SMT, <1>1, <1>2, <1>3
  <1> QED BY <1>1, <1>4, NumPlus

\* A producer that has finished copying has written the objects of its claim.
LEMMA AllWritten ==
  ASSUME RingInv, NEW t \in Producers, pc[t] \in Working \ {"copy", "started"},
         NEW m \in Nat, base[t] <= m, m < base[t] + loc[t].n
  PROVE  ring[Cell(m)] = m
  <1>0. t \in Threads /\ pc[t] \in Working
    BY DEF Threads
  <1>1. loc[t].n \in Nat /\ base[t] \in Nat /\ loc[t].i \in Nat
    BY <1>0, ClaimIs
  <1>2. CopyInv(t)
    BY <1>0 DEF RingInv, ThreadInv
  <1>3. loc[t].n <= loc[t].i
    BY <1>0, <1>2 DEF CopyInv
  <1> DEFINE j == m - base[t]
  <1>4. j \in Nat /\ j < loc[t].i /\ j < loc[t].n /\ base[t] + j = m
    BY SMT, <1>1, <1>3
  <1>5. ring[Cell(base[t] + j)] = base[t] + j
    BY <1>0, <1>2, <1>4 DEF CopyInv
  <1> QED BY <1>4, <1>5

LEMMA ReturnDoes ==
  ASSUME RingTypeOK, NEW t \in Threads, Return(t), r' = r
  PROVE  /\ pc'[t] = "idle" /\ pc' \in [Threads -> Places] /\ loc' \in [Threads -> Locals]
         /\ base' \in [Threads -> Nat] /\ \A u \in Threads : u # t => Rests(u)
  <1>1. Idle \in Locals /\ "idle" \in Places /\ 0 \in Nat
    <2>1. "ST" \in SyncTypes /\ "call" \in Apis /\ 0 \in Nat /\ "FIXED" \in Behaviors /\ 0 \in Index
      BY SMT, SizeAssumption DEF SyncTypes, Apis, Behaviors, Index
    <2> QED BY <2>1, IdleIs DEF Places
  <1> QED BY <1>1 DEF Return, RingTypeOK, Rests

\* The thread returns; what it and others have finished is published.
Moved(t, s) ==
  /\ Works(t, s) /\ Leaves(t, s) /\ Pub(s) <= Pub(s)' /\ claimed'[s] <= claimed[s]
  /\ r[s] = "RTS" => Num(tcnt'[s]) = Num(tcnt[s]) + 1 /\ head'[s] = head[s]

LEMMA UpdateTailKeeps ==
  ASSUME RingInv, NEW t \in Threads, UpdateTail(t) \/ HtsUpdateTail(t)
  PROVE  RingInv' /\ \E s \in Sides : Moved(t, s)
  <1> PICK s \in Sides : s = Side(t)
    BY DEF Side, Sides
  <1> DEFINE x == (loc[t].old + loc[t].n) % Mod
             n == loc[t].n
  <1>0. /\ RingTypeOK /\ PosInv /\ TypeFacts /\ FormInv(t) /\ ClaimInv(t) /\ pc[t] = "update"
        /\ pc[t] \in Working /\ Works(t, s) /\ tail' = [tail EXCEPT ![s] = x] /\ Return(t)
        /\ r' = r /\ head' = head /\ hcnt' = hcnt /\ tcnt' = tcnt /\ ring' = ring
        /\ claimed' = claimed
    BY Basics DEF RingInv, ThreadInv, UpdateTail, HtsUpdateTail, Working, Works
  <1>1. /\ n \in Nat /\ base[t] \in Nat /\ loc[t].old \in Index /\ Num(loc[t].old) = base[t]
        /\ base[t] + n <= End(t) /\ End(t) <= claimed[s] /\ End(t) \in Nat /\ claimed[s] \in Nat
        /\ x \in Index /\ Num(x) = base[t] + n /\ Pub(s) \in Nat
    BY <1>0, ClaimIs, ClaimEnd DEF TypeFacts
  <1> HIDE DEF x
  <1>2. base[t] = Pub(s) /\ r[s] # "RTS" /\ SyncOf(t) # "RTS"
    <2>1. SyncOf(t) # "RTS" /\ SyncOf(t) \in SyncTypes
      <3>1. loc[t] \in Locals
        BY <1>0 DEF TypeFacts
      <3> QED BY <1>0, <3>1, LocalsAre DEF FormInv, SyncOf
    <2>2. SyncOf(t) \in {"ST", "HTS"} => base[t] = Pub(s)
      BY <1>0 DEF ClaimInv
    <2>3. SyncOf(t) = "MT" => base[t] = Pub(s)
      <3>1. SyncOf(t) = "MT" => tail[s] = loc[t].old
        BY DEF UpdateTail, HtsUpdateTail, rte_wait_until_equal_32
      <3> QED BY <1>1, <3>1 DEF Pub
    <2> QED BY <1>0, <2>1, <2>2, <2>3 DEF FormInv, SyncTypes
  <1>3. End(t) = base[t] + n
    BY <1>0 DEF ClaimInv, End
  <1>4. /\ RingTypeOK' /\ Leaves(t, s) /\ Pub(s)' = base[t] + n
    <2>1. /\ pc'[t] = "idle" /\ pc' \in [Threads -> Places] /\ loc' \in [Threads -> Locals]
          /\ base' \in [Threads -> Nat] /\ \A u \in Threads : u # t => Rests(u)
      BY <1>0, ReturnDoes
    <2>2. tail' \in [Sides -> Index] /\ tail'[s] = x /\ \A z \in Sides : z # s => tail'[z] = tail[z]
      BY <1>0, <1>1 DEF RingTypeOK
    <2>3. RingTypeOK'
      BY <1>0, <2>1, <2>2 DEF RingTypeOK
    <2> QED BY <1>0, <1>1, <2>1, <2>2, <2>3 DEF Leaves, Pub
  <1>5. /\ Num(head'[s]) = claimed'[s] /\ claimed'[s] <= claimed[s]
        /\ Pub(s) <= Pub(s)' /\ Pub(s)' <= claimed'[s]
    <2>1. Num(head'[s]) = claimed'[s]
      BY <1>0 DEF PosInv
    <2>2. claimed[s] <= claimed[s] /\ Pub(s) <= base[t] + n
      BY SMTT(20), <1>1, <1>2
    <2> QED BY <1>0, <1>1, <1>3, <1>4, <2>1, <2>2
  <1>6. ASSUME NEW u \in Threads, u # t, Works(u, s) PROVE Pub(s)' <= base[u]
    <2>1. End(t) <= base[u] \/ End(u) <= base[t]
      BY <1>0, <1>6 DEF RingInv, DisjInv, Works
    <2>2. loc[u].api = "call" /\ pc[u] \in Working /\ ClaimInv(u) /\ Side(u) = s
      BY <1>0, <1>6, SideAlone DEF RingInv, ThreadInv, Works
    <2>3. End(u) = base[u] + loc[u].n /\ loc[u].n > 0 /\ Pub(s) <= base[u]
          /\ base[u] \in Nat /\ loc[u].n \in Nat
      BY <2>2, ClaimIs DEF ClaimInv, End
    <2> QED BY SMTT(20), <1>1, <1>2, <1>3, <1>4, <2>1, <2>3
  <1>7. ASSUME NEW m \in Nat, s = "prod", Pub(s) <= m, m < Pub(s)' PROVE ring[Cell(m)] = m
    <2>1. t \in Producers /\ pc[t] \in Working \ {"copy", "started"}
      BY <1>0, <1>7 DEF Side
    <2> QED BY <1>2, <1>4, <1>7, <2>1, AllWritten
  <1>8. ASSUME NEW m \in Nat, Pub(s)' <= m, m < End(t) PROVE FALSE
    BY SMTT(20), <1>1, <1>3, <1>4, <1>8
  <1>9. Moved(t, s)
    BY <1>0, <1>2, <1>4, <1>5 DEF Moved
  <1> QED BY <1>0, <1>2, <1>4, <1>5, <1>6, <1>7, <1>8, <1>9, LeaveKeeps

LEMMA HtsSetHeadTailKeeps ==
  ASSUME RingInv, NEW t \in Threads, HtsSetHeadTail(t)
  PROVE  RingInv' /\ \E s \in Sides : Moved(t, s)
  <1> PICK s \in Sides : s = Side(t)
    BY DEF Side, Sides
  <1> DEFINE x == (loc[t].old + loc[t].n) % Mod
             n == loc[t].n
  <1>0. /\ RingTypeOK /\ PosInv /\ TypeFacts /\ FormInv(t) /\ ClaimInv(t) /\ pc[t] = "publish"
        /\ SyncOf(t) = "HTS" /\ pc[t] \in Working /\ Works(t, s)
        /\ tail' = [tail EXCEPT ![s] = x] /\ head' = [head EXCEPT ![s] = x] /\ Return(t)
        /\ claimed' = [claimed EXCEPT ![s] = base[t] + n]
        /\ r' = r /\ hcnt' = hcnt /\ tcnt' = tcnt /\ ring' = ring
    BY Basics DEF RingInv, ThreadInv, HtsSetHeadTail, Working, Works
  <1>1. /\ n \in Nat /\ base[t] \in Nat
        /\ base[t] + n <= End(t) /\ End(t) <= claimed[s] /\ End(t) \in Nat /\ claimed[s] \in Nat
        /\ x \in Index /\ Num(x) = base[t] + n /\ base[t] = Pub(s)
    BY <1>0, ClaimIs, ClaimEnd DEF TypeFacts, ClaimInv
  <1> HIDE DEF x
  <1>2. /\ RingTypeOK' /\ Leaves(t, s) /\ Pub(s)' = base[t] + n /\ Num(head'[s]) = claimed'[s]
        /\ claimed'[s] = base[t] + n
    <2>0. base[t] + n \in Nat
      BY SMT, <1>1
    <2>1. /\ pc'[t] = "idle" /\ pc' \in [Threads -> Places] /\ loc' \in [Threads -> Locals]
          /\ base' \in [Threads -> Nat] /\ \A u \in Threads : u # t => Rests(u)
      BY <1>0, ReturnDoes
    <2>2. /\ tail' \in [Sides -> Index] /\ head' \in [Sides -> Index] /\ claimed' \in [Sides -> Nat]
          /\ tail'[s] = x /\ head'[s] = x /\ claimed'[s] = base[t] + n
          /\ \A z \in Sides : z # s => tail'[z] = tail[z] /\ head'[z] = head[z]
                                       /\ claimed'[z] = claimed[z]
      BY <1>0, <1>1, <2>0 DEF RingTypeOK
    <2>3. RingTypeOK'
      BY <1>0, <2>1, <2>2 DEF RingTypeOK
    <2> QED BY <1>0, <1>1, <2>1, <2>2, <2>3 DEF Leaves, Pub
  <1>3. claimed'[s] <= claimed[s] /\ Pub(s) <= Pub(s)' /\ Pub(s)' <= claimed'[s]
    BY SMT, <1>1, <1>2
  <1>4. \A u \in Threads : u # t => ~Works(u, s)
    BY <1>0, SideAlone
  <1>5. ASSUME NEW m \in Nat, s = "prod", Pub(s) <= m, m < Pub(s)' PROVE ring[Cell(m)] = m
    <2>1. t \in Producers /\ pc[t] \in Working \ {"copy", "started"}
      BY <1>0, <1>5 DEF Side
    <2> QED BY <1>1, <1>2, <1>5, <2>1, AllWritten
  <1>6. ASSUME NEW m \in Nat, Pub(s)' <= m, m < claimed'[s] PROVE FALSE
    BY SMT, <1>1, <1>2, <1>6
  <1>7. r[s] # "RTS"
    BY <1>0 DEF FormInv
  <1>8. Moved(t, s)
    BY <1>0, <1>2, <1>3, <1>7 DEF Moved
  <1> QED BY <1>0, <1>2, <1>3, <1>4, <1>5, <1>6, <1>7, <1>8, LeaveKeeps

LEMMA RtsMoveTailKeeps ==
  ASSUME RingInv, NEW t \in Threads, RtsMoveTail(t)
  PROVE  /\ RingInv'
         /\ \/ \E s \in Sides : Moved(t, s)
            \/ \E l : Private(t, "rts_head", l)
  <1> PICK s \in Sides : s = Side(t)
    BY DEF Side, Sides
  <1> DEFINE c == [pos |-> tail[s], cnt |-> tcnt[s]]
             nt == loc[t].nt
  <1>0. /\ RingTypeOK /\ PosInv /\ TypeFacts /\ pc[t] = "rts_cas" /\ pc[t] \in Working /\ Works(t, s)
        /\ SyncOf(t) = "RTS" /\ r[s] = "RTS" /\ loc[t].api = "call" /\ TailInv(t) /\ ClaimInv(t)
        /\ nt \in Tails /\ nt.pos \in Index /\ nt.cnt \in Index /\ tcnt[s] \in Index
        /\ r' = r /\ head' = head /\ hcnt' = hcnt /\ ring' = ring /\ claimed' = claimed
    BY Basics, RtsWorker DEF RingInv, ThreadInv, RtsMoveTail, Works, Tails
  <1>1. CASE c # loc[t].ot
    <2>1. Private(t, "rts_head", [loc[t] EXCEPT !.ot = c])
      BY <1>0, <1>1 DEF RtsMoveTail, Private, RingTypeOK
    <2> QED BY <1>0, <2>1, RtsLoadTailKeeps
  <1>2. CASE c = loc[t].ot
    <2>0. /\ tail' = [tail EXCEPT ![s] = nt.pos] /\ tcnt' = [tcnt EXCEPT ![s] = nt.cnt]
          /\ Return(t)
      BY <1>2 DEF RtsMoveTail
    <2> DEFINE P == Num(nt.pos)
    <2>1. /\ RingTypeOK' /\ Leaves(t, s) /\ Pub(s)' = P /\ tcnt'[s] = nt.cnt
      <3>1. /\ pc'[t] = "idle" /\ pc' \in [Threads -> Places] /\ loc' \in [Threads -> Locals]
            /\ base' \in [Threads -> Nat] /\ \A u \in Threads : u # t => Rests(u)
        BY <1>0, <2>0, ReturnDoes
      <3>2. /\ tail' \in [Sides -> Index] /\ tail'[s] = nt.pos
            /\ tcnt' \in [Sides -> Index] /\ tcnt'[s] = nt.cnt
            /\ \A z \in Sides : z # s => tail'[z] = tail[z] /\ tcnt'[z] = tcnt[z]
        BY <1>0, <2>0 DEF RingTypeOK
      <3>3. RingTypeOK'
        BY <1>0, <3>1, <3>2 DEF RingTypeOK
      <3> QED BY <1>0, <3>1, <3>2, <3>3 DEF Leaves, Pub
    <2>2. /\ loc[t].n \in Nat /\ base[t] \in Nat /\ Pub(s) <= base[t] /\ End(t) = base[t] + loc[t].n
          /\ End(t) <= claimed[s] /\ claimed[s] \in Nat /\ Pub(s) \in Nat /\ End(t) \in Nat
          /\ P \in Nat /\ Num(tcnt[s]) \in Nat /\ Num(nt.cnt) = Num(tcnt[s]) + 1
      <3>1. P \in Nat /\ Num(tcnt[s]) \in Nat
        BY SMT, <1>0, NumIs DEF Index
      <3>2. Num(nt.cnt) = Num(loc[t].ot.cnt) + 1 /\ c.cnt = tcnt[s]
        BY <1>0 DEF TailInv
      <3> QED BY <1>0, <1>2, <3>1, <3>2, ClaimIs DEF End, TypeFacts
    <2>3. \/ P = Pub(s)
          \/ /\ End(t) <= P /\ P <= claimed[s]
             /\ \A u \in Threads : u # t /\ Works(u, s) => P <= base[u]
      <3>1. c = [pos |-> tail[s], cnt |-> tcnt[s]]
        OBVIOUS
      <3> QED BY <1>0, <1>2, <3>1 DEF TailInv, Pub
    <2>4. /\ Num(head'[s]) = claimed'[s] /\ claimed'[s] <= claimed[s]
          /\ Pub(s) <= Pub(s)' /\ Pub(s)' <= claimed'[s]
      <3>1. Num(head[s]) = claimed[s]
        BY <1>0 DEF PosInv
      <3>2. claimed[s] <= claimed[s] /\ Pub(s) <= P /\ P <= claimed[s]
        BY SMT, <2>2, <2>3
      <3> QED BY <1>0, <2>1, <3>1, <3>2
    <2>5. ASSUME NEW u \in Threads, u # t, Works(u, s) PROVE Pub(s)' <= base[u]
      <3>1. Pub(s) <= base[u]
        BY <2>5, ClaimIs DEF Works
      <3> QED BY <2>1, <2>3, <2>5, <3>1
    <2>6. ASSUME NEW m \in Nat, s = "prod", base[t] <= m, m < End(t) PROVE ring[Cell(m)] = m
      <3>1. t \in Producers /\ pc[t] \in Working \ {"copy", "started"}
        BY <1>0, <2>6 DEF Side
      <3> QED BY <2>2, <2>6, <3>1, AllWritten
    <2>7. ASSUME NEW m \in Nat, s = "prod", Pub(s) <= m, m < Pub(s)' PROVE ring[Cell(m)] = m
      <3>1. m < P /\ m < claimed[s] /\ P # Pub(s)
        BY SMT, <2>1, <2>2, <2>3, <2>7
      <3>2. \/ \E u \in Threads : Works(u, s) /\ base[u] <= m /\ m < End(u)
            \/ ring[Cell(m)] = m
        BY <2>7, <3>1 DEF RingInv, CoverInv
      <3>3. ASSUME NEW u \in Threads, Works(u, s), base[u] <= m, m < End(u) PROVE ring[Cell(m)] = m
        <4>1. CASE u = t
          BY <2>6, <2>7, <3>3, <4>1
        <4>2. CASE u # t
          <5>1. P <= base[u] /\ base[u] \in Nat
            BY <1>0, <2>3, <3>1, <3>3, <4>2 DEF TypeFacts
          <5> QED BY SMTT(20), <2>2, <3>1, <3>3, <5>1
        <4> QED BY <4>1, <4>2
      <3> QED BY <3>2, <3>3
    <2>8. Num(tcnt[s]) < Num(tcnt'[s])
      BY SMT, <2>1, <2>2
    <2>9. Moved(t, s)
      BY <1>0, <2>1, <2>2, <2>4 DEF Moved
    <2> QED BY <1>0, <2>1, <2>4, <2>5, <2>6, <2>7, <2>8, <2>9, LeaveKeeps
  <1> QED BY <1>1, <1>2

\* The store of the head gives back what the finish did not take; the claim
\* that is left is published by the store of the tail.
LEMMA StSetHeadKeeps ==
  ASSUME RingInv, NEW t \in Threads, StSetHead(t) PROVE RingInv'
  <1> PICK s \in Sides : s = Side(t)
    BY DEF Side, Sides
  <1> DEFINE x == (loc[t].old + loc[t].n) % Mod
             n == loc[t].n
  <1>0. /\ RingTypeOK /\ PosInv /\ TypeFacts /\ FormInv(t) /\ ClaimInv(t) /\ CopyInv(t)
        /\ pc[t] = "publish" /\ SyncOf(t) = "ST" /\ pc[t] \in Working /\ Works(t, s)
        /\ head' = [head EXCEPT ![s] = x] /\ claimed' = [claimed EXCEPT ![s] = base[t] + n]
        /\ pc' = [pc EXCEPT ![t] = "update"] /\ loc[t].api # "call"
        /\ r' = r /\ tail' = tail /\ hcnt' = hcnt /\ tcnt' = tcnt /\ ring' = ring /\ loc' = loc
        /\ base' = base
    BY Basics DEF RingInv, ThreadInv, StSetHead, Working, Works, FormInv
  <1>1. /\ n \in Nat /\ base[t] \in Nat /\ Num(loc[t].old) = base[t]
        /\ base[t] + n <= claimed[s] /\ claimed[s] \in Nat
        /\ x \in Index /\ Num(x) = base[t] + n /\ base[t] = Pub(s) /\ base[t] + n \in Nat
    <2>1. /\ n \in Nat /\ base[t] \in Nat /\ Num(loc[t].old) = base[t]
          /\ base[t] + n <= End(t) /\ End(t) = claimed[s] /\ claimed[s] \in Nat
          /\ x \in Index /\ Num(x) = base[t] + n /\ base[t] = Pub(s)
      BY <1>0, ClaimIs, ClaimEnd DEF TypeFacts, ClaimInv, End
    <2>2. base[t] + n \in Nat
      BY SMT, <2>1
    <2> QED BY <2>1, <2>2
  <1> HIDE DEF x
  <1>2. /\ RingTypeOK' /\ TypeFacts' /\ (\A u \in Threads : u # t => Rests(u))
        /\ head'[s] = x /\ claimed'[s] = base[t] + n /\ pc'[t] = "update"
        /\ (\A z \in Sides : z # s => head'[z] = head[z] /\ claimed'[z] = claimed[z])
        /\ \A z : Pub(z)' = Pub(z)
    <2>1. /\ head' \in [Sides -> Index] /\ head'[s] = x
          /\ claimed' \in [Sides -> Nat] /\ claimed'[s] = base[t] + n
          /\ \A z \in Sides : z # s => head'[z] = head[z] /\ claimed'[z] = claimed[z]
      BY <1>0, <1>1 DEF RingTypeOK
    <2>2. "update" \in Places
      BY DEF Places, Working
    <2>3. pc' \in [Threads -> Places] /\ pc'[t] = "update" /\ \A u \in Threads : u # t => pc'[u] = pc[u]
      BY <1>0, <2>2 DEF RingTypeOK
    <2>4. RingTypeOK'
      BY <1>0, <2>1, <2>3 DEF RingTypeOK
    <2>5. (\A u \in Threads : u # t => Rests(u)) /\ \A z : Pub(z)' = Pub(z)
      BY <1>0, <2>3 DEF Rests, Pub
    <2> QED BY <2>1, <2>3, <2>4, <2>5, BasicsNext
  <1>3. \A u \in Threads : u # t /\ Side(u) = s => pc[u] = "idle"
    <2>1. pc[t] # "idle"
      BY <1>0
    <2> QED BY <1>0, <2>1 DEF RingInv, ContractInv
  <1>4. \A u \in Threads, z \in Sides :
          /\ Works(u, z)' <=> Works(u, z)
          /\ Works(u, s) => u = t
    <2>1. "update" \in Working /\ "idle" \notin Working
      BY DEF Working
    <2>2. \A u \in Threads : u # t => pc'[u] = pc[u]
      BY <1>2 DEF Rests
    <2> QED BY ZenonT(30), <1>0, <1>2, <1>3, <2>1, <2>2 DEF Works, Side
  <1>5. ASSUME NEW u \in Threads, NEW z \in Sides, u # t, Works(u, z)
        PROVE  z # s /\ Side(u) = z /\ claimed'[z] = claimed[z] /\ End(u)' = End(u)
    <2>1. z # s /\ Side(u) = z /\ claimed'[z] = claimed[z] /\ Rests(u)
      BY <1>2, <1>4, <1>5 DEF Works
    <2> QED BY <2>1, EndKeeps
  <1>6. End(t)' = base[t] + n
    <2>1. Side(t)' = s
      BY DEF Side
    <2> QED BY <1>0, <1>2, <2>1 DEF End
  <1>7. PosInv'
    <2>0. \A z \in Sides : claimed[z] \in Nat /\ claimed'[z] \in Nat /\ Pub(z) \in Nat
                           /\ r.capacity \in Nat
      BY <1>0, <1>2 DEF TypeFacts
    <2>1. ASSUME NEW z \in Sides
          PROVE  /\ Num(head'[z]) = claimed'[z] /\ (r'[z] = "RTS" => Num(hcnt'[z]) <= claimed'[z])
                 /\ claimed'[z] <= claimed[z] /\ Pub(z) <= claimed'[z]
      <3>1. CASE z = s
        <4>1. r[s] # "RTS"
          BY <1>0 DEF FormInv
        <4>2. claimed'[s] <= claimed[s] /\ Pub(s) <= claimed'[s]
          BY SMT, <1>1, <1>2
        <4> QED BY <1>0, <1>1, <1>2, <3>1, <4>1, <4>2
      <3>2. CASE z # s
        <4>1. Num(head'[z]) = claimed'[z] /\ (r'[z] = "RTS" => Num(hcnt'[z]) <= claimed'[z])
          BY <1>0, <1>2, <3>2 DEF PosInv
        <4>2. claimed'[z] = claimed[z] /\ Pub(z) <= claimed[z] /\ claimed[z] <= claimed[z]
          BY SMTT(20), <1>2, <2>0, <3>2, ClaimFits
        <4> QED BY <4>1, <4>2
      <3> QED BY <3>1, <3>2
    <2>2. "prod" \in Sides /\ "cons" \in Sides
      BY DEF Sides
    <2>3. claimed'["cons"] <= Pub("prod") /\ claimed'["prod"] <= r.capacity + Pub("cons")
      BY SMTT(20), <1>0, <2>0, <2>1, <2>2 DEF PosInv
    <2> QED BY <1>0, <1>2, <2>1, <2>2, <2>3 DEF PosInv
  <1>8. ContractInv'
    <2>1. SyncOf(t)' = SyncOf(t) /\ pc[t] # "idle"
      BY <1>0 DEF SyncOf
    <2> QED BY <1>0, <1>2, <2>1, ContractKeeps DEF RingInv
  <1>9. DisjInv'
    <2> SUFFICES ASSUME NEW v \in Threads, NEW u \in Threads, v # u,
                        Works(v, Side(u))', Works(u, Side(u))'
                 PROVE  (End(v) <= base[u] \/ End(u) <= base[v])'
      BY DEF DisjInv
    <2> PICK z \in Sides : z = Side(u) /\ Side(u)' = z
      BY DEF Side, Sides
    <2>0. Works(v, z)' /\ Works(u, z)'
      BY DEF Works
    <2>1. Works(v, z) /\ Works(u, z)
      BY <1>4, <2>0
    <2>2. z # s /\ v # t /\ u # t
      BY <1>0, <1>4, <2>1 DEF Works
    <2>3. End(v) <= base[u] \/ End(u) <= base[v]
      BY <2>1 DEF RingInv, DisjInv
    <2> QED BY <1>0, <1>5, <2>1, <2>2, <2>3
  <1>10. CoverInv'
    <2> SUFFICES ASSUME NEW z \in Sides, NEW m \in Nat, Pub(z) <= m, m < claimed'[z]
                 PROVE  \/ \E u \in Threads : Works(u, z)' /\ base[u] <= m /\ m < End(u)'
                        \/ r[z] = "RTS" /\ (z = "prod" => ring[Cell(m)] = m)
      BY <1>0, <1>2 DEF CoverInv, Cell
    <2>1. CASE z = s
      BY <1>0, <1>1, <1>2, <1>4, <1>6, <2>1
    <2>2. CASE z # s
      <3>1. \/ \E u \in Threads : Works(u, z) /\ base[u] <= m /\ m < End(u)
            \/ r[z] = "RTS" /\ (z = "prod" => ring[Cell(m)] = m)
        BY <1>2, <2>2 DEF RingInv, CoverInv
      <3>2. \A u \in Threads : Works(u, z) => u # t
        BY <1>0, <2>2 DEF Works
      <3> QED BY <1>4, <1>5, <3>1, <3>2
    <2> QED BY <2>1, <2>2
  <1>11. HeldInv'
    BY <1>0, <1>2 DEF RingInv, HeldInv, Cell
  <1>12. ThreadInv(t)'
    <2>1. Side(t)' = s /\ Pub(Side(t))' = Pub(s)
      <3>1. Pub(Side(t))' = Pub(s)'
        BY DEF Side
      <3> QED BY <1>2, <3>1 DEF Side
    <2>2. FormInv(t)'
      BY <1>0, <1>2, <2>1 DEF FormInv, SyncOf
    <2>3. LoadInv(t)' /\ TailInv(t)'
      BY <1>2 DEF LoadInv, TailInv
    <2>4. ClaimInv(t)'
      <3>1. Pub(s) <= base[t] /\ base[t] + n <= base[t] + n
        BY SMT, <1>1
      <3> QED BY <1>0, <1>1, <1>2, <1>6, <2>1, <3>1 DEF ClaimInv, SyncOf
    <2>5. CopyInv(t)'
      <3>1. pc[t] \in Working \ {"copy", "started"} /\ pc'[t] \notin {"copy", "started"}
        BY <1>0, <1>2
      <3> QED BY <1>0, <3>1 DEF CopyInv, Cell
    <2> QED BY <2>2, <2>3, <2>4, <2>5 DEF ThreadInv
  <1>13. ASSUME NEW u \in Threads, u # t PROVE ThreadInv(u)'
    <2>0. PICK z \in Sides : z = Side(u)
      BY DEF Side, Sides
    <2>1. Rests(u) /\ Pub(Side(u))' = Pub(z)
      <3>1. Pub(Side(u))' = Pub(z)'
        BY <2>0 DEF Side
      <3> QED BY <1>2, <1>13, <3>1
    <2>2. (\A y \in Sides : Pub(y) <= Pub(y)') /\ claimed[z] <= claimed[z]
      <3>1. /\ \A y \in Sides : Pub(y) \in Nat /\ Pub(y)' = Pub(y)
            /\ claimed[z] \in Nat
        BY <1>0, <1>2 DEF TypeFacts
      <3>2. \A m \in Nat : m <= m
        BY SMT
      <3> QED BY <3>1, <3>2
    <2>3. pc[u] # "idle" => z # s /\ head'[z] = head[z] /\ claimed'[z] = claimed[z]
      BY <1>2, <1>3, <1>13, <2>0
    <2>4. pc[u] \in Working => Pub(z) <= base[u] /\ End(u) <= claimed[z] /\ pc[u] # "idle"
      BY <2>0, ClaimIs DEF Working
    <2>5. ASSUME NEW v \in Threads, Works(v, Side(u))' PROVE Works(v, z)
      <3>1. Works(v, z)'
        BY <2>0, <2>5 DEF Works, Side
      <3> QED BY <1>4, <3>1
    <2> QED BY <1>0, <1>2, <2>0, <2>1, <2>2, <2>3, <2>4, <2>5, RestKeeps
  <1> QED BY <1>2, <1>7, <1>8, <1>9, <1>10, <1>11, <1>12, <1>13 DEF RingInv

-----------------------------------------------------------------------------
(***************************************************************************)
(* All steps.                                                              *)
(***************************************************************************)
\* The functions of the ring are made of these steps.
Atom(t) ==
  \/ LoadHead(t) \/ RtsHeadWait(t) \/ CheckEntries(t) \/ MoveHeadFails(t) \/ CmpsetLoad(t)
  \/ MoveHead(t) \/ CmpsetStore(t) \/ EnqueueElem(t) \/ DequeueElem(t)
  \/ UpdateTail(t) \/ HtsUpdateTail(t) \/ StSetHead(t) \/ HtsSetHeadTail(t)
  \/ RtsLoadTail(t) \/ RtsLoadHead(t) \/ RtsMoveTail(t)

LEMMA StepIsAtom == ASSUME NEW t \in Threads, Step(t) PROVE Atom(t)
  <1>1. ASSUME MoveLoop(t) \/ Cmpset(t) \/ RtsHeadWait(t) PROVE Atom(t)
    BY <1>1 DEF MoveLoop, Cmpset, Atom
  <1>2. ASSUME move_prod_head(t) \/ move_cons_head(t) \/ hts_move_prod_head(t)
               \/ hts_move_cons_head(t) \/ rts_move_prod_head(t) \/ rts_move_cons_head(t)
        PROVE  Atom(t)
    BY <1>1, <1>2 DEF move_prod_head, move_cons_head, hts_move_prod_head, hts_move_cons_head,
       rts_move_prod_head, rts_move_cons_head, generic_move_prod_head, generic_move_cons_head,
       c11_move_prod_head, c11_move_cons_head
  <1>3. ASSUME rts_update_tail(t) \/ EnqueueElem(t) \/ DequeueElem(t) \/ UpdateTail(t)
               \/ HtsUpdateTail(t) \/ set_head_tail(t)
        PROVE  Atom(t)
    BY <1>3 DEF rts_update_tail, set_head_tail, Atom
  <1> QED BY <1>2, <1>3 DEF Step, do_enqueue_elem, do_hts_enqueue_elem, do_rts_enqueue_elem,
       do_dequeue_elem, do_hts_dequeue_elem, do_rts_dequeue_elem, do_enqueue_start,
       do_enqueue_zc_elem_start, do_dequeue_start, do_dequeue_zc_elem_start, ZcUser, FinishCopy,
       StartProd, StartCons

\* A step of the ring is the beginning of a call, a finish, or one of those steps.
LEMMA NextIs ==
  ASSUME Next
  PROVE  \E t \in Threads :
           \/ \E n \in Burst, f \in IF Side(t) = "prod" THEN EnqueueForms ELSE DequeueForms :
                Begin(t, n, f) /\ (t \in Producers => claimed["prod"] < r.objects)
           \/ \E k \in Nat, after \in {"copy", "publish"} :
                Finish(t, k, after) /\ after = IF PeekEnqueue(t) THEN "copy" ELSE "publish"
           \/ Atom(t)
  <1> PICK t \in Threads : \/ \E n \in Burst, f \in EnqueueForms : Enqueue(t, n, f)
                           \/ \E n \in Burst, f \in DequeueForms : Dequeue(t, n, f)
                           \/ \E k \in Burst \cup {0} :
                                \/ EnqueueFinish(t, k) \/ EnqueueZcFinish(t, k)
                                \/ DequeueFinish(t, k) \/ DequeueZcFinish(t, k)
                           \/ Step(t)
    BY DEF Next
  <1>1. ASSUME NEW n \in Burst, NEW f \in EnqueueForms, Enqueue(t, n, f)
        PROVE  Side(t) = "prod" /\ Begin(t, n, f) /\ claimed["prod"] < r.objects
    BY <1>1 DEF Enqueue, Side
  <1>2. ASSUME NEW n \in Burst, NEW f \in DequeueForms, Dequeue(t, n, f)
        PROVE  Side(t) # "prod" /\ Begin(t, n, f) /\ t \notin Producers
    BY <1>2, ThreadsAssumption DEF Dequeue, Side
  <1>3. ASSUME NEW k \in Burst \cup {0}, \/ EnqueueFinish(t, k) \/ EnqueueZcFinish(t, k)
                                         \/ DequeueFinish(t, k) \/ DequeueZcFinish(t, k)
        PROVE  k \in Nat /\ \E after \in {"copy", "publish"} :
                 Finish(t, k, after) /\ after = IF PeekEnqueue(t) THEN "copy" ELSE "publish"
    <2>1. k \in Nat
      BY SMT, SizeAssumption DEF Burst
    <2>2. CASE EnqueueFinish(t, k)
      BY <2>1, <2>2 DEF EnqueueFinish
    <2>3. CASE EnqueueZcFinish(t, k)
      BY <2>1, <2>3 DEF EnqueueZcFinish, PeekEnqueue
    <2>4. CASE DequeueFinish(t, k) \/ DequeueZcFinish(t, k)
      <3>1. t \notin Producers /\ Finish(t, k, "publish")
        BY <2>4, ThreadsAssumption DEF DequeueFinish, DequeueZcFinish
      <3> QED BY <2>1, <3>1 DEF PeekEnqueue
    <2> QED BY <1>3, <2>2, <2>3, <2>4
  <1>4. CASE \E n \in Burst, f \in EnqueueForms : Enqueue(t, n, f)
    BY <1>1, <1>4
  <1>5. CASE \E n \in Burst, f \in DequeueForms : Dequeue(t, n, f)
    BY <1>2, <1>5
  <1>6. CASE \E k \in Burst \cup {0} : \/ EnqueueFinish(t, k) \/ EnqueueZcFinish(t, k)
                                       \/ DequeueFinish(t, k) \/ DequeueZcFinish(t, k)
    BY <1>3, <1>6
  <1>7. CASE Step(t)
    BY <1>7, StepIsAtom
  <1> QED BY <1>4, <1>5, <1>6, <1>7

LEMMA AtomKeeps ==
  ASSUME RingInv, Roomy, Counted, ExchangeAtomic, NEW t \in Threads, Atom(t) PROVE RingInv'
  <1>1. CASE LoadHead(t) \/ RtsHeadWait(t) \/ CheckEntries(t) \/ MoveHeadFails(t) \/ CmpsetLoad(t)
    BY <1>1, LoadHeadKeeps, RtsHeadWaitKeeps, CheckEntriesKeeps, MoveHeadFailsKeeps, CmpsetLoadKeeps
  <1>2. CASE MoveHead(t) \/ CmpsetStore(t)
    <2>1. pc[t] \in {"move", "cmpset"}
      BY <1>2 DEF MoveHead, CmpsetStore
    <2> QED BY <1>2, <2>1, ClaimKeepsAll
  <1>3. CASE EnqueueElem(t) \/ DequeueElem(t)
    BY <1>3, EnqueueElemKeeps, DequeueElemKeeps
  <1>4. CASE UpdateTail(t) \/ HtsUpdateTail(t) \/ StSetHead(t) \/ HtsSetHeadTail(t)
    BY <1>4, UpdateTailKeeps, StSetHeadKeeps, HtsSetHeadTailKeeps
  <1>5. CASE RtsLoadTail(t)
    <2>1. pc[t] \in {"rts_tail", "rts_cas"} /\ loc \in [Threads -> Locals]
      BY <1>5 DEF RtsLoadTail, RingInv, RingTypeOK
    <2>2. Private(t, "rts_head",
                  [loc[t] EXCEPT !.ot = [pos |-> tail[Side(t)], cnt |-> tcnt[Side(t)]]])
      BY <1>5, <2>1 DEF RtsLoadTail, Private
    <2> QED BY <2>1, <2>2, RtsLoadTailKeeps
  <1>6. CASE RtsLoadHead(t) \/ RtsMoveTail(t)
    BY <1>6, RtsLoadHeadKeeps, RtsMoveTailKeeps
  <1> QED BY <1>1, <1>2, <1>3, <1>4, <1>5, <1>6 DEF Atom

LEMMA StutterKeeps == ASSUME RingInv, UNCHANGED vars PROVE RingInv'
  <1>1. /\ r' = r /\ head' = head /\ tail' = tail /\ hcnt' = hcnt /\ tcnt' = tcnt /\ ring' = ring
        /\ pc' = pc /\ loc' = loc /\ claimed' = claimed /\ base' = base
    BY DEF vars
  <1>2. RingTypeOK'
    BY <1>1 DEF RingInv, RingTypeOK
  <1>3. PosInv' /\ HeldInv'
    BY <1>1 DEF RingInv, PosInv, HeldInv, Pub, Cell
  <1>4. ContractInv'
    BY <1>1 DEF RingInv, ContractInv, SyncOf, Side
  <1>5. \A u \in Threads : /\ \A s : Works(u, s)' <=> Works(u, s)
                           /\ End(u)' = End(u)
    BY <1>1 DEF Works, End, Side
  <1>6. DisjInv'
    BY <1>1 DEF RingInv, DisjInv, Works, End, Side
  <1>7. CoverInv'
    BY <1>1, <1>5 DEF RingInv, CoverInv, Pub, Cell
  <1>8. ASSUME NEW u \in Threads PROVE ThreadInv(u)'
    BY ZenonT(30), <1>1 DEF RingInv, ThreadInv, FormInv, LoadInv, ClaimInv, CopyInv, TailInv, SyncOf, Side,
       Torn, Pub, Lim, End, Works, Cell
  <1> QED BY <1>2, <1>3, <1>4, <1>6, <1>7, <1>8 DEF RingInv

LEMMA NextKeeps == ASSUME RingInv, Roomy, Counted, ExchangeAtomic, [Next]_vars PROVE RingInv'
  <1>1. CASE Next
    BY <1>1, NextIs, BeginKeeps, FinishKeeps, AtomKeeps
  <1>2. CASE UNCHANGED vars
    BY <1>2, StutterKeeps
  <1> QED BY <1>1, <1>2

LEMMA RingStart == ASSUME Init PROVE RingInv
  <1>1. Num(Start) = 0 /\ Start \in Index /\ 0 \in Index /\ 0 <= 0 /\ 0 \in Nat
    <2>1. Start \in Index
      BY SizeAssumption
    <2> QED BY SMTT(20), <2>1, NumIs, SizeAssumption DEF Index
  <1>2. Idle \in Locals
    <2>1. "ST" \in SyncTypes /\ "call" \in Apis /\ "FIXED" \in Behaviors
      BY DEF SyncTypes, Apis, Behaviors
    <2> QED BY <1>1, <2>1, IdleIs
  <1>3. RingTypeOK
    <2>1. NoObject \in Int /\ "idle" \in Places
      BY SMT DEF NoObject, Places
    <2> QED BY <1>1, <1>2, <2>1 DEF Init, RingTypeOK
  <1>4. \A s \in Sides : Pub(s) = 0 /\ Num(head[s]) = 0 /\ Num(hcnt[s]) = 0 /\ claimed[s] = 0
    BY <1>1 DEF Init, Pub
  <1>5. PosInv
    <2>1. "prod" \in Sides /\ "cons" \in Sides
      BY DEF Sides
    <2>2. 0 <= r.capacity + 0
      BY SMT, <1>3, Basics DEF TypeFacts
    <2> QED BY <1>1, <1>4, <2>1, <2>2 DEF PosInv
  <1>6. \A t \in Threads : pc[t] = "idle"
    BY DEF Init
  <1>7. ContractInv /\ DisjInv
    BY <1>6 DEF ContractInv, DisjInv, Works, Working
  <1>8. CoverInv /\ HeldInv
    <2>1. "prod" \in Sides /\ "cons" \in Sides /\ \A m \in Nat : ~(m < 0)
      BY SMT DEF Sides
    <2> QED BY <1>4, <2>1 DEF CoverInv, HeldInv
  <1>9. \A t \in Threads : ThreadInv(t)
    BY <1>6 DEF ThreadInv, FormInv, LoadInv, ClaimInv, CopyInv, TailInv, Working
  <1> QED BY <1>3, <1>5, <1>7, <1>8, <1>9 DEF RingInv

=============================================================================
