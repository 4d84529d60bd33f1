--------------------------- MODULE RteRingProofs ---------------------------
(***************************************************************************)
(* Theorems about the ring.  The step lemmas of RteRingInvariant need two  *)
(* facts that come from counting threads: an index never laps a thread     *)
(* (Roomy), and the counters of an RTS side differ by the number of its    *)
(* threads that have a claim (Counted).                                    *)
(***************************************************************************)
EXTENDS RteRingInvariant, RteRingObserver, FiniteSetTheorems

\* Zenon does every leaf that names no other prover.
USE Zenon

-----------------------------------------------------------------------------
(***************************************************************************)
(* What a step does to the claims, the counters and the tails.             *)
(***************************************************************************)
Early == {"load", "wait", "avail", "move", "cmpset"}

\* No claim is made or finished.
Quiet(t) ==
  /\ r' = r /\ tail' = tail /\ hcnt' = hcnt /\ tcnt' = tcnt
  /\ \A u \in Threads : u # t => pc'[u] = pc[u]
  /\ pc'[t] \in Working <=> pc[t] \in Working
  /\ \A s \in Sides : claimed'[s] <= claimed[s] /\ (r[s] = "RTS" => head'[s] = head[s])
  /\ pc'[t] \in Early =>
       pc[t] \in Early \/ (pc[t] = "idle" /\ (t \in Producers => claimed["prod"] < r.objects))

\* A claim is made.
Claims(t) ==
  \E s \in Sides, p \in Working :
    /\ s = Side(t) /\ pc[t] \in Early /\ ClaimEffect(t, s, p)
    /\ loc[t].n \in Nat /\ loc[t].n <= MaxBurst
    /\ r[s] = "RTS" => claimed[s] <= Pub(s) + r.htd_max

LEMMA PrivateQuiet ==
  ASSUME RingInv, NEW t \in Threads, NEW p, NEW l, Private(t, p, l),
         p \in Working <=> pc[t] \in Working,
         p \in Early =>
           pc[t] \in Early \/ (pc[t] = "idle" /\ (t \in Producers => claimed["prod"] < r.objects))
  PROVE  Quiet(t)
  <1>1. pc'[t] = p /\ \A u \in Threads : u # t => pc'[u] = pc[u]
    BY DEF Private, RingInv, RingTypeOK
  <1>2. \A s \in Sides : claimed[s] <= claimed[s]
    BY SMT DEF RingInv, RingTypeOK
  <1> QED BY <1>1, <1>2 DEF Private, Quiet

LEMMA AtomDoes ==
  ASSUME RingInv, Roomy, NEW t \in Threads, Atom(t)
  PROVE  Quiet(t) \/ Claims(t) \/ \E s \in Sides : Moved(t, s)
  <1>a. RingTypeOK /\ loc \in [Threads -> Locals] /\ pc \in [Threads -> Places]
    BY DEF RingInv, RingTypeOK
  <1>b. /\ Early \cap Working = {} /\ "idle" \notin Working \cup Early
        /\ {"load", "wait", "avail", "move", "cmpset"} \subseteq Early
        /\ {"copy", "started", "update", "rts_tail", "rts_head", "rts_cas"} \subseteq Working
    BY DEF Early, Working
  <1>1. CASE LoadHead(t) \/ MoveHeadFails(t)
    <2>1. \E l : \E p \in Early : Private(t, p, l)
      <3>1. AfterLoad(Side(t)) \in Early
        BY DEF AfterLoad, Early
      <3> QED BY <1>1, <1>b, <3>1 DEF LoadHead, MoveHeadFails, Loaded, Private
    <2>2. pc[t] \in Early
      BY <1>1 DEF LoadHead, MoveHeadFails, Early
    <2> QED BY <1>b, <2>1, <2>2, PrivateQuiet
  <1>2. CASE RtsHeadWait(t)
    <2>1. \E p \in Early : Private(t, p, loc[t])
      <3>1. loc' = [loc EXCEPT ![t] = loc[t]]
        BY <1>2, <1>a DEF RtsHeadWait
      <3> QED BY <1>2, <1>b, <3>1 DEF RtsHeadWait, Private
    <2>2. pc[t] \in Early
      BY <1>2 DEF RtsHeadWait, Early
    <2> QED BY <1>b, <2>1, <2>2, PrivateQuiet
  <1>3. CASE CheckEntries(t) \/ CmpsetLoad(t)
    <2>1. \E l : \E p \in Early \cup {"idle"} : Private(t, p, l)
      BY <1>3, <1>a, <1>b DEF CheckEntries, CmpsetLoad, Private
    <2>2. pc[t] \in Early
      BY <1>3 DEF CheckEntries, CmpsetLoad, Early
    <2> QED BY <1>b, <2>1, <2>2, PrivateQuiet
  <1>4. CASE MoveHead(t) \/ CmpsetStore(t)
    <2> PICK s \in Sides : s = Side(t)
      BY DEF Side, Sides
    <2> DEFINE p == IF PeekEnqueue(t) THEN "started" ELSE "copy"
    <2>0. pc[t] \in {"move", "cmpset"}
      BY <1>4 DEF MoveHead, CmpsetStore
    <2>1. ClaimEffect(t, s, p) /\ p \in Working
      BY <1>4, <1>b, <2>0, ClaimDoes
    <2>2. /\ loc[t].n \in Nat /\ loc[t].n <= loc[t].max /\ loc[t].old = head[s]
          /\ FormInv(t) /\ LoadInv(t) /\ loc[t].max \in Nat
      BY <1>4, <1>a, <2>0, ClaimReady, LocalsAre DEF RingInv, ThreadInv
    <2>3. loc[t].n <= MaxBurst
      <3>1. loc[t].max <= MaxBurst
        BY <2>0, <2>2 DEF FormInv
      <3> QED BY SMTT(20), <2>2, <3>1, SizeAssumption
    <2>4. r[s] = "RTS" => claimed[s] <= Pub(s) + r.htd_max
      <3>1. r[s] = "RTS" => SyncOf(t) = "RTS"
        BY <2>0, <2>2 DEF FormInv
      <3>2. Num(head[s]) = claimed[s]
        BY DEF RingInv, PosInv
      <3> QED BY <2>0, <2>2, <3>1, <3>2 DEF LoadInv
    <2> QED BY <1>b, <2>0, <2>1, <2>2, <2>3, <2>4 DEF Claims
  <1>5. CASE DequeueElem(t) \/ EnqueueElem(t)
    <2> DEFINE p == IF loc[t].i + 1 < loc[t].n THEN "copy" ELSE AfterCopy(t)
    <2>0. pc[t] = "copy" /\ pc[t] \in Working
      BY <1>5, <1>b DEF DequeueElem, EnqueueElem
    <2>1. p \in Working
      BY <2>0, AfterCopyIs
    <2>2. pc' = [pc EXCEPT ![t] = p] /\ r' = r /\ tail' = tail /\ hcnt' = hcnt /\ tcnt' = tcnt
          /\ head' = head /\ claimed' = claimed
      BY <1>5 DEF DequeueElem, EnqueueElem, Copied
    <2> HIDE DEF p
    <2>3. pc'[t] = p /\ \A u \in Threads : u # t => pc'[u] = pc[u]
      BY <1>a, <2>2
    <2>4. \A s \in Sides : claimed[s] <= claimed[s]
      BY SMT DEF RingInv, RingTypeOK
    <2> QED BY <1>b, <2>0, <2>1, <2>2, <2>3, <2>4 DEF Quiet
  <1>6. CASE UpdateTail(t) \/ HtsUpdateTail(t) \/ HtsSetHeadTail(t)
    BY <1>6, UpdateTailKeeps, HtsSetHeadTailKeeps
  <1>7. CASE StSetHead(t)
    <2> PICK s \in Sides : s = Side(t)
      BY DEF Side, Sides
    <2>0. /\ pc[t] = "publish" /\ pc[t] \in Working /\ FormInv(t) /\ SyncOf(t) = "ST"
          /\ claimed' = [claimed EXCEPT ![s] = base[t] + loc[t].n]
          /\ pc' = [pc EXCEPT ![t] = "update"] /\ r' = r /\ tail' = tail /\ hcnt' = hcnt /\ tcnt' = tcnt
          /\ \A z \in Sides : z # s => head'[z] = head[z]
      BY <1>7, <1>a DEF StSetHead, Working, RingInv, ThreadInv, RingTypeOK
    <2>1. pc'[t] = "update" /\ \A u \in Threads : u # t => pc'[u] = pc[u]
      BY <1>a, <2>0
    <2>2. base[t] + loc[t].n <= End(t) /\ End(t) <= claimed[s] /\ End(t) \in Nat /\ claimed[s] \in Nat
          /\ base[t] + loc[t].n \in Int
      <3>1. /\ base[t] + loc[t].n <= End(t) /\ End(t) <= claimed[s] /\ End(t) \in Nat
            /\ base[t] \in Nat /\ loc[t].n \in Nat
        BY <2>0, ClaimIs
      <3>2. claimed[s] \in Nat
        BY DEF RingInv, RingTypeOK
      <3> QED BY SMTT(20), <3>1, <3>2
    <2>3. \A z \in Sides : claimed'[z] <= claimed[z]
      BY SMTT(20), <1>a, <2>0, <2>2 DEF RingTypeOK
    <2>4. r[s] # "RTS"
      BY <2>0 DEF FormInv
    <2> QED BY <1>b, <2>0, <2>1, <2>3, <2>4 DEF Quiet
  <1>8. CASE RtsLoadTail(t) \/ RtsLoadHead(t)
    <2>1. \E l : \E p \in {"rts_head", "rts_cas"} : Private(t, p, l)
      BY <1>8, <1>a DEF RtsLoadTail, RtsLoadHead, Private
    <2>2. pc[t] \in Working
      BY <1>8, <1>b DEF RtsLoadTail, RtsLoadHead
    <2> QED BY <1>b, <2>1, <2>2, PrivateQuiet
  <1>9. CASE RtsMoveTail(t)
    <2>1. pc[t] \in Working
      BY <1>9, <1>b DEF RtsMoveTail
    <2> QED BY <1>9, <1>b, <2>1, RtsMoveTailKeeps, PrivateQuiet
  <1> QED BY <1>1, <1>2, <1>3, <1>4, <1>5, <1>6, <1>7, <1>8, <1>9 DEF Atom

LEMMA NextDoes ==
  ASSUME RingInv, Roomy, Next
  PROVE  \E t \in Threads : Quiet(t) \/ Claims(t) \/ \E s \in Sides : Moved(t, s)
  <1>b. Early \cap Working = {} /\ "idle" \notin Working \cup Early /\ "load" \in Early
        /\ {"copy", "publish", "started"} \subseteq Working
    BY DEF Early, Working
  <1>1. PICK t \in Threads :
           \/ \E n \in Burst, f \in IF Side(t) = "prod" THEN EnqueueForms ELSE DequeueForms :
                Begin(t, n, f) /\ (t \in Producers => claimed["prod"] < r.objects)
           \/ \E k \in Nat, after \in {"copy", "publish"} :
                Finish(t, k, after) /\ after = IF PeekEnqueue(t) THEN "copy" ELSE "publish"
           \/ Atom(t)
    BY NextIs
  <1>2. ASSUME NEW n, NEW f, Begin(t, n, f), t \in Producers => claimed["prod"] < r.objects
        PROVE  Quiet(t)
    <2>1. \E l : Private(t, "load", l)
      BY <1>2 DEF Begin, Private
    <2>2. pc[t] = "idle"
      BY <1>2 DEF Begin
    <2> QED BY <1>2, <1>b, <2>1, <2>2, PrivateQuiet
  <1>3. ASSUME NEW k, NEW after \in {"copy", "publish"}, Finish(t, k, after) PROVE Quiet(t)
    <2>1. \E l : \E p \in {"copy", "publish"} : Private(t, p, l)
      BY <1>3 DEF Finish, Private, RingInv, RingTypeOK
    <2>2. pc[t] \in Working
      BY <1>3, <1>b DEF Finish
    <2> QED BY <1>b, <2>1, <2>2, PrivateQuiet
  <1> QED BY <1>1, <1>2, <1>3, AtomDoes

-----------------------------------------------------------------------------
(***************************************************************************)
(* What the invariant says of the array.                                   *)
(***************************************************************************)
\* The slots of a thread are those of the objects it has claimed.
LEMMA SlotsAre ==
  ASSUME RingInv, NEW t \in Threads, pc[t] \in Working, NEW x \in Slots(t)
  PROVE  \E m \in Nat : x = Cell(m) /\ base[t] <= m /\ m < End(t)
  <1>1. PICK k \in 0..(loc[t].n - 1) : x = Slot(loc[t].old + k)
    BY DEF Slots
  <1>2. /\ loc[t].n \in Nat /\ base[t] \in Nat /\ loc[t].old \in Index
        /\ Num(loc[t].old) = base[t] /\ base[t] + loc[t].n <= End(t) /\ End(t) \in Nat
    BY ClaimIs
  <1>3. k \in Nat /\ base[t] + k \in Nat /\ base[t] <= base[t] + k /\ base[t] + k < End(t)
    BY SMT, <1>2
  <1>4. x = Cell(base[t] + k)
    BY <1>1, <1>2, <1>3, SlotIs
  <1> QED BY <1>3, <1>4

\* Two threads never claim the same object on one side, and what consumers have
\* claimed is published while what producers have claimed is not.
LEMMA ClaimsApart ==
  ASSUME RingInv, NEW t \in Threads, NEW u \in Threads, t # u,
         pc[t] \in Working, pc[u] \in Working,
         NEW m \in Nat, NEW k \in Nat, base[t] <= m, m < End(t), base[u] <= k, k < End(u)
  PROVE  m # k /\ m - k < Size /\ k - m < Size
  <1> PICK s \in Sides : s = Side(t)
    BY DEF Side, Sides
  <1> PICK z \in Sides : z = Side(u)
    BY DEF Side, Sides
  <1>1. /\ base[t] \in Nat /\ Pub(s) <= base[t] /\ End(t) <= claimed[s] /\ End(t) \in Nat
        /\ base[u] \in Nat /\ Pub(z) <= base[u] /\ End(u) <= claimed[z] /\ End(u) \in Nat
    BY ClaimIs
  <1>2. /\ PosInv /\ TypeFacts
    BY Basics DEF RingInv
  <1>3. /\ Pub("cons") <= claimed["cons"] /\ claimed["cons"] <= Pub("prod")
        /\ Pub("prod") <= claimed["prod"] /\ claimed["prod"] <= r.capacity + Pub("cons")
        /\ Pub("cons") \in Nat /\ Pub("prod") \in Nat /\ claimed["cons"] \in Nat
        /\ claimed["prod"] \in Nat /\ r.capacity \in Nat /\ r.capacity < Size /\ Size \in Nat
    BY <1>2 DEF PosInv, TypeFacts, Sides
  <1>4. s \in {"prod", "cons"} /\ z \in {"prod", "cons"}
    BY DEF Sides
  <1>5. /\ Pub("cons") <= m /\ m < r.capacity + Pub("cons")
        /\ Pub("cons") <= k /\ k < r.capacity + Pub("cons")
    BY SMTT(20), <1>1, <1>3, <1>4
  <1>6. m # k
    <2>1. CASE s = z
      <3>1. End(t) <= base[u] \/ End(u) <= base[t]
        BY <2>1 DEF RingInv, DisjInv, Works
      <3> QED BY SMTT(20), <1>1, <3>1
    <2>2. CASE s # z
      BY SMTT(20), <1>1, <1>3, <1>4, <2>2
    <2> QED BY <2>1, <2>2
  <1>7. m - k < Size /\ k - m < Size
    BY SMT, <1>3, <1>5
  <1> QED BY <1>6, <1>7

LEMMA SlotsDisjointHolds == ASSUME RingInv PROVE SlotsDisjoint
  <1> SUFFICES ASSUME NEW t \in Threads, NEW u \in Threads, t # u,
                      pc[t] \in Working, pc[u] \in Working, NEW x \in Slots(t), x \in Slots(u)
               PROVE  FALSE
    BY DEF SlotsDisjoint, InFlight
  <1>1. PICK m \in Nat : x = Cell(m) /\ base[t] <= m /\ m < End(t)
    BY SlotsAre
  <1>2. PICK k \in Nat : x = Cell(k) /\ base[u] <= k /\ k < End(u)
    BY SlotsAre
  <1>3. m # k /\ m - k < Size /\ k - m < Size
    BY <1>1, <1>2, ClaimsApart
  <1> QED BY <1>1, <1>2, <1>3, CellOne

LEMMA ObjectsInOrderHolds == ASSUME RingInv PROVE ObjectsInOrder
  BY DEF RingInv, ThreadInv, CopyInv, ObjectsInOrder, InFlight, Threads

\* The objects from a to b.
Between(a, b) == [k \in 1..(b - a) |-> a + (k - 1)]

LEMMA ContentsAre ==
  ASSUME RingInv
  PROVE  /\ Contents = Between(Pub("cons"), Pub("prod"))
         /\ Dist(tail["prod"], Start) = Pub("prod")
         /\ Pub("cons") \in Nat /\ Pub("prod") \in Nat /\ Pub("cons") <= Pub("prod")
         /\ Pub("prod") <= r.capacity + Pub("cons") /\ r.capacity \in Nat
  <1> PICK a : a = Pub("cons")
    OBVIOUS
  <1> PICK b : b = Pub("prod")
    OBVIOUS
  <1>1. PosInv /\ TypeFacts
    BY Basics DEF RingInv
  <1>2. /\ a <= claimed["cons"] /\ claimed["cons"] <= b /\ b <= claimed["prod"]
        /\ claimed["prod"] <= r.capacity + a /\ a \in Nat /\ b \in Nat
        /\ claimed["cons"] \in Nat /\ claimed["prod"] \in Nat /\ r.capacity \in Nat
    BY <1>1 DEF PosInv, TypeFacts, Sides
  <1>3. a <= b /\ b <= r.capacity + a
    BY SMTT(20), <1>2
  <1>4. tail["cons"] \in Index /\ tail["prod"] \in Index
    BY <1>1 DEF TypeFacts, Sides
  <1>5. Dist(tail["prod"], tail["cons"]) = b - a
    BY <1>3, <1>4, DistNum DEF Pub
  <1>6. ASSUME NEW k \in 1..(b - a) PROVE ring[Slot(tail["cons"] + k - 1)] = a + (k - 1)
    <2>1. k - 1 \in Nat /\ a + (k - 1) \in Nat /\ a <= a + (k - 1) /\ a + (k - 1) < b
      BY SMTT(20), <1>2, <1>3
    <2>2. Slot(tail["cons"] + (k - 1)) = Cell(a + (k - 1))
      BY <1>4, <2>1, SlotIs DEF Pub
    <2>3. ring[Cell(a + (k - 1))] = a + (k - 1)
      BY <2>1 DEF RingInv, HeldInv
    <2>4. tail["cons"] + (k - 1) = tail["cons"] + k - 1
      OBVIOUS
    <2> QED BY <2>2, <2>3, <2>4
  <1>7. Contents = Between(a, b)
    BY <1>5, <1>6 DEF Contents, Between
  <1>8. Dist(tail["prod"], Start) = b
    BY DEF Pub, Num
  <1> QED BY <1>2, <1>3, <1>7, <1>8

LEMMA BetweenSeq ==
  ASSUME NEW a \in Nat, NEW b \in Nat, a <= b
  PROVE  Between(a, b) \in Seq(Nat) /\ Len(Between(a, b)) = b - a
  <1>1. b - a \in Nat /\ \A k \in 1..(b - a) : a + (k - 1) \in Nat
    BY SMT
  <1> QED BY SMT, <1>1 DEF Between

LEMMA SameSeq ==
  ASSUME NEW s \in Seq(Nat), NEW u \in Seq(Nat), NEW n, Len(s) = n, Len(u) = n,
         \A i \in 1..n : s[i] = u[i]
  PROVE  s = u
  <1>1. s \in [1..n -> Nat] /\ u \in [1..n -> Nat]
    BY SMTT(20)
  <1> QED BY SMTT(20), <1>1

LEMMA BetweenAppend ==
  ASSUME NEW a \in Nat, NEW b \in Nat, NEW c \in Nat, a <= b, b <= c
  PROVE  Between(a, c) = Between(a, b) \o [i \in 1..(c - b) |-> b + i - 1]
  <1> DEFINE X == Between(a, b)  Y == [i \in 1..(c - b) |-> b + i - 1]  Z == Between(a, c)
  <1>1. X \in Seq(Nat) /\ Len(X) = b - a /\ Z \in Seq(Nat) /\ Len(Z) = c - a
    <2>1. a <= c
      BY SMT
    <2> QED BY <2>1, BetweenSeq
  <1>2. Y \in Seq(Nat) /\ Len(Y) = c - b
    <2>1. c - b \in Nat /\ \A i \in 1..(c - b) : b + i - 1 \in Nat
      BY SMTT(20)
    <2> QED BY SMTT(20), <2>1
  <1>3. \A i \in 1..(c - a) : Z[i] = a + (i - 1)
    BY DEF Between
  <1>4. \A i \in 1..(b - a) : X[i] = a + (i - 1)
    BY DEF Between
  <1>5. \A i \in 1..(c - b) : Y[i] = b + i - 1
    OBVIOUS
  <1> HIDE DEF X, Y, Z
  <1>6. X \o Y \in Seq(Nat) /\ Len(X \o Y) = c - a
    <2>1. X \o Y \in Seq(Nat)
      BY SMTT(20), <1>1, <1>2
    <2>3. Len(X \o Y) = Len(X) + Len(Y)
      <3>1. X \in Seq(Nat) /\ Y \in Seq(Nat)
        BY <1>1, <1>2
      <3> QED BY SMTT(20), <3>1
    <2>2. (b - a) + (c - b) = c - a
      BY SMT
    <2> QED BY <1>1, <1>2, <2>1, <2>2, <2>3
  <1>7. \A i \in 1..(c - a) : (X \o Y)[i] = Z[i]
    BY SMTT(20), <1>1, <1>2, <1>3, <1>4, <1>5
  <1>8. X \o Y = Z
    BY <1>1, <1>6, <1>7, SameSeq
  <1> QED BY <1>8 DEF X, Y, Z

LEMMA BetweenTail ==
  ASSUME NEW a \in Nat, NEW b \in Nat, NEW c \in Nat, a <= b, b <= c
  PROVE  Between(b, c) = SubSeq(Between(a, c), (b - a) + 1, c - a)
  <1> DEFINE X == Between(b, c)  Z == Between(a, c)  S == SubSeq(Z, (b - a) + 1, c - a)
  <1>1. X \in Seq(Nat) /\ Len(X) = c - b /\ Z \in Seq(Nat) /\ Len(Z) = c - a
    <2>1. a <= c
      BY SMT
    <2> QED BY <2>1, BetweenSeq
  <1>3. \A i \in 1..(c - a) : Z[i] = a + (i - 1)
    BY DEF Between
  <1>4. \A i \in 1..(c - b) : X[i] = b + (i - 1)
    BY DEF Between
  <1> HIDE DEF X, Z
  <1>6. S \in Seq(Nat) /\ Len(S) = c - b
    BY SMTT(20), <1>1
  <1>7. \A i \in 1..(c - b) : S[i] = X[i]
    BY SMTT(20), <1>1, <1>3, <1>4
  <1> HIDE DEF S
  <1>8. S = X
    BY <1>1, <1>6, <1>7, SameSeq
  <1> QED BY <1>8 DEF S, X, Z

-----------------------------------------------------------------------------
(***************************************************************************)
(* The steps.                                                              *)
(***************************************************************************)
LEMMA HeadWithinDistance ==
  ASSUME RingInv, Roomy, [Next]_vars, NEW s \in Sides, r[s] = "RTS", head'[s] # head[s]
  PROVE  Dist(head[s], tail[s]) <= r.htd_max
  <1>1. Next
    BY DEF vars
  <1>2. PICK t \in Threads : Quiet(t) \/ Claims(t) \/ \E z \in Sides : Moved(t, z)
    BY <1>1, NextDoes
  <1>3. ~Quiet(t)
    BY DEF Quiet
  <1>4. ASSUME NEW z \in Sides, Moved(t, z) PROVE FALSE
    BY <1>4 DEF Moved, Leaves
  <1>5. claimed[s] <= Pub(s) + r.htd_max
    <2> PICK z \in Sides, p \in Working :
          /\ ClaimEffect(t, z, p) /\ (r[z] = "RTS" => claimed[z] <= Pub(z) + r.htd_max)
      BY <1>2, <1>3, <1>4 DEF Claims
    <2> QED BY DEF ClaimEffect
  <1>6. TypeFacts /\ Num(head[s]) = claimed[s] /\ Pub(s) <= claimed[s]
    BY Basics, ClaimFits DEF RingInv, PosInv
  <1>7. Dist(head[s], tail[s]) = claimed[s] - Pub(s)
    BY <1>6, DistNum DEF TypeFacts, Pub
  <1>8. claimed[s] \in Nat /\ Pub(s) \in Nat /\ r.htd_max \in Nat
    BY <1>6 DEF TypeFacts
  <1> QED BY SMTT(20), <1>5, <1>7, <1>8

\* A step changes what is published on one side at most, and only adds to it.
LEMMA PubGrows ==
  ASSUME RingInv, RingInv', Roomy, [Next]_vars
  PROVE  /\ r' = r
         /\ \E s \in Sides : Pub(s) <= Pub(s)' /\ \A z \in Sides : z # s => Pub(z)' = Pub(z)
  <1>1. TypeFacts
    BY Basics DEF RingInv
  <1>2. ASSUME tail' = tail
        PROVE  \E s \in Sides : Pub(s) <= Pub(s)' /\ \A z \in Sides : z # s => Pub(z)' = Pub(z)
    <2>1. (\A z \in Sides : Pub(z)' = Pub(z)) /\ "prod" \in Sides
      BY <1>2 DEF Pub, Sides
    <2>2. Pub("prod") <= Pub("prod")'
      BY SMTT(20), <1>1, <2>1 DEF TypeFacts
    <2> QED BY <2>1, <2>2
  <1>3. CASE UNCHANGED vars
    BY <1>2, <1>3 DEF vars
  <1>4. CASE Next
    <2>1. PICK t \in Threads : Quiet(t) \/ Claims(t) \/ \E z \in Sides : Moved(t, z)
      BY <1>4, NextDoes
    <2>2. CASE Quiet(t) \/ Claims(t)
      BY <1>2, <2>2 DEF Quiet, Claims, ClaimEffect
    <2>3. CASE \E z \in Sides : Moved(t, z)
      <3> PICK s \in Sides : Moved(t, s)
        BY <2>3
      <3>1. r' = r /\ Pub(s) <= Pub(s)' /\ \A z \in Sides : z # s => tail'[z] = tail[z]
        BY DEF Moved, Leaves
      <3>2. \A z \in Sides : z # s => Pub(z)' = Pub(z)
        BY <3>1 DEF Pub
      <3> QED BY <3>1, <3>2
    <2> QED BY <2>1, <2>2, <2>3
  <1> QED BY <1>3, <1>4

LEMMA PubMoves ==
  ASSUME RingInv, RingInv', Roomy, [Next]_vars
  PROVE  \/ Pub("cons") <= Pub("cons")' /\ Pub("prod")' = Pub("prod")
         \/ Pub("prod") <= Pub("prod")' /\ Pub("cons")' = Pub("cons")
  <1>1. PICK s \in Sides : Num(tail[s]) <= Num(tail'[s])
                           /\ \A z \in Sides : z # s => Num(tail'[z]) = Num(tail[z])
    BY PubGrows DEF Pub
  <1>2. "prod" \in Sides /\ "cons" \in Sides /\ (s = "prod" \/ s = "cons") /\ "prod" # "cons"
    BY DEF Sides
  <1>3. \/ Num(tail["cons"]) <= Num(tail'["cons"]) /\ Num(tail'["prod"]) = Num(tail["prod"])
        \/ Num(tail["prod"]) <= Num(tail'["prod"]) /\ Num(tail'["cons"]) = Num(tail["cons"])
    BY <1>1, <1>2
  <1> QED BY <1>3 DEF Pub

LEMMA FifoStep ==
  ASSUME RingInv, RingInv', Roomy, [Next]_vars
  PROVE  [Fifo!Next]_<<r.capacity, Contents, Dist(tail["prod"], Start)>>
  <1> PICK a : a = Pub("cons")
    OBVIOUS
  <1> PICK b : b = Pub("prod")
    OBVIOUS
  <1> PICK c : c = Pub("cons")'
    OBVIOUS
  <1> PICK d : d = Pub("prod")'
    OBVIOUS
  <1>1. /\ Contents = Between(a, b) /\ Dist(tail["prod"], Start) = b
        /\ a \in Nat /\ b \in Nat /\ a <= b /\ b <= r.capacity + a /\ r.capacity \in Nat
    BY ContentsAre
  <1>p. RingInv => /\ Contents = Between(Pub("cons"), Pub("prod"))
                   /\ Dist(tail["prod"], Start) = Pub("prod")
                   /\ Pub("cons") \in Nat /\ Pub("prod") \in Nat /\ Pub("cons") <= Pub("prod")
                   /\ Pub("prod") <= r.capacity + Pub("cons") /\ r.capacity \in Nat
    BY ContentsAre
  <1>2. /\ Contents' = Between(c, d) /\ Dist(tail'["prod"], Start) = d
        /\ c \in Nat /\ d \in Nat /\ c <= d /\ d <= r'.capacity + c
    <2>1. (RingInv => /\ Contents = Between(Pub("cons"), Pub("prod"))
                   /\ Dist(tail["prod"], Start) = Pub("prod")
                   /\ Pub("cons") \in Nat /\ Pub("prod") \in Nat /\ Pub("cons") <= Pub("prod")
                   /\ Pub("prod") <= r.capacity + Pub("cons") /\ r.capacity \in Nat)'
      BY ContentsAre, PTL
    <2> QED BY <2>1
  <1>3. r' = r /\ ((a <= c /\ d = b) \/ (b <= d /\ c = a))
    BY PubGrows, PubMoves
  <1>4. CASE a = c /\ b = d
    <2>1. Contents' = Contents /\ r'.capacity = r.capacity
          /\ Dist(tail'["prod"], Start) = Dist(tail["prod"], Start)
      BY <1>1, <1>2, <1>3, <1>4
    <2> QED BY <2>1
  <1>5. CASE a = c /\ b # d
    <2>0. b <= d
      BY <1>3, <1>5
    <2> DEFINE k == d - b
    <2>1. k \in 1..r.capacity /\ d = b + k /\ (b - a) + k <= r.capacity
      BY SMTT(20), <1>1, <1>2, <1>3, <1>5, <2>0
    <2>2. Between(c, d) = Between(a, b) \o [i \in 1..k |-> b + i - 1]
      <3>1. Between(a, d) = Between(a, b) \o [i \in 1..(d - b) |-> b + i - 1]
        BY ZenonT(30), <1>1, <1>2, <2>0, BetweenAppend
      <3> QED BY <1>5, <3>1
    <2>3. Len(Between(a, b)) = b - a
      BY <1>1, BetweenSeq
    <2> HIDE DEF k
    <2>4. Fifo!Enqueue(k)
      BY <1>1, <1>2, <1>3, <2>1, <2>2, <2>3 DEF Fifo!Enqueue
    <2> QED BY <2>1, <2>4 DEF Fifo!Next
  <1>6. CASE a # c
    <2>0. a <= c /\ d = b
      BY <1>3, <1>6
    <2> DEFINE k == c - a
    <2>1. k \in 1..r.capacity /\ k <= b - a /\ c <= b
      BY SMTT(20), <1>1, <1>2, <1>3, <1>6, <2>0
    <2>2. Between(c, d) = SubSeq(Between(a, b), k + 1, b - a)
      <3>1. Between(c, b) = SubSeq(Between(a, b), (c - a) + 1, b - a)
        BY <1>1, <1>2, <2>0, <2>1, BetweenTail
      <3> QED BY <2>0, <3>1
    <2>3. Len(Between(a, b)) = b - a
      BY <1>1, BetweenSeq
    <2> HIDE DEF k
    <2>4. Fifo!Dequeue(k)
      BY <1>1, <1>2, <1>3, <2>0, <2>1, <2>2, <2>3 DEF Fifo!Dequeue
    <2> QED BY <2>1, <2>4 DEF Fifo!Next
  <1> QED BY <1>4, <1>5, <1>6

LEMMA FifoStart == ASSUME Init PROVE Fifo!Init
  <1>1. RingInv
    BY RingStart
  <1>2. Pub("cons") = 0 /\ Pub("prod") = 0
    <2>1. tail["cons"] = Start /\ tail["prod"] = Start /\ Start \in Index
      BY SizeAssumption DEF Init, Sides
    <2>2. Num(Start) = 0
      BY SMTT(20), <2>1, NumIs, SizeAssumption DEF Index
    <2> QED BY <2>1, <2>2 DEF Pub
  <1>3. Contents = Between(0, 0) /\ Dist(tail["prod"], Start) = 0 /\ r.capacity \in Nat
    BY <1>1, <1>2, ContentsAre
  <1>4. Between(0, 0) = << >>
    <2>1. Between(0, 0) \in Seq(Nat) /\ Len(Between(0, 0)) = 0
      BY SMTT(20), BetweenSeq
    <2> QED BY SMT, <2>1
  <1> QED BY <1>3, <1>4 DEF Fifo!Init

-----------------------------------------------------------------------------
(***************************************************************************)
(* Counting threads.                                                       *)
(***************************************************************************)
\* The producers that have begun a call and not claimed yet.
Pre == {t \in Producers : pc[t] \in Early}

\* Each of them may still add a burst to what is claimed.
CapInv ==
  Pre # {} => claimed["prod"] + (MaxBurst * Cardinality(Pre))
                < r.objects + (MaxBurst * Cardinality(Producers))

Workers(s) == {t \in Threads : Works(t, s)}

CntInv ==
  \A s \in Sides :
    r[s] = "RTS" => Num(hcnt[s]) = Num(tcnt[s]) + Cardinality(Workers(s))

LEMMA TimesMono ==
  ASSUME NEW b \in Nat, NEW m \in Nat, NEW n \in Nat, m <= n PROVE b * m <= b * n
  <1>1. \E d \in Nat : n = m + d
    <2>1. n - m \in Nat /\ n = m + (n - m)
      BY SMT
    <2> QED BY <2>1
  <1>2. PICK d \in Nat : n = m + d
    BY <1>1
  <1>3. b * n = (b * m) + (b * d) /\ b * m \in Nat /\ b * d \in Nat
    BY SMTT(20), <1>2
  <1> QED BY SMTT(20), <1>3

LEMMA Counts ==
  /\ IsFiniteSet(Threads) /\ IsFiniteSet(Producers)
  /\ Cardinality(Pre) \in Nat /\ Cardinality(Producers) \in Nat
  /\ IsFiniteSet(Pre) /\ Cardinality(Pre) <= Cardinality(Producers)
  /\ \A s : IsFiniteSet(Workers(s)) /\ Cardinality(Workers(s)) \in Nat
  <1>1. IsFiniteSet(Threads) /\ IsFiniteSet(Producers)
    BY ThreadsAssumption, FS_Union DEF Threads
  <1>2. Pre \subseteq Producers /\ \A s : Workers(s) \subseteq Threads
    BY DEF Pre, Workers
  <1>3. IsFiniteSet(Pre) /\ Cardinality(Pre) <= Cardinality(Producers)
    BY <1>1, <1>2, FS_Subset
  <1>4. \A s : IsFiniteSet(Workers(s))
    BY <1>1, <1>2, FS_Subset
  <1> QED BY <1>1, <1>3, <1>4, FS_CardinalityType

PreCount ==
  Cardinality(Pre) \in Nat /\ IsFiniteSet(Pre) /\ Cardinality(Pre) <= Cardinality(Producers)

LEMMA PreCounts == PreCount
  BY Counts DEF PreCount

LEMMA NumNat == ASSUME NEW x \in Index PROVE Num(x) \in Nat
  <1>1. Num(x) \in Index
    BY NumIs
  <1> QED BY SMTT(20), <1>1 DEF Index

LEMMA RoomyHolds == ASSUME RingInv, CapInv PROVE Roomy
  <1> SUFFICES ASSUME NEW t \in Producers, pc[t] \in {"move", "cmpset"}
               PROVE  claimed["prod"] + loc[t].n < Mod
    BY DEF Roomy
  <1>0. t \in Threads
    BY DEF Threads
  <1>1. t \in Pre
    BY DEF Pre, Early
  <1>2. Cardinality(Pre) # 0
    BY <1>1, Counts, FS_EmptySet
  <1>3. 1 <= Cardinality(Pre) /\ 1 \in Nat
    BY SMTT(20), <1>2, Counts
  <1>4. MaxBurst * 1 <= MaxBurst * Cardinality(Pre)
    BY <1>3, Counts, TimesMono, SizeAssumption
  <1>5. FormInv(t) /\ LoadInv(t)
    BY <1>0 DEF RingInv, ThreadInv
  <1>6. loc[t].n <= loc[t].max /\ loc[t].max <= MaxBurst
    BY <1>5 DEF FormInv, LoadInv
  <1>7. loc[t].n \in Nat /\ loc[t].max \in Nat /\ claimed["prod"] \in Nat
    BY <1>0, LocalsAre DEF RingInv, RingTypeOK, Sides
  <1>8. r.objects + (MaxBurst * Cardinality(Producers)) < Mod
    BY LapAssumption DEF RingInv, RingTypeOK
  <1>9. claimed["prod"] + (MaxBurst * Cardinality(Pre))
          < r.objects + (MaxBurst * Cardinality(Producers))
    BY <1>1 DEF CapInv
  <1>10. r.objects \in Nat
    BY RingsAssumption, SMTT(20) DEF RingInv, RingTypeOK
  <1>11. MaxBurst * Cardinality(Pre) \in Nat /\ MaxBurst * Cardinality(Producers) \in Nat
    BY SMTT(20), Counts, SizeAssumption
  <1>12. MaxBurst * 1 = MaxBurst
    BY SMTT(20), SizeAssumption
  <1> HIDE DEF Pre
  <1> QED BY SMTT(20), <1>4, <1>6, <1>7, <1>8, <1>9, <1>10, <1>11, <1>12, SizeAssumption

LEMMA CountedHolds == ASSUME RingInv, CntInv PROVE Counted
  <1> SUFFICES ASSUME NEW s \in Sides, r[s] = "RTS"
               PROVE  /\ Num(tcnt[s]) <= Num(hcnt[s])
                      /\ \A t \in Threads : Works(t, s) => Num(tcnt[s]) < Num(hcnt[s])
                      /\ Num(hcnt[s]) = Num(tcnt[s]) + 1 =>
                           \A t, u \in Threads : Works(t, s) /\ Works(u, s) => t = u
    BY DEF Counted
  <1> PICK k : k = Cardinality(Workers(s))
    OBVIOUS
  <1>1. /\ Num(hcnt[s]) = Num(tcnt[s]) + k /\ k \in Nat /\ IsFiniteSet(Workers(s))
        /\ Num(hcnt[s]) \in Nat /\ Num(tcnt[s]) \in Nat
    <2>1. hcnt[s] \in Index /\ tcnt[s] \in Index
      BY DEF RingInv, RingTypeOK
    <2>2. Num(hcnt[s]) \in Nat /\ Num(tcnt[s]) \in Nat
      BY <2>1, NumNat
    <2>3. Num(hcnt[s]) = Num(tcnt[s]) + k
      BY DEF CntInv
    <2> QED BY <2>2, <2>3, Counts
  <1>2. ASSUME NEW t \in Threads, Works(t, s) PROVE k # 0
    <2>1. t \in Workers(s)
      BY <1>2 DEF Workers
    <2> QED BY <1>1, <2>1, FS_EmptySet
  <1>3. ASSUME k = 1, NEW t \in Threads, NEW u \in Threads, Works(t, s), Works(u, s) PROVE t = u
    <2>1. t \in Workers(s) /\ u \in Workers(s)
      BY <1>3 DEF Workers
    <2>2. PICK x : Workers(s) = {x}
      BY <1>1, <1>3, FS_Singleton
    <2> QED BY <2>1, <2>2
  <1>4. Num(tcnt[s]) <= Num(hcnt[s]) /\ (k # 0 => Num(tcnt[s]) < Num(hcnt[s]))
        /\ (Num(hcnt[s]) = Num(tcnt[s]) + 1 => k = 1)
    BY SMTT(20), <1>1
  <1> QED BY <1>2, <1>3, <1>4


LEMMA CapKeeps == ASSUME RingInv, RingInv', CapInv, [Next]_vars PROVE CapInv'
  <1> SUFFICES ASSUME Pre' # {}
               PROVE  claimed'["prod"] + (MaxBurst * Cardinality(Pre'))
                        < r'.objects + (MaxBurst * Cardinality(Producers))
    BY DEF CapInv
  <1> PICK c : c = claimed["prod"]
    OBVIOUS
  <1> PICK d : d = claimed'["prod"]
    OBVIOUS
  <1> PICK a : a = MaxBurst * Cardinality(Pre)
    OBVIOUS
  <1> PICK b : b = MaxBurst * Cardinality(Pre')
    OBVIOUS
  <1> PICK z : z = MaxBurst * Cardinality(Producers)
    OBVIOUS
  <1>0. /\ Cardinality(Pre') \in Nat /\ IsFiniteSet(Pre')
        /\ Cardinality(Pre') <= Cardinality(Producers)
    <2>1. PreCount'
      BY PreCounts, PTL
    <2> QED BY <2>1 DEF PreCount
  <1>1. c \in Nat /\ d \in Nat
    BY DEF RingInv, RingTypeOK, Sides
  <1>2. a \in Nat /\ b \in Nat /\ z \in Nat
    BY SMTT(20), <1>0, Counts, SizeAssumption
  <1>3. b <= z
    BY <1>0, Counts, TimesMono, SizeAssumption
  <1>4. r.objects \in Nat
    BY RingsAssumption, SMTT(20) DEF RingInv, RingTypeOK
  <1>5. ASSUME Pre' \subseteq Pre, r' = r, d <= c PROVE d + b < r'.objects + z
    <2>1. Cardinality(Pre') <= Cardinality(Pre)
      BY <1>5, Counts, FS_Subset
    <2>2. b <= a
      BY <1>0, <2>1, Counts, TimesMono, SizeAssumption
    <2>3. c + a < r.objects + z
      BY <1>5 DEF CapInv
    <2> QED BY SMTT(20), <1>1, <1>2, <1>4, <1>5, <2>2, <2>3
  <1>6. CASE UNCHANGED vars
    <2>1. Pre' = Pre /\ r' = r /\ d = c
      BY <1>6 DEF vars, Pre
    <2>2. d <= c
      BY SMTT(20), <1>1, <2>1
    <2> QED BY <1>5, <2>1, <2>2
  <1>7. CASE Next
    <2>1. PICK t \in Threads : Quiet(t) \/ Claims(t) \/ \E s \in Sides : Moved(t, s)
      BY <1>7, RoomyHolds, NextDoes
    <2>2. /\ r' = r
          /\ \A u \in Threads : u # t => pc'[u] = pc[u]
      BY <2>1 DEF Quiet, Claims, ClaimEffect, Moved, Leaves, Rests
    <2>3. Pre' \subseteq Pre \cup {t}
      BY <2>2 DEF Pre, Threads
    <2>b. Early \cap Working = {} /\ "idle" \notin Working \cup Early
      BY DEF Early, Working
    <2>4. CASE Quiet(t)
      <3>1. d <= c
        BY <2>4 DEF Quiet, Sides
      <3>2. CASE Pre' \subseteq Pre
        BY <1>5, <2>2, <3>1, <3>2
      <3>3. CASE ~(Pre' \subseteq Pre)
        <4>1. t \in Producers /\ pc'[t] \in Early /\ pc[t] \notin Early
          BY <2>3, <3>3 DEF Pre
        <4>2. c < r.objects
          BY <2>4, <4>1 DEF Quiet
        <4> QED BY SMTT(20), <1>1, <1>2, <1>3, <1>4, <2>2, <3>1, <4>2
      <3> QED BY <3>2, <3>3
    <2>5. CASE Claims(t)
      <3> PICK s \in Sides, p \in Working :
            /\ s = Side(t) /\ pc[t] \in Early /\ ClaimEffect(t, s, p)
            /\ loc[t].n \in Nat /\ loc[t].n <= MaxBurst
        BY <2>5 DEF Claims
      <3>1. pc'[t] \notin Early
        BY <2>b DEF ClaimEffect
      <3>2. Pre' = Pre \ {t}
        <4>1. \A u \in Producers : pc'[u] \in Early <=> pc[u] \in Early /\ u # t
          BY <2>2, <3>1 DEF Threads
        <4> QED BY <4>1 DEF Pre
      <3>3. CASE t \notin Producers
        <4>1. s # "prod"
          BY <3>3 DEF Side
        <4>2. d = c
          BY <4>1 DEF ClaimEffect, Sides
        <4>3. d <= c
          BY SMTT(20), <1>1, <4>2
        <4> QED BY <1>5, <2>2, <3>2, <4>3
      <3>4. CASE t \in Producers
        <4>1. s = "prod" /\ t \in Pre
          BY <3>4 DEF Side, Pre
        <4>2. d = c + loc[t].n
          BY <4>1 DEF ClaimEffect
        <4>3. Cardinality(Pre') = Cardinality(Pre) - 1
          BY <3>2, <4>1, Counts, FS_RemoveElement
        <4>4. Cardinality(Pre) = Cardinality(Pre') + 1
          BY SMTT(20), <1>0, <4>3, Counts
        <4>5. a = b + MaxBurst
          BY SMTT(20), <1>0, <4>4, SizeAssumption
        <4>6. c + a < r.objects + z
          BY <4>1 DEF CapInv
        <4> QED BY SMTT(20), <1>1, <1>2, <1>4, <2>2, <4>2, <4>5, <4>6, SizeAssumption
      <3> QED BY <3>3, <3>4
    <2>6. CASE \E s \in Sides : Moved(t, s)
      <3> PICK s \in Sides : Moved(t, s)
        BY <2>6
      <3>1. pc'[t] \notin Early
        BY <2>b DEF Moved, Leaves
      <3>2. Pre' \subseteq Pre
        BY <2>3, <3>1 DEF Pre
      <3>3. claimed'[s] <= claimed[s] /\ (s # "prod" => d = c)
        BY DEF Moved, Leaves, Sides
      <3>4. d <= c
        BY SMTT(20), <1>1, <3>3
      <3> QED BY <1>5, <2>2, <3>2, <3>4
    <2> QED BY <2>1, <2>4, <2>5, <2>6
  <1> QED BY <1>6, <1>7

LEMMA CntKeeps == ASSUME RingInv, CapInv, RingInv', CntInv, [Next]_vars PROVE CntInv'
  <1> SUFFICES ASSUME NEW s \in Sides, r'[s] = "RTS"
               PROVE  Num(hcnt'[s]) = Num(tcnt'[s]) + Cardinality(Workers(s)')
    BY DEF CntInv, Num, Dist
  <1>0. /\ Num(hcnt[s]) \in Nat /\ Num(tcnt[s]) \in Nat
        /\ Num(hcnt'[s]) \in Nat /\ Num(tcnt'[s]) \in Nat
    <2>1. hcnt[s] \in Index /\ tcnt[s] \in Index /\ hcnt'[s] \in Index /\ tcnt'[s] \in Index
      BY DEF RingInv, RingTypeOK
    <2> QED BY <2>1, NumNat
  <1>1. r' = r => Num(hcnt[s]) = Num(tcnt[s]) + Cardinality(Workers(s))
    BY DEF CntInv
  <1>2. IsFiniteSet(Workers(s)) /\ Cardinality(Workers(s)) \in Nat
    BY Counts
  <1>3. CASE UNCHANGED vars
    <2>1. Workers(s)' = Workers(s) /\ hcnt' = hcnt /\ tcnt' = tcnt /\ r' = r
      BY <1>3 DEF vars, Workers, Works
    <2> QED BY <1>1, <2>1
  <1>4. CASE Next
    <2>1. PICK t \in Threads : Quiet(t) \/ Claims(t) \/ \E z \in Sides : Moved(t, z)
      BY <1>4, RoomyHolds, NextDoes
    <2>2. r' = r /\ \A u \in Threads : u # t => pc'[u] = pc[u]
      BY <2>1 DEF Quiet, Claims, ClaimEffect, Moved, Leaves, Rests
    <2>b. Early \cap Working = {} /\ "idle" \notin Working \cup Early
      BY DEF Early, Working
    <2>3. CASE pc'[t] \in Working <=> pc[t] \in Working
      <3>1. Workers(s)' = Workers(s)
        <4>1. \A u \in Threads : Works(u, s)' <=> Works(u, s)
          BY <2>2, <2>3 DEF Works, Side
        <4> QED BY <4>1 DEF Workers
      <3>2. Quiet(t)
        BY <2>1, <2>3, <2>b DEF Claims, ClaimEffect, Moved, Leaves, Works
      <3> QED BY <1>1, <2>2, <3>1, <3>2 DEF Quiet
    <2>4. CASE Claims(t)
      <3> PICK z \in Sides, p \in Working :
            z = Side(t) /\ pc[t] \in Early /\ ClaimEffect(t, z, p)
        BY <2>4 DEF Claims
      <3>1. pc[t] \notin Working /\ pc'[t] \in Working
        BY <2>b DEF ClaimEffect
      <3>2. CASE z = s
        <4>1. Workers(s)' = Workers(s) \cup {t} /\ t \notin Workers(s)
          <5>1. \A u \in Threads : Works(u, s)' <=> Works(u, s) \/ u = t
            BY <2>2, <3>1, <3>2 DEF Works, Side
          <5> QED BY <3>1, <5>1 DEF Workers, Works
        <4>2. Cardinality(Workers(s)') = Cardinality(Workers(s)) + 1
          BY <1>2, <4>1, FS_AddElement
        <4>3. Num(hcnt'[s]) = Num(hcnt[s]) + 1 /\ tcnt' = tcnt
          BY <2>2, <3>2 DEF ClaimEffect
        <4>4. Num(tcnt'[s]) = Num(tcnt[s])
          BY <4>3
        <4> QED BY SMTT(20), <1>0, <1>1, <1>2, <2>2, <4>2, <4>3, <4>4
      <3>3. CASE z # s
        <4>1. Workers(s)' = Workers(s)
          <5>1. \A u \in Threads : Works(u, s)' <=> Works(u, s)
            BY <2>2, <3>3 DEF Works, Side
          <5> QED BY <5>1 DEF Workers
        <4>2. hcnt'[s] = hcnt[s] /\ tcnt' = tcnt
          BY <3>3 DEF ClaimEffect
        <4> QED BY <1>1, <2>2, <4>1, <4>2
      <3> QED BY <3>2, <3>3
    <2>5. CASE \E z \in Sides : Moved(t, z)
      <3> PICK z \in Sides : Moved(t, z)
        BY <2>5
      <3>1. pc[t] \in Working /\ pc'[t] \notin Working /\ z = Side(t)
        BY <2>b DEF Moved, Leaves, Works
      <3>2. CASE z = s
        <4>1. Workers(s)' = Workers(s) \ {t} /\ t \in Workers(s)
          <5>1. \A u \in Threads : Works(u, s)' <=> Works(u, s) /\ u # t
            BY <2>2, <3>1, <3>2 DEF Works, Side
          <5> QED BY <3>1, <3>2, <5>1 DEF Workers, Works
        <4>2. Cardinality(Workers(s)') = Cardinality(Workers(s)) - 1
          BY <1>2, <4>1, FS_RemoveElement
        <4>3. Num(tcnt'[s]) = Num(tcnt[s]) + 1 /\ hcnt' = hcnt
          BY <2>2, <3>2 DEF Moved, Leaves
        <4>4. Num(hcnt'[s]) = Num(hcnt[s])
          BY <4>3
        <4> QED BY SMTT(20), <1>0, <1>1, <1>2, <2>2, <4>2, <4>3, <4>4
      <3>3. CASE z # s
        <4>1. Workers(s)' = Workers(s)
          <5>1. \A u \in Threads : Works(u, s)' <=> Works(u, s)
            BY <2>2, <3>1, <3>3 DEF Works, Side
          <5> QED BY <5>1 DEF Workers
        <4>2. hcnt' = hcnt /\ tcnt'[s] = tcnt[s]
          BY <3>3 DEF Moved, Leaves
        <4> QED BY <1>1, <2>2, <4>1, <4>2
      <3> QED BY <3>2, <3>3
    <2>6. Quiet(t) => (pc'[t] \in Working <=> pc[t] \in Working)
      BY DEF Quiet
    <2> QED BY <2>1, <2>3, <2>4, <2>5, <2>6
  <1> QED BY <1>3, <1>4


LEMMA CountStart == ASSUME Init PROVE CapInv /\ CntInv
  <1>1. \A t \in Threads : pc[t] = "idle"
    BY DEF Init
  <1>2. Pre = {} /\ \A s : Workers(s) = {}
    BY <1>1 DEF Pre, Early, Workers, Works, Working, Threads
  <1>3. Cardinality({}) = 0
    BY FS_EmptySet
  <1>4. ASSUME NEW s \in Sides PROVE Num(hcnt[s]) = Num(tcnt[s]) + Cardinality(Workers(s))
    <2>1. hcnt[s] = Start /\ tcnt[s] = Start /\ Start \in Index
      BY SizeAssumption DEF Init
    <2>2. Num(Start) \in Nat
      BY <2>1, NumNat
    <2>3. Num(Start) = Num(Start) + 0
      BY SMTT(20), <2>2
    <2>4. Cardinality(Workers(s)) = 0
      BY <1>2, <1>3
    <2> QED BY <2>1, <2>3, <2>4
  <1> QED BY <1>2, <1>4 DEF CapInv, CntInv

\* The inductive invariant.
FullInv == RingInv /\ CapInv /\ CntInv

LEMMA FullStep == ASSUME ExchangeAtomic PROVE FullInv /\ [Next]_vars => FullInv'
  <1> SUFFICES ASSUME FullInv, [Next]_vars PROVE FullInv'
    OBVIOUS
  <1>1. RingInv /\ CapInv /\ CntInv
    BY DEF FullInv
  <1>2. RingInv'
    BY <1>1, RoomyHolds, CountedHolds, NextKeeps
  <1>3. CapInv' /\ CntInv'
    BY <1>1, <1>2, CapKeeps, CntKeeps
  <1> QED BY <1>2, <1>3 DEF FullInv

-----------------------------------------------------------------------------
\* For all numbers of threads, all sync types of the two sides, all sizes and
\* all places where the indices start: the ring keeps its invariant, where the
\* exchange of an MT head is atomic (__rte_ring_move_prod_head and the rest of
\* the *_pvt.h files).
THEOREM RingInvariant == ASSUME ExchangeAtomic PROVE Spec => []FullInv
  <1>1. Init => FullInv
    BY RingStart, CountStart DEF FullInv
  <1>2. FullInv /\ [Next]_vars => FullInv'
    BY FullStep
  <1> QED BY <1>1, <1>2, PTL DEF Spec

\* Under the same assumption, no slot is written by a thread while another one
\* reads or writes it (__rte_ring_enqueue_elems, __rte_ring_dequeue_elems).
THEOREM SlotsAreDisjoint == ASSUME ExchangeAtomic PROVE Spec => []SlotsDisjoint
  <1>1. FullInv => SlotsDisjoint
    BY SlotsDisjointHolds DEF FullInv
  <1> QED BY <1>1, RingInvariant, PTL

\* Under the same assumption, a consumer copies out the objects that were
\* enqueued at the positions it claimed (__rte_ring_dequeue_elems).
THEOREM ObjectsAreInOrder == ASSUME ExchangeAtomic PROVE Spec => []ObjectsInOrder
  <1>1. FullInv => ObjectsInOrder
    BY ObjectsInOrderHolds DEF FullInv
  <1> QED BY <1>1, RingInvariant, PTL

\* Under the same assumption, the head of an RTS side moves only while it is at
\* most htd_max ahead of its tail (__rte_ring_rts_head_wait).
THEOREM RtsHeadIsWithinDistance ==
  ASSUME ExchangeAtomic PROVE Spec => RtsHeadWithinDistance
  <1>1. FullInv /\ [Next]_vars =>
          [\A s \in Sides : r[s] = "RTS" /\ head'[s] # head[s]
             => Dist(head[s], tail[s]) <= r.htd_max]_vars
    BY HeadWithinDistance, RoomyHolds DEF FullInv
  <1> QED BY <1>1, RingInvariant, PTL DEF Spec, RtsHeadWithinDistance

\* Under the same assumption, what the array holds between the two tails is a
\* bounded FIFO queue: a tail of the producers appends the next objects, a tail
\* of the consumers removes the oldest ones, nothing else changes it
\* (update_tail, __rte_ring_hts_update_tail, __rte_ring_rts_update_tail).
THEOREM RingIsBoundedFifo == ASSUME ExchangeAtomic PROVE Spec => ImplementsBoundedFifo
  <1>1. Init => Fifo!Init
    BY FifoStart
  <1>2. FullInv /\ FullInv' /\ [Next]_vars
          => [Fifo!Next]_<<r.capacity, Contents, Dist(tail["prod"], Start)>>
    BY FifoStep, RoomyHolds DEF FullInv
  <1> QED BY <1>1, <1>2, RingInvariant, PTL DEF Spec, ImplementsBoundedFifo, Fifo!Spec

-----------------------------------------------------------------------------
(***************************************************************************)
(* rte_ring_count and rte_ring_empty, while the ring is in use.            *)
(***************************************************************************)
\* What is known between the two loads: the producer tail that was loaded may
\* lie behind, but then two different numbers of entries have been held; and
\* if the consumers have passed it, the ring was not empty before they did.
ObserverInv ==
  /\ opc \in {"idle", "loaded"}
  /\ opc = "loaded" =>
       /\ ptail \in Index /\ Num(ptail) <= Pub("prod")
       /\ IsFiniteSet(seen) /\ Held \in seen
       /\ \/ ptail = tail["prod"] /\ seen = {Held}
          \/ \E j, k \in seen : j # k
       /\ Num(ptail) < Pub("cons") => \E k \in seen : k > 0
  /\ QueriesHonest

HeldFacts ==
  /\ Held = Pub("prod") - Pub("cons") /\ Held \in Nat /\ Held <= r.capacity
  /\ Pub("cons") \in Nat /\ Pub("prod") \in Nat /\ Pub("cons") <= Pub("prod")
  /\ tail["cons"] \in Index /\ tail["prod"] \in Index
  /\ r.capacity \in Nat /\ r.capacity < Size /\ Size \in Nat

LEMMA HeldIs == ASSUME RingInv PROVE HeldFacts
  <1>1. TypeFacts
    BY Basics DEF RingInv
  <1>2. /\ Pub("cons") \in Nat /\ Pub("prod") \in Nat /\ Pub("cons") <= Pub("prod")
        /\ Pub("prod") <= r.capacity + Pub("cons") /\ r.capacity \in Nat
    BY ContentsAre
  <1>3. /\ tail["cons"] \in Index /\ tail["prod"] \in Index /\ r.capacity < Size /\ Size \in Nat
    BY <1>1 DEF TypeFacts, Sides
  <1>4. Held = Pub("prod") - Pub("cons")
    BY <1>2, <1>3, DistNum DEF Held, Pub
  <1>5. Held \in Nat /\ Held <= r.capacity
    BY SMTT(20), <1>2, <1>4
  <1> QED BY <1>2, <1>3, <1>4, <1>5 DEF HeldFacts

LEMMA LoadProdTailKeeps == ASSUME RingInv, ObserverInv, LoadProdTail PROVE ObserverInv'
  <1>1. /\ opc' = "loaded" /\ ptail' = tail["prod"] /\ seen' = {Held} /\ tail' = tail
    BY DEF LoadProdTail, vars
  <1>2. HeldFacts
    BY HeldIs
  <1>3. Held' = Held /\ Pub("prod")' = Pub("prod") /\ Pub("cons")' = Pub("cons")
    BY <1>1 DEF Held, Pub
  <1>4. Num(ptail') = Pub("prod")
    BY <1>1 DEF Pub
  <1>5. Pub("prod") <= Pub("prod") /\ ~(Pub("prod") < Pub("cons"))
    BY SMTT(20), <1>2 DEF HeldFacts
  <1>6. IsFiniteSet(seen')
    BY <1>1, FS_Singleton
  <1>7. Num(ptail)' = Num(ptail')
    BY DEF Num, Dist
  <1> QED BY <1>1, <1>2, <1>3, <1>4, <1>5, <1>6, <1>7
          DEF ObserverInv, QueriesHonest, Returned, HeldFacts

LEMMA LoadConsTailKeeps == ASSUME RingInv, ObserverInv, LoadConsTail PROVE ObserverInv'
  <1>1. /\ opc = "loaded" /\ opc' = "idle" /\ seen' = seen
        /\ count' = CountOf(ptail, tail["cons"]) /\ empty' = (tail["cons"] = ptail)
    BY DEF LoadConsTail
  <1>2. HeldFacts
    BY HeldIs
  <1>3. /\ ptail \in Index /\ Num(ptail) <= Pub("prod")
        /\ IsFiniteSet(seen) /\ Held \in seen
        /\ \/ ptail = tail["prod"] /\ seen = {Held}
           \/ \E j, k \in seen : j # k
        /\ Num(ptail) < Pub("cons") => \E k \in seen : k > 0
    BY <1>1 DEF ObserverInv
  <1>4. ASSUME ~empty' PROVE \E k \in seen : k > 0
    <2>1. Num(ptail) # Pub("cons")
      BY <1>1, <1>2, <1>3, <1>4, NumOne DEF HeldFacts, Pub
    <2>2. Num(ptail) \in Nat
      BY <1>3, NumNat
    <2>3. Num(ptail) < Pub("cons") \/ Held > 0
      BY SMTT(20), <1>2, <1>3, <2>1, <2>2 DEF HeldFacts
    <2> QED BY <1>3, <2>3
  <1>5. ASSUME Cardinality(seen) = 1 PROVE seen = {count'}
    <2>1. PICK y : seen = {y}
      BY <1>3, <1>5, FS_Singleton
    <2>2. ptail = tail["prod"] /\ seen = {Held}
      BY <1>3, <2>1
    <2>3. Held % Size = Held /\ ~(Held > r.capacity)
      <3>1. /\ Size \in Nat \ {0} /\ Held \in Int /\ 0 \in Int /\ Held \in 0..(Size - 1)
            /\ Held = Size * 0 + Held /\ ~(Held > r.capacity)
        BY SMTT(20), <1>2 DEF HeldFacts
      <3> QED BY <3>1, ModUnique
    <2>4. CountOf(tail["prod"], tail["cons"]) = Held
      BY <2>3 DEF CountOf, Held, Dist
    <2> QED BY <1>1, <2>2, <2>4
  <1> QED BY <1>1, <1>4, <1>5 DEF ObserverInv, QueriesHonest

LEMMA RingStepKeeps ==
  ASSUME RingInv, RingInv', Roomy, ObserverInv, RingStep PROVE ObserverInv'
  <1>0. Next /\ opc' = opc /\ opc \in {"idle", "loaded"}
    BY DEF RingStep, ObserverInv
  <1>1. CASE opc # "loaded"
    <2>1. count' = -1 /\ opc' # "loaded"
      BY <1>0, <1>1 DEF RingStep
    <2> QED BY <1>0, <2>1 DEF ObserverInv, QueriesHonest, Returned
  <1>2. CASE opc = "loaded"
    <2>1. seen' = seen \cup {Held'} /\ ptail' = ptail
      BY <1>2 DEF RingStep
    <2>2. /\ ptail \in Index /\ Num(ptail) <= Pub("prod")
          /\ IsFiniteSet(seen) /\ Held \in seen
          /\ \/ ptail = tail["prod"] /\ seen = {Held}
             \/ \E j, k \in seen : j # k
          /\ Num(ptail) < Pub("cons") => \E k \in seen : k > 0
      BY <1>2 DEF ObserverInv
    <2> PICK a : a = Pub("cons")
      OBVIOUS
    <2> PICK b : b = Pub("prod")
      OBVIOUS
    <2> PICK c : c = Pub("cons")'
      OBVIOUS
    <2> PICK d : d = Pub("prod")'
      OBVIOUS
    <2> PICK x : x = Num(ptail)
      OBVIOUS
    <2>3. /\ Held = b - a /\ a \in Nat /\ b \in Nat /\ a <= b
          /\ tail["prod"] \in Index
      BY HeldIs DEF HeldFacts
    <2>4. /\ Held' = d - c /\ c \in Nat /\ d \in Nat /\ c <= d
          /\ tail'["prod"] \in Index
      <3>1. RingInv => HeldFacts
        BY HeldIs
      <3>2. RingInv' => HeldFacts'
        BY HeldIs, PTL
      <3> QED BY <3>2 DEF HeldFacts
    <2>5. (a <= c /\ d = b) \/ (b <= d /\ c = a)
      BY <1>0, PubMoves
    <2>6. x \in Nat /\ x <= b
      BY <2>2, NumNat
    <2>7. x <= d
      BY SMTT(20), <2>3, <2>4, <2>5, <2>6
    <2>8. IsFiniteSet(seen') /\ Held' \in seen'
      BY <2>1, <2>2, FS_AddElement
    <2>9. \/ ptail = tail'["prod"] /\ seen' = {Held'}
          \/ \E j, k \in seen' : j # k
      <3>1. CASE a = c /\ b = d
        <4>1. tail'["prod"] = tail["prod"]
          BY <2>3, <2>4, <3>1, NumOne DEF Pub
        <4>2. Held' = Held
          BY <2>3, <2>4, <3>1
        <4> QED BY <2>1, <2>2, <4>1, <4>2
      <3>2. CASE ~(a = c /\ b = d)
        <4>1. d - c # b - a
          BY SMTT(20), <2>3, <2>4, <2>5, <3>2
        <4>2. Held' # Held
          BY <2>3, <2>4, <4>1
        <4> QED BY <2>1, <2>2, <4>2
      <3> QED BY <3>1, <3>2
    <2>10. ASSUME x < c PROVE \E k \in seen' : k > 0
      <3>1. x < a \/ b - a > 0
        BY SMTT(20), <2>3, <2>4, <2>5, <2>6, <2>10
      <3> QED BY <2>1, <2>2, <2>3, <3>1
    <2>11. Num(ptail)' = x
      BY <2>1 DEF Num, Dist
    <2> QED BY <1>0, <1>2, <2>1, <2>2, <2>7, <2>8, <2>9, <2>10, <2>11
            DEF ObserverInv, QueriesHonest, Returned
  <1> QED BY <1>1, <1>2

\* Under the same assumption, with any number of threads at work between the two
\* loads of rte_ring_count and rte_ring_empty: a ring reported not empty held an
\* object during the call, and a ring that did not change is counted exactly.
THEOREM QueriesAreHonest ==
  ASSUME ExchangeAtomic PROVE FairObserverSpec => []QueriesHonest
  <1>1. ObserverInit => FullInv /\ ObserverInv
    BY RingStart, CountStart DEF ObserverInit, FullInv, ObserverInv, QueriesHonest, Returned
  <1>2. ASSUME [ObserverNext]_<<vars, ovars>> PROVE [Next]_vars
    BY <1>2 DEF ObserverNext, LoadProdTail, LoadConsTail, RingStep
  <1>3. FullInv /\ [ObserverNext]_<<vars, ovars>> => FullInv'
    BY <1>2, FullStep
  <1>4. FullInv /\ FullInv' /\ ObserverInv /\ [ObserverNext]_<<vars, ovars>> => ObserverInv'
    <2> SUFFICES ASSUME FullInv, FullInv', ObserverInv, [ObserverNext]_<<vars, ovars>>
                 PROVE  ObserverInv'
      OBVIOUS
    <2>1. RingInv /\ RingInv' /\ Roomy
      BY RoomyHolds DEF FullInv
    <2>2. CASE UNCHANGED <<vars, ovars>>
      BY <2>2 DEF vars, ovars, ObserverInv, QueriesHonest, Returned, Held, Pub, Num, Dist
    <2> QED BY <2>1, <2>2, LoadProdTailKeeps, LoadConsTailKeeps, RingStepKeeps DEF ObserverNext
  <1>5. ObserverInv => QueriesHonest
    BY DEF ObserverInv
  <1> QED BY <1>1, <1>3, <1>4, <1>5, PTL DEF FairObserverSpec

=============================================================================
