-------------------------- MODULE L3fwdQueueProofs --------------------------
(***************************************************************************)
(* The queues between the server and its clients.  No receive buffer is    *)
(* lost between the worker and the NIC, and the rings of the queue pair    *)
(* implement the bounded FIFOs of FifoQueuePair.  The RPC layer's circular *)
(* receive buffer keeps its counts and the order, for every size, and      *)
(* getCBufIdx is shown where it keeps what its comment says of it, for     *)
(* every number of clients and threads, and where not.                     *)
(***************************************************************************)
EXTENDS L3fwdWorkerProofs, RmcQueuePairRefinement, CBufLayout, CircularReceiveBuffer,
        FiniteSetTheorems

\* Zenon does every leaf that names no other prover.
USE Zenon

LEMMA BuffersAreFew ==
  ASSUME IsFiniteSet(RecvBufs), 2 * Cardinality(RecvBufs) <= MAX_NUM_WQ PROVE FewBuffers
  <1> DEFINE m == MAX_NUM_WQ \div 2
             D == 0 .. m
  <1> SUFFICES ASSUME NEW f \in [D -> RecvBufs], \A i, j \in D : f[i] = f[j] => i = j
               PROVE  FALSE
    BY DEF FewBuffers
  <1>1. Cardinality(RecvBufs) \in Nat /\ m \in Nat /\ Cardinality(RecvBufs) <= m
    BY SMT, FS_CardinalityType, RingAssumption
  <1>2. f \in Injection(D, RecvBufs)
    BY DEF Injection, IsInjective
  <1>3. Cardinality(D) <= Cardinality(RecvBufs)
    BY <1>2, FS_Injection
  <1>4. Cardinality(D) = m + 1
    BY SMT, <1>1, FS_Interval
  <1> QED BY SMTT(20), <1>1, <1>3, <1>4

\* If the NIC completes work entries in order and there are at most half as
\* many receive buffers as work entries, run_worker never loses a buffer: the
\* RECV that do_Recv_zsim posts always finds a free entry.
THEOREM NoBufferLost ==
  ASSUME ~OutOfOrder, IsFiniteSet(RecvBufs), 2 * Cardinality(RecvBufs) <= MAX_NUM_WQ
  PROVE  Spec => []BuffersConserved
  <1>1. PathInv /\ NoLossInv => BuffersConserved
    <2> SUFFICES ASSUME PathInv, NoLossInv, pc # "done", NEW b \in RecvBufs
                 PROVE  \E x : x \in Owners(b)
      BY DEF BuffersConserved
    <2>1. WTypeOK /\ QPInv /\ Owned(b)
      BY DEF PathInv, NoLossInv
    <2> QED BY <2>1, OwnersAre DEF Owned
  <1>2. PathInv /\ NoLossInv /\ [Next]_vars => NoLossInv'
    BY NoLossStep, BuffersAreFew
  <1> QED
    BY <1>1, <1>2, NoLossStart, PathInvariant, PTL DEF Spec

-----------------------------------------------------------------------------
(***************************************************************************)
(* The rings implement the FIFOs.                                          *)
(***************************************************************************)
\* The slots from the reader's on, up to the writer's.
LEMMA WqSlots ==
  ASSUME QPTypeOK, QPInv
  PROVE  /\ nicWqTail \in Slots /\ wqHead \in Slots /\ fetched \in Nat /\ posted \in Nat
         /\ posted - fetched \in 0 .. MAX_NUM_WQ
         /\ After(nicWqTail, posted - fetched) = wqHead
         /\ \A n \in 0 .. posted - fetched - 1 :
              /\ After(nicWqTail, n) \in Slots
              /\ Ago(After(nicWqTail, n), wqHead) = posted - fetched - n
  <1>1. LapInv(nicWqTail, nicWqSR, wqHead, wqSR, fetched, posted)
    BY DEF QPInv, WqInv
  <1>2. nicWqTail \in Slots /\ wqHead \in Slots /\ fetched \in Nat /\ posted \in Nat
    BY DEF QPTypeOK
  <1> QED BY SMTT(20), <1>1, <1>2, RingAssumption DEF Slots, LapInv, After, Ago

LEMMA CqSlots ==
  ASSUME QPTypeOK, QPInv
  PROVE  /\ cqTail \in Slots /\ nicCqHead \in Slots /\ consumed \in Nat /\ delivered \in Nat
         /\ delivered - consumed \in 0 .. MAX_NUM_WQ
         /\ After(cqTail, delivered - consumed) = nicCqHead
         /\ \A n \in 0 .. delivered - consumed - 1 :
              /\ After(cqTail, n) \in Slots
              /\ Ago(After(cqTail, n), nicCqHead) = delivered - consumed - n
  <1>1. LapInv(cqTail, cqSR, nicCqHead, nicCqSR, consumed, delivered)
    BY DEF QPInv, CqInv
  <1>2. cqTail \in Slots /\ nicCqHead \in Slots /\ consumed \in Nat /\ delivered \in Nat
    BY DEF QPTypeOK
  <1> QED BY SMT, <1>1, <1>2, RingAssumption DEF Slots, LapInv, After, Ago

LEMMA AfterNext ==
  ASSUME NEW t \in Slots
  PROVE  /\ After(t, 0) = t
         /\ \A n \in 0 .. MAX_NUM_WQ - 1 : After(NextIdx(t), n) = After(t, n + 1)
  BY SMT, RingAssumption DEF Slots, After, NextIdx

\* One more at the end, and one less at the front, of a sequence given by its
\* elements.
LEMMA SeqAppend ==
  ASSUME NEW L \in Nat, NEW s, s = [n \in 1 .. L |-> s[n]],
         NEW t, NEW e, t = [n \in 1 .. L + 1 |-> t[n]],
         \A n \in 1 .. L : t[n] = s[n], t[L + 1] = e
  PROVE  Len(s) = L /\ t = Append(s, e)
  BY SMTT(20)

LEMMA SeqTail ==
  \A L \in Nat \ {0} : \A s, t :
    /\ s = [n \in 1 .. L |-> s[n]] /\ t = [n \in 1 .. L - 1 |-> t[n]]
    /\ \A n \in 1 .. L - 1 : t[n] = s[n + 1]
    => t = Tail(s) /\ s # << >> /\ Head(s) = s[1]
  <1> SUFFICES ASSUME NEW L \in Nat \ {0}, NEW s, NEW t,
                      s = [n \in 1 .. L |-> s[n]], t = [n \in 1 .. L - 1 |-> t[n]],
                      \A n \in 1 .. L - 1 : t[n] = s[n + 1]
               PROVE  t = Tail(s) /\ s # << >> /\ Head(s) = s[1]
    BY ZenonT(30)
  <1>1. Len(s) = L /\ s # << >> /\ Head(s) = s[1]
    BY SMTT(20)
  <1>2. Tail(s) = [n \in 1 .. L - 1 |-> s[n + 1]]
    BY SMT, <1>1
  <1> QED BY <1>1, <1>2

\* The NIC's entries and the unread ones leave the slot at the writer's index.
LEMMA RoomForPost ==
  ASSUME QPTypeOK, QPInv, ~WqFull
  PROVE  /\ IsFiniteSet(inflight) /\ Cardinality(inflight) \in Nat
         /\ posted - fetched \in Nat /\ posted - fetched + Cardinality(inflight) < MAX_NUM_WQ
  <1> DEFINE L == posted - fetched
             T == L + 1 .. MAX_NUM_WQ - 1
             f == [k \in inflight |-> Ago(k, wqHead)]
  <1>0. /\ wqHead \in Slots /\ nicWqTail \in Slots /\ posted \in Nat /\ fetched \in Nat
        /\ inflight \subseteq Slots
    BY DEF QPTypeOK
  <1>1. L \in 0 .. MAX_NUM_WQ
    BY WqSlots
  <1>2. wqQ[wqHead].valid # 1 /\ wqHead \notin inflight /\ L < MAX_NUM_WQ
    <2>1. wqQ[wqHead].valid # 1
      BY SMT DEF WqFull
    <2>2. Ago(wqHead, wqHead) = MAX_NUM_WQ
      BY <1>0, AgoStep
    <2> QED BY SMTT(20), <1>0, <1>1, <2>1, <2>2, RingAssumption DEF QPInv, WqInv
  <1>3. ASSUME NEW k \in inflight PROVE Ago(k, wqHead) \in T
    <2>1. k \in Slots /\ posted < Ago(k, wqHead) + fetched
      BY <1>0 DEF QPInv, WqInv
    <2>2. Ago(k, wqHead) \in 1 .. MAX_NUM_WQ /\ Ago(wqHead, wqHead) = MAX_NUM_WQ
      BY <1>0, <2>1, AgoStep
    <2>3. Ago(k, wqHead) # MAX_NUM_WQ
      BY <1>0, <1>2, <2>1, <2>2, AgoInjective
    <2> QED BY SMTT(20), <1>0, <2>1, <2>2, <2>3, RingAssumption
  <1>4. f \in Injection(inflight, T)
    <2>1. f \in [inflight -> T]
      BY <1>3
    <2>2. \A j, k \in inflight : f[j] = f[k] => j = k
      BY <1>0, AgoInjective
    <2> QED BY <2>1, <2>2 DEF Injection, IsInjective
  <1>5. IsFiniteSet(T) /\ Cardinality(T) = MAX_NUM_WQ - 1 - L
    <2>1. L + 1 \in Int /\ MAX_NUM_WQ - 1 \in Int
      BY SMT, <1>1, RingAssumption
    <2>2. /\ IsFiniteSet(T)
          /\ Cardinality(T) = IF L + 1 > MAX_NUM_WQ - 1 THEN 0 ELSE MAX_NUM_WQ - 1 - (L + 1) + 1
      BY <2>1, FS_Interval
    <2> QED BY SMTT(20), <1>1, <1>2, <2>2, RingAssumption
  <1>6. IsFiniteSet(inflight) /\ Cardinality(inflight) <= Cardinality(T)
    BY <1>4, <1>5, FS_Injection
  <1>7. Cardinality(inflight) \in Nat
    BY <1>6, FS_CardinalityType
  <1> QED BY SMT, <1>1, <1>2, <1>5, <1>6, <1>7, RingAssumption

LEMMA SlotsFinite == IsFiniteSet(Slots)
  BY SMTT(20), FS_Interval, RingAssumption DEF Slots

LEMMA PostIsFifo ==
  ASSUME QPTypeOK, QPInv, NEW o, NEW buf, NEW nid, PostWq(o, buf, nid),
         <<o, buf, nid>> \in ({RMC_SEND} \X SendAddrs \X Nids) \cup ({RMC_RECV} \X RecvBufs \X {0})
  PROVE  Fifo!FifoNext
  <1> DEFINE L == posted - fetched
  <1>0. /\ wqHead \in Slots /\ nicWqTail \in Slots /\ posted \in Nat /\ fetched \in Nat
        /\ L \in Nat /\ L + Cardinality(inflight) < MAX_NUM_WQ /\ L < MAX_NUM_WQ
    <2>1. ~WqFull
      BY DEF PostWq
    <2>2. /\ Cardinality(inflight) \in Nat /\ L \in Nat
          /\ L + Cardinality(inflight) < MAX_NUM_WQ
      BY <2>1, RoomForPost
    <2> QED BY SMTT(20), <2>2, RingAssumption DEF QPTypeOK
  <1>1. /\ posted' = posted + 1
        /\ UNCHANGED <<nicWqTail, fetched, inflight, ck, cqQ, cqTail, delivered, consumed>>
        /\ \A k \in Slots : k # wqHead => wqQ'[k] = wqQ[k]
        /\ wqQ'[wqHead] = create_wq_entry(o, buf, nid)
    BY DEF PostWq, QPTypeOK, nicVars, cqVars
  <1>2. /\ After(nicWqTail, L) = wqHead
        /\ \A n \in 0 .. L - 1 : /\ After(nicWqTail, n) \in Slots
                                 /\ Ago(After(nicWqTail, n), wqHead) = L - n
    BY WqSlots
  <1>3. \A n \in 0 .. L - 1 : After(nicWqTail, n) # wqHead
    BY SMTT(20), <1>0, <1>2, AgoStep
  <1>4. posted' - fetched' = L + 1
    BY SMTT(20), <1>0, <1>1
  <1>a. \A n \in 1 .. L + 1 : WqFifo'[n] = RequestOf(wqQ'[After(nicWqTail, n - 1)])
    BY <1>1, <1>4 DEF WqFifo, After, RequestOf
  <1>5. \A n \in 1 .. L : WqFifo'[n] = WqFifo[n]
    <2> SUFFICES ASSUME NEW n \in 1 .. L PROVE WqFifo'[n] = WqFifo[n]
      OBVIOUS
    <2>1. n - 1 \in 0 .. L - 1 /\ n \in 1 .. L + 1
      BY SMTT(20), <1>0
    <2>2. wqQ'[After(nicWqTail, n - 1)] = wqQ[After(nicWqTail, n - 1)]
      BY <1>1, <1>2, <1>3, <2>1
    <2> QED BY <1>a, <2>1, <2>2 DEF WqFifo
  <1>6. WqFifo'[L + 1] = <<o, buf, nid>>
    <2>1. L + 1 \in 1 .. L + 1 /\ (L + 1) - 1 = L
      BY SMT, <1>0
    <2>2. WqFifo'[L + 1] = RequestOf(wqQ'[After(nicWqTail, (L + 1) - 1)])
      BY <1>a, <2>1
    <2>3. WqFifo'[L + 1] = RequestOf(wqQ'[After(nicWqTail, L)])
      BY <2>1, <2>2
    <2> QED BY SMTT(20), <1>1, <1>2, <2>3 DEF RequestOf, create_wq_entry
  <1>7. WqFifo = [n \in 1 .. L |-> WqFifo[n]] /\ WqFifo' = [n \in 1 .. L + 1 |-> WqFifo'[n]]
    BY <1>4 DEF WqFifo
  <1>8. Len(WqFifo) = L /\ WqFifo' = Append(WqFifo, <<o, buf, nid>>)
    BY SMTT(20), <1>0, <1>5, <1>6, <1>7, SeqAppend
  <1>9. CqFifo' = CqFifo /\ <<ck.tid, ck.buf>>' = <<ck.tid, ck.buf>>
        /\ Cardinality(inflight)' = Cardinality(inflight)
    BY <1>1 DEF CqFifo, After, CompletionOf
  <1> QED
    BY <1>0, <1>8, <1>9 DEF Fifo!FifoNext, Fifo!Post

\* The sense bit shows the NIC an entry exactly when one is unread.
LEMMA FetchIsFifo == ASSUME QPTypeOK, QPInv, NicFetch PROVE Fifo!FifoNext
  <1> DEFINE L == posted - fetched
  <1>0. /\ nicWqTail \in Slots /\ wqHead \in Slots /\ posted \in Nat /\ fetched \in Nat
        /\ inflight \subseteq Slots
    BY DEF QPTypeOK
  <1>1. L \in 0 .. MAX_NUM_WQ /\ L > 0
    <2>1. fetched < posted
      BY InvWqExact DEF WqSenseExact, NicFetch
    <2> QED BY SMTT(20), <1>0, <2>1, WqSlots
  <1>2. nicWqTail \notin inflight
    <2>1. 0 \in 0 .. L - 1
      BY SMT, <1>1
    <2>2. After(nicWqTail, 0) = nicWqTail /\ Ago(After(nicWqTail, 0), wqHead) = L - 0
      BY <1>0, <2>1, WqSlots, AfterNext
    <2>3. ~(posted < Ago(nicWqTail, wqHead) + fetched)
      BY SMTT(20), <1>0, <2>2
    <2> QED BY <1>0, <2>3 DEF QPInv, WqInv
  <1>3. /\ fetched' = fetched + 1 /\ nicWqTail' = NextIdx(nicWqTail)
        /\ inflight' = inflight \cup {nicWqTail}
        /\ UNCHANGED <<wqQ, posted, ck, cqQ, cqTail, delivered, consumed>>
    BY DEF NicFetch, wqVars, cqVars
  <1>4. posted' - fetched' = L - 1
    BY SMTT(20), <1>0, <1>3
  <1>5. \A n \in 1 .. L - 1 : WqFifo'[n] = RequestOf(wqQ[After(NextIdx(nicWqTail), n - 1)])
    BY <1>3, <1>4 DEF WqFifo, After, RequestOf
  <1>6. ASSUME NEW n \in 1 .. L - 1 PROVE WqFifo'[n] = WqFifo[n + 1]
    <2>1. n - 1 \in 0 .. MAX_NUM_WQ - 1 /\ n + 1 \in 1 .. L /\ (n - 1) + 1 = (n + 1) - 1
      BY SMTT(20), <1>1, RingAssumption
    <2>2. After(NextIdx(nicWqTail), n - 1) = After(nicWqTail, (n + 1) - 1)
      BY <1>0, <2>1, AfterNext
    <2> QED BY <1>5, <2>1, <2>2 DEF WqFifo
  <1>7. WqFifo = [n \in 1 .. L |-> WqFifo[n]] /\ WqFifo' = [n \in 1 .. L - 1 |-> WqFifo'[n]]
    BY <1>4 DEF WqFifo
  <1>8. WqFifo' = Tail(WqFifo) /\ WqFifo # << >>
    <2>1. \A n \in 1 .. L - 1 : WqFifo'[n] = WqFifo[n + 1]
      BY <1>6
    <2>2. L \in Nat \ {0}
      BY SMT, <1>1
    <2> HIDE DEF L
    <2> QED BY <1>7, <2>1, <2>2, SeqTail, Zenon
  <1>9. Cardinality(inflight') = Cardinality(inflight) + 1
    BY <1>0, <1>2, <1>3, SlotsFinite, FS_Subset, FS_AddElement
  <1>10. CqFifo' = CqFifo /\ <<ck.tid, ck.buf>>' = <<ck.tid, ck.buf>>
    BY <1>3 DEF CqFifo, After, CompletionOf
  <1> QED
    BY <1>8, <1>9, <1>10 DEF Fifo!FifoNext, Fifo!Take

LEMMA FinishIsFifo ==
  ASSUME QPTypeOK, QPInv, NEW i \in Slots, NicComplete(i) PROVE Fifo!FifoNext
  <1>1. /\ i \in inflight /\ inflight' = inflight \ {i}
        /\ UNCHANGED <<posted, fetched, nicWqTail, ck, cqQ, cqTail, delivered, consumed>>
        /\ wqQ' = [wqQ EXCEPT ![i].valid = 0]
    BY DEF NicComplete, cqVars
  <1>2. \A k \in Slots : RequestOf(wqQ'[k]) = RequestOf(wqQ[k])
    BY <1>1 DEF QPTypeOK, WQEntry, RequestOf
  <1>3. WqFifo' = WqFifo
    <2>2. \A n \in 0 .. posted - fetched - 1 : After(nicWqTail, n) \in Slots
      BY WqSlots
    <2>3. ASSUME NEW n \in 1 .. posted - fetched
          PROVE  RequestOf(wqQ'[After(nicWqTail, n - 1)]) = RequestOf(wqQ[After(nicWqTail, n - 1)])
      <3>1. n - 1 \in 0 .. posted - fetched - 1
        BY SMT DEF QPTypeOK
      <3> QED BY <1>2, <2>2, <3>1
    <2>4. WqFifo' = [n \in 1 .. posted - fetched |-> RequestOf(wqQ'[After(nicWqTail, n - 1)])]
      BY SMTT(20), <1>1 DEF WqFifo, After, RequestOf
    <2> QED BY <2>3, <2>4 DEF WqFifo
  <1>4. IsFiniteSet(inflight)
    BY SlotsFinite, FS_Subset DEF QPTypeOK
  <1>5. Cardinality(inflight') = Cardinality(inflight) - 1
    BY <1>1, <1>4, FS_RemoveElement
  <1>6. Cardinality(inflight) > 0
    BY SMTT(20), <1>1, <1>4, FS_EmptySet, FS_CardinalityType
  <1>7. CqFifo' = CqFifo /\ <<ck.tid, ck.buf>>' = <<ck.tid, ck.buf>>
    BY <1>1 DEF CqFifo, After, CompletionOf
  <1> QED
    BY <1>3, <1>5, <1>6, <1>7 DEF Fifo!FifoNext, Fifo!Finish

LEMMA DeliverIsFifo ==
  ASSUME QPTypeOK, QPInv, NEW s, NEW tid, NEW buf, NicDeliver(s, tid, buf),
         <<s, tid, buf>> \in {SUCCESS_SEND, SUCCESS_RESP, SUCCESS_OTHER} \X Nids
                              \X (RecvBufs \cup {NoAddr})
  PROVE  Fifo!FifoNext
  <1> DEFINE L == delivered - consumed
  <1>0. /\ nicCqHead \in Slots /\ cqTail \in Slots /\ delivered \in Nat /\ consumed \in Nat
        /\ L \in 0 .. MAX_NUM_WQ
    BY CqSlots
  <1>1. /\ delivered' = delivered + 1 /\ cqQ[nicCqHead].valid = 0
        /\ UNCHANGED <<cqTail, consumed, inflight, ck, wqQ, nicWqTail, posted, fetched>>
        /\ \A k \in Slots : k # nicCqHead => cqQ'[k] = cqQ[k]
        /\ CompletionOf(cqQ'[nicCqHead]) = <<s, tid, buf>>
    BY DEF NicDeliver, QPTypeOK, wqVars, cqVars, CompletionOf
  <1>2. L \in Nat /\ L < MAX_NUM_WQ
    <2>1. Ago(nicCqHead, nicCqHead) = MAX_NUM_WQ
      BY <1>0, AgoStep
    <2>2. ~(Ago(nicCqHead, nicCqHead) + consumed <= delivered)
      BY SMTT(20), <1>0, <1>1 DEF QPInv, CqInv
    <2> QED BY SMTT(20), <1>0, <2>1, <2>2, RingAssumption
  <1>3. /\ After(cqTail, L) = nicCqHead
        /\ \A n \in 0 .. L - 1 : /\ After(cqTail, n) \in Slots
                                 /\ Ago(After(cqTail, n), nicCqHead) = L - n
    BY CqSlots
  <1>4. \A n \in 0 .. L - 1 : After(cqTail, n) # nicCqHead
    BY SMTT(20), <1>0, <1>2, <1>3, AgoStep
  <1>5. delivered' - consumed' = L + 1
    BY SMTT(20), <1>0, <1>1
  <1>6. \A n \in 1 .. L + 1 : CqFifo'[n] = CompletionOf(cqQ'[After(cqTail, n - 1)])
    BY <1>1, <1>5 DEF CqFifo, After, CompletionOf
  <1>7. \A n \in 1 .. L : CqFifo'[n] = CqFifo[n]
    <2> SUFFICES ASSUME NEW n \in 1 .. L PROVE CqFifo'[n] = CqFifo[n]
      OBVIOUS
    <2>1. n - 1 \in 0 .. L - 1 /\ n \in 1 .. L + 1
      BY SMT, <1>0
    <2>2. cqQ'[After(cqTail, n - 1)] = cqQ[After(cqTail, n - 1)]
      BY <1>1, <1>3, <1>4, <2>1
    <2> QED BY <1>6, <2>1, <2>2 DEF CqFifo
  <1>8. CqFifo'[L + 1] = <<s, tid, buf>>
    <2>1. L + 1 \in 1 .. L + 1 /\ (L + 1) - 1 = L
      BY SMT, <1>2
    <2>2. CqFifo'[L + 1] = CompletionOf(cqQ'[After(cqTail, (L + 1) - 1)])
      BY <1>6, <2>1
    <2>3. CqFifo'[L + 1] = CompletionOf(cqQ'[After(cqTail, L)])
      BY <2>1, <2>2
    <2> QED BY <1>1, <1>3, <2>3
  <1>9. CqFifo = [n \in 1 .. L |-> CqFifo[n]] /\ CqFifo' = [n \in 1 .. L + 1 |-> CqFifo'[n]]
    BY <1>5 DEF CqFifo
  <1>10. Len(CqFifo) = L /\ CqFifo' = Append(CqFifo, <<s, tid, buf>>)
    BY SMTT(20), <1>2, <1>7, <1>8, <1>9, SeqAppend
  <1>11. WqFifo' = WqFifo /\ <<ck.tid, ck.buf>>' = <<ck.tid, ck.buf>>
         /\ Cardinality(inflight)' = Cardinality(inflight)
    BY <1>1 DEF WqFifo, After, RequestOf
  <1> QED
    BY <1>2, <1>10, <1>11 DEF Fifo!FifoNext, Fifo!Deliver

LEMMA PopIsFifo == ASSUME QPTypeOK, QPInv, CheckCqPop PROVE Fifo!FifoNext
  <1> DEFINE L == delivered - consumed
  <1>0. /\ cqTail \in Slots /\ delivered \in Nat /\ consumed \in Nat /\ L \in 0 .. MAX_NUM_WQ
    BY CqSlots
  <1>1. L \in Nat /\ L > 0
    <2>1. consumed < delivered
      BY InvCqExact DEF CqSenseExact, CheckCqPop
    <2> QED BY SMTT(20), <1>0, <2>1
  <1>2. /\ consumed' = consumed + 1 /\ cqTail' = NextIdx(cqTail)
        /\ cqQ' = [cqQ EXCEPT ![cqTail].valid = 0] /\ ck' = Returned(cqQ[cqTail])
        /\ UNCHANGED <<wqQ, posted, fetched, nicWqTail, inflight, delivered>>
    BY DEF CheckCqPop, wqVars, nicVars
  <1>3. \A k \in Slots : CompletionOf(cqQ'[k]) = CompletionOf(cqQ[k])
    BY ZenonT(30), <1>2 DEF QPTypeOK, CQEntry, CompletionOf
  <1>4. delivered' - consumed' = L - 1
    BY SMT, <1>0, <1>2
  <1>5. \A n \in 1 .. L - 1 : CqFifo'[n] = CompletionOf(cqQ'[After(NextIdx(cqTail), n - 1)])
    BY <1>2, <1>4 DEF CqFifo, After, CompletionOf
  <1>6. ASSUME NEW n \in 1 .. L - 1 PROVE CqFifo'[n] = CqFifo[n + 1]
    <2>1. n - 1 \in 0 .. MAX_NUM_WQ - 1 /\ n + 1 \in 1 .. L /\ (n - 1) + 1 = (n + 1) - 1
      BY SMTT(20), <1>0, RingAssumption
    <2>2. After(NextIdx(cqTail), n - 1) = After(cqTail, (n + 1) - 1)
      BY <1>0, <2>1, AfterNext
    <2>3. (n + 1) - 1 \in 0 .. L - 1
      BY SMTT(20), <1>0
    <2>4. After(cqTail, (n + 1) - 1) \in Slots
      BY <2>3, CqSlots
    <2> QED BY <1>3, <1>5, <2>1, <2>2, <2>4 DEF CqFifo
  <1>7. CqFifo = [n \in 1 .. L |-> CqFifo[n]] /\ CqFifo' = [n \in 1 .. L - 1 |-> CqFifo'[n]]
    BY <1>4 DEF CqFifo
  <1>8. CqFifo' = Tail(CqFifo) /\ CqFifo # << >> /\ Head(CqFifo) = CqFifo[1]
    <2>1. \A n \in 1 .. L - 1 : CqFifo'[n] = CqFifo[n + 1]
      BY <1>6
    <2>2. L \in Nat \ {0}
      BY SMT, <1>1
    <2> HIDE DEF L
    <2>3. CqFifo' = Tail(CqFifo)
      BY <1>7, <2>1, <2>2, SeqTail, Zenon
    <2>4. CqFifo # << >>
      BY <1>7, <2>1, <2>2, SeqTail, Zenon
    <2>5. Head(CqFifo) = CqFifo[1]
      BY SMT, <1>7, <2>2
    <2> QED BY <2>3, <2>4, <2>5
  <1>9. CqFifo[1] = CompletionOf(cqQ[cqTail])
    <2>1. 1 \in 1 .. L /\ 1 - 1 = 0
      BY SMTT(20), <1>1
    <2>2. After(cqTail, 1 - 1) = cqTail
      BY <1>0, <2>1, AfterNext
    <2> QED BY <2>1, <2>2 DEF CqFifo
  <1>10. <<ck.tid, ck.buf>>' = ShownByCheck(<<ck.tid, ck.buf>>, CompletionOf(cqQ[cqTail]))
    <2> DEFINE e == cqQ[cqTail]
    <2>1. e.success \in {SUCCESS_SEND, SUCCESS_RESP, SUCCESS_OTHER}
      BY <1>0 DEF QPTypeOK, CQEntry
    <2>2. ck \in [pc : {"idle", "head", "cq"}, raw_valid : {0, 1},
                  op : {0, RMC_INCOMING_SEND, RMC_INCOMING_RESP, RMC_INVAL},
                  tid : Nids, buf : RecvBufs \cup {NoAddr}]
      BY DEF QPTypeOK
    <2> HIDE DEF e
    <2>3. CASE e.success = SUCCESS_SEND
      <3>1. ck' = [ck EXCEPT !.pc = "idle", !.op = RMC_INCOMING_SEND, !.tid = e.tid,
                             !.buf = e.recv_buf_addr]
        BY SMTT(20), <1>2, <2>3 DEF Returned, e, SUCCESS_SEND, SUCCESS_RESP
      <3>2. ck'.tid = e.tid /\ ck'.buf = e.recv_buf_addr
        BY <2>2, <3>1
      <3> QED BY SMTT(20), <2>3, <3>2 DEF ShownByCheck, CompletionOf, e, SUCCESS_SEND, SUCCESS_OTHER
    <2>4. CASE e.success = SUCCESS_RESP
      <3>1. ck' = [ck EXCEPT !.pc = "idle", !.op = RMC_INCOMING_RESP, !.tid = e.tid,
                             !.buf = e.recv_buf_addr]
        BY SMTT(20), <1>2, <2>4 DEF Returned, e, SUCCESS_SEND, SUCCESS_RESP
      <3>2. ck'.tid = e.tid /\ ck'.buf = e.recv_buf_addr
        BY <2>2, <3>1
      <3> QED BY SMTT(20), <2>4, <3>2 DEF ShownByCheck, CompletionOf, e, SUCCESS_RESP, SUCCESS_OTHER
    <2>5. CASE e.success = SUCCESS_OTHER
      <3>1. ck' = [ck EXCEPT !.op = 0]
        BY SMTT(20), <1>2, <2>5 DEF Returned, e, SUCCESS_SEND, SUCCESS_RESP, SUCCESS_OTHER
      <3>2. ck'.tid = ck.tid /\ ck'.buf = ck.buf
        BY <2>2, <3>1
      <3> QED BY <2>5, <3>2 DEF ShownByCheck, CompletionOf, e
    <2> QED BY <2>1, <2>3, <2>4, <2>5
  <1>11. WqFifo' = WqFifo /\ Cardinality(inflight)' = Cardinality(inflight)
    BY <1>2 DEF WqFifo, After, RequestOf
  <1> QED
    BY <1>8, <1>9, <1>10, <1>11 DEF Fifo!FifoNext, Fifo!Consume

\* Every step of the queue pair is a step of the FIFOs or leaves them alone.
LEMMA StepIsFifo ==
  QPTypeOK /\ QPInv /\ [QPNext]_qpVars => [Fifo!FifoNext]_(Fifo!fifoVars)
  <1> SUFFICES ASSUME QPTypeOK, QPInv, [QPNext]_qpVars
               PROVE  Fifo!FifoNext \/ UNCHANGED Fifo!fifoVars
    OBVIOUS
  <1>1. ASSUME NEW buf \in SendAddrs, NEW nid \in Nids, rmc_hw_send(buf, nid)
        PROVE  Fifo!FifoNext
    BY <1>1, PostIsFifo DEF rmc_hw_send
  <1>2. ASSUME NEW buf \in RecvBufs, rmc_hw_recv(buf) PROVE Fifo!FifoNext
    BY <1>2, PostIsFifo DEF rmc_hw_recv
  <1>3. ASSUME UNCHANGED <<wqQ, nicWqTail, posted, fetched, inflight, cqQ, cqTail, delivered,
                           consumed>>,
               ck'.tid = ck.tid, ck'.buf = ck.buf
        PROVE  UNCHANGED Fifo!fifoVars
    <2>1. WqFifo' = WqFifo /\ CqFifo' = CqFifo
      BY <1>3 DEF WqFifo, CqFifo, After, RequestOf, CompletionOf
    <2>2. Cardinality(inflight)' = Cardinality(inflight)
      BY <1>3
    <2> QED BY <1>3, <2>1, <2>2 DEF Fifo!fifoVars
  <1>4. CASE CheckCqCall \/ CheckCqReadHead \/ CheckCqEmpty
    <2>1. ck'.tid = ck.tid /\ ck'.buf = ck.buf
      BY <1>4 DEF QPTypeOK, CheckCqCall, CheckCqReadHead, CheckCqEmpty
    <2> QED
      BY <1>3, <1>4, <2>1
      DEF CheckCqCall, CheckCqReadHead, CheckCqEmpty, wqVars, cqVars, nicVars
  <1>5. ASSUME NEW tid \in Nids, NEW buf \in RecvBufs, NicDeliver(SUCCESS_SEND, tid, buf)
        PROVE  Fifo!FifoNext
    BY <1>5, DeliverIsFifo
  <1>6. ASSUME NEW tid \in Nids, NEW s \in {SUCCESS_RESP, SUCCESS_OTHER}, NicDeliver(s, tid, NoAddr)
        PROVE  Fifo!FifoNext
    BY <1>6, DeliverIsFifo
  <1>7. CASE UNCHANGED qpVars
    BY <1>3, <1>7 DEF qpVars
  <1>8. CASE AppStep
    BY <1>1, <1>2, <1>4, <1>8, PopIsFifo DEF AppStep, rmc_check_cq
  <1>9. CASE NicStep
    BY <1>5, <1>6, <1>9, FetchIsFifo, FinishIsFifo DEF NicStep
  <1> QED
    BY <1>7, <1>8, <1>9 DEF QPNext

LEMMA StartIsFifo == QPInit => Fifo!FifoInit
  <1> SUFFICES ASSUME QPInit PROVE Fifo!FifoInit
    OBVIOUS
  <1>1. WqFifo = << >> /\ CqFifo = << >>
    BY SMT DEF QPInit, WqFifo, CqFifo
  <1>2. Cardinality(inflight) = 0
    BY FS_EmptySet DEF QPInit
  <1> QED BY <1>1, <1>2 DEF Fifo!FifoInit

\* For every ring size, the two rings of libzsim with their sense bits, private
\* indices and valid bits implement the bounded FIFOs of FifoQueuePair.
THEOREM QueuePairIsFifo == QPSpec => ImplementsFifo
  BY StartIsFifo, StepIsFifo, QPTyping, QPInvariant, PTL
  DEF QPSpec, ImplementsFifo, Fifo!FifoSpec

-----------------------------------------------------------------------------
(***************************************************************************)
(* Which buffer belongs to which thread.                                   *)
(***************************************************************************)
\* A product grows with each factor.
LEMMA ProductMonotone ==
  ASSUME NEW a \in Nat, NEW b \in Nat, NEW c \in Nat, a <= b
  PROVE  a * c <= b * c /\ c * a <= c * b
<1>1. PICK d \in Nat : b = a + d
  <2>1. b - a \in Nat /\ b = a + (b - a)
    BY SMT
  <2> QED BY <2>1
<1>2. b * c = a * c + d * c /\ d * c \in Nat /\ a * c = c * a /\ b * c = c * b
  BY SMT, <1>1
<1>3. a * c \in Nat
  BY SMT
<1> QED BY SMTT(20), <1>2, <1>3

\* With at least as many threads per client as clients, the index getCBufIdx
\* computes is in the region of the server thread, and its buffer exists.
THEOREM IndexInRegion ==
  ASSUME numClients \in Nat, threadsPerClient \in Nat, serverThreads \in Nat,
         numClients <= threadsPerClient,
         NEW c \in 1..numClients, NEW t \in 0..(threadsPerClient - 1),
         NEW s \in 0..(serverThreads - 1)
  PROVE  /\ InServerRegion(getCBufIdx(c, t, s), s)
         /\ getCBufIdx(c, t, s) < numBuffers
<1> DEFINE B == bufsPerServThread
           x == (c - 1) * numClients
<1>1. B \in Nat /\ x \in Nat /\ s * B \in Nat
  BY SMT DEF bufsPerServThread
<1>2. x + t < B
  <2>1. (c - 1) * numClients <= (numClients - 1) * numClients
    BY SMTT(20), ProductMonotone
  <2>2. (numClients - 1) * numClients <= (numClients - 1) * threadsPerClient
    BY SMTT(20), ProductMonotone
  <2>3. (numClients - 1) * threadsPerClient
          = numClients * threadsPerClient - threadsPerClient
    BY SMT
  <2>4. /\ (numClients - 1) * numClients \in Int
        /\ (numClients - 1) * threadsPerClient \in Int
    BY SMT
  <2> QED BY SMTT(20), <1>1, <2>1, <2>2, <2>3, <2>4 DEF bufsPerServThread
<1>3. (s + 1) * B = s * B + B
  BY SMT, <1>1
<1>4. getCBufIdx(c, t, s) = s * B + x + t
  BY DEF getCBufIdx
<1>5. (s + 1) * B <= serverThreads * B
  BY SMTT(20), <1>1, ProductMonotone
<1>6. serverThreads * B = numBuffers
  BY SMT DEF numBuffers, bufsPerServThread
<1>7. numBuffers \in Nat
  BY SMT DEF numBuffers
<1> HIDE DEF B, x
<1>8. getCBufIdx(c, t, s) \in Nat /\ s * B <= getCBufIdx(c, t, s)
      /\ getCBufIdx(c, t, s) < s * B + B
  BY SMTT(20), <1>1, <1>2, <1>4
<1>9. InServerRegion(getCBufIdx(c, t, s), s)
  BY <1>8, <1>3 DEF InServerRegion, B
<1> QED BY SMTT(20), <1>1, <1>3, <1>5, <1>6, <1>7, <1>8, <1>9

\* With at most as many threads per client as clients, no two client threads
\* get the same buffer from getCBufIdx for the same server thread.
THEOREM BuffersNotShared ==
  ASSUME numClients \in Nat, threadsPerClient \in Nat,
         threadsPerClient <= numClients,
         NEW c \in 1..numClients, NEW t \in 0..(threadsPerClient - 1),
         NEW d \in 1..numClients, NEW u \in 0..(threadsPerClient - 1),
         NEW s \in Nat,
         getCBufIdx(c, t, s) = getCBufIdx(d, u, s)
  PROVE  c = d /\ t = u
<1>1. (c - 1) * numClients + t = (d - 1) * numClients + u
  <2>1. s * bufsPerServThread \in Nat
    BY SMT DEF bufsPerServThread
  <2>2. (c - 1) * numClients \in Int /\ (d - 1) * numClients \in Int
    BY SMT
  <2> QED BY SMTT(20), <2>1, <2>2 DEF getCBufIdx
<1>2. ASSUME NEW a \in 1..numClients, NEW b \in 1..numClients, a < b,
             NEW v \in 0..(threadsPerClient - 1),
             NEW w \in 0..(threadsPerClient - 1)
      PROVE  (a - 1) * numClients + v < (b - 1) * numClients + w
  <2>1. a * numClients <= (b - 1) * numClients
    BY SMTT(20), <1>2, ProductMonotone
  <2>2. a * numClients = (a - 1) * numClients + numClients
    BY SMT
  <2>3. (a - 1) * numClients \in Int /\ (b - 1) * numClients \in Int
    BY SMT
  <2> QED BY SMTT(20), <2>1, <2>2, <2>3
<1>3. ~(c < d) /\ ~(d < c)
  <2>1. ASSUME c < d PROVE FALSE
    BY SMTT(20), <1>1, <1>2, <2>1
  <2>2. ASSUME d < c PROVE FALSE
    BY SMTT(20), <1>1, <1>2, <2>2
  <2> QED BY <2>1, <2>2
<1>4. c = d
  BY SMT, <1>3
<1> QED BY SMTT(20), <1>1, <1>4

\* With more clients than threads per client the comment of getCBufIdx does not
\* hold: for every server thread the last thread of the last client is given a
\* buffer outside the server thread's region.
THEOREM LastClientLeavesRegion ==
  ASSUME numClients \in Nat, threadsPerClient \in Nat \ {0},
         threadsPerClient < numClients, NEW s \in Nat
  PROVE  ~InServerRegion(getCBufIdx(numClients, threadsPerClient - 1, s), s)
<1> DEFINE B == bufsPerServThread
           x == (numClients - 1) * numClients
<1>1. B \in Nat /\ x \in Nat /\ s * B \in Nat
  BY SMT DEF bufsPerServThread
<1>2. B <= x + threadsPerClient - 1
  <2>1. (numClients - 1) * (threadsPerClient + 1) <= (numClients - 1) * numClients
    BY SMT, ProductMonotone
  <2>2. (numClients - 1) * (threadsPerClient + 1)
          = numClients * threadsPerClient - threadsPerClient + numClients - 1
    BY SMT
  <2> QED BY SMTT(20), <1>1, <2>1, <2>2 DEF bufsPerServThread
<1>3. (s + 1) * B = s * B + B
  BY SMT, <1>1
<1>4. getCBufIdx(numClients, threadsPerClient - 1, s)
        = s * B + x + (threadsPerClient - 1)
  BY DEF getCBufIdx
<1> HIDE DEF x
<1> QED BY SMTT(20), <1>1, <1>2, <1>3, <1>4 DEF InServerRegion

\* With more threads per client than clients getCBufIdx gives two threads of
\* different clients the same buffer.
THEOREM ThreadsShareBuffer ==
  ASSUME numClients \in Nat, threadsPerClient \in Nat,
         1 < numClients, numClients < threadsPerClient, NEW s \in Nat
  PROVE  getCBufIdx(1, numClients, s) = getCBufIdx(2, 0, s)
<1>1. s * bufsPerServThread \in Nat
  BY SMT DEF bufsPerServThread
<1> QED BY SMT, <1>1 DEF getCBufIdx

-----------------------------------------------------------------------------
(***************************************************************************)
(* The circular receive buffer.                                            *)
(***************************************************************************)
\* One step of an index changes its distance to another by one.
LEMMA AdvanceOne ==
  ASSUME NEW k \in Indices, NEW j \in Indices
  PROVE  /\ Advance(k, 1) \in Indices
         /\ Dist(k, j) \in Indices /\ Dist(k, k) = 0
         /\ Dist(Advance(k, 1), j) = IF k = j THEN numEntries - 1 ELSE Dist(k, j) - 1
         /\ Dist(k, Advance(j, 1)) = IF Dist(k, j) = numEntries - 1 THEN 0 ELSE Dist(k, j) + 1
         /\ Dist(k, j) = 0 => k = j
  BY SMTT(20), NumEntriesAssumption DEF Indices, Advance, Dist

LEMMA AdvanceMany ==
  ASSUME NEW k \in Indices, NEW inc \in Nat \ {0}, k + inc <= numEntries
  PROVE  /\ Advance(k, inc) \in Indices
         /\ \A j \in Indices, n \in Nat :
              Apart(k, j, n) /\ inc <= n => Apart(Advance(k, inc), j, n - inc)
         /\ inc < numEntries => Advance(k, inc) # k
  BY SMT, NumEntriesAssumption DEF Indices, Advance, Dist, Apart

LEMMA CBufTypes == CBufTypeOK /\ MaxInc \in Nat /\ [CBufNext]_cbufVars => CBufTypeOK'
  <1> SUFFICES ASSUME CBufTypeOK, MaxInc \in Nat, [CBufNext]_cbufVars
               PROVE  CBufTypeOK'
    OBVIOUS
  <1>1. CASE writeSRMetadata
    BY <1>1 DEF writeSRMetadata, receiver, CBufTypeOK
  <1>2. CASE RemoteWrite
    BY SMT, <1>2 DEF RemoteWrite, receiver, CBufTypeOK
  <1>3. CASE incTail
    <2>1. tail' \in Indices
      BY <1>3, AdvanceOne DEF incTail, CBufTypeOK
    <2>2. buffer_sr' \in BOOLEAN /\ is_full' \in BOOLEAN
      BY <1>3 DEF incTail, CBufTypeOK
    <2> QED BY <1>3, <2>1, <2>2 DEF incTail, receiver, CBufTypeOK
  <1>4. ASSUME NEW inc \in 1..MaxInc, incSendersHeadToFreeSpace(inc) PROVE CBufTypeOK'
    <2>1. senders_head' \in Indices /\ acks' \in Nat /\ acked' \in Nat
      BY SMTT(20), <1>4, NumEntriesAssumption
      DEF incSendersHeadToFreeSpace, Advance, Indices, CBufTypeOK
    <2> QED BY <1>4, <2>1 DEF incSendersHeadToFreeSpace, receiver, CBufTypeOK
  <1>5. CASE pollOnBufferNumber
    BY SMT, <1>5 DEF pollOnBufferNumber, sender, CBufTypeOK
  <1>6. CASE zeroOutRBufHead
    BY <1>6 DEF zeroOutRBufHead, zeroEntryNumber, sender, receiver, CBufTypeOK
  <1>7. CASE incHeadAfterMsgProcessed
    BY SMTT(20), <1>7, AdvanceOne DEF incHeadAfterMsgProcessed, sender, CBufTypeOK
  <1>8. CASE UNCHANGED cbufVars
    BY <1>8 DEF cbufVars, CBufTypeOK
  <1> QED
    BY <1>1, <1>2, <1>3, <1>4, <1>5, <1>6, <1>7, <1>8 DEF CBufNext, SenderStep, ReceiverStep

\* What the memory holds in slot k.
Holds(k) == LET m == HeadMoves + 1 + Dist(head, k)
            IN  \/ entries[k] = IF m <= sent THEN m ELSE 0
                \/ k = head /\ polled # 0 /\ entries[k] = 0

LEMMA ReceiverKept ==
  ASSUME CBufTypeOK, ReceiverInv, UNCHANGED <<receiver, entries, sent>>, CBufTypeOK',
         acked' + acks' = acked + acks, sent <= acked' + numEntries, NextSlot' = NextSlot,
         sending' = "marked" => sent < acked' + numEntries,
         sending' = "written" => sent > acked'
  PROVE  ReceiverInv'
  <1>1. HeadMoves' = HeadMoves /\ ReceivedInOrder'
    BY DEF receiver, HeadMoves, ReceiverInv, ReceivedInOrder
  <1>2. Apart(head, NextSlot, sent - HeadMoves)'
    BY <1>1 DEF ReceiverInv, receiver, Apart, Dist
  <1>3. ASSUME NEW k \in Indices PROVE Holds(k)'
    BY <1>1 DEF ReceiverInv, receiver, Holds, Dist
  <1> QED BY <1>1, <1>2, <1>3 DEF ReceiverInv, receiver, Holds

LEMMA ReceiverRemoteWrite ==
  ASSUME CBufTypeOK, ReceiverInv, RemoteWrite PROVE ReceiverInv'
  <1>0. /\ tail \in Indices /\ head \in Indices /\ sent \in Nat /\ acked \in Nat /\ acks \in Nat
        /\ HeadMoves \in Nat /\ sending = "marked" /\ entries \in [Indices -> Nat]
    BY SMT DEF CBufTypeOK, ReceiverInv, RemoteWrite
  <1>1. /\ entries' = [entries EXCEPT ![tail] = sent + 1] /\ sent' = sent + 1
        /\ sending' = "written" /\ UNCHANGED <<head, polled, received, acks, tail, acked>>
    BY DEF RemoteWrite, receiver
  <1>2. HeadMoves' = HeadMoves /\ ReceivedInOrder'
    BY <1>1 DEF HeadMoves, ReceiverInv, ReceivedInOrder
  <1>3. /\ acked + acks = HeadMoves /\ HeadMoves <= sent /\ sent < acked + numEntries
        /\ polled # 0 => polled = HeadMoves + 1 /\ HeadMoves < sent
    BY <1>0 DEF ReceiverInv
  <1>4. sent - HeadMoves = Dist(head, tail)
    BY SMTT(20), <1>0, <1>3, NumEntriesAssumption DEF ReceiverInv, NextSlot, Apart
  <1>5. Apart(head, NextSlot, sent - HeadMoves)'
    <2>1. NextSlot' = Advance(tail, 1)
      BY <1>1 DEF NextSlot, Advance
    <2>2. sent + 1 - HeadMoves = Dist(head, Advance(tail, 1))
          \/ (head = Advance(tail, 1) /\ sent + 1 - HeadMoves = numEntries)
      BY SMTT(20), <1>0, <1>4, AdvanceOne, NumEntriesAssumption
    <2>3. (sent - HeadMoves)' = sent + 1 - HeadMoves /\ head' = head
      BY SMTT(20), <1>0, <1>1, <1>2
    <2>4. PICK j : j = Advance(tail, 1)
      OBVIOUS
    <2>5. NextSlot' = j /\ Dist(head, NextSlot)' = Dist(head, j)
      BY <2>1, <2>3, <2>4 DEF Dist
    <2> QED BY <2>2, <2>3, <2>4, <2>5 DEF Apart
  <1>6. ASSUME NEW k \in Indices PROVE Holds(k)'
    <2>1. Holds(k) /\ Dist(head, k) \in Nat /\ (Dist(head, k) = Dist(head, tail) => k = tail)
      BY SMTT(20), <1>0, NumEntriesAssumption DEF ReceiverInv, Holds, Dist, Indices
    <2>2. CASE k = tail
      <3>1. entries'[k] = sent + 1 /\ HeadMoves + 1 + Dist(head, k) = sent + 1
        BY SMTT(20), <1>0, <1>1, <1>4, <2>2
      <3> QED BY SMTT(20), <1>0, <1>1, <1>2, <3>1 DEF Holds, Dist
    <2>3. CASE k # tail
      <3>1. entries'[k] = entries[k] /\ HeadMoves + 1 + Dist(head, k) # sent + 1
        BY SMTT(20), <1>0, <1>1, <1>4, <2>1, <2>3
      <3> QED BY SMTT(20), <1>0, <1>1, <1>2, <2>1, <3>1 DEF Holds, Dist
    <2> QED BY <2>2, <2>3
  <1>7. HeadMoves' <= sent' /\ sent' <= acked' + numEntries /\ sent' > acked'
        /\ (polled' # 0 => polled' = HeadMoves' + 1 /\ HeadMoves' < sent')
    BY SMTT(20), <1>0, <1>1, <1>2, <1>3, NumEntriesAssumption
  <1> QED BY <1>1, <1>2, <1>3, <1>5, <1>6, <1>7 DEF ReceiverInv, Holds

LEMMA ReceiverPoll ==
  ASSUME CBufTypeOK, ReceiverInv, pollOnBufferNumber PROVE ReceiverInv'
  <1>0. /\ head \in Indices /\ sent \in Nat /\ received \in Seq(Nat) /\ entries \in [Indices -> Nat]
        /\ HeadMoves = Len(received) /\ polled = 0 /\ entries[head] # 0 /\ HeadMoves \in Nat
    BY SMT DEF CBufTypeOK, ReceiverInv, pollOnBufferNumber, HeadMoves
  <1>1. /\ polled' = entries[head] /\ received' = Append(received, entries[head])
        /\ UNCHANGED <<tail, sending, sent, acked, entries, acks, head>>
    BY DEF pollOnBufferNumber, sender
  <1>2. entries[head] = HeadMoves + 1 /\ HeadMoves < sent
    <2>1. Holds(head) /\ Dist(head, head) = 0
      BY <1>0, AdvanceOne DEF ReceiverInv, Holds
    <2> QED BY SMTT(20), <1>0, <2>1 DEF Holds
  <1>3. HeadMoves' = HeadMoves
    BY SMTT(20), <1>0, <1>1, <1>2 DEF HeadMoves
  <1>4. ReceivedInOrder'
    BY SMTT(20), <1>0, <1>1, <1>2 DEF ReceiverInv, ReceivedInOrder
  <1>5. Apart(head, NextSlot, sent - HeadMoves)'
    BY <1>1, <1>3 DEF ReceiverInv, Apart, Dist, NextSlot, Advance
  <1>6. ASSUME NEW k \in Indices PROVE Holds(k)'
    BY <1>0, <1>1, <1>3 DEF ReceiverInv, Holds, Dist
  <1> QED BY <1>0, <1>1, <1>2, <1>3, <1>4, <1>5, <1>6 DEF ReceiverInv, Holds

LEMMA ReceiverZero ==
  ASSUME CBufTypeOK, ReceiverInv, zeroOutRBufHead PROVE ReceiverInv'
  <1>1. /\ entries' = [entries EXCEPT ![head] = 0] /\ polled # 0
        /\ UNCHANGED <<tail, sending, sent, acked, acks, head, polled, received>>
    BY DEF zeroOutRBufHead, zeroEntryNumber, sender, receiver
  <1>2. HeadMoves' = HeadMoves /\ ReceivedInOrder'
    BY <1>1 DEF HeadMoves, ReceiverInv, ReceivedInOrder
  <1>3. Apart(head, NextSlot, sent - HeadMoves)'
    BY <1>1, <1>2 DEF ReceiverInv, Apart, Dist, NextSlot, Advance
  <1>4. ASSUME NEW k \in Indices PROVE Holds(k)'
    <2>1. entries'[k] = IF k = head THEN 0 ELSE entries[k]
      BY <1>1 DEF CBufTypeOK
    <2> QED BY <1>1, <1>2, <2>1 DEF ReceiverInv, Holds, Dist
  <1> QED BY <1>1, <1>2, <1>3, <1>4 DEF ReceiverInv, Holds

LEMMA ReceiverAdvance ==
  ASSUME CBufTypeOK, ReceiverInv, incHeadAfterMsgProcessed PROVE ReceiverInv'
  <1>0. /\ head \in Indices /\ tail \in Indices /\ sent \in Nat /\ acked \in Nat /\ acks \in Nat
        /\ received \in Seq(Nat) /\ polled # 0 /\ entries[head] = 0 /\ HeadMoves = Len(received) - 1
        /\ acked + acks = HeadMoves /\ HeadMoves \in Nat /\ sent <= acked + numEntries
        /\ HeadMoves < sent /\ NextSlot \in Indices
    BY SMTT(20), AdvanceOne DEF CBufTypeOK, ReceiverInv, incHeadAfterMsgProcessed, HeadMoves, NextSlot
  <1>1. /\ head' = Advance(head, 1) /\ polled' = 0 /\ acks' = acks + 1
        /\ UNCHANGED <<tail, sending, sent, acked, entries, received>>
    BY DEF incHeadAfterMsgProcessed, sender
  <1>2. HeadMoves' = HeadMoves + 1 /\ ReceivedInOrder'
    BY SMTT(20), <1>0, <1>1 DEF HeadMoves, ReceiverInv, ReceivedInOrder
  <1>3. Apart(head, NextSlot, sent - HeadMoves)'
    <2>1. NextSlot' = NextSlot
      BY <1>1 DEF NextSlot, Advance
    <2>2. Apart(head, NextSlot, sent - HeadMoves)
      BY DEF ReceiverInv
    <2>4. /\ Dist(Advance(head, 1), NextSlot)
               = IF head = NextSlot THEN numEntries - 1 ELSE Dist(head, NextSlot) - 1
          /\ Dist(head, head) = 0
      BY <1>0, AdvanceOne
    <2>3. sent - (HeadMoves + 1) = Dist(Advance(head, 1), NextSlot)
      BY SMTT(20), <1>0, <2>2, <2>4, NumEntriesAssumption DEF Apart
    <2> QED BY <1>1, <1>2, <2>1, <2>3 DEF Apart, Dist
  <1>4. ASSUME NEW k \in Indices PROVE Holds(k)'
    <2>1. Holds(k) /\ Dist(head, k) \in Nat
      BY SMTT(20), <1>0, AdvanceOne DEF ReceiverInv, Holds, Indices
    <2>2. Dist(Advance(head, 1), k) = IF head = k THEN numEntries - 1 ELSE Dist(head, k) - 1
      BY <1>0, AdvanceOne
    <2>3. entries[k] = IF HeadMoves + 2 + Dist(Advance(head, 1), k) <= sent
                       THEN HeadMoves + 2 + Dist(Advance(head, 1), k) ELSE 0
      BY SMTT(20), <1>0, <2>1, <2>2, NumEntriesAssumption DEF Holds
    <2>4. HeadMoves' + 1 = HeadMoves + 2 /\ Dist(head, k)' = Dist(Advance(head, 1), k)
      BY SMTT(20), <1>0, <1>1, <1>2 DEF Dist
    <2> QED BY <1>1, <2>3, <2>4 DEF Holds
  <1> QED BY SMTT(20), <1>0, <1>1, <1>2, <1>3, <1>4 DEF ReceiverInv, Holds

LEMMA ReceiverStart == CBufInit => CBufTypeOK /\ ReceiverInv
  <1> SUFFICES ASSUME CBufInit PROVE CBufTypeOK /\ ReceiverInv
    OBVIOUS
  <1>1. CBufTypeOK
    BY SMTT(20), NumEntriesAssumption DEF CBufInit, CBufTypeOK, Indices
  <1>2. HeadMoves = 0 /\ NextSlot = 0 /\ ReceivedInOrder /\ Apart(head, NextSlot, sent - HeadMoves)
    <2>1. HeadMoves = 0 /\ NextSlot = 0 /\ ReceivedInOrder
      BY SMT DEF CBufInit, HeadMoves, NextSlot, ReceivedInOrder
    <2> QED BY SMTT(20), <2>1 DEF CBufInit, Apart, Dist
  <1>3. ASSUME NEW k \in Indices PROVE Holds(k)
    BY SMT, <1>2 DEF CBufInit, Holds, Dist, Indices
  <1> QED BY SMTT(20), <1>1, <1>2, <1>3, NumEntriesAssumption DEF CBufInit, ReceiverInv, Holds

LEMMA ReceiverSteps ==
  MaxInc \in Nat /\ CBufTypeOK /\ ReceiverInv /\ [CBufNext]_cbufVars => CBufTypeOK' /\ ReceiverInv'
  <1> SUFFICES ASSUME MaxInc \in Nat, CBufTypeOK, ReceiverInv, [CBufNext]_cbufVars
               PROVE  CBufTypeOK' /\ ReceiverInv'
    OBVIOUS
  <1>0. CBufTypeOK'
    BY CBufTypes
  <1>1. CASE writeSRMetadata
    <2>1. /\ UNCHANGED <<receiver, entries, sent, acks, acked, tail>> /\ sending = "idle"
          /\ sending' = "marked" /\ sent < acked + numEntries
      BY SMTT(20), <1>1, NumEntriesAssumption DEF writeSRMetadata, MayWrite, CBufTypeOK
    <2>2. NextSlot' = NextSlot
      BY <2>1 DEF NextSlot
    <2> QED BY <1>0, <2>1, <2>2, ReceiverKept DEF ReceiverInv
  <1>2. CASE incTail
    <2>1. /\ UNCHANGED <<receiver, entries, sent, acks, acked>> /\ sending = "written"
          /\ sending' = "idle" /\ tail' = Advance(tail, 1)
      BY <1>2 DEF incTail
    <2>2. NextSlot' = NextSlot
      BY <2>1 DEF NextSlot
    <2> QED BY <1>0, <2>1, <2>2, ReceiverKept DEF ReceiverInv
  <1>3. ASSUME NEW inc \in 1..MaxInc, incSendersHeadToFreeSpace(inc) PROVE ReceiverInv'
    <2>1. /\ UNCHANGED <<receiver, entries, sent, tail, sending>> /\ sending = "idle"
          /\ acks >= inc /\ acks' = acks - inc /\ acked' = acked + inc
      BY <1>3 DEF incSendersHeadToFreeSpace
    <2>2. NextSlot' = NextSlot
      BY <2>1 DEF NextSlot
    <2>3. acked' + acks' = acked + acks /\ sent <= acked' + numEntries
      BY SMTT(20), <2>1, NumEntriesAssumption DEF ReceiverInv, CBufTypeOK
    <2> QED BY <1>0, <2>1, <2>2, <2>3, ReceiverKept
  <1>4. CASE UNCHANGED cbufVars
    <2>1. UNCHANGED <<receiver, entries, sent, acks, acked, tail, sending>>
      BY <1>4 DEF cbufVars, receiver
    <2>2. NextSlot' = NextSlot
      BY <2>1 DEF NextSlot, Advance
    <2> QED BY <1>0, <2>1, <2>2, ReceiverKept DEF ReceiverInv
  <1> QED
    BY <1>0, <1>1, <1>2, <1>3, <1>4, ReceiverRemoteWrite, ReceiverPoll, ReceiverZero, ReceiverAdvance
    DEF CBufNext, SenderStep, ReceiverStep

\* For every size of the buffer and every batch of acknowledgements, the
\* receiver gets the messages in the order they were sent: no entry is
\* overwritten before it is polled, zeroed and passed by the head.
THEOREM MessagesInOrder == ASSUME MaxInc \in Nat PROVE CBufSpec => []ReceivedInOrder
  <1>1. ReceiverInv => ReceivedInOrder
    BY DEF ReceiverInv
  <1>2. CBufTypeOK /\ ReceiverInv /\ [CBufNext]_cbufVars => CBufTypeOK' /\ ReceiverInv'
    BY ReceiverSteps
  <1> QED
    BY <1>1, <1>2, ReceiverStart, PTL DEF CBufSpec

LEMMA SenderStart == CBufInit => SenderInv
  <1> SUFFICES ASSUME CBufInit PROVE SenderInv
    OBVIOUS
  <1>1. TailMoves = 0 /\ Apart(senders_head, tail, TailMoves - acked)
    BY SMT DEF CBufInit, TailMoves, Apart, Dist
  <1>2. is_full <=> TailMoves = acked + numEntries
    BY SMTT(20), <1>1, NumEntriesAssumption DEF CBufInit
  <1>3. \A k \in Indices : sr_vector[k] <=>
          IF k < tail \/ (k = tail /\ sending # "idle") THEN buffer_sr ELSE ~buffer_sr
    BY SMT DEF CBufInit, Indices
  <1> QED BY <1>1, <1>2, <1>3 DEF SenderInv, CountInv

LEMMA SenderKept ==
  ASSUME SenderInv, UNCHANGED <<tail, senders_head, is_full, acked, overshot>>,
         TailMoves' = TailMoves
  PROVE  ~overshot' => CountInv'
  BY DEF SenderInv, CountInv, Apart, Dist

LEMMA SenderMark == ASSUME CBufTypeOK, SenderInv, writeSRMetadata PROVE SenderInv'
  <1>1. /\ sr_vector' = [sr_vector EXCEPT ![tail] = buffer_sr] /\ sending = "idle"
        /\ sending' = "marked"
        /\ UNCHANGED <<tail, senders_head, is_full, acked, sent, buffer_sr, overshot>>
    BY DEF writeSRMetadata
  <1>2. TailMoves' = TailMoves
    BY <1>1 DEF TailMoves
  <1>3. ASSUME NEW k \in Indices
        PROVE  sr_vector'[k] <=> IF k < tail' \/ (k = tail' /\ sending' # "idle")
                                 THEN buffer_sr' ELSE ~buffer_sr'
    <2>1. sr_vector[k] <=> IF k < tail THEN buffer_sr ELSE ~buffer_sr
      BY <1>1 DEF SenderInv
    <2>2. ~(tail < tail)
      BY SMT DEF CBufTypeOK, Indices
    <2>3. sr_vector'[k] = IF k = tail THEN buffer_sr ELSE sr_vector[k]
      BY <1>1 DEF CBufTypeOK
    <2> QED BY <1>1, <2>1, <2>2, <2>3
  <1> QED BY <1>1, <1>2, <1>3, SenderKept DEF SenderInv

LEMMA SenderWrite == ASSUME CBufTypeOK, SenderInv, RemoteWrite PROVE SenderInv'
  <1>1. /\ sent' = sent + 1 /\ sending = "marked" /\ sending' = "written"
        /\ UNCHANGED <<tail, senders_head, is_full, acked, sr_vector, buffer_sr, overshot>>
    BY DEF RemoteWrite
  <1>2. TailMoves' = TailMoves
    BY SMTT(20), <1>1 DEF TailMoves, CBufTypeOK
  <1> QED BY <1>1, <1>2, SenderKept DEF SenderInv

LEMMA SenderAdvance == ASSUME CBufTypeOK, ReceiverInv, SenderInv, incTail PROVE SenderInv'
  <1>0. /\ tail \in Indices /\ senders_head \in Indices /\ sent \in Nat /\ acked \in Nat
        /\ sent > acked /\ sent <= acked + numEntries
    BY DEF CBufTypeOK, ReceiverInv, incTail
  <1>1. /\ sending = "written" /\ sending' = "idle" /\ tail' = Advance(tail, 1)
        /\ buffer_sr' = IF tail + 1 >= numEntries THEN ~buffer_sr ELSE buffer_sr
        /\ is_full' = (is_full \/ tail' = senders_head)
        /\ UNCHANGED <<senders_head, sr_vector, sent, acked, overshot>>
    BY DEF incTail
  <1>2. TailMoves = sent - 1 /\ TailMoves' = sent
    BY <1>1 DEF TailMoves
  <1>3. ASSUME CountInv
        PROVE  /\ sent - acked = Dist(senders_head, Advance(tail, 1))
                  \/ (senders_head = Advance(tail, 1) /\ sent - acked = numEntries)
               /\ senders_head = Advance(tail, 1) <=> sent = acked + numEntries
    <2>1. sent - 1 - acked = Dist(senders_head, tail)
      BY SMTT(20), <1>0, <1>2, <1>3, NumEntriesAssumption DEF CountInv, Apart
    <2>2. /\ Advance(tail, 1) \in Indices /\ Dist(senders_head, tail) \in Indices
          /\ Dist(senders_head, Advance(tail, 1))
               = IF Dist(senders_head, tail) = numEntries - 1 THEN 0 ELSE Dist(senders_head, tail) + 1
      BY <1>0, AdvanceOne
    <2>3. Dist(senders_head, Advance(tail, 1)) = 0 <=> senders_head = Advance(tail, 1)
      BY <1>0, <2>2, AdvanceOne
    <2> QED BY SMTT(20), <1>0, <2>1, <2>2, <2>3, NumEntriesAssumption DEF Indices
  <1>4. ASSUME CountInv PROVE Apart(senders_head, tail, TailMoves - acked)'
    <2>1. PICK j : j = Advance(tail, 1)
      OBVIOUS
    <2>2. tail' = j /\ senders_head' = senders_head /\ (TailMoves - acked)' = sent - acked
      BY <1>1, <1>2, <2>1
    <2> QED BY <1>3, <1>4, <2>1, <2>2 DEF Apart, Dist
  <1>5. ASSUME CountInv PROVE is_full' <=> TailMoves' = acked' + numEntries
    <2>1. ~is_full
      BY SMTT(20), <1>0, <1>2, <1>5, NumEntriesAssumption DEF CountInv
    <2> QED BY <1>1, <1>2, <1>3, <1>5, <2>1
  <1>6. ASSUME NEW k \in Indices
        PROVE  sr_vector'[k] <=> IF k < tail' \/ (k = tail' /\ sending' # "idle")
                                 THEN buffer_sr' ELSE ~buffer_sr'
    <2>1. sr_vector'[k] <=> IF k < tail \/ k = tail THEN buffer_sr ELSE ~buffer_sr
      BY <1>1 DEF SenderInv
    <2>2. CASE tail + 1 >= numEntries
      <3>1. ~(k < tail') /\ (k < tail \/ k = tail)
        BY SMTT(20), <1>0, <1>1, <2>2, NumEntriesAssumption DEF Advance, Indices
      <3>2. (buffer_sr' <=> ~buffer_sr) /\ sending' = "idle"
        BY <1>1, <2>2
      <3> QED BY <2>1, <3>1, <3>2
    <2>3. CASE ~(tail + 1 >= numEntries)
      <3>1. k < tail' <=> k < tail \/ k = tail
        BY SMTT(20), <1>0, <1>1, <2>3, NumEntriesAssumption DEF Advance, Indices
      <3>2. buffer_sr' = buffer_sr /\ sending' = "idle"
        BY <1>1, <2>3
      <3> QED BY <2>1, <3>1, <3>2
    <2> QED BY <2>2, <2>3
  <1> QED BY <1>1, <1>4, <1>5, <1>6 DEF SenderInv, CountInv

LEMMA SenderAcknowledge ==
  ASSUME CBufTypeOK, ReceiverInv, SenderInv, NEW inc \in Nat \ {0}, incSendersHeadToFreeSpace(inc),
         ~overshot'
  PROVE  CountInv'
  <1>0. /\ tail \in Indices /\ senders_head \in Indices /\ sent \in Nat /\ acked \in Nat
        /\ acks \in Nat /\ acked + acks <= sent /\ sent <= acked + numEntries
    BY DEF CBufTypeOK, ReceiverInv
  <1>1. /\ sending = "idle" /\ inc <= acks
        /\ acked' = acked + inc /\ senders_head' = Advance(senders_head, inc)
        /\ is_full' = (is_full /\ tail = senders_head')
        /\ UNCHANGED <<tail, sr_vector, buffer_sr, sending, sent>>
        /\ ~overshot /\ ~PastEnd(inc)
    BY <1>0 DEF incSendersHeadToFreeSpace
  <1>a. senders_head + inc <= numEntries /\ inc < numEntries
    BY SMTT(20), <1>0, <1>1, NumEntriesAssumption DEF PastEnd, Indices
  <1>2. TailMoves = sent /\ TailMoves' = sent
    BY <1>1 DEF TailMoves
  <1>3. Apart(senders_head, tail, sent - acked) /\ (is_full <=> sent = acked + numEntries)
    BY <1>1, <1>2 DEF SenderInv, CountInv
  <1>4. Apart(Advance(senders_head, inc), tail, sent - acked - inc)
    <2>1. sent - acked \in Nat /\ inc <= sent - acked
      BY SMTT(20), <1>0, <1>1
    <2> QED BY <1>0, <1>a, <1>3, <2>1, AdvanceMany
  <1>5. Apart(senders_head, tail, TailMoves - acked)'
    <2>1. PICK j : j = Advance(senders_head, inc)
      OBVIOUS
    <2>2. tail' = tail /\ senders_head' = j /\ (TailMoves - acked)' = sent - acked - inc
      BY SMTT(20), <1>0, <1>1, <1>2, <2>1
    <2> QED BY <1>4, <2>1, <2>2 DEF Apart, Dist
  <1>6. ~is_full'
    <2>1. ASSUME sent = acked + numEntries PROVE tail = senders_head
      BY SMTT(20), <1>0, <1>3, <2>1, AdvanceOne, NumEntriesAssumption DEF Apart, Indices
    <2>2. Advance(senders_head, inc) # senders_head
      BY <1>0, <1>a, AdvanceMany
    <2> QED BY <1>1, <1>3, <2>1, <2>2
  <1>7. TailMoves' # acked' + numEntries
    BY SMTT(20), <1>0, <1>1, <1>2, NumEntriesAssumption
  <1> QED BY <1>5, <1>6, <1>7 DEF CountInv

LEMMA SenderSteps ==
  MaxInc \in Nat /\ CBufTypeOK /\ ReceiverInv /\ SenderInv /\ [CBufNext]_cbufVars => SenderInv'
  <1> SUFFICES ASSUME MaxInc \in Nat, CBufTypeOK, ReceiverInv, SenderInv, [CBufNext]_cbufVars
               PROVE  SenderInv'
    OBVIOUS
  <1>1. ASSUME NEW inc \in 1..MaxInc, incSendersHeadToFreeSpace(inc) PROVE SenderInv'
    <2>1. inc \in Nat \ {0}
      BY SMTT(20)
    <2>2. ~overshot' => CountInv'
      BY <1>1, <2>1, SenderAcknowledge
    <2>3. UNCHANGED <<tail, sr_vector, buffer_sr, sending>>
      BY <1>1 DEF incSendersHeadToFreeSpace
    <2> QED BY <2>2, <2>3 DEF SenderInv
  <1>2. ASSUME UNCHANGED sender PROVE SenderInv'
    <2>1. TailMoves' = TailMoves
      BY <1>2 DEF sender, TailMoves
    <2> QED BY <1>2, <2>1, SenderKept DEF SenderInv, sender
  <1>3. CASE ReceiverStep \/ UNCHANGED cbufVars
    BY <1>2, <1>3 DEF ReceiverStep, pollOnBufferNumber, zeroOutRBufHead, incHeadAfterMsgProcessed,
                      cbufVars, sender
  <1> QED
    BY <1>1, <1>3, SenderMark, SenderWrite, SenderAdvance DEF CBufNext, SenderStep

\* What getAvailSlots says, from the indices alone.
LEMMA AvailSlots ==
  ASSUME CBufTypeOK
  PROVE  getAvailSlots = IF senders_head = tail THEN numEntries
                         ELSE numEntries - Dist(senders_head, tail)
  <1>1. senders_head \in Indices /\ tail \in Indices /\ is_full \in BOOLEAN
    BY DEF CBufTypeOK
  <1> QED BY SMTT(20), <1>1, NumEntriesAssumption DEF getAvailSlots, getBufferSize, isEmpty, Dist, Indices

LEMMA CountFollows == CBufTypeOK /\ SenderInv => SenderCountExact
  <1> SUFFICES ASSUME CBufTypeOK, SenderInv, sending = "idle"
               PROVE  /\ ~overshot =>
                           /\ is_full <=> sent - acked = numEntries
                           /\ getAvailSlots = IF is_full THEN numEntries ELSE numEntries - (sent - acked)
                      /\ sr_vector[tail] # buffer_sr
    BY DEF SenderCountExact
  <1>1. TailMoves = sent /\ sent \in Nat /\ acked \in Nat /\ tail \in Indices
        /\ senders_head \in Indices
    BY DEF TailMoves, CBufTypeOK
  <1>2. ASSUME ~overshot PROVE is_full <=> sent - acked = numEntries
    BY SMTT(20), <1>1, <1>2, NumEntriesAssumption DEF SenderInv, CountInv
  <1>3. ASSUME ~overshot
        PROVE  getAvailSlots = IF is_full THEN numEntries ELSE numEntries - (sent - acked)
    <2>1. sent - acked = Dist(senders_head, tail) \/ (senders_head = tail /\ sent - acked = numEntries)
      BY <1>1, <1>3 DEF SenderInv, CountInv, Apart
    <2>2. Dist(senders_head, tail) \in Indices /\ (Dist(senders_head, tail) = 0 <=> senders_head = tail)
      BY <1>1, AdvanceOne
    <2> QED BY SMTT(20), <1>1, <1>2, <1>3, <2>1, <2>2, AvailSlots, NumEntriesAssumption DEF Indices
  <1>4. sr_vector[tail] # buffer_sr
    <2>1. ~(tail < tail)
      BY SMTT(20), <1>1 DEF Indices
    <2> QED BY <1>1, <2>1 DEF SenderInv
  <1> QED BY <1>2, <1>3, <1>4

\* For every size of the buffer and every batch of acknowledgements: as long as
\* no batch has gone past the end, is_full tells whether the buffer is full and
\* getAvailSlots counts the free slots, except that it says numEntries of a
\* full buffer.  The assertion of incTail holds in any case.
THEOREM SenderCounts == ASSUME MaxInc \in Nat PROVE CBufSpec => []SenderCountExact
  <1>1. CBufTypeOK /\ ReceiverInv /\ [CBufNext]_cbufVars => CBufTypeOK' /\ ReceiverInv'
    BY ReceiverSteps
  <1>2. CBufTypeOK /\ ReceiverInv /\ SenderInv /\ [CBufNext]_cbufVars => SenderInv'
    BY SenderSteps
  <1> QED
    BY <1>1, <1>2, ReceiverStart, SenderStart, CountFollows, PTL DEF CBufSpec

\* A first batch that goes past the end makes the sender lose slots: senders_head
\* becomes 0 where it should become the remainder, and getAvailSlots says that
\* many too few.
THEOREM BatchPastEndLosesSlots ==
  ASSUME CBufTypeOK, ReceiverInv, SenderInv, ~overshot, MaxInc \in Nat, NEW inc \in 1..MaxInc,
         incSendersHeadToFreeSpace(inc), senders_head + inc > numEntries
  PROVE  getAvailSlots' = numEntries - (sent - acked)' - (senders_head + inc - numEntries)
  <1>0. /\ tail \in Indices /\ senders_head \in Indices /\ sent \in Nat /\ acked \in Nat
        /\ acks \in Nat /\ acked + acks <= sent /\ sent <= acked + numEntries
    BY DEF CBufTypeOK, ReceiverInv
  <1>1. /\ sending = "idle" /\ inc <= acks /\ inc \in Nat
        /\ acked' = acked + inc /\ senders_head' = 0 /\ tail' = tail /\ sent' = sent
    BY SMTT(20), <1>0, NumEntriesAssumption DEF incSendersHeadToFreeSpace, Advance, Indices
  <1>2. sent - acked = Dist(senders_head, tail) \/ (senders_head = tail /\ sent - acked = numEntries)
    BY <1>1 DEF SenderInv, CountInv, Apart, TailMoves
  <1>3. 0 < tail
    BY SMTT(20), <1>0, <1>1, <1>2, NumEntriesAssumption DEF Dist, Indices
  <1>4. getAvailSlots' = numEntries - tail
    <2>1. ~isEmpty' /\ getBufferSize' = tail
      BY SMTT(20), <1>0, <1>1, <1>3 DEF isEmpty, getBufferSize, Indices
    <2> QED BY <2>1 DEF getAvailSlots
  <1> QED BY SMTT(20), <1>0, <1>1, <1>2, <1>4, NumEntriesAssumption DEF Dist, Indices

\* A batch that acknowledges the whole buffer at once from its first entry
\* leaves is_full set on an empty buffer: incSendersHeadToFreeSpace brings
\* senders_head back to where it was, and only clears is_full if tail differs
\* from it.
THEOREM WholeBatchStaysFull ==
  ASSUME is_full, senders_head = 0, tail = 0, incSendersHeadToFreeSpace(numEntries)
  PROVE  is_full' /\ senders_head' = tail'
  <1>1. senders_head' = 0
    BY SMT, NumEntriesAssumption DEF incSendersHeadToFreeSpace, Advance
  <1> QED BY <1>1 DEF incSendersHeadToFreeSpace

=============================================================================
