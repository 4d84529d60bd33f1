-------------------------- MODULE L3fwdWorkerProofs -------------------------
(***************************************************************************)
(* The queue pair and the worker, for every ring and buffer size: the      *)
(* sense-bit tests of a queue pair are exact and the worker uses its queue *)
(* pair as RmcQueuePair allows; the response of a SEND that has not        *)
(* completed is never overwritten; a receive buffer has one owner at a     *)
(* time; the responses are posted in the order of the requests.            *)
(***************************************************************************)
EXTENDS L3fwdWorker, Integers, TLAPS

\* Zenon does every leaf that names no other prover.
USE Zenon

-----------------------------------------------------------------------------
(***************************************************************************)
(* The queue pair: typing and the sense bits.                              *)
(***************************************************************************)
LEMMA QPInitType == QPInit => QPTypeOK
  BY SMT, RingAssumption, NidsAssumption DEF QPInit, QPTypeOK, Slots, WQEntry, CQEntry,
     RMC_SEND, RMC_RECV, RMC_INVAL, RMC_INCOMING_SEND, RMC_INCOMING_RESP,
     SUCCESS_SEND, SUCCESS_RESP, SUCCESS_OTHER

LEMMA NextIdxType ==
  ASSUME NEW i \in Slots, NEW sr \in {0, 1}
  PROVE  NextIdx(i) \in Slots /\ NextSR(i, sr) \in {0, 1}
  BY SMT, RingAssumption DEF Slots, NextIdx, NextSR

LEMMA PostType ==
  ASSUME QPTypeOK, NEW op \in {RMC_SEND, RMC_RECV},
         NEW buf \in SendAddrs \cup RecvBufs, NEW nid \in Nids,
         PostWq(op, buf, nid)
  PROVE  QPTypeOK'
  <1>1. create_wq_entry(op, buf, nid) \in WQEntry
    BY DEF create_wq_entry, WQEntry, QPTypeOK
  <1>2. wqQ' \in [Slots -> WQEntry]
    BY <1>1 DEF QPTypeOK, PostWq
  <1>3. wqHead' \in Slots /\ wqSR' \in {0, 1} /\ posted' \in Nat
    BY SMT, NextIdxType DEF QPTypeOK, PostWq
  <1> QED
    BY <1>2, <1>3 DEF QPTypeOK, PostWq, cqVars, nicVars

LEMMA CheckType == ASSUME QPTypeOK, rmc_check_cq PROVE QPTypeOK'
  <1>1. CASE CheckCqCall
    BY <1>1 DEF CheckCqCall, QPTypeOK, wqVars, cqVars, nicVars
  <1>2. CASE CheckCqReadHead
    <2>1. wqQ[wqHead].valid \in {0, 1}
      BY DEF QPTypeOK, WQEntry
    <2> QED BY <1>2, <2>1 DEF CheckCqReadHead, QPTypeOK, wqVars, cqVars, nicVars
  <1>3. CASE CheckCqPop
    <2> DEFINE e == cqQ[cqTail]
    <2>1. e \in CQEntry
      BY DEF QPTypeOK
    <2>2. [e EXCEPT !.valid = 0] \in CQEntry
      BY <2>1 DEF CQEntry
    <2>3. cqQ' \in [Slots -> CQEntry]
      BY <1>3, <2>2 DEF CheckCqPop, QPTypeOK
    <2>4. cqTail' \in Slots /\ cqSR' \in {0, 1} /\ consumed' \in Nat
      BY SMT, <1>3, NextIdxType DEF CheckCqPop, QPTypeOK
    <2>5. ck' \in [pc : {"idle", "head", "cq"}, raw_valid : {0, 1},
             op : {0, RMC_INCOMING_SEND, RMC_INCOMING_RESP, RMC_INVAL},
             tid : Nids, buf : RecvBufs \cup {NoAddr}]
      <3>1. e.tid \in Nids /\ e.recv_buf_addr \in RecvBufs \cup {NoAddr}
        BY <2>1 DEF CQEntry
      <3>2. CASE e.success = SUCCESS_SEND
        BY <1>3, <3>1, <3>2 DEF CheckCqPop, Returned, QPTypeOK
      <3>3. CASE e.success = SUCCESS_RESP
        BY <1>3, <3>1, <3>3 DEF CheckCqPop, Returned, QPTypeOK, SUCCESS_SEND, SUCCESS_RESP
      <3>4. CASE e.success # SUCCESS_SEND /\ e.success # SUCCESS_RESP
        BY <1>3, <3>1, <3>4 DEF CheckCqPop, Returned, QPTypeOK
      <3> QED BY <3>2, <3>3, <3>4
    <2> QED BY <1>3, <2>3, <2>4, <2>5 DEF CheckCqPop, QPTypeOK, wqVars, nicVars
  <1>4. CASE CheckCqEmpty
    BY <1>4 DEF CheckCqEmpty, QPTypeOK, wqVars, cqVars, nicVars
  <1> QED
    BY <1>1, <1>2, <1>3, <1>4 DEF rmc_check_cq

LEMMA NicType == ASSUME QPTypeOK, NicStep PROVE QPTypeOK'
  <1>1. CASE NicFetch
    BY SMT, <1>1, NextIdxType
    DEF NicFetch, QPTypeOK, wqVars, cqVars
  <1>2. ASSUME NEW i \in Slots, NicComplete(i) PROVE QPTypeOK'
    <2>1. [wqQ[i] EXCEPT !.valid = 0] \in WQEntry
      BY SMT DEF QPTypeOK, WQEntry
    <2>2. wqQ' \in [Slots -> WQEntry]
      BY <1>2, <2>1 DEF NicComplete, QPTypeOK
    <2> QED BY SMT, <1>2, <2>2 DEF NicComplete, QPTypeOK, cqVars
  <1>3. ASSUME NEW tid \in Nids, NEW buf \in RecvBufs \cup {NoAddr},
               NEW s \in {SUCCESS_SEND, SUCCESS_RESP, SUCCESS_OTHER},
               NicDeliver(s, tid, buf)
        PROVE  QPTypeOK'
    <2>1. [SR |-> nicCqSR, valid |-> 1, success |-> s, tid |-> tid,
           recv_buf_addr |-> buf, num |-> delivered] \in CQEntry
      BY DEF QPTypeOK, CQEntry
    <2>2. cqQ' \in [Slots -> CQEntry]
      BY <1>3, <2>1 DEF NicDeliver, QPTypeOK
    <2>3. nicCqHead' \in Slots /\ nicCqSR' \in {0, 1} /\ delivered' \in Nat
      BY SMT, <1>3, NextIdxType DEF NicDeliver, QPTypeOK
    <2> QED BY <1>3, <2>2, <2>3 DEF NicDeliver, QPTypeOK, wqVars, cqVars
  <1> QED
    BY <1>1, <1>2, <1>3 DEF NicStep

LEMMA QPNextType == QPTypeOK /\ [QPNext]_qpVars => QPTypeOK'
  <1> SUFFICES ASSUME QPTypeOK, [QPNext]_qpVars PROVE QPTypeOK'
    OBVIOUS
  <1>1. CASE AppStep
    <2>1. ASSUME NEW buf \in SendAddrs, NEW nid \in Nids, rmc_hw_send(buf, nid)
          PROVE  QPTypeOK'
      BY <2>1, PostType DEF rmc_hw_send
    <2>2. ASSUME NEW buf \in RecvBufs, rmc_hw_recv(buf) PROVE QPTypeOK'
      BY <2>2, PostType, NidsAssumption DEF rmc_hw_recv
    <2> QED BY <1>1, <2>1, <2>2, CheckType DEF AppStep
  <1>2. CASE NicStep
    BY <1>2, NicType
  <1>3. CASE UNCHANGED qpVars
    BY <1>3 DEF qpVars, QPTypeOK
  <1> QED
    BY <1>1, <1>2, <1>3 DEF QPNext

\* The fields of the rings and the activation record of rmc_check_cq keep
\* their types, whatever the ring size and the NIC's behaviour.
THEOREM QPTyping == QPSpec => []QPTypeOK
  BY QPInitType, QPNextType, PTL DEF QPSpec

-----------------------------------------------------------------------------
LEMMA QPInitInv == QPInit => QPInv
  BY SMT, RingAssumption DEF QPInit, QPInv, WqInv, CqInv, LapInv, Ago, Slots

\* A ring that is advanced by its writer: slot k is one step older, the slot
\* just written is one step old.
LEMMA AgoStep ==
  ASSUME NEW head \in Slots, NEW k \in Slots
  PROVE  /\ Ago(k, head) \in 1 .. MAX_NUM_WQ
         /\ Ago(head, head) = MAX_NUM_WQ
         /\ Ago(head, NextIdx(head)) = 1
         /\ k # head => Ago(k, NextIdx(head)) = Ago(k, head) + 1
  BY SMT, RingAssumption DEF Slots, Ago, NextIdx

LEMMA AgoInjective ==
  ASSUME NEW head \in Slots, NEW j \in Slots, NEW k \in Slots, Ago(j, head) = Ago(k, head)
  PROVE  j = k
  BY SMT, RingAssumption DEF Slots, Ago

LEMMA LapLength ==
  ASSUME NEW tail \in Slots, NEW tsr, NEW head \in Slots, NEW hsr, NEW nread \in Nat,
         NEW nwritten \in Nat, LapInv(tail, tsr, head, hsr, nread, nwritten)
  PROVE  nread <= nwritten /\ nwritten <= nread + MAX_NUM_WQ
  BY SMT, RingAssumption DEF Slots, LapInv

LEMMA PostInv ==
  ASSUME QPTypeOK, QPInv, NEW op, NEW buf, NEW nid, PostWq(op, buf, nid)
  PROVE  QPInv'
  <1>1. posted' = posted + 1 /\ UNCHANGED <<nicWqTail, nicWqSR, fetched, inflight>>
    BY DEF PostWq, nicVars
  <1>2. posted - fetched < MAX_NUM_WQ /\ fetched <= posted
    BY SMT, LapLength, RingAssumption, AgoStep DEF PostWq, WqFull, QPInv, WqInv, LapInv, QPTypeOK, Ago, Slots, WQEntry
  <1>3. LapInv(nicWqTail, nicWqSR, wqHead, wqSR, fetched, posted)'
    BY SMT, <1>1, <1>2, RingAssumption DEF PostWq, QPInv, WqInv, LapInv, QPTypeOK, NextIdx, NextSR, Slots
  <1>4. ASSUME NEW k \in Slots
        PROVE  /\ wqQ'[k].SR = IF k < wqHead' THEN wqSR' ELSE 1 - wqSR'
               /\ Ago(k, wqHead') <= posted' => wqQ'[k].num = posted' - Ago(k, wqHead')
               /\ wqQ'[k].valid = 1 => Ago(k, wqHead') <= posted'
               /\ Ago(k, wqHead') + fetched' <= posted' => wqQ'[k].valid = 1
               /\ k \in inflight' <=> /\ wqQ'[k].valid = 1
                                      /\ posted' < Ago(k, wqHead') + fetched'
    <2>1. CASE k = wqHead
      <3>1. wqQ'[k] = create_wq_entry(op, buf, nid)
        BY <2>1 DEF PostWq, QPTypeOK
      <3>2. Ago(k, wqHead') = 1
        BY <2>1, AgoStep DEF PostWq, QPTypeOK
      <3>3. k \notin inflight
        BY SMT, <2>1 DEF PostWq, WqFull, QPInv, WqInv, QPTypeOK
      <3>4. wqQ'[k].SR = IF k < wqHead' THEN wqSR' ELSE 1 - wqSR'
        BY SMT, <2>1, <3>1, RingAssumption DEF PostWq, create_wq_entry, NextIdx, NextSR, QPTypeOK, Slots
      <3> QED BY SMT, <1>1, <1>2, <3>1, <3>2, <3>3, <3>4 DEF create_wq_entry, QPTypeOK
    <2>2. CASE k # wqHead
      <3>1. wqQ'[k] = wqQ[k]
        BY <2>2 DEF PostWq, QPTypeOK
      <3>2. Ago(k, wqHead') = Ago(k, wqHead) + 1
        BY <2>2, AgoStep DEF PostWq, QPTypeOK
      <3>3. Ago(k, wqHead) \in Nat
        BY SMT, AgoStep, RingAssumption DEF QPTypeOK
      <3>4. wqQ'[k].SR = IF k < wqHead' THEN wqSR' ELSE 1 - wqSR'
        BY SMT, <2>2, <3>1, RingAssumption DEF PostWq, NextIdx, NextSR, QPTypeOK, Slots, QPInv, WqInv
      <3> QED BY SMT, <1>1, <3>1, <3>2, <3>3, <3>4 DEF QPTypeOK, QPInv, WqInv
    <2> QED BY <2>1, <2>2
  <1>5. WqInv'
    BY <1>3, <1>4 DEF WqInv
  <1>6. CqInv'
    BY DEF PostWq, QPInv, CqInv, LapInv, cqVars, nicVars
  <1> QED BY <1>5, <1>6 DEF QPInv

LEMMA PopInv == ASSUME QPTypeOK, QPInv, CheckCqPop PROVE QPInv'
  <1>1. /\ consumed' = consumed + 1 /\ UNCHANGED <<nicCqHead, nicCqSR, delivered>>
        /\ cqTail' = NextIdx(cqTail) /\ cqSR' = NextSR(cqTail, cqSR)
        /\ cqQ' = [cqQ EXCEPT ![cqTail].valid = 0]
        /\ cqQ[cqTail].SR = cqSR
    BY DEF CheckCqPop, CqReady, nicVars
  <1>2. consumed < delivered /\ Ago(cqTail, nicCqHead) = delivered - consumed
    <2>1. cqSR = IF cqTail < nicCqHead THEN nicCqSR ELSE 1 - nicCqSR
      BY <1>1 DEF QPInv, CqInv, QPTypeOK
    <2>2. LapInv(cqTail, cqSR, nicCqHead, nicCqSR, consumed, delivered)
      BY DEF QPInv, CqInv
    <2> QED BY SMT, <2>1, <2>2, RingAssumption DEF LapInv, QPTypeOK, Ago, Slots
  <1>3. LapInv(cqTail, cqSR, nicCqHead, nicCqSR, consumed, delivered)'
    <2>1. LapInv(cqTail, cqSR, nicCqHead, nicCqSR, consumed, delivered)
      BY DEF QPInv, CqInv
    <2>2. /\ cqTail \in 0 .. MAX_NUM_WQ - 1 /\ nicCqHead \in 0 .. MAX_NUM_WQ - 1
          /\ cqSR \in {0, 1} /\ nicCqSR \in {0, 1}
          /\ consumed \in Nat /\ delivered \in Nat
      BY DEF QPTypeOK, Slots
    <2>3. /\ cqTail' = IF cqTail + 1 >= MAX_NUM_WQ THEN 0 ELSE cqTail + 1
          /\ cqSR' = IF cqTail + 1 >= MAX_NUM_WQ THEN 1 - cqSR ELSE cqSR
          /\ consumed' = consumed + 1
          /\ nicCqHead' = nicCqHead /\ nicCqSR' = nicCqSR /\ delivered' = delivered
      BY <1>1 DEF NextIdx, NextSR
    <2>4. consumed < delivered
      BY <1>2
    <2> QED BY SMT, <2>1, <2>2, <2>3, <2>4, RingAssumption DEF LapInv
  <1>4. ASSUME NEW k \in Slots
        PROVE  /\ cqQ'[k].SR = IF k < nicCqHead' THEN nicCqSR' ELSE 1 - nicCqSR'
               /\ Ago(k, nicCqHead') <= delivered' =>
                    cqQ'[k].num = delivered' - Ago(k, nicCqHead')
               /\ Ago(k, nicCqHead') + consumed' <= delivered' <=> cqQ'[k].valid = 1
    <2>1. cqQ'[k].SR = cqQ[k].SR /\ cqQ'[k].num = cqQ[k].num
      BY <1>1 DEF QPTypeOK, CQEntry
    <2>2. k # cqTail => cqQ'[k] = cqQ[k]
      BY <1>1 DEF QPTypeOK
    <2>3. Ago(k, nicCqHead) \in Nat
      BY SMT, AgoStep, RingAssumption DEF QPTypeOK
    <2>4. k = cqTail => ~(Ago(k, nicCqHead) + consumed' <= delivered) /\ cqQ'[k].valid = 0
      BY SMT, <1>1, <1>2 DEF QPTypeOK, CQEntry
    <2>5. k # cqTail => Ago(k, nicCqHead) # delivered - consumed
      BY <1>2, AgoInjective DEF QPTypeOK
    <2> QED BY SMTT(20), <1>1, <2>1, <2>2, <2>3, <2>4, <2>5 DEF QPInv, CqInv, QPTypeOK
  <1>5. CqInv'
    BY <1>3, <1>4 DEF CqInv
  <1>6. WqInv'
    BY DEF CheckCqPop, QPInv, WqInv, LapInv, wqVars, nicVars
  <1> QED BY <1>5, <1>6 DEF QPInv

LEMMA CheckInv == ASSUME QPTypeOK, QPInv, rmc_check_cq PROVE QPInv'
  <1>1. CASE CheckCqCall \/ CheckCqReadHead \/ CheckCqEmpty
    BY <1>1 DEF CheckCqCall, CheckCqReadHead, CheckCqEmpty, QPInv, WqInv, CqInv,
                LapInv, wqVars, cqVars, nicVars
  <1> QED BY <1>1, PopInv DEF rmc_check_cq

LEMMA FetchInv == ASSUME QPTypeOK, QPInv, NicFetch PROVE QPInv'
  <1>1. fetched' = fetched + 1 /\ inflight' = inflight \cup {nicWqTail}
        /\ UNCHANGED <<wqQ, wqHead, wqSR, posted>>
    BY DEF NicFetch, wqVars
  <1>2. fetched < posted /\ Ago(nicWqTail, wqHead) = posted - fetched
    BY SMT, RingAssumption DEF NicFetch, WqReady, QPInv, WqInv, LapInv, QPTypeOK, Ago, Slots
  <1>3. LapInv(nicWqTail, nicWqSR, wqHead, wqSR, fetched, posted)'
    BY SMT, <1>1, <1>2, RingAssumption
    DEF NicFetch, QPInv, WqInv, LapInv, QPTypeOK, NextIdx, NextSR, Slots, Ago
  <1>4. ASSUME NEW k \in Slots
        PROVE  /\ Ago(k, wqHead) + fetched' <= posted => wqQ[k].valid = 1
               /\ k \in inflight' <=> /\ wqQ[k].valid = 1
                                      /\ posted < Ago(k, wqHead) + fetched'
    <2>1. Ago(k, wqHead) \in Nat
      BY SMT, AgoStep, RingAssumption DEF QPTypeOK
    <2>2. k # nicWqTail => Ago(k, wqHead) # posted - fetched
      BY <1>2, AgoInjective DEF QPTypeOK
    <2> QED BY SMT, <1>1, <1>2, <2>1, <2>2 DEF QPInv, WqInv, QPTypeOK
  <1>5. WqInv'
    BY <1>1, <1>3, <1>4 DEF QPInv, WqInv
  <1>6. CqInv'
    BY DEF NicFetch, QPInv, CqInv, LapInv, cqVars
  <1> QED BY <1>5, <1>6 DEF QPInv

LEMMA CompleteInv ==
  ASSUME QPTypeOK, QPInv, NEW i \in Slots, NicComplete(i) PROVE QPInv'
  <1>1. /\ i \in inflight /\ inflight' = inflight \ {i}
        /\ UNCHANGED <<wqHead, wqSR, posted, fetched, nicWqTail, nicWqSR>>
    BY DEF NicComplete
  <1>2. ASSUME NEW k \in Slots
        PROVE  /\ wqQ'[k].SR = wqQ[k].SR /\ wqQ'[k].num = wqQ[k].num
               /\ wqQ'[k].valid = 1 => wqQ[k].valid = 1
               /\ k # i => wqQ'[k].valid = wqQ[k].valid
               /\ wqQ'[i].valid = 0
               /\ Ago(k, wqHead) \in Nat
    BY SMT, AgoStep, RingAssumption DEF NicComplete, QPTypeOK, WQEntry
  <1>3. ~(Ago(i, wqHead) + fetched <= posted)
    BY SMT, <1>1, <1>2 DEF QPInv, WqInv, QPTypeOK
  <1>4. WqInv'
    BY SMT, <1>1, <1>2, <1>3 DEF QPInv, WqInv, LapInv, QPTypeOK
  <1>5. CqInv'
    BY DEF NicComplete, QPInv, CqInv, LapInv, cqVars
  <1> QED BY <1>4, <1>5 DEF QPInv

LEMMA DeliverInv ==
  ASSUME QPTypeOK, QPInv, NEW s, NEW tid, NEW buf, NicDeliver(s, tid, buf)
  PROVE  QPInv'
  <1> DEFINE e == [SR |-> nicCqSR, valid |-> 1, success |-> s, tid |-> tid,
                   recv_buf_addr |-> buf, num |-> delivered]
  <1>1. /\ delivered' = delivered + 1 /\ UNCHANGED <<cqTail, cqSR, consumed>>
        /\ nicCqHead' = NextIdx(nicCqHead) /\ nicCqSR' = NextSR(nicCqHead, nicCqSR)
        /\ cqQ' = [cqQ EXCEPT ![nicCqHead] = e]
        /\ cqQ[nicCqHead].valid = 0
    BY DEF NicDeliver, cqVars
  <1>2. /\ cqTail \in 0 .. MAX_NUM_WQ - 1 /\ nicCqHead \in 0 .. MAX_NUM_WQ - 1
        /\ cqSR \in {0, 1} /\ nicCqSR \in {0, 1}
        /\ consumed \in Nat /\ delivered \in Nat
    BY DEF QPTypeOK, Slots
  <1>3. LapInv(cqTail, cqSR, nicCqHead, nicCqSR, consumed, delivered)
    BY DEF QPInv, CqInv
  <1>4. delivered - consumed < MAX_NUM_WQ /\ consumed <= delivered
    <2>1. ~(Ago(nicCqHead, nicCqHead) + consumed <= delivered)
      BY SMT, <1>1 DEF QPInv, CqInv, QPTypeOK
    <2> QED BY SMT, <1>2, <1>3, <2>1, AgoStep, LapLength, RingAssumption DEF Slots
  <1>5. LapInv(cqTail, cqSR, nicCqHead, nicCqSR, consumed, delivered)'
    BY SMT, <1>1, <1>2, <1>3, <1>4, RingAssumption DEF LapInv, NextIdx, NextSR
  <1>6. ASSUME NEW k \in Slots
        PROVE  /\ cqQ'[k].SR = IF k < nicCqHead' THEN nicCqSR' ELSE 1 - nicCqSR'
               /\ Ago(k, nicCqHead') <= delivered' =>
                    cqQ'[k].num = delivered' - Ago(k, nicCqHead')
               /\ Ago(k, nicCqHead') + consumed' <= delivered' <=> cqQ'[k].valid = 1
    <2>1. CASE k = nicCqHead
      <3>1. cqQ'[k] = e
        BY <1>1, <2>1 DEF QPTypeOK
      <3>2. Ago(k, nicCqHead') = 1
        BY <1>1, <2>1, AgoStep DEF QPTypeOK
      <3>3. cqQ'[k].SR = IF k < nicCqHead' THEN nicCqSR' ELSE 1 - nicCqSR'
        BY SMT, <1>1, <1>2, <2>1, <3>1, RingAssumption DEF NextIdx, NextSR
      <3> QED BY SMT, <1>1, <1>2, <1>4, <3>1, <3>2, <3>3
    <2>2. CASE k # nicCqHead
      <3>1. cqQ'[k] = cqQ[k]
        BY <1>1, <2>2 DEF QPTypeOK
      <3>2. Ago(k, nicCqHead') = Ago(k, nicCqHead) + 1
        BY <1>1, <2>2, AgoStep DEF QPTypeOK
      <3>3. Ago(k, nicCqHead) \in Nat
        BY SMT, AgoStep, RingAssumption DEF QPTypeOK
      <3>4. cqQ[k].SR = IF k < nicCqHead THEN nicCqSR ELSE 1 - nicCqSR
        BY DEF QPInv, CqInv
      <3>5. cqQ'[k].SR = IF k < nicCqHead' THEN nicCqSR' ELSE 1 - nicCqSR'
        BY SMT, <1>1, <1>2, <2>2, <3>1, <3>4, RingAssumption DEF NextIdx, NextSR, Slots
      <3> QED BY SMT, <1>1, <1>2, <3>1, <3>2, <3>3, <3>5 DEF QPInv, CqInv
    <2> QED BY <2>1, <2>2
  <1>7. CqInv'
    BY <1>5, <1>6 DEF CqInv
  <1>8. WqInv'
    BY DEF NicDeliver, QPInv, WqInv, LapInv, wqVars
  <1> QED BY <1>7, <1>8 DEF QPInv

LEMMA QPNextInv == QPTypeOK /\ QPInv /\ [QPNext]_qpVars => QPInv'
  <1> SUFFICES ASSUME QPTypeOK, QPInv, [QPNext]_qpVars PROVE QPInv'
    OBVIOUS
  <1>1. CASE AppStep
    BY <1>1, PostInv, CheckInv DEF AppStep, rmc_hw_send, rmc_hw_recv
  <1>2. CASE NicStep
    BY <1>2, FetchInv, CompleteInv, DeliverInv DEF NicStep
  <1>3. CASE UNCHANGED qpVars
    BY <1>3 DEF qpVars, QPInv, WqInv, CqInv, LapInv
  <1> QED
    BY <1>1, <1>2, <1>3 DEF QPNext

\* The inductive invariant of the two rings holds in every behaviour: every
\* call of rmc_hw_send, rmc_hw_recv and rmc_check_cq, interleaved in any way
\* with the NIC, keeps sense bits, valid bits and lap positions consistent.
THEOREM QPInvariant == QPSpec => []QPInv
  BY QPInitInv, QPNextInv, QPTyping, PTL, QPInitType, QPNextType DEF QPSpec

LEMMA InvWqExact == QPTypeOK /\ QPInv => WqSenseExact
  <1> SUFFICES ASSUME QPTypeOK, QPInv PROVE WqSenseExact
    OBVIOUS
  <1>1. wqQ[nicWqTail].SR = IF nicWqTail < wqHead THEN wqSR ELSE 1 - wqSR
    BY DEF QPTypeOK, QPInv, WqInv
  <1>2. LapInv(nicWqTail, nicWqSR, wqHead, wqSR, fetched, posted)
    BY DEF QPInv, WqInv
  <1>3. Ago(nicWqTail, wqHead) <= posted =>
          wqQ[nicWqTail].num = posted - Ago(nicWqTail, wqHead)
    BY DEF QPTypeOK, QPInv, WqInv
  <1>4. WqReady <=> fetched < posted
    BY SMT, <1>1, <1>2, RingAssumption DEF WqReady, LapInv, QPTypeOK, Slots
  <1>5. WqReady => Ago(nicWqTail, wqHead) = posted - fetched
    BY SMT, <1>1, <1>2, RingAssumption DEF WqReady, LapInv, QPTypeOK, Slots, Ago
  <1> QED BY SMT, <1>3, <1>4, <1>5 DEF WqSenseExact, QPTypeOK

LEMMA InvCqExact == QPTypeOK /\ QPInv => CqSenseExact
  <1> SUFFICES ASSUME QPTypeOK, QPInv PROVE CqSenseExact
    OBVIOUS
  <1>1. cqQ[cqTail].SR = IF cqTail < nicCqHead THEN nicCqSR ELSE 1 - nicCqSR
    BY DEF QPTypeOK, QPInv, CqInv
  <1>2. LapInv(cqTail, cqSR, nicCqHead, nicCqSR, consumed, delivered)
    BY DEF QPInv, CqInv
  <1>3. Ago(cqTail, nicCqHead) <= delivered =>
          cqQ[cqTail].num = delivered - Ago(cqTail, nicCqHead)
    BY DEF QPTypeOK, QPInv, CqInv
  <1>4. CqReady <=> consumed < delivered
    BY SMT, <1>1, <1>2, RingAssumption DEF CqReady, LapInv, QPTypeOK, Slots
  <1>5. CqReady => Ago(cqTail, nicCqHead) = delivered - consumed
    BY SMT, <1>1, <1>2, RingAssumption DEF CqReady, LapInv, QPTypeOK, Slots, Ago
  <1> QED BY SMT, <1>3, <1>4, <1>5 DEF CqSenseExact, QPTypeOK

\* For every ring size, the NIC finds an entry of the work queue exactly when
\* rmc_hw_send or rmc_hw_recv has posted one it has not taken, and takes them
\* in the order they were posted.
THEOREM WqSenseCorrect == QPSpec => []WqSenseExact
  BY QPTyping, QPInvariant, InvWqExact, PTL

\* For every ring size, rmc_check_cq finds an entry of the completion queue
\* exactly when the NIC has delivered one it has not consumed, and consumes
\* them in the order they were delivered.
THEOREM CqSenseCorrect == QPSpec => []CqSenseExact
  BY QPTyping, QPInvariant, InvCqExact, PTL

LEMMA InvLiveRecent == QPTypeOK /\ QPInv => LiveEntriesRecent
  <1> SUFFICES ASSUME QPTypeOK, QPInv PROVE LiveEntriesRecent
    OBVIOUS
  <1>1. ASSUME NEW k \in Slots
        PROVE  Ago(k, wqHead) \in 1 .. MAX_NUM_WQ /\ wqQ[k].num \in Nat
    BY AgoStep DEF QPTypeOK, WQEntry
  <1>2. ASSUME NEW k \in Slots, wqQ[k].valid = 1
        PROVE  wqQ[k].num < posted /\ posted <= wqQ[k].num + MAX_NUM_WQ
    BY SMT, <1>1, <1>2, RingAssumption DEF QPInv, WqInv, QPTypeOK
  <1>3. ASSUME NEW k \in inflight
        PROVE  wqQ[k].valid = 1 /\ wqQ[k].num < fetched
    <2>1. k \in Slots
      BY DEF QPTypeOK
    <2> QED BY SMT, <1>1, <2>1, RingAssumption DEF QPInv, WqInv, QPTypeOK
  <1> QED BY <1>2, <1>3 DEF LiveEntriesRecent

\* For every ring size, the valid bit that rmc_hw_send and rmc_hw_recv test
\* keeps a work entry from being overwritten before the NIC completes it: the
\* valid entries are among the last MAX_NUM_WQ posted.
THEOREM LiveEntriesCorrect == QPSpec => []LiveEntriesRecent
  BY QPTyping, QPInvariant, InvLiveRecent, PTL

-----------------------------------------------------------------------------
(***************************************************************************)
(* Arithmetic of the local buffer.                                         *)
(***************************************************************************)
LEMMA ModRange ==
  ASSUME NEW n \in Nat PROVE n % msgs_per_dest \in 0 .. msgs_per_dest - 1
  BY SMT, LbufAssumption

LEMMA TimesAtLeast ==
  ASSUME NEW m \in Nat, NEW d \in Int, d >= 1 PROVE m * d >= m
  <1>1. m * d = m * (d - 1) + m
    BY SMT
  <1>2. m * (d - 1) >= 0
    BY SMT
  <1>3. m * (d - 1) \in Int
    BY SMT
  <1> QED
    BY SMT, <1>1, <1>2, <1>3

\* Quotient and remainder are unique.
LEMMA ModUnique ==
  ASSUME NEW m \in Nat \ {0}, NEW n \in Nat, NEW q \in Int, NEW r \in 0 .. m - 1,
         n = m * q + r
  PROVE  n % m = r
  <1> DEFINE q1 == n \div m
             r1 == n % m
  <1>1. q1 \in Int /\ r1 \in 0 .. m - 1 /\ n = m * q1 + r1
    BY SMT
  <1> SUFFICES r1 = r
    OBVIOUS
  <1> HIDE DEF q1, r1
  <1>2. m * (q1 - q) = r - r1 /\ m * (q - q1) = r1 - r
    BY SMT, <1>1
  <1>3. CASE q1 - q >= 1
    BY SMT, <1>1, <1>2, <1>3, TimesAtLeast
  <1>4. CASE q - q1 >= 1
    BY SMT, <1>1, <1>2, <1>4, TimesAtLeast
  <1>5. CASE q1 = q
    BY SMT, <1>1, <1>5
  <1> QED
    BY SMT, <1>1, <1>3, <1>4, <1>5

\* The slot index advances by one and wraps around.
LEMMA ModStep ==
  ASSUME NEW n \in Nat
  PROVE  (n + 1) % msgs_per_dest = IF (n % msgs_per_dest) + 1 >= msgs_per_dest
                                   THEN 0 ELSE (n % msgs_per_dest) + 1
  <1> DEFINE m == msgs_per_dest
             q == n \div m
             r == n % m
  <1>1. m \in Nat \ {0}
    BY LbufAssumption
  <1>2. q \in Int /\ r \in 0 .. m - 1 /\ n = m * q + r
    BY SMT, <1>1
  <1> HIDE DEF m, q, r
  <1>3. CASE r + 1 >= m
    <2>1. n + 1 = m * (q + 1) + 0
      BY SMT, <1>1, <1>2, <1>3
    <2>2. (n + 1) % m = 0
      BY SMT, <1>1, <1>2, <2>1, ModUnique
    <2> QED BY <1>3, <2>2 DEF m, r
  <1>4. CASE r + 1 < m
    <2>1. n + 1 = m * q + (r + 1) /\ r + 1 \in 0 .. m - 1
      BY SMT, <1>1, <1>2, <1>4
    <2>2. (n + 1) % m = r + 1
      BY SMT, <1>1, <1>2, <2>1, ModUnique
    <2>3. ~(r + 1 >= m)
      BY SMT, <1>1, <1>2, <1>4
    <2> QED BY <2>2, <2>3 DEF m, r
  <1> QED
    BY SMT, <1>1, <1>2, <1>3, <1>4

LEMMA SlotAddrInjective ==
  ASSUME NEW i \in Nat, NEW j \in Nat, SlotAddr(i) = SlotAddr(j) PROVE i = j
  BY LbufAssumption, SMTT(30) DEF SlotAddr, getUnderlyingAddress, sizeof_uint32_t

LEMMA SendAddrType ==
  ASSUME WTypeOK
  PROVE  /\ net_buffer_vaddr = SlotAddr(nb_tx_tot % msgs_per_dest)
         /\ net_buffer_vaddr \in LbufAddrs
  <1>1. nb_tx_tot % msgs_per_dest \in 0 .. msgs_per_dest - 1
    BY ModRange DEF WTypeOK
  <1> QED
    BY <1>1 DEF net_buffer_vaddr, SlotAddr, LbufAddrs, lbuf_offset

-----------------------------------------------------------------------------
(***************************************************************************)
(* The worker's steps are steps of the queue pair.                         *)
(***************************************************************************)
LEMMA WStepQP ==
  ASSUME WTypeOK, ControlInv, [Next]_vars PROVE [QPNext]_qpVars
  <1>1. CASE Poll
    BY <1>1 DEF Poll, QPNext, AppStep
  <1>2. CASE PollAgain \/ StopWhenDone \/ TakeRequest \/ WriteResponse \/ ClientsDone
    BY <1>2 DEF PollAgain, StopWhenDone, TakeRequest, WriteResponse, ClientsDone
  <1>3. CASE SendResponse
    <2>1. ck.pc = "idle" /\ rpc.source_node_id \in Nids /\ net_buffer_vaddr \in SendAddrs
      BY <1>3, SendAddrType, SendAddrsAssumption DEF SendResponse, ControlInv, WTypeOK
    <2> QED BY <1>3, <2>1 DEF SendResponse, QPNext, AppStep
  <1>4. CASE ReturnBuffer
    <2>1. ck.pc = "idle" /\ rpc.payload \in RecvBufs
      BY <1>4 DEF ReturnBuffer, ControlInv
    <2> QED BY <1>4, <2>1 DEF ReturnBuffer, do_Recv_zsim, QPNext, AppStep
  <1>5. CASE NicTake
    BY <1>5 DEF NicTake, QPNext, NicStep
  <1>6. ASSUME NEW i \in Slots, NicFinish(i) PROVE QPNext
    BY <1>6 DEF NicFinish, QPNext, NicStep
  <1>7. ASSUME NEW tid \in SourceNids, NEW buf \in RecvBufs, NicRequest(tid, buf)
        PROVE  QPNext
    BY <1>7, NidAssumption DEF NicRequest, QPNext, NicStep
  <1>8. ASSUME NEW tid \in SourceNids, NicOther(tid) PROVE QPNext
    BY <1>8, NidAssumption DEF NicOther, QPNext, NicStep
  <1>9. CASE UNCHANGED vars
    BY <1>9 DEF vars
  <1> QED
    BY <1>1, <1>2, <1>3, <1>4, <1>5, <1>6, <1>7, <1>8, <1>9 DEF Next, Worker, Nic

LEMMA WInitInv == Init => WTypeOK /\ ControlInv
  <1> SUFFICES ASSUME Init PROVE WTypeOK /\ ControlInv
    OBVIOUS
  <1>1. QPTypeOK
    BY QPInitType DEF Init
  <1>2. WTypeOK
    <2>1. rpc \in [payload : RecvBufs \cup {NoAddr}, source_node_id : Nids]
      BY NidsAssumption DEF Init
    <2>2. lbuf \in [LbufAddrs -> Nat]
      BY DEF Init
    <2>3. origins \in Seq(SourceNids) /\ replies \in Seq(Nids)
      BY SMT DEF Init
    <2>4. nb_tx_tot \in Nat /\ client_done \in BOOLEAN /\ rbufFree \in SUBSET RecvBufs
      BY DEF Init
    <2>5. pc = "poll"
      BY DEF Init
    <2> QED BY <1>1, <2>1, <2>2, <2>3, <2>4, <2>5 DEF WTypeOK
  <1>3. ControlInv
    BY SMT DEF Init, QPInit, ControlInv, RMC_INVAL, RMC_INCOMING_SEND, RMC_SEND, RMC_RECV,
           SUCCESS_OTHER, SUCCESS_SEND
  <1> QED
    BY <1>2, <1>3

LEMMA WNextType ==
  ASSUME WTypeOK, ControlInv, [Next]_vars PROVE WTypeOK'
  <1>1. QPTypeOK'
    BY WStepQP, QPNextType DEF WTypeOK
  <1>2. CASE Poll \/ PollAgain \/ StopWhenDone
    BY <1>1, <1>2 DEF Poll, PollAgain, StopWhenDone, WTypeOK
  <1>3. CASE TakeRequest
    <2>1. ck.tid \in Nids /\ ck.buf \in RecvBufs \cup {NoAddr}
      BY DEF WTypeOK, QPTypeOK
    <2>2. rpc' \in [payload : RecvBufs \cup {NoAddr}, source_node_id : Nids]
      <3>1. PICK hi \in StaleHigh :
              rpc' = [payload |-> ck.buf, source_node_id |-> hi * NidMod + (ck.tid % NidMod)]
        BY <1>3 DEF TakeRequest
      <3>2. hi * NidMod + (ck.tid % NidMod) \in Nids
        BY <2>1, NidAssumption
      <3> QED BY <2>1, <3>1, <3>2
    <2>3. pc' \in {"done", "write"}
      BY <1>3 DEF TakeRequest
    <2> QED BY <1>1, <1>3, <2>2, <2>3 DEF TakeRequest, WTypeOK
  <1>4. CASE WriteResponse
    <2>1. lbuf' \in [LbufAddrs -> Nat]
      BY <1>4 DEF WriteResponse, WTypeOK, QPTypeOK
    <2> QED BY <1>1, <1>4, <2>1 DEF WriteResponse, WTypeOK
  <1>5. CASE SendResponse
    BY SMT, <1>1, <1>5 DEF SendResponse, WTypeOK
  <1>6. CASE ReturnBuffer
    BY SMT, <1>1, <1>6 DEF ReturnBuffer, WTypeOK
  <1>7. CASE NicTake
    BY <1>1, <1>7 DEF NicTake, wVars, WTypeOK
  <1>8. ASSUME NEW i \in Slots, NicFinish(i) PROVE WTypeOK'
    <2>1. rbufFree' \in SUBSET RecvBufs
      BY <1>8 DEF NicFinish, ControlInv, WTypeOK
    <2> QED BY <1>1, <1>8, <2>1 DEF NicFinish, WTypeOK
  <1>9. ASSUME NEW tid \in SourceNids, NEW buf \in RecvBufs, NicRequest(tid, buf)
        PROVE  WTypeOK'
    BY SMT, <1>1, <1>9 DEF NicRequest, WTypeOK
  <1>10. ASSUME NEW tid \in SourceNids, NicOther(tid) PROVE WTypeOK'
    BY <1>1, <1>10 DEF NicOther, wVars, WTypeOK
  <1>11. CASE ClientsDone
    BY <1>1, <1>11 DEF ClientsDone, WTypeOK
  <1>12. CASE UNCHANGED vars
    BY <1>1, <1>12 DEF vars, wVars, WTypeOK
  <1> QED
    BY <1>2, <1>3, <1>4, <1>5, <1>6, <1>7, <1>8, <1>9, <1>10, <1>11, <1>12
    DEF Next, Worker, Nic

\* What consuming an entry leaves in the activation record and in the CQ.
LEMMA PollControl ==
  ASSUME WTypeOK, ControlInv, rmc_check_cq
  PROVE  /\ ck'.op = RMC_INCOMING_SEND => ck'.buf \in RecvBufs
         /\ ck'.pc # "idle" => ck'.op # RMC_INCOMING_SEND
         /\ \A k \in Slots : cqQ'[k].success = SUCCESS_SEND =>
                               cqQ'[k].recv_buf_addr \in RecvBufs
         /\ wqQ' = wqQ
  <1> USE DEF RMC_INVAL, RMC_INCOMING_SEND, RMC_INCOMING_RESP
  <1>1. CASE CheckCqCall
    BY SMT, <1>1 DEF CheckCqCall, wqVars, WTypeOK, QPTypeOK, ControlInv
  <1>2. CASE CheckCqReadHead
    BY <1>2 DEF CheckCqReadHead, wqVars, WTypeOK, QPTypeOK, ControlInv
  <1>3. CASE CheckCqEmpty
    BY <1>3 DEF CheckCqEmpty, wqVars, WTypeOK, QPTypeOK, ControlInv
  <1>4. CASE CheckCqPop
    <2> DEFINE e == cqQ[cqTail]
    <2>1. cqTail \in Slots /\ cqQ' = [cqQ EXCEPT ![cqTail].valid = 0] /\ wqQ' = wqQ
      BY <1>4 DEF CheckCqPop, wqVars, WTypeOK, QPTypeOK
    <2>2. \A k \in Slots : /\ cqQ'[k].success = cqQ[k].success
                           /\ cqQ'[k].recv_buf_addr = cqQ[k].recv_buf_addr
      BY SMT, <2>1 DEF WTypeOK, QPTypeOK, CQEntry
    <2>3. /\ ck'.op = RMC_INCOMING_SEND => ck'.buf \in RecvBufs
          /\ ck'.pc # "idle" => ck'.op # RMC_INCOMING_SEND
      <3>1. CASE e.success = SUCCESS_SEND
        BY <1>4, <2>1, <3>1 DEF CheckCqPop, Returned, ControlInv, WTypeOK, QPTypeOK
      <3>2. CASE e.success = SUCCESS_RESP
        <4>1. ck' = [ck EXCEPT !.pc = "idle", !.op = RMC_INCOMING_RESP,
                               !.tid = e.tid, !.buf = e.recv_buf_addr]
          BY SMT, <1>4, <3>2 DEF CheckCqPop, Returned, SUCCESS_SEND, SUCCESS_RESP
        <4>2. ck'.op = RMC_INCOMING_RESP
          BY <4>1 DEF WTypeOK, QPTypeOK
        <4> QED BY SMT, <4>2
      <3>3. CASE e.success # SUCCESS_SEND /\ e.success # SUCCESS_RESP
        BY SMT, <1>4, <3>3 DEF CheckCqPop, Returned, WTypeOK, QPTypeOK
      <3> QED BY <3>1, <3>2, <3>3
    <2> QED BY <2>1, <2>2, <2>3 DEF ControlInv
  <1> QED
    BY <1>1, <1>2, <1>3, <1>4 DEF rmc_check_cq

\* What posting a work entry leaves in the WQ.
LEMMA PostControl ==
  ASSUME WTypeOK, ControlInv, NEW o \in {RMC_SEND, RMC_RECV}, NEW buf, NEW nid,
         PostWq(o, buf, nid),
         o = RMC_SEND => buf \in LbufAddrs, o = RMC_RECV => buf \in RecvBufs
  PROVE  /\ ck' = ck /\ cqQ' = cqQ
         /\ \A k \in Slots : wqQ'[k].op = RMC_SEND => wqQ'[k].buf_addr \in LbufAddrs
         /\ \A k \in Slots : wqQ'[k].op = RMC_RECV => wqQ'[k].buf_addr \in RecvBufs
  <1>1. ck' = ck /\ cqQ' = cqQ
    BY DEF PostWq
  <1>2. wqHead \in Slots /\ wqQ' = [wqQ EXCEPT ![wqHead] = create_wq_entry(o, buf, nid)]
    BY DEF PostWq, WTypeOK, QPTypeOK
  <1>3. \A k \in Slots : k # wqHead => wqQ'[k] = wqQ[k]
    BY <1>2 DEF WTypeOK, QPTypeOK
  <1>4. wqQ'[wqHead].op = o /\ wqQ'[wqHead].buf_addr = buf
    BY <1>2 DEF WTypeOK, QPTypeOK, create_wq_entry
  <1> QED
    BY <1>1, <1>3, <1>4 DEF ControlInv

LEMMA WNextControl ==
  ASSUME WTypeOK, ControlInv, [Next]_vars PROVE ControlInv'
  <1>1. CASE Poll
    BY <1>1, PollControl DEF Poll, ControlInv, WTypeOK
  <1>2. CASE PollAgain
    BY <1>2 DEF PollAgain, qpVars, ControlInv
  <1>3. CASE StopWhenDone
    BY <1>3 DEF StopWhenDone, qpVars, ControlInv
  <1>4. CASE TakeRequest
    <2>1. ck.buf \in RecvBufs /\ ck.pc = "idle"
      BY <1>4 DEF TakeRequest, ControlInv
    <2>2. rpc'.payload = ck.buf /\ pc' \in {"done", "write"} /\ UNCHANGED qpVars
      BY SMT, <1>4 DEF TakeRequest
    <2> QED BY <2>1, <2>2 DEF qpVars, ControlInv
  <1>5. CASE WriteResponse
    BY <1>5 DEF WriteResponse, qpVars, ControlInv
  <1>6. CASE SendResponse
    BY SMT, <1>6, PostControl, SendAddrType DEF SendResponse, rmc_hw_send, ControlInv, RMC_SEND, RMC_RECV
  <1>7. CASE ReturnBuffer
    <2>1. rpc.payload \in RecvBufs /\ ck.pc = "idle"
      BY <1>7 DEF ReturnBuffer, ControlInv
    <2>2. CASE rmc_hw_recv(rpc.payload)
      BY SMTT(20), <1>7, <2>1, <2>2, PostControl DEF ReturnBuffer, rmc_hw_recv, ControlInv, RMC_SEND, RMC_RECV
    <2>3. CASE UNCHANGED qpVars
      BY <1>7, <2>1, <2>3 DEF ReturnBuffer, qpVars, ControlInv
    <2> QED BY <1>7, <2>2, <2>3 DEF ReturnBuffer, do_Recv_zsim
  <1>8. CASE NicTake
    BY <1>8 DEF NicTake, NicFetch, wqVars, wVars, ControlInv
  <1>9. ASSUME NEW i \in Slots, NicFinish(i) PROVE ControlInv'
    <2>1. \A k \in Slots : wqQ'[k].op = wqQ[k].op /\ wqQ'[k].buf_addr = wqQ[k].buf_addr
      BY <1>9 DEF NicFinish, NicComplete, WTypeOK, QPTypeOK, WQEntry
    <2>2. UNCHANGED <<ck, cqQ, pc, rpc, client_done>>
      BY <1>9 DEF NicFinish, NicComplete
    <2> QED BY <2>1, <2>2 DEF ControlInv
  <1>10. ASSUME NEW s, NEW tid, NEW buf, NicDeliver(s, tid, buf),
                s = SUCCESS_SEND => buf \in RecvBufs, UNCHANGED <<pc, rpc, client_done>>
         PROVE  ControlInv'
    <2>1. nicCqHead \in Slots /\ UNCHANGED <<ck, wqQ>>
      BY <1>10 DEF NicDeliver, wqVars, WTypeOK, QPTypeOK
    <2>2. \A k \in Slots : k # nicCqHead => cqQ'[k] = cqQ[k]
      BY <1>10 DEF NicDeliver, WTypeOK, QPTypeOK
    <2>3. cqQ'[nicCqHead].success = s /\ cqQ'[nicCqHead].recv_buf_addr = buf
      BY <1>10, <2>1 DEF NicDeliver, WTypeOK, QPTypeOK
    <2> QED BY <1>10, <2>1, <2>2, <2>3 DEF ControlInv
  <1>11. ASSUME NEW tid \in SourceNids, NEW buf \in RecvBufs, NicRequest(tid, buf)
         PROVE  ControlInv'
    BY <1>10, <1>11 DEF NicRequest
  <1>12. ASSUME NEW tid \in SourceNids, NicOther(tid) PROVE ControlInv'
    BY SMT, <1>10, <1>12 DEF NicOther, wVars, SUCCESS_SEND, SUCCESS_RESP, SUCCESS_OTHER
  <1>13. CASE ClientsDone
    BY <1>13 DEF ClientsDone, qpVars, ControlInv
  <1>14. CASE UNCHANGED vars
    BY <1>14 DEF vars, qpVars, wVars, ControlInv
  <1> QED
    BY <1>1, <1>2, <1>3, <1>4, <1>5, <1>6, <1>7, <1>8, <1>9, <1>11, <1>12, <1>13, <1>14
    DEF Next, Worker, Nic

LEMMA WorkerControl == Spec => [](WTypeOK /\ ControlInv)
  <1>1. WTypeOK /\ ControlInv /\ [Next]_vars => (WTypeOK /\ ControlInv)'
    BY WNextType, WNextControl
  <1> QED
    BY <1>1, WInitInv, PTL DEF Spec

\* The variables of run_worker keep their types, and every SEND is posted from
\* a slot address that sendToNode_zsim can compute.
THEOREM WorkerTyping == Spec => []WTypeOK
  BY WorkerControl, PTL

\* Composition: run_worker and the NIC it talks to use the queue pair only as
\* RmcQueuePair allows, so all that is proved of QPSpec holds of the worker.
THEOREM WorkerUsesQueuePair == Spec => QPSpec
  <1>1. Init => QPInit
    BY DEF Init
  <1>2. WTypeOK /\ ControlInv /\ [Next]_vars => [QPNext]_qpVars
    BY WStepQP
  <1> QED
    BY <1>1, <1>2, WorkerControl, PTL DEF Spec, QPSpec


-----------------------------------------------------------------------------
(***************************************************************************)
(* The response of a live SEND stays in the local buffer.                  *)
(***************************************************************************)
LEMMA LbufAgoRange ==
  ASSUME WTypeOK, NEW i \in 0 .. msgs_per_dest - 1
  PROVE  /\ LbufAgo(i) \in 1 .. msgs_per_dest
         /\ i = nb_tx_tot % msgs_per_dest => LbufAgo(i) = msgs_per_dest
  <1>1. nb_tx_tot % msgs_per_dest \in 0 .. msgs_per_dest - 1
    BY ModRange DEF WTypeOK
  <1> QED
    BY SMT, <1>1, LbufAssumption DEF LbufAgo

LEMMA LbufAgoStep ==
  ASSUME WTypeOK, NEW i \in 0 .. msgs_per_dest - 1, nb_tx_tot' = nb_tx_tot + 1
  PROVE  LbufAgo(i)' = IF i = nb_tx_tot % msgs_per_dest THEN 1 ELSE LbufAgo(i) + 1
  <1> DEFINE h == nb_tx_tot % msgs_per_dest
             h1 == nb_tx_tot' % msgs_per_dest
  <1>1. h \in 0 .. msgs_per_dest - 1
    BY ModRange DEF WTypeOK
  <1>2. h1 = IF h + 1 >= msgs_per_dest THEN 0 ELSE h + 1
    BY ModStep DEF WTypeOK
  <1>3. LbufAgo(i) = IF i < h THEN h - i ELSE h - i + msgs_per_dest
    BY DEF LbufAgo
  <1>4. LbufAgo(i)' = IF i < h1 THEN h1 - i ELSE h1 - i + msgs_per_dest
    BY DEF LbufAgo
  <1> HIDE DEF h, h1
  <1>5. LbufAgo(i)' = IF i = h THEN 1 ELSE LbufAgo(i) + 1
    BY SMT, <1>1, <1>2, <1>3, <1>4, LbufAssumption
  <1> QED
    BY <1>5 DEF h

\* Steps that neither post, nor write, nor count.
LEMMA LbufQuiet ==
  ASSUME WTypeOK, LbufInv, UNCHANGED <<posted, lbuf, nb_tx_tot>>,
         \A k \in Slots : wqQ'[k].valid = 1 =>
            /\ wqQ[k].valid = 1
            /\ wqQ'[k].op = wqQ[k].op /\ wqQ'[k].num = wqQ[k].num
            /\ wqQ'[k].buf_addr = wqQ[k].buf_addr,
         pc' = pc \/ (pc # "recv" /\ pc' \notin {"recv", "send"})
  PROVE  LbufInv'
  <1>1. net_buffer_vaddr' = net_buffer_vaddr
    BY DEF net_buffer_vaddr
  <1>2. \A i \in 0 .. msgs_per_dest - 1 : LbufAgo(i)' = LbufAgo(i)
    BY DEF LbufAgo
  <1> QED
    BY <1>1, <1>2 DEF LbufInv

LEMMA WriteLbuf ==
  ASSUME WTypeOK, LbufInv, LiveEntriesRecent, WriteResponse PROVE LbufInv'
  <1> DEFINE h == nb_tx_tot % msgs_per_dest
  <1>1. /\ pc = "write" /\ pc' = "send"
        /\ UNCHANGED <<wqQ, posted, nb_tx_tot>>
        /\ lbuf' = [lbuf EXCEPT ![SlotAddr(h)] = posted]
    BY SendAddrType DEF WriteResponse, qpVars
  <1>2. h \in 0 .. msgs_per_dest - 1 /\ SlotAddr(h) \in LbufAddrs
    BY ModRange, SendAddrType DEF WTypeOK
  <1>3. lbuf'[SlotAddr(h)] = posted /\ net_buffer_vaddr' = SlotAddr(h)
    BY <1>1, <1>2, SendAddrType DEF WTypeOK, net_buffer_vaddr
  <1> HIDE DEF h
  <1>4. ASSUME NEW k \in Slots, NEW i \in 0 .. msgs_per_dest - 1, wqQ[k].valid = 1,
               wqQ[k].op = RMC_SEND, wqQ[k].buf_addr = SlotAddr(i)
        PROVE  /\ lbuf'[SlotAddr(i)] = wqQ[k].num
               /\ LbufAgo(i)' <= posted - wqQ[k].num
    <2>1. wqQ[k].num \in Nat /\ posted \in Nat
      BY DEF WTypeOK, QPTypeOK, WQEntry
    <2>2. LbufAgo(i) <= posted - wqQ[k].num /\ lbuf[SlotAddr(i)] = wqQ[k].num
      BY <1>1, <1>4 DEF LbufInv
    <2>3. posted <= wqQ[k].num + MAX_NUM_WQ
      BY <1>4 DEF LiveEntriesRecent
    <2>4. i # h
      BY SMT, <2>1, <2>2, <2>3, LbufAgoRange, DepthAssumption, LbufAssumption, RingAssumption DEF h
    <2>5. SlotAddr(i) # SlotAddr(h)
      BY SMT, <1>2, <2>4, SlotAddrInjective
    <2>6. SlotAddr(i) \in LbufAddrs
      BY DEF SlotAddr, LbufAddrs
    <2>7. lbuf'[SlotAddr(i)] = lbuf[SlotAddr(i)]
      BY <1>1, <2>5, <2>6 DEF WTypeOK
    <2>8. LbufAgo(i)' = LbufAgo(i)
      BY <1>1 DEF LbufAgo
    <2> QED BY <2>2, <2>7, <2>8
  <1> QED
    BY <1>1, <1>3, <1>4 DEF LbufInv

\* Where the entries of the WQ are after a posting.
LEMMA PostedEntries ==
  ASSUME WTypeOK, NEW o, NEW buf, NEW nid, PostWq(o, buf, nid)
  PROVE  /\ posted' = posted + 1
         /\ wqHead \in Slots
         /\ \A k \in Slots : k # wqHead => wqQ'[k] = wqQ[k]
         /\ wqQ'[wqHead].op = o /\ wqQ'[wqHead].buf_addr = buf
         /\ wqQ'[wqHead].num = posted
  BY DEF PostWq, WTypeOK, QPTypeOK, create_wq_entry

LEMMA SendLbuf ==
  ASSUME WTypeOK, LbufInv, SendResponse PROVE LbufInv'
  <1> DEFINE h == nb_tx_tot % msgs_per_dest
  <1>1. /\ pc = "send" /\ pc' = "recv" /\ UNCHANGED <<lbuf, nb_tx_tot>>
        /\ PostWq(RMC_SEND, SlotAddr(h), rpc.source_node_id)
    BY SendAddrType DEF SendResponse, rmc_hw_send
  <1>2. h \in 0 .. msgs_per_dest - 1 /\ h = nb_tx_tot' % msgs_per_dest
    BY <1>1, ModRange DEF WTypeOK
  <1>3. lbuf[SlotAddr(h)] = posted
    BY <1>1, SendAddrType DEF LbufInv
  <1>4. posted \in Nat /\ \A k \in Slots : wqQ[k].num \in Nat
    BY DEF WTypeOK, QPTypeOK, WQEntry
  <1>5. ASSUME NEW k \in Slots, NEW i \in 0 .. msgs_per_dest - 1, wqQ'[k].valid = 1,
               wqQ'[k].op = RMC_SEND, wqQ'[k].buf_addr = SlotAddr(i)
        PROVE  /\ lbuf'[SlotAddr(i)] = wqQ'[k].num
               /\ \/ LbufAgo(i)' < posted' - wqQ'[k].num
                  \/ i = nb_tx_tot' % msgs_per_dest /\ wqQ'[k].num = posted' - 1
    <2>1. CASE k = wqHead
      <3>1. wqQ'[k].num = posted /\ SlotAddr(i) = SlotAddr(h) /\ posted' = posted + 1
        BY <1>1, <1>5, <2>1, PostedEntries
      <3>2. i = h
        BY SMT, <1>2, <3>1, SlotAddrInjective
      <3> HIDE DEF h
      <3> QED BY SMT, <1>1, <1>2, <1>3, <1>4, <3>1, <3>2
    <2>2. CASE k # wqHead
      <3>1. wqQ'[k] = wqQ[k] /\ posted' = posted + 1
        BY <1>1, <2>2, PostedEntries
      <3>2. LbufAgo(i) <= posted - wqQ[k].num /\ lbuf[SlotAddr(i)] = wqQ[k].num
        BY <1>1, <1>5, <3>1 DEF LbufInv
      <3>3. LbufAgo(i)' = LbufAgo(i) /\ LbufAgo(i) \in Nat
        BY SMT, <1>1, LbufAgoRange, LbufAssumption DEF LbufAgo
      <3> HIDE DEF h
      <3> QED BY SMT, <1>1, <1>4, <3>1, <3>2, <3>3
    <2> QED BY <2>1, <2>2
  <1> QED
    BY <1>1, <1>5 DEF LbufInv

LEMMA RecvLbuf ==
  ASSUME WTypeOK, LbufInv, ReturnBuffer PROVE LbufInv'
  <1>1. /\ pc = "recv" /\ pc' = "poll" /\ lbuf' = lbuf
        /\ nb_tx_tot' = nb_tx_tot + 1
    BY DEF ReturnBuffer
  <1>2. /\ posted' \in {posted, posted + 1}
        /\ \A k \in Slots : wqQ'[k].op = RMC_SEND => wqQ'[k] = wqQ[k]
    <2>1. CASE rmc_hw_recv(rpc.payload)
      BY SMT, <2>1, PostedEntries DEF rmc_hw_recv, RMC_SEND, RMC_RECV
    <2>2. CASE UNCHANGED qpVars
      BY <2>2 DEF qpVars
    <2> QED BY <2>1, <2>2 DEF ReturnBuffer, do_Recv_zsim
  <1>3. posted \in Nat /\ \A k \in Slots : wqQ[k].num \in Nat
    BY DEF WTypeOK, QPTypeOK, WQEntry
  <1>4. ASSUME NEW k \in Slots, NEW i \in 0 .. msgs_per_dest - 1, wqQ'[k].valid = 1,
               wqQ'[k].op = RMC_SEND, wqQ'[k].buf_addr = SlotAddr(i)
        PROVE  /\ lbuf'[SlotAddr(i)] = wqQ'[k].num
               /\ LbufAgo(i)' <= posted' - wqQ'[k].num
    <2>1. wqQ'[k] = wqQ[k]
      BY <1>2, <1>4
    <2>2. /\ lbuf[SlotAddr(i)] = wqQ[k].num
          /\ \/ LbufAgo(i) < posted - wqQ[k].num
             \/ i = nb_tx_tot % msgs_per_dest /\ wqQ[k].num = posted - 1
      BY <1>1, <1>4, <2>1 DEF LbufInv
    <2>3. LbufAgo(i) \in Nat \ {0}
      BY SMT, LbufAgoRange, LbufAssumption
    <2>4. LbufAgo(i)' = IF i = nb_tx_tot % msgs_per_dest THEN 1 ELSE LbufAgo(i) + 1
      BY <1>1, LbufAgoStep
    <2> QED BY SMT, <1>1, <1>2, <1>3, <2>1, <2>2, <2>3, <2>4
  <1> QED
    BY <1>1, <1>4 DEF LbufInv

LEMMA WInitLbuf == Init => LbufInv
  BY SMT DEF Init, QPInit, LbufInv, RMC_SEND

LEMMA WNextLbuf ==
  ASSUME WTypeOK, LbufInv, LiveEntriesRecent, [Next]_vars PROVE LbufInv'
  <1>1. CASE Poll
    <2>1. UNCHANGED <<wqQ, posted>>
      BY <1>1 DEF Poll, rmc_check_cq, CheckCqCall, CheckCqReadHead, CheckCqPop,
                  CheckCqEmpty, wqVars
    <2> QED BY <1>1, <2>1, LbufQuiet DEF Poll
  <1>2. CASE PollAgain \/ StopWhenDone
    BY <1>2, LbufQuiet DEF PollAgain, StopWhenDone, qpVars
  <1>3. CASE TakeRequest
    <2>1. pc = "received" /\ pc' \in {"done", "write"} /\ UNCHANGED <<qpVars, lbuf, nb_tx_tot>>
      BY <1>3 DEF TakeRequest
    <2> QED BY <2>1, LbufQuiet DEF qpVars
  <1>4. CASE NicTake
    BY <1>4, LbufQuiet DEF NicTake, NicFetch, wqVars, wVars
  <1>5. ASSUME NEW j \in Slots, NicFinish(j) PROVE LbufInv'
    <2>1. \A k \in Slots : wqQ'[k].valid = 1 =>
            /\ wqQ[k].valid = 1
            /\ wqQ'[k].op = wqQ[k].op /\ wqQ'[k].num = wqQ[k].num
            /\ wqQ'[k].buf_addr = wqQ[k].buf_addr
      BY SMT, <1>5 DEF NicFinish, NicComplete, WTypeOK, QPTypeOK, WQEntry
    <2> QED BY <1>5, <2>1, LbufQuiet DEF NicFinish, NicComplete
  <1>6. ASSUME NEW tid \in SourceNids, NEW buf \in RecvBufs, NicRequest(tid, buf)
        PROVE  LbufInv'
    BY <1>6, LbufQuiet DEF NicRequest, NicDeliver, wqVars
  <1>7. ASSUME NEW tid \in SourceNids, NicOther(tid) PROVE LbufInv'
    BY <1>7, LbufQuiet DEF NicOther, NicDeliver, wqVars, wVars
  <1>8. CASE ClientsDone
    BY <1>8, LbufQuiet DEF ClientsDone, qpVars
  <1>9. CASE UNCHANGED vars
    BY <1>9, LbufQuiet DEF vars, qpVars, wVars
  <1> QED
    BY <1>1, <1>2, <1>3, <1>4, <1>5, <1>6, <1>7, <1>8, <1>9, WriteLbuf, SendLbuf, RecvLbuf
    DEF Next, Worker, Nic

\* The inductive invariant of the worker holds in every state.
THEOREM WorkerInvariant == Spec => []WInv
  <1>1. WTypeOK /\ LbufInv /\ LiveEntriesRecent /\ [Next]_vars => LbufInv'
    BY WNextLbuf
  <1>2. Spec => []LiveEntriesRecent
    BY WorkerUsesQueuePair, LiveEntriesCorrect, PTL
  <1>3. WInv <=> ControlInv /\ LbufInv
    BY DEF WInv
  <1> QED
    BY <1>1, <1>2, <1>3, WInitLbuf, WorkerControl, PTL DEF Spec

\* No response that the NIC still has to transmit is overwritten by a later
\* one, although sendToNode_zsim never looks whether its slot is free.
THEOREM ResponsesIntact == Spec => []ResponseIntact
  <1>1. WTypeOK /\ WInv => ResponseIntact
    <2> SUFFICES ASSUME WTypeOK, WInv, NEW k \in Slots,
                        wqQ[k].valid = 1, wqQ[k].op = RMC_SEND
                 PROVE  lbuf[wqQ[k].buf_addr] = wqQ[k].num
      BY DEF ResponseIntact
    <2>1. PICK i \in 0 .. msgs_per_dest - 1 : wqQ[k].buf_addr = SlotAddr(i)
      BY DEF WInv, ControlInv, LbufAddrs, SlotAddr
    <2> QED BY <2>1 DEF WInv, LbufInv
  <1> QED
    BY <1>1, WorkerTyping, WorkerInvariant, PTL

\* getUnderlyingAddress counts in words what lbuf_offset counts in bytes: of the
\* slots whose number is at least a quarter of msgs_per_dest the end is beyond
\* the lbuf_size_bytes that registerNewLocalBuffer registers.
THEOREM SlotBeyondBuffer ==
  ASSUME NEW n \in Nat, msgs_per_dest <= 4 * (n % msgs_per_dest)
  PROVE  lbuf_size_bytes
           < getUnderlyingAddress(lbuf_offset(n)) + msg_entry_size
  <1> DEFINE i == n % msgs_per_dest
  <1>1. i \in Nat /\ 4 * i - msgs_per_dest \in Nat
    BY SMT, LbufAssumption
  <1> HIDE DEF i
  <1>2. (4 * i - msgs_per_dest) * msg_entry_size \in Nat
    BY SMT, <1>1, LbufAssumption
  <1>3. (4 * i - msgs_per_dest) * msg_entry_size
          = 4 * (i * msg_entry_size) - msgs_per_dest * msg_entry_size
    BY SMT, <1>1, LbufAssumption
  <1>4. i * msg_entry_size \in Nat /\ msgs_per_dest * msg_entry_size \in Nat
    BY SMT, <1>1, LbufAssumption
  <1>5. getUnderlyingAddress(lbuf_offset(n)) = 4 * (i * msg_entry_size)
    BY DEF getUnderlyingAddress, lbuf_offset, sizeof_uint32_t, i
  <1> QED
    BY SMT, <1>2, <1>3, <1>4, <1>5, LbufAssumption DEF lbuf_size_bytes

-----------------------------------------------------------------------------
(***************************************************************************)
(* Who has a receive buffer, slot by slot.                                 *)
(***************************************************************************)
InCq(k) == cqQ[k].valid = 1 /\ cqQ[k].success = SUCCESS_SEND
InWq(k) == wqQ[k].valid = 1 /\ wqQ[k].op = RMC_RECV
Held(b) == \/ pc \in {"polled", "received"} /\ ck.op = RMC_INCOMING_SEND /\ b = ck.buf
           \/ pc \in {"write", "send", "recv"} /\ b = rpc.payload

\* Two owners of a buffer are the same owner.
OwnInv ==
  /\ \A j, k \in Slots : InCq(j) /\ InCq(k) /\ cqQ[j].recv_buf_addr = cqQ[k].recv_buf_addr
                           => j = k
  /\ \A j, k \in Slots : InWq(j) /\ InWq(k) /\ wqQ[j].buf_addr = wqQ[k].buf_addr => j = k
  /\ \A j, k \in Slots : InCq(j) /\ InWq(k) => cqQ[j].recv_buf_addr # wqQ[k].buf_addr
  /\ \A k \in Slots : InCq(k) => /\ cqQ[k].recv_buf_addr \notin rbufFree
                                 /\ ~Held(cqQ[k].recv_buf_addr)
  /\ \A k \in Slots : InWq(k) => /\ wqQ[k].buf_addr \notin rbufFree
                                 /\ ~Held(wqQ[k].buf_addr)
  /\ \A b \in rbufFree : ~Held(b)

Owned(b) == \/ b \in rbufFree \/ Held(b)
            \/ \E k \in Slots : InCq(k) /\ cqQ[k].recv_buf_addr = b
            \/ \E k \in Slots : InWq(k) /\ wqQ[k].buf_addr = b

\* The entry rmc_check_cq consumes is the oldest one that is unread.
LEMMA PopEntry ==
  ASSUME WTypeOK, QPInv, CheckCqPop
  PROVE  /\ cqTail \in Slots /\ cqQ[cqTail].valid = 1 /\ cqQ[cqTail].num = consumed
         /\ \A k \in Slots : k # cqTail => cqQ'[k] = cqQ[k]
         /\ cqQ'[cqTail].valid = 0
         /\ UNCHANGED <<wqQ, wqHead, posted, inflight>>
  <1>1. QPTypeOK /\ cqTail \in Slots
    BY DEF WTypeOK, QPTypeOK
  <1>2. CqSenseExact /\ CqReady
    BY <1>1, InvCqExact DEF CheckCqPop
  <1>3. consumed < delivered /\ cqQ[cqTail].num = consumed
    BY <1>2 DEF CqSenseExact
  <1>4. cqQ[cqTail].valid = 1
    <2>1. cqSR = IF cqTail < nicCqHead THEN nicCqSR ELSE 1 - nicCqSR
      BY <1>1, <1>2 DEF QPInv, CqInv, QPTypeOK, CqReady
    <2>2. LapInv(cqTail, cqSR, nicCqHead, nicCqSR, consumed, delivered)
      BY DEF QPInv, CqInv
    <2>3. Ago(cqTail, nicCqHead) = delivered - consumed
      BY SMT, <1>1, <2>1, <2>2, RingAssumption DEF LapInv, QPTypeOK, Ago, Slots
    <2> QED BY SMT, <1>1, <1>3, <2>3 DEF QPInv, CqInv, QPTypeOK
  <1>5. /\ \A k \in Slots : k # cqTail => cqQ'[k] = cqQ[k]
        /\ cqQ'[cqTail].valid = 0
    BY <1>1 DEF CheckCqPop, QPTypeOK, CQEntry
  <1> QED
    BY <1>1, <1>3, <1>4, <1>5 DEF CheckCqPop, wqVars, nicVars

\* What one call step of rmc_check_cq does to the requests: it takes one into
\* the activation record and returns, or it leaves them alone.
LEMMA PollEffect ==
  ASSUME WTypeOK, ControlInv, QPInv, rmc_check_cq
  PROVE  /\ UNCHANGED <<wqQ, wqHead, posted, inflight>>
         /\ \/ /\ \A k \in Slots : InCq(k)' <=> InCq(k)
               /\ \A k \in Slots : InCq(k) => cqQ'[k] = cqQ[k]
               /\ ck'.pc = "idle" => ck'.op # RMC_INCOMING_SEND
            \/ /\ cqTail \in Slots /\ InCq(cqTail) /\ cqQ[cqTail].num = consumed
               /\ ck'.pc = "idle" /\ ck'.op = RMC_INCOMING_SEND
               /\ ck'.buf = cqQ[cqTail].recv_buf_addr /\ ck'.tid = cqQ[cqTail].tid
               /\ \A k \in Slots : InCq(k)' <=> InCq(k) /\ k # cqTail
               /\ \A k \in Slots : InCq(k) /\ k # cqTail => cqQ'[k] = cqQ[k]
  <1> USE DEF RMC_INVAL, RMC_INCOMING_SEND, RMC_INCOMING_RESP
  <1>0. ck \in [pc : {"idle", "head", "cq"}, raw_valid : {0, 1},
                op : {0, 18, 20, 42}, tid : Nids, buf : RecvBufs \cup {NoAddr}]
    BY DEF WTypeOK, QPTypeOK
  <1>1. CASE CheckCqCall \/ CheckCqReadHead
    BY <1>0, <1>1 DEF CheckCqCall, CheckCqReadHead, wqVars, nicVars, InCq
  <1>2. CASE CheckCqEmpty
    <2>1. ck.op # 18
      BY <1>2 DEF CheckCqEmpty, ControlInv
    <2> QED BY <1>0, <1>2, <2>1 DEF CheckCqEmpty, wqVars, nicVars, InCq
  <1>3. CASE CheckCqPop
    <2> DEFINE e == cqQ[cqTail]
    <2>1. ck' = Returned(e)
      BY <1>3 DEF CheckCqPop
    <2>2. CASE e.success = SUCCESS_SEND
      <3>1. ck' = [ck EXCEPT !.pc = "idle", !.op = RMC_INCOMING_SEND,
                             !.tid = e.tid, !.buf = e.recv_buf_addr]
        BY SMT, <2>1, <2>2 DEF Returned, SUCCESS_SEND, SUCCESS_RESP
      <3>2. /\ ck'.pc = "idle" /\ ck'.op = 18
            /\ ck'.buf = e.recv_buf_addr /\ ck'.tid = e.tid
        BY <1>0, <3>1
      <3> QED BY SMT, <1>3, <2>2, <3>2, PopEntry DEF InCq
    <2>3. CASE e.success # SUCCESS_SEND
      <3>1. ck'.op # 18
        <4>1. CASE e.success = SUCCESS_RESP
          <5>1. ck' = [ck EXCEPT !.pc = "idle", !.op = RMC_INCOMING_RESP,
                                 !.tid = e.tid, !.buf = e.recv_buf_addr]
            BY SMT, <2>1, <4>1 DEF Returned, SUCCESS_SEND, SUCCESS_RESP
          <5>2. ck'.op = 20
            BY <1>0, <5>1
          <5> QED BY SMT, <5>2
        <4>2. CASE e.success # SUCCESS_RESP
          BY SMT, <1>0, <2>1, <2>3, <4>2 DEF Returned
        <4> QED BY <4>1, <4>2
      <3>2. \A k \in Slots : (InCq(k)' <=> InCq(k)) /\ (InCq(k) => cqQ'[k] = cqQ[k])
        BY SMT, <1>3, <2>3, PopEntry DEF InCq
      <3> QED BY <1>3, <3>1, <3>2, PopEntry
    <2> QED BY <2>2, <2>3
  <1> QED
    BY <1>1, <1>2, <1>3 DEF rmc_check_cq

\* What posting does: the slot was not in use, and the other slots stay.
LEMMA PostEffect ==
  ASSUME WTypeOK, NEW o, NEW buf, NEW nid, PostWq(o, buf, nid)
  PROVE  /\ wqHead \in Slots /\ wqQ[wqHead].valid = 0 /\ UNCHANGED <<ck, cqQ>>
         /\ \A k \in Slots : k # wqHead => wqQ'[k] = wqQ[k]
         /\ wqQ'[wqHead].op = o /\ wqQ'[wqHead].buf_addr = buf
         /\ wqQ'[wqHead].num = posted /\ wqQ'[wqHead].valid = 1
         /\ posted' = posted + 1
  BY DEF PostWq, WqFull, WTypeOK, QPTypeOK, WQEntry, create_wq_entry

\* The NIC writes a completion only over one that is not in use.
LEMMA DeliverEffect ==
  ASSUME WTypeOK, NEW s, NEW tid, NEW buf, NicDeliver(s, tid, buf)
  PROVE  /\ nicCqHead \in Slots /\ cqQ[nicCqHead].valid = 0 /\ UNCHANGED <<ck, wqQ>>
         /\ \A k \in Slots : k # nicCqHead => cqQ'[k] = cqQ[k]
         /\ cqQ'[nicCqHead].valid = 1 /\ cqQ'[nicCqHead].success = s
         /\ cqQ'[nicCqHead].recv_buf_addr = buf /\ cqQ'[nicCqHead].tid = tid
         /\ cqQ'[nicCqHead].num = delivered
  BY DEF NicDeliver, wqVars, WTypeOK, QPTypeOK

LEMMA FinishEffect ==
  ASSUME WTypeOK, NEW i \in Slots, NicComplete(i)
  PROVE  /\ UNCHANGED <<ck, cqQ, posted, wqHead>>
         /\ \A k \in Slots : /\ k # i => wqQ'[k] = wqQ[k]
                             /\ wqQ'[k].op = wqQ[k].op /\ wqQ'[k].num = wqQ[k].num
                             /\ wqQ'[k].buf_addr = wqQ[k].buf_addr
         /\ wqQ'[i].valid = 0
  BY SMTT(20) DEF NicComplete, WTypeOK, QPTypeOK, WQEntry

-----------------------------------------------------------------------------
(***************************************************************************)
(* A receive buffer has one owner at most.                                 *)
(***************************************************************************)
LEMMA OwnInit == Init => OwnInv
  BY SMTT(20) DEF Init, QPInit, OwnInv, InCq, InWq, Held

\* Steps that leave both queues alone and at most drop the buffer held.
LEMMA OwnQuiet ==
  ASSUME OwnInv, UNCHANGED <<cqQ, wqQ, rbufFree>>, \A b : Held(b)' => Held(b)
  PROVE  OwnInv'
  BY DEF OwnInv, InCq, InWq

LEMMA OwnStep ==
  ASSUME WTypeOK, ControlInv, QPInv, OwnInv, [Next]_vars PROVE OwnInv'
  <1>1. CASE Poll
    <2>1. pc = "poll" /\ UNCHANGED <<rpc, rbufFree>> /\ \A b : ~Held(b)
      BY <1>1 DEF Poll, Held
    <2>2. pc' = IF ck'.pc = "idle" THEN "polled" ELSE "poll"
      BY <1>1 DEF Poll
    <2>3. wqQ' = wqQ
      BY <1>1, PollEffect DEF Poll
    <2>4. CASE /\ \A k \in Slots : InCq(k)' <=> InCq(k)
               /\ \A k \in Slots : InCq(k) => cqQ'[k] = cqQ[k]
               /\ ck'.pc = "idle" => ck'.op # RMC_INCOMING_SEND
      <3>1. \A b : ~Held(b)'
        BY <2>2, <2>4 DEF Held
      <3> QED BY SMTT(20), <2>1, <2>3, <2>4, <3>1 DEF OwnInv, InWq
    <2>5. CASE /\ cqTail \in Slots /\ InCq(cqTail)
               /\ ck'.pc = "idle" /\ ck'.op = RMC_INCOMING_SEND
               /\ ck'.buf = cqQ[cqTail].recv_buf_addr
               /\ \A k \in Slots : InCq(k)' <=> InCq(k) /\ k # cqTail
               /\ \A k \in Slots : InCq(k) /\ k # cqTail => cqQ'[k] = cqQ[k]
      <3>1. \A b : Held(b)' <=> b = cqQ[cqTail].recv_buf_addr
        BY <2>2, <2>5 DEF Held
      <3> QED BY ZenonT(30), <2>1, <2>3, <2>5, <3>1 DEF OwnInv, InWq
    <2> QED BY <1>1, <2>4, <2>5, PollEffect DEF Poll
  <1>2. CASE PollAgain \/ StopWhenDone \/ WriteResponse \/ ClientsDone
    BY <1>2, OwnQuiet DEF PollAgain, StopWhenDone, WriteResponse, ClientsDone, qpVars, Held
  <1>3. CASE TakeRequest
    <2>1. ck.op = RMC_INCOMING_SEND /\ pc = "received" /\ UNCHANGED <<qpVars, rbufFree>>
      BY <1>3 DEF TakeRequest, ControlInv
    <2>2. rpc'.payload = ck.buf /\ pc' \in {"done", "write"}
      BY SMT, <1>3 DEF TakeRequest
    <2>3. \A b : Held(b)' => Held(b)
      BY <2>1, <2>2 DEF Held
    <2> QED BY <2>1, <2>3, OwnQuiet DEF qpVars
  <1>4. CASE SendResponse
    <2>1. PostWq(RMC_SEND, net_buffer_vaddr, rpc.source_node_id)
      BY <1>4 DEF SendResponse, rmc_hw_send
    <2>2. \A k \in Slots : (InWq(k)' <=> InWq(k)) /\ (InWq(k) => wqQ'[k] = wqQ[k])
      BY SMT, <2>1, PostEffect DEF InWq, RMC_SEND, RMC_RECV
    <2>3. UNCHANGED <<ck, cqQ, rpc, rbufFree>> /\ pc = "send" /\ pc' = "recv"
      BY <1>4, <2>1, PostEffect DEF SendResponse
    <2>4. \A b : Held(b)' <=> Held(b)
      BY <2>3 DEF Held
    <2> QED BY SMT, <2>2, <2>3, <2>4 DEF OwnInv, InCq
  <1>5. CASE ReturnBuffer
    <2>1. pc = "recv" /\ pc' = "poll" /\ rbufFree' = rbufFree
      BY <1>5 DEF ReturnBuffer
    <2>2. CASE rmc_hw_recv(rpc.payload)
      <3>1. PostWq(RMC_RECV, rpc.payload, 0)
        BY <2>2 DEF rmc_hw_recv
      <3>2. /\ wqHead \in Slots /\ ~InWq(wqHead) /\ wqQ'[wqHead].buf_addr = rpc.payload
            /\ cqQ' = cqQ /\ \A k \in Slots : k # wqHead => wqQ'[k] = wqQ[k]
        BY SMTT(20), <3>1, PostEffect DEF InWq
      <3>3. Held(rpc.payload) /\ \A b : ~Held(b)'
        BY <2>1 DEF Held
      <3> QED BY SMTT(20), <2>1, <3>2, <3>3 DEF OwnInv, InCq, InWq
    <2>3. CASE UNCHANGED qpVars
      BY <2>1, <2>3, OwnQuiet DEF qpVars, Held
    <2> QED BY <1>5, <2>2, <2>3 DEF ReturnBuffer, do_Recv_zsim
  <1>6. CASE NicTake
    BY <1>6, OwnQuiet DEF NicTake, NicFetch, wqVars, wVars, Held
  <1>7. ASSUME NEW i \in Slots, NicFinish(i) PROVE OwnInv'
    <2>1. /\ UNCHANGED <<ck, cqQ>> /\ wqQ'[i].valid = 0
          /\ \A k \in Slots : k # i => wqQ'[k] = wqQ[k]
      BY <1>7, FinishEffect DEF NicFinish
    <2>2. wqQ[i].valid = 1
      BY <1>7 DEF NicFinish, NicComplete, QPInv, WqInv
    <2>3. UNCHANGED <<pc, rpc>>
      BY <1>7 DEF NicFinish
    <2>4. \A b : Held(b)' <=> Held(b)
      BY <2>1, <2>3 DEF Held
    <2>5. /\ InWq(i) => rbufFree' = rbufFree \cup {wqQ[i].buf_addr}
          /\ ~InWq(i) => rbufFree' = rbufFree
      BY <1>7, <2>2 DEF NicFinish, InWq
    <2>6. \A k \in Slots : /\ InCq(k)' <=> InCq(k)
                           /\ InWq(k)' <=> InWq(k) /\ k # i
      BY SMTT(20), <2>1 DEF InCq, InWq
    <2>7. CASE InWq(i)
      <3>1. \A k \in Slots : InCq(k) => cqQ[k].recv_buf_addr \notin rbufFree'
        BY SMTT(20), <2>5, <2>7 DEF OwnInv
      <3>2. \A k \in Slots : InWq(k) /\ k # i => wqQ[k].buf_addr \notin rbufFree'
        BY <2>5, <2>7 DEF OwnInv
      <3>3. \A b \in rbufFree' : ~Held(b)
        BY SMTT(20), <2>5, <2>7 DEF OwnInv
      <3> QED BY SMTT(20), <2>1, <2>4, <2>6, <3>1, <3>2, <3>3 DEF OwnInv, InCq, InWq
    <2>8. CASE ~InWq(i)
      BY SMTT(20), <2>1, <2>4, <2>5, <2>8 DEF OwnInv, InCq, InWq
    <2> QED BY <2>7, <2>8
  <1>8. ASSUME NEW tid \in SourceNids, NEW buf \in RecvBufs, NicRequest(tid, buf)
        PROVE  OwnInv'
    <2>1. /\ buf \in rbufFree /\ rbufFree' = rbufFree \ {buf} /\ UNCHANGED <<pc, rpc>>
      BY <1>8 DEF NicRequest
    <2>2. /\ UNCHANGED <<ck, wqQ>> /\ nicCqHead \in Slots /\ ~InCq(nicCqHead)
          /\ cqQ'[nicCqHead].recv_buf_addr = buf
          /\ \A k \in Slots : k # nicCqHead => cqQ'[k] = cqQ[k]
      BY SMTT(20), <1>8, DeliverEffect DEF NicRequest, InCq
    <2>3. \A b : Held(b)' <=> Held(b)
      BY <2>1, <2>2 DEF Held
    <2> QED BY SMTT(20), <2>1, <2>2, <2>3 DEF OwnInv, InCq, InWq
  <1>9. ASSUME NEW tid \in SourceNids, NicOther(tid) PROVE OwnInv'
    <2>1. PICK s \in {SUCCESS_RESP, SUCCESS_OTHER} : NicDeliver(s, tid, NoAddr)
      BY <1>9 DEF NicOther
    <2>2. /\ UNCHANGED <<ck, wqQ, pc, rpc, rbufFree>>
          /\ \A k \in Slots : (InCq(k)' <=> InCq(k)) /\ (InCq(k) => cqQ'[k] = cqQ[k])
      <3>1. /\ nicCqHead \in Slots /\ cqQ[nicCqHead].valid = 0 /\ UNCHANGED <<ck, wqQ>>
            /\ \A k \in Slots : k # nicCqHead => cqQ'[k] = cqQ[k]
            /\ cqQ'[nicCqHead].success = s
        BY <2>1, DeliverEffect
      <3>2. UNCHANGED <<pc, rpc, rbufFree>>
        BY <1>9 DEF NicOther, wVars
      <3>3. s # SUCCESS_SEND /\ 0 # 1
        BY SMT DEF SUCCESS_SEND, SUCCESS_RESP, SUCCESS_OTHER
      <3> QED BY <3>1, <3>2, <3>3 DEF InCq
    <2>3. \A b : Held(b)' <=> Held(b)
      BY <2>2 DEF Held
    <2>4. \A k \in Slots : InWq(k)' <=> InWq(k)
      BY <2>2 DEF InWq
    <2>5. UNCHANGED <<wqQ, rbufFree>>
      BY <2>2
    <2> QED BY <2>2, <2>3, <2>4, <2>5 DEF OwnInv
  <1>10. CASE UNCHANGED vars
    BY <1>10, OwnQuiet DEF vars, qpVars, wVars, Held
  <1> QED
    BY <1>1, <1>2, <1>3, <1>4, <1>5, <1>6, <1>7, <1>8, <1>9, <1>10 DEF Next, Worker, Nic

\* All that was proved of the queue pair and of run_worker, as one invariant.
PathInv == WTypeOK /\ ControlInv /\ QPInv /\ OwnInv

LEMMA PathStart == Init => PathInv
  BY WInitInv, OwnInit, QPInitInv DEF Init, PathInv

LEMMA PathStep == PathInv /\ [Next]_vars => PathInv'
  <1> SUFFICES ASSUME PathInv, [Next]_vars PROVE PathInv'
    OBVIOUS
  <1>1. WTypeOK /\ ControlInv /\ QPInv /\ OwnInv /\ QPTypeOK
    BY DEF PathInv, WTypeOK
  <1>2. QPInv'
    BY <1>1, WStepQP, QPNextInv
  <1> QED
    BY <1>1, <1>2, WNextType, WNextControl, OwnStep DEF PathInv

\* The inductive invariant behind the results of this module.
THEOREM PathInvariant == Spec => []PathInv
  BY PathStart, PathStep, PTL DEF Spec

\* The buffer run_worker holds, read off HeldBuf.
LEMMA HeldIs == WTypeOK => \A b : b \in HeldBuf <=> Held(b)
  <1> SUFFICES ASSUME WTypeOK, NEW b PROVE b \in HeldBuf <=> Held(b)
    OBVIOUS
  <1>1. CASE pc \in {"polled", "received"} /\ ck.op = RMC_INCOMING_SEND
    BY <1>1 DEF HeldBuf, Held
  <1>2. CASE pc \in {"write", "send", "recv"}
    BY <1>2 DEF HeldBuf, Held
  <1>3. CASE /\ ~(pc \in {"polled", "received"} /\ ck.op = RMC_INCOMING_SEND)
             /\ pc \notin {"write", "send", "recv"}
    BY <1>3 DEF HeldBuf, Held
  <1> QED BY <1>1, <1>2, <1>3

LEMMA UnreadIs == WTypeOK /\ QPInv => \A k \in Slots : k \in UnreadCq <=> InCq(k)
  <1> SUFFICES ASSUME WTypeOK, QPInv, NEW k \in Slots, InCq(k) PROVE cqQ[k].num >= consumed
    BY DEF UnreadCq, InCq
  <1>0. nicCqHead \in Slots /\ consumed \in Nat /\ delivered \in Nat
    BY DEF WTypeOK, QPTypeOK
  <1>1. Ago(k, nicCqHead) \in Nat
    BY SMT, <1>0, AgoStep, RingAssumption
  <1>2. /\ Ago(k, nicCqHead) + consumed <= delivered
        /\ Ago(k, nicCqHead) <= delivered => cqQ[k].num = delivered - Ago(k, nicCqHead)
    BY DEF InCq, QPInv, CqInv
  <1> QED BY SMT, <1>0, <1>1, <1>2

LEMMA OwnersAre ==
  ASSUME WTypeOK, QPInv, NEW b, NEW x
  PROVE  x \in Owners(b) <=> \/ x = <<"free", 0>> /\ b \in rbufFree
                             \/ x = <<"app", 0>> /\ Held(b)
                             \/ \E k \in Slots : x = <<"cq", k>> /\ InCq(k) /\ cqQ[k].recv_buf_addr = b
                             \/ \E k \in Slots : x = <<"wq", k>> /\ InWq(k) /\ wqQ[k].buf_addr = b
  <1>1. x \in {<<"free", 0>> : y \in rbufFree \cap {b}} <=> x = <<"free", 0>> /\ b \in rbufFree
    OBVIOUS
  <1>2. x \in {<<"app", 0>> : y \in HeldBuf \cap {b}} <=> x = <<"app", 0>> /\ Held(b)
    BY HeldIs
  <1>3. x \in {<<"cq", k>> : k \in {j \in UnreadCq : cqQ[j].recv_buf_addr = b}}
          <=> \E k \in Slots : x = <<"cq", k>> /\ InCq(k) /\ cqQ[k].recv_buf_addr = b
    <2>1. \A k : k \in UnreadCq <=> k \in Slots /\ InCq(k)
      BY UnreadIs DEF UnreadCq
    <2> QED BY <2>1
  <1>4. x \in {<<"wq", k>> : k \in {j \in LiveRecv : wqQ[j].buf_addr = b}}
          <=> \E k \in Slots : x = <<"wq", k>> /\ InWq(k) /\ wqQ[k].buf_addr = b
    <2>1. \A k : k \in LiveRecv <=> k \in Slots /\ InWq(k)
      BY DEF LiveRecv, InWq
    <2> QED BY <2>1
  <1> QED
    BY <1>1, <1>2, <1>3, <1>4 DEF Owners

\* For every number of receive buffers and every size of the queues, a receive
\* buffer is free, in one unread completion, in the hands of run_worker or in
\* one RECV that has not completed, and never in two of them.
THEOREM BuffersHaveOneOwner == Spec => []BufferSingleOwner
  <1>1. PathInv => BufferSingleOwner
    <2> SUFFICES ASSUME PathInv, NEW b \in RecvBufs, NEW x \in Owners(b), NEW y \in Owners(b)
                 PROVE  x = y
      BY DEF BufferSingleOwner
    <2>1. WTypeOK /\ QPInv /\ OwnInv
      BY DEF PathInv
    <2> DEFINE In(z) == \/ z = <<"free", 0>> /\ b \in rbufFree
                        \/ z = <<"app", 0>> /\ Held(b)
                        \/ \E k \in Slots : z = <<"cq", k>> /\ InCq(k) /\ cqQ[k].recv_buf_addr = b
                        \/ \E k \in Slots : z = <<"wq", k>> /\ InWq(k) /\ wqQ[k].buf_addr = b
    <2>2. In(x) /\ In(y)
      BY <2>1, OwnersAre
    <2> QED BY SMT, <2>1, <2>2 DEF OwnInv
  <1> QED
    BY <1>1, PathInvariant, PTL


-----------------------------------------------------------------------------
(***************************************************************************)
(* The responses are posted in the order of the requests.                  *)
(***************************************************************************)
LEMMA TakenType ==
  ASSUME WTypeOK
  PROVE  /\ Len(replies) \in Nat /\ Len(origins) \in Nat /\ Taken \in Nat
         /\ HoldsRequest => Taken = Len(replies) + 1
         /\ ~HoldsRequest => Taken = Len(replies)
  BY SMT DEF WTypeOK, Taken

LEMMA UnreadNums ==
  ASSUME WTypeOK, QPInv, NEW j \in Slots, NEW k \in Slots, InCq(j), InCq(k)
  PROVE  /\ cqQ[k].num \in Nat /\ consumed <= cqQ[k].num /\ cqQ[k].num < delivered
         /\ cqQ[j].num = cqQ[k].num => j = k
  <1>0. nicCqHead \in Slots /\ consumed \in Nat /\ delivered \in Nat
    BY DEF WTypeOK, QPTypeOK
  <1>1. Ago(k, nicCqHead) \in Nat \ {0} /\ Ago(j, nicCqHead) \in Nat \ {0}
    BY SMT, <1>0, AgoStep, RingAssumption
  <1>2. ASSUME NEW i \in {j, k}
        PROVE  /\ Ago(i, nicCqHead) + consumed <= delivered
               /\ Ago(i, nicCqHead) <= delivered => cqQ[i].num = delivered - Ago(i, nicCqHead)
    BY DEF InCq, QPInv, CqInv
  <1>3. cqQ[j].num = cqQ[k].num => Ago(j, nicCqHead) = Ago(k, nicCqHead)
    BY SMT, <1>0, <1>1, <1>2
  <1> QED BY SMT, <1>0, <1>1, <1>2, <1>3, AgoInjective

\* Steps that neither take nor add a request.
LEMMA OrderQuiet ==
  ASSUME WTypeOK, OrderInv, origins' = origins, Taken' = Taken,
         \A k \in Slots : /\ k \in UnreadCq' <=> k \in UnreadCq
                          /\ k \in UnreadCq => cqQ'[k] = cqQ[k],
         pc' \in {"polled", "received"} /\ ck'.op = RMC_INCOMING_SEND
           => ck'.tid = origins[Taken],
         pc' \in {"write", "send"} => rpc'.source_node_id % NidMod = origins[Taken] % NidMod
  PROVE  OrderInv'
  <1>1. PICK pos \in [Slots -> 0 .. Len(origins)] : UnreadInOrder(pos)
    BY DEF OrderInv
  <1>2. UnreadCq \subseteq Slots /\ UnreadCq' = UnreadCq
    BY DEF UnreadCq
  <1>3. UnreadInOrder(pos)'
    BY <1>1, <1>2 DEF UnreadInOrder
  <1> QED BY <1>1, <1>3 DEF OrderInv

LEMMA OrderPop ==
  ASSUME WTypeOK, QPInv, OrderInv, origins' = origins, Taken' = Taken + 1,
         cqTail \in Slots, InCq(cqTail), cqQ[cqTail].num = consumed,
         \A k \in Slots : /\ k \in UnreadCq' <=> k \in UnreadCq /\ k # cqTail
                          /\ k \in UnreadCq /\ k # cqTail => cqQ'[k] = cqQ[k],
         pc' = "polled", ck'.tid = cqQ[cqTail].tid
  PROVE  OrderInv'
  <1>1. PICK pos \in [Slots -> 0 .. Len(origins)] : UnreadInOrder(pos)
    BY DEF OrderInv
  <1>2. UnreadCq \subseteq Slots /\ UnreadCq' = UnreadCq \ {cqTail} /\ cqTail \in UnreadCq
    BY UnreadIs DEF UnreadCq
  <1>3. Taken \in Nat /\ Len(origins) \in Nat
    BY TakenType
  <1>4. \A k \in UnreadCq : k # cqTail => cqQ[cqTail].num < cqQ[k].num
    <2> SUFFICES ASSUME NEW k \in UnreadCq, k # cqTail PROVE cqQ[cqTail].num < cqQ[k].num
      OBVIOUS
    <2>1. k \in Slots /\ InCq(k) /\ consumed \in Nat
      BY <1>2, UnreadIs DEF WTypeOK, QPTypeOK
    <2> QED BY SMT, <2>1, UnreadNums
  <1>5. pos[cqTail] = Taken + 1
    <2>1. Taken < pos[cqTail] /\ pos[cqTail] \in Nat /\ pos[cqTail] <= Len(origins)
      BY SMT, <1>1, <1>2, <1>3 DEF UnreadInOrder
    <2>2. PICK j \in UnreadCq : pos[j] = Taken + 1
      BY SMT, <1>1, <1>3, <2>1 DEF UnreadInOrder
    <2>3. CASE j # cqTail
      <3>1. pos[cqTail] < pos[j]
        BY <1>1, <1>2, <1>4, <2>3 DEF UnreadInOrder
      <3> QED BY SMT, <1>3, <2>1, <2>2, <3>1
    <2> QED BY <2>2, <2>3
  <1>6. \A k \in UnreadCq' : Taken + 1 < pos[k] /\ cqQ'[k].tid = origins[pos[k]]
    <2> SUFFICES ASSUME NEW k \in UnreadCq'
                 PROVE  Taken + 1 < pos[k] /\ cqQ'[k].tid = origins[pos[k]]
      OBVIOUS
    <2>1. k \in UnreadCq /\ k # cqTail /\ k \in Slots /\ cqQ'[k] = cqQ[k]
      BY <1>2
    <2>2. pos[cqTail] < pos[k]
      BY <1>1, <1>2, <1>4, <2>1 DEF UnreadInOrder
    <2> QED BY <1>1, <1>5, <2>1, <2>2 DEF UnreadInOrder
  <1>7. \A j, k \in UnreadCq' : cqQ'[j].num < cqQ'[k].num => pos[j] < pos[k]
    BY <1>1, <1>2 DEF UnreadInOrder
  <1>8. \A n \in Taken' + 1 .. Len(origins) : \E k \in UnreadCq' : pos[k] = n
    <2> SUFFICES ASSUME NEW n \in Taken + 2 .. Len(origins)
                 PROVE  \E k \in UnreadCq' : pos[k] = n
      BY SMT, <1>3
    <2>1. n \in Taken + 1 .. Len(origins) /\ n # Taken + 1
      BY SMT, <1>3
    <2>2. PICK k \in UnreadCq : pos[k] = n
      BY <1>1, <2>1 DEF UnreadInOrder
    <2> QED BY <1>2, <1>5, <2>1, <2>2
  <1>9. UnreadInOrder(pos)'
    BY <1>6, <1>7, <1>8 DEF UnreadInOrder
  <1>10. Taken' <= Len(origins)
    BY SMT, <1>1, <1>3, <1>5
  <1>11. ck'.tid = origins'[Taken']
    BY <1>1, <1>2, <1>5 DEF UnreadInOrder
  <1> QED
    BY <1>1, <1>9, <1>10, <1>11 DEF OrderInv

LEMMA OrderDeliver ==
  ASSUME WTypeOK, QPInv, OrderInv, NEW tid \in SourceNids, origins' = Append(origins, tid),
         Taken' = Taken, UNCHANGED <<pc, ck, rpc>>, nicCqHead \in Slots, ~InCq(nicCqHead),
         \A k \in Slots : /\ k \in UnreadCq' <=> k \in UnreadCq \/ k = nicCqHead
                          /\ k # nicCqHead => cqQ'[k] = cqQ[k],
         cqQ'[nicCqHead].tid = tid, cqQ'[nicCqHead].num = delivered,
         HoldsRequest => Taken >= 1
  PROVE  OrderInv'
  <1>1. PICK pos \in [Slots -> 0 .. Len(origins)] : UnreadInOrder(pos)
    BY DEF OrderInv
  <1>0. PICK new : new = [pos EXCEPT ![nicCqHead] = Len(origins) + 1]
    OBVIOUS
  <1>2. /\ UnreadCq \subseteq Slots /\ UnreadCq' = UnreadCq \cup {nicCqHead}
        /\ nicCqHead \notin UnreadCq
    BY UnreadIs DEF UnreadCq
  <1>3. Taken \in Nat /\ Len(origins) \in Nat /\ Taken <= Len(origins) /\ delivered \in Nat
    BY TakenType DEF OrderInv, WTypeOK, QPTypeOK
  <1>4. /\ Len(origins') = Len(origins) + 1 /\ origins'[Len(origins) + 1] = tid
        /\ \A n \in 1 .. Len(origins) : origins'[n] = origins[n]
    BY SMT DEF WTypeOK
  <1>5. /\ new \in [Slots -> 0 .. Len(origins')] /\ new[nicCqHead] = Len(origins) + 1
        /\ \A k \in UnreadCq : new[k] = pos[k] /\ pos[k] \in 1 .. Len(origins) /\ Taken < pos[k]
    <2>1. \A k \in UnreadCq : Taken < pos[k] /\ pos[k] \in 0 .. Len(origins)
      BY <1>1, <1>2 DEF UnreadInOrder
    <2> QED BY SMT, <1>0, <1>1, <1>2, <1>3, <1>4, <2>1
  <1>6. \A k \in UnreadCq : cqQ[k].num < delivered /\ cqQ'[k] = cqQ[k] /\ cqQ[k].num \in Nat
    BY <1>2, UnreadIs, UnreadNums
  <1>7. \A k \in UnreadCq' : Taken < new[k] /\ cqQ'[k].tid = origins'[new[k]]
    BY SMTT(20), <1>1, <1>2, <1>3, <1>4, <1>5, <1>6 DEF UnreadInOrder
  <1>8. \A j, k \in UnreadCq' : cqQ'[j].num < cqQ'[k].num => new[j] < new[k]
    BY SMTT(20), <1>1, <1>2, <1>3, <1>5, <1>6 DEF UnreadInOrder
  <1>9. \A n \in Taken + 1 .. Len(origins') : \E k \in UnreadCq' : new[k] = n
    <2> SUFFICES ASSUME NEW n \in Taken + 1 .. Len(origins) + 1
                 PROVE  \E k \in UnreadCq' : new[k] = n
      BY <1>4
    <2>1. CASE n = Len(origins) + 1
      BY <1>2, <1>5, <2>1
    <2>2. CASE n \in Taken + 1 .. Len(origins)
      <3>1. PICK k \in UnreadCq : pos[k] = n
        BY <1>1, <2>2 DEF UnreadInOrder
      <3> QED BY <1>2, <1>5, <3>1
    <2> QED BY SMTT(20), <1>3, <2>1, <2>2
  <1>10. UnreadInOrder(new)'
    BY <1>7, <1>8, <1>9 DEF UnreadInOrder
  <1>11. HoldsRequest => origins'[Taken] = origins[Taken]
    BY SMT, <1>3, <1>4
  <1>12. Taken' <= Len(origins')
    BY SMT, <1>3, <1>4
  <1>13. /\ pc' \in {"polled", "received"} /\ ck'.op = RMC_INCOMING_SEND => ck'.tid = origins'[Taken']
         /\ pc' \in {"write", "send"} => rpc'.source_node_id % NidMod = origins'[Taken'] % NidMod
    BY <1>11 DEF OrderInv, HoldsRequest
  <1> QED
    BY <1>5, <1>10, <1>12, <1>13 DEF OrderInv

\* The 16 bits that receiveRPCRequest_zsim_l3fwd writes survive what the upper
\* half of source_node_id held before.
LEMMA SourceLow ==
  ASSUME NEW hi \in Nat, NEW tid \in Nat
  PROVE  (hi * NidMod + (tid % NidMod)) % NidMod = tid % NidMod
  <1> DEFINE r == tid % NidMod
             n == hi * NidMod + r
  <1>1. NidMod \in Nat \ {0} /\ r \in 0 .. NidMod - 1
    BY SMT, NidAssumption
  <1>2. n \in Nat /\ n = NidMod * hi + r /\ hi \in Int
    BY SMT, <1>1
  <1> HIDE DEF r, n
  <1>3. n % NidMod = r
    BY <1>1, <1>2, ModUnique
  <1> QED BY <1>3 DEF r, n

\* The order holds until run_worker leaves its loop; the responses stay right.
ReplyInv == (pc # "done" => OrderInv) /\ RepliesInOrder

LEMMA ReplyStep == PathInv /\ PathInv' /\ ReplyInv /\ [Next]_vars => ReplyInv'
  <1> SUFFICES ASSUME PathInv, PathInv', ReplyInv, [Next]_vars PROVE ReplyInv'
    OBVIOUS
  <1>a. WTypeOK /\ ControlInv /\ QPInv
    BY DEF PathInv
  <1>b. \A k \in Slots : (k \in UnreadCq <=> InCq(k)) /\ (k \in UnreadCq' <=> InCq(k)')
    <2>1. \A k \in Slots : k \in UnreadCq <=> InCq(k)
      BY <1>a, UnreadIs
    <2>2. (WTypeOK /\ QPInv => \A k \in Slots : k \in UnreadCq <=> InCq(k))'
      BY UnreadIs, PTL
    <2> QED BY <2>1, <2>2 DEF PathInv
  <1>c. Len(replies) \in Nat /\ Len(origins) \in Nat /\ Taken \in Nat
    BY <1>a, TakenType
  <1>d. ASSUME UNCHANGED <<origins, replies>> PROVE RepliesInOrder'
    BY <1>d DEF ReplyInv, RepliesInOrder
  <1>1. CASE Poll
    <2>1. /\ pc = "poll" /\ UNCHANGED <<rpc, origins, replies>> /\ rmc_check_cq /\ OrderInv
          /\ pc' = IF ck'.pc = "idle" THEN "polled" ELSE "poll"
      BY <1>1 DEF Poll, ReplyInv
    <2>2. ~HoldsRequest /\ Taken = Len(replies)
      BY SMT, <2>1 DEF HoldsRequest, Taken
    <2>3. CASE /\ \A k \in Slots : InCq(k)' <=> InCq(k)
               /\ \A k \in Slots : InCq(k) => cqQ'[k] = cqQ[k]
               /\ ck'.pc = "idle" => ck'.op # RMC_INCOMING_SEND
      <3>1. Taken' = Taken
        BY <2>1, <2>2, <2>3 DEF Taken, HoldsRequest
      <3>2. OrderInv'
        BY <1>a, <1>b, <2>1, <2>3, <3>1, OrderQuiet
      <3> QED BY <1>d, <2>1, <3>2 DEF ReplyInv
    <2>4. CASE /\ cqTail \in Slots /\ InCq(cqTail) /\ cqQ[cqTail].num = consumed
               /\ ck'.pc = "idle" /\ ck'.op = RMC_INCOMING_SEND
               /\ ck'.buf = cqQ[cqTail].recv_buf_addr /\ ck'.tid = cqQ[cqTail].tid
               /\ \A k \in Slots : InCq(k)' <=> InCq(k) /\ k # cqTail
               /\ \A k \in Slots : InCq(k) /\ k # cqTail => cqQ'[k] = cqQ[k]
      <3>1. Taken' = Taken + 1 /\ pc' = "polled"
        BY <1>c, <2>1, <2>2, <2>4 DEF Taken, HoldsRequest
      <3>2. OrderInv'
        BY <1>a, <1>b, <2>1, <2>4, <3>1, OrderPop
      <3> QED BY <1>d, <2>1, <3>2 DEF ReplyInv
    <2> QED BY <1>a, <2>1, <2>3, <2>4, PollEffect
  <1>2. ASSUME UNCHANGED <<ck, cqQ, replies, origins, consumed>>, HoldsRequest' <=> HoldsRequest,
               OrderInv, UNCHANGED rpc \/ pc' \notin {"write", "send"},
               pc \in {"write", "send"} <=> pc' \in {"write", "send"}
        PROVE  ReplyInv'
    <2>1. Taken' = Taken
      BY <1>2 DEF Taken
    <2>2. \A k \in Slots : (k \in UnreadCq' <=> k \in UnreadCq) /\ cqQ'[k] = cqQ[k]
      BY <1>2 DEF UnreadCq
    <2>3. /\ pc' \in {"polled", "received"} /\ ck'.op = RMC_INCOMING_SEND => ck'.tid = origins[Taken]
          /\ pc' \in {"write", "send"} => rpc'.source_node_id % NidMod = origins[Taken] % NidMod
      BY <1>2 DEF OrderInv, HoldsRequest
    <2>4. OrderInv'
      BY <1>2, <1>a, <2>1, <2>2, <2>3, OrderQuiet
    <2> QED BY <1>2, <1>d, <2>4 DEF ReplyInv
  <1>3. CASE PollAgain
    BY <1>2, <1>3 DEF PollAgain, ReplyInv, HoldsRequest, qpVars
  <1>4. CASE StopWhenDone
    BY <1>4, <1>d DEF StopWhenDone, ReplyInv
  <1>5. CASE TakeRequest
    <2>1. /\ UNCHANGED <<qpVars, origins, replies>> /\ OrderInv
          /\ pc = "received" /\ ck.op = RMC_INCOMING_SEND /\ pc' \in {"done", "write"}
      BY <1>5, <1>a DEF TakeRequest, ReplyInv, ControlInv
    <2>2. CASE pc' = "done"
      BY <1>d, <2>1, <2>2 DEF ReplyInv
    <2>3. CASE pc' = "write"
      <3>1. Taken' = Taken /\ ck.tid = origins[Taken]
        BY <2>1, <2>3 DEF Taken, HoldsRequest, OrderInv
      <3>2. PICK hi \in StaleHigh : rpc'.source_node_id = hi * NidMod + (ck.tid % NidMod)
        BY SMT, <1>5 DEF TakeRequest
      <3>3. hi \in Nat /\ ck.tid \in Nat
        <4>1. Taken \in 1 .. Len(origins)
          BY SMT, <1>a, <1>c, <2>1, TakenType DEF HoldsRequest, OrderInv
        <4>2. origins \in Seq(SourceNids)
          BY <1>a DEF WTypeOK
        <4>3. origins[Taken] \in SourceNids
          BY SMT, <4>1, <4>2
        <4> QED BY <3>1, <4>3, NidAssumption
      <3>4. rpc'.source_node_id % NidMod = origins[Taken] % NidMod
        BY <3>1, <3>2, <3>3, SourceLow
      <3>5. \A k \in Slots : (k \in UnreadCq' <=> k \in UnreadCq) /\ cqQ'[k] = cqQ[k]
        BY <2>1 DEF UnreadCq, qpVars
      <3>6. OrderInv'
        BY <1>a, <2>1, <2>3, <3>1, <3>4, <3>5, OrderQuiet
      <3> QED BY <1>d, <2>1, <3>6 DEF ReplyInv
    <2> QED BY <2>1, <2>2, <2>3
  <1>6. CASE WriteResponse
    BY <1>2, <1>6 DEF WriteResponse, ReplyInv, HoldsRequest, qpVars
  <1>7. CASE SendResponse
    <2>1. /\ pc = "send" /\ pc' = "recv" /\ replies' = Append(replies, rpc.source_node_id)
          /\ UNCHANGED <<rpc, origins, cqQ, consumed>> /\ OrderInv
      BY <1>7 DEF SendResponse, rmc_hw_send, PostWq, cqVars, ReplyInv
    <2>2. /\ Taken = Len(replies) + 1 /\ Len(replies') = Len(replies) + 1
          /\ Taken' = Taken /\ Taken <= Len(origins)
      BY SMT, <1>a, <1>c, <2>1 DEF Taken, HoldsRequest, WTypeOK, OrderInv
    <2>3. OrderInv'
      <3>1. \A k \in Slots : (k \in UnreadCq' <=> k \in UnreadCq) /\ cqQ'[k] = cqQ[k]
        BY <2>1 DEF UnreadCq
      <3> QED BY <1>a, <2>1, <2>2, <3>1, OrderQuiet
    <2>4. rpc.source_node_id % NidMod = origins[Taken] % NidMod
      BY <2>1 DEF OrderInv
    <2>5. RepliesInOrder'
      <3>1. \A i \in 1 .. Len(replies) : replies'[i] = replies[i]
        BY SMT, <1>a, <2>1 DEF WTypeOK
      <3>2. replies'[Taken] = rpc.source_node_id
        BY SMT, <1>a, <2>1, <2>2 DEF WTypeOK
      <3> QED BY SMT, <1>c, <2>1, <2>2, <2>4, <3>1, <3>2 DEF ReplyInv, RepliesInOrder
    <2> QED BY <2>3, <2>5 DEF ReplyInv
  <1>8. CASE ReturnBuffer
    <2>1. UNCHANGED <<ck, cqQ, consumed>>
      BY <1>8 DEF ReturnBuffer, do_Recv_zsim, rmc_hw_recv, PostWq, cqVars, qpVars
    <2> QED BY <1>2, <1>8, <2>1 DEF ReturnBuffer, ReplyInv, HoldsRequest
  <1>9. ASSUME UNCHANGED <<ck, cqQ, replies, origins, consumed, rpc, pc>> PROVE ReplyInv'
    <2>1. CASE pc = "done"
      BY <1>9, <1>d, <2>1 DEF ReplyInv
    <2>2. CASE pc # "done"
      BY <1>2, <1>9, <2>2 DEF ReplyInv, HoldsRequest
    <2> QED BY <2>1, <2>2
  <1>10. CASE NicTake
    BY <1>9, <1>10 DEF NicTake, NicFetch, cqVars, wVars
  <1>11. ASSUME NEW i \in Slots, NicFinish(i) PROVE ReplyInv'
    BY <1>9, <1>11 DEF NicFinish, NicComplete, cqVars
  <1>12. ASSUME NEW tid \in SourceNids, NEW buf \in RecvBufs, NicRequest(tid, buf)
         PROVE  ReplyInv'
    <2>1. /\ origins' = Append(origins, tid) /\ UNCHANGED <<pc, ck, rpc, replies>>
          /\ NicDeliver(SUCCESS_SEND, tid, buf)
      BY <1>12 DEF NicRequest, NicDeliver
    <2>2. /\ nicCqHead \in Slots /\ ~InCq(nicCqHead)
          /\ \A k \in Slots : k # nicCqHead => cqQ'[k] = cqQ[k]
          /\ cqQ'[nicCqHead].tid = tid /\ cqQ'[nicCqHead].num = delivered
          /\ \A k \in Slots : k = nicCqHead => InCq(k)'
      BY SMTT(20), <1>a, <2>1, DeliverEffect DEF InCq
    <2>3. \A k \in Slots : k \in UnreadCq' <=> k \in UnreadCq \/ k = nicCqHead
      BY <1>b, <2>2 DEF InCq
    <2>4. Taken' = Taken /\ (HoldsRequest => Taken >= 1)
      BY SMT, <1>c, <2>1 DEF Taken, HoldsRequest
    <2>5. pc # "done" => OrderInv'
      BY <1>a, <2>1, <2>2, <2>3, <2>4, OrderDeliver DEF ReplyInv
    <2>6. RepliesInOrder'
      <3>1. Len(origins') = Len(origins) + 1 /\ \A n \in 1 .. Len(origins) : origins'[n] = origins[n]
        BY SMT, <1>a, <2>1 DEF WTypeOK
      <3> QED BY SMT, <1>c, <2>1, <3>1 DEF ReplyInv, RepliesInOrder
    <2> QED BY <2>1, <2>5, <2>6 DEF ReplyInv
  <1>13. ASSUME NEW tid \in SourceNids, NicOther(tid) PROVE ReplyInv'
    <2>1. PICK s \in {SUCCESS_RESP, SUCCESS_OTHER} : NicDeliver(s, tid, NoAddr)
      BY <1>13 DEF NicOther
    <2>2. \A k \in Slots : (InCq(k)' <=> InCq(k)) /\ (InCq(k) => cqQ'[k] = cqQ[k])
      BY SMT, <1>a, <2>1, DeliverEffect DEF InCq, SUCCESS_SEND, SUCCESS_RESP, SUCCESS_OTHER
    <2>3. UNCHANGED <<ck, replies, origins, rpc, pc>>
      BY <1>13, <2>1 DEF NicOther, NicDeliver, wVars
    <2>4. Taken' = Taken
      BY <2>3 DEF Taken, HoldsRequest
    <2>5. pc # "done" => OrderInv'
      <3> SUFFICES ASSUME pc # "done" PROVE OrderInv'
        OBVIOUS
      <3>1. /\ pc' \in {"polled", "received"} /\ ck'.op = RMC_INCOMING_SEND => ck'.tid = origins[Taken]
            /\ pc' \in {"write", "send"} => rpc'.source_node_id % NidMod = origins[Taken] % NidMod
        BY <2>3 DEF OrderInv, ReplyInv
      <3> QED BY <1>a, <1>b, <2>2, <2>3, <2>4, <3>1, OrderQuiet DEF ReplyInv
    <2> QED BY <1>d, <2>3, <2>5 DEF ReplyInv
  <1>14. CASE ClientsDone
    BY <1>9, <1>14 DEF ClientsDone, qpVars
  <1>15. CASE UNCHANGED vars
    BY <1>9, <1>15 DEF vars, qpVars, wVars
  <1> QED
    BY <1>1, <1>3, <1>4, <1>5, <1>6, <1>7, <1>8, <1>10, <1>11, <1>12, <1>13, <1>14, <1>15
    DEF Next, Worker, Nic

LEMMA ReplyStart == Init => ReplyInv
  <1> SUFFICES ASSUME Init PROVE ReplyInv
    OBVIOUS
  <1>1. UnreadCq = {} /\ ~HoldsRequest /\ replies = << >> /\ origins = << >> /\ Taken = 0
    BY SMTT(20) DEF Init, QPInit, UnreadCq, HoldsRequest, Taken
  <1>2. PICK pos : pos = [k \in Slots |-> 0]
    OBVIOUS
  <1>3. pos \in [Slots -> 0 .. Len(origins)] /\ UnreadInOrder(pos)
    BY SMT, <1>1, <1>2 DEF UnreadInOrder
  <1> QED
    BY SMT, <1>1, <1>3 DEF Init, ReplyInv, OrderInv, RepliesInOrder

\* For every size of the queues and every mix of completions, the i-th response
\* run_worker posts goes to the node of the i-th request: rmc_check_cq takes the
\* requests in the order of their delivery, and one is answered before the next
\* is taken.
THEOREM RepliesFollowRequests == Spec => []RepliesInOrder
  <1>1. ReplyInv => RepliesInOrder
    BY DEF ReplyInv
  <1> QED
    BY <1>1, ReplyStart, ReplyStep, PathInvariant, PTL DEF Spec

-----------------------------------------------------------------------------
(***************************************************************************)
(* No receive buffer is lost, if the NIC completes the work entries in     *)
(* order and there are no more buffers than half the work queue.           *)
(***************************************************************************)
\* Half the work queue and one more place hold some buffer twice.
FewBuffers ==
  \A f \in [0 .. MAX_NUM_WQ \div 2 -> RecvBufs] :
    \E i, j \in 0 .. MAX_NUM_WQ \div 2 : i # j /\ f[i] = f[j]

\* The slot that was written a entries ago.
SlotAgo(a) == IF a <= wqHead THEN wqHead - a ELSE wqHead - a + MAX_NUM_WQ

LEMMA SlotAgoIs ==
  ASSUME WTypeOK, NEW a \in 1 .. MAX_NUM_WQ
  PROVE  SlotAgo(a) \in Slots /\ Ago(SlotAgo(a), wqHead) = a
  <1>1. wqHead \in 0 .. MAX_NUM_WQ - 1
    BY DEF WTypeOK, QPTypeOK, Slots
  <1> QED BY SMT, <1>1, RingAssumption DEF SlotAgo, Ago, Slots

\* When run_worker posts the RECV of a response the work queue is not full: a
\* full one would hold a RECV in every second entry.
LEMMA NotFull ==
  ASSUME PathInv, InOrderInv, PairInv, FewBuffers, pc = "recv" PROVE ~WqFull
  <1> SUFFICES ASSUME WqFull PROVE FALSE
    OBVIOUS
  <1>a. WTypeOK /\ ControlInv /\ QPInv /\ OwnInv /\ posted \in Nat /\ wqHead \in Slots
    BY DEF PathInv, WTypeOK, QPTypeOK
  <1> DEFINE m == MAX_NUM_WQ \div 2
  <1>1. m \in Nat /\ 2 * m <= MAX_NUM_WQ
    BY SMT, RingAssumption
  <1>2. \A k \in Slots : wqQ[k].valid = 1
    <2>1. wqQ[wqHead].valid = 1
      BY <1>a DEF WqFull, WTypeOK, QPTypeOK, WQEntry
    <2>2. ASSUME NEW k \in Slots, k # wqHead PROVE Ago(k, wqHead) < Ago(wqHead, wqHead)
      BY SMT, <1>a, <2>2, AgoStep, AgoInjective, RingAssumption
    <2> QED BY <1>a, <2>1, <2>2 DEF InOrderInv
  <1>3. ASSUME NEW i \in 1 .. m
        PROVE  SlotAgo(2 * i) \in Slots /\ InWq(SlotAgo(2 * i)) /\ wqQ[SlotAgo(2 * i)].num = posted - 2 * i
    <2>1. 2 * i \in 1 .. MAX_NUM_WQ
      BY SMT, <1>1, RingAssumption
    <2> DEFINE k == SlotAgo(2 * i)
    <2>2. k \in Slots /\ Ago(k, wqHead) = 2 * i
      BY <1>a, <2>1, SlotAgoIs
    <2> HIDE DEF k
    <2>3. wqQ[k].num = posted - 2 * i /\ 2 * i <= posted
      BY <1>a, <1>2, <2>1, <2>2 DEF QPInv, WqInv
    <2>4. (posted - 2 * i) % 2 # 0
      BY SMT, <1>a, <2>1, <2>3 DEF PairInv
    <2>5. InWq(k)
      BY <1>2, <2>2, <2>3, <2>4 DEF PairInv, InWq
    <2> QED BY <2>2, <2>3, <2>5 DEF k
  <1> DEFINE f == [i \in 0 .. m |-> IF i = 0 THEN rpc.payload ELSE wqQ[SlotAgo(2 * i)].buf_addr]
  <1>4. f \in [0 .. m -> RecvBufs]
    <2>1. rpc.payload \in RecvBufs
      BY <1>a DEF ControlInv
    <2>2. \A i \in 1 .. m : wqQ[SlotAgo(2 * i)].buf_addr \in RecvBufs
      BY <1>a, <1>3 DEF ControlInv, InWq
    <2> HIDE DEF m
    <2>3. \A i \in 0 .. m : i = 0 \/ i \in 1 .. m
      BY SMT, <1>1
    <2> QED BY <2>1, <2>2, <2>3
  <1>5. PICK i \in 0 .. m, j \in 0 .. m : i # j /\ f[i] = f[j]
    BY <1>4 DEF FewBuffers
  <1> HIDE DEF m
  <1>6. ASSUME NEW k \in 1 .. m PROVE f[k] # rpc.payload
    <2>1. Held(rpc.payload) /\ f[k] = wqQ[SlotAgo(2 * k)].buf_addr
      BY SMT, <1>1 DEF Held
    <2> QED BY <1>a, <1>3, <2>1 DEF OwnInv
  <1>7. f[0] = rpc.payload
    BY SMT, <1>1
  <1> HIDE DEF f
  <1>8. i \in 1 .. m /\ j \in 1 .. m
    <2>1. \A k \in 0 .. m : k = 0 \/ k \in 1 .. m
      BY SMT, <1>1
    <2>2. i # 0 /\ j # 0
      BY <1>5, <1>6, <1>7, <2>1, Zenon
    <2> QED BY <2>1, <2>2
  <1>9. wqQ[SlotAgo(2 * i)].buf_addr = wqQ[SlotAgo(2 * j)].buf_addr
    BY SMT, <1>1, <1>5, <1>8 DEF f
  <1>10. SlotAgo(2 * i) = SlotAgo(2 * j)
    BY <1>a, <1>3, <1>8, <1>9 DEF OwnInv
  <1>11. posted - 2 * i = posted - 2 * j
    BY <1>3, <1>8, <1>10
  <1> QED BY SMT, <1>a, <1>1, <1>5, <1>8, <1>11

LEMMA InOrderStep ==
  ASSUME PathInv, InOrderInv, ~OutOfOrder, [QPNext]_qpVars PROVE InOrderInv'
  <1>a. WTypeOK /\ QPInv /\ QPTypeOK /\ wqHead \in Slots
    BY DEF PathInv, WTypeOK, QPTypeOK
  <1>1. ASSUME UNCHANGED <<wqQ, wqHead>> PROVE InOrderInv'
    BY <1>1 DEF InOrderInv
  <1>2. ASSUME NEW o, NEW buf, NEW nid, PostWq(o, buf, nid) PROVE InOrderInv'
    <2>1. /\ wqQ'[wqHead].valid = 1 /\ wqHead' = NextIdx(wqHead)
          /\ \A k \in Slots : k # wqHead => wqQ'[k] = wqQ[k]
      BY <1>2, <1>a, PostEffect DEF PostWq
    <2>2. ASSUME NEW n \in Slots
          PROVE  /\ Ago(n, wqHead) \in Nat /\ Ago(n, wqHead') \in Nat \ {0}
                 /\ n # wqHead => Ago(n, wqHead') = Ago(n, wqHead) + 1
                 /\ n = wqHead => Ago(n, wqHead') = 1
      BY SMT, <1>a, <2>1, AgoStep, RingAssumption
    <2> SUFFICES ASSUME NEW j \in Slots, NEW k \in Slots, wqQ'[j].valid = 1,
                        Ago(k, wqHead') < Ago(j, wqHead')
                 PROVE  wqQ'[k].valid = 1
      BY DEF InOrderInv
    <2>3. CASE k = wqHead
      BY <2>1, <2>3
    <2>4. CASE k # wqHead
      <3>1. j # wqHead
        <4>1. Ago(k, wqHead') \in Nat \ {0} /\ (j = wqHead => Ago(j, wqHead') = 1)
          BY <2>2
        <4> QED BY SMT, <4>1
      <3>2. wqQ[j].valid = 1
        BY <2>1, <3>1
      <3>3. Ago(k, wqHead) < Ago(j, wqHead)
        <4>1. /\ Ago(k, wqHead') = Ago(k, wqHead) + 1 /\ Ago(j, wqHead') = Ago(j, wqHead) + 1
              /\ Ago(k, wqHead) \in Nat /\ Ago(j, wqHead) \in Nat
          BY <2>2, <2>4, <3>1
        <4> QED BY SMT, <4>1
      <3> QED BY <2>1, <2>4, <3>2, <3>3 DEF InOrderInv
    <2> QED BY <2>3, <2>4
  <1>3. ASSUME NEW i \in Slots, NicComplete(i) PROVE InOrderInv'
    <2>1. /\ wqHead' = wqHead /\ wqQ'[i].valid = 0 /\ \A k \in Slots : k # i => wqQ'[k] = wqQ[k]
      BY <1>3, <1>a, FinishEffect
    <2> SUFFICES ASSUME NEW j \in Slots, wqQ[j].valid = 1, j # i, Ago(i, wqHead) < Ago(j, wqHead)
                 PROVE  FALSE
      BY SMT, <2>1 DEF InOrderInv
    <2>2. /\ Ago(i, wqHead) \in Nat /\ Ago(j, wqHead) \in Nat
          /\ posted \in Nat /\ fetched \in Nat
      BY SMT, <1>a, AgoStep, RingAssumption DEF QPTypeOK
    <2>3. i \in inflight /\ wqQ[i].valid = 1 /\ posted < Ago(i, wqHead) + fetched
      BY <1>3, <1>a DEF NicComplete, QPInv, WqInv
    <2>4. j \in inflight
      <3>1. posted < Ago(j, wqHead) + fetched
        BY SMT, <2>2, <2>3
      <3> QED BY <1>a, <3>1 DEF QPInv, WqInv
    <2>5. wqQ[i].num = posted - Ago(i, wqHead) /\ wqQ[j].num = posted - Ago(j, wqHead)
      BY <1>a, <2>3 DEF QPInv, WqInv
    <2>6. wqQ[i].num <= wqQ[j].num
      BY <1>3, <2>4 DEF NicComplete
    <2> QED BY SMT, <2>2, <2>5, <2>6
  <1>4. CASE rmc_check_cq
    BY <1>1, <1>4 DEF rmc_check_cq, CheckCqCall, CheckCqReadHead, CheckCqPop, CheckCqEmpty, wqVars
  <1>5. CASE NicFetch
    BY <1>1, <1>5 DEF NicFetch, wqVars
  <1>6. ASSUME NEW s, NEW tid, NEW buf, NicDeliver(s, tid, buf) PROVE InOrderInv'
    BY <1>1, <1>6 DEF NicDeliver, wqVars
  <1>7. CASE UNCHANGED qpVars
    BY <1>1, <1>7 DEF qpVars
  <1> QED
    BY <1>2, <1>3, <1>4, <1>5, <1>6, <1>7 DEF QPNext, AppStep, NicStep, rmc_hw_send, rmc_hw_recv

\* A response posts its SEND at an even position and its RECV at the next one.
LEMMA PairStep ==
  ASSUME PathInv, PairInv, pc = "recv" => ~WqFull, [Next]_vars PROVE PairInv'
  <1>a. WTypeOK /\ posted \in Nat
    BY DEF PathInv, WTypeOK, QPTypeOK
  <1>1. ASSUME posted' = posted, pc = "recv" <=> pc' = "recv",
               \A k \in Slots : wqQ'[k].valid = 1 =>
                 wqQ[k].valid = 1 /\ wqQ'[k].num = wqQ[k].num /\ wqQ'[k].op = wqQ[k].op
        PROVE  PairInv'
    BY <1>1 DEF PairInv
  <1>2. ASSUME NEW o, NEW buf, NEW nid, PostWq(o, buf, nid),
               \/ o = RMC_SEND /\ pc # "recv" /\ pc' = "recv"
               \/ o = RMC_RECV /\ pc = "recv" /\ pc' # "recv"
        PROVE  PairInv'
    <2>1. /\ \A k \in Slots : k # wqHead => wqQ'[k] = wqQ[k]
          /\ wqQ'[wqHead].op = o /\ wqQ'[wqHead].num = posted /\ posted' = posted + 1
      BY <1>2, <1>a, PostEffect
    <2>2. /\ posted % 2 = 0 => (posted + 1) % 2 = 1
          /\ posted % 2 = 1 => (posted + 1) % 2 = 0
      BY SMT, <1>a
    <2> QED BY SMT, <1>2, <2>1, <2>2 DEF PairInv
  <1>3. CASE Poll
    BY <1>1, <1>3 DEF Poll, rmc_check_cq, CheckCqCall, CheckCqReadHead, CheckCqPop,
                      CheckCqEmpty, wqVars
  <1>4. CASE PollAgain \/ StopWhenDone \/ WriteResponse
    BY <1>1, <1>4 DEF PollAgain, StopWhenDone, WriteResponse, qpVars
  <1>5. CASE TakeRequest
    <2>1. pc = "received" /\ pc' # "recv" /\ UNCHANGED qpVars
      BY <1>5 DEF TakeRequest
    <2> QED BY <1>1, <2>1 DEF qpVars
  <1>6. CASE SendResponse
    BY <1>2, <1>6 DEF SendResponse, rmc_hw_send
  <1>7. CASE ReturnBuffer
    BY <1>2, <1>7 DEF ReturnBuffer, do_Recv_zsim, rmc_hw_recv
  <1>8. CASE NicTake \/ ClientsDone
    BY <1>1, <1>8 DEF NicTake, NicFetch, ClientsDone, wqVars, wVars, qpVars
  <1>9. ASSUME NEW i \in Slots, NicFinish(i) PROVE PairInv'
    BY SMT, <1>1, <1>9, <1>a, FinishEffect DEF NicFinish
  <1>10. ASSUME NEW tid \in SourceNids, NEW buf \in RecvBufs, NicRequest(tid, buf)
         PROVE  PairInv'
    BY <1>1, <1>10 DEF NicRequest, NicDeliver, wqVars
  <1>11. ASSUME NEW tid \in SourceNids, NicOther(tid) PROVE PairInv'
    BY <1>1, <1>11 DEF NicOther, NicDeliver, wqVars, wVars
  <1>12. CASE UNCHANGED vars
    BY <1>1, <1>12 DEF vars, qpVars, wVars
  <1> QED
    BY <1>3, <1>4, <1>5, <1>6, <1>7, <1>8, <1>9, <1>10, <1>11, <1>12 DEF Next, Worker, Nic

\* A buffer that has an owner has one after the step.
LEMMA OwnedStep ==
  ASSUME PathInv, pc = "recv" => ~WqFull, [Next]_vars, pc' # "done", NEW b, Owned(b)
  PROVE  Owned(b)'
  <1>a. WTypeOK /\ ControlInv /\ QPInv
    BY DEF PathInv
  <1>1. ASSUME UNCHANGED <<cqQ, wqQ, rbufFree>>, Held(b) => Held(b)' PROVE Owned(b)'
    BY <1>1 DEF Owned, InCq, InWq
  <1>2. CASE Poll
    <2>1. UNCHANGED <<wqQ, rbufFree>> /\ ~Held(b) /\ rmc_check_cq
          /\ pc' = IF ck'.pc = "idle" THEN "polled" ELSE "poll"
      BY <1>2, <1>a, PollEffect DEF Poll, Held
    <2>2. \A k \in Slots : InCq(k) => \/ InCq(k)' /\ cqQ'[k] = cqQ[k]
                                      \/ /\ ck'.pc = "idle" /\ ck'.op = RMC_INCOMING_SEND
                                         /\ ck'.buf = cqQ[k].recv_buf_addr
      BY <1>a, <2>1, PollEffect
    <2> QED BY <2>1, <2>2 DEF Owned, InWq, Held
  <1>3. CASE PollAgain \/ StopWhenDone \/ WriteResponse \/ ClientsDone
    BY <1>1, <1>3 DEF PollAgain, StopWhenDone, WriteResponse, ClientsDone, qpVars, Held
  <1>4. CASE TakeRequest
    <2>1. pc = "received" /\ rpc'.payload = ck.buf /\ pc' = "write" /\ UNCHANGED <<qpVars, rbufFree>>
      BY SMT, <1>4 DEF TakeRequest
    <2> QED BY <1>1, <2>1 DEF qpVars, Held
  <1>5. ASSUME NEW o, NEW buf, NEW nid, PostWq(o, buf, nid), rbufFree' = rbufFree,
               Held(b) => Held(b)' \/ (o = RMC_RECV /\ buf = b)
        PROVE  Owned(b)'
    <2>1. /\ wqHead \in Slots /\ wqQ[wqHead].valid = 0 /\ cqQ' = cqQ
          /\ \A k \in Slots : k # wqHead => wqQ'[k] = wqQ[k]
          /\ wqQ'[wqHead].op = o /\ wqQ'[wqHead].buf_addr = buf /\ wqQ'[wqHead].valid = 1
      BY <1>5, <1>a, PostEffect
    <2>2. \A k \in Slots : InWq(k) => InWq(k)' /\ wqQ'[k] = wqQ[k]
      BY SMT, <2>1 DEF InWq
    <2> QED BY <1>5, <2>1, <2>2 DEF Owned, InCq, InWq
  <1>6. CASE SendResponse
    <2>1. PostWq(RMC_SEND, net_buffer_vaddr, rpc.source_node_id) /\ ck' = ck
      BY <1>6 DEF SendResponse, rmc_hw_send, PostWq
    <2> QED BY <1>5, <1>6, <2>1 DEF SendResponse, Held
  <1>7. CASE ReturnBuffer
    BY <1>5, <1>7 DEF ReturnBuffer, do_Recv_zsim, rmc_hw_recv, Held
  <1>8. CASE NicTake
    BY <1>1, <1>8 DEF NicTake, NicFetch, wqVars, wVars, Held
  <1>9. ASSUME NEW i \in Slots, NicFinish(i) PROVE Owned(b)'
    <2>1. /\ UNCHANGED <<ck, cqQ, pc, rpc>> /\ \A k \in Slots : k # i => wqQ'[k] = wqQ[k]
          /\ rbufFree' = IF wqQ[i].op = RMC_RECV THEN rbufFree \cup {wqQ[i].buf_addr}
                         ELSE rbufFree
      BY <1>9, <1>a, FinishEffect DEF NicFinish
    <2>2. Held(b) => Held(b)'
      BY <2>1 DEF Held
    <2> QED BY <2>1, <2>2 DEF Owned, InCq, InWq
  <1>10. ASSUME NEW s, NEW tid, NEW buf, NicDeliver(s, tid, buf), UNCHANGED <<pc, rpc>>,
                b \in rbufFree => b \in rbufFree' \/ (s = SUCCESS_SEND /\ buf = b)
         PROVE  Owned(b)'
    <2>1. /\ UNCHANGED <<ck, wqQ>> /\ nicCqHead \in Slots /\ cqQ[nicCqHead].valid = 0
          /\ \A k \in Slots : k # nicCqHead => cqQ'[k] = cqQ[k]
          /\ cqQ'[nicCqHead].valid = 1 /\ cqQ'[nicCqHead].success = s
          /\ cqQ'[nicCqHead].recv_buf_addr = buf
      BY <1>10, <1>a, DeliverEffect
    <2>2. Held(b) => Held(b)'
      BY <1>10, <2>1 DEF Held
    <2>3. \A k \in Slots : InCq(k) => InCq(k)' /\ cqQ'[k] = cqQ[k]
      BY SMT, <2>1 DEF InCq
    <2> QED BY <1>10, <2>1, <2>2, <2>3 DEF Owned, InCq, InWq
  <1>11. ASSUME NEW tid \in SourceNids, NEW buf \in RecvBufs, NicRequest(tid, buf)
         PROVE  Owned(b)'
    BY <1>10, <1>11 DEF NicRequest
  <1>12. ASSUME NEW tid \in SourceNids, NicOther(tid) PROVE Owned(b)'
    BY <1>10, <1>12 DEF NicOther, wVars
  <1>13. CASE UNCHANGED vars
    BY <1>1, <1>13 DEF vars, qpVars, wVars, Held
  <1> QED
    BY <1>2, <1>3, <1>4, <1>6, <1>7, <1>8, <1>9, <1>11, <1>12, <1>13 DEF Next, Worker, Nic

NoLossInv == InOrderInv /\ PairInv /\ (pc # "done" => \A b \in RecvBufs : Owned(b))

LEMMA NoLossStart == Init => NoLossInv
  <1> SUFFICES ASSUME Init PROVE NoLossInv
    OBVIOUS
  <1>1. InOrderInv /\ PairInv
    BY SMTT(20) DEF Init, QPInit, InOrderInv, PairInv
  <1>2. \A b \in RecvBufs : Owned(b)
    BY DEF Init, Owned
  <1> QED BY <1>1, <1>2 DEF NoLossInv

LEMMA NoLossStep ==
  ~OutOfOrder /\ FewBuffers /\ PathInv /\ NoLossInv /\ [Next]_vars => NoLossInv'
  <1> SUFFICES ASSUME ~OutOfOrder, FewBuffers, PathInv, NoLossInv, [Next]_vars PROVE NoLossInv'
    OBVIOUS
  <1>1. pc = "recv" => ~WqFull
    BY NotFull DEF NoLossInv
  <1>2. InOrderInv'
    BY WStepQP, InOrderStep DEF NoLossInv, PathInv
  <1>3. PairInv'
    BY <1>1, PairStep DEF NoLossInv
  <1>4. pc' # "done" => pc # "done"
    BY DEF Next, Worker, Nic, Poll, PollAgain, StopWhenDone, TakeRequest, WriteResponse,
           SendResponse, ReturnBuffer, NicTake, NicFinish, NicRequest, NicOther, ClientsDone,
           wVars, vars
  <1> QED BY <1>1, <1>2, <1>3, <1>4, OwnedStep DEF NoLossInv

=============================================================================
