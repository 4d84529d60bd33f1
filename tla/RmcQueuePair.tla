--------------------------- MODULE RmcQueuePair ---------------------------
(***************************************************************************)
(* The queue pair of libzsim (zsim_nic_defines.cpp): a work queue (WQ) the *)
(* application fills and the NIC drains, and a completion queue (CQ) the   *)
(* NIC fills and the application drains.  Both are rings of MAX_NUM_WQ     *)
(* entries.  No index is shared: each side keeps its own index and its own *)
(* sense bit (SR), and recognises a new entry by comparing the entry's SR  *)
(* with the bit it expects in the current lap.                             *)
(*                                                                         *)
(* The application side is translated from the source.  The NIC side is    *)
(* external (the zsim simulator): it is modelled from what the application *)
(* side relies on.                                                         *)
(***************************************************************************)
EXTENDS Naturals

CONSTANTS
  MAX_NUM_WQ,     \* entries of a ring (128 in the code)
  SendAddrs,      \* addresses a SEND may read from
  RecvBufs,       \* receive buffers the NIC owns
  Nids,           \* node identifiers
  NoAddr,         \* content of an address field that was never written
  OutOfOrder,     \* may the NIC complete work entries out of order?
  MaxPosts,       \* bound on the work entries posted in one behaviour
  MaxDeliveries   \* bound on the completion entries written

ASSUME RingAssumption == MAX_NUM_WQ \in Nat \ {0}
ASSUME BoundAssumption == MaxPosts \in Nat /\ MaxDeliveries \in Nat
ASSUME AddrAssumption == NoAddr \notin SendAddrs \cup RecvBufs
ASSUME OrderAssumption == OutOfOrder \in BOOLEAN
ASSUME NidsAssumption == 0 \in Nids

VARIABLES
  wqQ, wqHead, wqSR,          \* rmc_wq_t, written by the application
  cqQ, cqTail, cqSR,          \* rmc_cq_t, tail and SR of the application
  nicWqTail, nicWqSR,         \* the NIC's position in the WQ
  nicCqHead, nicCqSR,         \* the NIC's position in the CQ
  inflight,                   \* WQ slots fetched but not yet completed
  ck,                         \* activation record of rmc_check_cq
  posted, fetched,            \* history: WQ entries written / fetched
  delivered, consumed         \* history: CQ entries written / consumed

wqVars == <<wqQ, wqHead, wqSR, posted>>
cqVars == <<cqTail, cqSR, consumed>>
nicVars == <<nicWqTail, nicWqSR, nicCqHead, nicCqSR, inflight, fetched, delivered>>
qpVars == <<wqQ, wqHead, wqSR, cqQ, cqTail, cqSR, nicWqTail, nicWqSR,
            nicCqHead, nicCqSR, inflight, ck, posted, fetched, delivered,
            consumed>>

Slots == 0 .. MAX_NUM_WQ - 1

\* Operation codes (zsim_nic_defines.hpp).
RMC_RECV == 5
RMC_SEND == 16
RMC_INCOMING_SEND == 18
RMC_INCOMING_RESP == 20
RMC_INVAL == 42
\* Values of cq_entry_t.success; every other value means "a work entry ended".
SUCCESS_SEND == 127
SUCCESS_RESP == 1
SUCCESS_OTHER == 2

\* num is a history field: the position of the entry among all entries ever
\* written to its ring.
WQEntry == [op : {0, RMC_SEND, RMC_RECV}, SR : {0, 1}, valid : {0, 1},
            buf_addr : SendAddrs \cup RecvBufs \cup {NoAddr}, nid : Nids,
            num : Nat]
CQEntry == [SR : {0, 1}, valid : {0, 1},
            success : {SUCCESS_SEND, SUCCESS_RESP, SUCCESS_OTHER}, tid : Nids,
            recv_buf_addr : RecvBufs \cup {NoAddr}, num : Nat]

\* The step "index + 1, and at the end of the ring back to 0 with SR ^= 1".
NextIdx(i) == IF i + 1 >= MAX_NUM_WQ THEN 0 ELSE i + 1
NextSR(i, sr) == IF i + 1 >= MAX_NUM_WQ THEN 1 - sr ELSE sr

-----------------------------------------------------------------------------
(***************************************************************************)
(* The application side.                                                   *)
(***************************************************************************)

\* Mutant: the test of the valid bit is missing.
WqNeverFull == FALSE

\* rmc_hw_send and rmc_hw_recv return -1, and change nothing, in this state.
WqFull == wqQ[wqHead].valid # 0

\* Mutant: the entry gets the sense bit of the first lap in every lap.
create_wq_entry_lap1(op, buf, nid) ==
  [op |-> op, SR |-> 1, valid |-> 1, buf_addr |-> buf, nid |-> nid,
   num |-> posted]

create_wq_entry(op, buf, nid) ==
  [op |-> op, SR |-> wqSR, valid |-> 1, buf_addr |-> buf, nid |-> nid,
   num |-> posted]

PostWq(op, buf, nid) ==
  /\ posted < MaxPosts
  /\ ~WqFull
  /\ wqQ' = [wqQ EXCEPT ![wqHead] = create_wq_entry(op, buf, nid)]
  /\ wqHead' = NextIdx(wqHead)
  /\ wqSR' = NextSR(wqHead, wqSR)
  /\ posted' = posted + 1
  /\ UNCHANGED <<cqQ, cqVars, nicVars, ck>>

rmc_hw_send(buf, nid) == PostWq(RMC_SEND, buf, nid)

\* "node id and ctx offset don't care": the code passes node 0.
rmc_hw_recv(buf) == PostWq(RMC_RECV, buf, 0)

\* rmc_check_cq is a loop over two shared locations, so it is split at its
\* reads: pc "head" is the read of wq->q[wq->head], pc "cq" the test of the
\* CQ entry at the tail.  When it is "idle", op, tid and buf hold the value
\* the last call returned.
CheckCqCall ==
  /\ ck.pc = "idle"
  /\ ck' = [ck EXCEPT !.pc = "head", !.op = RMC_INVAL]
  /\ UNCHANGED <<wqVars, cqQ, cqVars, nicVars>>

CheckCqReadHead ==
  /\ ck.pc = "head"
  /\ ck' = [ck EXCEPT !.pc = "cq", !.raw_valid = wqQ[wqHead].valid]
  /\ UNCHANGED <<wqVars, cqQ, cqVars, nicVars>>

CqReady == cqQ[cqTail].SR = cqSR

\* What consuming entry e does to the activation record.  A request or a
\* response ends the call; any other completion only resets ret.op (no
\* function of the library posts RMC_SABRE, the one operation for which more
\* happens) and the loop goes on.
Returned(e) ==
  CASE e.success = SUCCESS_SEND ->
         [ck EXCEPT !.pc = "idle", !.op = RMC_INCOMING_SEND,
                    !.tid = e.tid, !.buf = e.recv_buf_addr]
    [] e.success = SUCCESS_RESP ->
         [ck EXCEPT !.pc = "idle", !.op = RMC_INCOMING_RESP,
                    !.tid = e.tid, !.buf = e.recv_buf_addr]
    [] OTHER -> [ck EXCEPT !.op = 0]

\* Mutant: the sense bit is not flipped at the end of the ring.
CheckCqPopNoFlip ==
  /\ ck.pc = "cq" /\ CqReady
  /\ ck' = Returned(cqQ[cqTail])
  /\ cqQ' = [cqQ EXCEPT ![cqTail].valid = 0]
  /\ cqTail' = NextIdx(cqTail)
  /\ consumed' = consumed + 1
  /\ UNCHANGED <<cqSR, wqVars, nicVars>>

\* The inner loop body: consume the entry at the tail.
CheckCqPop ==
  /\ ck.pc = "cq" /\ CqReady
  /\ ck' = Returned(cqQ[cqTail])
  /\ cqQ' = [cqQ EXCEPT ![cqTail].valid = 0]
  /\ cqTail' = NextIdx(cqTail)
  /\ cqSR' = NextSR(cqTail, cqSR)
  /\ consumed' = consumed + 1
  /\ UNCHANGED <<wqVars, nicVars>>

\* The CQ is empty: the outer loop repeats while the WQ entry it read is still
\* in use, and returns otherwise.
CheckCqEmpty ==
  /\ ck.pc = "cq" /\ ~CqReady
  /\ ck' = [ck EXCEPT !.pc = IF ck.raw_valid # 0 THEN "head" ELSE "idle"]
  /\ UNCHANGED <<wqVars, cqQ, cqVars, nicVars>>

rmc_check_cq == CheckCqCall \/ CheckCqReadHead \/ CheckCqPop \/ CheckCqEmpty

-----------------------------------------------------------------------------
(***************************************************************************)
(* The NIC side (external).                                                *)
(***************************************************************************)
WqReady == wqQ[nicWqTail].SR = nicWqSR

\* The NIC takes the next work entry once its SR shows that it is new.
NicFetch ==
  /\ WqReady
  /\ inflight' = inflight \cup {nicWqTail}
  /\ nicWqTail' = NextIdx(nicWqTail)
  /\ nicWqSR' = NextSR(nicWqTail, nicWqSR)
  /\ fetched' = fetched + 1
  /\ UNCHANGED <<wqVars, cqQ, cqVars, ck, nicCqHead, nicCqSR, delivered>>

\* It clears valid when the operation is complete, which lets the application
\* reuse the slot.
NicComplete(i) ==
  /\ i \in inflight
  /\ OutOfOrder \/ \A j \in inflight : wqQ[i].num <= wqQ[j].num
  /\ wqQ' = [wqQ EXCEPT ![i].valid = 0]
  /\ inflight' = inflight \ {i}
  /\ UNCHANGED <<wqHead, wqSR, posted, cqQ, cqVars, ck, nicWqTail, nicWqSR,
                 nicCqHead, nicCqSR, fetched, delivered>>

\* It writes a completion entry only over one the application has released.
NicDeliver(success, tid, buf) ==
  /\ delivered < MaxDeliveries
  /\ cqQ[nicCqHead].valid = 0
  /\ cqQ' = [cqQ EXCEPT ![nicCqHead] =
               [SR |-> nicCqSR, valid |-> 1, success |-> success, tid |-> tid,
                recv_buf_addr |-> buf, num |-> delivered]]
  /\ nicCqHead' = NextIdx(nicCqHead)
  /\ nicCqSR' = NextSR(nicCqHead, nicCqSR)
  /\ delivered' = delivered + 1
  /\ UNCHANGED <<wqVars, cqVars, ck, nicWqTail, nicWqSR, inflight, fetched>>

-----------------------------------------------------------------------------
\* The rings as the NIC hands them over (registerNewSONUMAQP).
QPInit ==
  /\ wqQ = [i \in Slots |-> [op |-> 0, SR |-> 0, valid |-> 0,
                             buf_addr |-> NoAddr, nid |-> 0, num |-> 0]]
  /\ cqQ = [i \in Slots |-> [SR |-> 0, valid |-> 0, success |-> SUCCESS_OTHER,
                             tid |-> 0, recv_buf_addr |-> NoAddr, num |-> 0]]
  /\ ck = [pc |-> "idle", raw_valid |-> 0, op |-> RMC_INVAL, tid |-> 0,
           buf |-> NoAddr]
  /\ wqHead = 0 /\ wqSR = 1 /\ nicWqTail = 0 /\ nicWqSR = 1
  /\ cqTail = 0 /\ cqSR = 1 /\ nicCqHead = 0 /\ nicCqSR = 1
  /\ inflight = {}
  /\ posted = 0 /\ fetched = 0 /\ delivered = 0 /\ consumed = 0

\* The thread that owns the queue pair runs one library call at a time.
AppStep ==
  \/ ck.pc = "idle" /\ \E buf \in SendAddrs, nid \in Nids : rmc_hw_send(buf, nid)
  \/ ck.pc = "idle" /\ \E buf \in RecvBufs : rmc_hw_recv(buf)
  \/ rmc_check_cq

NicStep ==
  \/ NicFetch
  \/ \E i \in Slots : NicComplete(i)
  \/ \E tid \in Nids :
       \/ \E buf \in RecvBufs : NicDeliver(SUCCESS_SEND, tid, buf)
       \/ NicDeliver(SUCCESS_RESP, tid, NoAddr)
       \/ NicDeliver(SUCCESS_OTHER, tid, NoAddr)

QPNext == AppStep \/ NicStep

QPSpec == QPInit /\ [][QPNext]_qpVars

-----------------------------------------------------------------------------
(***************************************************************************)
(* Properties.                                                             *)
(***************************************************************************)

\* Every queue-pair variable keeps the type of its field in rmc_wq_t,
\* rmc_cq_t and successStruct.
QPTypeOK ==
  /\ wqQ \in [Slots -> WQEntry] /\ cqQ \in [Slots -> CQEntry]
  /\ wqHead \in Slots /\ nicWqTail \in Slots
  /\ cqTail \in Slots /\ nicCqHead \in Slots
  /\ wqSR \in {0, 1} /\ nicWqSR \in {0, 1}
  /\ cqSR \in {0, 1} /\ nicCqSR \in {0, 1}
  /\ inflight \in SUBSET Slots
  /\ ck \in [pc : {"idle", "head", "cq"}, raw_valid : {0, 1},
             op : {0, RMC_INCOMING_SEND, RMC_INCOMING_RESP, RMC_INVAL},
             tid : Nids, buf : RecvBufs \cup {NoAddr}]
  /\ posted \in Nat /\ fetched \in Nat /\ delivered \in Nat /\ consumed \in Nat

\* The NIC's sense-bit test on the WQ (wq->SR against the SR that
\* create_wq_entry stored) is exact across laps: it succeeds exactly while an
\* entry posted by rmc_hw_send or rmc_hw_recv is still unread, and the entry
\* it finds is the oldest such one.
WqSenseExact ==
  /\ WqReady <=> fetched < posted
  /\ WqReady => wqQ[nicWqTail].num = fetched

\* The application's sense-bit test in rmc_check_cq (tail_SR == cq->SR) is
\* exact across laps: it succeeds exactly while a delivered completion is
\* still unread, and the entry it finds is the oldest such one.  No completion
\* is lost, read twice or overtaken.
CqSenseExact ==
  /\ CqReady <=> consumed < delivered
  /\ CqReady => cqQ[cqTail].num = consumed

\* The valid bit protects a work entry until it completes: an entry that is
\* still valid is one of the last MAX_NUM_WQ entries posted, and a slot the
\* NIC is working on is valid and already fetched.
LiveEntriesRecent ==
  /\ \A k \in Slots : wqQ[k].valid = 1 =>
       /\ wqQ[k].num < posted
       /\ posted <= wqQ[k].num + MAX_NUM_WQ
  /\ \A k \in inflight : wqQ[k].valid = 1 /\ wqQ[k].num < fetched

-----------------------------------------------------------------------------
(***************************************************************************)
(* The inductive invariant.  How long ago slot k was last written follows  *)
(* from the writer's index alone, so the slot's sense bit, its history     *)
(* number and, for the entries the reader has not reached, its valid bit   *)
(* are determined; the reader is in the same lap as the writer or one      *)
(* behind, and its sense bit says which.                                   *)
(***************************************************************************)
Ago(k, head) == IF k < head THEN head - k ELSE head - k + MAX_NUM_WQ

\* Reader at tail with sense bit tsr, writer at head with sense bit hsr.
LapInv(tail, tsr, head, hsr, nread, nwritten) ==
  \/ tsr = hsr /\ tail <= head /\ nwritten = nread + (head - tail)
  \/ tsr # hsr /\ head <= tail /\ nwritten = nread + (head + MAX_NUM_WQ - tail)

WqInv ==
  /\ LapInv(nicWqTail, nicWqSR, wqHead, wqSR, fetched, posted)
  /\ \A k \in Slots :
       /\ wqQ[k].SR = IF k < wqHead THEN wqSR ELSE 1 - wqSR
       /\ Ago(k, wqHead) <= posted => wqQ[k].num = posted - Ago(k, wqHead)
       /\ wqQ[k].valid = 1 => Ago(k, wqHead) <= posted
       /\ Ago(k, wqHead) + fetched <= posted => wqQ[k].valid = 1
       /\ k \in inflight <=> /\ wqQ[k].valid = 1
                             /\ posted < Ago(k, wqHead) + fetched

CqInv ==
  /\ LapInv(cqTail, cqSR, nicCqHead, nicCqSR, consumed, delivered)
  /\ \A k \in Slots :
       /\ cqQ[k].SR = IF k < nicCqHead THEN nicCqSR ELSE 1 - nicCqSR
       /\ Ago(k, nicCqHead) <= delivered =>
            cqQ[k].num = delivered - Ago(k, nicCqHead)
       /\ Ago(k, nicCqHead) + consumed <= delivered <=> cqQ[k].valid = 1

\* The strengthening of WqSenseExact and CqSenseExact that every step of the
\* application and of the NIC preserves: sense bits, valid bits and lap
\* positions of both rings are consistent.
QPInv == WqInv /\ CqInv

=============================================================================
