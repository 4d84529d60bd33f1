---------------------------- MODULE L3fwdWorker ----------------------------
(***************************************************************************)
(* One worker thread of l3fwd (run_worker in worker.c, after the start     *)
(* barrier) on its own queue pair, with the RPC layer it calls             *)
(* (sendToNode_zsim, receiveRPCRequest_zsim_l3fwd and do_Recv_zsim of      *)
(* rpc.cpp).  The worker takes a request from the completion queue, writes *)
(* the response into its local buffer, posts a SEND of it and posts a RECV *)
(* that returns the request's receive buffer to the NIC.                   *)
(*                                                                         *)
(* The NIC is external: it owns the receive buffers, transmits what the    *)
(* local buffer holds when a SEND completes, and sets *client_done.        *)
(***************************************************************************)
EXTENDS RmcQueuePair, Sequences

CONSTANTS
  msgs_per_dest,     \* slots of the local buffer (MSGS_PER_PAIR, 256)
  msg_entry_size,    \* bytes of a slot (RPC_MAX_PAYLOAD, 512)
  NidMod,            \* 2^16: source_node_id is written through a uint16_t*
  StaleHigh,         \* values the unwritten upper half of source_node_id holds
  StalePayloadLens,  \* values the unwritten rpc.payload_len holds
  SourceNids         \* the tids the NIC puts into requests

\* The test value of rpc.payload_len, and the size of the element that
\* NIExposedBuffer::underlyingBuffer points to.
DeadLen == 57005
sizeof_uint32_t == 4

ASSUME LbufAssumption == /\ msgs_per_dest \in Nat \ {0}
                         /\ msg_entry_size \in Nat \ {0}
ASSUME NidAssumption ==
  /\ NidMod \in Nat \ {0}
  /\ StaleHigh \subseteq Nat /\ StaleHigh # {}
  /\ SourceNids \subseteq Nat /\ SourceNids \subseteq Nids
  /\ \A hi \in StaleHigh, tid \in Nids : hi * NidMod + (tid % NidMod) \in Nids
ASSUME StaleAssumption == StalePayloadLens \subseteq Nat /\ StalePayloadLens # {}

VARIABLES
  pc,           \* control point of run_worker
  rpc,          \* payload pointer and reply address of the current request
  nb_tx_tot,    \* responses sent
  lbuf,         \* content of the local buffer: which posting a slot is for
  client_done,  \* *client_done, set by the NIC
  rbufFree,     \* receive buffers the NIC may fill
  origins,      \* history: tids of the requests delivered, in order
  replies       \* history: nids of the responses posted, in order

wVars == <<pc, rpc, nb_tx_tot, lbuf, client_done, rbufFree, origins, replies>>
vars == <<qpVars, wVars>>

\* get_lbuf_size: what createRPCNUMAContext stores and the worker registers.
lbuf_size_bytes == msgs_per_dest * msg_entry_size

\* underlyingBuffer + byteOffset, in bytes from the start of the buffer.
getUnderlyingAddress(byteOffset) == sizeof_uint32_t * byteOffset

\* Mutant: the quotient in place of the remainder.
lbuf_offset_div(count) == (count \div msgs_per_dest) * msg_entry_size

lbuf_offset(count) == (count % msgs_per_dest) * msg_entry_size

net_buffer_vaddr == getUnderlyingAddress(lbuf_offset(nb_tx_tot))

LbufAddrs == {getUnderlyingAddress(i * msg_entry_size) : i \in 0 .. msgs_per_dest - 1}

\* MSGS_PER_PAIR = 256 > MAX_NUM_WQ = 128: more slots than work entries.
ASSUME DepthAssumption == MAX_NUM_WQ < msgs_per_dest
ASSUME SendAddrsAssumption == LbufAddrs \subseteq SendAddrs

-----------------------------------------------------------------------------
(***************************************************************************)
(* The worker.                                                             *)
(***************************************************************************)

\* receiveRPCRequest_zsim_l3fwd polls with rmc_check_cq ...
Poll ==
  /\ pc = "poll"
  /\ rmc_check_cq
  /\ pc' = IF ck'.pc = "idle" THEN "polled" ELSE "poll"
  /\ UNCHANGED <<rpc, nb_tx_tot, lbuf, client_done, rbufFree, origins, replies>>

\* Mutants: any completion ends the polling, and client_done is not tested.
PollAgainAnyOp ==
  /\ pc = "polled"
  /\ pc' = IF ck.op = RMC_INVAL /\ ~client_done THEN "poll" ELSE "received"
  /\ UNCHANGED <<qpVars, rpc, nb_tx_tot, lbuf, client_done, rbufFree, origins, replies>>

PollAgainForever ==
  /\ pc = "polled"
  /\ pc' = IF ck.op # RMC_INCOMING_SEND THEN "poll" ELSE "received"
  /\ UNCHANGED <<qpVars, rpc, nb_tx_tot, lbuf, client_done, rbufFree, origins, replies>>

\* ... until a request arrives or the clients are done.  A response entry
\* (RMC_INCOMING_RESP) is consumed and ignored.
PollAgain ==
  /\ pc = "polled"
  /\ pc' = IF ck.op # RMC_INCOMING_SEND /\ ~client_done THEN "poll" ELSE "received"
  /\ UNCHANGED <<qpVars, rpc, nb_tx_tot, lbuf, client_done, rbufFree, origins, replies>>

\* It reads *client_done again.  If set, it returns payload_len = 0xdead and
\* run_worker leaves its loop, even if a request was just consumed.
StopWhenDone ==
  /\ pc = "received" /\ client_done
  /\ pc' = "done"
  /\ UNCHANGED <<qpVars, rpc, nb_tx_tot, lbuf, client_done, rbufFree, origins, replies>>

\* Mutant: *source_node_id is not written.
TakeRequestNoSource ==
  /\ pc = "received" /\ ~client_done
  /\ \E len \in StalePayloadLens :
       /\ rpc' = [rpc EXCEPT !.payload = ck.buf]
       /\ pc' = IF len = DeadLen THEN "done" ELSE "write"
  /\ UNCHANGED <<qpVars, nb_tx_tot, lbuf, client_done, rbufFree, origins, replies>>

\* Otherwise it returns the request.  rpc.payload_len and the upper half of
\* source_node_id are left as they were on the stack, and run_worker compares
\* the former with 0xdead.
TakeRequest ==
  /\ pc = "received" /\ ~client_done
  /\ \E len \in StalePayloadLens, hi \in StaleHigh :
       /\ rpc' = [payload |-> ck.buf, source_node_id |-> hi * NidMod + (ck.tid % NidMod)]
       /\ pc' = IF len = DeadLen THEN "done" ELSE "write"
  /\ UNCHANGED <<qpVars, nb_tx_tot, lbuf, client_done, rbufFree, origins, replies>>

\* sendToNode_zsim writes the response into the slot of this send ...
WriteResponse ==
  /\ pc = "write"
  /\ lbuf' = [lbuf EXCEPT ![net_buffer_vaddr] = posted]
  /\ pc' = "send"
  /\ UNCHANGED <<qpVars, rpc, nb_tx_tot, client_done, rbufFree, origins, replies>>

\* ... and repeats rmc_hw_send until it returns 0.
SendResponse ==
  /\ pc = "send"
  /\ rmc_hw_send(net_buffer_vaddr, rpc.source_node_id)
  /\ replies' = Append(replies, rpc.source_node_id)
  /\ pc' = "recv"
  /\ UNCHANGED <<rpc, nb_tx_tot, lbuf, client_done, rbufFree, origins>>

\* Mutant: the receive buffer is not posted.
do_Recv_nothing == UNCHANGED qpVars

\* do_Recv_zsim does not look at the result of rmc_hw_recv: when the work
\* queue is full nothing is posted and the worker goes on.
do_Recv_zsim ==
  \/ rmc_hw_recv(rpc.payload)
  \/ WqFull /\ UNCHANGED qpVars

ReturnBuffer ==
  /\ pc = "recv"
  /\ do_Recv_zsim
  /\ nb_tx_tot' = nb_tx_tot + 1
  /\ pc' = "poll"
  /\ UNCHANGED <<rpc, lbuf, client_done, rbufFree, origins, replies>>

Worker == \/ Poll \/ PollAgain \/ StopWhenDone \/ TakeRequest
          \/ WriteResponse \/ SendResponse \/ ReturnBuffer

-----------------------------------------------------------------------------
(***************************************************************************)
(* The NIC (external).                                                     *)
(***************************************************************************)
NicTake == NicFetch /\ UNCHANGED wVars

\* Completing a RECV frees the receive buffer it names.
NicFinish(i) ==
  /\ NicComplete(i)
  /\ rbufFree' = IF wqQ[i].op = RMC_RECV THEN rbufFree \cup {wqQ[i].buf_addr}
                 ELSE rbufFree
  /\ UNCHANGED <<pc, rpc, nb_tx_tot, lbuf, client_done, origins, replies>>

\* A request from node tid arrives in a free receive buffer.
NicRequest(tid, buf) ==
  /\ ~client_done
  /\ buf \in rbufFree
  /\ NicDeliver(SUCCESS_SEND, tid, buf)
  /\ rbufFree' = rbufFree \ {buf}
  /\ origins' = Append(origins, tid)
  /\ UNCHANGED <<pc, rpc, nb_tx_tot, lbuf, client_done, replies>>

\* The other kinds of completion entry that rmc_check_cq tells apart.
NicOther(tid) ==
  /\ NicDeliver(SUCCESS_RESP, tid, NoAddr) \/ NicDeliver(SUCCESS_OTHER, tid, NoAddr)
  /\ UNCHANGED wVars

\* The flag monitor_client_done registered is set when the clients are done.
ClientsDone ==
  /\ ~client_done
  /\ client_done' = TRUE
  /\ UNCHANGED <<qpVars, pc, rpc, nb_tx_tot, lbuf, rbufFree, origins, replies>>

Nic == \/ NicTake
       \/ \E i \in Slots : NicFinish(i)
       \/ \E tid \in SourceNids, buf \in RecvBufs : NicRequest(tid, buf)
       \/ \E tid \in SourceNids : NicOther(tid)
       \/ ClientsDone

-----------------------------------------------------------------------------
Init ==
  /\ QPInit
  /\ pc = "poll"
  /\ rpc = [payload |-> NoAddr, source_node_id |-> 0]
  /\ nb_tx_tot = 0
  /\ lbuf = [a \in LbufAddrs |-> 0]
  /\ client_done = FALSE
  /\ rbufFree = RecvBufs
  /\ origins = << >> /\ replies = << >>

Next == Worker \/ Nic

Spec == Init /\ [][Next]_vars

\* The worker's core runs only this thread and nothing blocks it; the NIC
\* reads every work entry and completes every operation it has read.
Fairness == /\ WF_vars(Worker)
            /\ WF_vars(NicTake)
            /\ \A i \in Slots : WF_vars(NicFinish(i))

FairSpec == Spec /\ Fairness

-----------------------------------------------------------------------------
(***************************************************************************)
(* Properties.                                                             *)
(***************************************************************************)

\* Every variable of run_worker, and of the queue pair under it, keeps its
\* type; in particular the SEND addresses stay in the slots of the local
\* buffer that sendToNode_zsim computes.
WTypeOK ==
  /\ QPTypeOK
  /\ pc \in {"poll", "polled", "received", "write", "send", "recv", "done"}
  /\ rpc \in [payload : RecvBufs \cup {NoAddr}, source_node_id : Nids]
  /\ nb_tx_tot \in Nat
  /\ lbuf \in [LbufAddrs -> Nat]
  /\ client_done \in BOOLEAN
  /\ rbufFree \in SUBSET RecvBufs
  /\ origins \in Seq(SourceNids) /\ replies \in Seq(Nids)

\* sendToNode_zsim reuses a slot of the local buffer without looking at the
\* work queue.  Still, the slot of a SEND that has not completed holds the
\* response written for it: the NIC never transmits a later response instead.
ResponseIntact ==
  \A k \in Slots :
    wqQ[k].valid = 1 /\ wqQ[k].op = RMC_SEND => lbuf[wqQ[k].buf_addr] = wqQ[k].num

\* The i-th response run_worker posts goes, in the 16 bits that
\* receiveRPCRequest_zsim_l3fwd writes, to the node that sent the i-th
\* request, whatever completions come in between.
RepliesInOrder ==
  /\ Len(replies) <= Len(origins)
  /\ \A i \in 1 .. Len(replies) : replies[i] % NidMod = origins[i] % NidMod

\* The places a receive buffer can be in: free, in an unread completion entry,
\* in the worker's hands, or in a RECV that has not completed.
UnreadCq == {k \in Slots : cqQ[k].num >= consumed /\ cqQ[k].valid = 1
                             /\ cqQ[k].success = SUCCESS_SEND}
LiveRecv == {k \in Slots : wqQ[k].valid = 1 /\ wqQ[k].op = RMC_RECV}
HeldBuf == CASE pc \in {"polled", "received"} /\ ck.op = RMC_INCOMING_SEND -> {ck.buf}
             [] pc \in {"write", "send", "recv"} -> {rpc.payload}
             [] OTHER -> {}
Owners(b) == {<<"free", 0>> : x \in rbufFree \cap {b}}
             \cup {<<"cq", k>> : k \in {j \in UnreadCq : cqQ[j].recv_buf_addr = b}}
             \cup {<<"wq", k>> : k \in {j \in LiveRecv : wqQ[j].buf_addr = b}}
             \cup {<<"app", 0>> : x \in HeldBuf \cap {b}}

\* A receive buffer has at most one owner: the NIC never puts a request into a
\* buffer the worker still reads, and do_Recv_zsim never returns it twice.
BufferSingleOwner ==
  \A b \in RecvBufs : \A x, y \in Owners(b) : x = y

\* While the worker runs, no receive buffer is lost: the RECV that
\* do_Recv_zsim posts after every response gives it back to the NIC.
BuffersConserved ==
  pc # "done" => \A b \in RecvBufs : Owners(b) # {}

\* When the clients are done, run_worker leaves its loop, even if it is inside
\* rmc_check_cq, which does not look at *client_done, or waiting for a slot.
WorkerStops == client_done ~> pc = "done"

\* Every request the NIC delivers is answered, unless the worker stops: after
\* the last delivery run_worker catches up, through full queues and completions
\* in any order.
RequestsAnswered == []<>(Len(replies) = Len(origins) \/ pc = "done")

-----------------------------------------------------------------------------
(***************************************************************************)
(* The inductive invariant.  A slot of the local buffer is reused after    *)
(* msgs_per_dest responses, each of which posted at least one work entry;  *)
(* a work entry is live only among the last MAX_NUM_WQ posted.             *)
(***************************************************************************)
SlotAddr(i) == getUnderlyingAddress(i * msg_entry_size)

\* How many responses ago slot i was last used, if it was.
LbufAgo(i) == LET h == nb_tx_tot % msgs_per_dest
              IN  IF i < h THEN h - i ELSE h - i + msgs_per_dest

LbufInv ==
  /\ \A k \in Slots, i \in 0 .. msgs_per_dest - 1 :
       wqQ[k].valid = 1 /\ wqQ[k].op = RMC_SEND /\ wqQ[k].buf_addr = SlotAddr(i) =>
         /\ lbuf[SlotAddr(i)] = wqQ[k].num
         /\ pc # "recv" => LbufAgo(i) <= posted - wqQ[k].num
         /\ pc = "recv" => \/ LbufAgo(i) < posted - wqQ[k].num
                           \/ i = nb_tx_tot % msgs_per_dest /\ wqQ[k].num = posted - 1
  /\ pc = "send" => lbuf[net_buffer_vaddr] = posted

\* Where run_worker is determines what it holds.
ControlInv ==
  /\ pc # "poll" => ck.pc = "idle"
  /\ ck.pc # "idle" => ck.op # RMC_INCOMING_SEND
  /\ pc = "received" /\ ~client_done => ck.op = RMC_INCOMING_SEND
  /\ ck.op = RMC_INCOMING_SEND => ck.buf \in RecvBufs
  /\ pc \in {"write", "send", "recv"} => rpc.payload \in RecvBufs
  /\ \A k \in Slots : cqQ[k].success = SUCCESS_SEND => cqQ[k].recv_buf_addr \in RecvBufs
  /\ \A k \in Slots : wqQ[k].op = RMC_SEND => wqQ[k].buf_addr \in LbufAddrs
  /\ \A k \in Slots : wqQ[k].op = RMC_RECV => wqQ[k].buf_addr \in RecvBufs

\* The strengthening of ResponseIntact that every step of run_worker and of
\* the NIC preserves: a live SEND is younger than the reuse of its slot.
WInv == ControlInv /\ LbufInv

(***************************************************************************)
(* Which request a completion stands for.  The unread requests are, in the *)
(* order the NIC delivered them, the ones after those already taken.       *)
(***************************************************************************)
HoldsRequest == \/ pc \in {"polled", "received"} /\ ck.op = RMC_INCOMING_SEND
                \/ pc \in {"write", "send"}

Taken == Len(replies) + (IF HoldsRequest THEN 1 ELSE 0)

\* pos says which of the requests so far the entry of a slot is.
UnreadInOrder(pos) ==
  /\ \A k \in UnreadCq : Taken < pos[k] /\ cqQ[k].tid = origins[pos[k]]
  /\ \A j, k \in UnreadCq : cqQ[j].num < cqQ[k].num => pos[j] < pos[k]
  /\ \A n \in Taken + 1 .. Len(origins) : \E k \in UnreadCq : pos[k] = n

OrderInv ==
  /\ Taken <= Len(origins)
  /\ pc \in {"polled", "received"} /\ ck.op = RMC_INCOMING_SEND => ck.tid = origins[Taken]
  /\ pc \in {"write", "send"} => rpc.source_node_id % NidMod = origins[Taken] % NidMod
  /\ \E pos \in [Slots -> 0 .. Len(origins)] : UnreadInOrder(pos)

(***************************************************************************)
(* Where the buffers are if the work queue never overflows: every response *)
(* has posted a SEND and a RECV, and the entries in use are the last ones. *)
(***************************************************************************)
PairInv ==
  /\ posted % 2 = IF pc = "recv" THEN 1 ELSE 0
  /\ \A k \in Slots : wqQ[k].valid = 1 =>
       wqQ[k].op = IF wqQ[k].num % 2 = 0 THEN RMC_SEND ELSE RMC_RECV

InOrderInv ==
  \A j, k \in Slots : wqQ[j].valid = 1 /\ Ago(k, wqHead) < Ago(j, wqHead) => wqQ[k].valid = 1

=============================================================================
