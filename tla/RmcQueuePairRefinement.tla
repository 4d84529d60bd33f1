---------------------- MODULE RmcQueuePairRefinement ----------------------
(***************************************************************************)
(* The rings of the queue pair implement the two bounded FIFOs of          *)
(* FifoQueuePair.                                                          *)
(***************************************************************************)
EXTENDS RmcQueuePair, Sequences, FiniteSets

\* The slot that is n places after slot i.
After(i, n) == IF i + n < MAX_NUM_WQ THEN i + n ELSE i + n - MAX_NUM_WQ

RequestOf(e) == <<e.op, e.buf_addr, e.nid>>
CompletionOf(e) == <<e.success, e.tid, e.recv_buf_addr>>

\* The entries between reader and writer, in the order of their slots.
WqFifo == [n \in 1 .. posted - fetched |-> RequestOf(wqQ[After(nicWqTail, n - 1)])]
CqFifo == [n \in 1 .. delivered - consumed |-> CompletionOf(cqQ[After(cqTail, n - 1)])]

\* rmc_check_cq shows its caller the node and the buffer of a request or of a
\* response, and nothing of any other completion.
ShownByCheck(old, c) == IF c[1] = SUCCESS_OTHER THEN old ELSE <<c[2], c[3]>>

Fifo == INSTANCE FifoQueuePair WITH
          Capacity <- MAX_NUM_WQ,
          Requests <- ({RMC_SEND} \X SendAddrs \X Nids) \cup ({RMC_RECV} \X RecvBufs \X {0}),
          Completions <- {SUCCESS_SEND, SUCCESS_RESP, SUCCESS_OTHER} \X Nids
                           \X (RecvBufs \cup {NoAddr}),
          Shown <- ShownByCheck,
          wqFifo <- WqFifo,
          working <- Cardinality(inflight),
          cqFifo <- CqFifo,
          seen <- <<ck.tid, ck.buf>>

\* Every step of rmc_hw_send, rmc_hw_recv, rmc_check_cq and the NIC on the
\* rings is a step of the two bounded FIFOs or leaves them alone: nothing is
\* lost, duplicated, reordered or accepted beyond the capacity, and what
\* rmc_check_cq returns is the oldest completion.
ImplementsFifo == Fifo!FifoSpec

=============================================================================
