--------------------------- MODULE L3fwdStartup ---------------------------
(***************************************************************************)
(* The threads of l3fwd: main (main.c) creates the RPC context, the start  *)
(* barrier and the workers, joins them and frees the barrier; every worker *)
(* (run_worker in worker.c) registers its local buffer and its queue pair, *)
(* waits at the barrier, serves until the clients are done, and returns.   *)
(* What a worker does while it serves is the subject of L3fwdWorker.       *)
(***************************************************************************)
EXTENDS Naturals, FiniteSets

CONSTANTS MaxThreads,  \* bound on the options num-threads and qps-to-create
          UIntMod,     \* 2^32: num_threads and the qp numbers are unsigned int
          MayFail      \* may pthread_create and the allocations fail?

ASSUME StartAssumption == /\ MaxThreads \in Nat /\ UIntMod \in Nat
                          /\ MaxThreads < UIntMod
                          /\ MayFail \in BOOLEAN

VARIABLES num_threads, qps,  \* the options
          main,              \* control point of main
          i,                 \* its loop variable
          numQps,            \* size of ctx->qps and ctx->app_buffers
          ctx,               \* what the context has: "pgas", its memory;
                             \*   "ctx_entry", the sizes of the messages and
                             \*   their number; "send_ctrl"
          barrierCount,      \* threads the barrier waits for
          arrived,           \* workers that have reached the barrier
          freed,             \* has the barrier been freed?
          worker,            \* control point of every worker
          lbufs, regQps,     \* workers whose buffer / queue pair is registered
          clientsDone        \* have the clients finished?

mainVars == <<main, i, numQps, ctx, barrierCount, freed>>
workerVars == <<worker, arrived, lbufs, regQps>>
startupVars == <<num_threads, qps, mainVars, workerVars, clientsDone>>

Workers == 0 .. MaxThreads - 1

\* "none": not created yet; "failed": pthread_create returned an error.
Created == {w \in Workers : worker[w] \notin {"none", "failed"}}
Running == main \notin {"exit0", "exit1", "crashed"}

-----------------------------------------------------------------------------
(***************************************************************************)
(* main                                                                    *)
(***************************************************************************)

\* getopt_long: num-threads and qps-to-create may be given any value; an option
\* that main does not know ends it with assert(false).
ParseOptions ==
  /\ main = "parse"
  /\ num_threads' \in 0 .. MaxThreads /\ qps' \in 0 .. MaxThreads
  /\ main' \in {"options", "crashed"}
  /\ UNCHANGED <<i, numQps, ctx, barrierCount, freed, workerVars, clientsDone>>

\* assert( qps >= num_threads )
CheckOptions ==
  /\ main = "options"
  /\ main' = IF qps >= num_threads THEN "context" ELSE "crashed"
  /\ UNCHANGED <<num_threads, qps, i, numQps, ctx, barrierCount, freed, workerVars, clientsDone>>

\* The allocation may fail; the function returns 0 all the same.
kal_reg_ctx == {{"pgas"}} \cup (IF MayFail THEN {{}} ELSE {})

\* The sizes are stored first; if the allocation fails it returns -1, which
\* its caller ignores.  The message size is a multiple of a cache block.
kal_reg_send_recv_bufs == {{"ctx_entry", "send_ctrl"}}
                            \cup (IF MayFail THEN {{"ctx_entry"}} ELSE {})

\* createRPCNUMAContext with qp_start = 0 and qp_end = num_threads - 1, in
\* unsigned arithmetic.
CreateContext ==
  /\ main = "context"
  /\ \E c \in kal_reg_ctx, b \in kal_reg_send_recv_bufs : ctx' = c \cup b
  /\ numQps' = (((num_threads + UIntMod - 1) % UIntMod) + 1) % UIntMod
  /\ main' = "barrier"
  /\ UNCHANGED <<num_threads, qps, i, barrierCount, freed, workerVars, clientsDone>>

\* Mutant: the barrier waits for main as well.
InitBarrierWithMain ==
  /\ main = "barrier"
  /\ main' = "launch"
  /\ barrierCount' = num_threads + 1
  /\ UNCHANGED <<num_threads, qps, i, numQps, ctx, freed, workerVars, clientsDone>>

\* pthread_barrier_init fails for a count of 0; it, the mutex and the two
\* allocations may fail for other reasons.
InitBarrier ==
  /\ main = "barrier"
  /\ \/ /\ num_threads > 0
        /\ barrierCount' = num_threads
        /\ main' = "launch"
     \/ /\ num_threads = 0 \/ MayFail
        /\ barrierCount' = barrierCount
        /\ main' = "exit1"
  /\ UNCHANGED <<num_threads, qps, i, numQps, ctx, freed, workerVars, clientsDone>>

\* pthread_create; an error is only printed.
Launch ==
  /\ main = "launch" /\ i < num_threads
  /\ \E result \in {"start"} \cup (IF MayFail THEN {"failed"} ELSE {}) :
       worker' = [worker EXCEPT ![i] = result]
  /\ i' = i + 1
  /\ UNCHANGED <<num_threads, qps, main, numQps, ctx, barrierCount, freed, arrived, lbufs, regQps,
                 clientsDone>>

LaunchedAll ==
  /\ main = "launch" /\ i = num_threads
  /\ main' = "join" /\ i' = 0
  /\ UNCHANGED <<num_threads, qps, numQps, ctx, barrierCount, freed, workerVars, clientsDone>>

\* Mutant: the workers are not joined.
JoinNobody ==
  /\ main = "join" /\ i < num_threads
  /\ i' = i + 1
  /\ UNCHANGED <<num_threads, qps, main, numQps, ctx, barrierCount, freed, workerVars, clientsDone>>

\* pthread_join returns when the worker has.  For a worker that was not
\* created thread_arr[i] is uninitialised: the call returns or crashes.
Join ==
  /\ main = "join" /\ i < num_threads
  /\ \/ worker[i] = "returned" /\ i' = i + 1 /\ UNCHANGED main
     \/ worker[i] = "failed" /\ i' = i + 1 /\ UNCHANGED main
     \/ worker[i] = "failed" /\ main' = "crashed" /\ UNCHANGED i
  /\ UNCHANGED <<num_threads, qps, numQps, ctx, barrierCount, freed, workerVars, clientsDone>>

FreeAndReturn ==
  /\ main = "join" /\ i = num_threads
  /\ freed' = TRUE
  /\ main' = "exit0"
  /\ UNCHANGED <<num_threads, qps, i, numQps, ctx, barrierCount, workerVars, clientsDone>>

Main == \/ ParseOptions \/ CheckOptions \/ CreateContext \/ InitBarrier
        \/ Launch \/ LaunchedAll \/ Join \/ FreeAndReturn

-----------------------------------------------------------------------------
(***************************************************************************)
(* run_worker                                                              *)
(***************************************************************************)

\* registerNewLocalBuffer: ctx->app_buffers.at(tidx) would throw outside the
\* vector; ServeAfterAllRegistered says that tidx never is.
RegisterBuffer(w) ==
  /\ worker[w] = "start"
  /\ lbufs' = lbufs \cup {w}
  /\ worker' = [worker EXCEPT ![w] = "buffer"]
  /\ UNCHANGED <<num_threads, qps, mainVars, arrived, regQps, clientsDone>>

\* registerNewSONUMAQP: ctx->qps.at(tidx).
RegisterQP(w) ==
  /\ worker[w] = "buffer"
  /\ regQps' = regQps \cup {w}
  /\ worker' = [worker EXCEPT ![w] = "registered"]
  /\ UNCHANGED <<num_threads, qps, mainVars, arrived, lbufs, clientsDone>>

\* Mutant: the queue pair is registered after the barrier.
ArriveEarly(w) ==
  /\ worker[w] = "buffer"
  /\ arrived' = arrived \cup {w}
  /\ worker' = [worker EXCEPT ![w] = "waiting"]
  /\ UNCHANGED <<num_threads, qps, mainVars, lbufs, regQps, clientsDone>>

\* pthread_barrier_wait
Arrive(w) ==
  /\ worker[w] = "registered"
  /\ arrived' = arrived \cup {w}
  /\ worker' = [worker EXCEPT ![w] = "waiting"]
  /\ UNCHANGED <<num_threads, qps, mainVars, lbufs, regQps, clientsDone>>

Leave(w) ==
  /\ worker[w] = "waiting" /\ Cardinality(arrived) >= barrierCount
  /\ worker' = [worker EXCEPT ![w] = "serving"]
  /\ UNCHANGED <<num_threads, qps, mainVars, arrived, lbufs, regQps, clientsDone>>

\* The loop ends once *client_done is set; notify_done_to_zsim; return NULL.
Return(w) ==
  /\ worker[w] = "serving" /\ clientsDone
  /\ worker' = [worker EXCEPT ![w] = "returned"]
  /\ UNCHANGED <<num_threads, qps, mainVars, arrived, lbufs, regQps, clientsDone>>

Worker(w) == /\ Running
             /\ \/ RegisterBuffer(w) \/ RegisterQP(w) \/ Arrive(w) \/ Leave(w) \/ Return(w)

\* The clients finish (external).
ClientsFinish ==
  /\ Running /\ ~clientsDone /\ \E w \in Workers : worker[w] = "serving"
  /\ clientsDone' = TRUE
  /\ UNCHANGED <<num_threads, qps, mainVars, workerVars>>

-----------------------------------------------------------------------------
StartupInit ==
  /\ num_threads = 0 /\ qps = 0
  /\ main = "parse" /\ i = 0 /\ numQps = 0 /\ ctx = {} /\ barrierCount = 0 /\ freed = FALSE
  /\ worker = [w \in Workers |-> "none"]
  /\ arrived = {} /\ lbufs = {} /\ regQps = {}
  /\ clientsDone = FALSE

StartupNext ==
  \/ Main
  \/ \E w \in Workers : Worker(w)
  \/ ClientsFinish

StartupSpec == StartupInit /\ [][StartupNext]_startupVars

\* The operating system runs every thread; the clients finish.
StartupFairness ==
  /\ WF_startupVars(Main)
  /\ \A w \in Workers : WF_startupVars(Worker(w))
  /\ WF_startupVars(ClientsFinish)

-----------------------------------------------------------------------------
\* What the start barrier is for: no worker serves before every worker that
\* was asked for has registered its buffer and its queue pair, in a place that
\* createRPCNUMAContext has made; so if pthread_create has failed for one of
\* them, an error that main ignores, nobody ever serves.  The number of messages
\* by which a worker wraps its buffer is set, although createRPCNUMAContext does
\* not look at what kal_reg_send_recv_bufs returns.
ServeAfterAllRegistered ==
  (\E w \in Workers : worker[w] \in {"serving", "returned"}) =>
    /\ "ctx_entry" \in ctx
    /\ \A v \in 0 .. num_threads - 1 : v < numQps /\ v \in lbufs /\ v \in regQps

\* main frees the barrier only when no worker can still be inside
\* pthread_barrier_wait.
BarrierFreedLast ==
  freed => \A w \in Created : worker[w] = "returned"

\* Unless a worker could not be created, the process ends once main has parsed
\* the options: with 0 after all workers returned, with 1 or on an assertion
\* without having started any.
ProcessEnds ==
  main # "parse" ~> (~Running \/ \E w \in Workers : worker[w] = "failed")

=============================================================================
