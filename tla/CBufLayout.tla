----------------------------- MODULE CBufLayout -----------------------------
\* Which circular buffer belongs to which client thread and server thread
\* (rpcNUMAContext::getCBufIdx).
EXTENDS Integers

CONSTANTS numClients,        \* totalNodeCount - 1
          threadsPerClient,
          serverThreads

\* setupCircularBuffers: one buffer for every pair of a sender and a receiver.
numBuffers == numClients * threadsPerClient * serverThreads

bufsPerServThread == numClients * threadsPerClient

getCBufIdx(cl_nid, cl_tid, sr_thread) ==
  (sr_thread * bufsPerServThread) + ((cl_nid - 1) * numClients) + cl_tid

\* "Server thread N gets buffers w. ids: [ N*(bufsPerServThread),
\* (N+1)*bufsPerServThread - 1 ]" (getCBufIdx).
InServerRegion(idx, sr_thread) ==
  /\ sr_thread * bufsPerServThread <= idx
  /\ idx < (sr_thread + 1) * bufsPerServThread

=============================================================================
