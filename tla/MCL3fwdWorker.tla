-------------------------- MODULE MCL3fwdWorker ---------------------------
(* Model-checking instances of the worker and its queue pair, and of the    *)
(* refinement of the latter.                                                *)
EXTENDS L3fwdWorker, RmcQueuePairRefinement

=============================================================================
