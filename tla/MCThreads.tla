---------------------------- MODULE MCThreads ------------------------------
(* Model-checking instances of the code that synchronises threads: the      *)
(* read-write lock, one of the mutual-exclusion locks, and the start        *)
(* barrier of l3fwd, each by itself.                                        *)
EXTENDS RteRwlock, RteMutex, L3fwdStartup

VARIABLE part  \* which of them is used; never changes

AllLocks == [type : {"spin", "ticket"}, rec : BOOLEAN]

allVars == <<part, vars, mutexVars, startupVars>>

SyncInit ==
  /\ part \in {"rwlock", "mutex", "startup"}
  /\ Init /\ MutexInit /\ StartupInit
  /\ part # "mutex" => lk = CHOOSE l \in Locks : TRUE

\* A process of l3fwd may stop for good, the threads that use a lock may not.
SyncNext ==
  \/ part = "rwlock" /\ Next /\ UNCHANGED <<part, mutexVars, startupVars>>
  \/ part = "mutex" /\ MutexNext /\ UNCHANGED <<part, vars, startupVars>>
  \/ part = "startup" /\ StartupNext /\ UNCHANGED <<part, vars, mutexVars>>
  \/ part = "startup" /\ UNCHANGED allVars

\* The fairness of FairSpec, of MutexFairness and of StartupFairness.
SyncFairSpec ==
  /\ SyncInit /\ [][SyncNext]_allVars
  /\ \A t \in Threads : WF_vars(part = "rwlock" /\ Step(t))
  /\ <>[][\A t \in Threads : ~SpuriousStep(t)]_vars
  /\ \A t \in Lockers : WF_mutexVars(part = "mutex" /\ MutexStep(t))
  /\ WF_startupVars(part = "startup" /\ Main)
  /\ \A w \in Workers : WF_startupVars(part = "startup" /\ Worker(w))
  /\ WF_startupVars(part = "startup" /\ ClientsFinish)

=============================================================================
