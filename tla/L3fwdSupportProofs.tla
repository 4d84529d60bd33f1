------------------------- MODULE L3fwdSupportProofs -------------------------
(***************************************************************************)
(* What the server stands on.  The start barrier does its work, and is     *)
(* freed last, for every number of workers, whichever of them could not be *)
(* created; a message that is packed is unpacked as it was; and rings are  *)
(* created in memory that holds them, and their list keeps up with them.   *)
(***************************************************************************)
EXTENDS L3fwdStartup, RpcCodec, RteRingCreate,
        FiniteSetTheorems, FunctionTheorems, SequenceTheorems, TLAPS

\* Zenon does every leaf that names no other prover.
USE Zenon

-----------------------------------------------------------------------------
(***************************************************************************)
(* The start barrier.                                                      *)
(***************************************************************************)
Asked == 0 .. num_threads - 1

Places == {"none", "failed", "start", "buffer", "registered", "waiting", "serving",
           "returned"}

StartTypeOK ==
  /\ num_threads \in 0 .. MaxThreads /\ i \in 0 .. num_threads
  /\ numQps \in Nat /\ barrierCount \in Nat
  /\ main \in {"parse", "options", "context", "barrier", "launch", "join", "exit0",
               "exit1", "crashed"}
  /\ freed \in BOOLEAN
  /\ worker \in [Workers -> Places]
  /\ arrived \subseteq Workers /\ lbufs \subseteq Workers /\ regQps \subseteq Workers

\* What is ready at each control point of main.
MainReady ==
  /\ main = "parse" => i = 0 /\ arrived = {}
  /\ main \in {"parse", "options", "context", "barrier", "exit1"} =>
       \A w \in Workers : worker[w] = "none"
  /\ main = "barrier" => numQps = num_threads /\ "ctx_entry" \in ctx
  /\ main = "launch" => \A w \in Workers : worker[w] # "none" => w < i
  /\ main = "join" => \A w \in 0 .. i - 1 : worker[w] \in {"returned", "failed"}
  /\ main = "exit0" => \A w \in Asked : worker[w] \in {"returned", "failed"}
  /\ freed => main = "exit0"

\* A worker that was created was asked for, and the context and the barrier
\* were made for as many as were.
ReadyFor(w) ==
  worker[w] # "none" => /\ w \in Asked
                        /\ numQps = num_threads /\ barrierCount = num_threads
                        /\ "ctx_entry" \in ctx

LaunchReady ==
  main \in {"launch", "join"} => /\ numQps = num_threads /\ barrierCount = num_threads
                                 /\ "ctx_entry" \in ctx

\* A worker passes its registrations before the barrier.
Registered(w) ==
  /\ worker[w] \in {"buffer", "registered", "waiting", "serving", "returned"} => w \in lbufs
  /\ worker[w] \in {"registered", "waiting", "serving", "returned"} => w \in regQps

Passed == \E w \in Workers : worker[w] \in {"serving", "returned"}

\* The barrier lets workers pass once all have arrived.
BarrierInv ==
  /\ arrived \subseteq lbufs \cap regQps \cap Asked
  /\ Passed => Asked \subseteq arrived

StartInv ==
  /\ StartTypeOK /\ MainReady /\ LaunchReady /\ BarrierInv
  /\ \A w \in Workers : ReadyFor(w) /\ Registered(w)

-----------------------------------------------------------------------------
\* The number of queue pairs comes out of unsigned arithmetic that wraps twice.
LEMMA NumQpsExact ==
  ASSUME NEW n \in 0 .. MaxThreads
  PROVE  (((n + UIntMod - 1) % UIntMod) + 1) % UIntMod = n
  <1> DEFINE U == UIntMod
  <1>1. U \in Nat \ {0} /\ n \in 0 .. U - 1
    BY SMT, StartAssumption
  <1> HIDE DEF U
  <1>2. CASE n = 0
    <2>1. (U - 1) % U = U - 1 /\ U % U = 0
      BY <1>1, SMT
    <2> QED
      BY SMT, <1>1, <1>2, <2>1 DEF U
  <1>3. CASE n > 0
    <2>1. (n + U - 1) % U = n - 1 /\ n % U = n
      BY <1>1, <1>3, SMT
    <2> QED
      BY SMT, <1>1, <1>3, <2>1 DEF U
  <1> QED
    BY SMT, <1>1, <1>2, <1>3

\* At first there is no worker and nobody is at the barrier (main.c).
LEMMA StartInit == StartupInit => StartInv
  <1> SUFFICES ASSUME StartupInit PROVE StartInv
    OBVIOUS
  <1>1. \A w \in Workers : worker[w] = "none"
    BY DEF StartupInit
  <1>2. StartTypeOK
    <2>1. worker \in [Workers -> Places] /\ freed \in BOOLEAN
      BY Zenon DEF StartupInit, Places
    <2>2. /\ num_threads \in 0 .. MaxThreads /\ i \in 0 .. num_threads
          /\ numQps \in Nat /\ barrierCount \in Nat
      BY SMT, StartAssumption DEF StartupInit
    <2> QED
      BY <2>1, <2>2 DEF StartupInit, StartTypeOK
  <1>3. MainReady /\ LaunchReady /\ BarrierInv
    BY <1>1 DEF StartupInit, MainReady, LaunchReady, BarrierInv, Passed
  <1>4. \A w \in Workers : ReadyFor(w) /\ Registered(w)
    BY <1>1 DEF ReadyFor, Registered
  <1> QED
    BY <1>2, <1>3, <1>4 DEF StartInv

\* The steps of main keep the invariant.
LEMMA StartMain == StartInv /\ Main => StartInv'
  <1> SUFFICES ASSUME StartInv, Main PROVE StartInv'
    OBVIOUS
  <1> USE StartAssumption DEF StartInv, StartTypeOK, MainReady, LaunchReady, BarrierInv,
       ReadyFor, Registered, Passed, Asked, Workers, workerVars
  <1>0. CASE ParseOptions
    <2>1. /\ main = "parse" /\ main' \in {"options", "crashed"}
          /\ num_threads' \in 0 .. MaxThreads
          /\ UNCHANGED <<i, numQps, ctx, barrierCount, freed, worker, arrived, lbufs, regQps>>
      BY <1>0 DEF ParseOptions
    <2>2. \A w \in Workers : worker'[w] = "none"
      BY <2>1
    <2>3. i = 0 /\ arrived = {} /\ freed = FALSE
      BY <2>1
    <2>4. i' \in 0 .. num_threads'
      BY SMT, <2>1, <2>3
    <2> QED
      BY <2>1, <2>2, <2>3, <2>4
  <1>1. CASE CheckOptions
    BY <1>1 DEF CheckOptions
  <1>2. CASE CreateContext
    <2>1. numQps' = num_threads
      BY <1>2, NumQpsExact DEF CreateContext
    <2>2. "ctx_entry" \in ctx'
      BY <1>2 DEF CreateContext, kal_reg_send_recv_bufs
    <2> QED
      BY SMT, <1>2, <2>1, <2>2 DEF CreateContext
  <1>3. CASE InitBarrier
    BY <1>3 DEF InitBarrier
  <1>4. CASE Launch
    <2>1. PICK result \in {"start", "failed"} : worker' = [worker EXCEPT ![i] = result]
      BY <1>4, Zenon DEF Launch
    <2>2. i \in Workers /\ i \in Asked /\ worker[i] = "none" /\ i' = i + 1
      BY SMT, <1>4 DEF Launch
    <2>3. worker' \in [Workers -> Places]
      BY <2>1, <2>2 DEF Places
    <2>4. Passed' => Passed
      BY <2>1, <2>2
    <2>5. \A w \in Workers : w # i => worker'[w] = worker[w]
      BY <2>1
    <2>6. worker'[i] \in {"start", "failed"}
      BY <2>1, <2>2
    <2> QED
      BY SMTT(20), <1>4, <2>2, <2>3, <2>4, <2>5, <2>6 DEF Launch
  <1>5. CASE LaunchedAll
    BY SMT, <1>5 DEF LaunchedAll
  <1>6. CASE Join
    BY SMT, <1>6 DEF Join
  <1>7. CASE FreeAndReturn
    BY <1>7 DEF FreeAndReturn
  <1> QED
    BY <1>0, <1>1, <1>2, <1>3, <1>4, <1>5, <1>6, <1>7 DEF Main

\* A barrier for as many as were asked for, where only those arrive.
LEMMA BarrierFull ==
  ASSUME StartInv, barrierCount = num_threads, Cardinality(arrived) >= barrierCount
  PROVE  Asked \subseteq arrived
  <1>1. num_threads \in Nat /\ arrived \subseteq Asked
    BY StartAssumption DEF StartInv, StartTypeOK, BarrierInv
  <1>2. IsFiniteSet(Asked) /\ Cardinality(Asked) = num_threads
    <2>1. num_threads - 1 \in Int /\ 0 \in Int
      BY SMT, <1>1
    <2>2. /\ IsFiniteSet(0 .. num_threads - 1)
          /\ Cardinality(0 .. num_threads - 1)
               = IF 0 > num_threads - 1 THEN 0 ELSE (num_threads - 1) - 0 + 1
      BY <2>1, FS_Interval, Zenon
    <2> QED
      BY SMT, <1>1, <2>2 DEF Asked
  <1>3. Cardinality(arrived) <= Cardinality(Asked) /\ Cardinality(arrived) \in Nat
    BY <1>1, <1>2, FS_Subset, FS_CardinalityType
  <1>4. Cardinality(arrived) = Cardinality(Asked)
    BY SMT, <1>1, <1>2, <1>3
  <1> QED
    BY <1>1, <1>2, <1>4, FS_Subset

\* The steps of run_worker keep the invariant.
LEMMA StartWorker == ASSUME NEW w \in Workers, StartInv, Worker(w) PROVE StartInv'
  <1> USE StartAssumption DEF StartInv, StartTypeOK, MainReady, LaunchReady, BarrierInv,
       ReadyFor, Registered, Passed, Asked, Workers, mainVars
  <1>1. CASE RegisterBuffer(w)
    BY SMT, <1>1 DEF RegisterBuffer, Places
  <1>2. CASE RegisterQP(w)
    BY SMT, <1>2 DEF RegisterQP, Places
  <1>3. CASE Arrive(w)
    BY SMT, <1>3 DEF Arrive, Places
  <1>4. CASE Leave(w)
    <2>1. Asked \subseteq arrived
      BY <1>4, BarrierFull DEF Leave
    <2> QED
      BY SMT, <1>4, <2>1 DEF Leave, Places
  <1>5. CASE Return(w)
    BY SMT, <1>5 DEF Return, Places
  <1> QED
    BY <1>1, <1>2, <1>3, <1>4, <1>5, Zenon DEF Worker

\* So does every step.
LEMMA StartStep == StartInv /\ [StartupNext]_startupVars => StartInv'
  <1> SUFFICES ASSUME StartInv, [StartupNext]_startupVars PROVE StartInv'
    OBVIOUS
  <1>1. CASE ClientsFinish \/ UNCHANGED startupVars
    <2>1. UNCHANGED <<num_threads, main, i, numQps, ctx, barrierCount, freed, worker, arrived,
                      lbufs, regQps>>
      BY <1>1 DEF ClientsFinish, startupVars, mainVars, workerVars
    <2> QED
      BY <2>1 DEF StartInv, StartTypeOK, MainReady, LaunchReady, BarrierInv, ReadyFor,
         Registered, Passed, Asked
  <1> QED
    BY <1>1, StartMain, StartWorker DEF StartupNext

\* The invariant of main, the workers and the barrier between them holds throughout.
THEOREM StartInvariant == StartupSpec => []StartInv
  BY StartInit, StartStep, PTL DEF StartupSpec

\* For every number of threads that was asked for, no worker serves before all
\* of them have registered, in a context that has room for them, whichever
\* allocations and calls of pthread_create failed on the way
\* (pthread_barrier_wait in run_worker).
THEOREM ServingIsSafe == StartupSpec => []ServeAfterAllRegistered
  <1>1. StartInv => ServeAfterAllRegistered
    BY SMT DEF StartInv, BarrierInv, Passed, Asked, ReadyFor, ServeAfterAllRegistered, StartTypeOK
  <1> QED
    BY <1>1, StartInvariant, PTL

\* For every number of threads, main frees the barrier after every worker that
\* was created has returned from it (the joins of main).
THEOREM BarrierIsFreedLast == StartupSpec => []BarrierFreedLast
  <1>1. StartInv => BarrierFreedLast
    BY DEF StartInv, MainReady, ReadyFor, Asked, BarrierFreedLast, Created
  <1> QED
    BY <1>1, StartInvariant, PTL

-----------------------------------------------------------------------------
(***************************************************************************)
(* The codec of messages.                                                  *)
(***************************************************************************)

LEMMA HeaderIs16 == calcTotalHeaderBytes = 16 /\ AlignmentReq = 8
  BY SMT DEF calcTotalHeaderBytes, AlignmentReq

\* packPayload aligns the address and unpackBufferToRPCLayer the size of the
\* header: they mean the same place only in a buffer that is itself aligned.
THEOREM PayloadWhereExpected ==
  \A b \in Nat : PayloadAt(b) = b + calcTotalHeaderBytes <=> b % AlignmentReq = 0
  BY SMT, HeaderIs16 DEF PayloadAt

\* A message as createRPCStruct makes it.
IsMessage(r) ==
  \E t \in Types, id \in Ids, qp \in Ids, nid \in Ids, p \in Payloads :
    r = RpcStruct(t, id, qp, nid, Len(p), p)

\* The bytes of the message r are in the buffer m at b.
Packed(m, b, r) ==
  /\ \A j \in 1..4 : m[(b + j) - 1] = Bytes32(r.rpc_len)[j]
  /\ m[b + 4] = r.rpc_type
  /\ \A j \in 1..2 : /\ m[(b + 5) + j] = Bytes16(r.rpc_id)[j]
                     /\ m[(b + 7) + j] = Bytes16(r.senders_qp)[j]
                     /\ m[(b + 9) + j] = Bytes16(r.senders_nid)[j]
  /\ \A j \in 1..r.payload_len : m[(b + 15) + j] = r.payload[j]

\* The inductive invariant of the codec.
CodecInv ==
  /\ base \in Bases /\ stage \in {"create", "pack", "unpack"}
  /\ stage # "create" => IsMessage(rpc)
  /\ stage = "unpack" => Packed(buf, base, rpc)
  /\ stage = "create" => out = rpc

LEMMA LargestUint16 == UINT16_MAX \in Nat /\ UINT16_MAX < 65536
  BY SMT DEF UINT16_MAX

\* How many bytes a number has, and what they say.
LEMMA BytesLen == \A v : Len(Bytes16(v)) = 2 /\ Len(Bytes32(v)) = 4
  <1>1. \A a, b, c, d : Len(<<a, b>>) = 2 /\ Len(<<a, b, c, d>>) = 4
    BY SMT
  <1> QED
    BY SMT, <1>1 DEF Bytes16, Bytes32

LEMMA Bytes16Exact ==
  ASSUME NEW v \in 0..UINT16_MAX
  PROVE  Bytes16(v)[1] + (256 * Bytes16(v)[2]) = v
  <1> DEFINE a == v % 256
             b == (v \div 256) % 256
  <1>1. a + (256 * b) = v /\ a \in Int /\ b \in Int
    <2>1. v \in Nat /\ v < 65536
      BY SMT, LargestUint16
    <2>2. v \div 256 \in Nat /\ v \div 256 < 256
      BY SMT, <2>1
    <2>3. b = v \div 256 /\ a + (256 * (v \div 256)) = v
      BY SMT, <2>1, <2>2
    <2> QED
      BY SMT, <2>1, <2>2, <2>3
  <1>2. Bytes16(v) = <<a, b>>
    BY SMT DEF Bytes16
  <1> HIDE DEF a, b
  <1> QED
    BY SMT, <1>1, <1>2

LEMMA Bytes32Exact ==
  ASSUME NEW v \in Nat, v <= INT32_MAX
  PROVE  (Bytes32(v)[1] + (256 * Bytes32(v)[2]))
           + (65536 * (Bytes32(v)[3] + (256 * Bytes32(v)[4]))) = v
  <1> DEFINE a == v % 256
             b == (v \div 256) % 256
             c == (v \div 65536) % 256
             d == (v \div 16777216) % 256
  <1>1. /\ (a + (256 * b)) + (65536 * (c + (256 * d))) = v
        /\ a \in Int /\ b \in Int /\ c \in Int /\ d \in Int
    BY SMT DEF INT32_MAX
  <1>2. Bytes32(v) = <<a, b, c, d>>
    BY SMT DEF Bytes32
  <1> HIDE DEF a, b, c, d
  <1> QED
    BY SMT, <1>1, <1>2

LEMMA AddressInt == MemSize \in Nat /\ \A x : x \in Addresses <=> x \in Nat /\ x < MemSize
  <1>1. MemSize \in Nat
    BY CodecAssumption
  <1> QED
    BY SMT, <1>1 DEF Addresses

\* The byte at x is in f as it was in g, or the one of the k bytes s at a.
Wrote(f, g, a, s, k, x) ==
  /\ x < a \/ x >= a + k => f[x] = g[x]
  /\ a <= x /\ x < a + k => f[x] = s[(x - a) + 1]

\* What storing bytes changes.
LEMMA StoreBytesAt ==
  ASSUME NEW m, NEW a \in Nat, NEW s, NEW k \in Nat, Len(s) = k
  PROVE  \A x \in Addresses : Wrote(StoreBytes(m, a, s), m, a, s, k, x)
  <1> TAKE x \in Addresses
  <1>1. x \in a..(a + k - 1) <=> a <= x /\ x < a + k
    BY SMT, AddressInt
  <1>2. StoreBytes(m, a, s)[x] = IF x \in a..(a + k - 1) THEN s[x - a + 1] ELSE m[x]
    BY DEF StoreBytes
  <1>3. x < a \/ x >= a + k => ~(a <= x /\ x < a + k)
    BY SMT, AddressInt
  <1> QED
    BY <1>1, <1>2, <1>3 DEF Wrote

\* What is known of a message.
LEMMA MessageFields ==
  ASSUME NEW r, IsMessage(r), NEW b \in Bases
  PROVE  /\ r.rpc_type \in Nat /\ r.rpc_id \in 0..UINT16_MAX
         /\ r.senders_qp \in 0..UINT16_MAX /\ r.senders_nid \in 0..UINT16_MAX
         /\ r.payload \in Seq(0..UINT8_MAX) /\ r.payload_len = Len(r.payload) /\ Len(r.payload) \in Nat
         /\ r.rpc_len = 16 + Len(r.payload) /\ r.rpc_len <= INT32_MAX
         /\ b \in Nat /\ b % 8 = 0 /\ b + r.rpc_len <= MemSize
         /\ r = RpcStruct(r.rpc_type, r.rpc_id, r.senders_qp, r.senders_nid,
                          Len(r.payload), r.payload)
  <1>1. PICK t \in Types, id \in Ids, qp \in Ids, nid \in Ids, p \in Payloads :
          r = RpcStruct(t, id, qp, nid, Len(p), p)
    BY DEF IsMessage
  <1>2. /\ r.rpc_len = calcTotalHeaderBytes + Len(p) /\ r.rpc_type = t /\ r.rpc_id = id
        /\ r.senders_qp = qp /\ r.senders_nid = nid /\ r.payload = p /\ r.payload_len = Len(p)
    BY <1>1 DEF RpcStruct
  <1>3. p \in Seq(0..UINT8_MAX) /\ t \in 0..UINT8_MAX
    BY CodecAssumption
  <1>4. Len(p) \in Nat /\ t \in Nat
    <2>1. UINT8_MAX \in Int
      BY SMT DEF UINT8_MAX
    <2>2. Len(p) \in Nat
      BY <1>3, LenProperties
    <2> QED
      BY SMT, <2>1, <2>2, <1>3
  <1>5. id \in 0..UINT16_MAX /\ qp \in 0..UINT16_MAX /\ nid \in 0..UINT16_MAX
    BY CodecAssumption
  <1>6. /\ b \in Addresses /\ b % AlignmentReq = 0
        /\ b + calcTotalHeaderBytes + Len(p) <= MemSize
        /\ calcTotalHeaderBytes + Len(p) <= INT32_MAX
    BY CodecAssumption
  <1>7. b \in Nat /\ b + 16 + Len(p) = b + (16 + Len(p))
    <2>1. b \in Nat
      BY <1>6, AddressInt
    <2> QED
      BY SMT, <2>1, <1>4
  <1> QED
    BY <1>1, <1>2, <1>3, <1>4, <1>5, <1>6, <1>7, HeaderIs16

\* What packPayload stores at each place, one field after the other.
LEMMA PackExact ==
  ASSUME NEW m, NEW r, IsMessage(r), NEW b \in Bases
  PROVE  Packed(StoreBytes(StoreBytes(StoreBytes(StoreBytes(StoreBytes(StoreBytes(m,
                  b, Bytes32(r.rpc_len)),
                  b + 4, <<r.rpc_type>>),
                  b + 6, Bytes16(r.rpc_id)),
                  b + 8, Bytes16(r.senders_qp)),
                  b + 10, Bytes16(r.senders_nid)),
                  PayloadAt(b), r.payload), b, r)
  <1> DEFINE m1 == StoreBytes(m, b, Bytes32(r.rpc_len))
             m2 == StoreBytes(m1, b + 4, <<r.rpc_type>>)
             m3 == StoreBytes(m2, b + 6, Bytes16(r.rpc_id))
             m4 == StoreBytes(m3, b + 8, Bytes16(r.senders_qp))
             m5 == StoreBytes(m4, b + 10, Bytes16(r.senders_nid))
             m6 == StoreBytes(m5, b + 16, r.payload)
             n == Len(r.payload)
  <1>1. /\ b \in Nat /\ n \in Nat /\ r.rpc_len = 16 + n /\ r.payload_len = n
        /\ (b + 16) + n <= MemSize /\ MemSize \in Nat
    <2>1. b \in Nat /\ n \in Nat /\ r.rpc_len = 16 + n /\ r.payload_len = n /\ b + r.rpc_len <= MemSize
      BY MessageFields
    <2>2. MemSize \in Nat
      BY AddressInt
    <2> HIDE DEF n
    <2>3. (b + 16) + n = b + (16 + n)
      BY SMT, <2>1
    <2> QED
      BY <2>1, <2>2, <2>3
  <1>2. PayloadAt(b) = b + 16
    BY MessageFields, PayloadWhereExpected, HeaderIs16
  <1>3. /\ Len(Bytes32(r.rpc_len)) = 4 /\ Len(<<r.rpc_type>>) = 1
        /\ Len(Bytes16(r.rpc_id)) = 2 /\ Len(Bytes16(r.senders_qp)) = 2
        /\ Len(Bytes16(r.senders_nid)) = 2
    <2>1. Len(<<r.rpc_type>>) = 1
      BY SMT
    <2> QED
      BY <2>1, BytesLen
  <1>4. 4 \in Nat /\ 1 \in Nat /\ 2 \in Nat
    BY SMT
  <1>5. b + 4 \in Nat /\ b + 6 \in Nat /\ b + 8 \in Nat /\ b + 10 \in Nat /\ b + 16 \in Nat
    BY SMT, <1>1
  <1>6. \A x \in Addresses :
          /\ Wrote(m1, m, b, Bytes32(r.rpc_len), 4, x)
          /\ Wrote(m2, m1, b + 4, <<r.rpc_type>>, 1, x)
          /\ Wrote(m3, m2, b + 6, Bytes16(r.rpc_id), 2, x)
          /\ Wrote(m4, m3, b + 8, Bytes16(r.senders_qp), 2, x)
          /\ Wrote(m5, m4, b + 10, Bytes16(r.senders_nid), 2, x)
          /\ Wrote(m6, m5, b + 16, r.payload, n, x)
    BY <1>1, <1>3, <1>4, <1>5, StoreBytesAt
  <1> DEFINE f1 == Bytes32(r.rpc_len)
             f3 == Bytes16(r.rpc_id)
             f4 == Bytes16(r.senders_qp)
             f5 == Bytes16(r.senders_nid)
             f6 == r.payload
             M == MemSize
  <1>7. \A x \in Nat : x < M =>
          /\ Wrote(m1, m, b, f1, 4, x) /\ Wrote(m2, m1, b + 4, <<r.rpc_type>>, 1, x)
          /\ Wrote(m3, m2, b + 6, f3, 2, x) /\ Wrote(m4, m3, b + 8, f4, 2, x)
          /\ Wrote(m5, m4, b + 10, f5, 2, x) /\ Wrote(m6, m5, b + 16, f6, n, x)
    BY <1>6, AddressInt
  <1>8. b \in Nat /\ n \in Nat /\ M \in Nat /\ (b + 16) + n <= M
    BY <1>1
  <1> HIDE DEF m1, m2, m3, m4, m5, m6, f1, f3, f4, f5, f6, M, n
  <1>9. m6[b] = f1[1] /\ m6[b + 1] = f1[2] /\ m6[b + 2] = f1[3] /\ m6[b + 3] = f1[4]
    BY SMTT(20), <1>7, <1>8 DEF Wrote
  <1>10. m6[b + 4] = r.rpc_type
    BY SMTT(20), <1>7, <1>8 DEF Wrote
  <1>11. m6[b + 6] = f3[1] /\ m6[b + 7] = f3[2] /\ m6[b + 8] = f4[1] /\ m6[b + 9] = f4[2]
         /\ m6[b + 10] = f5[1] /\ m6[b + 11] = f5[2]
    BY SMTT(20), <1>7, <1>8 DEF Wrote
  <1>12. \A j \in 1..n : m6[(b + 15) + j] = f6[j]
    BY SMTT(20), <1>7, <1>8 DEF Wrote
  <1>13. Packed(m6, b, r)
    <2>1. \A j \in 1..4 : m6[(b + j) - 1] = f1[j]
      BY SMTT(20), <1>8, <1>9
    <2>2. \A j \in 1..2 : m6[(b + 5) + j] = f3[j] /\ m6[(b + 7) + j] = f4[j] /\ m6[(b + 9) + j] = f5[j]
      BY SMT, <1>8, <1>11
    <2> QED
      BY <1>1, <1>10, <1>12, <2>1, <2>2 DEF Packed, f1, f3, f4, f5, f6
  <1> QED
    BY <1>2, <1>13 DEF m1, m2, m3, m4, m5, m6

LEMMA UnpackExact ==
  ASSUME NEW b \in Bases, b = base, IsMessage(rpc), Packed(buf, b, rpc), unpackBufferToRPCLayer
  PROVE  out' = rpc
  <1> DEFINE p == rpc.payload
             len == Load32(base) - calcTotalHeaderBytes
             payload == [j \in 1..len |-> buf[base + calcTotalHeaderBytes + j - 1]]
  <1>1. /\ rpc.rpc_id \in 0..UINT16_MAX /\ rpc.senders_qp \in 0..UINT16_MAX
        /\ rpc.senders_nid \in 0..UINT16_MAX
        /\ p \in Seq(0..UINT8_MAX) /\ rpc.payload_len = Len(p) /\ Len(p) \in Nat
        /\ rpc.rpc_len = 16 + Len(p) /\ rpc.rpc_len <= INT32_MAX /\ b \in Nat
        /\ rpc = RpcStruct(rpc.rpc_type, rpc.rpc_id, rpc.senders_qp, rpc.senders_nid, Len(p), p)
    BY MessageFields
  <1>2. \A k \in {6, 8, 10} : Load16(base + k) = buf[b + k] + (256 * buf[b + (k + 1)])
    BY SMT, <1>1 DEF Load16
  <1>3. /\ buf[b + 6] = Bytes16(rpc.rpc_id)[1] /\ buf[b + 7] = Bytes16(rpc.rpc_id)[2]
        /\ buf[b + 8] = Bytes16(rpc.senders_qp)[1] /\ buf[b + 9] = Bytes16(rpc.senders_qp)[2]
        /\ buf[b + 10] = Bytes16(rpc.senders_nid)[1] /\ buf[b + 11] = Bytes16(rpc.senders_nid)[2]
    <2> DEFINE f == Bytes16(rpc.rpc_id)
               g == Bytes16(rpc.senders_qp)
               h == Bytes16(rpc.senders_nid)
    <2>1. \A j \in 1..2 : buf[(b + 5) + j] = f[j] /\ buf[(b + 7) + j] = g[j] /\ buf[(b + 9) + j] = h[j]
      BY DEF Packed
    <2> HIDE DEF f, g, h
    <2>2. /\ buf[b + 6] = f[1] /\ buf[b + 7] = f[2] /\ buf[b + 8] = g[1] /\ buf[b + 9] = g[2]
          /\ buf[b + 10] = h[1] /\ buf[b + 11] = h[2]
      BY SMTT(20), <1>1, <2>1
    <2> QED
      BY <2>2 DEF f, g, h
  <1>4. /\ Load16(base + 6) = rpc.rpc_id /\ Load16(base + 8) = rpc.senders_qp
        /\ Load16(base + 10) = rpc.senders_nid
    <2>1. 6 + 1 = 7 /\ 8 + 1 = 9 /\ 10 + 1 = 11
      BY SMT
    <2>2. /\ Load16(base + 6) = buf[b + 6] + (256 * buf[b + 7])
          /\ Load16(base + 8) = buf[b + 8] + (256 * buf[b + 9])
          /\ Load16(base + 10) = buf[b + 10] + (256 * buf[b + 11])
      BY SMTT(20), <1>2, <2>1
    <2>3. /\ Bytes16(rpc.rpc_id)[1] + (256 * Bytes16(rpc.rpc_id)[2]) = rpc.rpc_id
          /\ Bytes16(rpc.senders_qp)[1] + (256 * Bytes16(rpc.senders_qp)[2]) = rpc.senders_qp
          /\ Bytes16(rpc.senders_nid)[1] + (256 * Bytes16(rpc.senders_nid)[2]) = rpc.senders_nid
      BY SMT, <1>1, Bytes16Exact
    <2> QED
      BY SMT, <1>3, <2>2, <2>3
  <1>5. Load32(base) = rpc.rpc_len
    <2> DEFINE f == Bytes32(rpc.rpc_len)
    <2>1. \A j \in 1..4 : buf[(b + j) - 1] = f[j]
      BY DEF Packed
    <2>2. rpc.rpc_len \in Nat
      BY SMT, <1>1
    <2>3. (f[1] + (256 * f[2])) + (65536 * (f[3] + (256 * f[4]))) = rpc.rpc_len
      BY SMTT(20), <1>1, <2>2, Bytes32Exact
    <2> HIDE DEF f
    <2>4. Load32(base) = (buf[b] + (256 * buf[b + 1])) + (65536 * (buf[b + 2] + (256 * buf[b + 3])))
      BY SMT, <1>1 DEF Load32, Load16
    <2>5. buf[b] = f[1] /\ buf[b + 1] = f[2] /\ buf[b + 2] = f[3] /\ buf[b + 3] = f[4]
      BY SMTT(20), <1>1, <2>1
    <2> QED
      BY SMT, <2>3, <2>4, <2>5
  <1>6. len = Len(p)
    BY SMTT(20), <1>1, <1>5, HeaderIs16
  <1>7. payload = p
    <2>1. \A j \in 1..Len(p) : buf[base + calcTotalHeaderBytes + j - 1] = p[j]
      <3>1. \A j \in 1..Len(p) : buf[(b + 15) + j] = p[j]
        BY <1>1 DEF Packed
      <3>2. \A j \in 1..Len(p) : base + calcTotalHeaderBytes + j - 1 = (b + 15) + j
        BY SMT, <1>1, HeaderIs16
      <3> QED
        BY <3>1, <3>2
    <2>2. payload = [j \in 1..Len(p) |-> p[j]]
      BY <1>6, <2>1
    <2>3. p = [j \in 1..Len(p) |-> p[j]]
      BY <1>1, LenProperties
    <2> QED
      BY <2>2, <2>3
  <1>8. buf[base + 4] = rpc.rpc_type
    BY DEF Packed
  <1>9. out' = RpcStruct(buf[base + 4], Load16(base + 6), Load16(base + 8), Load16(base + 10),
                         len, payload)
    BY DEF unpackBufferToRPCLayer
  <1> HIDE DEF len, payload
  <1> QED
    BY <1>1, <1>4, <1>6, <1>7, <1>8, <1>9

\* Whatever the message and whatever the buffer held before, unpackBufferToRPCLayer
\* finds what packPayload has packed, in every aligned buffer with room for it.
THEOREM UnpackAlwaysReversesPack == CodecSpec => []UnpackReversesPack
  <1>1. CodecInit => CodecInv
    BY DEF CodecInit, CodecInv
  <1>2. CodecInv /\ [CodecNext]_codecVars => CodecInv'
    <2> SUFFICES ASSUME CodecInv, [CodecNext]_codecVars PROVE CodecInv'
      OBVIOUS
    <2>1. CASE createRPCStruct
      <3>1. IsMessage(rpc')
        BY <2>1 DEF createRPCStruct, IsMessage
      <3> QED
        BY <2>1, <3>1 DEF createRPCStruct, CodecInv, IsMessage
    <2>2. CASE packPayload
      <3>1. IsMessage(rpc) /\ base \in Bases
        BY <2>2 DEF packPayload, CodecInv
      <3>2. Packed(buf', base, rpc)
        BY <2>2, <3>1, PackExact DEF packPayload
      <3> QED
        BY <2>2, <3>1, <3>2 DEF packPayload, CodecInv, IsMessage, Packed
    <2>3. CASE unpackBufferToRPCLayer
      <3>1. IsMessage(rpc) /\ base \in Bases /\ Packed(buf, base, rpc)
        BY <2>3 DEF unpackBufferToRPCLayer, CodecInv
      <3>2. out' = rpc
        BY <2>3, <3>1, UnpackExact
      <3> QED
        BY <2>3, <3>1, <3>2 DEF unpackBufferToRPCLayer, CodecInv
    <2>4. CASE UNCHANGED codecVars
      BY <2>4 DEF codecVars, CodecInv, IsMessage, Packed
    <2> QED
      BY <2>1, <2>2, <2>3, <2>4 DEF CodecNext
  <1>3. CodecInv => UnpackReversesPack
    BY DEF CodecInv, UnpackReversesPack
  <1> QED
    BY <1>1, <1>2, <1>3, PTL DEF CodecSpec

-----------------------------------------------------------------------------
LEMMA LeastNat ==
  ASSUME NEW S \in SUBSET Nat, S # {}
  PROVE  \E x \in S : \A y \in S : x <= y
  <1> DEFINE R == OpToRel(<, Nat)
  <1>1. IsWellFoundedOn(R, Nat)
    BY NatLessThanWellFounded
  <1>2. \E x \in S : \A y \in S : ~(<<y, x>> \in R)
    <2> HIDE DEF R
    <2> QED
      BY <1>1, WFMin
  <1>3. \A x, y \in Nat : x < y => <<x, y>> \in R
    BY DEF OpToRel
  <1> HIDE DEF R
  <1>4. \A x, y \in Nat : ~(y < x) => x <= y
    BY SMT
  <1> QED
    BY <1>2, <1>3, <1>4

-----------------------------------------------------------------------------
(***************************************************************************)
(* The creation of rings: the arithmetic on their sizes.                   *)
(***************************************************************************)

LEMMA DivModSum ==
  ASSUME NEW n \in Nat, NEW k \in Nat \ {0}
  PROVE  /\ n \div k \in Nat /\ n % k \in 0..(k - 1)
         /\ ((n \div k) * k) + (n % k) = n
  <1>1. /\ n % k \in Int /\ 0 <= n % k /\ n % k < k
        /\ n \div k \in Int /\ n = (k * (n \div k)) + (n % k)
    BY SMT
  <1>2. n \div k \in Nat /\ n % k \in 0..(k - 1)
    BY SMT
  <1>3. (n \div k) * k = k * (n \div k)
    BY SMT, <1>1
  <1> QED
    BY <1>1, <1>2, <1>3

\* What is less than one lap beyond m.
LEMMA OneLap == ASSUME NEW m \in Nat \ {0}, NEW a \in Nat, a < m PROVE (a + m) % m = a
  BY SMTT(20)

\* The powers of two below the width of an unsigned int.
LEMMA Powers ==
  /\ UintBits \in Nat \ {0} /\ UintMod \in Nat /\ 2^0 = 1 /\ UintMod = 2^UintBits
  /\ \A e \in 0..UintBits : 2^e \in Nat
  /\ \A e \in Nat : e < UintBits => 2^(e + 1) = 2 * (2^e)
  <1>1. \A e \in Nat : e < UintBits => e \in 0..UintBits
    BY SMT, UintAssumption
  <1>2. UintBits \in 0..UintBits
    BY SMT, UintAssumption
  <1> QED
    BY <1>1, <1>2, UintAssumption DEF UintMod

LEMMA PowersGrow == ASSUME NEW e \in 0..UintBits PROVE 2^e <= UintMod
  <1> DEFINE S == {d \in Nat : d <= UintBits /\ ~(2^(UintBits - d) <= UintMod)}
  <1>1. UintBits \in Nat /\ UintMod \in Nat
    BY Powers
  <1>2. ASSUME S # {} PROVE FALSE
    <2>1. PICK d \in S : \A y \in S : d <= y
      BY <1>2, LeastNat
    <2>2. d \in Nat /\ d <= UintBits /\ ~(2^(UintBits - d) <= UintMod)
      BY <2>1
    <2> HIDE DEF S
    <2>3. UintMod <= UintMod /\ UintBits - 0 = UintBits
      BY SMT, <1>1
    <2>4. d # 0
      BY <2>2, <2>3, Powers
    <2>5. /\ d - 1 \in Nat /\ d - 1 <= UintBits /\ ~(d <= d - 1)
          /\ UintBits - d \in Nat /\ UintBits - d < UintBits /\ UintBits - d \in 0..UintBits
          /\ (UintBits - d) + 1 = UintBits - (d - 1)
      BY SMTT(20), <1>1, <2>2, <2>4
    <2>6. 2^(UintBits - (d - 1)) <= UintMod
      BY <2>1, <2>5 DEF S
    <2>7. 2^(UintBits - (d - 1)) = 2 * (2^(UintBits - d)) /\ 2^(UintBits - d) \in Nat
      BY <2>5, Powers
    <2> DEFINE x == 2^(UintBits - d)
    <2>8. x \in Nat /\ 2 * x <= UintMod /\ ~(x <= UintMod)
      BY <2>2, <2>6, <2>7
    <2> HIDE DEF x
    <2> QED
      BY SMT, <2>8, <1>1
  <1>3. UintBits - e \in Nat /\ UintBits - e <= UintBits /\ UintBits - (UintBits - e) = e
    BY SMT, <1>1
  <1> QED
    BY <1>2, <1>3

\* The next power of two is not below the number, and below its double.
LEMMA NextPower ==
  ASSUME NEW k \in Nat, 0 < k, k < UintMod
  PROVE  \E p \in 1..UintMod : IsPow2(p) /\ p >= k /\ p < 2 * k
  <1> DEFINE S == {e \in 0..UintBits : k <= 2^e}
  <1>1. S \in SUBSET Nat /\ S # {}
    <2>1. UintBits \in 0..UintBits /\ \A e \in 0..UintBits : e \in Nat
      BY SMT, Powers
    <2>2. k <= UintMod
      BY SMT, Powers
    <2> QED
      BY <2>1, <2>2, Powers
  <1>2. PICK e \in S : \A y \in S : e <= y
    BY <1>1, LeastNat
  <1> DEFINE p == 2^e
  <1>3. e \in Nat /\ e <= UintBits /\ p \in Nat /\ k <= p /\ e \in 0..UintBits
    <2>1. e \in 0..UintBits /\ k <= p
      BY <1>2
    <2>2. p \in Nat
      BY <2>1, Powers
    <2>3. e \in Nat /\ e <= UintBits
      BY SMT, <2>1, Powers
    <2> QED
      BY <2>1, <2>2, <2>3
  <1>4. p < 2 * k
    <2>1. CASE e = 0
      <3>1. p = 1
        BY <2>1, Powers
      <3> HIDE DEF p
      <3> QED
        BY SMT, <3>1
    <2>2. CASE e # 0
      <3>1. e - 1 \in 0..UintBits /\ e - 1 \in Nat /\ e - 1 < UintBits /\ (e - 1) + 1 = e /\ ~(e <= e - 1)
        <4> HIDE DEF p, S
        <4> QED
          BY SMTT(20), <1>3, <2>2, Powers
      <3>2. ~(k <= 2^(e - 1))
        BY <1>2, <3>1
      <3> DEFINE h == 2^(e - 1)
      <3>3. p = 2 * h /\ h \in Nat /\ ~(k <= h)
        BY <3>1, <3>2, Powers
      <3> HIDE DEF p, h
      <3> QED
        BY SMT, <3>3
    <2> QED
      BY <2>1, <2>2
  <1>5. p <= UintMod
    BY <1>3, PowersGrow
  <1>6. IsPow2(p)
    BY <1>3 DEF IsPow2
  <1>7. p \in 1..UintMod
    <2> HIDE DEF p
    <2> QED
      BY SMTT(20), <1>3, <1>5, Powers
  <1> QED
    BY <1>3, <1>4, <1>6, <1>7

\* RTE_ALIGN never makes smaller.
LEMMA AlignUp ==
  ASSUME NEW sz \in Nat, NEW to \in Nat \ {0}
  PROVE  sz <= Align(sz, to)
  <1> DEFINE x == sz + to - 1
             q == x \div to
             r == x % to
  <1>1. x \in Nat
    BY SMT
  <1>2. q \in Nat /\ r \in 0..(to - 1) /\ (q * to) + r = x
    <2> HIDE DEF x
    <2> QED
      BY <1>1, DivModSum
  <1>3. Align(sz, to) = q * to
    BY DEF Align
  <1> HIDE DEF q, r
  <1> DEFINE y == q * to
  <1>4. y \in Int
    BY SMT, <1>2
  <1>5. y + r = x /\ r \in 0..(to - 1)
    BY <1>2
  <1> HIDE DEF y
  <1>6. sz <= y
    BY SMT, <1>4, <1>5
  <1> QED
    BY <1>3, <1>6 DEF y

\* RTE_ALIGN adds less than one unit.
LEMMA AlignNear ==
  ASSUME NEW sz \in Nat, NEW to \in Nat \ {0}
  PROVE  Align(sz, to) \in Int /\ Align(sz, to) < sz + to
  <1> DEFINE x == sz + to - 1
             q == x \div to
             r == x % to
  <1>1. x \in Nat
    BY SMT
  <1>2. q \in Nat /\ r \in 0..(to - 1) /\ (q * to) + r = x
    <2> HIDE DEF x
    <2> QED
      BY <1>1, DivModSum
  <1>3. Align(sz, to) = q * to
    BY DEF Align
  <1> HIDE DEF q, r
  <1> DEFINE y == q * to
  <1>4. y \in Int
    BY SMT, <1>2
  <1>5. y + r = x /\ r \in 0..(to - 1)
    BY <1>2
  <1> HIDE DEF y
  <1>6. y < sz + to
    BY SMT, <1>4, <1>5
  <1> QED
    BY <1>3, <1>4, <1>6 DEF y

\* Why RingsFit excepts the rings whose size wraps: where count * esize does not
\* fit in an unsigned int, rte_ring_get_memsize_elem returns less than the header
\* and the slots need, for a cache line that is not longer than the range of an
\* unsigned int.
THEOREM WrappedRingTooSmall ==
  ASSUME NEW esize \in Nat, NEW count \in Nat, count * esize >= UintMod, LineSize <= UintMod
  PROVE  Memsize(esize, count) < HeaderSize + (count * esize)
  <1> DEFINE p == count * esize
             m == UintMod
             d == p \div m
             x == p % m
             sz == HeaderSize + x
  <1>1. p \in Nat /\ p >= m
    BY SMT
  <1>2. m \in Nat \ {0}
    <2>1. m \in Nat /\ LineSize \in Nat \ {0} /\ LineSize <= m
      BY Powers, ZonesAssumption
    <2> HIDE DEF m
    <2> QED
      BY SMT, <2>1
  <1>3. Memsize(esize, count) = Align(sz, LineSize)
    BY DEF Memsize
  <1> HIDE DEF p, m
  <1>4. d \in Nat /\ x \in 0..(m - 1) /\ (d * m) + x = p
    BY <1>1, <1>2, DivModSum
  <1> HIDE DEF d, x
  <1>5. p - x >= m
    <2>1. d # 0
      <3> SUFFICES ASSUME d = 0 PROVE FALSE
        OBVIOUS
      <3>1. 0 * m = 0
        BY SMT, <1>2
      <3> QED
        BY SMT, <1>1, <1>2, <1>4, <3>1
    <2>2. d * m >= m
      BY SMT, <1>2, <1>4, <2>1
    <2> DEFINE y == d * m
    <2>3. y \in Int /\ y >= m /\ y + x = p
      BY SMT, <1>2, <1>4, <2>2
    <2> HIDE DEF y
    <2> QED
      BY SMT, <1>1, <1>2, <1>4, <2>3
  <1>6. sz \in Nat
    BY SMT, <1>2, <1>4, ZonesAssumption
  <1>7. Align(sz, LineSize) \in Int /\ Align(sz, LineSize) < sz + LineSize
    BY <1>6, AlignNear, ZonesAssumption
  <1>8. LineSize <= m /\ LineSize \in Nat /\ HeaderSize \in Nat
    BY ZonesAssumption DEF m
  <1> DEFINE a == Align(sz, LineSize)
  <1> HIDE DEF a
  <1>9. a \in Int /\ a < sz + LineSize /\ sz = HeaderSize + x
    BY <1>7 DEF a
  <1>10. a < HeaderSize + p
    BY SMT, <1>1, <1>2, <1>4, <1>5, <1>6, <1>8, <1>9
  <1> QED
    BY <1>3, <1>10 DEF a, p

\* What the size of a ring that is created is.
LEMMA RoundedCountOK ==
  ASSUME NEW q \in Requests, ArgumentsOK(q)
  PROVE  /\ RoundedCount(q) \in Nat /\ RoundedCount(q) < UintMod
         /\ RoundedCount(q) > 0 => IsPow2(RoundedCount(q))
         /\ "EXACT_SZ" \in q.flags /\ RoundedCount(q) > 0 => q.count < RoundedCount(q)
  <1> DEFINE n == RoundedCount(q)
             U == UintMod
  <1>1. (n = 0 \/ IsPow2(n)) /\ n <= (U \div 2) - 1
    BY DEF ArgumentsOK, CountOK
  <1>2. U \in Nat /\ q.count \in 0..(U - 1)
    BY Powers, RequestsAssumption
  <1>3. n \in Nat
    <2>1. 0 \in Nat
      BY SMT
    <2> QED
      BY <1>1, <2>1, Powers DEF IsPow2
  <1>4. n < U
    <2> HIDE DEF n, U
    <2> QED
      BY SMTT(20), <1>1, <1>2, <1>3
  <1>5. n > 0 => IsPow2(n)
    <2>1. ~(0 > 0)
      BY SMT
    <2> QED
      BY <1>1, <2>1
  <1>6. ASSUME "EXACT_SZ" \in q.flags, n > 0 PROVE q.count < n
    <2> DEFINE k == (q.count + 1) % U
               P == CHOOSE p \in 1..U : IsPow2(p) /\ p >= k /\ p < 2 * k
    <2>1. n = IF k = 0 THEN 0 ELSE P % U
      BY <1>6 DEF RoundedCount, Align32pow2
    <2>2. n = 0 \/ (k # 0 /\ n = P % U)
      BY <2>1
    <2>3. k \in Nat /\ k < U /\ (k = 0 \/ k = q.count + 1)
      <3>1. CASE q.count + 1 = U
        <4>1. U % U = 0 /\ 0 < U /\ 0 \in Nat
          <5> HIDE DEF U
          <5> QED
            BY SMT, <1>2
        <4> QED
          BY <3>1, <4>1
      <3>2. CASE q.count + 1 # U
        <4> DEFINE a == q.count + 1
        <4>1. a \in Nat /\ a < U
          <5> HIDE DEF U
          <5> QED
            BY SMT, <1>2, <3>2
        <4> HIDE DEF a, U
        <4>2. a % U = a
          BY SMT, <4>1, <1>2
        <4> QED
          BY <4>1, <4>2 DEF a
      <3> QED
        BY <3>1, <3>2
    <2> HIDE DEF k, n
    <2>4. k # 0 => P \in 1..U /\ P >= k
      <3>1. k # 0 => 0 < k
        BY SMT, <2>3
      <3> QED
        BY <2>3, <3>1, NextPower
    <2> HIDE DEF P, U
    <2>5. k # 0 /\ n = P % U
      BY SMTT(20), <1>6, <2>2
    <2>6. P \in Nat /\ P <= U /\ q.count + 1 <= P /\ U > 0
      BY SMTT(20), <2>3, <2>4, <2>5, <1>2
    <2>7. P < U => P % U = P
      BY SMT, <2>6, <1>2
    <2>8. P = U => P % U = 0
      BY SMT, <2>6, <1>2
    <2> QED
      BY SMTT(20), <1>2, <1>6, <2>5, <2>6, <2>7, <2>8
  <1> QED
    BY <1>3, <1>4, <1>5, <1>6

\* What RingsFit says of one ring.
Fits(g) ==
  g.size > 0 /\ g.size * g.esize < UintMod =>
    /\ IsPow2(g.size) /\ g.mask = g.size - 1 /\ g.capacity < g.size
    /\ HeaderSize + (g.size * g.esize) <= g.bytes
    /\ g.prod_htd_max <= g.capacity /\ g.cons_htd_max <= g.capacity

\* The flags the documentation of rte_ring_create lists.
KnownFlags == \A q \in Requests : q.flags \subseteq RING_F_MASK

\* rte_ring_init writes a ring that fits the zone that rte_ring_get_memsize_elem
\* asked for, or an empty one.
LEMMA RingInitFits ==
  ASSUME KnownFlags, NEW q \in Requests, ArgumentsOK(q), NEW name, NEW was
  PROVE  /\ Fits(RingInit(was, q, name, Memsize(q.esize, RoundedCount(q))))
         /\ RingInit(was, q, name, Memsize(q.esize, RoundedCount(q))).name = name
  <1> DEFINE size == RoundedCount(q)
             bytes == Memsize(q.esize, RoundedCount(q))
             mask == (size + UintMod - 1) % UintMod
             capacity == IF "EXACT_SZ" \in q.flags THEN q.count ELSE mask
             htd(s) == IF SyncType(q.flags, s) = "RTS" THEN capacity \div HTD_MAX_DEF ELSE 0
             bad == "EINVAL" \in {SyncType(q.flags, s) : s \in {"prod", "cons"}}
             g == [name |-> name, esize |-> q.esize, bytes |-> bytes, size |-> size,
                   mask |-> mask, capacity |-> capacity, prod_htd_max |-> htd("prod"),
                   cons_htd_max |-> htd("cons")]
             e == [NoRing EXCEPT !.name = name, !.bytes = bytes]
             G == RingInit(was, q, name, bytes)
  <1>1. (bad /\ G = e) \/ (~bad /\ G = g)
    <2>1. q.flags \subseteq RING_F_MASK
      BY DEF KnownFlags
    <2> QED
      BY <2>1 DEF RingInit
  <1>2. CASE G = e
    <2>1. e.size = 0 /\ e.name = name
      BY DEF NoRing
    <2>2. ~(0 > 0)
      BY SMT
    <2> QED
      BY <1>2, <2>1, <2>2 DEF Fits
  <1>3. CASE G = g
    <2>1. /\ g.name = name /\ g.esize = q.esize /\ g.bytes = bytes /\ g.size = size /\ g.mask = mask
          /\ g.capacity = capacity /\ g.prod_htd_max = htd("prod") /\ g.cons_htd_max = htd("cons")
      OBVIOUS
    <2>2. /\ size \in Nat /\ size < UintMod /\ q.esize \in 0..(UintMod - 1) /\ q.count \in 0..(UintMod - 1)
          /\ size > 0 => IsPow2(size)
          /\ "EXACT_SZ" \in q.flags /\ size > 0 => q.count < size
          /\ UintMod \in Nat
      BY RoundedCountOK, RequestsAssumption, Powers
    <2>3. bytes = Align(HeaderSize + ((size * q.esize) % UintMod), LineSize)
      BY DEF Memsize
    <2> HIDE DEF G, g, e, bad
    <2>4. ASSUME size > 0, size * q.esize < UintMod
          PROVE  /\ IsPow2(size) /\ mask = size - 1 /\ capacity < size
                 /\ HeaderSize + (size * q.esize) <= bytes
                 /\ htd("prod") <= capacity /\ htd("cons") <= capacity
      <3>1. mask = size - 1
        <4> HIDE DEF size
        <4> DEFINE a == size - 1
                   b == size + UintMod - 1
                   m == UintMod
        <4>1. a \in Nat /\ a < m /\ b = a + m /\ m \in Nat \ {0}
          BY SMT, <2>2, <2>4
        <4> HIDE DEF a, b, m
        <4>2. b % m = a
          BY <4>1, OneLap
        <4> QED
          BY <4>2 DEF a, b, m
      <3> HIDE DEF mask, size
      <3>2. capacity \in Nat /\ capacity < size
        <4>1. CASE "EXACT_SZ" \in q.flags
          <5>1. capacity = q.count /\ q.count < size
            BY <4>1, <2>2, <2>4
          <5> HIDE DEF capacity
          <5> QED
            BY SMT, <5>1, <2>2
        <4>2. CASE "EXACT_SZ" \notin q.flags
          <5>1. capacity = size - 1
            BY <4>2, <3>1
          <5> HIDE DEF capacity
          <5> QED
            BY SMT, <5>1, <2>2, <2>4
        <4> QED
          BY <4>1, <4>2
      <3>3. capacity \div HTD_MAX_DEF <= capacity /\ 0 <= capacity
        <4> HIDE DEF capacity
        <4> QED
          BY SMT, <3>2 DEF HTD_MAX_DEF
      <3>4. HeaderSize + (size * q.esize) <= bytes
        <4> DEFINE w == size * q.esize
        <4>1. w \in Nat /\ w < UintMod
          BY SMT, <2>2, <2>4
        <4>2. bytes = Align(HeaderSize + (w % UintMod), LineSize)
          BY <2>3
        <4> HIDE DEF w, bytes
        <4>3. w % UintMod = w
          BY SMT, <4>1, <2>2
        <4>4. HeaderSize + w \in Nat
          BY SMT, <4>1, ZonesAssumption
        <4> QED
          BY <4>2, <4>3, <4>4, AlignUp, ZonesAssumption DEF w
      <3> QED
        BY <2>2, <2>4, <3>1, <3>2, <3>3, <3>4
    <2> HIDE DEF size, bytes, mask, capacity, htd
    <2>5. Fits(g)
      BY <2>1, <2>4 DEF Fits
    <2> QED
      BY <1>3, <2>1, <2>5 DEF G, bytes
  <1> QED
    BY <1>1, <1>2, <1>3

-----------------------------------------------------------------------------
(***************************************************************************)
(* The creation of rings: the list of rings.                               *)
(***************************************************************************)

\* The entries for a ring in any list.
At(s, z) == {k \in DOMAIN s : s[k] = z}

LEMMA AtFinite ==
  ASSUME NEW s \in Seq(Zones), NEW z
  PROVE  /\ Len(s) \in Nat /\ DOMAIN s = 1..Len(s)
         /\ At(s, z) \in SUBSET Nat /\ IsFiniteSet(At(s, z)) /\ Cardinality(At(s, z)) \in Nat
  <1>1. Len(s) \in Nat /\ DOMAIN s = 1..Len(s)
    BY LenProperties
  <1>2. IsFiniteSet(1..Len(s))
    <2>1. 1 \in Int /\ Len(s) \in Int
      BY SMT, <1>1
    <2> QED
      BY <2>1, FS_Interval
  <1>3. At(s, z) \subseteq 1..Len(s) /\ 1..Len(s) \subseteq Nat
    <2>1. \A k \in 1..Len(s) : k \in Nat
      BY SMT, <1>1
    <2> QED
      BY <1>1, <2>1 DEF At
  <1>4. IsFiniteSet(At(s, z))
    BY <1>2, <1>3, FS_Subset
  <1> QED
    BY <1>1, <1>3, <1>4, FS_CardinalityType

\* An entry put at the end is one more for its ring.
LEMMA AtAppend ==
  ASSUME NEW s \in Seq(Zones), NEW z \in Zones, NEW y
  PROVE  /\ Append(s, z) \in Seq(Zones) /\ Len(Append(s, z)) = Len(s) + 1
         /\ Cardinality(At(Append(s, z), y)) = Cardinality(At(s, y)) + (IF y = z THEN 1 ELSE 0)
  <1> DEFINE a == Append(s, z)
             n == Len(s)
  <1>1. /\ a \in Seq(Zones) /\ Len(a) = n + 1 /\ \A k \in 1..n : a[k] = s[k]
        /\ a[n + 1] = z
    BY SMT, AppendProperties
  <1>2. n \in Nat /\ DOMAIN s = 1..n /\ DOMAIN a = 1..(n + 1)
    BY <1>1, AtFinite
  <1> HIDE DEF a, n
  <1>3. \A k : k \in 1..(n + 1) <=> k \in 1..n \/ k = n + 1
    BY SMT, <1>2
  <1>4. n + 1 \notin 1..n
    BY SMT, <1>2
  <1>5. At(a, y) = IF y = z THEN At(s, y) \cup {n + 1} ELSE At(s, y)
    BY <1>1, <1>2, <1>3, <1>4 DEF At
  <1>6. n + 1 \notin At(s, y)
    BY <1>2, <1>4 DEF At
  <1>7. Cardinality(At(s, y) \cup {n + 1}) = Cardinality(At(s, y)) + 1
    BY <1>6, AtFinite, FS_AddElement
  <1>8. Cardinality(At(s, y)) \in Nat /\ \A m \in Nat : m + 0 = m
    <2>1. \A m \in Nat : m + 0 = m
      BY SMT
    <2> QED
      BY <2>1, AtFinite
  <1> QED
    BY <1>1, <1>5, <1>7, <1>8 DEF a, n

\* An entry taken out is one less for its ring.
LEMMA AtWithout ==
  ASSUME NEW s \in Seq(Zones), NEW z, NEW e \in At(s, z), NEW y
  PROVE  /\ Without(s, e) \in Seq(Zones) /\ Len(Without(s, e)) = Len(s) - 1
         /\ Cardinality(At(Without(s, e), y)) = Cardinality(At(s, y)) - (IF y = z THEN 1 ELSE 0)
  <1> DEFINE w == Without(s, e)
             n == Len(s)
  <1>1. n \in Nat /\ DOMAIN s = 1..n /\ e \in 1..n /\ s[e] = z
    BY AtFinite DEF At
  <1>2. \A k \in 1..n : s[k] \in Zones
    BY ElementOfSeq
  <1>3. w = [k \in 1..(n - 1) |-> IF k < e THEN s[k] ELSE s[k + 1]]
    BY DEF Without
  <1> HIDE DEF w, n
  <1>4. n - 1 \in Nat /\ \A k \in 1..(n - 1) : k \in 1..n /\ k + 1 \in 1..n
    BY SMT, <1>1
  <1>5. w \in Seq(Zones) /\ Len(w) = n - 1 /\ DOMAIN w = 1..(n - 1)
    <2>1. w \in [1..(n - 1) -> Zones]
      BY <1>2, <1>3, <1>4
    <2>2. w \in Seq(Zones)
      BY <1>4, <2>1, SeqDef
    <2>3. Len(w) \in Nat /\ DOMAIN w = 1..Len(w) /\ DOMAIN w = 1..(n - 1)
      BY <2>1, <2>2, LenProperties
    <2>4. Len(w) = n - 1
      BY SMT, <1>4, <2>3
    <2> QED
      BY <2>2, <2>3, <2>4
  <1> DEFINE S == At(w, y)
             T == At(s, y) \ {e}
             f == [k \in S |-> IF k < e THEN k ELSE k + 1]
  <1>6. \A k \in S : k \in 1..(n - 1) /\ w[k] = y /\ f[k] = (IF k < e THEN k ELSE k + 1)
    BY <1>5 DEF At
  <1>7. \A k \in S : f[k] \in T
    <2> TAKE k \in S
    <2>1. f[k] \in 1..n /\ f[k] # e
      BY SMT, <1>1, <1>6
    <2>2. s[f[k]] = y
      BY <1>3, <1>6
    <2> QED
      BY <1>1, <2>1, <2>2 DEF At
  <1>8. f \in [S -> T]
    BY <1>7
  <1>9. \A j, k \in S : f[j] = f[k] => j = k
    <2> HIDE DEF f, S, T
    <2> QED
      BY SMT, <1>1, <1>6
  <1>10. \A t \in T : \E k \in S : f[k] = t
    <2> TAKE t \in T
    <2>1. t \in 1..n /\ s[t] = y /\ t # e
      BY <1>1 DEF At
    <2>2. CASE t < e
      <3>1. t \in 1..(n - 1)
        BY SMTT(20), <1>1, <2>1, <2>2
      <3>2. t \in S
        BY <1>3, <1>5, <2>1, <2>2, <3>1 DEF At
      <3> QED
        BY <2>2, <3>2
    <2>3. CASE ~(t < e)
      <3> DEFINE k == t - 1
      <3>1. k \in 1..(n - 1) /\ ~(k < e) /\ k + 1 = t
        BY SMTT(20), <1>1, <2>1, <2>3
      <3> HIDE DEF k
      <3>2. k \in S
        BY <1>3, <1>5, <2>1, <3>1 DEF At
      <3> QED
        BY <3>1, <3>2
    <2> QED
      BY <2>2, <2>3
  <1> HIDE DEF f
  <1>11. ExistsBijection(S, T)
    <2>1. f \in Bijection(S, T)
      BY <1>8, <1>9, <1>10, Fun_IsBij
    <2> QED
      BY <2>1 DEF ExistsBijection
  <1>12. Cardinality(T) = Cardinality(S)
    BY <1>5, <1>11, AtFinite, FS_Bijection
  <1>13. Cardinality(T) = IF e \in At(s, y) THEN Cardinality(At(s, y)) - 1 ELSE Cardinality(At(s, y))
    BY AtFinite, FS_RemoveElement
  <1>14. e \in At(s, y) <=> y = z
    BY <1>1 DEF At
  <1>15. Cardinality(At(s, y)) \in Nat /\ \A m \in Nat : m - 0 = m
    <2>1. \A m \in Nat : m - 0 = m
      BY SMT
    <2> QED
      BY <2>1, AtFinite
  <1> HIDE DEF T
  <1>16. Cardinality(At(w, y)) = Cardinality(At(s, y)) - (IF y = z THEN 1 ELSE 0)
    BY <1>12, <1>13, <1>14, <1>15
  <1> QED
    BY <1>5, <1>16 DEF w, n

\* The threads that have an entry in hand.
Busy == {t \in RingThreads : place[t] \in {"reserve", "free_te"}}

Live(z) == IF z \in DOMAIN zones THEN 1 ELSE 0

\* The types of the list, of the zones and of the threads' calls.
RegTypeOK ==
  /\ DOMAIN zones \subseteq Zones /\ list \in Seq(Zones) /\ handed \subseteq DOMAIN zones
  /\ rings = [z \in Zones |-> rings[z]] /\ arg = [t \in RingThreads |-> arg[t]]
  /\ place \in [RingThreads -> {"idle", "reserve", "unlist", "free_te"}]
  /\ \A t \in RingThreads :
       /\ place[t] = "reserve" => arg[t].req \in Requests /\ ArgumentsOK(arg[t].req)
       /\ place[t] = "unlist" => arg[t] \in Zones

\* Every live zone holds the ring of its own name.
NamesInv ==
  \A z \in DOMAIN zones :
    rings[z].name = zones[z] /\ \A y \in DOMAIN zones : zones[y] = zones[z] => y = z

\* The counts of entries.
CountsInv ==
  /\ tes = Len(list) + Cardinality(Busy)
  /\ \A z \in Zones : Cardinality(Entries(z)) = Cardinality(Unlisting(z)) + Live(z)

\* The inductive invariant of the creation of rings.
RegInv == RegTypeOK /\ NamesInv /\ CountsInv /\ \A z \in Zones : Fits(rings[z])

LEMMA ThreadCounts ==
  ASSUME NEW S \in SUBSET RingThreads, NEW t \in RingThreads
  PROVE  /\ IsFiniteSet(S) /\ Cardinality(S) \in Nat
         /\ t \notin S => Cardinality(S \cup {t}) = Cardinality(S) + 1
         /\ t \in S => Cardinality(S \ {t}) = Cardinality(S) - 1 /\ Cardinality(S) >= 1
  <1>1. IsFiniteSet(S)
    BY ZonesAssumption, FS_Subset
  <1>2. Cardinality(S) \in Nat
    BY <1>1, FS_CardinalityType
  <1>3. t \notin S => Cardinality(S \cup {t}) = Cardinality(S) + 1
    BY <1>1, FS_AddElement
  <1>4. t \in S => Cardinality(S \ {t}) = Cardinality(S) - 1
    BY <1>1, FS_RemoveElement
  <1>5. t \in S => Cardinality(S) # 0
    BY <1>1, FS_EmptySet
  <1>6. t \in S => Cardinality(S) >= 1
    BY SMTT(20), <1>2, <1>5
  <1> QED
    BY <1>1, <1>2, <1>3, <1>4, <1>6

LEMMA RegCounts ==
  ASSUME RegInv
  PROVE  /\ Len(list) \in Nat /\ Busy \in SUBSET RingThreads /\ Cardinality(Busy) \in Nat
         /\ \A z \in Zones : /\ Unlisting(z) \in SUBSET RingThreads /\ Cardinality(Unlisting(z)) \in Nat
                             /\ Entries(z) = At(list, z) /\ Cardinality(Entries(z)) \in Nat
                             /\ Live(z) \in Nat
         /\ tes \in Nat
  <1>1. Busy \in SUBSET RingThreads /\ \A z \in Zones : Unlisting(z) \in SUBSET RingThreads
    BY DEF Busy, Unlisting
  <1>2. Cardinality(Busy) \in Nat /\ \A z \in Zones : Cardinality(Unlisting(z)) \in Nat
    <2>1. \A S \in SUBSET RingThreads : Cardinality(S) \in Nat
      BY ZonesAssumption, FS_Subset, FS_CardinalityType
    <2> QED
      BY <1>1, <2>1
  <1>3. \A z \in Zones : Entries(z) = At(list, z) /\ Cardinality(At(list, z)) \in Nat
    <2>1. list \in Seq(Zones)
      BY DEF RegInv, RegTypeOK
    <2>2. \A z \in Zones : Entries(z) = At(list, z)
      BY DEF Entries, At
    <2> QED
      BY <2>1, <2>2, AtFinite
  <1>4. 0 \in Nat /\ 1 \in Nat
    BY SMT
  <1>5. Len(list) \in Nat
    BY AtFinite DEF RegInv, RegTypeOK
  <1>6. \A m, n \in Nat : m + n \in Nat
    BY SMT
  <1> QED
    BY <1>1, <1>2, <1>3, <1>4, <1>5, <1>6 DEF Live, RegInv, CountsInv

LEMMA RegStutter == ASSUME RegInv, UNCHANGED regVars PROVE RegInv'
  <1>1. RegTypeOK'
    BY DEF RegInv, RegTypeOK, regVars
  <1>2. NamesInv'
    BY DEF RegInv, NamesInv, regVars
  <1>3. CountsInv'
    BY DEF RegInv, CountsInv, Busy, Live, Entries, Unlisting, regVars
  <1>4. \A z \in Zones : Fits(rings'[z])
    BY DEF RegInv, regVars
  <1> QED
    BY <1>1, <1>2, <1>3, <1>4 DEF RegInv, Fits

\* A call of create up to the lock.
LEMMA CreateStep ==
  ASSUME RegInv, NEW t \in RingThreads, NEW q \in Requests, NEW n \in RingNames, Create(t, q, n)
  PROVE  RegInv'
  <1>1. CASE UNCHANGED <<arg, tes, place>>
    <2>1. UNCHANGED regVars
      BY <1>1 DEF Create, regVars
    <2> QED
      BY <2>1, RegStutter
  <1>2. CASE /\ ArgumentsOK(q) /\ arg' = [arg EXCEPT ![t] = [req |-> q, name |-> n]]
             /\ tes' = tes + 1 /\ EnterPlace(t, "reserve")
    <2>1. /\ place[t] = "idle" /\ zones' = zones /\ rings' = rings /\ list' = list /\ handed' = handed
      BY DEF Create
    <2>2. /\ \A u \in RingThreads : place'[u] = IF u = t THEN "reserve" ELSE place[u]
          /\ \A u \in RingThreads : u # t => arg'[u] = arg[u]
          /\ arg'[t] = [req |-> q, name |-> n]
      BY <1>2 DEF EnterPlace, RegInv, RegTypeOK
    <2>3. RegTypeOK'
      <3>1. arg'[t].req = q
        BY SMT, <2>2
      <3>2. place' \in [RingThreads -> {"idle", "reserve", "unlist", "free_te"}]
            /\ arg' = [u \in RingThreads |-> arg'[u]]
        BY <1>2 DEF EnterPlace, RegInv, RegTypeOK
      <3> QED
        BY <1>2, <2>1, <2>2, <3>1, <3>2 DEF RegInv, RegTypeOK
    <2>4. Busy' = Busy \cup {t} /\ t \notin Busy
      BY <2>1, <2>2 DEF Busy
    <2>5. \A z \in Zones : Unlisting(z)' = Unlisting(z)
      BY <2>1, <2>2 DEF Unlisting
    <2>6. \A z \in Zones : Entries(z)' = Entries(z) /\ Live(z)' = Live(z)
      BY <2>1 DEF Entries, Live
    <2>7. tes' = Len(list') + Cardinality(Busy')
      <3>1. Cardinality(Busy') = Cardinality(Busy) + 1
        BY <2>4, RegCounts, ThreadCounts
      <3>2. tes = Len(list) + Cardinality(Busy) /\ Len(list) \in Nat /\ Cardinality(Busy) \in Nat
        BY RegCounts DEF RegInv, CountsInv
      <3> QED
        BY SMTT(20), <1>2, <2>1, <3>1, <3>2
    <2>8. CountsInv'
      BY <2>5, <2>6, <2>7 DEF RegInv, CountsInv
    <2> QED
      BY <2>1, <2>3, <2>8 DEF RegInv, NamesInv, Fits
  <1> QED
    BY <1>1, <1>2 DEF Create

\* What the end of a call does to the thread's place and argument.
LEMMA CallEnds ==
  ASSUME RegInv, NEW t \in RingThreads, EnterPlace(t, "idle"), arg' = [arg EXCEPT ![t] = NoZone]
  PROVE  /\ place' \in [RingThreads -> {"idle", "reserve", "unlist", "free_te"}]
         /\ arg' = [u \in RingThreads |-> arg'[u]]
         /\ \A u \in RingThreads : place'[u] = IF u = t THEN "idle" ELSE place[u]
         /\ \A u \in RingThreads : u # t => arg'[u] = arg[u]
         /\ \A u \in RingThreads :
              /\ place'[u] = "reserve" => arg'[u].req \in Requests /\ ArgumentsOK(arg'[u].req)
              /\ place'[u] = "unlist" => arg'[u] \in Zones
         /\ Busy' = Busy \ {t}
         /\ place[t] # "unlist" => \A z \in Zones : Unlisting(z)' = Unlisting(z)
  <1>1. /\ place' \in [RingThreads -> {"idle", "reserve", "unlist", "free_te"}]
        /\ arg' = [u \in RingThreads |-> arg'[u]]
    BY DEF EnterPlace, RegInv, RegTypeOK
  <1>2. /\ \A u \in RingThreads : place'[u] = IF u = t THEN "idle" ELSE place[u]
        /\ \A u \in RingThreads : u # t => arg'[u] = arg[u]
    BY DEF EnterPlace, RegInv, RegTypeOK
  <1>3. \A u \in RingThreads :
          /\ place'[u] = "reserve" => arg'[u].req \in Requests /\ ArgumentsOK(arg'[u].req)
          /\ place'[u] = "unlist" => arg'[u] \in Zones
    BY <1>2 DEF RegInv, RegTypeOK
  <1>4. Busy' = Busy \ {t}
    BY <1>2 DEF Busy
  <1>5. place[t] # "unlist" => \A z \in Zones : Unlisting(z)' = Unlisting(z)
    BY <1>2 DEF Unlisting
  <1> QED
    BY <1>1, <1>2, <1>3, <1>4, <1>5

\* The critical section of create.
LEMMA ReserveStep == ASSUME KnownFlags, RegInv, NEW t \in RingThreads, Reserve(t) PROVE RegInv'
  <1> DEFINE q == arg[t].req
             name == arg[t].name
             bytes == Memsize(q.esize, RoundedCount(q))
  <1>1. place[t] = "reserve" /\ EnterPlace(t, "idle") /\ arg' = [arg EXCEPT ![t] = NoZone]
    BY DEF Reserve
  <1>2. q \in Requests /\ ArgumentsOK(q)
    BY <1>1 DEF RegInv, RegTypeOK
  <1>3. /\ place' \in [RingThreads -> {"idle", "reserve", "unlist", "free_te"}]
        /\ arg' = [u \in RingThreads |-> arg'[u]]
        /\ \A u \in RingThreads :
             /\ place'[u] = "reserve" => arg'[u].req \in Requests /\ ArgumentsOK(arg'[u].req)
             /\ place'[u] = "unlist" => arg'[u] \in Zones
        /\ Busy' = Busy \ {t} /\ \A z \in Zones : Unlisting(z)' = Unlisting(z)
    BY <1>1, CallEnds
  <1>4. Cardinality(Busy') = Cardinality(Busy) - 1 /\ Cardinality(Busy) >= 1
    <2>1. t \in Busy
      BY <1>1 DEF Busy
    <2> QED
      BY <1>3, <2>1, RegCounts, ThreadCounts
  <1>5. tes = Len(list) + Cardinality(Busy) /\ Len(list) \in Nat /\ Cardinality(Busy) \in Nat
    BY RegCounts DEF RegInv, CountsInv
  <1>6. CASE tes' = tes - 1 /\ UNCHANGED <<zones, rings, list, handed>>
    <2>1. tes' = Len(list') + Cardinality(Busy')
      BY SMTT(20), <1>4, <1>5, <1>6
    <2>2. \A z \in Zones : Entries(z)' = Entries(z) /\ Live(z)' = Live(z)
      BY <1>6 DEF Entries, Live
    <2>3. CountsInv'
      BY <1>3, <2>1, <2>2 DEF RegInv, CountsInv
    <2>4. RegTypeOK'
      BY <1>3, <1>6 DEF RegInv, RegTypeOK
    <2> QED
      BY <1>6, <2>3, <2>4 DEF RegInv, NamesInv, Fits
  <1>7. ASSUME NEW z \in Zones,
               z \notin DOMAIN zones, \A y \in DOMAIN zones : zones[y] # name,
               zones' = [y \in DOMAIN zones \cup {z} |-> IF y = z THEN name ELSE zones[y]],
               rings' = [rings EXCEPT ![z] = RingInit(@, q, name, bytes)],
               list' = Append(list, z), handed' = handed \cup {z}, tes' = tes
        PROVE  RegInv'
    <2>1. /\ DOMAIN zones' = DOMAIN zones \cup {z} /\ zones'[z] = name
          /\ \A y \in DOMAIN zones : zones'[y] = zones[y]
      BY <1>7
    <2>2. /\ rings'[z] = RingInit(rings[z], q, name, bytes) /\ rings' = [y \in Zones |-> rings'[y]]
          /\ \A y \in Zones : y # z => rings'[y] = rings[y]
      BY <1>7 DEF RegInv, RegTypeOK
    <2>3. Fits(rings'[z]) /\ rings'[z].name = name
      <3> DEFINE was == rings[z]
                 now == rings'[z]
      <3>1. q \in Requests /\ ArgumentsOK(q) /\ now = RingInit(was, q, name, bytes)
        BY <1>2, <2>2
      <3> HIDE DEF q, name, was, now
      <3>2. Fits(now) /\ now.name = name
        BY <3>1, RingInitFits
      <3> QED
        BY <3>2 DEF now
    <2>4. \A y \in Zones : Fits(rings'[y])
      BY <2>2, <2>3 DEF RegInv
    <2>5. NamesInv'
      <3>1. DOMAIN zones \subseteq Zones
        BY DEF RegInv, RegTypeOK
      <3>2. \A y \in DOMAIN zones : y # z /\ rings'[y] = rings[y] /\ zones'[y] = zones[y]
        BY <1>7, <2>1, <2>2, <3>1
      <3> QED
        BY ZenonT(30), <1>7, <2>1, <2>3, <3>2 DEF RegInv, NamesInv
    <2>6. /\ list' \in Seq(Zones) /\ Len(list') = Len(list) + 1
          /\ \A y \in Zones : Cardinality(At(list', y))
                                = Cardinality(At(list, y)) + (IF y = z THEN 1 ELSE 0)
      <3>1. list \in Seq(Zones)
        BY DEF RegInv, RegTypeOK
      <3> QED
        BY ZenonT(30), <1>7, <3>1, AtAppend
    <2>7. tes' = Len(list') + Cardinality(Busy')
      BY SMTT(20), <1>4, <1>5, <1>7, <2>6
    <2>8. \A y \in Zones : Cardinality(Entries(y)') = Cardinality(Unlisting(y)') + Live(y)'
      <3> TAKE y \in Zones
      <3>1. Entries(y)' = At(list', y) /\ Entries(y) = At(list, y)
        BY DEF Entries, At
      <3>2. Live(y)' = IF y = z THEN 1 ELSE Live(y)
        BY <2>1 DEF Live
      <3>3. y = z => Live(y) = 0
        BY <1>7 DEF Live
      <3>4. Cardinality(At(list, y)) = Cardinality(Unlisting(y)) + Live(y)
        BY <3>1 DEF RegInv, CountsInv
      <3>5. Cardinality(Unlisting(y)) \in Nat /\ Live(y) \in Nat
        BY RegCounts
      <3>6. \A m \in Nat : m + 0 = m
        BY SMT
      <3>7. \A m, n \in Nat : (m + n) + 0 = m + n
        BY SMT
      <3> QED
        BY ZenonT(30), <1>3, <2>6, <3>1, <3>2, <3>3, <3>4, <3>5, <3>6, <3>7
    <2>9. RegTypeOK'
      BY ZenonT(30), <1>3, <1>7, <2>1, <2>2, <2>6 DEF RegInv, RegTypeOK
    <2> QED
      BY <2>4, <2>5, <2>7, <2>8, <2>9 DEF RegInv, CountsInv, Fits
  <1> QED
    BY <1>6, <1>7 DEF Reserve

\* The entry's memory goes back.
LEMMA FreeEntryStep == ASSUME RegInv, NEW t \in RingThreads, FreeEntry(t) PROVE RegInv'
  <1>1. /\ place[t] = "free_te" /\ EnterPlace(t, "idle") /\ arg' = [arg EXCEPT ![t] = NoZone]
        /\ tes' = tes - 1 /\ UNCHANGED <<zones, rings, list, handed>>
    BY DEF FreeEntry
  <1>2. /\ place' \in [RingThreads -> {"idle", "reserve", "unlist", "free_te"}]
        /\ arg' = [u \in RingThreads |-> arg'[u]]
        /\ \A u \in RingThreads :
             /\ place'[u] = "reserve" => arg'[u].req \in Requests /\ ArgumentsOK(arg'[u].req)
             /\ place'[u] = "unlist" => arg'[u] \in Zones
        /\ Busy' = Busy \ {t} /\ \A z \in Zones : Unlisting(z)' = Unlisting(z)
    BY <1>1, CallEnds
  <1>3. Cardinality(Busy') = Cardinality(Busy) - 1 /\ Cardinality(Busy) >= 1
    <2>1. t \in Busy
      BY <1>1 DEF Busy
    <2> QED
      BY <1>2, <2>1, RegCounts, ThreadCounts
  <1>4. tes = Len(list) + Cardinality(Busy) /\ Len(list) \in Nat /\ Cardinality(Busy) \in Nat
    BY RegCounts DEF RegInv, CountsInv
  <1>5. tes' = Len(list') + Cardinality(Busy')
    BY SMTT(20), <1>1, <1>3, <1>4
  <1>6. \A z \in Zones : Entries(z)' = Entries(z) /\ Live(z)' = Live(z)
    BY <1>1 DEF Entries, Live
  <1>7. CountsInv'
    BY <1>2, <1>5, <1>6 DEF RegInv, CountsInv
  <1>8. RegTypeOK'
    BY <1>1, <1>2 DEF RegInv, RegTypeOK
  <1> QED
    BY <1>1, <1>7, <1>8 DEF RegInv, NamesInv, Fits

\* rte_ring_free up to the lock: the zone's entry becomes one of a free.
LEMMA FreeStep ==
  ASSUME RegInv, NEW t \in RingThreads, NEW z \in Zones, Free(t, z)
  PROVE  RegInv'
  <1>1. /\ place[t] = "idle" /\ z \in handed /\ handed' = handed \ {z}
        /\ UNCHANGED <<rings, list, tes>>
    BY DEF Free
  <1>2. CASE UNCHANGED <<zones, arg, place>>
    <2>1. Busy' = Busy /\ \A y \in Zones : /\ Entries(y)' = Entries(y) /\ Live(y)' = Live(y)
                                           /\ Unlisting(y)' = Unlisting(y)
      BY <1>1, <1>2 DEF Busy, Entries, Live, Unlisting
    <2>2. CountsInv'
      BY <1>1, <2>1 DEF RegInv, CountsInv
    <2>3. RegTypeOK'
      BY <1>1, <1>2 DEF RegInv, RegTypeOK
    <2> QED
      BY <1>1, <1>2, <2>2, <2>3 DEF RegInv, NamesInv, Fits
  <1>3. CASE /\ zones' = [y \in DOMAIN zones \ {z} |-> zones[y]]
             /\ arg' = [arg EXCEPT ![t] = z] /\ EnterPlace(t, "unlist")
    <2>1. DOMAIN zones' = DOMAIN zones \ {z} /\ \A y \in DOMAIN zones' : zones'[y] = zones[y]
      BY <1>3
    <2>2. /\ place' \in [RingThreads -> {"idle", "reserve", "unlist", "free_te"}]
          /\ arg' = [u \in RingThreads |-> arg'[u]]
          /\ \A u \in RingThreads : place'[u] = IF u = t THEN "unlist" ELSE place[u]
          /\ \A u \in RingThreads : arg'[u] = IF u = t THEN z ELSE arg[u]
      BY <1>3 DEF EnterPlace, RegInv, RegTypeOK
    <2>3. \A u \in RingThreads :
            /\ place'[u] = "reserve" => arg'[u].req \in Requests /\ ArgumentsOK(arg'[u].req)
            /\ place'[u] = "unlist" => arg'[u] \in Zones
      BY <2>2 DEF RegInv, RegTypeOK
    <2>4. RegTypeOK'
      BY <1>1, <2>1, <2>2, <2>3 DEF RegInv, RegTypeOK
    <2>5. NamesInv'
      BY <1>1, <2>1 DEF RegInv, NamesInv
    <2>6. Busy' = Busy
      BY <1>1, <2>2 DEF Busy
    <2>7. \A y \in Zones : Cardinality(Entries(y)') = Cardinality(Unlisting(y)') + Live(y)'
      <3> TAKE y \in Zones
      <3>1. Entries(y)' = Entries(y)
        BY <1>1 DEF Entries
      <3>2. Cardinality(Entries(y)) = Cardinality(Unlisting(y)) + Live(y)
        BY DEF RegInv, CountsInv
      <3>3. CASE y # z
        <4>1. Unlisting(y)' = Unlisting(y)
          BY <1>1, <2>2, <3>3 DEF Unlisting
        <4>2. Live(y)' = Live(y)
          BY <2>1, <3>3 DEF Live
        <4> QED
          BY <3>1, <3>2, <4>1, <4>2
      <3>4. CASE y = z
        <4>1. Unlisting(y)' = Unlisting(y) \cup {t} /\ t \notin Unlisting(y)
          BY <1>1, <2>2, <3>4 DEF Unlisting
        <4>2. z \in DOMAIN zones
          BY <1>1 DEF RegInv, RegTypeOK
        <4>3. Live(y) = 1 /\ Live(y)' = 0
          BY <2>1, <3>4, <4>2 DEF Live
        <4>4. /\ Cardinality(Unlisting(y)') = Cardinality(Unlisting(y)) + 1
              /\ Cardinality(Unlisting(y)) \in Nat
          BY <4>1, RegCounts, ThreadCounts
        <4> QED
          BY SMTT(20), <3>1, <3>2, <4>3, <4>4
      <3> QED
        BY <3>3, <3>4
    <2> QED
      BY <1>1, <2>4, <2>5, <2>6, <2>7 DEF RegInv, CountsInv, Fits
  <1> QED
    BY <1>2, <1>3 DEF Free

\* FirstOf is one of the numbers it is given, and the least of them.
LEMMA FirstOfIs ==
  ASSUME NEW S \in SUBSET Nat, S # {}
  PROVE  FirstOf(S) \in S /\ \A j \in S : FirstOf(S) <= j
  BY LeastNat DEF FirstOf

\* rte_ring_free with the lock: there is an entry, and it goes.
LEMMA UnlistStep == ASSUME RegInv, NEW t \in RingThreads, Unlist(t) PROVE RegInv'
  <1> DEFINE z == arg[t]
             e == FirstOf(Entries(z))
  <1>1. place[t] = "unlist" /\ UNCHANGED <<zones, rings, tes, handed, arg>>
    BY DEF Unlist
  <1>2. z \in Zones /\ list \in Seq(Zones)
    BY <1>1 DEF RegInv, RegTypeOK
  <1>3. t \in Unlisting(z)
    BY <1>1 DEF Unlisting
  <1>4. Entries(z) = At(list, z) /\ Entries(z) \in SUBSET Nat
    <2> HIDE DEF z
    <2> QED
      BY <1>2, AtFinite, RegCounts
  <1>5. Cardinality(Unlisting(z)) >= 1 /\ Cardinality(Unlisting(z)) \in Nat
    <2>1. Unlisting(z) \in SUBSET RingThreads
      BY DEF Unlisting
    <2> HIDE DEF z
    <2> QED
      BY <1>3, <2>1, ThreadCounts
  <1>6. Entries(z) # {}
    <2>1. Cardinality(Entries(z)) = Cardinality(Unlisting(z)) + Live(z) /\ Live(z) \in Nat
      <3> HIDE DEF z
      <3> QED
        BY <1>2, RegCounts DEF RegInv, CountsInv
    <2>2. Cardinality(Entries(z)) # 0
      BY SMT, <1>5, <2>1
    <2> QED
      BY <2>2, FS_EmptySet
  <1>7. e \in At(list, z)
    <2> HIDE DEF z
    <2> QED
      BY <1>4, <1>6, FirstOfIs
  <1>8. EnterPlace(t, "free_te") /\ list' = Without(list, e)
    BY <1>6 DEF Unlist
  <1>9. /\ list' \in Seq(Zones) /\ Len(list') = Len(list) - 1
        /\ \A y \in Zones : Cardinality(At(list', y))
                              = Cardinality(At(list, y)) - (IF y = z THEN 1 ELSE 0)
    <2> HIDE DEF z, e
    <2>1. /\ Without(list, e) \in Seq(Zones) /\ Len(Without(list, e)) = Len(list) - 1
          /\ \A y : Cardinality(At(Without(list, e), y))
                      = Cardinality(At(list, y)) - (IF y = z THEN 1 ELSE 0)
      BY SMTT(20), <1>2, <1>7, AtWithout
    <2> QED
      BY <1>8, <2>1
  <1>10. /\ place' \in [RingThreads -> {"idle", "reserve", "unlist", "free_te"}]
         /\ \A u \in RingThreads : place'[u] = IF u = t THEN "free_te" ELSE place[u]
    BY <1>8 DEF EnterPlace, RegInv, RegTypeOK
  <1>11. RegTypeOK'
    BY <1>1, <1>9, <1>10 DEF RegInv, RegTypeOK
  <1>12. Busy' = Busy \cup {t} /\ t \notin Busy
    BY <1>1, <1>10 DEF Busy
  <1>13. tes' = Len(list') + Cardinality(Busy')
    <2>1. Cardinality(Busy') = Cardinality(Busy) + 1
      BY <1>12, RegCounts, ThreadCounts
    <2>2. tes = Len(list) + Cardinality(Busy) /\ Len(list) \in Nat /\ Cardinality(Busy) \in Nat
      BY RegCounts DEF RegInv, CountsInv
    <2> QED
      BY SMTT(20), <1>1, <1>9, <2>1, <2>2
  <1>14. \A y \in Zones : Cardinality(Entries(y)') = Cardinality(Unlisting(y)') + Live(y)'
    <2> TAKE y \in Zones
    <2>1. Entries(y)' = At(list', y) /\ Entries(y) = At(list, y)
      BY DEF Entries, At
    <2>2. Live(y)' = Live(y) /\ Live(y) \in Nat
      BY <1>1, RegCounts DEF Live
    <2>3. Cardinality(At(list, y)) = Cardinality(Unlisting(y)) + Live(y)
      BY <2>1 DEF RegInv, CountsInv
    <2>4. Cardinality(Unlisting(y)) \in Nat
      BY RegCounts
    <2>5. CASE y # z
      <3>1. Unlisting(y)' = Unlisting(y)
        BY <1>1, <1>10, <2>5 DEF Unlisting
      <3>2. Cardinality(At(list', y)) = Cardinality(At(list, y)) - 0
        BY <1>9, <2>5
      <3> QED
        BY SMTT(20), <2>1, <2>2, <2>3, <2>4, <3>1, <3>2
    <2>6. CASE y = z
      <3>1. Unlisting(y)' = Unlisting(y) \ {t}
        BY <1>1, <1>10, <2>6 DEF Unlisting
      <3>2. Cardinality(Unlisting(y)') = Cardinality(Unlisting(y)) - 1
        BY <1>3, <2>6, <3>1, RegCounts, ThreadCounts
      <3>3. Cardinality(At(list', y)) = Cardinality(At(list, y)) - 1
        BY <1>9, <2>6
      <3> QED
        BY SMTT(20), <2>1, <2>2, <2>3, <2>4, <3>2, <3>3
    <2> QED
      BY <2>5, <2>6
  <1> QED
    BY <1>1, <1>11, <1>13, <1>14 DEF RegInv, CountsInv, NamesInv, Fits

LEMMA RegStart == ASSUME RegInit PROVE RegInv
  <1>1. /\ Len(list) = 0 /\ DOMAIN list = {} /\ list \in Seq(Zones) /\ DOMAIN zones = {}
    <2>1. << >> \in Seq(Zones) /\ Len(<< >>) = 0 /\ DOMAIN << >> = {}
      BY SMT
    <2> QED
      BY <2>1 DEF RegInit
  <1>2. Busy = {} /\ \A z \in Zones : Unlisting(z) = {} /\ Entries(z) = {} /\ Live(z) = 0
    BY <1>1 DEF RegInit, Busy, Unlisting, Entries, Live
  <1>3. Cardinality({}) = 0 /\ 0 + 0 = 0
    BY SMT, FS_EmptySet
  <1>4. CountsInv
    BY <1>1, <1>2, <1>3 DEF RegInit, CountsInv
  <1>5. RegTypeOK
    BY <1>1 DEF RegInit, RegTypeOK
  <1>6. \A z \in Zones : Fits(rings[z])
    <2>1. ~(0 > 0)
      BY SMT
    <2>2. NoRing.size = 0
      BY SMT DEF NoRing
    <2> QED
      BY <2>1, <2>2 DEF RegInit, Fits
  <1> QED
    BY <1>1, <1>4, <1>5, <1>6 DEF RegInv, NamesInv

\* While no ring is being freed, the entries are the live zones, each once, and
\* so a lookup finds the zone of the name it is given.
LEMMA LookupFinds ==
  ASSUME RegInv, \A z \in Zones : Unlisting(z) = {}, NEW n
  PROVE  LET live == {z \in DOMAIN zones : zones[z] = n}
         IN IF live = {} THEN Lookup(n) = NoZone ELSE {Lookup(n)} = live
  <1> DEFINE live == {z \in DOMAIN zones : zones[z] = n}
             hits == {k \in DOMAIN list : rings[list[k]].name = n}
  <1>1. \A z \in Zones : Entries(z) # {} <=> z \in DOMAIN zones
    <2> TAKE z \in Zones
    <2>1. Cardinality(Entries(z)) = 0 + Live(z)
      BY FS_EmptySet DEF RegInv, CountsInv
    <2>2. IsFiniteSet(Entries(z))
      <3>1. list \in Seq(Zones)
        BY DEF RegInv, RegTypeOK
      <3> QED
        BY <3>1, AtFinite, RegCounts
    <2>3. Entries(z) = {} <=> Cardinality(Entries(z)) = 0
      BY <2>2, FS_EmptySet
    <2>4. 0 + 1 # 0 /\ 0 + 0 = 0
      BY SMT
    <2> QED
      BY <2>1, <2>3, <2>4 DEF Live
  <1>2. /\ list \in Seq(Zones) /\ DOMAIN list = 1..Len(list) /\ DOMAIN zones \subseteq Zones
        /\ \A k \in DOMAIN list : list[k] \in Zones
    <2>1. list \in Seq(Zones) /\ DOMAIN zones \subseteq Zones
      BY DEF RegInv, RegTypeOK
    <2>2. DOMAIN list = 1..Len(list) /\ \A k \in 1..Len(list) : list[k] \in Zones
      BY SMTT(20), <2>1, LenProperties, ElementOfSeq
    <2> QED
      BY <2>1, <2>2
  <1>3. \A k \in DOMAIN list : list[k] \in DOMAIN zones /\ rings[list[k]].name = zones[list[k]]
    BY <1>1, <1>2 DEF Entries, RegInv, NamesInv
  <1>4. \A z \in DOMAIN zones : \E k \in DOMAIN list : list[k] = z
    BY <1>1, <1>2 DEF Entries
  <1>5. CASE live = {}
    <2>1. hits = {}
      <3>1. ASSUME NEW k \in DOMAIN list, rings[list[k]].name = n PROVE FALSE
        <4>1. list[k] \in live
          BY <1>3, <3>1
        <4> QED
          BY <1>5, <4>1
      <3> QED
        BY <3>1
    <2> QED
      BY <1>5, <2>1 DEF Lookup
  <1>6. CASE live # {}
    <2>1. hits # {}
      <3>1. PICK z \in DOMAIN zones : zones[z] = n
        BY <1>6
      <3>2. PICK k \in DOMAIN list : list[k] = z
        BY <1>4
      <3>3. rings[list[k]].name = n
        BY <1>3, <3>1, <3>2
      <3> QED
        BY <3>3
    <2>2. hits \in SUBSET Nat
      <3>1. 1..Len(list) \subseteq Nat
        BY SMT, <1>2, LenProperties
      <3> QED
        BY <1>2, <3>1
    <2>3. FirstOf(hits) \in hits
      BY <2>1, <2>2, FirstOfIs
    <2>4. Lookup(n) = list[FirstOf(hits)]
      BY <2>1 DEF Lookup
    <2>5. Lookup(n) \in live
      BY <1>3, <2>3, <2>4
    <2>6. \A z, y \in live : z = y
      BY DEF RegInv, NamesInv
    <2> QED
      BY <1>6, <2>5, <2>6
  <1> QED
    BY <1>5, <1>6

\* With the flags that rte_ring_create documents, every step of every thread
\* preserves the invariant.
LEMMA RegInvariant == KnownFlags => (RegSpec => []RegInv)
  <1> SUFFICES ASSUME KnownFlags PROVE RegSpec => []RegInv
    OBVIOUS
  <1>1. RegInit => RegInv
    BY RegStart
  <1>2. RegInv /\ [RegNext]_regVars => RegInv'
    <2> SUFFICES ASSUME RegInv, [RegNext]_regVars PROVE RegInv'
      OBVIOUS
    <2>1. CASE UNCHANGED regVars
      BY <2>1, RegStutter
    <2>2. CASE RegNext
      <3>1. PICK t \in RingThreads :
              \/ \E q \in Requests, n \in RingNames : Create(t, q, n)
              \/ Reserve(t) \/ Unlist(t) \/ FreeEntry(t)
              \/ \E z \in Zones : Free(t, z)
        BY <2>2 DEF RegNext
      <3> QED
        BY <3>1, CreateStep, ReserveStep, UnlistStep, FreeEntryStep, FreeStep
    <2> QED
      BY <2>1, <2>2
  <1> QED
    BY <1>1, <1>2, PTL DEF RegSpec

\* RingsFit, for every number of threads, names, zones and bits of an unsigned
\* int: a ring that create hands out has a power of two of slots, more of them
\* than the objects it accepts, and room for all of them in its zone.
THEOREM RingsAlwaysFit == KnownFlags => (RegSpec => []RingsFit)
  <1>1. RegInv => RingsFit
    BY DEF RegInv, RegTypeOK, RingsFit, Fits
  <1> QED
    BY <1>1, RegInvariant, PTL

\* ListMatchesRings: although rte_ring_free gives the zone back before it takes
\* the lock, and the zone may be a new ring's by then, entries and rings match
\* whatever the threads do, none is leaked, and a lookup that no free overlaps
\* finds the ring of the name.
THEOREM ListAlwaysMatches == KnownFlags => (RegSpec => []ListMatchesRings)
  <1>1. RegInv => ListMatchesRings
    <2> SUFFICES ASSUME RegInv PROVE ListMatchesRings
      OBVIOUS
    <2>1. \A z \in Zones : Cardinality(Entries(z))
            = Cardinality(Unlisting(z)) + (IF z \in DOMAIN zones THEN 1 ELSE 0)
      BY DEF RegInv, CountsInv, Live
    <2>2. tes = Len(list) + Cardinality({t \in RingThreads : place[t] \in {"reserve", "free_te"}})
      BY DEF RegInv, CountsInv, Busy
    <2> QED
      BY <2>1, <2>2, LookupFinds DEF ListMatchesRings
  <1> QED
    BY <1>1, RegInvariant, PTL

=============================================================================
