------------------------------- MODULE RpcCodec -------------------------------
\* Encapsulation and decapsulation of an RPC (rpc_shm/rpc.cpp) in the ZSIM
\* build: createRPCStruct, packPayload into a buffer, and
\* unpackBufferToRPCLayer from it.  The buffer is reused, so what is unpacked
\* must not depend on the message that was there before.  Payloads are far
\* shorter than the uint32_t rpc_len can say, so it does not overflow.
EXTENDS Naturals, Sequences

CONSTANTS Bases,       \* the addresses of the buffer
          MemSize,     \* bound on the addresses
          Ids,         \* values of the uint16_t fields
          Types,       \* values of rpc_type
          Payloads,    \* sequences of bytes
          MaxRpcs  \* bound on the messages

VARIABLES buf, base, rpc, out, stage, rpcs

codecVars == <<buf, base, rpc, out, stage, rpcs>>

Addresses == 0..(MemSize - 1)
AlignmentReq == 8

calcTotalHeaderBytes ==
  LET hbytes == 4 + 2 + 2 + 2 + 2 IN hbytes + (hbytes % AlignmentReq)

UINT8_MAX == 255
UINT16_MAX == 65535
INT32_MAX == 2147483647

\* The buffers are aligned and have room for the messages.
ASSUME CodecAssumption ==
  /\ MemSize \in Nat /\ Bases \subseteq {b \in Addresses : b % AlignmentReq = 0}
  /\ Ids \subseteq 0..UINT16_MAX /\ Types \subseteq 0..UINT8_MAX
  /\ Payloads \subseteq Seq(0..UINT8_MAX)
  /\ \A b \in Bases, p \in Payloads : b + calcTotalHeaderBytes + Len(p) <= MemSize
  /\ \A p \in Payloads : calcTotalHeaderBytes + Len(p) <= INT32_MAX

NoRpc == [rpc_len |-> 0, rpc_type |-> 0, rpc_id |-> 0, senders_qp |-> 0,
          senders_nid |-> 0, payload |-> << >>, payload_len |-> 0]

RpcStruct(type, id, qp, nid, len, payload) ==
  [rpc_len |-> calcTotalHeaderBytes + len, rpc_type |-> type,
   rpc_id |-> id, senders_qp |-> qp, senders_nid |-> nid,
   payload |-> payload, payload_len |-> len]

-----------------------------------------------------------------------------
\* The bytes of v, least significant first, as memcpy stores an integer.
Bytes16(v) == <<v % 256, (v \div 256) % 256>>
Bytes32(v) == <<v % 256, (v \div 256) % 256, (v \div 65536) % 256, (v \div 16777216) % 256>>

StoreBytes(m, a, bytes) ==
  [x \in Addresses |-> IF x \in a..(a + Len(bytes) - 1) THEN bytes[x - a + 1]
                       ELSE m[x]]

Load16(a) == buf[a] + (256 * buf[a + 1])
Load32(a) == Load16(a) + (65536 * Load16(a + 2))

\* Where packPayload copies the payload to.
PayloadAt(b) == (b + 12) + ((b + 12) % AlignmentReq)

createRPCStruct ==
  /\ stage = "create" /\ rpcs < MaxRpcs
  /\ \E t \in Types, id, qp, nid \in Ids, p \in Payloads :
       rpc' = RpcStruct(t, id, qp, nid, Len(p), p)
  /\ rpcs' = rpcs + 1 /\ stage' = "pack"
  /\ UNCHANGED <<buf, base, out>>

\* Mutant: the type takes one byte, as the unpacking of the VM platform has it.
packPayloadShortType ==
  /\ stage = "pack"
  /\ buf' = StoreBytes(StoreBytes(StoreBytes(StoreBytes(StoreBytes(StoreBytes(buf,
              base, Bytes32(rpc.rpc_len)),
              base + 4, <<rpc.rpc_type>>),
              base + 5, Bytes16(rpc.rpc_id)),
              base + 7, Bytes16(rpc.senders_qp)),
              base + 9, Bytes16(rpc.senders_nid)),
              PayloadAt(base), rpc.payload)
  /\ stage' = "unpack"
  /\ UNCHANGED <<base, rpc, out, rpcs>>

\* The byte after rpc_type and the alignment bytes keep what they were.
packPayload ==
  /\ stage = "pack"
  /\ buf' = StoreBytes(StoreBytes(StoreBytes(StoreBytes(StoreBytes(StoreBytes(buf,
              base, Bytes32(rpc.rpc_len)),
              base + 4, <<rpc.rpc_type>>),
              base + 6, Bytes16(rpc.rpc_id)),
              base + 8, Bytes16(rpc.senders_qp)),
              base + 10, Bytes16(rpc.senders_nid)),
              PayloadAt(base), rpc.payload)
  /\ stage' = "unpack"
  /\ UNCHANGED <<base, rpc, out, rpcs>>

\* The payload pointer is the buffer plus the size of the header; what the
\* payload is, is read through it.
unpackBufferToRPCLayer ==
  LET len == Load32(base) - calcTotalHeaderBytes
      payload == [i \in 1..len |-> buf[base + calcTotalHeaderBytes + i - 1]]
  IN /\ stage = "unpack"
     /\ out' = RpcStruct(buf[base + 4], Load16(base + 6), Load16(base + 8),
                         Load16(base + 10), len, payload)
     /\ stage' = "create"
     /\ UNCHANGED <<buf, base, rpc, rpcs>>

CodecInit ==
  /\ buf = [a \in Addresses |-> 0] /\ base \in Bases
  /\ rpc = NoRpc /\ out = NoRpc
  /\ stage = "create" /\ rpcs = 0

CodecNext == createRPCStruct \/ packPayload \/ unpackBufferToRPCLayer

CodecSpec == CodecInit /\ [][CodecNext]_codecVars

-----------------------------------------------------------------------------
\* "Does the reverse of pack(...)" (unpackBufferToRPCLayer): every field and
\* the payload come out as they went in, whatever the buffer held before.
UnpackReversesPack == stage = "create" => out = rpc

=============================================================================
