------------------------ MODULE CircularReceiveBuffer ------------------------
\* The circular receive buffer of the RPC layer (rpc_shm/cbuf.cpp): a buffer in
\* the receiver's memory, written remotely by one sender.  Each side has its
\* own object; the sender's copy keeps tail, senders_head, is_full and the
\* sense bits, the receiver's copy keeps head.  Acknowledgements travel from
\* the receiver to the sender's flowControlUpdateSendersHead.
\*
\* No caller of the buffer is part of the build, so the caller is external: it
\* writes an entry with the call sequence of the interface and keeps to a window
\* of numEntries messages by itself.
EXTENDS Naturals, Sequences

CONSTANTS numEntries,     \* MSGS_PER_PAIR in the code
          MaxInc,         \* bound on the messages acknowledged at once
          MaxMessages     \* bound on the messages sent

ASSUME NumEntriesAssumption == numEntries \in Nat \ {0}

VARIABLES tail, senders_head, is_full, buffer_sr, sr_vector, \* sender's object
          head,      \* receiver's object
          entries,   \* the memory: 0, or the number of the message in it
          sending,        \* the sender: "idle", "marked", "written"
          polled,    \* the receiver: the message it processes, or 0
          acks,      \* acknowledgements on their way
          sent, received, acked,
          overshot   \* a batch of acknowledgements went past the end; a history
                     \* variable, which no action reads

cbufVars == <<tail, senders_head, is_full, buffer_sr, sr_vector, head, entries, sending,
          polled, acks, sent, received, acked, overshot>>

receiver == <<head, polled, received>>
sender == <<tail, senders_head, is_full, buffer_sr, sr_vector, sending, sent, acked,
            overshot>>

Indices == 0..(numEntries - 1)

-----------------------------------------------------------------------------
isEmpty == ~is_full /\ senders_head = tail

getBufferSize ==
  IF isEmpty THEN numEntries
  ELSE IF tail >= senders_head THEN tail - senders_head
  ELSE (numEntries - senders_head) + tail

getAvailSlots == IF isEmpty THEN numEntries ELSE numEntries - getBufferSize

\* External: the caller decides to write the next message.
MayWrite ==
  /\ sent < MaxMessages
  /\ sent - acked < numEntries

writeSRMetadata ==
  /\ sending = "idle" /\ MayWrite
  /\ sr_vector' = [sr_vector EXCEPT ![tail] = buffer_sr]
  /\ sending' = "marked"
  /\ UNCHANGED <<receiver, entries, acks, tail, senders_head, is_full,
                 buffer_sr, sent, acked, overshot>>

\* External: the message arrives in the receiver's memory at the tail.
RemoteWrite ==
  /\ sending = "marked"
  /\ entries' = [entries EXCEPT ![tail] = sent + 1]
  /\ sent' = sent + 1
  /\ sending' = "written"
  /\ UNCHANGED <<receiver, acks, tail, senders_head, is_full, buffer_sr,
                 sr_vector, acked, overshot>>

\* tail, head and senders_head all start again at 0 past the last entry.
Advance(k, inc) == IF k + inc >= numEntries THEN 0 ELSE k + inc

\* Mutant: a full buffer is not noticed.
incTailNotFull ==
  /\ sending = "written"
  /\ tail' = Advance(tail, 1)
  /\ buffer_sr' = IF tail + 1 >= numEntries THEN ~buffer_sr ELSE buffer_sr
  /\ sending' = "idle"
  /\ UNCHANGED <<receiver, entries, acks, senders_head, is_full, sr_vector,
                 sent, acked, overshot>>

\* The assertion at its end is part of the invariant SenderCountExact.
incTail ==
  /\ sending = "written"
  /\ tail' = Advance(tail, 1)
  /\ buffer_sr' = IF tail + 1 >= numEntries THEN ~buffer_sr ELSE buffer_sr
  /\ is_full' = (is_full \/ tail' = senders_head)
  /\ sending' = "idle"
  /\ UNCHANGED <<receiver, entries, acks, senders_head, sr_vector, sent, acked,
                 overshot>>

\* inc messages past senders_head are past the last entry, or are all there are.
PastEnd(inc) == senders_head + inc > numEntries \/ inc = numEntries

\* For inc acknowledged messages.
incSendersHeadToFreeSpace(inc) ==
  /\ acks >= inc /\ sending = "idle"
  /\ acks' = acks - inc /\ acked' = acked + inc
  /\ senders_head' = Advance(senders_head, inc)
  /\ is_full' = (is_full /\ tail = senders_head')
  /\ overshot' = (overshot \/ PastEnd(inc))
  /\ UNCHANGED <<receiver, entries, tail, buffer_sr, sr_vector, sending, sent>>

-----------------------------------------------------------------------------
\* pollOnBufferNumber finds a message at the head.
pollOnBufferNumber ==
  /\ polled = 0 /\ entries[head] # 0
  /\ polled' = entries[head]
  /\ received' = Append(received, entries[head])
  /\ UNCHANGED <<sender, entries, acks, head>>

zeroEntryNumber(index) == entries' = [entries EXCEPT ![index] = 0]

zeroOutRBufHead ==
  /\ polled # 0 /\ entries[head] # 0
  /\ zeroEntryNumber(head)
  /\ UNCHANGED <<sender, receiver, acks>>

\* Mutant: the entry is not emptied before the head moves on.
incHeadNoZero ==
  /\ polled # 0
  /\ head' = Advance(head, 1)
  /\ polled' = 0 /\ acks' = acks + 1
  /\ UNCHANGED <<sender, entries, received>>

\* incrementBufferHead; the message is acknowledged after it.
incHeadAfterMsgProcessed ==
  /\ polled # 0 /\ entries[head] = 0
  /\ head' = Advance(head, 1)
  /\ polled' = 0 /\ acks' = acks + 1
  /\ UNCHANGED <<sender, entries, received>>

CBufInit ==
  /\ tail = 0 /\ senders_head = 0 /\ head = 0
  /\ is_full = FALSE /\ buffer_sr = FALSE
  /\ sr_vector = [k \in Indices |-> TRUE]
  /\ entries = [k \in Indices |-> 0]
  /\ sending = "idle" /\ polled = 0 /\ acks = 0
  /\ sent = 0 /\ received = << >> /\ acked = 0 /\ overshot = FALSE

SenderStep ==
  \/ writeSRMetadata \/ RemoteWrite \/ incTail
  \/ \E inc \in 1..MaxInc : incSendersHeadToFreeSpace(inc)
ReceiverStep ==
  \/ pollOnBufferNumber \/ zeroOutRBufHead \/ incHeadAfterMsgProcessed

CBufNext == SenderStep \/ ReceiverStep

CBufSpec == CBufInit /\ [][CBufNext]_cbufVars

-----------------------------------------------------------------------------
\* Although acknowledgements come late and in batches, the sender's indices tell
\* how many messages are outstanding, until a batch goes past the end of the
\* buffer: is_full tells a full buffer from an empty one when tail and
\* senders_head are equal, and unless it is full getAvailSlots counts the free
\* slots (incTail, incSendersHeadToFreeSpace, getBufferSize).  Of a full buffer,
\* getBufferSize says 0 and getAvailSlots numEntries, as of an empty one.
\* The last part, "assert( sr_vector.at(tail) != buffer_sr )" of incTail, holds
\* whatever has been acknowledged.
SenderCountExact ==
  sending = "idle" =>
    /\ ~overshot =>
         /\ is_full <=> sent - acked = numEntries
         /\ getAvailSlots = IF is_full THEN numEntries ELSE numEntries - (sent - acked)
    /\ sr_vector[tail] # buffer_sr

\* "checks how many free slots are available" (the comment at getAvailSlots):
\* of a buffer that is not full, the answer is the number of free slots.  It is
\* not once a batch of acknowledgements has gone past the end.
FreeSlotsCounted ==
  sending = "idle" /\ sent - acked < numEntries
    => getAvailSlots = numEntries - (sent - acked)

\* Nothing is overwritten: the receiver gets the messages in the order they
\* were sent, none lost and none twice, around the wrap of all three indices.
ReceivedInOrder == received = [n \in 1..Len(received) |-> n]

-----------------------------------------------------------------------------
\* The inductive invariant.  How often each index has moved is a number of
\* messages; two indices are as far apart as these numbers, or a whole lap.

\* How often tail, and how often head, has moved.
TailMoves == IF sending = "written" THEN sent - 1 ELSE sent
HeadMoves == IF polled = 0 THEN Len(received) ELSE Len(received) - 1

Dist(k, j) == IF k <= j THEN j - k ELSE j - k + numEntries
Apart(k, j, n) == n = Dist(k, j) \/ (k = j /\ n = numEntries)

\* Where the next message goes.
NextSlot == IF sending = "written" THEN Advance(tail, 1) ELSE tail

CBufTypeOK ==
  /\ tail \in Indices /\ senders_head \in Indices /\ head \in Indices
  /\ is_full \in BOOLEAN /\ buffer_sr \in BOOLEAN
  /\ sr_vector \in [Indices -> BOOLEAN] /\ entries \in [Indices -> Nat]
  /\ sending \in {"idle", "marked", "written"}
  /\ polled \in Nat /\ acks \in Nat /\ sent \in Nat /\ acked \in Nat
  /\ received \in Seq(Nat) /\ overshot \in BOOLEAN

\* The receiver has the messages up to HeadMoves behind it, the one it
\* processes is the next, and the memory holds the rest up to sent.
ReceiverInv ==
  /\ acked + acks = HeadMoves /\ HeadMoves <= sent /\ sent <= acked + numEntries
  /\ sending = "marked" => sent < acked + numEntries
  /\ sending = "written" => sent > acked
  /\ Apart(head, NextSlot, sent - HeadMoves)
  /\ polled # 0 => polled = HeadMoves + 1 /\ HeadMoves < sent
  /\ ReceivedInOrder
  /\ \A k \in Indices :
       LET m == HeadMoves + 1 + Dist(head, k)
       IN  \/ entries[k] = IF m <= sent THEN m ELSE 0
           \/ k = head /\ polled # 0 /\ entries[k] = 0

\* The sender's indices are a lap apart exactly when is_full says so.
CountInv ==
  /\ Apart(senders_head, tail, TailMoves - acked)
  /\ is_full <=> TailMoves = acked + numEntries

\* This is so until a batch goes past the end; the entries behind tail carry
\* the sense bit of the lap in any case.
SenderInv ==
  /\ ~overshot => CountInv
  /\ \A k \in Indices : sr_vector[k] <=>
       IF k < tail \/ (k = tail /\ sending # "idle") THEN buffer_sr ELSE ~buffer_sr

=============================================================================
