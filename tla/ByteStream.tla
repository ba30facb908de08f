----------------------------- MODULE ByteStream -----------------------------
(***************************************************************************)
(* A ByteStream role: ByteStreamSender::send (byte_stream_sender.rs)       *)
(* numbering each blob by the stream offset of its first byte, the inline  *)
(* blob handler of ByteStreamReceiverBuilder::build, and the reader's      *)
(* ByteStreamReceiver::consume (byte_stream_receiver.rs).                  *)
(*                                                                         *)
(* A blob is its start index and its length; its bytes are the stream      *)
(* offsets start .. start + len - 1, so a byte is its offset.              *)
(***************************************************************************)
EXTENDS Integers, Sequences, FiniteSets, Functions, TLC

CONSTANTS
    MaxBytes,   \* bytes the sender may send in all
    MaxBlobs,   \* blobs the sender may send in all
    Lens,       \* lengths of the slices passed to send
    Counts,     \* counts passed to consume
    Reorder     \* the transport may deliver blobs out of order

ASSUME MaxBytes \in Nat /\ MaxBlobs \in Nat /\ Lens \subseteq Nat
       /\ Counts \subseteq Nat \ {0}

Offsets == 0..MaxBytes
Blobs   == [start : Offsets, len : Lens]

VARIABLES
    sendCursor,   \* State.send_cursor of the sender
    sentBlobs,    \* blobs sent so far
    net,          \* blobs sent and not yet handled by the inline handler
    blobs,        \* State.blobs: start index -> blob length
    current,      \* State.current_blob_start
    cursor,       \* State.consume_cursor
    crashed       \* consume panicked on a u64 subtraction

vars == <<sendCursor, sentBlobs, net, blobs, current, cursor, crashed>>

\* ByteStreamReceiverBuilder::new, ByteStreamSenderBuilder::new
Init ==
    /\ sendCursor = 0
    /\ sentBlobs = 0
    /\ net = <<>>
    /\ blobs = [s \in {} |-> 0]
    /\ current = 0
    /\ cursor = 0
    /\ crashed = FALSE

(* Variant of the next definition as a plausible slip would write it: the  *)
(* start index read after send_cursor was advanced.                        *)
BlobOfEnd(n) == [start |-> sendCursor + n, len |-> n]

\* The blob send writes: the start index is send_cursor before the advance
BlobOf(n) == [start |-> sendCursor, len |-> n]

\* ByteStreamSender::send: advance send_cursor, then send the blob
Send(n) ==
    /\ sentBlobs < MaxBlobs /\ sendCursor + n <= MaxBytes
    /\ net' = Append(net, BlobOf(n))
    /\ sendCursor' = sendCursor + n
    /\ sentBlobs' = sentBlobs + 1
    /\ UNCHANGED <<blobs, current, cursor, crashed>>

\* blobs.entry(start_index).or_insert(packet)
StoreBlob(b) == IF b.start \in DOMAIN blobs THEN blobs ELSE blobs @@ (b.start :> b.len)

(* Variant of the next definition as a plausible slip would write it: the  *)
(* comparison turned round.                                                *)
BlobStartAfter(b) == IF b.start > current THEN b.start ELSE current

\* if start_index < current_blob_start { current_blob_start = start_index }
BlobStart(b) == IF b.start < current THEN b.start ELSE current

\* The inline handler: lower current_blob_start to an earlier blob, store
\* the blob, wake the waiters
Receive ==
    \E i \in (IF Reorder \/ net = <<>> THEN 1..Len(net) ELSE {1}) :
        LET b == net[i] IN
        /\ net' = SubSeq(net, 1, i - 1) \o SubSeq(net, i + 1, Len(net))
        /\ current' = BlobStart(b)
        /\ blobs' = StoreBlob(b)
        /\ UNCHANGED <<sendCursor, sentBlobs, cursor, crashed>>

(* Variant of the next definition as a plausible slip would write it: the  *)
(* bytes returned not capped at the rest of the blob, or the subtraction   *)
(* turned round.                                                           *)
TakenCount(len, offset, count) == count
TakenSwapped(len, offset, count) ==
    IF offset - len < count THEN offset - len ELSE count

\* The bytes consume returns: the rest of the blob, capped at count
Taken(len, offset, count) ==
    IF len - offset < count THEN len - offset ELSE count

\* ByteStreamReceiver::consume(count).  The offset and the remaining length
\* are u64 subtractions, which panic when they underflow.
Consume(count) ==
    /\ ~crashed
    /\ current \in DOMAIN blobs
    /\ LET len    == blobs[current]
           offset == cursor - current
       IN  IF offset < 0 \/ len < offset
              THEN /\ crashed' = TRUE
                   /\ UNCHANGED <<sendCursor, sentBlobs, net, blobs, current,
                                  cursor>>
              ELSE /\ IF count >= len - offset
                         THEN /\ blobs' = [s \in DOMAIN blobs \ {current} |->
                                              blobs[s]]
                              /\ current' = current + len
                         ELSE UNCHANGED <<blobs, current>>
                   /\ cursor' = cursor + Taken(len, offset, count)
                   /\ UNCHANGED <<sendCursor, sentBlobs, net, crashed>>

\* The sender is done and the reader has everything
Finished ==
    /\ net = <<>> /\ cursor = sendCursor
    /\ UNCHANGED vars

Next ==
    \/ \E n \in Lens : Send(n)
    \/ Receive
    \/ \E c \in Counts : Consume(c)
    \/ Finished

\* The transport delivers every blob; the reader keeps consuming while
\* bytes are ready (peek_ahead wakes it on every blob)
Fairness == WF_vars(Receive) /\ WF_vars(\E c \in Counts : Consume(c))

Spec == Init /\ [][Next]_vars /\ Fairness

-----------------------------------------------------------------------------
(* Properties                                                               *)

TypeOK ==
    /\ sendCursor \in Offsets /\ sentBlobs \in 0..MaxBlobs
    /\ net \in Seq(Blobs)
    /\ DOMAIN blobs \subseteq Offsets /\ \A s \in DOMAIN blobs : blobs[s] \in Lens
    /\ current \in Offsets /\ cursor \in Offsets
    /\ crashed \in BOOLEAN

\* Every byte sent is eventually returned by consume.
AllConsumed == \A n \in 1..MaxBytes : (sendCursor >= n) ~> (cursor >= n)

=============================================================================
