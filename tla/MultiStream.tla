---------------------------- MODULE MultiStream ----------------------------
(***************************************************************************)
(* One stream of a MultiStream role: a SendMultiStream on the sending      *)
(* endpoint (multi_stream_sender.rs), the inline item handler and the      *)
(* StreamState it feeds (multi_stream_receiver.rs, build and handle_item), *)
(* and the task reading the ReceiveMultiStream (next_packet, try_pop).     *)
(*                                                                         *)
(* An item is the packet SendMultiStream encodes: the TransmitPacket      *)
(* header, then the MultiStreamItem with the stream id, the seq and the    *)
(* payload, Some(value) of a u8 or None for the end marker.  The handler   *)
(* decodes the id and seq from it, and the reader the payload.  The        *)
(* receiver's one-slot localq channel is `queue`.                          *)
(***************************************************************************)
EXTENDS Integers, Sequences, FiniteSets, EndpointProto, StdProto

CONSTANTS
    MaxItems,    \* payload items the sender may send before end()
    QueueCap,    \* capacity of the StreamState's localq channel (1 in the code)
    StartSeq,    \* the next_seq given to new_stream: None or a number
    None,        \* model value for Option::None
    Lossy,       \* a send may take a seq and not deliver the item
    Reorder,     \* the transport may deliver items out of order
    Owner,       \* the stream's MultiStreamId: the owner endpoint and the id
    Id

ASSUME QueueCap \in Nat \ {0} /\ MaxItems \in Nat

Seqs  == 0..MaxItems

\* The packet of the item with seq s and payload Option bytes o; the value
\* a send carries is its seq.  Plane and topic are the role's, here 0 and 1.
ItemPacket(s, o) ==
    LET item == MultiStreamItemBytes(Owner, Id, s, o)
    IN  TransmitHeader(Len(item), 0, 1, Owner) \o item
ValuePacket(s) == ItemPacket(s, OptionSome(<<s>>))
EndPacket(s) == ItemPacket(s, OptionNone(1))
Packets == {ValuePacket(s) : s \in Seqs} \cup {EndPacket(s) : s \in Seqs}

\* OrderedItem: the seq, whether the payload is None, and the packet
Items == [seq : Seqs, shutdown : BOOLEAN, packet : Packets]

VARIABLES
    sendSeq,       \* SendMultiStream.next_seq
    ended,         \* end() has been called
    net,           \* items sent and not yet handled by the receiver
    heap,          \* StreamState.heap
    firstSeq,      \* StreamState.first_seq
    lastSeq,       \* StreamState.last_seq
    receivedCount, \* StreamState.received_count
    nextSeq,       \* StreamState.next_seq
    queue,         \* the localq channel between handle_item and the reader
    registered,    \* broker_state.streams still maps the stream id
    reader,        \* the reading task: "idle", "parked" in recv, or "done"
    got            \* sequence numbers the reader has returned, in order

vars == <<sendSeq, ended, net, heap, firstSeq, lastSeq, receivedCount,
          nextSeq, queue, registered, reader, got>>

MinSeq(S) == CHOOSE x \in S : \A y \in S : x.seq <= y.seq

\* new_stream (receiver), new_stream (sender)
Init ==
    /\ sendSeq = 0
    /\ ended = FALSE
    /\ net = <<>>
    /\ heap = {}
    /\ firstSeq = 0
    /\ lastSeq = None
    /\ receivedCount = 0
    /\ nextSeq = StartSeq
    /\ queue = <<>>
    /\ registered = TRUE
    /\ reader = "idle"
    /\ got = <<>>

-----------------------------------------------------------------------------
(* Sender                                                                   *)

\* send/try_send: take a seq, then send the item.  try_send returns false
\* without sending when the send cannot complete at once, and a send future
\* dropped before it completes sends nothing: the seq is taken all the same.
SendItem ==
    /\ ~ended /\ sendSeq < MaxItems
    /\ \E delivered \in IF Lossy THEN BOOLEAN ELSE {TRUE} :
           net' = IF delivered
                     THEN Append(net, ValuePacket(sendSeq))
                     ELSE net
    /\ sendSeq' = sendSeq + 1
    /\ UNCHANGED <<ended, heap, firstSeq, lastSeq, receivedCount, nextSeq,
                   queue, registered, reader, got>>

\* end(): the end marker takes the next seq
End ==
    /\ ~ended
    /\ net' = Append(net, EndPacket(sendSeq))
    /\ sendSeq' = sendSeq + 1
    /\ ended' = TRUE
    /\ UNCHANGED <<heap, firstSeq, lastSeq, receivedCount, nextSeq,
                   queue, registered, reader, got>>

-----------------------------------------------------------------------------
(* Receiver: the inline handler                                             *)

\* The item the transport hands to the handler next
Deliverable == IF Reorder \/ net = <<>> THEN 1..Len(net) ELSE {1}

RemoveAt(s, i) == SubSeq(s, 1, i - 1) \o SubSeq(s, i + 1, Len(s))

(* Variants of the next definitions as a plausible slip would write them:  *)
(* try_send's Full case ignored, the done check reading received_count     *)
(* before its increment or dropping its + 1, and try_pop left out of       *)
(* next_packet or not comparing the seq.                                   *)
ChannelHasRoomAlways == TRUE
StreamIsDoneEarly(last, first, cnt) == last # None /\ last - first = cnt
StreamIsDoneStale(last, first, cnt) ==
    last # None /\ last - first + 1 = receivedCount

\* localq's try_send succeeds unless the channel is full
ChannelHasRoom == Len(queue) < QueueCap

\* the value handle_item returns
StreamIsDone(last, first, cnt) == last # None /\ last - first + 1 = cnt

\* handle_item.  The loop compares every popped seq with the local next_seq,
\* which it never advances, so it pops at most one item; a pop that finds
\* the channel full puts the item back.
HandleItem(it) ==
    LET nx   == IF nextSeq = None THEN it.seq ELSE nextSeq
        h    == heap \cup {it}
        top  == MinSeq(h)
        pops == top.seq = nx /\ ChannelHasRoom
        cnt  == receivedCount + 1
        last == IF it.shutdown THEN it.seq ELSE lastSeq
    IN  /\ firstSeq' = IF nextSeq = None THEN it.seq ELSE firstSeq
        /\ IF it.seq < nx
              THEN UNCHANGED <<heap, lastSeq, receivedCount, nextSeq, queue,
                               registered>>
              ELSE /\ heap' = IF pops THEN h \ {top} ELSE h
                   /\ queue' = IF pops THEN Append(queue, top) ELSE queue
                   /\ nextSeq' = IF pops THEN nx + 1 ELSE nextSeq
                   /\ receivedCount' = cnt
                   /\ lastSeq' = last
                   \* stream_is_done: the broker forgets the stream id
                   /\ registered' = ~StreamIsDone(last, firstSeq', cnt)

\* What build's callback decodes of a packet, after the TransmitPacket
\* header: the seq, the stream id's id (not its owner), and whether the
\* payload is None
Decoded(p) ==
    [seq |-> MSItemSeq(p, PacketBase), id |-> MSItemStreamId(p, PacketBase),
     shutdown |-> ~OptionIsSome(p, MSItemPayloadAt(PacketBase))]

\* The build callback: look the stream id up, then handle_item
ReceiveItem ==
    \E i \in Deliverable :
        LET d == Decoded(net[i]) IN
        /\ net' = RemoveAt(net, i)
        /\ IF registered /\ d.id = Id
              THEN HandleItem([seq |-> d.seq, shutdown |-> d.shutdown, packet |-> net[i]])
              ELSE UNCHANGED <<heap, firstSeq, lastSeq, receivedCount,
                               nextSeq, queue, registered>>
        /\ UNCHANGED <<sendSeq, ended, reader, got>>

-----------------------------------------------------------------------------
(* Receiver: the reading task                                               *)

TryPopOkNever == FALSE
TryPopOkAny == heap # {}

\* try_pop: the heap's top, if it is the next seq
TryPopOk == heap # {} /\ (nextSeq = None \/ MinSeq(heap).seq = nextSeq)

TryPop ==
    LET top == MinSeq(heap) IN
    /\ heap' = heap \ {top}
    /\ firstSeq' = IF nextSeq = None THEN top.seq ELSE firstSeq
    /\ nextSeq' = top.seq + 1

\* next(): decode the item after the TransmitPacket header and return its
\* payload, Some(value) or None at the end of the stream
Take(it) ==
    LET at == MSItemPayloadAt(PacketBase) IN
    IF OptionIsSome(it.packet, at)
       THEN /\ got' = Append(got, OptionValue(it.packet, at, 1)[1])
            /\ reader' = "idle"
       ELSE /\ reader' = "done"
            /\ UNCHANGED got

\* next_packet up to its await: try_recv, then try_pop, else park in recv
ReaderNext ==
    /\ reader = "idle"
    /\ \/ /\ queue # <<>>
          /\ Take(Head(queue)) /\ queue' = Tail(queue)
          /\ UNCHANGED <<heap, firstSeq, nextSeq>>
       \/ /\ queue = <<>> /\ TryPopOk
          /\ Take(MinSeq(heap)) /\ TryPop
          /\ UNCHANGED queue
       \/ /\ queue = <<>> /\ ~TryPopOk
          /\ reader' = "parked"
          /\ UNCHANGED <<heap, firstSeq, nextSeq, queue, got>>
    /\ UNCHANGED <<sendSeq, ended, net, lastSeq, receivedCount, registered>>

\* recv().await returns
ReaderWake ==
    /\ reader = "parked" /\ queue # <<>>
    /\ Take(Head(queue)) /\ queue' = Tail(queue)
    /\ UNCHANGED <<sendSeq, ended, net, heap, firstSeq, lastSeq, receivedCount,
                   nextSeq, registered>>

\* The sender has ended and the reader has returned the end marker
Finished ==
    /\ ended /\ net = <<>> /\ reader = "done"
    /\ UNCHANGED vars

Next ==
    \/ SendItem \/ End
    \/ ReceiveItem
    \/ ReaderNext \/ ReaderWake
    \/ Finished

\* The transport delivers every sent packet; the reader keeps calling next()
Fairness ==
    /\ WF_vars(ReceiveItem)
    /\ WF_vars(ReaderNext)
    /\ WF_vars(ReaderWake)

Spec == Init /\ [][Next]_vars /\ Fairness

-----------------------------------------------------------------------------
(* Properties                                                               *)

OptSeq == Seqs \cup {MaxItems + 1, None}

TypeOK ==
    /\ sendSeq \in 0..MaxItems + 1
    /\ ended \in BOOLEAN
    /\ net \in Seq(Packets)
    /\ heap \subseteq Items
    /\ firstSeq \in Seqs
    /\ lastSeq \in Seqs \cup {None}
    /\ receivedCount \in 0..MaxItems + 1
    /\ nextSeq \in OptSeq
    /\ queue \in Seq(Items) /\ Len(queue) <= QueueCap
    /\ registered \in BOOLEAN
    /\ reader \in {"idle", "parked", "done"}
    /\ got \in Seq(Seqs)

\* The reader's next() returns the sent values in sequence order with no
\* gap and no repeat, and, once it has returned None, it has returned every
\* value from the stream's first seq up to the end marker, whatever order
\* the items were handled in and however often the one-slot channel was full.
InOrder ==
    /\ \A i \in 1..Len(got) - 1 : got[i + 1] = got[i] + 1
    /\ reader = "done" =>
         got = [i \in 1..(lastSeq - firstSeq) |-> firstSeq + i - 1]

\* build's callback removes the stream id from the broker only when
\* handle_item reports the stream done, and that must not happen while an
\* item of the stream is still on its way: it would then be dropped as an
\* unknown stream id.
NoEarlyCleanup ==
    ~registered =>
        \A i \in 1..Len(net) :
            LET sq == Decoded(net[i]).seq
            IN  sq < firstSeq \/ (lastSeq # None /\ sq > lastSeq)

\* Once the sender has called end(), the reader's next() eventually returns
\* the end of the stream.
StreamCompletes == ended ~> (reader = "done")

\* Once the sender has called end(), handle_item eventually reports the
\* stream done and the broker drops its entry.
StreamCleanedUp == ended ~> ~registered

=============================================================================
