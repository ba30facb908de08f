--------------------------- MODULE StreamReceiver ---------------------------
(***************************************************************************)
(* A Stream role: StreamSender::send (stream_sender.rs) numbering items,   *)
(* the inline item handler of StreamReceiverBuilder::build                 *)
(* (stream_receiver.rs) reordering them through a min-heap into a localq   *)
(* channel, and the receiver task that hands each one to the handler.      *)
(* Items travel as packets: the TransmitPacket header, then the          *)
(* StreamItem encoding, whose payload is one byte holding the item's index *)
(* so that the handler's input tells the items apart.  The inline handler  *)
(* reads the item at ItemAt (stream_receiver.rs:103 decodes the packet     *)
(* from its start, so 0); the receiver task at TransmitPacket::BASE_LEN.   *)
(***************************************************************************)
EXTENDS Integers, Sequences, FiniteSets, EndpointProto, StdProto

CONSTANTS
    MaxItems,   \* items the sender sends
    QueueCap,   \* capacity of the localq channel (64 in the code)
    Reorder,    \* the transport may deliver items out of order
    Plane,      \* the role's plane id
    Topic,      \* the item topic
    Source,     \* the sender's EndpointAddr
    ItemAt      \* the offset at which the inline handler decodes the item

ASSUME QueueCap \in Nat \ {0} /\ MaxItems \in Nat /\ ItemAt \in Nat

Seqs == 0..MaxItems - 1

\* The packet of item s as the sender's hooks.item.send writes it
ItemPacket(s) ==
    LET item == StreamItemBytes(s, <<s>>)
    IN  TransmitHeader(Len(item), Plane, Topic, Source) \o item

Packets == {ItemPacket(s) : s \in Seqs}

\* The seq the inline handler reads from a packet: stream_item.seq()
InlineSeq(p) == StreamItemSeq(p, ItemAt)

VARIABLES
    sendSeq,   \* State.next_seq of the sender
    net,       \* packets sent and not yet handled by the inline handler
    heap,      \* the handler's BinaryHeap of packets, keyed by InlineSeq
    queue,     \* the localq channel to the receiver task
    handled    \* payload bytes the receiver task passed to the handler

vars == <<sendSeq, net, heap, queue, handled>>

Init ==
    /\ sendSeq = 0
    /\ net = <<>>
    /\ heap = {}
    /\ queue = <<>>
    /\ handled = <<>>

\* StreamSender::send: take the seq, then send the item
Send ==
    /\ sendSeq < MaxItems
    /\ net' = Append(net, ItemPacket(sendSeq))
    /\ sendSeq' = sendSeq + 1
    /\ UNCHANGED <<heap, queue, handled>>

\* Item's Ord compares seqs, and the heap holds Reverse(Item): it pops the
\* items in increasing seq order
BySeq(items) ==
    [i \in 1..Cardinality(items) |->
        CHOOSE p \in items : Cardinality({x \in items : InlineSeq(x) < InlineSeq(p)}) = i - 1]

(* Variant of the next definition as a plausible slip would write it: the  *)
(* loop popping the heap's top without comparing it with next_seq.         *)
PoppedRunAny(h) == h

\* The packets the handler's loop pops: with next_seq starting at 0 on every
\* call, those whose seqs make up the run 0, 1, 2, ... present in the heap
PoppedRun(h) == {p \in h : 0..InlineSeq(p) \subseteq {InlineSeq(q) : q \in h}}

(* Variant of the next definition as a plausible slip would write it: the  *)
(* channel's capacity not checked.                                         *)
TrySendAllBlind(q, items) ==
    q \o BySeq(items)

\* try_send of each popped item in seq order; a full channel drops it
TrySendAll(q, items) ==
    LET ordered == BySeq(items)
        room    == QueueCap - Len(q)
    IN  q \o SubSeq(ordered, 1, IF room < Len(ordered) THEN room
                                                     ELSE Len(ordered))

\* The inline handler for one item: push it, then pop while the top is the
\* next seq
HandleItem ==
    \E i \in (IF Reorder \/ net = <<>> THEN 1..Len(net) ELSE {1}) :
        LET h   == heap \cup {net[i]}
            run == PoppedRun(h)
        IN  /\ net' = SubSeq(net, 1, i - 1) \o SubSeq(net, i + 1, Len(net))
            /\ heap' = h \ run
            /\ queue' = TrySendAll(queue, run)
            /\ UNCHANGED <<sendSeq, handled>>

\* The receiver task: recv, decode the header and the item after it, then
\* handler.call with the item's payload
ReceiverTask ==
    /\ queue # <<>>
    /\ handled' = handled \o StreamItemPayload(Head(queue), PacketBase)
    /\ queue' = Tail(queue)
    /\ UNCHANGED <<sendSeq, net, heap>>

\* Every item is sent and the transport is empty
Finished ==
    /\ sendSeq = MaxItems /\ net = <<>> /\ queue = <<>>
    /\ UNCHANGED vars

Next == Send \/ HandleItem \/ ReceiverTask \/ Finished

\* The transport delivers every packet; the receiver task runs when woken
Fairness == WF_vars(HandleItem) /\ WF_vars(ReceiverTask)

Spec == Init /\ [][Next]_vars /\ Fairness

-----------------------------------------------------------------------------
(* Properties                                                               *)

TypeOK ==
    /\ sendSeq \in 0..MaxItems
    /\ net \in Seq(Packets)
    /\ heap \subseteq Packets
    /\ queue \in Seq(Packets) /\ Len(queue) <= QueueCap
    /\ handled \in Seq(Seqs)

\* The receiver task hands items to the handler in stream order: the items
\* handled so far are 0, 1, 2, ... with none skipped or repeated, however
\* the items arrived and however full the channel was.
HandledInOrder == handled = [i \in 1..Len(handled) |-> i - 1]

\* Every item the sender sends is eventually passed to the handler.
AllHandled == <>[](Len(handled) = MaxItems)

=============================================================================
