------------------------------ MODULE WireFormat ------------------------------
(***************************************************************************)
(* The bytes of packets on their way from one client through the hub to    *)
(* another client and to the hub's local transport.                        *)
(*                                                                         *)
(*   PacketSender::send_raw writes a TransmitPacket header and the payload *)
(*   into its channel's writer buffer (packet_sender.rs); tcp-tx prefixes  *)
(*   each flushed buffer with a PacketBundle header (tcp_transport.rs);    *)
(*   the hub's tcp-ingress task strips that header (modrpc-hub tcp.rs);    *)
(*   the Broadcaster writes the bundle to the other client behind a new    *)
(*   header, and cuts it into packets for its local transport with         *)
(*   ShatterPacketBundle (broadcaster.rs); the other client's tcp-rx cuts  *)
(*   it with shatter_packet_bundle (transport.rs).                         *)
(*                                                                         *)
(* Headers are the little-endian layouts of endpoint_proto.rs.  Each byte  *)
(* of a payload is the number of its packet.  TcpIngress returns each      *)
(* bundle exactly (IN_FramesExact), so the sockets are queues of bundles.  *)
(* bab is not in the repository: a writer appends a packet to its buffer   *)
(* if it fits within buffer_size less the tailroom, and otherwise flushes  *)
(* the buffer first; shatter_into cuts a packet at the given offsets, the  *)
(* last piece running to its end.                                          *)
(***************************************************************************)
EXTENDS Naturals, Sequences, SequencesExt, EndpointProto

CONSTANTS
    Plane,      \* the plane id of the sending role
    Topics,     \* topic ids
    Source,     \* the sender's EndpointAddr
    ChannelA,   \* the sender's channel id, its writer id
    RemoteCh,   \* the remote channel id of the other client's next hop
    Lens,       \* payload lengths send_raw is given
    NPackets,   \* packets the sender sends
    BufSize     \* the buffer pool's buffer_size

\* Every packet fits in an empty buffer
ASSUME \A l \in Lens : PacketBase + l <= BufSize - BundleBase

\* The bytes send_raw writes for a packet
PacketBytes(r) == TransmitHeader(Len(r.payload), r.plane, r.topic, r.src) \o r.payload

-----------------------------------------------------------------------------
(* Cutting a bundle into packets                                            *)

(* Variant of the next definition as a plausible slip would write it: the  *)
(* loop running while the cursor is at most the end.                       *)
RECURSIVE OffsetsInclusive(_, _, _)
OffsetsInclusive(p, cur, end) ==
    IF cur <= end
      THEN IF cur + PacketBase > Len(p) THEN <<-1>>
           ELSE <<cur>> \o OffsetsInclusive(p, cur + PacketBase + PayloadLen(p, cur), end)
      ELSE <<>>

\* shatter_packet_bundle's loop: the offset of each packet header before
\* the end the bundle header gives; -1 where decode_value's expect panics
RECURSIVE Offsets(_, _, _)
Offsets(p, cur, end) ==
    IF cur < end
      THEN IF cur + PacketBase > Len(p) THEN <<-1>>
           ELSE <<cur>> \o Offsets(p, cur + PacketBase + PayloadLen(p, cur), end)
      ELSE <<>>

\* packet.shatter_into(offsets, ...)
Pieces(p, offs) ==
    [i \in 1..Len(offs) |->
        SubSeq(p, offs[i] + 1, IF i < Len(offs) THEN offs[i + 1] ELSE Len(p))]

\* ShatterPacketBundle's iterator: while cursor + BASE_LEN < len, the packet
\* advanced to the cursor, then the cursor moved past its header and payload
RECURSIVE LocalShatter(_, _)
LocalShatter(p, cur) ==
    IF cur + PacketBase < Len(p)
      THEN <<SubSeq(p, cur + 1, Len(p))>> \o LocalShatter(p, cur + PacketBase + PayloadLen(p, cur))
      ELSE <<>>

-----------------------------------------------------------------------------

VARIABLES
    sent,       \* ghost: the packets the sender sent, as records
    buf,        \* the bytes in the sender's writer buffer
    bufN,       \* ghost: the packets in it
    wire1,      \* the socket to the hub: bundles [bytes, n]
    hubIn,      \* the broadcaster's in-packet queue: [ch, bytes, n]
    wire2,      \* the socket to the other client: bundles [bytes, n]
    rxGot,      \* the packets the other client's tcp-rx handed on, decoded
    rxPanicked, \* tcp-rx panicked in decode or in its length assert
    localGot    \* the packets the local transport was sent, as bytes

vars == <<sent, buf, bufN, wire1, hubIn, wire2, rxGot, rxPanicked, localGot>>

Init ==
    /\ sent = <<>> /\ buf = <<>> /\ bufN = 0
    /\ wire1 = <<>> /\ hubIn = <<>> /\ wire2 = <<>>
    /\ rxGot = <<>> /\ rxPanicked = FALSE /\ localGot = <<>>

\* The flushed buffer as tcp-tx writes it: bundle header, then the bytes
TcpTx(bytes, n) == [bytes |-> BundleHeader(ChannelA, Len(bytes)) \o bytes, n |-> n]

\* send_raw: reserve(header_length + len), the header and payload encoded
\* into the reservation; the writer flushes a buffer it cannot fit
Send(topic, len) ==
    /\ Len(sent) < NPackets
    /\ LET r == [plane |-> Plane, topic |-> topic, src |-> Source,
                 payload |-> [i \in 1..len |-> Len(sent) + 1]]
           pkt == PacketBytes(r)
       IN /\ sent' = Append(sent, r)
          /\ IF Len(buf) + Len(pkt) <= BufSize - BundleBase
               THEN /\ buf' = buf \o pkt /\ bufN' = bufN + 1
                    /\ UNCHANGED wire1
               ELSE /\ wire1' = Append(wire1, TcpTx(buf, bufN))
                    /\ buf' = pkt /\ bufN' = 1
    /\ UNCHANGED <<hubIn, wire2, rxGot, rxPanicked, localGot>>

\* The writer's buffer flushed, and tcp-tx writing it if it is not empty
Flush ==
    /\ buf # <<>>
    /\ wire1' = Append(wire1, TcpTx(buf, bufN))
    /\ buf' = <<>> /\ bufN' = 0
    /\ UNCHANGED <<sent, hubIn, wire2, rxGot, rxPanicked, localGot>>

\* The hub's tcp-ingress task: decode the bundle header, or skip the bundle;
\* advance past it and send the rest to the broadcaster
SpokeIngress ==
    /\ wire1 # <<>>
    /\ LET b == Head(wire1) IN
         hubIn' = IF Len(b.bytes) >= BundleBase
                    THEN Append(hubIn, [ch |-> FromLE(b.bytes, 0, 4),
                                        bytes |-> SubSeq(b.bytes, BundleBase + 1, Len(b.bytes)),
                                        n |-> b.n])
                    ELSE hubIn
    /\ wire1' = Tail(wire1)
    /\ UNCHANGED <<sent, buf, bufN, wire2, rxGot, rxPanicked, localGot>>

\* handle_in_packet: for each next hop of the packet's channel, a TCP hop
\* gets the bundle behind a header with its remote channel id, and the local
\* transport gets each packet ShatterPacketBundle yields; a channel with no
\* next hops drops the bundle
Broadcast ==
    /\ hubIn # <<>>
    /\ LET h == Head(hubIn) IN
         IF h.ch = ChannelA
           THEN /\ wire2' = Append(wire2, [bytes |-> BundleHeader(RemoteCh, Len(h.bytes)) \o h.bytes,
                                           n |-> h.n])
                /\ localGot' = localGot \o LocalShatter(h.bytes, 0)
           ELSE UNCHANGED <<wire2, localGot>>
    /\ hubIn' = Tail(hubIn)
    /\ UNCHANGED <<sent, buf, bufN, wire1, rxGot, rxPanicked>>

\* tcp-rx: shatter_packet_bundle, the assert on the header's length, and
\* each packet handed to the packet processor
ClientRx ==
    /\ wire2 # <<>> /\ ~rxPanicked
    /\ LET b == Head(wire2).bytes
           offs == Offsets(b, BundleBase, BundleBase + PayloadLen(b, 4))
       IN IF Len(b) < BundleBase \/ -1 \in Range(offs) \/ PayloadLen(b, 4) > BufSize
            THEN /\ rxPanicked' = TRUE /\ UNCHANGED rxGot
            ELSE /\ rxGot' = rxGot \o [i \in 1..Len(offs) |-> DecodePacket(Pieces(b, offs)[i])]
                 /\ UNCHANGED rxPanicked
    /\ wire2' = Tail(wire2)
    /\ UNCHANGED <<sent, buf, bufN, wire1, hubIn, localGot>>

\* Everything sent has been delivered or tcp-rx has stopped
Done ==
    /\ Len(sent) = NPackets /\ buf = <<>> /\ wire1 = <<>> /\ hubIn = <<>>
    /\ (wire2 = <<>> \/ rxPanicked)
    /\ UNCHANGED vars

Next ==
    \/ \E t \in Topics, l \in Lens : Send(t, l)
    \/ Flush \/ SpokeIngress \/ Broadcast \/ ClientRx \/ Done

Spec == Init /\ [][Next]_vars

-----------------------------------------------------------------------------
(* Properties                                                               *)

Bundles == Seq([bytes : Seq(0..255), n : Nat])

TypeOK ==
    /\ buf \in Seq(0..255) /\ bufN \in 0..NPackets
    /\ wire1 \in Bundles /\ wire2 \in Bundles
    /\ \A i \in 1..Len(hubIn) : hubIn[i].bytes \in Seq(0..255)
    /\ rxPanicked \in BOOLEAN /\ Len(sent) <= NPackets
    /\ localGot \in Seq(Seq(0..255))

\* The packets in flight in a queue of bundles
InFlight(q) == FoldLeft(LAMBDA a, e : a + e.n, 0, q)

\* The other client's tcp-rx never panics and hands on exactly the packets
\* sent, in order, each with its plane, topic, source and payload; every
\* other packet sent is in exactly one buffer, socket or queue on the way.
BundleExact ==
    /\ ~rxPanicked
    /\ rxGot = SubSeq(sent, 1, Len(rxGot))
    /\ Len(rxGot) + bufN + InFlight(wire1) + InFlight(hubIn) + InFlight(wire2) = Len(sent)

\* The hub's local transport is sent exactly the bytes of each packet sent,
\* in order, and every packet that has passed the broadcaster.
LocalExact ==
    /\ \A i \in 1..Len(localGot) : i <= Len(sent) /\ localGot[i] = PacketBytes(sent[i])
    /\ Len(localGot) + bufN + InFlight(wire1) + InFlight(hubIn) = Len(sent)

=============================================================================
