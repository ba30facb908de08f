---------------------------- MODULE EndpointProto ----------------------------
(***************************************************************************)
(* The byte layouts of endpoint_proto.rs that the packet path reads and    *)
(* writes: the PacketBundle header a transport puts before each bundle,    *)
(* the TransmitPacket header at the start of every packet, with the        *)
(* Lazy accessors' offsets, and the EndpointAddr the header and the        *)
(* PlaneHandshake carry.                                                   *)
(***************************************************************************)
EXTENDS Naturals, Sequences, LittleEndian

\* PacketBundle::BASE_LEN and TransmitPacket::BASE_LEN
BundleBase == 6
PacketBase == 20

\* EndpointAddr's encode: endpoint, a u64
EndpointAddrBytes(a) == LE(a, 8)

\* EndpointAddr's decode of the 8 bytes after off
EndpointAddrAt(s, off) == FromLE(s, off, 8)

\* TransmitPacket's encode: payload_length, infra_id, plane_id, topic, source
TransmitHeader(len, plane, topic, src) ==
    LE(len % 2^16, 2) \o LE(0, 2) \o LE(plane, 4) \o LE(topic, 4) \o EndpointAddrBytes(src)

\* PacketBundle's encode: channel_id, length
BundleHeader(ch, len) == LE(ch, 4) \o LE(len % 2^16, 2)

\* The TransmitPacket accessors at offsets 0, 4, 8, 12 of a header at off
PayloadLen(s, off) == FromLE(s, off, 2)

\* What a handler reads of a packet: its header, and packet[BASE_LEN..]
DecodePacket(p) ==
    [plane |-> FromLE(p, 4, 4), topic |-> FromLE(p, 8, 4), src |-> EndpointAddrAt(p, 12),
     payload |-> SubSeq(p, PacketBase + 1, Len(p))]

=============================================================================
