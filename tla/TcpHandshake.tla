----------------------------- MODULE TcpHandshake -----------------------------
(***************************************************************************)
(* Connecting a client to a TcpServer (tcp_client_server.rs).  One task    *)
(* per accepted connection runs TcpServer::accept: it takes the plane id   *)
(* from the server's next_plane_id cell, writes the PlaneHandshake framed  *)
(* by its u16 length, then adds the TcpTransport and starts its role as    *)
(* endpoint 0 on that plane, whose packets tcp-tx writes to the same       *)
(* socket.  tcp_connect on the other side reads the length and the         *)
(* handshake with read_exact, starts its role on the plane and address it  *)
(* read, and hands the rest of the stream to its own tcp-rx.               *)
(*                                                                         *)
(* The stream is a byte sequence per connection; a packet the server's     *)
(* role sends is one bundle of one packet with a one-byte payload.  How    *)
(* tcp-rx splits the stream into reads is TcpIngress's subject.            *)
(***************************************************************************)
EXTENDS Naturals, Sequences, FiniteSets, EndpointProto

CONSTANTS
    Conns,        \* connections accepted by one TcpServer, each by its own task
    InitLen,      \* the length of the role's Init as mproto encodes it
    MaxPackets,   \* packets the server's role sends on a connection
    Topic         \* the topic those packets are on

ASSUME MaxPackets \in Nat /\ InitLen \in Nat

\* The Init's bytes; their values are the role's business
InitBytes == [i \in 1..InitLen |-> 255]

\* The endpoint addresses accept gives its own role and sends the client
ServerAddr == 0
ClientAddr == 1

VARIABLES
    nextPlane,  \* next_plane_id
    spc,        \* each accept task: "idle", "handshake", "started", "failed"
    plane,      \* the plane id each accept task took
    wire,       \* the bytes the server wrote on each connection
    closed,     \* the connection is gone: writes fail, reads end
    sent,       \* packets the server's role sent on each connection
    cpc,        \* each tcp_connect: "len", "payload", "started", "failed"
    cpos,       \* bytes the client has read from the stream
    clen,       \* the payload_len it read
    cplane,     \* the plane_id and endpoint_addr of the handshake it read
    caddr,
    got         \* what the client's tcp-rx handed to its packet processor

vars == <<nextPlane, spc, plane, wire, closed, sent, cpc, cpos, clen, cplane, caddr, got>>

\* PlaneHandshake's encode: plane_id u32, endpoint_addr u64, init
PlaneHandshakeBytes(p, a) == LE(p, 4) \o EndpointAddrBytes(a) \o InitBytes

\* Its decode, and EndpointAddr's, on the payload read
DecodePlaneHandshake(b) == [plane |-> FromLE(b, 0, 4), addr |-> EndpointAddrAt(b, 4)]

\* TcpServer::handshake: payload_len as u16, then the payload
HandshakeFrame(p, a) ==
    LET payload == PlaneHandshakeBytes(p, a)
    IN  LE(Len(payload) % 2^16, 2) \o payload

\* A packet of the server's role as tcp-tx writes it: the PacketBundle
\* header with the writer's channel id, the plane's single channel
PacketBytes(p, k) ==
    LET pkt == TransmitHeader(1, p, Topic, ServerAddr) \o <<k>>
    IN  BundleHeader(p, Len(pkt)) \o pkt

Init ==
    /\ nextPlane = 0
    /\ spc = [c \in Conns |-> "idle"]
    /\ plane = [c \in Conns |-> 0]
    /\ wire = [c \in Conns |-> <<>>]
    /\ closed = [c \in Conns |-> FALSE]
    /\ sent = [c \in Conns |-> 0]
    /\ cpc = [c \in Conns |-> "len"]
    /\ cpos = [c \in Conns |-> 0]
    /\ clen = [c \in Conns |-> 0]
    /\ cplane = [c \in Conns |-> 0]
    /\ caddr = [c \in Conns |-> 0]
    /\ got = [c \in Conns |-> <<>>]

server == <<nextPlane, spc, plane, sent>>
client == <<cpc, cpos, clen, cplane, caddr, got>>

(* Variant of the next definition as a plausible slip would write it: the  *)
(* set left out.                                                           *)
KeepPlane == nextPlane

\* next_plane_id.set(next_plane_id.get() + 1)
AdvancePlane == nextPlane + 1

\* accept takes the plane id and advances the cell before its first await
Accept(c) ==
    /\ spc[c] = "idle"
    /\ plane' = [plane EXCEPT ![c] = nextPlane]
    /\ nextPlane' = AdvancePlane
    /\ spc' = [spc EXCEPT ![c] = "handshake"]
    /\ UNCHANGED <<wire, closed, sent>> /\ UNCHANGED client

\* write_all of the handshake: on an error accept returns it and drops the
\* stream; otherwise add_transport, start_role on the plane and local()
Handshake(c) ==
    /\ spc[c] = "handshake"
    /\ \/ /\ ~closed[c]
          /\ wire' = [wire EXCEPT ![c] = @ \o HandshakeFrame(plane[c], ClientAddr)]
          /\ spc' = [spc EXCEPT ![c] = "started"]
       \/ /\ closed[c]
          /\ spc' = [spc EXCEPT ![c] = "failed"]
          /\ UNCHANGED wire
    /\ UNCHANGED <<nextPlane, plane, closed, sent>> /\ UNCHANGED client

\* The server's role sends a packet; tcp-tx writes its bundle
ServerSend(c) ==
    /\ spc[c] = "started" /\ ~closed[c] /\ sent[c] < MaxPackets
    /\ sent' = [sent EXCEPT ![c] = @ + 1]
    /\ wire' = [wire EXCEPT ![c] = @ \o PacketBytes(plane[c], sent'[c])]
    /\ UNCHANGED <<nextPlane, spc, plane, closed>> /\ UNCHANGED client

\* The peer or the network ends the connection
Close(c) ==
    /\ ~closed[c]
    /\ closed' = [closed EXCEPT ![c] = TRUE]
    /\ UNCHANGED <<wire>> /\ UNCHANGED server /\ UNCHANGED client

Unread(c) == Len(wire[c]) - cpos[c]

\* read_exact of the two length bytes; at end of stream tcp_connect fails
ReadLen(c) ==
    /\ cpc[c] = "len"
    /\ \/ /\ Unread(c) >= 2
          /\ clen' = [clen EXCEPT ![c] = FromLE(wire[c], cpos[c], 2)]
          /\ cpos' = [cpos EXCEPT ![c] = @ + 2]
          /\ cpc' = [cpc EXCEPT ![c] = "payload"]
       \/ /\ closed[c] /\ Unread(c) < 2
          /\ cpc' = [cpc EXCEPT ![c] = "failed"]
          /\ UNCHANGED <<clen, cpos>>
    /\ UNCHANGED <<cplane, caddr, got, wire, closed>> /\ UNCHANGED server

\* read_exact of payload_len bytes and decode_value; then add_transport
\* and start_role on the plane and address read
ReadPayload(c) ==
    /\ cpc[c] = "payload"
    /\ \/ /\ Unread(c) >= clen[c]
          /\ LET hs == DecodePlaneHandshake(SubSeq(wire[c], cpos[c] + 1, cpos[c] + clen[c]))
             IN  /\ cplane' = [cplane EXCEPT ![c] = hs.plane]
                 /\ caddr' = [caddr EXCEPT ![c] = hs.addr]
          /\ cpos' = [cpos EXCEPT ![c] = @ + clen[c]]
          /\ cpc' = [cpc EXCEPT ![c] = "started"]
       \/ /\ closed[c] /\ Unread(c) < clen[c]
          /\ cpc' = [cpc EXCEPT ![c] = "failed"]
          /\ UNCHANGED <<cpos, cplane, caddr>>
    /\ UNCHANGED <<clen, got, wire, closed>> /\ UNCHANGED server

\* tcp-rx takes the next bundle and hands each packet in it to the packet
\* processor, which looks up its handlers by the packet's plane
ClientRecv(c) ==
    /\ cpc[c] = "started" /\ Unread(c) >= BundleBase
    /\ LET len == FromLE(wire[c], cpos[c] + 4, 2)
       IN  /\ Unread(c) >= BundleBase + len
           /\ got' = [got EXCEPT ![c] = Append(@,
                  DecodePacket(SubSeq(wire[c], cpos[c] + BundleBase + 1,
                                               cpos[c] + BundleBase + len)))]
           /\ cpos' = [cpos EXCEPT ![c] = @ + BundleBase + len]
    /\ UNCHANGED <<cpc, clen, cplane, caddr, wire, closed>> /\ UNCHANGED server

\* Every connection is closed and both ends are done with it
Finished ==
    /\ \A c \in Conns :
         /\ closed[c] /\ spc[c] \in {"started", "failed"}
         /\ cpc[c] = "failed" \/ (cpc[c] = "started" /\ Unread(c) = 0)
    /\ UNCHANGED vars

Next ==
    \/ \E c \in Conns :
         \/ Accept(c) \/ Handshake(c) \/ ServerSend(c) \/ Close(c)
         \/ ReadLen(c) \/ ReadPayload(c) \/ ClientRecv(c)
    \/ Finished

Spec == Init /\ [][Next]_vars

-----------------------------------------------------------------------------
(* Properties                                                               *)

TypeOK ==
    /\ nextPlane \in Nat
    /\ spc \in [Conns -> {"idle", "handshake", "started", "failed"}]
    /\ plane \in [Conns -> Nat] /\ cplane \in [Conns -> Nat]
    /\ wire \in [Conns -> Seq(0..255)] /\ closed \in [Conns -> BOOLEAN]
    /\ sent \in [Conns -> 0..MaxPackets]
    /\ cpc \in [Conns -> {"len", "payload", "started", "failed"}]
    /\ cpos \in [Conns -> Nat] /\ clen \in [Conns -> Nat] /\ caddr \in [Conns -> Nat]
    /\ got \in [Conns -> Seq([plane : Nat, topic : Nat, src : Nat, payload : Seq(0..255)])]

\* The two ends of every connection agree, whichever accept tasks run
\* concurrently: a client whose tcp_connect returned is endpoint 1 on the
\* plane its server took, no other client of the server shares that plane,
\* and what its tcp-rx hands on is exactly the server role's packets so far,
\* in order, each on that plane, from endpoint 0, with its own bytes.
HandshakeAgrees ==
    \A c \in Conns : cpc[c] = "started" =>
        /\ cplane[c] = plane[c] /\ caddr[c] = ClientAddr
        /\ \A d \in Conns \ {c} : cpc[d] = "started" => cplane[d] # cplane[c]
        /\ Len(got[c]) <= sent[c]
        /\ \A i \in 1..Len(got[c]) :
              got[c][i] = [plane |-> cplane[c], topic |-> Topic, src |-> ServerAddr,
                           payload |-> <<i>>]

=============================================================================
