--------------------------- MODULE HubBroadcaster ---------------------------
(***************************************************************************)
(* The app hub of modrpc-hub: one Broadcaster task (broadcaster.rs) that   *)
(* selects between its in-packet queue and its request queue, the hub's    *)
(* own LocalHubTransport (local.rs) registered by AppHubBuilder::build      *)
(* (app_hub.rs) before anything else, the accept loop of spawn_hub_tcp     *)
(* (app_hub.rs) that registers one TCP client at a time, and each          *)
(* client's ingress task (tcp.rs, spawn_tcp_spoke) that forwards the       *)
(* client's bundles and removes its transport when the socket closes.      *)
(*                                                                         *)
(* The hub uses one channel (0x42424242), so next_hops is the sequence of  *)
(* next hops of that channel and transport_local_channel_ids counts a      *)
(* transport's entries for it.  A TransportIndex is a versioned slotmap    *)
(* key, never handed out again: a transport is its client (or Local).  A   *)
(* bundle is <<origin, n>>, the n-th bundle its origin forwarded.  The     *)
(* request queue holds 16; the model has fewer requesters than that, so a  *)
(* request is queued at once.                                              *)
(***************************************************************************)
EXTENDS Naturals, Sequences, FiniteSets

LOCAL INSTANCE SequencesExt

CONSTANTS
    Clients,     \* TCP clients that connect to the hub
    Local,       \* the hub's own LocalHubTransport
    MaxBundles,  \* bundles each client (and the hub's role) sends
    InCap        \* capacity of the in-packet queue (64)

Transports == Clients \cup {Local}
Requesters == {"setup", "accept"} \cup Clients
Bundles    == Transports \X (1..MaxBundles)
NoClient   == "none"

ASSUME Local \notin Clients /\ NoClient \notin Clients

VARIABLES
    live,      \* transports in the slotmaps (tcp_transports, local_transports)
    nextHops,  \* next_hops of the channel, in push order
    tlc,       \* entries of transport_local_channel_ids per transport
    reqq,      \* the broadcaster's request queue
    waiting,   \* requester awaiting its oneshot response
    inq,       \* the broadcaster's in-packet queue
    setup,     \* AppHubBuilder::build: "addLocal", "nextHop", "ready"
    accPc,     \* accept loop: "idle", "add" (in add_tcp), "nextHop"
    accCur,    \* the client the accept loop is registering
    accepted,  \* clients whose handshake succeeded
    rejected,  \* clients whose handshake failed
    ing,       \* ingress task: "none", "run", "removing"
    connected, \* the client's socket is open
    wrote,     \* bundles the client has written to its socket
    fwd,       \* bundles each origin has forwarded to the in-packet queue
    got,       \* bundles written to each transport, in order
    due        \* transports registered and live when the bundle was forwarded

vars == <<live, nextHops, tlc, reqq, waiting, inq, setup, accPc, accCur,
          accepted, rejected, ing, connected, wrote, fwd, got, due>>

\* Broadcaster::new: empty slotmaps, next_hops, transport_local_channel_ids
\* and queues
BroadcasterNew ==
    /\ live = {}
    /\ nextHops = <<>>
    /\ tlc = [t \in Transports |-> 0]
    /\ inq = <<>>

\* AppHubBuilder::build up to its first request, add_local_transport
Init ==
    /\ BroadcasterNew
    /\ reqq = <<[op |-> "addLocal", t |-> Local, from |-> "setup"]>>
    /\ waiting = [r \in Requesters |-> r = "setup"]
    /\ setup = "addLocal"
    /\ accPc = "idle"
    /\ accCur = NoClient
    /\ accepted = {}
    /\ rejected = {}
    /\ ing = [c \in Clients |-> "none"]
    /\ connected = [c \in Clients |-> FALSE]
    /\ wrote = [c \in Clients |-> 0]
    /\ fwd = [t \in Transports |-> 0]
    /\ got = [t \in Transports |-> <<>>]
    /\ due = [b \in Bundles |-> {}]

\* BroadcasterHandle::add_*, add_next_hop_to_channels, remove_transport:
\* send the request and await the response
Request(r, op, t) ==
    /\ reqq' = Append(reqq, [op |-> op, t |-> t, from |-> r])
    /\ waiting' = [waiting EXCEPT ![r] = TRUE]

\* The oneshot response wakes the requester
Respond(r) == waiting' = [waiting EXCEPT ![r] = FALSE]

-----------------------------------------------------------------------------
(* The broadcaster task                                                     *)

(* Variant of the next definition as a plausible slip would write it: the  *)
(* origin not skipped.                                                     *)
TargetsWithOrigin(o) == {h \in ToSet(nextHops) : h \in live}

\* The next hops broadcast writes to: not the origin, and only transports
\* still in their slotmap
Targets(o) == {h \in ToSet(nextHops) : h # o /\ h \in live}

\* broadcast: bundle b is written to every target; a write to a closed
\* socket may fail, which removes the transport from its slotmap but leaves
\* next_hops and transport_local_channel_ids alone
Broadcast(b) ==
    LET T == Targets(b[1]) IN
    \E failed \in SUBSET {u \in T \cap Clients : ~connected[u]} :
        /\ got' = [u \in Transports |->
                     IF u \in T \ failed THEN Append(got[u], b) ELSE got[u]]
        /\ live' = live \ failed

\* handle_in_packet: the channel has next hops, so the bundle is broadcast
HandleInPacket ==
    /\ inq # <<>>
    /\ IF nextHops # <<>> THEN Broadcast(Head(inq)) ELSE UNCHANGED <<got, live>>
    /\ inq' = Tail(inq)
    /\ UNCHANGED <<nextHops, tlc, reqq, waiting, setup, accPc, accCur, accepted,
                   rejected, ing, connected, wrote, fwd, due>>

(* Variant of the next definition as a plausible slip would write it: the  *)
(* retain predicate turned round, keeping only the removed transport.      *)
RetainInverted(t) == SelectSeq(nextHops, LAMBDA h : h = t)

(* Variant of the next definition as a plausible slip would write it: the  *)
(* next hops left as they were.                                            *)
RetainNone(t) == nextHops

\* next_hops.retain(|next_hop| next_hop.transport != transport)
Retain(t) == SelectSeq(nextHops, LAMBDA h : h # t)

\* remove_transport: out of its slotmap; if it has local channel ids, out of
\* the next hops of each of them
RemoveTransport(t) ==
    /\ live' = live \ {t}
    /\ IF tlc[t] > 0
          THEN nextHops' = Retain(t) /\ tlc' = [tlc EXCEPT ![t] = 0]
          ELSE UNCHANGED <<nextHops, tlc>>

\* handle_request: AddTcp / AddLocal insert the transport, Remove removes
\* it, AddNextHopToChannels pushes a next hop and extends the transport's
\* local channel ids; then the response is sent
HandleRequest ==
    /\ reqq # <<>>
    /\ LET q == Head(reqq) IN
       /\ CASE q.op \in {"addTcp", "addLocal"} ->
                 live' = live \cup {q.t} /\ UNCHANGED <<nextHops, tlc>>
            [] q.op = "remove" -> RemoveTransport(q.t)
            [] q.op = "nextHop" ->
                 /\ nextHops' = Append(nextHops, q.t)
                 /\ tlc' = [tlc EXCEPT ![q.t] = @ + 1]
                 /\ UNCHANGED live
       /\ Respond(q.from)
    /\ reqq' = Tail(reqq)
    /\ UNCHANGED <<inq, setup, accPc, accCur, accepted, rejected, ing,
                   connected, wrote, fwd, got, due>>

-----------------------------------------------------------------------------
(* AppHubBuilder::build and the LocalHubTransport                           *)

\* start_transport (Static): add_local has returned; add the next hop for
\* each of its channel ids (one, 0x42424242)
SetupNextHop ==
    /\ setup = "addLocal" /\ ~waiting["setup"]
    /\ setup' = "nextHop"
    /\ Request("setup", "nextHop", Local)
    /\ UNCHANGED <<live, nextHops, tlc, inq, accPc, accCur, accepted, rejected,
                   ing, connected, wrote, fwd, got, due>>

\* add_next_hop_to_channels has returned: the flush task is spawned, the
\* transport is added and spawn_hub_tcp starts the accept loop
SetupDone ==
    /\ setup = "nextHop" /\ ~waiting["setup"]
    /\ setup' = "ready"
    /\ UNCHANGED <<live, nextHops, tlc, reqq, waiting, inq, accPc, accCur,
                   accepted, rejected, ing, connected, wrote, fwd, got, due>>

(* Variant of the next definition as a plausible slip would write it: the  *)
(* capacity check one too generous.                                        *)
RoomOverfull == Len(inq) <= InCap

\* broadcaster_sender.send(in_packet).await completes when the in-packet
\* queue has room
Room == Len(inq) < InCap

\* Origin o forwards its next bundle: recorded with the transports it is due
\* to reach, those registered on the channel and live at this moment
ForwardBundle(o) ==
    LET b == <<o, fwd[o] + 1>> IN
    /\ inq' = Append(inq, b)
    /\ fwd' = [fwd EXCEPT ![o] = @ + 1]
    /\ due' = [due EXCEPT ![b] = Targets(o)]

\* The local-hub-transport-flush task hands a flushed buffer of the hub's
\* role to the broadcaster
LocalFlush ==
    /\ setup = "ready" /\ fwd[Local] < MaxBundles /\ Room
    /\ ForwardBundle(Local)
    /\ UNCHANGED <<live, nextHops, tlc, reqq, waiting, setup, accPc, accCur,
                   accepted, rejected, ing, connected, wrote, got>>

-----------------------------------------------------------------------------
(* The accept loop of spawn_hub_tcp and the clients' ingress tasks          *)

\* listener.accept() returns a client and client_handshake succeeds:
\* spawn_tcp_spoke calls add_tcp
AcceptClient(c) ==
    /\ setup = "ready" /\ accPc = "idle" /\ c \notin accepted \cup rejected
    /\ accepted' = accepted \cup {c}
    /\ connected' = [connected EXCEPT ![c] = TRUE]
    /\ accPc' = "add" /\ accCur' = c
    /\ Request("accept", "addTcp", c)
    /\ UNCHANGED <<live, nextHops, tlc, inq, setup, rejected, ing, wrote, fwd,
                   got, due>>

\* The handshake fails: the loop logs it and continues with the next client
HandshakeFail(c) ==
    /\ setup = "ready" /\ accPc = "idle" /\ c \notin accepted \cup rejected
    /\ rejected' = rejected \cup {c}
    /\ UNCHANGED <<live, nextHops, tlc, reqq, waiting, inq, setup, accPc, accCur,
                   accepted, ing, connected, wrote, fwd, got, due>>

\* add_tcp has returned the transport: the ingress task is spawned, then
\* the accept loop calls add_next_hop_to_channels
AfterAddTcp ==
    /\ accPc = "add" /\ ~waiting["accept"]
    /\ ing' = [ing EXCEPT ![accCur] = "run"]
    /\ accPc' = "nextHop"
    /\ Request("accept", "nextHop", accCur)
    /\ UNCHANGED <<live, nextHops, tlc, inq, setup, accCur, accepted, rejected,
                   connected, wrote, fwd, got, due>>

\* add_next_hop_to_channels has returned: the disconnect handler is spawned
\* and the loop accepts the next client
AfterNextHop ==
    /\ accPc = "nextHop" /\ ~waiting["accept"]
    /\ accPc' = "idle" /\ accCur' = NoClient
    /\ UNCHANGED <<live, nextHops, tlc, reqq, waiting, inq, setup, accepted,
                   rejected, ing, connected, wrote, fwd, got, due>>

\* The client writes a bundle to its socket
PeerWrite(c) ==
    /\ c \in accepted /\ connected[c] /\ wrote[c] < MaxBundles
    /\ wrote' = [wrote EXCEPT ![c] = @ + 1]
    /\ UNCHANGED <<live, nextHops, tlc, reqq, waiting, inq, setup, accPc, accCur,
                   accepted, rejected, ing, connected, fwd, got, due>>

\* The client closes its socket
PeerClose(c) ==
    /\ c \in accepted /\ connected[c]
    /\ connected' = [connected EXCEPT ![c] = FALSE]
    /\ UNCHANGED <<live, nextHops, tlc, reqq, waiting, inq, setup, accPc, accCur,
                   accepted, rejected, ing, wrote, fwd, got, due>>

\* ingress.receive() returns the next bundle; it is sent to the broadcaster
IngressForward(c) ==
    /\ ing[c] = "run" /\ fwd[c] < wrote[c] /\ Room
    /\ ForwardBundle(c)
    /\ UNCHANGED <<live, nextHops, tlc, reqq, waiting, setup, accPc, accCur,
                   accepted, rejected, ing, connected, wrote, got>>

\* ingress.receive() fails once the socket is closed and read to its end:
\* the shutdown signal is notified and the task calls remove_transport
IngressClosed(c) ==
    /\ ing[c] = "run" /\ ~connected[c] /\ fwd[c] = wrote[c]
    /\ ing' = [ing EXCEPT ![c] = "removing"]
    /\ Request(c, "remove", c)
    /\ UNCHANGED <<live, nextHops, tlc, inq, setup, accPc, accCur, accepted,
                   rejected, connected, wrote, fwd, got, due>>

\* Every client has come and the broadcaster has nothing left to do
Quiescent ==
    /\ setup = "ready" /\ accPc = "idle" /\ Clients \subseteq accepted \cup rejected
    /\ inq = <<>> /\ reqq = <<>> /\ fwd[Local] = MaxBundles
    /\ UNCHANGED vars

Next ==
    \/ HandleInPacket \/ HandleRequest
    \/ SetupNextHop \/ SetupDone \/ LocalFlush
    \/ AfterAddTcp \/ AfterNextHop
    \/ \E c \in Clients :
         \/ AcceptClient(c) \/ HandshakeFail(c)
         \/ PeerWrite(c) \/ PeerClose(c)
         \/ IngressForward(c) \/ IngressClosed(c)
    \/ Quiescent

\* futures::select! polls its ready branches in random order, and the hub's
\* worker polls every woken task; clients and the hub's role are not fair
Fairness ==
    /\ WF_vars(HandleInPacket) /\ WF_vars(HandleRequest)
    /\ WF_vars(SetupNextHop) /\ WF_vars(SetupDone)
    /\ WF_vars(AfterAddTcp) /\ WF_vars(AfterNextHop)
    /\ \A c \in Clients : WF_vars(IngressForward(c)) /\ WF_vars(IngressClosed(c))

Spec == Init /\ [][Next]_vars /\ Fairness

\* The fair steps as one action.  Every step but Quiescent (a stutter)
\* consumes a bounded supply (clients, bundles, requests), so a behaviour
\* takes finitely many of them; weak fairness of this disjunction then
\* leaves, as the conjunction above does, none of them enabled for ever.
Scheduled ==
    \/ HandleInPacket \/ HandleRequest \/ SetupNextHop \/ SetupDone
    \/ AfterAddTcp \/ AfterNextHop
    \/ \E c \in Clients : IngressForward(c) \/ IngressClosed(c)

-----------------------------------------------------------------------------
(* Properties                                                               *)

TypeOK ==
    /\ live \subseteq Transports
    /\ nextHops \in Seq(Transports)
    /\ tlc \in [Transports -> Nat]
    /\ inq \in Seq(Bundles) /\ Len(inq) <= InCap
    /\ setup \in {"addLocal", "nextHop", "ready"}
    /\ accPc \in {"idle", "add", "nextHop"}
    /\ ing \in [Clients -> {"none", "run", "removing"}]
    /\ fwd \in [Transports -> 0..MaxBundles]
    /\ got \in [Transports -> Seq(Bundles)]

\* What a transport receives is never its own bundle, never the same bundle
\* twice, and from any one origin in the order the origin sent it: the
\* origin check in broadcast and the single broadcaster task over FIFO queues.
DeliverySound ==
    \A u \in Transports : \A i, j \in DOMAIN got[u] :
        /\ got[u][i][1] # u
        /\ (i < j /\ got[u][i][1] = got[u][j][1]) => got[u][i][2] < got[u][j][2]

\* A bundle the broadcaster has handled
Handled(b) == b[2] <= fwd[b[1]] /\ b \notin ToSet(inq)

\* Every transport that was registered on the channel when a bundle was
\* forwarded receives it, unless its client has since closed the socket:
\* no request the broadcaster handled in between (another client's
\* registration or removal) takes a live next hop away.
RegisteredDelivered ==
    \A b \in Bundles : Handled(b) =>
        \A u \in due[b] : b \in ToSet(got[u]) \/ (u \in Clients /\ ~connected[u])

\* Once the ingress task of a closed client has had the response to its
\* remove_transport, the client's transport is out of the slotmap, out of
\* next_hops and out of transport_local_channel_ids, and stays out: no
\* add_tcp or add_next_hop_to_channels of its registration is handled after
\* the removal, which would leave a next hop no request ever removes.
RemovalFinal ==
    \A c \in Clients : (ing[c] = "removing" /\ ~waiting[c]) =>
        c \notin live /\ c \notin ToSet(nextHops) /\ tlc[c] = 0
====
