------------------------- MODULE InterWorkerRouting -------------------------
(***************************************************************************)
(* Routing of the packets of one (plane, topic) between workers.           *)
(*                                                                         *)
(* Each worker has a PacketProcessor chain for the topic, built by role    *)
(* setup (role_setup.rs): a queued subscribe() adds a LocalQueue node      *)
(* accepting ANY source on its own worker and, through                     *)
(* add_topic_subscription, a ToWorker node accepting NEW on every other    *)
(* worker; route_to_worker adds a RouteToWorker node accepting NEW whose   *)
(* callback picks the worker from the packet; from_inter_worker adds an    *)
(* Inline node accepting INTER_WORKER.                                     *)
(*                                                                         *)
(* A producer task's send_raw runs handle_packet(NEW) (packet_processor.rs)   *)
(* which walks the chain, suspending where a queue it pushes to is full.   *)
(* ToWorker and RouteToWorker push to the per-destination channel of       *)
(* build_inter_worker_batchers (worker.rs); run_burstq_batcher moves its   *)
(* packets in batches into the destination's MPMC inter-worker queue; the  *)
(* destination's inter-worker-rx task takes up to 32 at a time and runs    *)
(* handle_packet(INTER_WORKER) on each.  A LocalQueue's consumer task      *)
(* (handle_events_async) takes its packets one by one.                     *)
(*                                                                         *)
(* sent_to_workers, the per-packet dedup mask of handle_packet, is an i32: *)
(* `1 << to_worker_id.0` in a release build shifts by the id modulo 32.    *)
(***************************************************************************)
EXTENDS Naturals, Sequences, FiniteSets

CONSTANTS
    Workers,      \* worker ids (WorkerId.0) of the runtime that take part
    Producers,    \* workers whose producer task sends on the topic
    Subscribers,  \* workers whose role subscribe()s a queued receiver
    Routers,      \* workers with a route_to_worker node
    IwHandlers,   \* workers with a from_inter_worker inline handler
    MaxSends,     \* packets each producer sends
    SubCap,       \* capacity of a subscriber's local queue (64)
    BatchCap,     \* capacity of a batcher's channel (max_inter_worker_batch_size, 32)
    IwCap,        \* capacity of an inter-worker queue (inter_worker_queue_capacity, 256)
    IwBurst,      \* packets inter-worker-rx takes per recv (32)
    MaskWidth     \* bits of sent_to_workers (32)

ASSUME Producers \cup Subscribers \cup Routers \cup IwHandlers \subseteq Workers
ASSUME \A c \in {SubCap, BatchCap, IwCap, IwBurst, MaskWidth} : c \in Nat \ {0}

\* Source tags: PACKET_PROCESSOR_SOURCE_NEW and _INTER_WORKER; a filter is
\* the set of tags it matches (ANY matches both)
SrcNew == "new"
SrcIw  == "iw"
SrcAny == {SrcNew, SrcIw}

Packets == Producers \X (1..MaxSends)
Origin(p) == p[1]

\* Sequence of the members of a finite set of numbers, ascending
RECURSIVE Ascending(_)
Ascending(S) ==
    IF S = {} THEN <<>>
    ELSE LET m == CHOOSE x \in S : \A y \in S : x <= y IN <<m>> \o Ascending(S \ {m})

\* The route_to_worker callback: a function of the packet, as the requester
\* worker id a response carries; it may name the packet's own worker
RouteOf == [p \in Packets |-> Ascending(Workers)[(p[2] % Cardinality(Workers)) + 1]]
RouteTarget(p) == RouteOf[p]

\* The nodes PacketProcessor's add_* methods put on a chain: the body, the
\* source filter the caller passes, and the worker a node hands packets to
InlineNode(f, w)     == [kind |-> "inline", filter |-> f, to |-> w]
LocalQueueNode(f, w) == [kind |-> "queue", filter |-> f, to |-> w]
ToWorkerNode(f, w)   == [kind |-> "to", filter |-> f, to |-> w]
RouteNode(f, w)      == [kind |-> "route", filter |-> f, to |-> w]

\* The chain of worker w, head first.  The role's own nodes are added at
\* its setup; the ToWorker nodes later, by the commands other workers'
\* subscribe() sends, so they sit nearer the head.
ChainOf == [w \in Workers |->
    [i \in 1..Len(Ascending(Subscribers \ {w})) |->
        ToWorkerNode({SrcNew}, Ascending(Subscribers \ {w})[i])]
    \o (IF w \in Subscribers THEN <<LocalQueueNode(SrcAny, w)>> ELSE <<>>)
    \o (IF w \in IwHandlers THEN <<InlineNode({SrcIw}, w)>> ELSE <<>>)
    \o (IF w \in Routers THEN <<RouteNode({SrcNew}, w)>> ELSE <<>>)]
Chain(w) == ChainOf[w]

\* Nodes that hand packets to role code, and those among them with a queue
Sinks  == UNION {{<<w, i>> : i \in {j \in 1..Len(Chain(w)) :
                                      Chain(w)[j].kind \in {"queue", "inline"}}} : w \in Workers}
QSinks == {n \in Sinks : Chain(n[1])[n[2]].kind = "queue"}

Links == {l \in Workers \X Workers : l[1] # l[2]}
Tasks == Workers \X {"prod", "irx"}

NoPkt == <<0, 0>>
Idle == [pkt |-> NoPkt, src |-> SrcNew, pos |-> 0, mask |-> {}]

VARIABLES
    nsent,   \* packets each producer has sent
    disp,    \* each task's handle_packet in progress: packet, source, next node, mask
    subq,    \* each subscriber's local queue
    got,     \* packets handed to each sink's role code, in order (history)
    bch,     \* each batcher's channel (worker, destination)
    held,    \* first_packet the batcher holds, and its batch_size
    bsz,
    iq,      \* each worker's inter-worker queue
    ibatch,  \* packets inter-worker-rx received and has not yet dispatched
    fwd      \* <<packet, from, to>> pushed to a batcher channel (history)

vars == <<nsent, disp, subq, got, bch, held, bsz, iq, ibatch, fwd>>

Init ==
    /\ nsent = [w \in Producers |-> 0]
    /\ disp = [t \in Tasks |-> Idle]
    /\ subq = [n \in QSinks |-> <<>>]
    /\ got = [n \in Sinks |-> <<>>]
    /\ bch = [l \in Links |-> <<>>]
    /\ held = [l \in Links |-> NoPkt]
    /\ bsz = [l \in Links |-> 0]
    /\ iq = [w \in Workers |-> <<>>]
    /\ ibatch = [w \in Workers |-> <<>>]
    /\ fwd = {}

-----------------------------------------------------------------------------
(* handle_packet's walk of the chain                                        *)

\* The state one walk step reads and writes
Walker(t) == [d |-> disp[t], subq |-> subq, got |-> got, bch |-> bch, fwd |-> fwd,
              done |-> FALSE]

\* The bit `1 << to_worker_id.0` sets in the i32 mask, in a release build
Bit(v) == v % MaskWidth

\* Whether node i of w's chain sends the packet to a worker, and which
Dest(w, i, p) == IF Chain(w)[i].kind = "to" THEN Chain(w)[i].to ELSE RouteTarget(p)

(* Variant of the next definition as a plausible slip would write it: the  *)
(* packet recorded as forwarded but never written to the channel.          *)
PushLinkLost(r, w, v) == [r EXCEPT !.fwd = @ \cup {<<r.d.pkt, w, v>>}]

\* `queue.send(packet.clone()).await` of a worker's batcher channel
PushLink(r, w, v) ==
    [r EXCEPT !.bch[<<w, v>>] = Append(@, r.d.pkt),
              !.fwd = @ \cup {<<r.d.pkt, w, v>>}]

Advance(r) == [r EXCEPT !.d.pos = @ + 1]

(* Variant of the next definition as a plausible slip would write it: the  *)
(* sent_to_workers test left out.                                          *)
AlreadySentNever(mask, v) == FALSE

\* `sent_to_workers & mask != 0`: the packet already went to that worker
AlreadySent(mask, v) == Bit(v) \in mask

\* One node of the walk: skip it if its filter does not match the source;
\* otherwise its body.  A push to a full queue leaves the walk at the node,
\* suspended; `done` marks the end of the chain.
RECURSIVE Walk(_, _)
Walk(r, w) ==
    LET i == r.d.pos
        p == r.d.pkt
    IN
    IF i > Len(Chain(w)) THEN [r EXCEPT !.done = TRUE]
    ELSE LET n == Chain(w)[i] IN
    IF r.d.src \notin n.filter THEN Walk(Advance(r), w)
    ELSE CASE n.kind = "inline" ->
                Walk(Advance([r EXCEPT !.got[<<w, i>>] = Append(@, p)]), w)
         [] n.kind = "queue" ->
                IF Len(r.subq[<<w, i>>]) < SubCap
                   THEN Walk(Advance([r EXCEPT !.subq[<<w, i>>] = Append(@, p)]), w)
                   ELSE r
         [] OTHER ->
                LET v == Dest(w, i, p) IN
                IF AlreadySent(r.d.mask, v) THEN Walk(Advance(r), w)
                ELSE LET m == [r EXCEPT !.d.mask = @ \cup {Bit(v)}] IN
                     IF v = w THEN Walk(Advance(m), w)   \* inter_worker_senders[w] is None
                     ELSE IF Len(r.bch[<<w, v>>]) < BatchCap
                          THEN Walk(Advance(PushLink(m, w, v)), w)
                          ELSE m

\* The walk's results become the next state; a finished walk leaves the
\* task idle
Commit(t, r) ==
    /\ disp' = [disp EXCEPT ![t] = IF r.done THEN Idle ELSE r.d]
    /\ subq' = r.subq /\ got' = r.got /\ bch' = r.bch /\ fwd' = r.fwd

\* handle_packet(src, p) on task t, up to its end or first suspension
Dispatch(t, p, src) ==
    Commit(t, Walk([Walker(t) EXCEPT !.d = [pkt |-> p, src |-> src, pos |-> 1,
                                             mask |-> {}]], t[1]))

(* Variant of the next definition as a plausible slip would write it: the  *)
(* suspended send resumed without waiting for room.                        *)
CanResumeAlways(t) == TRUE

\* The push a suspended walk is waiting on has room
CanResume(t) ==
    LET w == t[1]  i == disp[t].pos  n == Chain(w)[i] IN
    IF n.kind = "queue" THEN Len(subq[<<w, i>>]) < SubCap
    ELSE Len(bch[<<w, Dest(w, i, disp[t].pkt)>>]) < BatchCap

\* The send completes (the mask bit was set before it suspended) and the
\* walk goes on
Resume(t) ==
    /\ disp[t] # Idle /\ CanResume(t)
    /\ LET w == t[1]  i == disp[t].pos  r == Walker(t) IN
       Commit(t, Walk(Advance(IF Chain(w)[i].kind = "queue"
                               THEN [r EXCEPT !.subq[<<w, i>>] = Append(@, r.d.pkt)]
                               ELSE PushLink(r, w, Dest(w, i, r.d.pkt))), w))
    /\ UNCHANGED <<nsent, held, bsz, iq, ibatch>>

-----------------------------------------------------------------------------
(* Tasks                                                                    *)

\* PacketSender::send_raw on the producer task: handle_packet(NEW)
Produce(w) ==
    /\ w \in Producers /\ disp[<<w, "prod">>] = Idle /\ nsent[w] < MaxSends
    /\ nsent' = [nsent EXCEPT ![w] = @ + 1]
    /\ Dispatch(<<w, "prod">>, <<w, nsent[w] + 1>>, SrcNew)
    /\ UNCHANGED <<held, bsz, iq, ibatch>>

\* run_burstq_batcher: local_rx.recv().await; batch_size = local_rx.len() + 1
BatcherRecv(l) ==
    /\ held[l] = NoPkt /\ bch[l] # <<>>
    /\ held' = [held EXCEPT ![l] = Head(bch[l])]
    /\ bsz' = [bsz EXCEPT ![l] = Len(bch[l])]
    /\ bch' = [bch EXCEPT ![l] = Tail(@)]
    /\ UNCHANGED <<nsent, disp, subq, got, iq, ibatch, fwd>>

(* Variant of the next definition as a plausible slip would write it: the  *)
(* first packet written after the ones try_recv drained.                   *)
BatchOrderReversed(first, rest) == rest \o <<first>>

\* The packets a batch writes: first_packet, then try_recv for the rest
BatchOrder(first, rest) == <<first>> \o rest

\* shared_tx.send(batch_size, ..).await into the destination's queue: it
\* waits for a free slot and writes as many of the batch as fit
BatcherSend(l) ==
    /\ held[l] # NoPkt /\ Len(iq[l[2]]) < IwCap
    /\ LET k == IF bsz[l] < IwCap - Len(iq[l[2]]) THEN bsz[l] ELSE IwCap - Len(iq[l[2]]) IN
       /\ iq' = [iq EXCEPT ![l[2]] = @ \o BatchOrder(held[l], SubSeq(bch[l], 1, k - 1))]
       /\ bch' = [bch EXCEPT ![l] = SubSeq(@, k, Len(@))]
    /\ held' = [held EXCEPT ![l] = NoPkt]
    /\ UNCHANGED <<nsent, disp, subq, got, bsz, ibatch, fwd>>

\* inter-worker-rx: inter_rx.recv(32, ..).await returns n > 0 packets
InterRecv(w) ==
    /\ ibatch[w] = <<>> /\ disp[<<w, "irx">>] = Idle /\ iq[w] # <<>>
    /\ LET n == IF IwBurst < Len(iq[w]) THEN IwBurst ELSE Len(iq[w]) IN
       /\ ibatch' = [ibatch EXCEPT ![w] = SubSeq(iq[w], 1, n)]
       /\ iq' = [iq EXCEPT ![w] = SubSeq(@, n + 1, Len(@))]
    /\ UNCHANGED <<nsent, disp, subq, got, bch, held, bsz, fwd>>

(* Variant of the next definition as a plausible slip would write it: the  *)
(* packets from other workers dispatched as NEW.                           *)
IrxSourceNew == SrcNew

\* The source tag inter-worker-rx dispatches with
IrxSource == SrcIw

\* inter-worker-rx: handle_packet(INTER_WORKER) on the next packet of the batch
InterDispatch(w) ==
    /\ ibatch[w] # <<>> /\ disp[<<w, "irx">>] = Idle
    /\ ibatch' = [ibatch EXCEPT ![w] = Tail(@)]
    /\ Dispatch(<<w, "irx">>, Head(ibatch[w]), IrxSource)
    /\ UNCHANGED <<nsent, held, bsz, iq>>

\* handle_events_async: rx.recv().await, then the role's handler
Consume(n) ==
    /\ subq[n] # <<>>
    /\ got' = [got EXCEPT ![n] = Append(@, Head(subq[n]))]
    /\ subq' = [subq EXCEPT ![n] = Tail(@)]
    /\ UNCHANGED <<nsent, disp, bch, held, bsz, iq, ibatch, fwd>>

\* Everything sent has been routed and consumed
Finished ==
    /\ \A w \in Producers : nsent[w] = MaxSends
    /\ \A t \in Tasks : disp[t] = Idle
    /\ \A n \in QSinks : subq[n] = <<>>
    /\ \A l \in Links : bch[l] = <<>> /\ held[l] = NoPkt
    /\ \A w \in Workers : iq[w] = <<>> /\ ibatch[w] = <<>>
    /\ UNCHANGED vars

Next ==
    \/ \E w \in Workers : Produce(w) \/ InterRecv(w) \/ InterDispatch(w)
    \/ \E t \in Tasks : Resume(t)
    \/ \E l \in Links : BatcherRecv(l) \/ BatcherSend(l)
    \/ \E n \in QSinks : Consume(n)
    \/ Finished

\* Each worker's executor polls every task that is ready; producers may
\* stop sending at any time
Fairness ==
    /\ \A t \in Tasks : WF_vars(Resume(t))
    /\ \A l \in Links : WF_vars(BatcherRecv(l)) /\ WF_vars(BatcherSend(l))
    /\ \A w \in Workers : WF_vars(InterRecv(w)) /\ WF_vars(InterDispatch(w))
    /\ \A n \in QSinks : WF_vars(Consume(n))

\* A step of some task the executors schedule.  Every step moves a packet
\* on, so a behaviour has no cycle and weak fairness of this disjunction
\* rules out the same stops as weak fairness of each task.
Scheduled ==
    \/ \E t \in Tasks : Resume(t)
    \/ \E l \in Links : BatcherRecv(l) \/ BatcherSend(l)
    \/ \E w \in Workers : InterRecv(w) \/ InterDispatch(w)
    \/ \E n \in QSinks : Consume(n)

Spec == Init /\ [][Next]_vars /\ Fairness

-----------------------------------------------------------------------------
(* Properties                                                               *)

\* The sinks a packet is meant for: on its own worker those accepting NEW;
\* on each other worker its chain redirects or routes it to, those
\* accepting INTER_WORKER
Targets(p) ==
    ({Chain(Origin(p))[i].to : i \in {j \in 1..Len(Chain(Origin(p))) :
                                         Chain(Origin(p))[j].kind = "to"}}
     \cup (IF Origin(p) \in Routers THEN {RouteTarget(p)} ELSE {}))
    \ {Origin(p)}
ExpectedOf == [p \in Packets |->
    {n \in Sinks : \/ n[1] = Origin(p) /\ SrcNew \in Chain(n[1])[n[2]].filter
                   \/ n[1] \in Targets(p) /\ SrcIw \in Chain(n[1])[n[2]].filter}]
Expected(p) == ExpectedOf[p]

Delivered(p, n) == \E k \in 1..Len(got[n]) : got[n][k] = p

TypeOK ==
    /\ nsent \in [Producers -> 0..MaxSends]
    /\ \A t \in Tasks : disp[t] = Idle \/ disp[t].pkt \in Packets
    /\ \A n \in QSinks : Len(subq[n]) <= SubCap
    /\ \A l \in Links : Len(bch[l]) <= BatchCap /\ held[l] \in Packets \cup {NoPkt}
    /\ \A w \in Workers : Len(iq[w]) <= IwCap /\ Len(ibatch[w]) <= IwBurst
    /\ fwd \subseteq Packets \X Workers \X Workers

\* Every packet reaches a sink at most once, and only a sink it is meant
\* for: the dedup mask of handle_packet keeps a redirect and a route to the
\* same worker from sending it twice, and the source filters keep the
\* packet away from sinks of the wrong source.
DeliverySound ==
    \A n \in Sinks : \A k \in 1..Len(got[n]) :
        /\ n \in Expected(got[n][k])
        /\ \A j \in 1..k - 1 : got[n][j] # got[n][k]

\* A packet makes at most one inter-worker hop: only its own worker ever
\* pushes it to another worker, since redirects accept NEW packets only
\* and inter-worker-rx dispatches with INTER_WORKER.
OneHop == \A f \in fwd : f[2] = Origin(f[1])

\* The packets of one producer reach each sink in the order it sent them,
\* across the batcher, the inter-worker queue and inter-worker-rx.
InOrder ==
    \A n \in Sinks : \A i, j \in 1..Len(got[n]) :
        i < j /\ Origin(got[n][i]) = Origin(got[n][j]) => got[n][i][2] < got[n][j][2]

\* Every packet sent eventually reaches every sink it is meant for.
AllDelivered ==
    \A p \in Packets :
        (nsent[Origin(p)] >= p[2]) ~> (\A n \in Expected(p) : Delivered(p, n))

=============================================================================
