---------------------------- MODULE LoadBalancer ----------------------------
(***************************************************************************)
(* A queued + load_balance event receiver (load_balancer.rs) on several    *)
(* workers.  On each worker the RouteToLocalQueue handler try_sends a new  *)
(* packet to the worker's local queue and, when that is full or overflow   *)
(* is being flushed, hands it to the worker's run_burstq_batcher           *)
(* (worker.rs), which moves batches into the shared MPMC queue of the      *)
(* (plane, topic); each worker's recv task pulls bursts from the shared    *)
(* queue into its own local queue, and the task queued spawns              *)
(* (handle_events_async, role_setup.rs) consumes the local queue.  A       *)
(* worker where the role is built with build_proxied has none of these:    *)
(* proxy_load_balancer makes the batcher's channel the topic's local queue,*)
(* so every packet it dispatches goes to the shared queue.                 *)
(*                                                                         *)
(* A packet is a number, in the order the producers dispatch them.  The    *)
(* shared queue is burstq (outside src/): a send waits until at least one  *)
(* slot is free and writes as many of the batch as fit.                    *)
(***************************************************************************)
EXTENDS Naturals, Sequences, FiniteSets

CONSTANTS
    Workers,    \* workers the role runs on
    Proxies,    \* the workers among them where it is built with build_proxied
    NPackets,   \* packets the producers dispatch in all
    LocalCap,   \* capacity of the local queue (64 in queued)
    TxBurst,    \* capacity of the batcher's channel (tx_burst_size)
    SharedCap,  \* capacity of the shared burstq queue (64)
    RxBurst,    \* packets a recv takes at most (rx_burst_size)
    NoPacket    \* model value: no packet

ASSUME Proxies \subseteq Workers

Packets == 1..NPackets

VARIABLES
    nextId,     \* the next packet a producer dispatches
    pending,    \* packet whose queue.send(packet).await is blocked, per worker
    lq,         \* each worker's local queue
    bq,         \* each worker's channel to run_burstq_batcher
    held,       \* first_packet the batcher took and has not yet written
    bsz,        \* batch_size the batcher computed for it
    shared,     \* the shared MPMC queue
    flushing,   \* is_flushing_overflow of each worker
    ov,         \* overflow burst the recv task is still pushing, per worker
    handled     \* times the handler was called with each packet

vars == <<nextId, pending, lq, bq, held, bsz, shared, flushing, ov, handled>>

\* EventRxBuilder::queued: a fresh local queue on each worker, and the task
\* consuming it, which has handled nothing yet
Queued ==
    /\ lq = [w \in Workers |-> <<>>]
    /\ handled = [p \in Packets |-> 0]

\* spawn_load_balancer on every worker, after queued
Init ==
    /\ Queued
    /\ nextId = 1
    /\ pending = [w \in Workers |-> NoPacket]
    /\ bq = [w \in Workers |-> <<>>]
    /\ held = [w \in Workers |-> NoPacket]
    /\ bsz = [w \in Workers |-> 0]
    /\ shared = <<>>
    /\ flushing = [w \in Workers |-> FALSE]
    /\ ov = [w \in Workers |-> <<>>]

Min(a, b) == IF a < b THEN a ELSE b

-----------------------------------------------------------------------------
(* Dispatch of a new packet on a worker                                     *)

\* The RouteToLocalQueue handler of spawn_load_balancer, then the
\* dispatcher's send to the queue it returns
Dispatch(w) ==
    /\ w \notin Proxies
    /\ nextId <= NPackets /\ pending[w] = NoPacket
    /\ nextId' = nextId + 1
    /\ IF ~flushing[w] /\ Len(lq[w]) < LocalCap
          THEN /\ lq' = [lq EXCEPT ![w] = Append(@, nextId)]
               /\ UNCHANGED <<bq, pending>>
          ELSE IF Len(bq[w]) < TxBurst
          THEN /\ bq' = [bq EXCEPT ![w] = Append(@, nextId)]
               /\ UNCHANGED <<lq, pending>>
          ELSE /\ pending' = [pending EXCEPT ![w] = nextId]
               /\ UNCHANGED <<lq, bq>>
    /\ UNCHANGED <<held, bsz, shared, flushing, ov, handled>>

\* proxy_load_balancer's LocalQueue node: the dispatcher sends the packet to
\* the batcher's channel, and waits if it is full
ProxyDispatch(w) ==
    /\ w \in Proxies
    /\ nextId <= NPackets /\ pending[w] = NoPacket
    /\ nextId' = nextId + 1
    /\ IF Len(bq[w]) < TxBurst
          THEN bq' = [bq EXCEPT ![w] = Append(@, nextId)] /\ UNCHANGED pending
          ELSE pending' = [pending EXCEPT ![w] = nextId] /\ UNCHANGED bq
    /\ UNCHANGED <<lq, held, bsz, shared, flushing, ov, handled>>

\* queue.send(packet).await completes once the batcher channel has room
DispatchResume(w) ==
    /\ pending[w] # NoPacket /\ Len(bq[w]) < TxBurst
    /\ bq' = [bq EXCEPT ![w] = Append(@, pending[w])]
    /\ pending' = [pending EXCEPT ![w] = NoPacket]
    /\ UNCHANGED <<nextId, lq, held, bsz, shared, flushing, ov, handled>>

-----------------------------------------------------------------------------
(* run_burstq_batcher                                                       *)

\* local_rx.recv().await returns; batch_size = local_rx.len() + 1
BatcherRecv(w) ==
    /\ held[w] = NoPacket /\ bq[w] # <<>>
    /\ held' = [held EXCEPT ![w] = Head(bq[w])]
    /\ bsz' = [bsz EXCEPT ![w] = Len(bq[w])]
    /\ bq' = [bq EXCEPT ![w] = Tail(@)]
    /\ UNCHANGED <<nextId, pending, lq, shared, flushing, ov, handled>>

(* Variant of the next definition as a plausible slip would write it: the  *)
(* whole batch written whatever room the shared queue has.                 *)
GrantedAll(w) == bsz[w]

\* The slots burstq's send grants: batch_size, or the free slots if fewer
Granted(w) == Min(bsz[w], SharedCap - Len(shared))

\* shared_tx.send(batch_size, ..).await: first_packet, then try_recv for
\* the rest of the slots granted
BatcherSend(w) ==
    /\ held[w] # NoPacket /\ Len(shared) < SharedCap
    /\ LET k == Granted(w) IN
       /\ shared' = shared \o <<held[w]>> \o SubSeq(bq[w], 1, k - 1)
       /\ bq' = [bq EXCEPT ![w] = SubSeq(@, k, Len(@))]
    /\ held' = [held EXCEPT ![w] = NoPacket]
    /\ UNCHANGED <<nextId, pending, lq, bsz, flushing, ov, handled>>

-----------------------------------------------------------------------------
(* The recv task of spawn_load_balancer                                     *)

(* Variant of the next definition as a plausible slip would write it: the  *)
(* loop over the burst stopping one short.                                 *)
BurstPushedShort(burst) == SubSeq(burst, 1, Len(burst) - 1)

\* The packets of a burst the loop pushes into the local queue
BurstPushed(burst) == burst

\* shared_rx.recv(rx_burst_size, ..).await returns n > 0 packets; set
\* is_flushing_overflow
RxRecv(w) ==
    /\ w \notin Proxies
    /\ ov[w] = <<>> /\ shared # <<>>
    /\ LET n == Min(RxBurst, Len(shared)) IN
       /\ ov' = [ov EXCEPT ![w] = BurstPushed(SubSeq(shared, 1, n))]
       /\ shared' = SubSeq(shared, n + 1, Len(shared))
    /\ flushing' = [flushing EXCEPT ![w] = TRUE]
    /\ UNCHANGED <<nextId, pending, lq, bq, held, bsz, handled>>

\* local_queue_tx.send(..).await for the next packet of the burst; after the
\* last one the loop starts over and clears is_flushing_overflow
RxPush(w) ==
    /\ ov[w] # <<>> /\ Len(lq[w]) < LocalCap
    /\ lq' = [lq EXCEPT ![w] = Append(@, Head(ov[w]))]
    /\ ov' = [ov EXCEPT ![w] = Tail(@)]
    /\ flushing' = [flushing EXCEPT ![w] = Len(ov[w]) > 1]
    /\ UNCHANGED <<nextId, pending, bq, held, bsz, shared, handled>>

\* handle_events_async: rx.recv().await, decode the header and the payload
\* (every packet here decodes), then the handler
Consume(w) ==
    /\ lq[w] # <<>>
    /\ handled' = [handled EXCEPT ![Head(lq[w])] = @ + 1]
    /\ lq' = [lq EXCEPT ![w] = Tail(@)]
    /\ UNCHANGED <<nextId, pending, bq, held, bsz, shared, flushing, ov>>

\* Every packet has been handled
Finished ==
    /\ nextId > NPackets /\ \A p \in Packets : handled[p] > 0
    /\ UNCHANGED vars

Next ==
    \/ \E w \in Workers :
         \/ Dispatch(w) \/ ProxyDispatch(w) \/ DispatchResume(w)
         \/ BatcherRecv(w) \/ BatcherSend(w)
         \/ RxRecv(w) \/ RxPush(w)
         \/ Consume(w)
    \/ Finished

\* The worker's executor polls every task that is ready
Fairness ==
    \A w \in Workers :
        /\ WF_vars(DispatchResume(w))
        /\ WF_vars(BatcherRecv(w)) /\ WF_vars(BatcherSend(w))
        /\ WF_vars(RxRecv(w)) /\ WF_vars(RxPush(w))
        /\ WF_vars(Consume(w))

Spec == Init /\ [][Next]_vars /\ Fairness

-----------------------------------------------------------------------------
(* Properties                                                               *)

TypeOK ==
    /\ nextId \in 1..NPackets + 1
    /\ pending \in [Workers -> Packets \cup {NoPacket}]
    /\ \A w \in Workers : Len(lq[w]) <= LocalCap /\ Len(bq[w]) <= TxBurst
    /\ held \in [Workers -> Packets \cup {NoPacket}]
    /\ Len(shared) <= SharedCap
    /\ flushing \in [Workers -> BOOLEAN]
    /\ handled \in [Packets -> 0..2]

\* The places a packet can be on its way to the handler
Copies(p) ==
    LET Pos(s)  == {i \in 1..Len(s) : s[i] = p}
        Q(q, w) == CASE q = "lq" -> lq[w] [] q = "bq" -> bq[w] [] q = "ov" -> ov[w]
    IN  Cardinality(Pos(shared))
        + Cardinality({w \in Workers : pending[w] = p})
        + Cardinality({w \in Workers : held[w] = p})
        + Cardinality(UNION {{<<q, w, i>> : i \in Pos(Q(q, w))} :
                                <<q, w>> \in {"lq", "bq", "ov"} \X Workers})

\* Spilling to the shared queue neither loses nor copies a packet: each
\* dispatched packet is, at every moment, either in exactly one queue,
\* batch or burst on its way, or has been handled exactly once, on
\* whichever worker pulled it.
ExactlyOnce ==
    \A p \in Packets :
        p < nextId => Copies(p) + handled[p] = 1

\* Every packet dispatched is eventually handled.
AllHandled == \A p \in Packets : (nextId > p) ~> (handled[p] = 1)

=============================================================================
