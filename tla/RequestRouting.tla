---------------------------- MODULE RequestRouting ----------------------------
(***************************************************************************)
(* A request topic and its response topic across the workers of one       *)
(* client endpoint: RequestClientBuilder::build on every worker            *)
(* (request_client.rs), RequestClient::call and ::subscribe, the per-      *)
(* worker RequestTracker (request_tracker.rs) and the worker's inter-      *)
(* worker path (worker.rs).  Each worker's request chain is the inline     *)
(* handle_request handler (source ANY), then the ToWorker redirects that   *)
(* add_topic_subscription installs for every observing worker (source      *)
(* NEW); each worker's response chain is the inline handle_response        *)
(* handler (ANY), then the route_to_worker node (NEW).  Responses come     *)
(* from the server through the transport, whose rx task runs on RxWorker;  *)
(* requests of other endpoints arrive there too (through a hub).          *)
(*                                                                         *)
(* Requests and responses travel as the bytes of the generated Request    *)
(* and Response encodings (std-modrpc proto.rs) after the TransmitPacket  *)
(* header, with an empty payload; every handler reads them back through   *)
(* the lazy accessors.  A request's id is its index, so the (plane,        *)
(* requester, worker, request_id) key is distinct for every live request   *)
(* here (its reuse is RequestTracker's subject).  A worker's observer is the callback its subscribe() call     *)
(* registered, with the task it spawns to await the ResponseWaiter.        *)
(***************************************************************************)
EXTENDS Naturals, Sequences, FiniteSets, StdProto

CONSTANTS
    Workers,     \* worker ids of the runtime
    RxWorker,    \* the worker of the transport's rx task
    Callers,     \* workers whose tasks call()
    Observers,   \* workers that called subscribe()
    Remote,      \* the origin of another endpoint's request
    MaxCalls,    \* call()s in all
    MaxRemote,   \* requests of other endpoints
    LocalAddr,   \* this endpoint's EndpointAddr
    RemoteAddr   \* the other endpoint's

ASSUME /\ RxWorker \in Workers /\ Callers \subseteq Workers
       /\ Observers \subseteq Workers /\ Remote \notin Workers
       /\ LocalAddr # RemoteAddr

Reqs == 1..(MaxCalls + MaxRemote)

VARIABLES
    origin,     \* the worker (or Remote) each request came from, in order
    caller,     \* caller[i]: the call's task "waiting", "answered", "returned"
    atServer,   \* requests the server has yet to answer: [src, bytes]
    inflight,   \* responses on the way to the rx worker, as bytes
    iw,         \* packets in the inter-worker queues: [kind, bytes, to]
    subCount,   \* subscription_pending_requests: pending_count per worker, request
    subResp,    \* ... and whether its response is stored
    observer    \* observer task per worker, request: "none", "waiting", "done"

vars == <<origin, caller, atServer, inflight, iw, subCount, subResp, observer>>

\* Requests made so far by this endpoint's callers, and by other endpoints
NCalls == Cardinality({j \in DOMAIN origin : origin[j] # Remote})
NRemote == Cardinality({j \in DOMAIN origin : origin[j] = Remote})

Init ==
    /\ origin = <<>>
    /\ caller = [i \in Reqs |-> "none"]
    /\ atServer = {} /\ inflight = {} /\ iw = {}
    /\ subCount = [w \in Workers |-> [i \in Reqs |-> 0]]
    /\ subResp = [w \in Workers |-> [i \in Reqs |-> FALSE]]
    /\ observer = [w \in Workers |-> [i \in Reqs |-> "none"]]

-----------------------------------------------------------------------------
(* The tracker of worker w                                                  *)

\* handle_request: decode_value of a RequestLazy, its request_id and
\* worker; for the callback subscribe() registered on w,
\* subscription_start_request (count + 1) and the spawned observer task
HandleRequest(w, b) ==
    IF w \in Observers
       THEN /\ subCount' = [subCount EXCEPT ![w][ReqId(b)] = @ + 1]
            /\ observer' = [observer EXCEPT ![w][ReqId(b)] = "waiting"]
       ELSE UNCHANGED <<subCount, observer>>

\* handle_response: client_finish_request if the requester is this endpoint
\* and its worker is w, then subscription_finish_request, which stores the
\* response only in an entry that exists
HandleResponse(w, b) ==
    LET i == RspId(b) IN
    /\ caller' = IF RspRequester(b) = LocalAddr /\ RspWorker(b) = w /\ caller[i] = "waiting"
                    THEN [caller EXCEPT ![i] = "answered"] ELSE caller
    /\ subResp' = IF subCount[w][i] > 0
                     THEN [subResp EXCEPT ![w][i] = TRUE] ELSE subResp

(* Variant of the next definition as a plausible slip would write it: the  *)
(* redirect condition inverted.                                            *)
RouteTargetInverted(w, b) ==
    IF RspRequester(b) = LocalAddr /\ RspWorker(b) = w THEN {RspWorker(b)} ELSE {}

\* The route_to_worker handler on w: a response for this endpoint's request
\* made on another worker goes to that worker
RouteTarget(w, b) ==
    IF RspRequester(b) = LocalAddr /\ RspWorker(b) # w THEN {RspWorker(b)} ELSE {}

\* The request chain's ToWorker redirects on w (NEW packets only)
Redirects(w, b) == {[kind |-> "req", bytes |-> b, to |-> s] : s \in Observers \ {w}}

-----------------------------------------------------------------------------
(* Actions                                                                  *)

\* RequestClient::call on worker r: client_start_request, then the request
\* is sent, dispatched on r as NEW, and goes to the server
Call(r) ==
    /\ r \in Callers /\ NCalls < MaxCalls
    /\ LET i == Len(origin) + 1
           b == RequestBytes(i, r)
       IN /\ origin' = Append(origin, r)
          /\ caller' = [caller EXCEPT ![i] = "waiting"]
          /\ HandleRequest(r, b)
          /\ iw' = iw \cup Redirects(r, b)
          /\ atServer' = atServer \cup {[src |-> LocalAddr, bytes |-> b]}
    /\ UNCHANGED <<inflight, subResp>>

\* Another endpoint's request, made on its worker rw, arrives on the
\* transport, dispatched on the rx worker as NEW; its response will come
\* back the same way
RemoteRequest(rw) ==
    /\ NRemote < MaxRemote
    /\ LET i == Len(origin) + 1
           b == RequestBytes(i, rw)
       IN /\ origin' = Append(origin, Remote)
          /\ HandleRequest(RxWorker, b)
          /\ iw' = iw \cup Redirects(RxWorker, b)
          /\ atServer' = atServer \cup {[src |-> RemoteAddr, bytes |-> b]}
    /\ UNCHANGED <<caller, inflight, subResp>>

\* RequestServer::build's handler: request_id and worker from the
\* RequestLazy, and, once the handler returns, response_tx sends the
\* Response to the requester (the packet's source)
ServerReply(m) ==
    /\ m \in atServer
    /\ atServer' = atServer \ {m}
    /\ inflight' = inflight \cup {ResponseBytes(ReqId(m.bytes), m.src, ReqWorker(m.bytes))}
    /\ UNCHANGED <<origin, caller, iw, subCount, subResp, observer>>

\* The rx task dispatches a response on the rx worker as NEW: the inline
\* handler, then route_to_worker
RxResponse(b) ==
    /\ b \in inflight
    /\ inflight' = inflight \ {b}
    /\ HandleResponse(RxWorker, b)
    /\ iw' = iw \cup {[kind |-> "rsp", bytes |-> b, to |-> t] : t \in RouteTarget(RxWorker, b)}
    /\ UNCHANGED <<origin, atServer, subCount, observer>>

\* inter-worker-rx on w dispatches a packet as INTER_WORKER: only the inline
\* handlers (source ANY) take it
InterWorkerRx(w) ==
    \E m \in iw :
       /\ m.to = w
       /\ iw' = iw \ {m}
       /\ IF m.kind = "req"
             THEN HandleRequest(w, m.bytes) /\ UNCHANGED <<caller, subResp>>
             ELSE HandleResponse(w, m.bytes) /\ UNCHANGED <<subCount, observer>>
       /\ UNCHANGED <<origin, atServer, inflight>>

\* The caller's PendingRequest is polled and returns the response
CallerReturns(i) ==
    /\ caller[i] = "answered"
    /\ caller' = [caller EXCEPT ![i] = "returned"]
    /\ UNCHANGED <<origin, atServer, inflight, iw, subCount, subResp, observer>>

\* The observer's ResponseWaiter::wait returns once the response is stored;
\* the task then drops its PendingRequestSubscription, which removes the
\* entry with the last waiter
ObserverWakes(w, i) ==
    /\ observer[w][i] = "waiting" /\ subResp[w][i]
    /\ observer' = [observer EXCEPT ![w][i] = "done"]
    /\ subCount' = [subCount EXCEPT ![w][i] = @ - 1]
    /\ subResp' = IF subCount[w][i] = 1
                     THEN [subResp EXCEPT ![w][i] = FALSE] ELSE subResp
    /\ UNCHANGED <<origin, caller, atServer, inflight, iw>>

\* Every call made and every request answered
Quiescent ==
    /\ NCalls = MaxCalls \/ Callers = {}
    /\ NRemote = MaxRemote
    /\ atServer = {} /\ inflight = {} /\ iw = {}
    /\ UNCHANGED vars

Next ==
    \/ \E r \in Workers : Call(r)
    \/ \E rw \in Workers : RemoteRequest(rw)
    \/ \E m \in atServer : ServerReply(m)
    \/ \E b \in inflight : RxResponse(b)
    \/ \E i \in Reqs : CallerReturns(i)
    \/ \E w \in Workers : InterWorkerRx(w)
    \/ \E w \in Workers, i \in Reqs : ObserverWakes(w, i)
    \/ Quiescent

\* The steps the endpoint takes once a request is made
Progress ==
    \/ \E m \in atServer : ServerReply(m)
    \/ \E b \in inflight : RxResponse(b)
    \/ \E i \in Reqs : CallerReturns(i)
    \/ \E w \in Workers : InterWorkerRx(w)
    \/ \E w \in Workers, i \in Reqs : ObserverWakes(w, i)

\* The server answers, the rx task and inter-worker-rx are woken by their
\* queues, and woken tasks are polled: while one of these steps can be
\* taken, one is.  Each uses up a request, a packet or a waiter, so this
\* brings every one that can be taken about.
Fairness == WF_vars(Progress)

Spec == Init /\ [][Next]_vars /\ Fairness

-----------------------------------------------------------------------------
(* Properties                                                               *)

TypeOK ==
    /\ origin \in Seq(Workers \cup {Remote}) /\ Len(origin) <= MaxCalls + MaxRemote
    /\ caller \in [Reqs -> {"none", "waiting", "answered", "returned"}]
    /\ \A m \in atServer : m.src \in {LocalAddr, RemoteAddr} /\ m.bytes \in Seq(0..255)
    /\ \A b \in inflight : b \in Seq(0..255)
    /\ \A m \in iw : m.kind \in {"req", "rsp"} /\ m.bytes \in Seq(0..255) /\ m.to \in Workers
    /\ subCount \in [Workers -> [Reqs -> 0..1]]
    /\ subResp \in [Workers -> [Reqs -> BOOLEAN]]
    /\ observer \in [Workers -> [Reqs -> {"none", "waiting", "done"}]]

\* Every call() returns its response, whichever worker made it and whichever
\* worker the transport delivers the response to.
CallsComplete == \A i \in Reqs : caller[i] = "waiting" ~> caller[i] = "returned"

\* Every observer's ResponseWaiter::wait returns, and its entry in the
\* subscription table goes with the last waiter (spec.md 4.8: observers see
\* requests and their responses).
ObserversAnswered ==
    \A w \in Workers, i \in Reqs :
        observer[w][i] = "waiting" ~> (observer[w][i] = "done" /\ subCount[w][i] = 0)

=============================================================================
