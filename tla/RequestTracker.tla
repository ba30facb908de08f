--------------------------- MODULE RequestTracker ---------------------------
(***************************************************************************)
(* The request/response correlation of one client worker                  *)
(* (src/std-modrpc/rust/src/request_tracker.rs and                         *)
(* role_impls/request_client.rs, request_server.rs).                       *)
(*                                                                         *)
(* RequestClient::call takes a request id from a slab (client_start_request)*)
(* sends Request{request_id, worker} and awaits the PendingRequest; its     *)
(* Drop frees the slab slot.  The response handler installed by            *)
(* RequestClientBuilder::build runs handle_response inline: it fills the   *)
(* slot named by the response (client_finish_request) and the observers'   *)
(* subscription entry (subscription_finish_request).  Sending a request    *)
(* also dispatches it locally, where handle_request gives every observer   *)
(* callback a PendingRequestSubscription, refcounted in                    *)
(* subscription_pending_requests by (plane, requester, worker, request_id).*)
(*                                                                         *)
(* One worker, one plane and one requester address, so an entry's key is   *)
(* its request id.  Every call gets a ghost number, carried by its request *)
(* and responses, to say which call a delivered response answers.  The     *)
(* servers (replying through load_balance on their endpoints) answer each  *)
(* request once each, in any order, after any delay.                       *)
(***************************************************************************)
EXTENDS Integers, Sequences, FiniteSets, TLC

CONSTANTS
    Callers,      \* tasks calling RequestClient::call on this worker
    Servers,      \* endpoints that answer a request (each answers once)
    MaxCalls,     \* bound on calls made
    Observed,     \* is an observer subscribed with RequestClient::subscribe?
    Cancellation  \* may a call future be dropped before its response?

ASSUME MaxCalls \in Nat \ {0} /\ Observed \in BOOLEAN /\ Cancellation \in BOOLEAN

Calls == 1..MaxCalls
Ids   == 0..(MaxCalls - 1)     \* slab keys: never more than MaxCalls live at once
NoCall == 0

VARIABLES
    slab,       \* slab::Slab<PendingRequestState>: key -> [occupied, next, response, waker]
    slabNext,   \* the slab's free-list head (== its length when no key is vacant)
    slabLen,    \* number of entries of the slab
    caller,     \* per task: [pc, call, id]
    nextCall,   \* calls started so far
    requests,   \* requests sent and not yet answered by every server: [id, call]
    served,     \* <<call, server>> pairs already answered
    responses,  \* responses in flight: [id, call, server]
    subs,       \* subscription_pending_requests: id -> [count (pending_count), response]
    observers,  \* live PendingRequestSubscriptions: [obs, id, call]
    nextObs,    \* observer tasks spawned so far
    callResult, \* call -> the call whose response its caller got (NoCall: none yet, -1: dropped)
    obsResult   \* observer -> [seen: the call it observed, got: the call whose response it got]

vars == <<slab, slabNext, slabLen, caller, nextCall, requests, served, responses,
          subs, observers, nextObs, callResult, obsResult>>

Slot(occ, nxt, resp, waker) == [occ |-> occ, next |-> nxt, resp |-> resp, waker |-> waker]
Vacant(nxt) == Slot(FALSE, nxt, NoCall, FALSE)

-----------------------------------------------------------------------------
(* The slab (crate slab): insert takes the free-list head or appends;      *)
(* remove pushes the key on the free list.                                 *)

\* Variant: the free-list head is not advanced past the key it hands out.
SlabInsertStale(key) ==
    /\ slab' = [slab EXCEPT ![key] = Slot(TRUE, 0, NoCall, FALSE)]
    /\ slabNext' = slabNext
    /\ slabLen' = IF key = slabLen THEN slabLen + 1 ELSE slabLen

\* client_start_request: pending_requests.insert(PendingRequestState { .. })
\* at key `key`, which is slabNext.
SlabInsert(key) ==
    /\ slab' = [slab EXCEPT ![key] = Slot(TRUE, 0, NoCall, FALSE)]
    /\ slabNext' = IF key = slabLen THEN slabLen + 1 ELSE slab[key].next
    /\ slabLen' = IF key = slabLen THEN slabLen + 1 ELSE slabLen

\* Variant: the key is never given back.
SlabRemoveLeak(key) == UNCHANGED <<slab, slabNext, slabLen>>

\* Drop for PendingRequest: pending_requests.remove(request_id).
SlabRemove(key) ==
    /\ slab' = [slab EXCEPT ![key] = Vacant(slabNext)]
    /\ slabNext' = key
    /\ UNCHANGED slabLen

-----------------------------------------------------------------------------
(* Subscription entries.                                                   *)

RemoveKey(s, id) == [x \in DOMAIN s \ {id} |-> s[x]]

\* subscription_start_request: find the entry or create it with no response
\* and a count of 0, then count one more.
SubStart(s, id) ==
    IF id \in DOMAIN s THEN [s EXCEPT ![id].count = @ + 1]
    ELSE s @@ (id :> [count |-> 1, resp |-> NoCall])

\* Variant: the entry is removed only once the count has already reached 0.
SubDropLate(s, id) ==
    IF s[id].count = 0 THEN RemoveKey(s, id) ELSE [s EXCEPT ![id].count = @ - 1]

\* Drop for PendingRequestSubscription: count one fewer and remove the entry
\* when this was the last (pending_count == 1).
SubDrop(s, id) ==
    IF s[id].count = 1 THEN RemoveKey(s, id) ELSE [s EXCEPT ![id].count = @ - 1]

-----------------------------------------------------------------------------
(* Operations.                                                             *)

\* RequestClient::call up to the send: client_start_request.  The send then
\* suspends reserving buffer space.
StartCall(c) ==
    /\ caller[c].pc = "idle"
    /\ nextCall < MaxCalls
    /\ slabNext \in Ids
    /\ SlabInsert(slabNext)
    /\ nextCall' = nextCall + 1
    /\ caller' = [caller EXCEPT ![c] = [pc |-> "sending", call |-> nextCall + 1, id |-> slabNext]]
    /\ UNCHANGED <<requests, served, responses, subs, observers, nextObs, callResult, obsResult>>

\* The send completes: EventTx::send dispatches Request locally (the request
\* handler's handle_request gives each observer callback a subscription and
\* spawns its task) and the request goes out; then the PendingRequest is
\* polled for the first time.
SendRequest(c) ==
    LET id == caller[c].id
        k  == caller[c].call
    IN  /\ caller[c].pc = "sending"
        /\ requests' = requests \cup {[id |-> id, call |-> k]}
        /\ IF Observed
           THEN /\ subs' = SubStart(subs, id)
                /\ observers' = observers \cup {[obs |-> nextObs + 1, id |-> id, call |-> k]}
                /\ nextObs' = nextObs + 1
           ELSE UNCHANGED <<subs, observers, nextObs>>
        /\ caller' = [caller EXCEPT ![c].pc = "polling"]
        /\ UNCHANGED <<slab, slabNext, slabLen, nextCall, served, responses, callResult, obsResult>>

\* PendingRequest::poll: take the response if there is one (the call
\* returns, dropping the PendingRequest and so freeing its key), otherwise
\* store the waker and park.
PollResponse(c) ==
    LET id == caller[c].id
    IN  /\ caller[c].pc = "polling"
        /\ IF slab[id].resp # NoCall
           THEN /\ callResult' = [callResult EXCEPT ![caller[c].call] = slab[id].resp]
                /\ SlabRemove(id)
                /\ caller' = [caller EXCEPT ![c].pc = "idle"]
           ELSE /\ slab' = [slab EXCEPT ![id].waker = TRUE]
                /\ caller' = [caller EXCEPT ![c].pc = "parked"]
                /\ UNCHANGED <<slabNext, slabLen, callResult>>
        /\ UNCHANGED <<nextCall, requests, served, responses, subs, observers, nextObs, obsResult>>

\* The call future is dropped (its task raced against a shutdown signal or
\* a timeout): Drop for PendingRequest frees the key.
CancelCall(c) ==
    /\ Cancellation
    /\ caller[c].pc \in {"sending", "polling", "parked"}
    /\ SlabRemove(caller[c].id)
    /\ callResult' = [callResult EXCEPT ![caller[c].call] = -1]
    /\ caller' = [caller EXCEPT ![c].pc = "idle"]
    /\ UNCHANGED <<nextCall, requests, served, responses, subs, observers, nextObs, obsResult>>

\* A server handles the request (RequestServerBuilder::build: the handler
\* runs, then response_tx.send(Response{request_id, requester_worker, ..})).
ServerReply(s, r) ==
    /\ r \in requests
    /\ <<r.call, s>> \notin served
    /\ served' = served \cup {<<r.call, s>>}
    /\ responses' = responses \cup {[id |-> r.id, call |-> r.call, server |-> s]}
    /\ requests' = IF \A s2 \in Servers : s2 = s \/ <<r.call, s2>> \in served
                   THEN requests \ {r} ELSE requests
    /\ UNCHANGED <<slab, slabNext, slabLen, caller, nextCall, subs, observers, nextObs,
                   callResult, obsResult>>

\* Variant: the response is stored but the parked caller is not woken.
ClientFinishNoWake(id, k) ==
    IF slab[id].occ
    THEN slab' = [slab EXCEPT ![id].resp = k] /\ UNCHANGED caller
    ELSE UNCHANGED <<slab, caller>>

\* client_finish_request: fill the slot if the key is occupied and wake
\* the stored waker.
ClientFinish(id, k) ==
    IF slab[id].occ
    THEN /\ slab' = [slab EXCEPT ![id].resp = k, ![id].waker = FALSE]
         /\ caller' = [c \in Callers |->
                         IF slab[id].waker /\ caller[c].pc = "parked" /\ caller[c].id = id
                         THEN [caller[c] EXCEPT !.pc = "polling"] ELSE caller[c]]
    ELSE UNCHANGED <<slab, caller>>

\* The response reaches this worker: handle_response (requester and worker
\* are this one's) then subscription_finish_request.
DeliverResponse(r) ==
    /\ r \in responses
    /\ responses' = responses \ {r}
    /\ ClientFinish(r.id, r.call)
    /\ subs' = IF r.id \in DOMAIN subs THEN [subs EXCEPT ![r.id].resp = r.call] ELSE subs
    /\ UNCHANGED <<slabNext, slabLen, nextCall, requests, served, observers, nextObs,
                   callResult, obsResult>>

\* An observer task awaits ResponseWaiter::wait: PendingRequestSubscription
\* ::wait returns the entry's response once there is one; the waiter is
\* then dropped.
ObserverWait(o) ==
    /\ o \in observers
    /\ subs[o.id].resp # NoCall
    /\ obsResult' = obsResult @@ (o.obs :> [seen |-> o.call, got |-> subs[o.id].resp])
    /\ observers' = observers \ {o}
    /\ subs' = SubDrop(subs, o.id)
    /\ UNCHANGED <<slab, slabNext, slabLen, caller, nextCall, requests, served, responses,
                   nextObs, callResult>>

\* An observer returns without waiting: its PendingRequestSubscription is
\* dropped.
ObserverDrop(o) ==
    /\ o \in observers
    /\ observers' = observers \ {o}
    /\ subs' = SubDrop(subs, o.id)
    /\ UNCHANGED <<slab, slabNext, slabLen, caller, nextCall, requests, served, responses,
                   nextObs, callResult, obsResult>>

\* Every call is made and answered: the worker waits for new work.
Quiescent ==
    /\ nextCall = MaxCalls
    /\ \A c \in Callers : caller[c].pc = "idle"
    /\ requests = {} /\ responses = {} /\ observers = {}
    /\ UNCHANGED vars

Init ==
    /\ slab = [id \in Ids |-> Vacant(0)]
    /\ slabNext = 0
    /\ slabLen = 0
    /\ caller = [c \in Callers |-> [pc |-> "idle", call |-> NoCall, id |-> 0]]
    /\ nextCall = 0
    /\ requests = {}
    /\ served = {}
    /\ responses = {}
    /\ subs = [id \in {} |-> NoCall]
    /\ observers = {}
    /\ nextObs = 0
    /\ callResult = [k \in Calls |-> NoCall]
    /\ obsResult = <<>>

Next ==
    \/ \E c \in Callers :
          StartCall(c) \/ SendRequest(c) \/ PollResponse(c) \/ CancelCall(c)
    \/ \E s \in Servers, r \in requests : ServerReply(s, r)
    \/ \E r \in responses : DeliverResponse(r)
    \/ \E o \in observers : ObserverWait(o) \/ ObserverDrop(o)
    \/ Quiescent

\* The callers' own steps are scheduled by the executor once woken; servers
\* answer and the transport delivers.  Observer tasks and callers starting
\* new calls are application behaviour and need not progress.
Fairness ==
    /\ \A c \in Callers : WF_vars(SendRequest(c)) /\ WF_vars(PollResponse(c))
    /\ \A s \in Servers : WF_vars(\E r \in requests : ServerReply(s, r))
    /\ WF_vars(\E r \in responses : DeliverResponse(r))

Spec == Init /\ [][Next]_vars /\ Fairness

-----------------------------------------------------------------------------
(* Properties.                                                             *)

\* Types; and the slab never holds more entries than there are callers,
\* since every PendingRequest gives its key back when dropped.
TypeOK ==
    /\ slab \in [Ids -> [occ : BOOLEAN, next : Nat, resp : {NoCall} \cup Calls, waker : BOOLEAN]]
    /\ slabLen \in 0..Cardinality(Callers)
    /\ slabNext \in 0..slabLen
    /\ caller \in [Callers -> [pc : {"idle", "sending", "polling", "parked"},
                               call : {NoCall} \cup Calls, id : Ids]]
    /\ DOMAIN subs \subseteq Ids
    /\ \A id \in DOMAIN subs : subs[id] \in [count : Nat, resp : {NoCall} \cup Calls]
    /\ callResult \in [Calls -> {NoCall, -1} \cup Calls]

\* A call returns the response to its own request, never one meant for an
\* earlier call that held the same request id (the triple (requester,
\* worker, request_id) identifies a call only while the call is alive).
CorrectResponse == \A k \in Calls : callResult[k] \in {NoCall, -1, k}

\* An observer's ResponseWaiter yields the response to the request it was
\* handed with, never a response left in a reused subscription entry.
ObserverCorrect == \A o \in DOMAIN obsResult : obsResult[o].got = obsResult[o].seen

\* The subscription entry of a request id exists exactly while some
\* PendingRequestSubscription for it is alive, and counts them.
SubscriptionRefcount ==
    /\ DOMAIN subs = {o.id : o \in observers}
    /\ \A id \in DOMAIN subs : subs[id].count = Cardinality({o \in observers : o.id = id})

\* Every call that is not dropped returns: its request goes out, the
\* response handler fills its slot and wakes it if it has parked.
CallsComplete ==
    \A c \in Callers : caller[c].pc # "idle" ~> caller[c].pc = "idle"
=============================================================================
