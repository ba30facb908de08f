--------------------------- MODULE PacketProcessor ---------------------------
(***************************************************************************)
(* One worker's PacketProcessor (src/crates/modrpc/src/packet_processor.rs)*)
(* seen from the tasks of its single-threaded executor.                    *)
(*                                                                         *)
(* The dispatch table `handlers` sits behind a localq::RwLock.             *)
(* handle_packet holds the read guard for the whole walk of a chain and    *)
(* may suspend inside it, at `queue.send(..).await` of a LocalQueue node   *)
(* whose bounded queue is full.  While it is suspended other tasks of the  *)
(* worker run: role setup adds nodes (add_node), role shutdown removes a   *)
(* plane (remove_plane), other packets are dispatched.  A mutation that    *)
(* cannot take the write lock (try_write fails) is pushed on `mutations`   *)
(* and applied by the dispatch that finishes it, after dropping its read   *)
(* guard and awaiting the write lock.                                      *)
(*                                                                         *)
(* The executor is cooperative, so a task runs without interruption from  *)
(* one await to the next: each action below is such a segment.  A         *)
(* dispatch future can also be dropped while it is suspended: a role task  *)
(* is raced against the role's shutdown signal (RoleSpawner::spawn) and    *)
(* EventTx::try_send polls handle_packet once (now_or_never).  CancelSpec *)
(* lets that happen; Spec does not.                                        *)
(*                                                                         *)
(* Data is abstracted away: a node is its id and whether it can suspend    *)
(* (LocalQueue) or not (Inline, RouteTo*, whose callbacks are synchronous);*)
(* the local queue is its length; a packet is the key it is sent on.       *)
(***************************************************************************)
EXTENDS Integers, Sequences, SequencesExt, FiniteSets, TLC

CONSTANTS
    Planes,       \* plane ids (model values)
    Topics,       \* topic ids (model values)
    Tasks,        \* tasks of the worker that call handle_packet
    QueueCap,     \* capacity of the bounded localq channel behind LocalQueue nodes
    MaxNodes,     \* bound on add_node calls
    MaxPackets,   \* bound on handle_packet calls
    PlaneReuse    \* may a plane id be used by a new role after remove_plane?

ASSUME QueueCap \in Nat \ {0} /\ MaxNodes \in Nat /\ MaxPackets \in Nat
ASSUME PlaneReuse \in BOOLEAN

Keys  == Planes \X Topics
Kinds == {"Inline", "LocalQueue"}
Nodes == [id : 1..MaxNodes, kind : Kinds]
NoDispatch == [key |-> <<>>, pos |-> 0, snap |-> <<>>]

VARIABLES
    handlers,    \* HashMap<(plane, topic), NodeChain>: key -> chain of nodes, head first
    existing,    \* existing_topics: keys for which a tracer was created
    planeChain,  \* plane_topic_chain + NodeChain::plane_next_topic: plane -> topics, newest first
    mutations,   \* Vec<Mutation> deferred while the table was locked
    readers,     \* tasks holding the read guard of `handlers`
    pc,          \* per task: "idle", "walk" (suspended on a full queue), "drain" (awaiting write)
    cur,         \* per task: the chain being walked and the position of the next node
    queued,      \* number of packets in the bounded local queue
    crashed,     \* an `expect` of _add_node or _remove_plane panicked
    nextNode,    \* nodes added so far
    sent,        \* packets dispatched so far
    role         \* plane -> "none" | "live" | "dead": the role that owns the plane id

vars == <<handlers, existing, planeChain, mutations, readers, pc, cur, queued,
          crashed, nextNode, sent, role>>

-----------------------------------------------------------------------------
(* The table state that mutations act on, and the two mutations.           *)

TableState == [h |-> handlers, pt |-> planeChain, ex |-> existing, crash |-> crashed]

SetTable(st) ==
    /\ handlers' = st.h
    /\ planeChain' = st.pt
    /\ existing' = st.ex
    /\ crashed' = st.crash

\* _add_node: an occupied chain gets the node on top; a vacant one is created
\* with the tracer add_node made for it, linked on top of the plane's topic
\* stack; `tracer.expect("... missing tracer")` panics when there is none,
\* and `debug_assert!(tracer.is_none())` when an occupied chain gets one.
ApplyAdd(st, p, t, tracer, n) ==
    IF <<p, t>> \in DOMAIN st.h
    THEN [st EXCEPT !.h = [@ EXCEPT ![<<p, t>>] = <<n>> \o @],
                    !.crash = @ \/ tracer]
    ELSE [st EXCEPT !.h = @ @@ (<<p, t>> :> <<n>>),
                    !.pt = [@ EXCEPT ![p] = <<t>> \o @],
                    !.crash = @ \/ ~tracer]

\* _remove_plane: take the plane's topic stack out of plane_topic_chain and
\* remove each topic from existing_topics and from the table, where
\* `expect("... missing topic")` panics if its chain is absent.
ApplyRemove(st, p) ==
    LET keys == {<<p, t>> : t \in ToSet(st.pt[p])}
    IN  [h     |-> [key \in DOMAIN st.h \ keys |-> st.h[key]],
         pt    |-> [st.pt EXCEPT ![p] = <<>>],
         ex    |-> st.ex \ keys,
         crash |-> st.crash \/ ~(keys \subseteq DOMAIN st.h)]

ApplyMutation(st, m) ==
    IF m.op = "add" THEN ApplyAdd(st, m.plane, m.topic, m.tracer, m.node)
                    ELSE ApplyRemove(st, m.plane)

(* Variants of the next definitions as a plausible slip in the code would  *)
(* write them (applying the Vec backwards, popping one mutation instead of *)
(* draining, ignoring readers, asking the table instead of existing_topics *)
(* whether a topic is new); each must make some property below fail.       *)
RECURSIVE ApplyAllReversed(_, _)
ApplyAllReversed(st, ms) ==
    IF ms = <<>> THEN st ELSE ApplyMutation(ApplyAllReversed(st, Tail(ms)), Head(ms))

\* `for mutation in mutations.drain(..)`, in push order.  (Written out
\* rather than as FoldLeft, which TLC evaluates far more slowly, and this is
\* evaluated on every step by the refinement check.)
RECURSIVE ApplyAll(_, _)
ApplyAll(st, ms) ==
    IF ms = <<>> THEN st ELSE ApplyAll(ApplyMutation(st, Head(ms)), Tail(ms))

ApplyFirstMutation ==
    /\ SetTable(IF mutations = <<>> THEN TableState
                ELSE ApplyMutation(TableState, Head(mutations)))
    /\ mutations' = SubSeq(mutations, 2, Len(mutations))

\* With the write guard held: apply every pending mutation and empty the Vec.
ApplyMutations ==
    /\ SetTable(ApplyAll(TableState, mutations))
    /\ mutations' = <<>>

TryWriteAlways == TRUE

\* `self.handlers.try_write()` succeeds: no task holds the read guard (a
\* writer never holds the lock across an await).
TryWrite == readers = {}

NewTracerFromTable(p, t) == <<p, t>> \notin DOMAIN handlers

\* add_node makes a trace source iff existing_topics.insert((plane, topic))
\* reports the key as new.
NewTracer(p, t) == <<p, t>> \notin existing

-----------------------------------------------------------------------------
(* The walk of a chain, from one await to the next.                        *)

LQCount(c, from, to) == Cardinality({i \in from..to : c[i].kind = "LocalQueue"})

\* Variant: the queue is taken to be full one packet late.
StopIndexLate(c, from, free) ==
    LET blocked == {i \in from..Len(c) :
                        c[i].kind = "LocalQueue" /\ LQCount(c, from, i - 1) = free + 1}
    IN  IF blocked = {} THEN Len(c) + 1 ELSE CHOOSE i \in blocked : \A j \in blocked : i <= j

\* Index of the first LocalQueue node that finds the queue full, given `free`
\* slots when the segment starts; Len(c) + 1 when the walk reaches the end.
StopIndex(c, from, free) ==
    LET blocked == {i \in from..Len(c) :
                        c[i].kind = "LocalQueue" /\ LQCount(c, from, i - 1) = free}
    IN  IF blocked = {} THEN Len(c) + 1 ELSE CHOOSE i \in blocked : \A j \in blocked : i <= j

\* End of handle_packet: drop(handlers); if mutations are pending, take the
\* write lock (at once when no other reader holds the table, otherwise by
\* waiting in "drain") and apply all of them.
FinishDispatch(k, rd) ==
    /\ readers' = rd
    /\ cur' = [cur EXCEPT ![k] = NoDispatch]
    /\ IF mutations # <<>> /\ rd = {}
       THEN /\ ApplyMutations
            /\ pc' = [pc EXCEPT ![k] = "idle"]
       ELSE /\ pc' = [pc EXCEPT ![k] = IF mutations = <<>> THEN "idle" ELSE "drain"]
            /\ UNCHANGED <<handlers, planeChain, existing, crashed, mutations>>

\* Walk the chain of `key` from node `pos` while holding the read guard:
\* every LocalQueue node pushes one packet, until one finds the queue full
\* (the task suspends there) or the chain ends.
RunChain(k, key, pos, rd) ==
    LET c      == handlers[key]
        stop   == StopIndex(c, pos, QueueCap - queued)
    IN  /\ queued' = queued + LQCount(c, pos, stop - 1)
        /\ IF stop <= Len(c)
           THEN /\ pc' = [pc EXCEPT ![k] = "walk"]
                /\ cur' = [cur EXCEPT ![k] = [key |-> key, pos |-> stop, snap |-> c]]
                /\ readers' = rd \cup {k}
                /\ UNCHANGED <<handlers, planeChain, existing, crashed, mutations>>
           ELSE FinishDispatch(k, rd \ {k})

-----------------------------------------------------------------------------
(* Operations.                                                             *)

\* PacketProcessor::handle_packet, called by an idle task with a packet for
\* (p, t).  No chain: return at once (no_handlers); the read guard taken for
\* the lookup is dropped and pending mutations are left alone.
HandlePacket(k, p, t) ==
    /\ pc[k] = "idle"
    /\ sent < MaxPackets
    /\ sent' = sent + 1
    /\ IF <<p, t>> \in DOMAIN handlers
       THEN RunChain(k, <<p, t>>, 1, readers)
       ELSE UNCHANGED <<handlers, planeChain, existing, crashed, mutations, readers,
                        pc, cur, queued>>
    /\ UNCHANGED <<nextNode, role>>

\* A dispatch suspended on a full queue resumes once the queue has room.
ResumeDispatch(k) ==
    /\ pc[k] = "walk"
    /\ queued < QueueCap
    /\ RunChain(k, cur[k].key, cur[k].pos, readers)
    /\ UNCHANGED <<sent, nextNode, role>>

\* `self.handlers.write().await` completes: apply and clear every mutation.
DrainMutations(k) ==
    /\ pc[k] = "drain"
    /\ readers = {}
    /\ ApplyMutations
    /\ pc' = [pc EXCEPT ![k] = "idle"]
    /\ UNCHANGED <<readers, cur, queued, sent, nextNode, role>>

\* The task behind a suspended handle_packet drops its future: the read
\* guard is released and nothing after the await runs.
CancelDispatch(k) ==
    /\ pc[k] \in {"walk", "drain"}
    /\ readers' = readers \ {k}
    /\ pc' = [pc EXCEPT ![k] = "idle"]
    /\ cur' = [cur EXCEPT ![k] = NoDispatch]
    /\ UNCHANGED <<handlers, planeChain, existing, crashed, mutations, queued, sent,
                   nextNode, role>>

\* The task reading the bounded localq channel takes one packet.
ConsumeLocalQueue ==
    /\ queued > 0
    /\ queued' = queued - 1
    /\ UNCHANGED <<handlers, planeChain, existing, crashed, mutations, readers, pc, cur,
                   sent, nextNode, role>>

\* Role setup can still install handlers on plane p: a plane id is fresh,
\* or its role is running, or a new role may take a retired id.
PlaneOpen(p) == role[p] \in {"none", "live"} \/ (PlaneReuse /\ role[p] = "dead")

\* PacketProcessor::add_node (add_handler, add_local_queue, to_worker, ...),
\* called by role setup on plane p.  A tracer is made iff the key is new to
\* existing_topics; the node goes in at once if try_write succeeds, which
\* it does exactly when no task holds the read guard.
AddNode(p, t, kind) ==
    LET n      == [id |-> nextNode + 1, kind |-> kind]
        tracer == NewTracer(p, t)
        st     == [TableState EXCEPT !.ex = @ \cup {<<p, t>>}]
        m      == [op |-> "add", plane |-> p, topic |-> t, tracer |-> tracer, node |-> n]
    IN  /\ nextNode < MaxNodes
        /\ PlaneOpen(p)
        /\ role' = [role EXCEPT ![p] = "live"]
        /\ nextNode' = nextNode + 1
        /\ IF TryWrite
           THEN SetTable(ApplyMutation(st, m)) /\ UNCHANGED mutations
           ELSE SetTable(st) /\ mutations' = Append(mutations, m)
        /\ UNCHANGED <<readers, pc, cur, queued, sent>>

\* PacketProcessor::remove_plane, called from the role's on_shutdown task.
RemovePlane(p) ==
    /\ role[p] = "live"
    /\ role' = [role EXCEPT ![p] = "dead"]
    /\ IF TryWrite
       THEN SetTable(ApplyRemove(TableState, p)) /\ UNCHANGED mutations
       ELSE UNCHANGED <<handlers, planeChain, existing, crashed>>
            /\ mutations' = Append(mutations, [op |-> "remove", plane |-> p])
    /\ UNCHANGED <<readers, pc, cur, queued, sent, nextNode>>

\* Every bound is spent and the worker is idle: it waits for input forever.
Quiescent ==
    /\ nextNode = MaxNodes \/ \A p \in Planes : ~PlaneOpen(p)
    /\ sent = MaxPackets
    /\ \A k \in Tasks : pc[k] = "idle"
    /\ queued = 0
    /\ UNCHANGED vars

Init ==
    /\ handlers = [key \in {} |-> <<>>]
    /\ existing = {}
    /\ planeChain = [p \in Planes |-> <<>>]
    /\ mutations = <<>>
    /\ readers = {}
    /\ pc = [k \in Tasks |-> "idle"]
    /\ cur = [k \in Tasks |-> NoDispatch]
    /\ queued = 0
    /\ crashed = FALSE
    /\ nextNode = 0
    /\ sent = 0
    /\ role = [p \in Planes |-> "none"]

Next ==
    \/ \E k \in Tasks, p \in Planes, t \in Topics : HandlePacket(k, p, t)
    \/ \E k \in Tasks : ResumeDispatch(k) \/ DrainMutations(k)
    \/ ConsumeLocalQueue
    \/ \E p \in Planes, t \in Topics, kind \in Kinds : AddNode(p, t, kind)
    \/ \E p \in Planes : RemovePlane(p)
    \/ Quiescent

\* The worker's own tasks are scheduled fairly by its executor; the callers
\* (new packets, role setup and shutdown, cancellation) are not.
Fairness ==
    /\ \A k \in Tasks : WF_vars(ResumeDispatch(k)) /\ WF_vars(DrainMutations(k))
    /\ WF_vars(ConsumeLocalQueue)

SafetySpec == Init /\ [][Next]_vars

Spec == SafetySpec /\ Fairness

\* The same steps, and dispatch futures dropped while suspended
NextWithCancel == Next \/ \E k \in Tasks : CancelDispatch(k)

CancelSpec == Init /\ [][NextWithCancel]_vars /\ Fairness

-----------------------------------------------------------------------------
(* Properties.                                                             *)

TypeOK ==
    /\ DOMAIN handlers \subseteq Keys
    /\ \A key \in DOMAIN handlers : handlers[key] \in Seq(Nodes) /\ handlers[key] # <<>>
    /\ existing \subseteq Keys
    /\ planeChain \in [Planes -> Seq(Topics)]
    /\ readers \subseteq Tasks
    /\ pc \in [Tasks -> {"idle", "walk", "drain"}]
    /\ queued \in 0..QueueCap
    /\ crashed \in BOOLEAN
    /\ role \in [Planes -> {"none", "live", "dead"}]

\* No `expect` in _add_node ("missing tracer") or _remove_plane ("missing
\* topic") ever panics, whatever order mutations are deferred and applied in.
NoPanic == ~crashed

\* A dispatch suspended in the middle of a chain resumes on the chain it
\* started on: nothing add_node or remove_plane did meanwhile has changed it.
\* This is what the read guard and the deferred-mutation buffer are for.
StableChain ==
    \A k \in Tasks : pc[k] = "walk" =>
        /\ cur[k].key \in DOMAIN handlers
        /\ handlers[cur[k].key] = cur[k].snap

\* The table as it will be once every pending mutation is applied: this is
\* the table the callers of add_node and remove_plane have asked for.
EffectiveTable ==
    IF mutations = <<>> THEN handlers ELSE ApplyAll(TableState, mutations).h

Abstract == INSTANCE DispatchTable WITH table <- EffectiveTable

\* Every step changes the effective table as one atomic add_node or
\* remove_plane would, in the order they were called: deferring a mutation
\* never lets a later one overtake it.
DispatchTableRefinement == Abstract!Spec

\* A deferred mutation is eventually applied: a handler installed while a
\* dispatch held the table starts receiving packets, a removed plane stops.
MutationsApplied == (mutations # <<>>) ~> (mutations = <<>>)
=============================================================================
