-------------------------- MODULE TopicSubscription --------------------------
(***************************************************************************)
(* Inter-worker subscription install for one (plane, topic):              *)
(* add_topic_subscription (role_setup.rs) run by a role's subscribe() on a *)
(* worker's thread, the TopicSubscriptions worker mask in the globals      *)
(* context map, pollster::block_on of run_on_all_other_workers (rt.rs),    *)
(* which sends a WorkerCommand to each other worker in turn with run_once  *)
(* and waits for its result, and the command task of spawn_worker          *)
(* (worker.rs) that runs each command, here add_redirect_to_worker.        *)
(*                                                                         *)
(* block_on blocks the worker's thread: while it waits, that worker's      *)
(* executor, and so its command task, does not run.                        *)
(*                                                                         *)
(* Roles on the plane follow one another (Gens of them).  A role's         *)
(* shutdown signal runs, on each worker the role runs on, the on_shutdown  *)
(* task of run_role_worker (role.rs), remove_plane; and on the first       *)
(* worker the task on_worker_group spawned, shutdown_tag of the role's     *)
(* tag in the globals.  That does not free the TopicSubscriptions item:    *)
(* with_global files it under the tag Worker(w) of the worker that created *)
(* it, and no worker tag is ever shut down, so the mask outlives every     *)
(* role.  A role is shut down once it has started on every worker and no   *)
(* worker is blocked.  With Reuse, the next role on the plane id may start *)
(* as soon as the signal has fired.                                        *)
(***************************************************************************)
EXTENDS Naturals, Sequences

CONSTANTS
    NWorkers,    \* workers of the runtime, ids 1..NWorkers
    Concurrent,  \* roles may start on two workers at once
    Gens,        \* roles that use the plane one after another
    Reuse        \* the next role may start before the last one's teardown

Workers == 1..NWorkers
NoWorker == 0
Roles == 1..Gens

\* The first worker of on_worker_group, which runs the globals shutdown
FirstWorker == 1

VARIABLES
    started,     \* workers on which a subscribing role has started setup
    subscribed,  \* workers whose local queue is installed for the topic
    mask,        \* TopicSubscriptions.worker_mask in the globals map
    redirects,   \* ToWorker nodes in each worker's packet processor
    blocked,     \* the worker's thread is inside block_on
    todo,        \* other workers block_on has still to send the command to
    awaiting,    \* the worker whose run_once result block_on awaits
    cmdq,        \* each worker's command queue: subscriber ids to redirect to
    gen,         \* the role now using the plane
    shut,        \* its shutdown signal has fired
    removing,    \* pending on_shutdown tasks: <<role, worker>>
    dropping     \* roles whose globals shutdown task is pending

vars == <<started, subscribed, mask, redirects, blocked, todo, awaiting, cmdq,
          gen, shut, removing, dropping>>
tdVars == <<gen, shut, removing, dropping>>

(* Variant of the next definition as a plausible slip would write it: the  *)
(* local worker's handle not skipped.                                      *)
OthersWithSelf(w) == [i \in 1..NWorkers |-> i]

\* worker_handles in index order, without the local worker
Others(w) == [i \in 1..NWorkers - 1 |-> IF i < w THEN i ELSE i + 1]

Init ==
    /\ started = {}
    /\ subscribed = {}
    /\ mask = {}
    /\ redirects = [v \in Workers |-> {}]
    /\ blocked = [v \in Workers |-> FALSE]
    /\ todo = [v \in Workers |-> <<>>]
    /\ awaiting = [v \in Workers |-> NoWorker]
    /\ cmdq = [v \in Workers |-> <<>>]
    /\ gen = 1 /\ shut = FALSE
    /\ removing = {} /\ dropping = {}

\* run_once: push the command on the worker's queue and await its result;
\* with nothing left to send, block_on returns
SendNext(w, rest) ==
    IF rest = <<>>
       THEN /\ blocked' = [blocked EXCEPT ![w] = FALSE]
            /\ todo' = [todo EXCEPT ![w] = <<>>]
            /\ UNCHANGED <<awaiting, cmdq>>
       ELSE /\ cmdq' = [cmdq EXCEPT ![Head(rest)] = Append(@, w)]
            /\ awaiting' = [awaiting EXCEPT ![w] = Head(rest)]
            /\ todo' = [todo EXCEPT ![w] = Tail(rest)]
            /\ blocked' = [blocked EXCEPT ![w] = TRUE]

\* The with_global closure: true, setting the bit, unless the worker's bit
\* is already in the mask
NeedsHandler(m, w) == w \notin m

\* A role's subscribe() on worker w: add_local_queue, then
\* add_topic_subscription, blocking the thread in block_on when the worker
\* is new to the mask; a later role on the same worker finds its bit set.
\* Without Concurrent, roles start one at a time.
StartRole(w) ==
    /\ ~blocked[w] /\ ~shut
    /\ Concurrent \/ \A v \in Workers : ~blocked[v]
    /\ started' = started \cup {w}
    /\ subscribed' = subscribed \cup {w}
    /\ IF NeedsHandler(mask, w)
          THEN /\ mask' = mask \cup {w}
               /\ SendNext(w, Others(w))
          ELSE UNCHANGED <<mask, blocked, todo, awaiting, cmdq>>
    /\ UNCHANGED <<redirects, gen, shut, removing, dropping>>

(* Variant of the next definition as a plausible slip would write it: the  *)
(* command's result never sent back through the oneshot.                   *)
ReplyLost(a, s) == a

\* result_tx.send(f(worker_cx)): the result wakes the waiting run_once
Reply(a, s) == [a EXCEPT ![s] = NoWorker]

\* The command task of a worker whose thread is free runs the next command:
\* add_redirect_to_worker, then the result goes back through the oneshot
RunCommand(v) ==
    /\ ~blocked[v] /\ cmdq[v] # <<>>
    /\ LET s == Head(cmdq[v]) IN
       /\ redirects' = [redirects EXCEPT ![v] = @ \cup {s}]
       /\ awaiting' = Reply(awaiting, s)
    /\ cmdq' = [cmdq EXCEPT ![v] = Tail(@)]
    /\ UNCHANGED <<started, subscribed, mask, blocked, todo>>
    /\ UNCHANGED tdVars

\* block_on's future is woken by the result and goes on to the next worker
Resume(w) ==
    /\ blocked[w] /\ awaiting[w] = NoWorker
    /\ SendNext(w, todo[w])
    /\ UNCHANGED <<started, subscribed, mask, redirects>>
    /\ UNCHANGED tdVars

\* The role's shutdown signal fires: each worker it runs on has an
\* on_shutdown task to run, and the first worker its globals task
Shutdown ==
    /\ ~shut /\ gen < Gens
    /\ started = Workers /\ \A v \in Workers : ~blocked[v]
    /\ shut' = TRUE
    /\ removing' = removing \cup {<<gen, v>> : v \in started}
    /\ dropping' = dropping \cup {gen}
    /\ UNCHANGED <<started, subscribed, mask, redirects, blocked, todo, awaiting,
                   cmdq, gen>>

\* The on_shutdown task on a free worker: pp.remove_plane drops every node
\* chain of the plane there, the redirects and the local queue with them
RemovePlane(r, v) ==
    /\ <<r, v>> \in removing /\ ~blocked[v]
    /\ redirects' = [redirects EXCEPT ![v] = {}]
    /\ subscribed' = subscribed \ {v}
    /\ removing' = removing \ {<<r, v>>}
    /\ UNCHANGED <<started, mask, blocked, todo, awaiting, cmdq, gen, shut,
                   dropping>>

\* The globals shutdown task on the first worker, once its thread is free:
\* shutdown_tag(Role(r)) frees the items on r's tag chain, and the mask is
\* not one of them
DropGlobals(r) ==
    /\ r \in dropping /\ ~blocked[FirstWorker]
    /\ dropping' = dropping \ {r}
    /\ UNCHANGED <<started, subscribed, mask, redirects, blocked, todo,
                   awaiting, cmdq, gen, shut, removing>>

\* The next role on the plane id starts its setup: after the last one's
\* teardown has run, or, with Reuse, as soon as its signal has fired
NextRole ==
    /\ shut
    /\ Reuse \/ (removing = {} /\ dropping = {})
    /\ gen' = gen + 1 /\ shut' = FALSE /\ started' = {}
    /\ UNCHANGED <<subscribed, mask, redirects, blocked, todo, awaiting, cmdq,
                   removing, dropping>>

\* Every role has started and finished its setup
Finished ==
    /\ gen = Gens /\ removing = {} /\ dropping = {}
    /\ started = Workers /\ \A v \in Workers : ~blocked[v]
    /\ \A v \in Workers : cmdq[v] = <<>>
    /\ UNCHANGED vars

Next ==
    \/ \E w \in Workers : StartRole(w) \/ RunCommand(w) \/ Resume(w)
    \/ Shutdown \/ NextRole
    \/ \E r \in Roles : DropGlobals(r) \/ \E v \in Workers : RemovePlane(r, v)
    \/ Finished

\* The executor of a free worker runs its command task; a result wakes the
\* pollster loop
Fairness == \A w \in Workers : WF_vars(RunCommand(w)) /\ WF_vars(Resume(w))

Spec == Init /\ [][Next]_vars /\ Fairness

-----------------------------------------------------------------------------
(* Properties                                                               *)

TypeOK ==
    /\ started \subseteq Workers /\ subscribed \subseteq Workers
    /\ mask \subseteq Workers
    /\ redirects \in [Workers -> SUBSET Workers]
    /\ blocked \in [Workers -> BOOLEAN]
    /\ awaiting \in [Workers -> Workers \cup {NoWorker}]
    /\ \A v \in Workers : cmdq[v] \in Seq(Workers \ {v})
    /\ gen \in Roles /\ shut \in BOOLEAN
    /\ removing \subseteq Roles \X Workers /\ dropping \subseteq Roles

\* Once subscribe() on a worker has returned, every other worker forwards
\* its new packets for the topic to it (spec section Inter-worker
\* subscription install), so events sent on any worker reach the subscriber;
\* this should hold for each role on the plane in turn, until its shutdown
\* fires.  It fails for the second role: the mask the first left behind
\* says every worker already has its redirects, which remove_plane has
\* dropped (README, Findings not kept as runs).
SubscriptionInstalled ==
    ~shut => \A w \in subscribed :
        ~blocked[w] => \A v \in Workers \ {w} : w \in redirects[v]

\* A worker that blocks in add_topic_subscription eventually returns from
\* it: every other worker runs the redirect command it sent.
SetupCompletes == \A w \in Workers : blocked[w] ~> ~blocked[w]

=============================================================================
