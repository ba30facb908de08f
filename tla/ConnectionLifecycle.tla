------------------------- MODULE ConnectionLifecycle -------------------------
(***************************************************************************)
(* The client side of TCP connections on one runtime: tcp_connect_builder  *)
(* (tcp_client_server.rs) reads the handshake's plane id, add_transport    *)
(* (rt.rs) starts a TcpTransport (tcp_transport.rs) and its flush tasks,   *)
(* start_role makes the role's shutdown signal a child of the transport's, *)
(* and on_worker_group then local start the role on each worker: each      *)
(* start builds the role's PacketSender with TransportHandle::new_writer   *)
(* (transport.rs) and runs run_role_worker (role.rs), whose on_shutdown    *)
(* task removes the role's plane from the worker's packet processor.       *)
(*                                                                         *)
(* A connection's transport dies when tcp-rx reads EOF or an error, or     *)
(* tcp-tx fails a write; either notifies its shutdown signal, and with it  *)
(* the role's.  The channel id of a SingleChannel role is its plane id.    *)
(* Packets are abstracted to the role that sent them.  TcpServer::accept   *)
(* takes the same steps after writing the handshake, so the model is that  *)
(* of either side; the peer writes to the socket whenever it likes.        *)
(***************************************************************************)
EXTENDS Naturals, Sequences, Functions

CONSTANTS
    NConns,     \* connections the application makes, numbered in order
    Order,      \* the workers a role is started on: the worker group's
                \* workers in index order, then the local worker
    PlaneOf,    \* the plane id the handshake of each connection carries
    Reconnect,  \* one task connects again only once its earlier connections
                \* have been set up and have died
    RxWorker    \* TcpTransport.worker_id: the worker of tcp-tx and tcp-rx

Conns   == 1..NConns
Workers == Range(Order)
Planes  == Range(PlaneOf)
NoConn  == 0

ASSUME /\ NConns \in Nat \ {0}
       /\ Order \in Seq(Nat) /\ Len(Order) > 0
       /\ PlaneOf \in [Conns -> Nat]
       /\ Reconnect \in BOOLEAN /\ RxWorker \in Workers

VARIABLES
    tstate,          \* each transport: "none", "open", or "dead" once its
                     \* shutdown signal has been notified
    pc,              \* the connecting task: "idle", "added" (add_transport
                     \* returned), "starting" (in on_worker_group/local), "done"
    at,              \* index in Order of the worker the role starts on next
    spawnedGlobals,  \* StartRoleHandle.has_spawned_globals_shutdown
    globalsTask,     \* the role's globals shutdown task: "none", "waiting", "ran"
    started,         \* workers run_role_worker has run the role on
    onShut,          \* workers whose on_shutdown task of the role has not run
    handlers,        \* roles with handlers in each worker's packet processor
    writer,          \* each worker's cached LocalFlush writer per channel id:
                     \* the transport whose flush channel it writes to
    wire,            \* roles whose packets each transport's tcp-tx has written
    dropped,         \* roles a packet of which, sent while their own
                     \* transport was open, reached no socket
    lost             \* transports a packet of whose peer tcp-rx dispatched
                     \* to no handler

vars == <<tstate, pc, at, spawnedGlobals, globalsTask, started, onShut,
          handlers, writer, wire, dropped, lost>>

Init ==
    /\ tstate = [t \in Conns |-> "none"]
    /\ pc = [t \in Conns |-> "idle"]
    /\ at = [t \in Conns |-> 1]
    /\ spawnedGlobals = [t \in Conns |-> FALSE]
    /\ globalsTask = [t \in Conns |-> "none"]
    /\ started = [t \in Conns |-> {}]
    /\ onShut = [t \in Conns |-> {}]
    /\ handlers = [w \in Workers |-> {}]
    /\ writer = [w \in Workers |-> [c \in Planes |-> NoConn]]
    /\ wire = [t \in Conns |-> {}]
    /\ dropped = {} /\ lost = {}

-----------------------------------------------------------------------------
(* Helpers                                                                  *)

(* Variant of the next definition as a plausible slip would write it: the  *)
(* worker-local cache looked up by the writer's type alone, so any cached   *)
(* writer is reused whatever its channel.                                   *)
NewWriterAnyChannel(cache, ch, t) ==
    IF \E c \in Planes : cache[c] # NoConn
       THEN [cache EXCEPT ![ch] = cache[CHOOSE c \in Planes : cache[c] # NoConn]]
       ELSE [cache EXCEPT ![ch] = t]

\* TransportHandle::new_writer, LocalFlush: with_local_fn(channel_id, ...)
\* under the worker's tag returns the writer cached for the channel id, and
\* only when there is none builds one on this transport's flush sender
\* (spawning its flush batcher task)
NewWriter(cache, ch, t) ==
    IF cache[ch] # NoConn THEN cache ELSE [cache EXCEPT ![ch] = t]

\* TopicChannels::create_packet_sender, SingleChannel: the channel id is
\* the role's plane id
CreatePacketSender(t, w) ==
    writer' = [writer EXCEPT ![w] = NewWriter(@, PlaneOf[t], t)]

\* PacketProcessor::remove_plane: every handler of the plane goes, whichever
\* role added it
RemovePlane(hs, p) == {r \in hs : PlaneOf[r] # p}

\* run_role_worker: spawn the on_shutdown task, then the role's setup adds
\* its handlers for the plane
RunRoleWorker(t, w) ==
    /\ onShut' = [onShut EXCEPT ![t] = @ \cup {w}]
    /\ handlers' = [handlers EXCEPT ![w] = @ \cup {t}]
    /\ started' = [started EXCEPT ![t] = @ \cup {w}]

(* Variant of the next definition as a plausible slip would write it: the  *)
(* has_spawned_globals_shutdown test turned round.                          *)
SpawnsGlobalsInverted(t) == spawnedGlobals[t]

\* The first worker the role starts on spawns the globals shutdown task
SpawnsGlobals(t) == ~spawnedGlobals[t]

-----------------------------------------------------------------------------
(* The connecting task                                                      *)

\* tcp_connect_builder: after the handshake, add_transport runs
\* start_transport (tcp-tx and tcp-rx spawned on the transport's worker)
\* and run_on_all_workers to spawn each worker's transport flush task
AddTransport(t) ==
    /\ pc[t] = "idle"
    /\ Reconnect => \A u \in Conns : u < t => pc[u] = "done" /\ tstate[u] = "dead"
    /\ tstate' = [tstate EXCEPT ![t] = "open"]
    /\ pc' = [pc EXCEPT ![t] = "added"]
    /\ UNCHANGED <<at, spawnedGlobals, globalsTask, started, onShut, handlers,
                   writer, wire, dropped, lost>>

\* start_role: the role's signal becomes a child of the transport's, so a
\* transport already dead shuts the role down at once
StartRole(t) ==
    /\ pc[t] = "added"
    /\ pc' = [pc EXCEPT ![t] = "starting"]
    /\ UNCHANGED <<tstate, at, spawnedGlobals, globalsTask, started, onShut,
                   handlers, writer, wire, dropped, lost>>

\* One worker of on_worker_group (its run_once closure) or local():
\* create_packet_sender, run_role_worker, and on the first worker the
\* globals shutdown task
StartOnWorker(t) ==
    /\ pc[t] = "starting"
    /\ LET w == Order[at[t]] IN
          CreatePacketSender(t, w) /\ RunRoleWorker(t, w)
    /\ IF SpawnsGlobals(t)
          THEN /\ globalsTask' = [globalsTask EXCEPT ![t] = "waiting"]
               /\ spawnedGlobals' = [spawnedGlobals EXCEPT ![t] = TRUE]
          ELSE UNCHANGED <<globalsTask, spawnedGlobals>>
    /\ at' = [at EXCEPT ![t] = @ + 1]
    /\ pc' = [pc EXCEPT ![t] = IF at[t] = Len(Order) THEN "done" ELSE "starting"]
    /\ UNCHANGED <<tstate, wire, dropped, lost>>

-----------------------------------------------------------------------------
(* Tasks                                                                    *)

\* The role's packet sender on worker w writes a packet: it goes through the
\* cached writer to the flush channel of the transport the writer was built
\* on, whose tcp-tx writes it to its socket; a dead transport's tcp-tx has
\* ended and the packet goes nowhere
Send(t, w) ==
    /\ w \in started[t]
    /\ LET b == writer[w][PlaneOf[t]] IN
          IF tstate[b] = "open"
             THEN wire' = [wire EXCEPT ![b] = @ \cup {t}] /\ UNCHANGED dropped
             ELSE /\ dropped' = IF tstate[t] = "open" THEN dropped \cup {t}
                                                    ELSE dropped
                  /\ UNCHANGED wire
    /\ UNCHANGED <<tstate, pc, at, spawnedGlobals, globalsTask, started, onShut,
                   handlers, writer, lost>>

\* tcp-rx receives a bundle of the peer's and dispatches it on its worker as
\* NEW: handle_packet finds the plane's handlers there, or returns at once
PeerPacket(t) ==
    /\ tstate[t] = "open"
    /\ lost' = IF \E r \in handlers[RxWorker] : PlaneOf[r] = PlaneOf[t]
                 THEN lost ELSE lost \cup {t}
    /\ UNCHANGED <<tstate, pc, at, spawnedGlobals, globalsTask, started, onShut,
                   handlers, writer, wire, dropped>>

\* tcp-rx reads EOF or an error, or tcp-tx fails a write: the task notifies
\* the transport's shutdown signal, and the other task, racing it, ends
TransportDies(t) ==
    /\ tstate[t] = "open"
    /\ tstate' = [tstate EXCEPT ![t] = "dead"]
    /\ UNCHANGED <<pc, at, spawnedGlobals, globalsTask, started, onShut,
                   handlers, writer, wire, dropped, lost>>

\* The on_shutdown task on worker w wakes on the role's signal and removes
\* the role's plane from the packet processor
OnShutdown(t, w) ==
    /\ tstate[t] = "dead" /\ w \in onShut[t]
    /\ handlers' = [handlers EXCEPT ![w] = RemovePlane(@, PlaneOf[t])]
    /\ onShut' = [onShut EXCEPT ![t] = @ \ {w}]
    /\ UNCHANGED <<tstate, pc, at, spawnedGlobals, globalsTask, started, writer,
                   wire, dropped, lost>>

\* The globals shutdown task wakes on the role's signal and runs
\* shutdown_tag(Role(role_id)) on the globals map
GlobalsShutdown(t) ==
    /\ tstate[t] = "dead" /\ globalsTask[t] = "waiting"
    /\ globalsTask' = [globalsTask EXCEPT ![t] = "ran"]
    /\ UNCHANGED <<tstate, pc, at, spawnedGlobals, started, onShut, handlers,
                   writer, wire, dropped, lost>>

Next ==
    \E t \in Conns :
        \/ AddTransport(t) \/ StartRole(t) \/ StartOnWorker(t)
        \/ TransportDies(t) \/ GlobalsShutdown(t) \/ PeerPacket(t)
        \/ \E w \in Workers : Send(t, w) \/ OnShutdown(t, w)

\* The connecting task is polled and each run_once closure runs on its
\* worker's command task; a woken shutdown task is polled.  Connections,
\* sends and transport deaths are the environment's and not fair.
Fairness ==
    \A t \in Conns :
        /\ WF_vars(StartRole(t)) /\ WF_vars(StartOnWorker(t))
        /\ WF_vars(GlobalsShutdown(t))
        /\ \A w \in Workers : WF_vars(OnShutdown(t, w))

Spec == Init /\ [][Next]_vars /\ Fairness

-----------------------------------------------------------------------------
(* Properties                                                               *)

TypeOK ==
    /\ tstate \in [Conns -> {"none", "open", "dead"}]
    /\ pc \in [Conns -> {"idle", "added", "starting", "done"}]
    /\ at \in [Conns -> 1..Len(Order) + 1]
    /\ spawnedGlobals \in [Conns -> BOOLEAN]
    /\ globalsTask \in [Conns -> {"none", "waiting", "ran"}]
    /\ started \in [Conns -> SUBSET Workers]
    /\ onShut \in [Conns -> SUBSET Workers]
    /\ handlers \in [Workers -> SUBSET Conns]
    /\ writer \in [Workers -> [Planes -> Conns \cup {NoConn}]]
    /\ wire \in [Conns -> SUBSET Conns]
    /\ dropped \subseteq Conns /\ lost \subseteq Conns

\* A role's packets go out on its own transport (spec.md: each worker's
\* writers hand off to a per-transport flush channel): a transport's socket
\* carries only its own role's packets, and a packet a role sends while its
\* transport is open is not lost to another transport's flush channel.
EgressIsolated ==
    /\ \A b \in Conns : wire[b] \subseteq {b}
    /\ dropped = {}

\* One connection's role is isolated from every other (spec section 7: only
\* transport death propagates, and only to its own subtree): its egress is
\* isolated, and a role whose transport is open keeps its handlers on every
\* worker it started on whatever other roles' on_shutdown tasks do.
RoleIsolated ==
    /\ EgressIsolated
    /\ \A t \in Conns :
         tstate[t] = "open" => \A w \in started[t] : t \in handlers[w]

\* The peer may send as soon as its own side is set up (spec.md 6: once the
\* initiating side has the handshake, bundles flow): every packet tcp-rx
\* receives on an open transport reaches the handlers of the role the
\* connection starts.
IngressHandled == lost = {}

\* A role's state is cleaned up after its transport dies
Cleaned(t) ==
    /\ pc[t] = "done" /\ onShut[t] = {} /\ globalsTask[t] = "ran"
    /\ \A w \in Workers : t \notin handlers[w]

\* Once a connection's transport dies, the role is eventually gone from
\* every worker: its start finishes, every on_shutdown task has removed its
\* plane and its globals shutdown task has run, even when the transport
\* died before the role had started on some worker.
RoleCleanedUp == \A t \in Conns : tstate[t] = "dead" ~> Cleaned(t)

=============================================================================
