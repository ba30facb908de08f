# TLA+ models of modrpc

These modules model the concurrency core of modrpc (`src/crates/modrpc`) and
of the standard roles (`src/std-modrpc/rust`), and check them with TLC.
`PROJECT.json` lists every component, run, mutant, source mapping, finding
and hazard, and is the index of this directory.

## The system

A modrpc runtime runs N **workers**. Each is one OS thread with a cooperative
single-threaded executor (`modrpc-executor`). A task runs without
interruption from one `.await` to the next. So within a worker, interleaving
happens only at awaits; across workers, only through queues.

- **PacketProcessor** (`packet_processor.rs`). Each worker has one. It maps
  `(plane, topic)` to a chain of nodes: Inline callbacks, LocalQueue
  (a bounded localq channel), RouteToLocalQueue, ToWorker and RouteToWorker.
  - `handle_packet` walks a chain while holding the table's read guard. It
    suspends at a queue send when the queue is full.
  - `add_node` and `remove_plane` take the write lock with `try_write`. When
    that fails, they push a mutation on a Vec, which the dispatch drains
    when it finishes.
- **Worker runtime** (`worker.rs`, `rt.rs`). Its tasks:
  - local-rx and inter-worker-rx dispatch packets;
  - a command task runs closures sent to the worker;
  - burstq batchers forward inter-worker packets.
- **Role setup and lifecycle** (`role_setup.rs`, `role.rs`).
  - Setup installs nodes. A subscription also installs, on every other
    worker, a ToWorker redirect guarded by a global u64 mask. The first
    subscriber blocks in `pollster::block_on` while every other worker runs a
    command.
  - Shutdown calls `remove_plane` and `shutdown_tag`. It also drops every
    role task through `future::or` with the shutdown signal.
- **Packet sender and flush batcher** (`packet_sender.rs`,
  `flush_batcher.rs`). A send dispatches locally through `handle_packet`,
  then flushes the channel or schedules a flush. `try_send` polls the send
  once (`now_or_never`).
- **Load balancer** (`load_balancer.rs`). It tries the local queue first and
  spills to a shared MPMC queue when that is full. A pull task moves packets
  from the shared queue back to a local queue.
- **Request tracker** (`request_tracker.rs`, `request_client.rs`,
  `request_server.rs`). Pending requests live in a slab keyed by request id,
  and responses are matched by requester and id.
  - Each worker of a client endpoint runs its own tracker. The inline
    request and response handlers see only what is dispatched on their
    worker.
  - `route_to_worker` sends a response to the worker whose task made the
    call.
  - `subscribe()` registers an observer, and forwards the request topic
    from the other workers to the observer's worker.
- **Streams** (`stream_*`, `multi_stream_*`, `byte_stream_*`). Items carry a
  sequence number. Receivers reorder them through a min-heap.
- **Context map** (`context_map.rs`). It stores tagged globals and locals,
  and `shutdown_tag` drops a tag's values.
- **Hub** (`modrpc-hub`). A `Broadcaster` task relays each bundle a
  transport sends to every other transport with a next hop on its
  channel. Transports are the local worker and the TCP (or websocket)
  clients of the accept loop, which add and remove themselves through
  requests to the broadcaster.
- **Connections** (`tcp_client_server.rs`, `tcp_transport.rs`,
  `transport.rs`, `rt.rs`). `tcp_connect_builder` (or a `TcpServer`'s
  `accept`) takes the plane id from the handshake, and `add_transport`
  starts a `TcpTransport`: a tcp-tx and a tcp-rx task, plus a flush task
  on every worker. `start_role` makes the role's shutdown signal a child
  of the transport's. `on_worker_group` and `local` then run
  `run_role_worker` on each worker, with a packet sender from
  `new_writer`. A role's channel id is its plane id, and each worker
  caches one writer per channel id.
- **TCP ingress** (`tcp_ingress.rs`). tcp-tx writes each flushed buffer
  as a `PacketBundle` header (`BASE_LEN` bytes, with the payload length)
  followed by the payload. tcp-rx calls `TcpIngress::receive`, which
  rebuilds the bundles from the byte stream, however TCP splits it into
  reads, inside the buffers of a `bab::Framer`.
- **Endpoint protocol, code generator**. Socket bytes, generated codecs
  and a compiler are not modelled (see below).

## Modules

| module | models | state | actions |
|---|---|---|---|
| `DispatchTable` | the promise of `add_node`/`remove_plane`: an atomic map from keys to node stacks | `table` | `Add`, `Remove` |
| `PacketProcessor` | one worker's `PacketProcessor`, its tasks and local queue | `handlers`, `existing` (existing_topics), `planeChain` (plane_topic_chain), `mutations`, `readers` (read-guard holders), `pc`/`cur` per task, `queued`, `crashed`, `role` per plane | `HandlePacket`, `ResumeDispatch`, `DrainMutations`, `CancelDispatch`, `ConsumeLocalQueue`, `AddNode`, `RemovePlane`, `Quiescent` |
| `MC_PacketProcessor` | model values for TLC | | |
| `ReentrantDispatch` | a topic whose inline handler sends on its own topic: `is_in_handler`, `try_send`, the worker's local packet queue and its local-rx task | `appNext`, `lpq` (local packet queue), `sq` (a subscriber's queue), `disp` (suspended `handle_packet` per task), `inHandler`, ghosts `hGot`, `sGot`, `accepted` | `AppSend`, `LocalRx`, `Resume`, `Consume`, `Finished` |
| `MC_Dispatch` | `PacketProcessor` and `ReentrantDispatch` in one run (`pp_refine`) | | |
| `RequestTracker` | one client worker's `RequestTracker`, its `RequestClient` calls and observers, and the answering servers | `slab`/`slabNext`/`slabLen` (the pending-request slab and its free list), `caller` per calling task, `requests`, `responses`, `subs` (the subscription map with its refcounts), `observers` | `StartCall`, `SendRequest`, `PollResponse`, `CancelCall`, `ServerReply`, `DeliverResponse`, `ObserverWait`, `ObserverDrop`, `Quiescent` |
| `MC_RequestTracker` | model values for TLC | | |
| `MC_Worker` | the request tracker, the dispatch table with dropped dispatch futures, the hub, the connections, the `TcpServer` handshake and the Property roles, checked in one run (`rt_core`) | | |
| `StreamReceiver` | a Stream role: `StreamSender::send`, the receiver's inline handler and its task | `sendSeq`, `net` (items in transit), `heap`, `queue` (the 64-slot channel), `handled` | `Send`, `HandleItem`, `ReceiverTask`, `Finished` |
| `MultiStream` | one stream of a MultiStream role: `SendMultiStream`, `build`'s callback with `StreamState::handle_item`, and the reader | `sendSeq`, `ended`, `net`, `heap`, `firstSeq`, `lastSeq`, `receivedCount`, `nextSeq` (the `StreamState` fields), `queue` (the one-slot channel), `registered` (the broker entry), `reader`, `got` | `SendItem`, `End`, `ReceiveItem`, `ReaderNext`, `ReaderWake`, `Finished` |
| `ByteStream` | a ByteStream role: `ByteStreamSender::send`, the inline blob handler, `consume` | `sendCursor`, `sentBlobs`, `net`, `blobs` (start index to length), `current` (`current_blob_start`), `cursor` (`consume_cursor`), `crashed` | `Send`, `Receive`, `Consume`, `Finished` |
| `MC_StreamReceiver`, `MC_MultiStream` | each stream model alone, for the runs that show its finding | | |
| `ContextMap` | `ContextMapPrivate`, behind both `ContextMap` (globals) and `LocalContextMap` (locals) | `map` (item to its `tag_next`), `tagChains` (`tag_chains`), `owner` (ghost: the tag each item was created under), `panicked` | `With`, `WithFn`, `ShutdownTag` |
| `FlushBatcher` | the LocalFlush egress path of one worker: `send_raw`'s flush decision, each writer's `FlushBatcher` and flush task, the transport's batcher and flush task | `wrote`, `buf` (unflushed writes), `staged` (in the transport's flush channel), `sent`, `pc` per producer, `nft` (`next_flush_time`), `waker`, `task` per flush task, `sleep` (the task's `Sleeper`: none, pending, stale after `cancel_flush`, elapsed) | `Write`, `AfterDispatch`, `PollWait`, `HandleFlush`, `Wake`, `Tick`, `Elapse`, `Finished` |
| `LoadBalancer` | a queued, load-balanced event receiver on three workers, one of them built with `build_proxied` | `nextId`, `pending` (a dispatch blocked on the batcher channel), `lq`, `bq` (batcher channel), `held`/`bsz` (the batch being written), `shared` (the burstq queue), `flushing` (`is_flushing_overflow`), `ov` (the burst being pushed), `handled` | `Dispatch`, `ProxyDispatch`, `DispatchResume`, `BatcherRecv`, `BatcherSend`, `RxRecv`, `RxPush`, `Consume`, `Finished` |
| `TopicSubscription` | `add_topic_subscription` on each worker with `run_on_all_other_workers`, `run_once` and the worker command task, and the teardown of each role on the plane | `started`, `subscribed`, `mask` (`worker_mask`), `redirects` (ToWorker nodes per worker), `blocked` (thread inside `block_on`), `todo`, `awaiting`, `cmdq`, `gen` (the role on the plane), `shut`, `removing`, `dropping` (pending teardown tasks) | `StartRole`, `RunCommand`, `Resume`, `Shutdown`, `RemovePlane`, `DropGlobals`, `NextRole`, `Finished` |
| `InterWorkerRouting` | the routing of one topic's packets between workers: `handle_packet`'s walk of the redirect, route, queue and inline nodes with its `sent_to_workers` mask, the batchers of `build_inter_worker_batchers`, the inter-worker queues, inter-worker-rx, and the subscribers' consumer tasks | `nsent`, `disp` (each task's walk: packet, source, position, mask), `subq`, `got` (history of what each sink received), `bch` (batcher channels), `held`/`bsz`, `iq` (inter-worker queues), `ibatch`, `fwd` (history of hops) | `Produce`, `Resume`, `BatcherRecv`, `BatcherSend`, `InterRecv`, `InterDispatch`, `Consume`, `Finished` |
| `HubBroadcaster` | the hub of `modrpc-hub`: the `Broadcaster` task with its in-packet and request queues, the local transport's setup and flush task, the TCP accept loop and each client's spoke | `live` (the transport slotmaps), `nextHops`, `tlc` (`transport_local_channel_ids` entries), `reqq` (request queue), `waiting` (requesters awaiting a response), `inq` (in-packet queue), `setup`, `accPc`/`accCur` (accept loop), `accepted`, `rejected`, `ing` (spoke ingress), `connected` (socket open), `wrote`/`fwd` (bundles a peer wrote, the spoke forwarded), `got` (bundles each transport was sent), `due` (ghost: the targets registered when a bundle was forwarded) | `HandleInPacket`, `HandleRequest`, `SetupNextHop`, `SetupDone`, `ForwardBundle`, `LocalFlush`, `AcceptClient`, `HandshakeFail`, `AfterAddTcp`, `AfterNextHop`, `PeerWrite`, `PeerClose`, `IngressForward`, `IngressClosed`, `Quiescent` |
| `AppHubAccept` | the endpoint addresses `modrpc-hub` hands out: the shared `next_endpoint_id` cell and the accept loops of `spawn_hub_tcp` and `spawn_hub_websocket` | `nextId` (the cell), `pc`/`cur` (each loop's step and the address it read), `conns`, `live` (connected clients with their addresses) | `Accept`, `Handshake`, `Register`, `Disconnect`, `Finished` |
| `TcpHandshake` | `TcpServer::accept` and `tcp_connect` on one server's connections: the shared `next_plane_id` cell, the framed `PlaneHandshake`, and the bytes of the server role's packets that follow on the socket | `nextPlane`, `spc`/`plane` (each accept task), `wire`, `closed`, `sent`, `cpc`/`cpos`/`clen`/`cplane`/`caddr` (each `tcp_connect`), `got` (what its tcp-rx hands on) | `Accept`, `Handshake`, `ServerSend`, `Close`, `ReadLen`, `ReadPayload`, `ClientRecv`, `Finished` |
| `PropertyRole` | a Property role: `PropertyOwner::update` through clones of one owner, with `PacketSender::send_raw`'s two awaits, and a `PropertyObserver`'s inline handler | `ownerValue` (`State.value`), `pc`/`arg` (each updating task), `calls`, `wire` (the packets in the writer), `obsPos`, `observerValue` | `Update`, `Reserve`, `Dispatch`, `Drop`, `Observe`, `Finished` |
| `ConnectionLifecycle` | a client runtime's TCP connections: `add_transport`, `start_role`, `on_worker_group`/`local` with `create_packet_sender` and `run_role_worker`, the role's shutdown tasks, and the transport's death | `tstate` (transport open or its signal notified), `pc`/`at` (the connecting task), `spawnedGlobals` (`has_spawned_globals_shutdown`), `globalsTask`, `started`, `onShut` (pending `on_shutdown` tasks), `handlers` (roles with handlers per worker), `writer` (each worker's writer cache: channel id to the transport it writes to), `wire`/`dropped` (ghost: whose packets each socket carried, whose were lost), `lost` (ghost: connections whose incoming packet found no handler) | `AddTransport`, `StartRole`, `StartOnWorker`, `Send`, `PeerPacket`, `TransportDies`, `OnShutdown`, `GlobalsShutdown` |
| `MC_ConnectionLifecycle` | the hub's and a `TcpServer`'s plane ids, for `hub_reconnect` and `conn_early` | | |
| `TcpIngress` | `TcpIngress::receive` reading the bundles a peer wrote | `bundles` (the peer's payload lengths), `pos` (stream bytes read), `fs` (frame start in the buffer), `cursor`, `garbled` (bytes left behind by `next_buffer`), `out` (returned frames as stream offsets), `closed`, `panicked` | `HeaderRead`, `BodyRead`, `Deliver`, `Ended` |
| `RequestRouting` | one client endpoint's request and response topics across its workers: `RequestClient::call` and `subscribe`, each worker's inline `handle_request`/`handle_response`, `route_to_worker`, the request topic's redirects, inter-worker-rx, and the server | `origin` (the worker or other endpoint each request came from), `caller`, `atServer`, `inflight` (responses on the way to the rx worker), `iw` (inter-worker packets), `subCount`/`subResp` (each worker's subscription entries), `observer` | `Call`, `RemoteRequest`, `ServerReply`, `RxResponse`, `InterWorkerRx`, `CallerReturns`, `ObserverWakes`, `Quiescent` |
| `LittleEndian` | mproto's little-endian integers, shared by the codecs below | | |
| `EndpointProto` | the `PacketBundle` and `TransmitPacket` layouts of `endpoint_proto.rs`: encode and the Lazy accessors' offsets | | |
| `StdProto` | the `Request`, `Response`, `StreamItem`, `MultiStreamId` and `MultiStreamItem` layouts generated into std-modrpc's `proto.rs`: each Gen encode and the Lazy accessors | | |
| `MC_RequestRouting` | `RequestRouting` alone, for `rr_observer` | | |
| `Runtime` | `RuntimeBuilder::start`, the remote worker threads' startup, `run_on_all_workers`/`run_once`, the worker command task, and `RuntimeShutdownHandle::shutdown` (`rt.rs`, `worker.rs`) | `startPc`/`nextW` (`start()` and the worker it starts next), `thread`, `ctx` (the thread's `worker_contexts` slot), `cmdTask`, `queue` (each command queue), `caller` (each caller's step and the worker its call is on), `ran` (ghost: where each closure ran, in order), `sig` (`rt_shutdown_signal`), `shutPc` | `StartLocal`, `SpawnWorkerThread`, `WorkerStartup`, `StartResumes`, `CallerBegins`, `RunOnceSend`, `CommandTask`, `CommandTaskEnds`, `CallerResumes`, `Shutdown`, `WorkerStops`, `Join`, `ShutDown` |
| `WireFormat` | the bytes of a packet from one client through the hub: `send`/`send_raw`'s `TransmitPacket` header, tcp-tx's `PacketBundle` header, the hub's tcp-ingress task, the broadcaster's re-framing for a TCP client and `ShatterPacketBundle` for a local transport, and the other client's `shatter_packet_bundle` | `sent` (ghost), `buf`/`bufN` (the writer's buffer), `wire1` (to the hub), `hubIn` (the in-packet queue), `wire2` (to the other client), `rxGot` (what tcp-rx handed on, decoded), `rxPanicked`, `localGot` (what the local transport was sent) | `Send`, `Flush`, `SpokeIngress`, `Broadcast`, `ClientRx`, `Done` |
| `MC_Components` | the components that share no state (the MultiStream and ByteStream roles, the context map, the flush path, the load balancer, the subscription install, the inter-worker routing, the TCP ingress, the request routing, the runtime, the wire format), checked in one run | | |

### PacketProcessor

Each action is one segment of a task between awaits:

- **`HandlePacket`** is `handle_packet` from its start. It looks up the
  chain, returning at once when there is none. Otherwise it walks the chain:
  each LocalQueue node pushes one packet. The walk stops at the first
  LocalQueue node that finds the queue full, where the task suspends holding
  the read guard.
- **`ResumeDispatch`** continues the walk once the queue has room.
- **`FinishDispatch`** is the end of the walk. It drops the guard, and if
  mutations are pending it drains them: at once when no other reader holds
  the table, otherwise by waiting in `DrainMutations`.
- **`AddNode`** and **`RemovePlane`** are `add_node` and `remove_plane`.
  - `TryWrite` models `try_write`, which succeeds when no task holds the read
    guard.
  - A tracer is made iff the key is new to `existing_topics` (`NewTracer`).
  - `ApplyAdd` and `ApplyRemove` are `_add_node` and `_remove_plane`,
    including their `expect`s and the `debug_assert`. A panic sets `crashed`.
- **`CancelDispatch`** drops a suspended dispatch future. Callers that do
  this are `PacketSender::try_send` (`now_or_never`) and tasks raced against
  a shutdown signal (`future::or`). The guard is released and the drain is
  skipped. `NextWithCancel` and `CancelSpec` add it to `Next` and `Spec`.
- **`PlaneReuse`**: when it is TRUE, a new role may take a plane id whose
  role was removed. This is reachable where the plane id is fixed, as in the
  hub handshakes' `0x42424242`.

Abstractions:

- A node is an id with a kind. Inline stands for every node that cannot
  suspend; the route callbacks are synchronous.
- A packet is only the key it is sent on, and the local queue is only its
  length.
- Source filters are left out; the recursive-handler requeue is modelled
  in `ReentrantDispatch`.

`DispatchTable` is the abstract specification. `PacketProcessor` implements
it under the refinement mapping `table <- EffectiveTable`: the concrete
table with every pending mutation applied in push order.

### Re-entrant dispatch

`ReentrantDispatch` models a chain of an inline handler followed by a
`LocalQueue` node. `handle_packet` sets the chain's `is_in_handler` flag
around each inline call (packet_processor.rs 222-233). The handler cannot
await, so it answers each application packet with `try_send`, which polls
`send_raw`, and so `handle_packet`, once (packet_sender.rs 113-115). That
inner call finds the flag set and pushes the packet on the worker's local
packet queue instead of walking the chain (lines 197-203). If that queue is
full the push is pending, `now_or_never` drops it and `try_send` returns
false. The local-rx task (worker.rs 340-358) later dispatches the re-queued
packet through the whole chain.

`HandlePacket`, `Walk`, `Handler` and `TrySend` are mutually recursive
operators over a record of the state a call changes; each action runs one
task from one await to the next. `disp` holds, per task, where its
`handle_packet` is suspended: on the local packet queue (0) or on a full
`LocalQueue` node. The ghosts count the handler's calls and the
subscriber's pushes per packet, and record which sends were accepted.

### RequestTracker

- **`StartCall`** is `client_start_request`: a slab insert. `SlabInsert`
  follows `slab`'s free list, so the key freed last is handed out first.
- **`SendRequest`** is the rest of `RequestClient::call` up to its first
  await, together with the synchronous `handle_request` its send runs. When
  `Observed` is TRUE, a subscribed observer gets a
  `PendingRequestSubscription` (`SubStart`, `subscription_start_request`).
- **`PollResponse`** is `PendingRequest::poll`. It either takes the response,
  frees the key and returns, or stores the waker and parks.
- **`CancelCall`** drops the call future at either await, and
  `PendingRequest::drop` frees the key. The constant `Cancellation` enables
  it.
- **`ServerReply`** is a request server answering. **`DeliverResponse`** is
  `handle_response`: `client_finish_request` (`ClientFinish`) fills the slot
  of whatever call holds the id and wakes it, then
  `subscription_finish_request` stores the response in the subscription
  entry.
- **`ObserverWait`** and **`ObserverDrop`** are `ResponseWaiter::wait` and
  the drop of `PendingRequestSubscription` (`SubDrop`), which removes the
  entry at refcount zero.

A request or response is only its call number, and a request id is its slab
key. The call number is ghost state: it lets the properties ask whose
response a call received.

### RequestRouting

The model follows one endpoint's request and response topics across its
workers. A request is its index, and `origin` records who made it.

- **`Call`** is `RequestClient::call` up to its await. The send dispatches
  the request on the caller's worker as NEW. There it runs the inline
  `handle_request` (`HandleRequest`): an observer registered on that
  worker gets a subscription entry and a spawned task. The request topic's
  ToWorker redirects, installed by `subscribe()` on the other workers,
  then forward the request to every other observing worker (`Redirects`).
- **`RemoteRequest`** is another endpoint's request, dispatched as NEW on
  the transport's rx worker.
- **`RxResponse`** is a response dispatched as NEW on the rx worker. The
  inline `handle_response` (`HandleResponse`) completes the call if it is
  this worker's and stores the response in an existing subscription
  entry. Then `route_to_worker` (`RouteTarget`) forwards it to the
  caller's worker if that is another.
- Requests and responses travel as their byte encodings from
  `std-modrpc`'s `proto.rs`: `RequestBytes` lays out the request id (u32)
  and the caller's worker (u16) little-endian, `ResponseBytes` the request
  id, the requester's endpoint address (u64) and its worker (u16). The
  handlers read the fields back at the accessors' offsets (`ReqId`,
  `RspRequester`, `RspWorker`, ...), so a wrong offset or a swapped field
  shows up as a misrouted response. `LocalAddr` and `RemoteAddr` are this
  endpoint's and the other endpoint's addresses. The layouts are in
  `StdProto`, over `LittleEndian`'s `LE`/`FromLE` (the `mproto` codec crate
  is not in the repository; its integers are little-endian, as the
  offsets of the generated accessors and `spec.md` §6 show).
- **`InterWorkerRx`** dispatches one inter-worker packet as INTER_WORKER,
  which only the inline handlers take.
- **`CallerReturns`** is the poll of the woken `PendingRequest`.
- **`ObserverWakes`** is `wait` returning, then the drop of the
  `PendingRequestSubscription`, which frees the entry with its last waiter.

Request ids are distinct here; their reuse is the subject of
`RequestTracker`.

### Streams

The MultiStream and ByteStream roles share no state, so they are checked
in one run together with the other such components (see `MC_Components`
below). Each keeps its own fairness, and each property belongs to one of
them. There, a blob is its start index and length, and a MultiStream item
the bytes of its packet. The Stream role is checked on its own, at the byte level,
because its decoding is where it goes wrong.

- **`StreamReceiver`**. `Send` puts the item's packet on the way:
  the `TransmitPacket` header (`EndpointProto`) and the `StreamItem`
  encoding (`StdProto`), whose one-byte payload is the item's index
  (`ItemPacket`). `HandleItem` is the closure passed to `inline_untyped`:
  it decodes the item's seq at offset `ItemAt` of the packet (`InlineSeq`),
  pushes the packet, then pops while the top's seq equals `next_seq`, and
  `try_send`s each popped packet into the channel, which drops it when the
  channel is full. `next_seq` is a local of the closure starting at 0, so
  the packets popped are those whose seqs make up the run 0, 1, 2, ...
  present in the heap (`PoppedRun`). `ReceiverTask` is the spawned loop
  that receives a packet, decodes the item after the header and calls the
  handler with its payload. The code decodes the item at offset 0 of the
  packet (`stream_receiver.rs:103`), so `sr_live` sets `ItemAt = 0`; the
  plane is 0 there (a `TcpServer`'s first plane), because the seq then read
  holds the plane id times 2^32, beyond TLC's integers for any other.
- **`MultiStream`**.
  - An item travels as the bytes `send` encodes: the `TransmitPacket`
    header, then `MultiStreamItem` (`StdProto`): the stream id's `owner` and
    `id`, the seq, and the payload as an `Option` whose value is the seq
    (`ItemPacket`, `ValuePacket`); `end` sends `None` (`EndPacket`).
  - `SendItem` is `send`/`try_send`. The seq is taken first. When `Lossy`
    is TRUE, the item may then not be sent (`try_send` returning false, or a
    `send` future dropped before it sent).
  - `ReceiveItem` is `build`'s callback: it decodes the seq, the stream
    id's `id` and whether the payload is `None` from the packet's bytes
    (`Decoded`), and drops the item when the broker no longer knows that
    id, and otherwise runs `handle_item`
    (`HandleItem`). The loop of `handle_item` compares every popped seq with
    a local `next_seq` that it never advances, so it passes on at most one
    item. An item popped when the channel is full goes back on the heap.
    When `StreamIsDone` holds, the broker entry is removed.
  - `ReaderNext` is `next_packet` up to its await: `try_recv`, then
    `try_pop`, else park in `recv`. `ReaderWake` is that `recv` returning.
    `Take` is `next()` decoding the item's payload: `Some` is returned to
    the caller, `None` ends the stream and the reader is done.
- **`ByteStream`**.
  - `Send` advances `send_cursor` and then sends the blob.
  - `Receive` is the inline handler. It lowers `current_blob_start` to an
    earlier start index, then stores the blob with `or_insert`.
  - `Consume(count)` is `consume`, including its two u64 subtractions: an
    underflow sets `crashed`.
  - `peek`, `try_peek_ahead` and `peek_ahead` only read the state.

### Context map

`ContextMapPrivate` is reached only through `&mut self`: a `RefCell`
borrow for the locals and the globals mutex for the globals. So each
operation is one atomic step. An item is its `(TypeId, key)` pair; the
stored value, its constructor and the hashing are left out, because they
never touch the table or the chains.

- `With(t, k)` and `WithFn(t, k)` are `with_inner` and `with_inner_fn`.
  Both go through `GetPtr`, which is `get_ptr`/`get_ptr_fn`. An existing
  item is returned whatever tag it was created under. A new item is pushed
  on the front of the chain of the tag passed in, and its `tag_next` is the
  old head (`PrevHead`).
- `ShutdownTag(t)` removes the tag's head from `tag_chains` and walks the
  chain with `find_item`. `ChainFrom` is that walk. An item missing from
  the table is the `expect` panic, which sets `panicked`.
- `owner` is ghost state. It lets `ChainsPartition` say which items each
  chain must reach.

### Flush path

Bytes are counted in writes, and time is reduced to whether a deadline
is still ahead (`"set"`) or has passed (`"due"`). `Tick` is time passing.

- `Write(c)` is `send_raw` up to its await in `handle_packet`.
  `AfterDispatch(c)` is the rest of it. At the high-water mark it calls
  `channel.flush()` and `cancel_flush()` (`FlushAndCancel`). Otherwise it
  calls `schedule_flush()` (`ScheduleFlush`). `ScheduleFlush` is a no-op
  when a deadline is set. Otherwise it sets one and wakes the waker it
  takes.
- `PollWait(b)` is `FlushBatcherWait::poll`. It is ready when a deadline
  is set. Otherwise it stores the waker and the task parks (`"waiting"`).
- `HandleFlush(b)` is `handle_flush` with the task's match on the result:
  break on `DoNotFlush`, sleep on `Snooze` (`Wake` ends the sleep), and act
  on `FlushNow` (`FlushNow`).
  - A writer's task calls `flush_local` (its buffer goes to the transport's
    flush channel, `staged`) and schedules the transport's batcher.
  - The transport's task calls `flush_sender.flush()` (`staged` goes to
    `sent`).
- The task's `Sleeper` is `TokioSleeper`. `Snooze` is `snooze`: it
  creates a sleep only when none exists, so a later deadline does not
  replace an earlier one. `SleepReady` is `poll_sleep`: ready when the
  sleep has elapsed (and then cleared) or when there is none. A
  `cancel_flush` leaves the sleep in place (`"stale"`): its deadline is
  gone but the timer still runs, and `Elapse` is it firing. So after a
  high-water flush the task can wake early, find no deadline and go back
  to `DoNotFlush`, which the properties must survive.
- `channel.flush()` belongs to the bab writer, which is outside `src/`.
  It is modelled as the spec's "forces an immediate flush": the buffer
  reaches the transport at once.

### Load balancer

A packet is a number in dispatch order. The shared queue is burstq, which
is outside `src/`. Its `send(n, ..)` waits for one free slot and then
writes as many of the batch as fit (`Granted`). Its `recv(n, ..)` takes up
to `n` packets.

- `Dispatch(w)` is the `RouteToLocalQueue` handler of
  `spawn_load_balancer` followed by `handle_packet`'s send to the queue it
  returns. The handler `try_send`s to the local queue unless
  `is_flushing_overflow` is set. Otherwise, or when the local queue is full,
  the packet goes to the batcher channel. When that channel is full too,
  the dispatch blocks, and `DispatchResume` is that send completing.
- `BatcherRecv`/`BatcherSend` are `run_burstq_batcher`. It receives the
  first packet and sizes the batch, then writes the first packet and
  `try_recv`s the rest of the slots granted.
- `RxRecv`/`RxPush` are the recv task. `RxRecv` is one `recv` that sets
  `is_flushing_overflow`. `RxPush` is one `send` of the burst to the local
  queue. After the last one the flag is cleared as the loop starts over.
  The model splits into separate steps some awaits that complete at once
  in the code. This only adds interleavings.
- `Consume` is `handle_events_async`, the task `queued` spawns, calling
  the handler. `Queued` is `queued` itself: an empty local queue per
  worker and a task that has handled nothing.
- `ProxyDispatch(w)` is the handler `proxy_load_balancer` installs on a
  worker built with `build_proxied`. It never uses a local queue: every
  packet goes to the batcher channel, and waits there when it is full.
  `Dispatch` and `RxRecv` are guarded to the other workers, where
  `spawn_load_balancer` runs; a proxy never pulls from the shared queue.

### Subscription install

`add_topic_subscription` sets the worker's bit in the `TopicSubscriptions`
mask (`NeedsHandler`). If the bit was new, it runs
`pollster::block_on(run_on_all_other_workers(..))`. `block_on` blocks the
worker's OS thread. While it waits, that worker's executor, and so its
command task, does not run.

- `StartRole(w)` is a role's `subscribe()`. When `NeedsHandler` holds, it
  sets the bit and sends the first command (`SendNext`, which is
  `run_once`).
- `RunCommand(v)` is the command task of a worker whose thread is free. It
  runs `add_redirect_to_worker` and sends the result back (`Reply`).
- `Resume(w)` is `block_on`'s future going on to the next worker (`Others`
  is `worker_handles` without the local worker). After the last one,
  `block_on` returns.
- The constant `Concurrent` says whether a role may start on one worker
  while another worker is inside `block_on`.
- Roles use the plane one after another (`Gens` of them). `Shutdown` is
  the role's shutdown signal firing once the role has started on every
  worker. It leaves an `on_shutdown` task on each worker (`RemovePlane`,
  which is `remove_plane` and drops the redirects and the local queue) and
  the globals task that `on_worker_group` spawned on the first worker
  (`DropGlobals`). That task runs `shutdown_tag` of the role's tag. It
  does not free the mask: `with_global` files the item under the tag
  `Worker(w)` of the worker that created it (worker.rs:234), and only
  `Role` tags are ever shut down (rt.rs:617 and 671, role.rs:167). The
  mask outlives every role.
- `NextRole` is `start_role` for the next role on the same plane id.
  Without `Reuse` it waits until the last role's teardown has run. With
  `Reuse` it starts as soon as the signal has fired.

### Inter-worker routing

`InterWorkerRouting` follows the packets of one `(plane, topic)` between
workers. The chain of each worker is fixed (`ChainOf`), as role setup in
`role_setup.rs` leaves it. `_add_node` pushes at the head, so nodes added
later come first:

- a ToWorker redirect, accepting NEW, to each other subscribing worker
  (added by the other workers' `add_topic_subscription` commands);
- the subscriber's LocalQueue, accepting ANY (`queued(..).subscribe()`);
- an Inline handler accepting INTER_WORKER (`from_inter_worker`);
- a RouteToWorker node accepting NEW (`route_to_worker`), whose callback
  picks a worker from the packet (`RouteTarget`), possibly its own.

`Walk` is one run of `handle_packet`'s loop. It skips a node whose filter
does not match the source, and hands the packet to inline handlers. It
pushes to the local queue or to a batcher channel, and it stops,
suspended, at a push into a full channel. A redirect or route tests the
`sent_to_workers` mask (`AlreadySent`) and sets the bit (`Bit`) before its
send. A send to the walker's own worker only sets the bit, since
`inter_worker_senders[self]` is `None`. `Resume` completes the suspended
send and walks on. `Produce` is `send_raw` on a producer task, which
dispatches with NEW. `BatcherRecv` and `BatcherSend` are
`run_burstq_batcher`: `BatcherSend` writes `first_packet` and then what
`try_recv` drains, as far as the queue grants. `InterRecv` and
`InterDispatch` are inter-worker-rx, which dispatches with INTER_WORKER.
`Consume` is `handle_events_async`.

`Bit(v)` is `v % MaskWidth`. The mask is an `i32` (`let mut
sent_to_workers = 0`), and in a release build a shift by 32 or more
wraps, so the model keeps the width at 32.

### Hub

`HubBroadcaster` models `modrpc-hub`. `AppHubBuilder::build` (`Init`)
spawns the `Broadcaster` and registers the static local transport. `run`
selects, in any order, between the in-packet queue and the request queue
(`Next`). `HandleInPacket` broadcasts a bundle to every next hop but its
origin (`Targets`, `Broadcast`). A write to a client whose socket has
closed may fail, and then that transport leaves its slotmap (`live`).
`next_hops` keeps it. `HandleRequest` answers `add_tcp`/`add_local`,
`remove_transport` and `add_next_hop_to_channels` requests, each through a
oneshot (`Request`, `Respond`). `remove_transport` drops the transport's
next hops (`Retain`) only if it has `transport_local_channel_ids` entries.

The local transport registers itself and its next hop (`SetupNextHop`,
`SetupDone`). Its flush task (`LocalFlush`) forwards what the local worker
wrote. The accept loop of `spawn_hub_tcp` takes a connection
(`AcceptClient`), may fail its handshake (`HandshakeFail`), runs
`spawn_tcp_spoke`'s `add_tcp` (`AfterAddTcp`) and then registers the next
hop (`AfterNextHop`). Each spoke's ingress task forwards the bundles its
peer wrote (`IngressForward`, `ForwardBundle`; `PeerWrite`). At end of
stream it calls `remove_transport` (`IngressClosed`; `PeerClose`). A
bundle is a pair of origin and sequence number. The ghost `due` records
the targets a bundle had when it was forwarded.

`DeliverySound`, `RegisteredDelivered` and `RemovalFinal` relate the three
tasks' orders: a client may close before its next hop is registered, or
while a bundle to it is queued.

`AppHubAccept` models the addresses the hub gives its clients.
`AppHubBuilder::build` starts the hub's role as endpoint 0 and shares one
`Rc<Cell<u64>>` `next_endpoint_id`, starting at 1, between
`spawn_hub_tcp` and `spawn_hub_websocket` (`Init`, `HubAddr`). Each accept
loop takes a connection (`Accept`; the websocket loop's `accept_async` may
fail and drop it), reads the cell, and awaits `client_handshake`. If the
handshake fails the address is dropped; otherwise the cell is set to one
more than its current value (`Handshake`, `AdvanceFromCell`). The spoke,
the next hop and the disconnect task follow as one step (`Register`), and
`client_disconnected` ends a client (`Disconnect`). `EndpointsUnique`
says that connected clients never share an address and never hold the
hub's. No run checks it. With the TCP loop alone it only restates the
`set(get() + 1)` at line 219. With both loops it is violated (see
Findings not kept as runs).

### Property roles

`PropertyRole` models a Property role (`property_owner.rs`,
`property_observer.rs`). A `PropertyOwner` is a handle on one shared
`State`, and any task may hold a clone of it. `update(new_value)` is
`EventTx::send` followed by the store into `State.value`. The send is
`PacketSender::send_raw`. `Update` is the call up to `reserve`'s await.
`Reserve` is `reserve` returning: the header and the `PropertyUpdate`
are encoded into the slot (`UpdatePacket`, `PropertyUpdateBytes`), so the
packet's place on the wire is fixed here. `Dispatch` is
`handle_packet`'s await returning (the owner's own inline handler does
nothing), the flush being scheduled, and the store. `Drop` is the
future dropped at either await. `Observe` is the observer's inline
handler on the other end of the connection: `decode_value` of the
payload and the store of `new_value` (`PUNewValue`).

`OwnerValuePublished` says that the owner's value is always the initial
value or the value of a packet in the writer. It holds because `update`
stores only after the send. `rt_core` has two tasks with clones of the
owner, two updates of values 0, 1 and 258 (a two-byte u32), and futures
that may be dropped. The owner and its observers can still end with
different values; see the findings below.

### Connections

`ConnectionLifecycle` follows the connections a client runtime makes.
`AddTransport` is the handshake followed by `add_transport`:
`TcpTransport::start_transport` spawns tcp-tx and tcp-rx, and
`run_on_all_workers` spawns each worker's transport flush task.
`StartRole` is `start_role`. `StartOnWorker` is one worker of
`on_worker_group` (its `run_once` closure) or `local()`, in the order
`Order`:

- `CreatePacketSender` calls `NewWriter`, which is `new_writer`'s
  `with_local_fn(channel_id, ...)`. It returns the writer cached on the
  worker for the channel id, and builds one on this transport's flush
  sender only if there is none.
- `RunRoleWorker` spawns the `on_shutdown` task and adds the role's
  handlers.
- The first worker spawns the globals shutdown task (`SpawnsGlobals`).

`Send` abstracts the egress path: the cached writer, its flush task, the
transport's flush channel and tcp-tx. A packet goes out on the socket of
the transport the writer was built on, or nowhere if that transport is
dead. `TransportDies` is tcp-rx reading EOF or tcp-tx failing a write.
Either notifies the transport's signal and, through `add_child`, the
role's. `OnShutdown` is the `on_shutdown` task: it runs `remove_plane`,
which removes every handler of the plane whichever role added it.
`PeerPacket` is a packet from the peer that the tcp-rx task dispatches on
`RxWorker` (the transport's `worker_id`). It is lost when that worker has
no handler for the connection's plane, which is `handle_packet`'s return
when no chain is found.
`GlobalsShutdown` runs `shutdown_tag(Role(id))` on the globals.

`bab`'s `SignalTree` is not in the repository. The model assumes that a
child added to a signal that was already notified is notified too, so a
role whose transport died before `start_role` still shuts down.

### Handshake

`TcpHandshake` models one `TcpServer` and the clients that connect to it
(`tcp_client_server.rs`). Each accepted connection has its own task.
`Accept` is `TcpServer::accept` up to its first await: it reads
`next_plane_id` and sets it to one more (`AdvancePlane`). `Handshake` is
`handshake`'s `write_all` of the frame: the payload length as a `u16`,
then `PlaneHandshake`'s bytes (`HandshakeFrame`, `PlaneHandshakeBytes`).
On a closed socket the write fails and `accept` returns the error;
otherwise it adds the transport and starts its role as endpoint 0.
`ServerSend` is that role sending a packet, which tcp-tx writes as one
bundle of one packet (`PacketBytes`). `Close` is the peer or the network
ending the connection.

On the client, `ReadLen` and `ReadPayload` are `tcp_connect`'s two
`read_exact`s; at end of stream they fail. The payload is decoded with
`DecodePlaneHandshake`. `ClientRecv` is the client's tcp-rx taking the
next whole bundle and decoding its packet (`DecodePacket`).
`HandshakeAgrees` says that a client whose `tcp_connect` returned runs on
the plane its accept task took, as endpoint 1, on no other started
client's plane, and has received exactly the server role's packets so
far, in order and byte-exact. `rt_core` has two connections accepted
concurrently, a one-byte `Init` and two packets per connection, so that
both accept tasks can be between their read of the cell and their write.

### TCP ingress

`TcpIngress` is one call of `receive` after another, on a stream of
`NBundles` bundles whose payload lengths are chosen in the initial state.
The bytes are stream offsets, and a frame is the offset where it starts.
`Offset(i)` is where bundle `i` starts: the sum of the earlier bundles'
sizes, as tcp-tx writes them. Each read returns any number of the bytes
that have arrived, from one up to the room it is given (`ReadSizes`).
When everything has been read, the read returns 0 and `receive` returns
`ConnectionReset`.

- `HeaderRead` is the `cursor < BASE_LEN` branch. It reads up to
  `HeaderLimit`, which is `max(write.len() - max_packet_size, BASE_LEN)`.
  The usize subtraction panics if `write.len() < max_packet_size`.
  `debug_assert!` panics if there is no room.
- `BodyRead` is one turn of the `while` loop. It reads up to `BodyLimit`,
  which is `max(write.len() - max_packet_size, BASE_LEN + packet_len)`.
  The slice panics if that is past the buffer.
- `Deliver` commits the bundle and subtracts it from `cursor`. If the rest
  of the buffer is shorter than `max_packet_size`, it calls
  `next_buffer()`; otherwise `finish_frame()`. The length decoded from the
  header is the bundle's at a bundle boundary, and any length anywhere
  else (`HeaderLens`).

A read may take bytes past the bundle it is reading: with room `W`, it
may read up to `W - max_packet_size`. Those bytes stay in the write
region for the next frame. Only `debug_assert_eq!(cursor, 0)` stands
between `next_buffer()` and losing them, and a release build does not
check it. `garbled` records that loss, and a frame returned after it is
no bundle's.

`bab::Framer` is not in the repository. The model assumes this of it:

- `write()` is the buffer from the current frame's start to its end;
- `commit(n)` adds `n` bytes to the frame;
- `finish_frame()` returns the frame and starts the next one after it;
- `next_buffer()` returns the frame and starts on a fresh buffer, whose
  write region does not hold bytes read past the frame.

The writers leave `BASE_LEN` of tailroom (`transport.rs:96-100`). So with
the same buffer size on both ends, every bundle fits in the receiver's
`max_packet_size`, and the model assumes that bound.

### Runtime

`Runtime` is the runtime's life: `start()`, calls that run a closure on
every worker, and `shutdown()`. With `Local`, the calling thread is worker
0 (`new_with_local`), and the `NRemote` worker threads are numbered after
it.

- `StartLocal` is `start()` up to its loop over the worker groups. It
  sets up the local worker (`spawn_worker`) and writes its context into
  the thread's slot.
- `SpawnWorkerThread` and `WorkerStartup` are the thread spawn and the new
  thread's setup: its context in the slot, its command task spawned, then
  `startup_done` sent and `run_until` entered. `StartResumes` is
  `startup_done_rx.recv()` returning, so `start()` starts one thread at a
  time.
- `CallerBegins`, `RunOnceSend` and `CallerResumes` are
  `run_on_all_workers`: `run_once` on each handle in turn. `run_once`
  sends the closure into the worker's bounded command queue, waiting for a
  slot, and awaits its result. The send's `unwrap` panics when the queue's
  receiver is gone (`RxGone`).
- `CommandTask` is one `recv` of the command task: it takes up to `Batch`
  closures and runs each, which answers its caller. `CommandTaskEnds` is
  its `future::or` seeing the shutdown signal. `recv` is polled first, so
  it ends only with an empty queue.
- `Shutdown` notifies `rt_shutdown_signal`, and with it every worker's
  signal. `WorkerStops` is a remote thread leaving `run_until`: the
  context is dropped from its slot, then the executor with the command
  task. `Join` joins every remote thread. The local worker's executor is
  the caller's; it stops when the caller stops polling it.

`burstq`, the queue crate, is not in the repository. A send into a queue
whose receiver is gone may either fail or be stored where nobody takes it.
The model allows both.

### Wire format

`WireFormat` follows the bytes of one client's packets to the hub and on
to another client and the hub's local transport. Headers are the
little-endian layouts of `endpoint_proto.rs`: `TransmitPacket` is
`payload_length`, `infra_id`, `plane_id`, `topic` and `source` in 20
bytes, and `PacketBundle` is `channel_id` and `length` in 6. Each byte of
a payload is its packet's number, so a packet that carries another's
bytes is told apart.

- `Send` is `send`/`send_raw`: the header, with `len as u16`, and the
  payload written into the writer's buffer. A buffer that cannot take the
  packet within `buffer_size` less the 6-byte tailroom is flushed first.
- `Flush` is the writer's flush and tcp-tx: a non-empty buffer written
  behind a bundle header with the writer id and `flush.len() as u16`.
- `SpokeIngress` is the hub's tcp-ingress task: the bundle header
  decoded (a bundle too short for it is skipped) and advanced past.
- `Broadcast` is `broadcast` for a channel with two next hops: the other
  client gets the bundle behind a header with its remote channel id, and
  the local transport gets each packet `ShatterPacketBundle` yields. A
  channel with no next hops drops the bundle.
- `ClientRx` is tcp-rx: `shatter_packet_bundle`'s walk over the packet
  headers up to the bundle header's length, `shatter_into`, the length
  assert, and each packet decoded as the packet processor and handlers
  read it (the header, then everything after it as the payload).

`bab` and `mproto` are not in the repository. The model assumes that
`shatter_into` cuts at the offsets, with the last piece running to the
end, and that `Packet::advance` drops a prefix without shortening the
packet, as `tcp.rs` relies on when it advances past the bundle header.
`TcpIngress` returns each bundle exactly (`IN_FramesExact`), so the sockets
are queues of bundles.

### Composition of independent components

`MC_Components` joins components that share no variables. Each is a
separate instance with its variables renamed. A variable `part`, chosen in
the initial state, picks the component whose steps a behaviour takes; the
other components stay in their initial states. Every behaviour of every
component is explored, and the state space is the sum of theirs, not the
product.

`MC_Components` extends `InterWorkerRouting` rather than instantiating
it. TLC then computes its constant tables (`ChainOf`, `RouteOf`,
`ExpectedOf`) once, where through an instance it would recompute them in
every liveness check. For the same reason `MC_Worker` extends
`RequestTracker` and instantiates `PacketProcessor`, whose properties
there are safety properties only.

Each component's fairness is restated as fairness of `Step(part, A)`, so
it applies only to the behaviours of that component. Stated without the
guard, the fairness of one component (for example a reader that is
always enabled) would make every behaviour of another component unfair,
and that component's liveness properties would hold vacuously.

## Runs

| run | expect | checks | shows |
|---|---|---|---|
| `pp_refine` | pass | `NoPanic`, `DispatchTableRefinement`, `MutationsApplied` (module `MC_Dispatch`); `RD_ReentrantDelivered` | without cancellation or plane reuse, deferral never panics and is invisible: the table changes as one atomic call at a time, in call order, and every deferred mutation is eventually applied. An inline handler that answers each packet with a `try_send` on its own topic has the answer re-queued through local-rx, and eventually every packet sent and every answer `try_send` accepted reaches the handler and the subscriber exactly once, and a refused answer neither, however the application, local-rx and the subscriber interleave |
| `pp_cancel_panic` | violation | `NoPanic` | after a dispatch is dropped, a second `add_node` on a new topic panics with "missing tracer" |
| `rt_core` | pass | `WorkerTypeOK` (the six components' `TypeOK`), `SubscriptionRefcount`, `CallsComplete`; `PP_StableChain`; `HB_DeliverySound`, `HB_RegisteredDelivered`, `HB_RemovalFinal`; `CL_RoleIsolated`, `CL_RoleCleanedUp`; `TH_HandshakeAgrees`; `PR_OwnerValuePublished` | with dropped calls and observers, the slab stays within one slot per caller, each subscription entry lives exactly as long as its subscriptions, and every call returns; with two tasks, a one-slot queue and dropped dispatches, a suspended walker's chain never changes under it; in the hub, no transport gets its own bundle, a bundle twice or out of order; every bundle reaches each transport registered when it was forwarded unless its socket closed; a closed client's completed removal leaves nothing of it; two connections to one `TcpServer`, with planes 0 and 1, never lose packets to each other or remove each other's handlers, however their setups, deaths and shutdown tasks interleave, and a dead connection's role is eventually gone from every worker; clients of one `TcpServer`, accepted concurrently, start on distinct planes, on the plane and address their server sent, and receive its role's packets byte-exact and in order (`TH_HandshakeAgrees`); the owner of a Property role, updated through two clones with futures that may be dropped, only ever holds a value its observers are sent (`PR_OwnerValuePublished`) |
| `rt_cancel` | violation | `CorrectResponse` | a dropped call's late response completes the next call that reused its id |
| `components` | pass | `ComponentsTypeOK` (every component's `TypeOK`); the MultiStream and ByteStream roles' `MS_` and `BS_` properties; `CM_ChainsPartition`; `FB_NoLostWakeup`, `FB_DataCovered`, `FB_AllFlushed`; `LB_ExactlyOnce`, `LB_AllHandled`; `TS_SetupCompletes`; `IW_DeliverySound`, `IW_OneHop`, `IW_InOrder`, `IW_AllDelivered`; `IN_FramesExact` (which includes that it never panics), `IN_AllReceived`; `RR_CallsComplete`; `RN_RunsInWorkerOrder`, `RN_RunOnAllReturns`; `WP_BundleExact` | with reordering, a MultiStream reader returns a gapless run through the end marker, its broker entry is removed only when nothing of the stream is in flight, and after `end()` both eventually happen; every byte of non-empty blobs is consumed, which also rules out `consume`'s u64 underflow panic. The tag chains of the context map reach exactly the items created under their tag, so `shutdown_tag` never panics and leaves nothing behind. A parked flush task is always woken by the next `schedule_flush`, unflushed bytes always have a flush scheduled, and every write reaches the transport. Each load-balanced packet is, at every moment, in exactly one queue or handled exactly once, and eventually handled. With roles starting one at a time, a `subscribe()` that blocks its worker's thread always returns, also for a second role on the plane after the first one's teardown. A topic's packets, routed between two workers by redirects, a route callback and an inter-worker handler, reach each sink they are meant for exactly once, in each producer's order, after at most one hop, however the producers, batchers, inter-worker-rx and consumers interleave. `TcpIngress::receive` returns exactly the peer's bundles, in order and all of them, and never panics, however the stream is split into reads (`IN_FramesExact`, `IN_AllReceived`). A `call()` made on worker 1 returns although its response arrives on worker 0, with an observer on worker 0 and another endpoint's request in flight (`RR_CallsComplete`). `run_on_all_workers` runs its closure once on each worker, in order, and returns after the last (`RN_RunsInWorkerOrder`) unless shutdown intervenes (`RN_RunOnAllReturns`). Packets one client sends through the hub reach the other client's tcp-rx byte-exact and in order, with empty payloads among them, and each is in exactly one place on the way (`WP_BundleExact`) |
| `sub_deadlock` | violation | `SetupCompletes` | subscribing roles starting on two workers at once block both worker threads for good |
| `sr_live` | violation | `AllHandled` | one item, sent on plane 0, is never handed to the handler: the inline handler reads its seq from the packet header |
| `ms_lossy` | violation | `StreamCompletes` | a `try_send` that returns false leaves a gap the reader never passes |
| `rr_observer` | violation | `ObserversAnswered` | an observer on a worker that neither called nor runs the rx task waits forever for the response |
| `conn_early` | violation | `IngressHandled` | a packet the peer sends right after the handshake reaches tcp-rx before the role's handlers exist, and is dropped |
| `wire_local` | violation | `LocalExact` | two packets bundled together reach the hub's local transport with the first still carrying the second's bytes |
| `hub_reconnect` | violation | `EgressIsolated` | a client that reconnects to the hub gets, on each worker, the writer cached for its dead first transport, and loses its packets |

**Bounds.** The model has two planes, two topics, two dispatching tasks, a
local queue of capacity 1, three `add_node` calls, and two or three packets.
These bounds are enough for the interesting cases:

- Capacity 1 makes the second LocalQueue push suspend.
- Two tasks allow two suspended readers, and a drain that waits behind
  another reader.
- Three nodes allow an immediate add, then a deferred add, then an add
  after the deferred one or on a second topic.
- Two planes let one role be removed while another adds.

`pp_refine` uses two packets because evaluating the refinement mapping on
every step is costly. Its re-entrant part sends three packets, with a local
packet queue of one slot, so a second answer finds it full and its
`try_send` is refused, and a subscriber queue of one slot, so both the
application's and local-rx's dispatches suspend on it.

The request tracker runs use two callers on one worker, one server and three
calls in total. Two callers make two live ids at once, so a freed id can be
reused while the other is pending. Three calls are enough for a call, a
dropped call, and a call that reuses its id.

The `components` run has three Stream items into a two-slot channel, so that a
run longer than the free room is popped at once. It has two MultiStream
items and an end marker into the one-slot channel, with a receiver that
takes the first item to arrive as the start. The ByteStream has three bytes
in blobs of one or two, read with counts of one and two, so a read can end
inside a blob or at its end. Three items in any order already reach every
heap case of each receiver: an item ahead of a gap, a gap filled, a popped
item put back, and an item arriving after a later one was taken as the start.

- The context map has three items and two tags. That is enough for two
  chains, an item touched under the other tag, and a tag shut down and
  used again.
- The flush path has one channel with three writes and a high-water mark
  of two. So a flush by deadline, a high-water flush and a write after it
  all happen, each with the transport's batcher in every state.
- The load balancer has three workers, one a proxy, and three packets. The local queues
  have one slot, and the batcher channels, the shared queue and the bursts
  have two. So packets spill, the shared queue fills (`Granted` below the
  batch size), a burst is pulled into another worker, a proxy's packet
  is handled on a non-proxy worker, and a dispatch blocks. A fourth
  packet takes the run past its time limit.
- The request routing has two workers, with the rx task on worker 0,
  one call made on worker 1, one request of another endpoint, and an
  observer on worker 0. The call's request is redirected to the observer
  while its response is routed back to worker 1, and the two may cross.
  `rr_observer` moves the rx task and the call to worker 1, so that the
  observer's worker sees neither response. One call is enough: the
  response is lost whatever the other calls do.
- The subscription install has three workers, so `block_on` waits on two
  workers in turn. `sub_deadlock` needs only two workers.
  `components` runs two roles on the plane one after the other (`TSGens =
  2`). The second finds the mask the first left behind and does not
  block, so `TS_SetupCompletes` covers the teardown and the next start.
  The missing redirects that follow are a finding (Findings not kept as
  runs), so `SubscriptionInstalled` is not checked there.
- The routing has two workers. Both produce two packets and both
  subscribe; worker 0 also routes and worker 1 also handles inter-worker
  packets inline. So:
  - a packet takes a redirect and a route to the same worker, and the
    mask drops the second;
  - a route may name the packet's own worker;
  - a producer and inter-worker-rx push into the same one-slot queue and
    suspend;
  - a batch of two crosses a two-slot inter-worker queue, and bursts of
    two are taken.
- The TCP ingress has three bundles of one to three payload bytes behind
  a two-byte header. Its buffers are eight bytes with a `max_packet_size`
  of five, as the hub's `max_packet_size()` allows. So a header read can
  run past a one-byte bundle into the next one. A frame can end a buffer,
  with `next_buffer`, or leave room, with `finish_frame`. And the write
  region can be exactly `max_packet_size`, where the header limit falls
  to its `BASE_LEN` floor. `TcpTransport` itself sets `max_packet_size`
  to the buffer size. Then every frame ends its buffer and no read passes
  a bundle, which is a subset of these cases.
- The runtime has a local worker and two remote threads, so `start()`
  waits for two threads in turn. Two callers share one-slot command
  queues, so a `run_once` waits for a slot. A batch of 8 takes everything
  queued. Shutdown can come at any step, including while a call is on its
  way through the workers.
- The wire format has three packets of 0 or 1 payload bytes and 48-byte
  buffers. So two packets share a bundle and the third starts a new one,
  an empty payload can be first, last or between, and every field value
  has several non-zero bytes. `wire_local` needs only two one-byte
  packets.
- `rt_core`'s dispatch table has two planes, two topics, two tasks, a
  one-slot queue, three nodes and three packets, as above.
- `rt_core`'s hub has two TCP clients and the local transport. Each
  forwards one bundle, and the in-packet queue has one slot, so a spoke can
  be blocked behind a full queue. Both clients can connect, and either can
  fail its handshake or close at any step. That covers a close before
  `add_next_hop_to_channels`, a close with a bundle queued, and a failed
  write. The request queue (16 slots in the code) has no bound: at most
  four requesters each have one request outstanding.
- The connections are two, each with a role on worker 1 and then on the
  local worker 0. Two workers let a reused writer or a late `on_shutdown`
  matter on one worker while the role is still starting on the other.
  In `rt_core` the planes are 0 and 1 and the connections may overlap. In
  `hub_reconnect` both are 0x42424242 and the second connection starts
  only after the first one has been set up and has died. `conn_early` has
  one connection, which is enough: the packet is lost in its own setup.

**Fairness.** The fair actions are the worker's own tasks: resuming a walk,
completing the drain, and the consumer of the local queue. The executor
polls every woken task, and these are woken by the queue and lock they wait
on. Packet arrival, role setup and shutdown, and cancellation are the
environment and are not fair. `Quiescent` is the idle worker once every
bound is spent, so deadlock checking stays on.
In `ReentrantDispatch` the fair actions are likewise the executor's
tasks: local-rx taking a re-queued packet, a suspended dispatch whose
queue has room, and the subscriber. The application's sends are not fair;
`Finished` is the idle worker after the last send.

In `RequestTracker`, the fair actions are the calling task's next poll
after a send or a wake, the server's reply to a request it received, and
the client's handling of an arrived response. Starting calls, dropping
calls and observers, and observer waits are up to the application.
`Quiescent` is again the idle worker once the calls are spent.

In the hub, the fair actions are the broadcaster's `select!` arms, the
local setup task, the accept loop's steps after a connection, and each
spoke's ingress task. Connections, handshake failures, peer writes and
closes are the network's and are not fair. `MC_Worker` states this as
weak fairness of their disjunction (`Scheduled`). Every fair step
consumes a bounded supply (a request, a queued bundle, a setup or accept
step, or a peer's write), so that is no weaker than fairness of each.

For the connections, the fair actions are the connecting task's
`start_role` and its start on each worker, since the task is polled and
each `run_once` closure runs on its worker's command task. The
`on_shutdown` and globals shutdown tasks are fair once their signal is
notified. Connecting, sending and the transport's death are the
environment's and are not fair.

In the stream models, the fair actions are the transport's delivery of an
item to the inline handler, and the receiving task's next step. The task
loops on `recv` or on the application's `next`/`consume` while woken.
Sending is the application's choice.

In the flush path, the fair actions are the producer's return from
`handle_packet`, each flush task's next poll once woken, the sleeper
firing, a stale sleep elapsing (time passes whether or not a deadline
is still set), and time passing a deadline. Writes are the application's choice.
In the load balancer, every task of each worker is fair: the blocked
dispatch, the batcher, the recv task and the consumer. New dispatches are
not fair. In the subscription install, the fair actions are a free
worker's command task and `block_on`'s future once woken. Starting roles
is the application's choice. In the routing model, every task of each
worker is fair: a suspended walk, the batchers, inter-worker-rx and the
consumers; producers are not. Every routing step moves a packet on, so its
behaviours have no cycle. In `MC_Components`, weak fairness of the
disjunction of those tasks (`Scheduled`) therefore rules out the same stops
as weak fairness of each, and it is cheaper to check. The TCP ingress's reads and
deliveries are weakly fair as one disjunction. The rx task loops on
`receive` and is woken when bytes arrive, and the peer's bytes do all
arrive. In the request routing, the server's answers, the rx
task, inter-worker-rx, and the woken caller and observer tasks are weakly
fair as one disjunction (`Progress`). Each step uses up a request, a
packet or a waiter, so this is no weaker than fairness of each. Calls and
other endpoints' requests are not fair. In the runtime, the steps of
`start()`, the worker threads, and the tasks woken by a queue, a oneshot
or the shutdown signal are weakly fair as one disjunction (`Progress`).
Each can be taken a bounded number of times, so this is no weaker than
fairness of each. Beginning a call and calling `shutdown()` are the
program's choice. The wire format's properties are
invariants, and it has no fairness. The context map has
no fairness: its
operations are calls the application makes.

`ms_lossy` turns off
deadlock checking. Its reader stops forever at a gap, and that stop is the
violation its liveness property reports.

## Findings

- **pp_cancel_panic** (`packet_processor.rs:294`, `:406`). `spec.md` §4.2 says a deferred mutation is applied after the
  current dispatch completes. A dropped dispatch never drains. The lock is
  then free, so the next `add_node` applies at once:
  - it goes ahead of the deferred mutation, which reorders the chain;
  - on a new topic, it has no tracer and panics.

- **rt_cancel** (`request_tracker.rs:79`). A `call` future dropped after
  sending (by `future::or` with a shutdown signal, or by a timeout) frees its
  slab key. The next call takes the same key. The dropped call's response
  then arrives, and `client_finish_request` puts it in the new call's slot,
  so the new call returns another request's response.
- **sr_live** (`stream_receiver.rs:103`). The inline item handler decodes
  the `StreamItem` from the start of the packet, where the 20-byte
  `TransmitPacket` header is. The receiver task, and every other inline
  handler in std-modrpc, skip `TransmitPacket::BASE_LEN` first. The seq it
  reads is `payload_length + 2^16 * infra_id + 2^32 * plane_id`, which is
  never 0, so the pop loop, starting at `next_seq` 0, never passes an item
  on, and every packet stays in the heap. A `StreamReceiver` delivers
  nothing, and no test or example of the repository uses one.
- **ms_lossy** (`multi_stream_sender.rs:79`). `try_send` takes the seq
  before `EventTx::try_send`, which returns false without sending when the
  send cannot complete at once. The receiver then waits at the missing seq,
  and `next()` never returns.
- **sub_deadlock** (`role_setup.rs:634`). `add_topic_subscription` blocks
  the worker thread in `pollster::block_on` until every other worker's
  command task has installed the redirect. Suppose subscribing roles start
  on two workers at once, for example a role per worker started from each
  worker's own task. Then each worker blocks waiting for the other. Neither
  command task can run, so both setups hang for good. The `TODO` above the
  call notes that the call blocks, but not that it can deadlock. The
  `components` run shows that with roles starting one at a time,
  setup always completes.
- **hub_reconnect** (`transport.rs:130`). `new_writer` caches a LocalFlush
  writer with `with_local_fn(channel_id, ...)` under the worker's tag,
  which is never shut down. The cached writer is bound to the flush
  channel of the transport that built it. A later transport whose role
  has the same channel id gets that writer on every worker. Its packets
  are then lost if the first transport has died, or written to the first
  connection's socket while it is alive. This happens on every reconnect
  to the hub (channel 0x42424242), on a reconnect to a restarted
  `TcpServer`, and with two `TcpServer`s (each numbers planes from 0).
  `spec.md` says writers hand off to a per-transport flush channel, and
  §7 says a transport's death reaches only its own subtree. With a reused
  plane id the model also breaks the handler part of `RoleIsolated`: the
  dead role's `on_shutdown`, polled after the new role's setup, removes
  the new role's handlers with its own.
- **conn_early** (`tcp_client_server.rs:42`). `TcpServer::accept` writes
  the handshake and calls `add_transport`, which spawns tcp-rx, before
  `start_role` and `local()`/`on_worker_group` install the role's
  handlers. `tcp_connect_builder` (`:219`) does the same on the client
  side. The peer may send as soon as it reads the handshake, and `spec.md`
  §6 says bundles flow from then on. A packet that arrives in between
  finds no chain in `handle_packet` and is dropped without an error, so a
  request sent right after connecting is never answered.
- **wire_local** (`transport.rs:255`). `ShatterPacketBundle::next`
  yields the bundle advanced to each packet's header, but never cut at
  the packet's end. So every packet but the last carries the packets
  after it. The hub sends such packets to its local transport, where
  handlers read the payload as everything after the header.
  `ByteStreamReceiver` takes a blob's length from the packet
  (`byte_stream_receiver.rs:74-86`) and gets the following packets as
  blob bytes. The loop's `cursor + BASE_LEN < len` also drops a last
  packet whose payload is empty. `shatter_packet_bundle`, which tcp-rx
  uses, cuts each packet at the next offset and keeps empty ones, and
  `WP_BundleExact` shows it exact.
- **rr_observer** (`request_client.rs:116`). `spec.md` §4.8 says the
  response handler fills the subscription table for any observers. But
  `subscribe()` forwards only the request topic to the observer's worker.
  A response is handled on the rx worker, and `route_to_worker` forwards
  it only to the caller's worker. An observer on any other worker gets
  the request, but `subscription_finish_request` never runs there for the
  response. Its `wait` never returns, and its entry is never freed.
  Even on the rx worker, the response can overtake the redirected request
  and find no entry (`request_tracker.rs:139`). No test uses observers.

### Findings not kept as runs

- **Stream `next_seq` reset** (`stream_receiver.rs:118`). With the item
  decoded after the header (`sr_live.cfg` with `ItemAt = 20` and
  `MaxItems = 2`), `AllHandled` is still violated. The handler's
  `next_seq` is a local of the closure, reset to 0 for every packet. After
  item 0 has been passed on, item 1 sits at the top of the heap and never
  equals 0, so only the first item of an in-order stream is delivered.
- **Plane reuse** (`packet_processor.rs:406`). Take a deferred
  `remove_plane`, followed by an `add_node` on the same plane id while
  `existing_topics` still holds the key. The add is deferred without a
  tracer, and the drain panics in `_add_node`. `pp_cancel_panic.cfg` with
  `PlaneReuse = TRUE` and `SPECIFICATION Spec` shows `NoPanic` violated.
  The panic is the one `pp_cancel_panic` reaches by another way.
- **Stale subscription mask** (`role_setup.rs:620`). The
  `TopicSubscriptions` mask is created with `with_global`, under the tag
  `Worker(w)` (worker.rs:234), and no worker tag is ever shut down. When
  a role on the plane shuts down, `remove_plane` drops its redirects on
  every worker, but the mask keeps every bit. The next role on the same
  plane id and topic finds its bit set on each worker and installs no
  redirect, so packets sent on other workers never reach its
  subscribers. A client reconnecting to the hub (plane 0x42424242) is
  such a role. `TopicSubscription` with `NWorkers = 3`,
  `Concurrent = FALSE`, `Gens = 2`, `Reuse = FALSE` and `INVARIANT
  SubscriptionInstalled` shows the violation in 23 steps: the first
  role's full setup, its shutdown with every teardown task run, and the
  second role's first `subscribe()`.
- **Observer of a reused id** (`request_tracker.rs:107`). Until an observer
  drops its `PendingRequestSubscription`, the entry and the response in
  it stay. A new call that reuses the id finds that entry, and its
  observer's `wait` returns the old response at once. `RequestTracker`'s
  `ObserverCorrect`, with an observer, shows it. Its cause, the slab
  handing out ids again, is the one `rt_cancel` shows.
- **Empty blob** (`byte_stream_receiver.rs:93`). An empty `send` has the
  same start index as the next blob. If both arrive before the reader
  consumes, `or_insert` keeps the empty blob, and the other's bytes are
  lost. With `Lens = {0, 2}` TLC finds `AllConsumed` violated. The
  `components` run uses blobs of one or two bytes.

- **Hub addresses with two accept loops** (`app_hub.rs:296`). Each loop
  reads `next_endpoint_id` (lines 199 and 296), awaits
  `client_handshake`, and only then sets the cell (lines 219 and 316). A
  TCP and a websocket client whose handshakes overlap both get the same
  address, against spec.md's "EndpointAddr … unique per plane". With
  `Loops = {"tcp", "ws"}` and `MaxConns = 2`, TLC finds
  `EndpointsUnique` violated after six steps: both loops accept and read
  address 1, then each handshakes and registers.
- **Property owner and observers disagree** (`property_owner.rs:21-22`).
  `update` stores the new value only after `send`'s two awaits. Take two
  tasks updating through clones of one owner. Task 1 reserves its slot
  for value 1, task 2 reserves after it for 258, task 2 stores 258, then
  task 1 stores 1. The observer reads 1 and then 258, so the owner holds
  1 and the observer 258 for good. A single `update` dropped in
  `handle_packet` does the same: its packet is already in the writer and
  reaches the observer, but the owner keeps the old value. Both show as a
  violation of "when no update is in progress and the observer has read
  the wire, the two values are equal": TLC finds it with
  `Handles = {1, 2}`, and with one handle and `Cancellation = TRUE`
  (update, reserve, drop, observe).

## Not modelled

- A `run_on_all_workers` call in progress when `shutdown()` is called.
  A remote worker's executor is dropped with the closure queued or with
  its result sender, so `run_once` panics on its `unwrap`. Or the caller
  waits forever, if the queue stored the closure after its receiver was
  dropped. `RN_RunOnAllReturns` excludes shutdown for that reason.
- `local_worker_context` (`rt.rs:376`) calls `assume_init_ref` on the
  thread's slot without checking that it was written. On a thread that is
  not a worker, that reads uninitialised memory, and the panic in
  `local()` is never reached. The model has callers only on worker
  threads.
- The hub's broadcaster awaits each client's TCP write in turn
  (`broadcaster.rs:338`). A client that stops reading stalls it for every
  other client. Socket back-pressure is not modelled: every write
  completes or fails.
- The `i32` `sent_to_workers` mask of `handle_packet`
  (`packet_processor.rs:255`) aliases worker 32 with worker 0 in a release
  build. `InterWorkerRouting` takes the mask width as a constant and shows
  the lost delivery with 33 workers. No run keeps that configuration; the
  hazard list records it.
- The transport flush tasks of `add_transport` and the writer flush tasks
  of `new_writer` never end, which the code's `TODO`s note. The worker
  shutdown signal that `on_shutdown` also waits on is not modelled.

- `new_stream(id, Some(n))` with `n > 0` leaves `first_seq` at 0, so the
  stream would never be reported done. No caller in the repository passes
  such an `n`. The `components` run starts the stream with `None`;
  `Some(0)` is run only in `ms_lossy`.
- `RouteToLocalQueue` in the routing model (the load balancer model has
  it; `ReentrantDispatch` models the local packet queue it feeds).
- The Shared and LocalNoFlush writer modes and the `Immediate` deadline.
  Also the overflow of `Instant::now().checked_add`, which leaves no
  deadline set.
- The hub's websocket and gloo transports, which take the same
  add, next-hop and remove path as TCP. The handshake bytes and the
  user's disconnect delegate are not modelled either. Nor is the order
  in which `localq` wakes senders blocked on a full request queue.
- A peer whose bundles exceed this side's `max_packet_size` (one with
  larger buffers). The slice at `tcp_ingress.rs:74` would then panic. The
  websocket ingress, which gets whole messages and no split bundles.
- `handshake` writes the payload length `as u16`
  (`tcp_client_server.rs:126`), which would truncate an `Init` of more
  than 65,523 bytes; the model's `Init` is one byte. `tcp_connect_builder`
  and `accept_local` take the same steps as the TCP pair and are not
  modelled separately.
- The MultiStream broker is keyed by the stream id's `id` alone
  (`multi_stream_receiver.rs:318`); streams of two owners with the same
  `id` would share a `StreamState`. The model has one stream.
- The `ws-transport` and `web-ws-transport` features do not compile:
  `lib.rs` declares `ws_transport` and `web_ws_ingress`, whose files do
  not exist, and `ws_client_server.rs` uses an undefined `stream`. The
  hub's `websocket.rs` needs `WebSocketIngress` from `ws-transport`, so it
  cannot be built either. None of this code is modelled.
- `EventRxBuilder::queued_untyped` and `handle_untyped_async` have no
  callers; request servers use `queued` with `load_balance()` or
  `proxy_load_balance()`, which `LoadBalancer` models.
- Socket I/O, the endpoint protocol and the generated proto code beyond
  the layouts `EndpointProto` and `StdProto` encode, the
  code generator, the examples and the integration tests are I/O,
  data conversion or users of the library. The code generator's parser
  works character by character with `nom`, and most of the generated
  `proto.rs` is encode/decode boilerplate of one shape; modelling either
  would transliterate it, so the map covers about a quarter of the
  source lines.
