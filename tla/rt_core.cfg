\* One worker.  Requests: two callers, one server, an observer on every
\* request and calls that may be dropped: the slab and the subscription
\* entries stay sound, and every call returns.  Dispatch table: two planes,
\* two topics, two dispatching tasks, a one-slot local queue, three nodes
\* and three packets, with suspended dispatch futures that may be dropped.
\* Hub: two TCP clients and the local transport, one bundle each, a
\* one-slot in-packet queue; clients may fail the handshake or close.
\* Connections: two, to one TcpServer (planes 0 and 1), set up at once or
\* one after the other, each role on worker 1 then the local worker 0.
\* Handshake: two connections accepted concurrently by one TcpServer, a one-byte Init
\* and two packets of the server's role on each, connections that may drop.
\* Property roles: two tasks updating through clones of one owner, two
\* updates of three u32 values (one of two bytes), futures that may drop.
CONSTANTS
    c1 = c1  c2 = c2  s1 = s1  s2 = s2
    p1 = p1  p2 = p2  t1 = t1  t2 = t2  k1 = k1  k2 = k2
    Callers <- MCCallers
    Servers <- MCServer
    MaxCalls = 3
    Observed = TRUE
    Cancellation = TRUE
    PPQueueCap = 1
    PPMaxNodes = 3
    PPMaxPackets = 3
    h1 = h1  h2 = h2  hLocal = hLocal
    HBMaxBundles = 1
    HBInCap = 1
    CLConns = 2
    THConns = {1, 2}
    THInitLen = 1
    THMaxPackets = 2
    THTopic = 3
    PRHandles = {1, 2}
    PRValues = {0, 1, 258}
    PRInit = 0
    PRMaxUpdates = 2
SPECIFICATION WSpec
INVARIANTS WorkerTypeOK SubscriptionRefcount PP_StableChain
    HB_DeliverySound HB_RegisteredDelivered HB_RemovalFinal CL_RoleIsolated
    TH_HandshakeAgrees PR_OwnerValuePublished
PROPERTIES CallsComplete CL_RoleCleanedUp
