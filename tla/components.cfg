\* Each component at bounds where its hard cases happen; see README.md.
\* Streams: a transport that may reorder; a Stream of three items into a
\* two-slot channel; a MultiStream of two items and an end marker into its
\* one-slot channel, read by a receiver that takes the first item to arrive
\* as the start; a ByteStream of blobs of one or two bytes read with counts
\* of one or two.
\* Context map: three items and two tags.  Flush path: one channel whose
\* producer writes three times with a high-water mark of two.  Load
\* balancer: three workers, one built with build_proxied, three packets, one-slot local queues, two-slot
\* batcher channels and shared queue, bursts of two.  Subscription: three
\* workers starting roles one at a time.  Routing:
\* two workers that both produce and subscribe, worker 0 also routing by
\* packet and worker 1 also handling inter-worker packets inline; two
\* packets each, one-slot local queues, two-slot batcher channels and
\* inter-worker queues, bursts of two, a 32-bit mask.  TCP ingress: three
\* bundles of one to three payload bytes behind a two-byte header, in
\* buffers of eight bytes with a max packet size of five, so that a read
\* may run past a bundle, a frame may end a buffer, and the write region
\* may be exactly max_packet_size.  Request client: two workers, the rx
\* task on worker 0, one call() made on worker 1 and one request of another
\* endpoint, with a subscribe() on worker 0, so that a request is redirected
\* to the observer and a response is routed back to its caller's worker.
CONSTANTS
    none = none
    MSItems = 2
    MSQueueCap = 1
    MSStartSeq <- none
    MSOwner = 7
    MSId = 3
    BSBytes = 3
    BSBlobs = 3
    BSLens = {1, 2}
    BSCounts = {1, 2}
    Reorder = TRUE
    CMKeys = {k1, k2, k3}
    CMTags = {r1, r2}
    CMNull = CMNull
    FBChannels = {c1}
    FBMaxWrites = 3
    FBHighWater = 2
    LBWorkers = {w1, w2, w3}
    LBProxies = {w3}
    LBPackets = 3
    LBLocalCap = 1
    LBTxBurst = 2
    LBSharedCap = 2
    LBRxBurst = 2
    NoPacket = NoPacket
    TSWorkers = 3
    TSGens = 2
    Workers = {0, 1}
    Producers = {0, 1}
    Subscribers = {0, 1}
    Routers = {0}
    IwHandlers = {1}
    MaxSends = 2
    SubCap = 1
    BatchCap = 2
    IwCap = 2
    IwBurst = 2
    MaskWidth = 32
    INBase = 2
    INBufSize = 8
    INMaxPacket = 5
    INLens = {1, 2, 3}
    INBundles = 3
    RRWorkers = {0, 1}
    RRRxWorker = 0
    RRCallers = {1}
    RRObservers = {0}
    RRRemote = RRRemote
    RRMaxCalls = 1
    RRMaxRemote = 1
    RRLocalAddr = 1
    RRRemoteAddr = 2
    RNLocal = TRUE
    RNRemote = 2
    RNCallers = {rc1, rc2}
    RNQCap = 1
    RNBatch = 8
    WPPlane = 1111638594
    WPTopics = {66051}
    WPSource = 16909060
    WPChannelA = 1111638594
    WPRemoteCh = 7
    WPLens = {0, 1}
    WPNPackets = 3
    WPBufSize = 48
SPECIFICATION CSpec
INVARIANTS MS_InOrder MS_NoEarlyCleanup
           CM_ChainsPartition
           FB_NoLostWakeup FB_DataCovered
           LB_ExactlyOnce
           ComponentsTypeOK
           IW_DeliverySound IW_OneHop IW_InOrder
           IN_FramesExact
           RN_RunsInWorkerOrder
           WP_BundleExact
PROPERTIES MS_StreamCompletes MS_StreamCleanedUp BS_AllConsumed FB_AllFlushed
           LB_AllHandled TS_SetupCompletes
           IW_AllDelivered IN_AllReceived RR_CallsComplete RN_RunOnAllReturns
