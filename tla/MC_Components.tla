---------------------------- MODULE MC_Components ----------------------------
(***************************************************************************)
(* The components of the runtime and of std-modrpc that share no state    *)
(* with one another, checked in one run: the MultiStream and ByteStream  *)
(* roles, the context map, the flush path, the load balancer, the         *)
(* inter-worker subscription install, the TCP ingress framing, a request  *)
(* client's calls across workers, the runtime's startup, the bytes of     *)
(* packets through the hub, and the routing of a topic's packets between  *)
(* workers (extended here rather than instantiated, so that its           *)
(* constant-level tables are computed once).                              *)
(* Since they share nothing, a behaviour of the whole is the interleaving *)
(* of behaviours of each; `part` picks, in the initial state, the         *)
(* component whose steps a behaviour explores, and the others stay in     *)
(* their initial states.  This explores every behaviour of every          *)
(* component at the cost of their sum, not their product, and every       *)
(* property below is one component's.                                     *)
(***************************************************************************)
EXTENDS Naturals, Sequences, InterWorkerRouting

CONSTANTS
    none,
    MSItems, MSQueueCap, MSStartSeq, MSOwner, MSId,
    BSBytes, BSBlobs, BSLens, BSCounts,
    Reorder,
    CMKeys, CMTags, CMNull,
    FBChannels, FBMaxWrites, FBHighWater,
    LBWorkers, LBProxies, LBPackets, LBLocalCap, LBTxBurst, LBSharedCap, LBRxBurst,
    NoPacket,
    TSWorkers, TSGens,
    INBase, INBufSize, INMaxPacket, INLens, INBundles,
    RRWorkers, RRRxWorker, RRCallers, RRObservers, RRRemote, RRMaxCalls,
    RRMaxRemote, RRLocalAddr, RRRemoteAddr,
    RNLocal, RNRemote, RNCallers, RNQCap, RNBatch,
    WPPlane, WPTopics, WPSource, WPChannelA, WPRemoteCh, WPLens, WPNPackets,
    WPBufSize

Parts == {"ms", "bs", "cm", "fb", "lb", "ts", "iw", "in", "rr", "rn", "wp"}

VARIABLES
    part,
    msSendSeq, msEnded, msNet, msHeap, msFirstSeq, msLastSeq, msReceivedCount,
    msNextSeq, msQueue, msRegistered, msReader, msGot,
    bsSendCursor, bsSentBlobs, bsNet, bsBlobs, bsCurrent, bsCursor, bsCrashed,
    cmMap, cmTagChains, cmOwner, cmPanicked,
    fbWrote, fbBuf, fbStaged, fbSent, fbPc, fbNft, fbWaker, fbTask, fbSleep,
    lbNextId, lbPending, lbLq, lbBq, lbHeld, lbBsz, lbShared, lbFlushing, lbOv,
    lbHandled,
    tsStarted, tsSubscribed, tsMask, tsRedirects, tsBlocked, tsTodo,
    tsAwaiting, tsCmdq, tsGen, tsShut, tsRemoving, tsDropping,
    inBundles, inPos, inFs, inCursor, inGarbled, inOut, inClosed, inPanicked,
    rrOrigin, rrCaller, rrAtServer, rrInflight, rrIw, rrSubCount, rrSubResp,
    rrObserver,
    rnStartPc, rnNextW, rnThread, rnCtx, rnCmdTask, rnQueue, rnCaller, rnRan,
    rnSig, rnShutPc,
    wpSent, wpBuf, wpBufN, wpWire1, wpHubIn, wpWire2, wpRxGot, wpRxPanicked,
    wpLocalGot

MS == INSTANCE MultiStream
        WITH sendSeq <- msSendSeq, ended <- msEnded, net <- msNet,
             heap <- msHeap, firstSeq <- msFirstSeq, lastSeq <- msLastSeq,
             receivedCount <- msReceivedCount, nextSeq <- msNextSeq,
             queue <- msQueue, registered <- msRegistered, reader <- msReader,
             got <- msGot,
             MaxItems <- MSItems, QueueCap <- MSQueueCap, StartSeq <- MSStartSeq,
             None <- none, Lossy <- FALSE, Owner <- MSOwner, Id <- MSId

BS == INSTANCE ByteStream
        WITH sendCursor <- bsSendCursor, sentBlobs <- bsSentBlobs,
             net <- bsNet, blobs <- bsBlobs, current <- bsCurrent,
             cursor <- bsCursor, crashed <- bsCrashed,
             MaxBytes <- BSBytes, MaxBlobs <- BSBlobs, Lens <- BSLens,
             Counts <- BSCounts

CM == INSTANCE ContextMap
        WITH map <- cmMap, tagChains <- cmTagChains, owner <- cmOwner,
             panicked <- cmPanicked,
             Keys <- CMKeys, Tags <- CMTags, Null <- CMNull

FB == INSTANCE FlushBatcher
        WITH wrote <- fbWrote, buf <- fbBuf, staged <- fbStaged, sent <- fbSent,
             pc <- fbPc, nft <- fbNft, waker <- fbWaker, task <- fbTask,
             sleep <- fbSleep,
             Channels <- FBChannels, MaxWrites <- FBMaxWrites,
             HighWater <- FBHighWater

LB == INSTANCE LoadBalancer
        WITH nextId <- lbNextId, pending <- lbPending, lq <- lbLq, bq <- lbBq,
             held <- lbHeld, bsz <- lbBsz, shared <- lbShared,
             flushing <- lbFlushing, ov <- lbOv, handled <- lbHandled,
             Workers <- LBWorkers, Proxies <- LBProxies, NPackets <- LBPackets,
             LocalCap <- LBLocalCap,
             TxBurst <- LBTxBurst, SharedCap <- LBSharedCap,
             RxBurst <- LBRxBurst

TS == INSTANCE TopicSubscription
        WITH started <- tsStarted, subscribed <- tsSubscribed, mask <- tsMask,
             redirects <- tsRedirects, blocked <- tsBlocked, todo <- tsTodo,
             awaiting <- tsAwaiting, cmdq <- tsCmdq, gen <- tsGen,
             shut <- tsShut, removing <- tsRemoving,
             dropping <- tsDropping,
             NWorkers <- TSWorkers, Concurrent <- FALSE, Gens <- TSGens,
             Reuse <- FALSE

TI == INSTANCE TcpIngress
        WITH bundles <- inBundles, pos <- inPos, fs <- inFs, cursor <- inCursor,
             garbled <- inGarbled, out <- inOut, closed <- inClosed,
             panicked <- inPanicked,
             Base <- INBase, BufSize <- INBufSize, MaxPacket <- INMaxPacket,
             Lens <- INLens, NBundles <- INBundles

RR == INSTANCE RequestRouting
        WITH origin <- rrOrigin, caller <- rrCaller, atServer <- rrAtServer,
             inflight <- rrInflight, iw <- rrIw, subCount <- rrSubCount,
             subResp <- rrSubResp, observer <- rrObserver,
             Workers <- RRWorkers, RxWorker <- RRRxWorker, Callers <- RRCallers,
             Observers <- RRObservers, Remote <- RRRemote,
             MaxCalls <- RRMaxCalls, MaxRemote <- RRMaxRemote,
             LocalAddr <- RRLocalAddr, RemoteAddr <- RRRemoteAddr
RN == INSTANCE Runtime
        WITH startPc <- rnStartPc, nextW <- rnNextW, thread <- rnThread,
             ctx <- rnCtx, cmdTask <- rnCmdTask, queue <- rnQueue,
             caller <- rnCaller, ran <- rnRan, sig <- rnSig, shutPc <- rnShutPc,
             Local <- RNLocal, NRemote <- RNRemote, Callers <- RNCallers,
             QCap <- RNQCap, Batch <- RNBatch
WP == INSTANCE WireFormat
        WITH sent <- wpSent, buf <- wpBuf, bufN <- wpBufN, wire1 <- wpWire1,
             hubIn <- wpHubIn, wire2 <- wpWire2, rxGot <- wpRxGot,
             rxPanicked <- wpRxPanicked, localGot <- wpLocalGot,
             Plane <- WPPlane, Topics <- WPTopics, Source <- WPSource,
             ChannelA <- WPChannelA, RemoteCh <- WPRemoteCh, Lens <- WPLens,
             NPackets <- WPNPackets, BufSize <- WPBufSize


msVars == <<msSendSeq, msEnded, msNet, msHeap, msFirstSeq, msLastSeq,
            msReceivedCount, msNextSeq, msQueue, msRegistered, msReader, msGot>>
bsVars == <<bsSendCursor, bsSentBlobs, bsNet, bsBlobs, bsCurrent, bsCursor,
            bsCrashed>>
cmVars == <<cmMap, cmTagChains, cmOwner, cmPanicked>>
fbVars == <<fbWrote, fbBuf, fbStaged, fbSent, fbPc, fbNft, fbWaker, fbTask, fbSleep>>
lbVars == <<lbNextId, lbPending, lbLq, lbBq, lbHeld, lbBsz, lbShared,
            lbFlushing, lbOv, lbHandled>>
tsVars == <<tsStarted, tsSubscribed, tsMask, tsRedirects, tsBlocked, tsTodo,
            tsAwaiting, tsCmdq, tsGen, tsShut, tsRemoving,
            tsDropping>>
inVars == <<inBundles, inPos, inFs, inCursor, inGarbled, inOut, inClosed,
            inPanicked>>
rrVars == <<rrOrigin, rrCaller, rrAtServer, rrInflight, rrIw, rrSubCount,
            rrSubResp, rrObserver>>
rnVars == <<rnStartPc, rnNextW, rnThread, rnCtx, rnCmdTask, rnQueue, rnCaller,
            rnRan, rnSig, rnShutPc>>
wpVars == <<wpSent, wpBuf, wpBufN, wpWire1, wpHubIn, wpWire2, wpRxGot,
            wpRxPanicked, wpLocalGot>>
\* The routing component's variables are its module's own
iwVars == vars
allVars == <<part, msVars, bsVars, cmVars, fbVars, lbVars, tsVars, iwVars,
            inVars, rrVars, rnVars, wpVars>>

\* The variables of the components other than each one
msOthers == <<bsVars, cmVars, fbVars, lbVars, tsVars, iwVars, inVars, rrVars,
              rnVars, wpVars>>
bsOthers == <<msVars, cmVars, fbVars, lbVars, tsVars, iwVars, inVars, rrVars,
              rnVars, wpVars>>
cmOthers == <<msVars, bsVars, fbVars, lbVars, tsVars, iwVars, inVars, rrVars,
              rnVars, wpVars>>
fbOthers == <<msVars, bsVars, cmVars, lbVars, tsVars, iwVars, inVars, rrVars,
              rnVars, wpVars>>
lbOthers == <<msVars, bsVars, cmVars, fbVars, tsVars, iwVars, inVars, rrVars,
              rnVars, wpVars>>
tsOthers == <<msVars, bsVars, cmVars, fbVars, lbVars, iwVars, inVars, rrVars,
              rnVars, wpVars>>
iwOthers == <<msVars, bsVars, cmVars, fbVars, lbVars, tsVars, inVars, rrVars,
              rnVars, wpVars>>
inOthers == <<msVars, bsVars, cmVars, fbVars, lbVars, tsVars, iwVars, rrVars,
              rnVars, wpVars>>
rrOthers == <<msVars, bsVars, cmVars, fbVars, lbVars, tsVars, iwVars, inVars,
              rnVars, wpVars>>
rnOthers == <<msVars, bsVars, cmVars, fbVars, lbVars, tsVars, iwVars,
              inVars, rrVars, wpVars>>
wpOthers == <<msVars, bsVars, cmVars, fbVars, lbVars, tsVars, iwVars,
              inVars, rrVars, rnVars>>

CInit ==
    /\ part \in Parts
    /\ MS!Init /\ BS!Init /\ CM!Init /\ FB!Init /\ LB!Init /\ TS!Init
    /\ TI!Init /\ RR!Init /\ RN!Init /\ WP!Init
    \* the peer's bundles vary only where the ingress is explored
    /\ part # "in" => inBundles = [i \in 1..INBundles |-> CHOOSE l \in INLens : TRUE]
    /\ Init

\* A step of component p: the others and the choice of part unchanged
Step(p, A, others) == part = p /\ A /\ UNCHANGED <<part, others>>

CNext ==
    \/ Step("ms", MS!Next, msOthers)
    \/ Step("bs", BS!Next, bsOthers)
    \/ Step("cm", CM!Next, cmOthers)
    \/ Step("fb", FB!Next, fbOthers)
    \/ Step("lb", LB!Next, lbOthers)
    \/ Step("ts", TS!Next, tsOthers)
    \/ Step("iw", Next, iwOthers)
    \/ Step("in", TI!Next, inOthers)
    \/ Step("rr", RR!Next, rrOthers)
    \/ Step("rn", RN!Next, rnOthers)
    \/ Step("wp", WP!Next, wpOthers)

\* Each component's fairness (stated and justified in its module), on the
\* behaviours that explore it
CFairness ==
    /\ WF_allVars(Step("ms", MS!ReceiveItem, msOthers))
    /\ WF_allVars(Step("ms", MS!ReaderNext, msOthers))
    /\ WF_allVars(Step("ms", MS!ReaderWake, msOthers))
    /\ WF_allVars(Step("bs", BS!Receive, bsOthers))
    /\ WF_allVars(Step("bs", \E c \in BSCounts : BS!Consume(c), bsOthers))
    /\ \A c \in FBChannels : WF_allVars(Step("fb", FB!AfterDispatch(c), fbOthers))
    /\ \A b \in FB!Batchers :
         /\ WF_allVars(Step("fb", FB!PollWait(b), fbOthers))
         /\ WF_allVars(Step("fb", FB!HandleFlush(b), fbOthers))
         /\ WF_allVars(Step("fb", FB!Wake(b), fbOthers))
         /\ WF_allVars(Step("fb", FB!Tick(b), fbOthers))
         /\ WF_allVars(Step("fb", FB!Elapse(b), fbOthers))
    /\ \A w \in LBWorkers :
         /\ WF_allVars(Step("lb", LB!DispatchResume(w), lbOthers))
         /\ WF_allVars(Step("lb", LB!BatcherRecv(w), lbOthers))
         /\ WF_allVars(Step("lb", LB!BatcherSend(w), lbOthers))
         /\ WF_allVars(Step("lb", LB!RxRecv(w), lbOthers))
         /\ WF_allVars(Step("lb", LB!RxPush(w), lbOthers))
         /\ WF_allVars(Step("lb", LB!Consume(w), lbOthers))
    /\ \A w \in TS!Workers :
         /\ WF_allVars(Step("ts", TS!RunCommand(w), tsOthers))
         /\ WF_allVars(Step("ts", TS!Resume(w), tsOthers))
    /\ WF_allVars(Step("iw", Scheduled, iwOthers))
    /\ WF_allVars(Step("in", TI!HeaderRead \/ TI!BodyRead \/ TI!Deliver, inOthers))
    /\ WF_allVars(Step("rr", RR!Progress, rrOthers))
    /\ WF_allVars(Step("rn", RN!Progress, rnOthers))

CSpec == CInit /\ [][CNext]_allVars /\ CFairness

-----------------------------------------------------------------------------
(* Each component's properties; their statements are in its module.        *)

\* MultiStream: next() returns a gapless run of seqs, all of them up to the
\* end marker once it returns that.
MS_InOrder == MS!InOrder

\* MultiStream: the broker drops the stream only when none of its items is
\* in flight.
MS_NoEarlyCleanup == MS!NoEarlyCleanup

\* MultiStream: after end(), the reader's next() returns the end.
MS_StreamCompletes == MS!StreamCompletes

\* MultiStream: after end(), the broker entry is eventually removed.
MS_StreamCleanedUp == MS!StreamCleanedUp

\* ByteStream: every byte sent is eventually consumed.
BS_AllConsumed == BS!AllConsumed

\* ContextMap: the tag chains hold exactly the items created under each tag,
\* so shutdown_tag never panics and leaves none of them behind.
CM_ChainsPartition == CM!ChainsPartition

\* FlushBatcher: a flush task parked in wait() will be woken by the next
\* schedule_flush.
FB_NoLostWakeup == FB!NoLostWakeup

\* FlushBatcher: unflushed bytes always have a flush scheduled.
FB_DataCovered == FB!DataCovered

\* FlushBatcher: every write send_raw makes eventually reaches the transport.
FB_AllFlushed == FB!AllFlushed

\* LoadBalancer: a packet spilled to the shared queue is neither lost nor
\* handled twice.
LB_ExactlyOnce == LB!ExactlyOnce

\* LoadBalancer: every packet dispatched is eventually handled.
LB_AllHandled == LB!AllHandled

\* TopicSubscription: a worker blocked installing a subscription returns.
TS_SetupCompletes == TS!SetupCompletes

\* Every component's variables keep their types, and its channels and
\* queues stay within their capacities.
ComponentsTypeOK ==
    /\ MS!TypeOK /\ BS!TypeOK /\ CM!TypeOK /\ FB!TypeOK
    /\ LB!TypeOK /\ TS!TypeOK /\ TypeOK /\ TI!TypeOK
    /\ RR!TypeOK /\ RN!TypeOK /\ WP!TypeOK

\* InterWorkerRouting: a packet reaches a sink at most once, and only a sink
\* whose source filter and worker it is meant for.
IW_DeliverySound == DeliverySound

\* InterWorkerRouting: only a packet's own worker forwards it to another.
IW_OneHop == OneHop

\* InterWorkerRouting: one producer's packets reach each sink in order.
IW_InOrder == InOrder

\* TcpIngress: receive() never panics, and each call returns exactly the
\* next bundle the peer wrote, however TCP splits the stream into reads.
IN_FramesExact == TI!FramesExact

\* TcpIngress: every bundle the peer writes is returned before receive()
\* reports the closed socket (on the behaviours that explore it, since the
\* others leave its socket untouched).
IN_AllReceived == part = "in" => TI!AllReceived

\* RequestRouting: every call() returns its response, whichever worker made
\* it and whichever worker the transport delivers the response to (on the
\* behaviours that explore it).
RR_CallsComplete == part = "rr" => RR!CallsComplete

\* Runtime: run_on_all_workers runs its closure once on each worker, in
\* worker order, and returns only after the last.
RN_RunsInWorkerOrder == RN!RunsInWorkerOrder

\* Runtime: every run_on_all_workers call returns unless the runtime is
\* shut down meanwhile (on the behaviours that explore it).
RN_RunOnAllReturns == part = "rn" => RN!RunOnAllReturns

\* WireFormat: a client's tcp-rx hands on exactly the packets another
\* client sent through the hub, in order, with their headers and payloads,
\* however send_raw's writer, tcp-tx, the hub's ingress and broadcaster cut
\* and re-frame them; every other packet is in exactly one place on the way.
WP_BundleExact == WP!BundleExact

\* InterWorkerRouting: every packet sent reaches every sink it is meant for.
IW_AllDelivered == AllDelivered

=============================================================================
