------------------------------ MODULE MC_Worker ------------------------------
(***************************************************************************)
(* Six components that share no state, checked in one run: the request    *)
(* tracker of a RequestClient (RequestTracker, extended), the dispatch     *)
(* table of the PacketProcessor with dispatch futures that may be dropped  *)
(* (PacketProcessor, instantiated), the hub's broadcaster with its local   *)
(* transport and TCP clients (HubBroadcaster, instantiated), a client      *)
(* runtime's two connections to one TcpServer, whose plane ids differ      *)
(* (ConnectionLifecycle, instantiated), a TcpServer's handshake with its   *)
(* clients (TcpHandshake) and a Property role's owner and observer         *)
(* (PropertyRole). `part` picks, in the initial state, the component a     *)
(* behaviour explores; the others stay in their initial states. The        *)
(* dispatch table's properties here are safety properties, so its fairness *)
(* is left out.                                                            *)
(***************************************************************************)
EXTENDS RequestTracker

CONSTANTS
    c1, c2, s1, s2,
    p1, p2, t1, t2, k1, k2,
    PPQueueCap, PPMaxNodes, PPMaxPackets,
    h1, h2, hLocal, HBMaxBundles, HBInCap,
    CLConns,
    THConns, THInitLen, THMaxPackets, THTopic,
    PRHandles, PRValues, PRInit, PRMaxUpdates

MCCallers == {c1, c2}
MCServer  == {s1}

VARIABLES
    part,
    ppHandlers, ppExisting, ppPlaneChain, ppMutations, ppReaders, ppPc, ppCur,
    ppQueued, ppCrashed, ppNextNode, ppSent, ppRole,
    hbLive, hbNextHops, hbTlc, hbReqq, hbWaiting, hbInq, hbSetup, hbAccPc,
    hbAccCur, hbAccepted, hbRejected, hbIng, hbConnected, hbWrote, hbFwd,
    hbGot, hbDue,
    clTstate, clPc, clAt, clSpawnedGlobals, clGlobalsTask, clStarted, clOnShut,
    clHandlers, clWriter, clWire, clDropped, clLost,
    thNextPlane, thSpc, thPlane, thWire, thClosed, thSent, thCpc, thCpos,
    thClen, thCplane, thCaddr, thGot,
    prOwnerValue, prPc, prArg, prCalls, prWire, prObsPos, prObserverValue

PP == INSTANCE PacketProcessor
        WITH handlers <- ppHandlers, existing <- ppExisting,
             planeChain <- ppPlaneChain, mutations <- ppMutations,
             readers <- ppReaders, pc <- ppPc, cur <- ppCur, queued <- ppQueued,
             crashed <- ppCrashed, nextNode <- ppNextNode, sent <- ppSent,
             role <- ppRole,
             Planes <- {p1, p2}, Topics <- {t1, t2}, Tasks <- {k1, k2},
             QueueCap <- PPQueueCap, MaxNodes <- PPMaxNodes,
             MaxPackets <- PPMaxPackets, PlaneReuse <- FALSE

HB == INSTANCE HubBroadcaster
        WITH live <- hbLive, nextHops <- hbNextHops, tlc <- hbTlc,
             reqq <- hbReqq, waiting <- hbWaiting, inq <- hbInq,
             setup <- hbSetup, accPc <- hbAccPc, accCur <- hbAccCur,
             accepted <- hbAccepted, rejected <- hbRejected, ing <- hbIng,
             connected <- hbConnected, wrote <- hbWrote, fwd <- hbFwd,
             got <- hbGot, due <- hbDue,
             Clients <- {h1, h2}, Local <- hLocal,
             MaxBundles <- HBMaxBundles, InCap <- HBInCap

\* One TcpServer gives the connections planes 0 and 1; the roles start on
\* worker 1 (on_worker_group), then on the local worker 0, which runs the
\* transports' tasks
CL == INSTANCE ConnectionLifecycle
        WITH tstate <- clTstate, pc <- clPc, at <- clAt,
             spawnedGlobals <- clSpawnedGlobals, globalsTask <- clGlobalsTask,
             started <- clStarted, onShut <- clOnShut, handlers <- clHandlers,
             writer <- clWriter, wire <- clWire, dropped <- clDropped,
             lost <- clLost, RxWorker <- 0,
             NConns <- CLConns, Order <- <<1, 0>>,
             PlaneOf <- [t \in 1..CLConns |-> t - 1], Reconnect <- FALSE


TH == INSTANCE TcpHandshake
        WITH nextPlane <- thNextPlane, spc <- thSpc, plane <- thPlane,
             wire <- thWire, closed <- thClosed, sent <- thSent, cpc <- thCpc,
             cpos <- thCpos, clen <- thClen, cplane <- thCplane,
             caddr <- thCaddr, got <- thGot, Conns <- THConns,
             InitLen <- THInitLen, MaxPackets <- THMaxPackets, Topic <- THTopic

\* The owner is endpoint 0 on plane 0; its update topic is 0
PR == INSTANCE PropertyRole
        WITH ownerValue <- prOwnerValue, pc <- prPc, arg <- prArg,
             calls <- prCalls, wire <- prWire, obsPos <- prObsPos,
             observerValue <- prObserverValue, Handles <- PRHandles,
             Values <- PRValues, InitValue <- PRInit, MaxUpdates <- PRMaxUpdates,
             Cancellation <- TRUE, Plane <- 0, Topic <- 0, OwnerAddr <- 0

ppVars == <<ppHandlers, ppExisting, ppPlaneChain, ppMutations, ppReaders, ppPc,
            ppCur, ppQueued, ppCrashed, ppNextNode, ppSent, ppRole>>
hbVars == <<hbLive, hbNextHops, hbTlc, hbReqq, hbWaiting, hbInq, hbSetup,
            hbAccPc, hbAccCur, hbAccepted, hbRejected, hbIng, hbConnected,
            hbWrote, hbFwd, hbGot, hbDue>>
clVars == <<clTstate, clPc, clAt, clSpawnedGlobals, clGlobalsTask, clStarted,
            clOnShut, clHandlers, clWriter, clWire, clDropped, clLost>>
thVars == <<thNextPlane, thSpc, thPlane, thWire, thClosed, thSent, thCpc,
            thCpos, thClen, thCplane, thCaddr, thGot>>
prVars == <<prOwnerValue, prPc, prArg, prCalls, prWire, prObsPos, prObserverValue>>
allVars == <<part, vars, ppVars, hbVars, clVars, thVars, prVars>>

WInit ==
    /\ part \in {"rt", "pp", "hb", "cl", "th", "pr"}
    /\ Init /\ PP!Init /\ HB!Init /\ CL!Init /\ TH!Init /\ PR!Init

\* A step of component p: the other's variables and the choice unchanged
Step(p, A, others) == part = p /\ A /\ UNCHANGED <<part, others>>

rtOthers == <<ppVars, hbVars, clVars, thVars, prVars>>
hbOthers == <<vars, ppVars, clVars, thVars, prVars>>
clOthers == <<vars, ppVars, hbVars, thVars, prVars>>

WNext ==
    \/ Step("rt", Next, rtOthers)
    \/ Step("pp", PP!NextWithCancel, <<vars, hbVars, clVars, thVars, prVars>>)
    \/ Step("hb", HB!Next, hbOthers)
    \/ Step("cl", CL!Next, clOthers)
    \/ Step("th", TH!Next, <<vars, ppVars, hbVars, clVars, prVars>>)
    \/ Step("pr", PR!Next, <<vars, ppVars, hbVars, clVars, thVars>>)

\* The request tracker's, the hub's and the connections' fairness, as their
\* modules state and justify it
WFairness ==
    /\ \A c \in Callers :
         /\ WF_allVars(Step("rt", SendRequest(c), rtOthers))
         /\ WF_allVars(Step("rt", PollResponse(c), rtOthers))
    /\ \A s \in Servers :
         WF_allVars(Step("rt", \E r \in requests : ServerReply(s, r), rtOthers))
    /\ WF_allVars(Step("rt", \E r \in responses : DeliverResponse(r), rtOthers))
    /\ WF_allVars(Step("hb", HB!Scheduled, hbOthers))
    /\ \A t \in 1..CLConns :
         /\ WF_allVars(Step("cl", CL!StartRole(t), clOthers))
         /\ WF_allVars(Step("cl", CL!StartOnWorker(t), clOthers))
         /\ WF_allVars(Step("cl", CL!GlobalsShutdown(t), clOthers))
         /\ \A w \in {0, 1} : WF_allVars(Step("cl", CL!OnShutdown(t, w), clOthers))

WSpec == WInit /\ [][WNext]_allVars /\ WFairness

-----------------------------------------------------------------------------

\* The variables of the request tracker, the dispatch table, the hub, the
\* connections, the hub's addresses, the handshake and the property roles
\* keep their types,
\* and their queues stay within their capacities.
WorkerTypeOK ==
    TypeOK /\ PP!TypeOK /\ HB!TypeOK /\ CL!TypeOK /\ TH!TypeOK
    /\ PR!TypeOK

\* PacketProcessor: a dispatch suspended mid-chain, even while other
\* dispatch futures are dropped, resumes on the chain it started on.
PP_StableChain == PP!StableChain

\* Hub: a transport never receives its own bundle, nor one twice, and
\* receives each origin's bundles in order.
HB_DeliverySound == HB!DeliverySound

\* Hub: a bundle reaches every transport registered when it was forwarded
\* unless that client has closed its socket.
HB_RegisteredDelivered == HB!RegisteredDelivered

\* Hub: after a closed client's remove_transport has returned, nothing of
\* its transport is left in the broadcaster.
HB_RemovalFinal == HB!RemovalFinal

\* Connections: with plane ids that differ, one connection's role never
\* loses packets to, or has its handlers removed by, another connection
\* that dies, whatever the order of their setups and on_shutdown tasks.
CL_RoleIsolated == CL!RoleIsolated

\* Connections: once a transport dies, its role is eventually gone from
\* every worker and its globals shutdown task has run, even when the
\* transport died while the role was still being started.
CL_RoleCleanedUp == CL!RoleCleanedUp

\* TcpHandshake: the client of each connection a TcpServer accepts, with
\* accept tasks running concurrently, starts as endpoint 1 on the plane its
\* accept took, a plane no other client has, and its tcp-rx hands on the
\* server role's packets, in order and intact, after the handshake bytes.
TH_HandshakeAgrees == TH!HandshakeAgrees

\* PropertyRole: with two tasks updating through clones of one owner and
\* update() futures dropped at either await, the owner's value is always
\* one its observers are sent: update() stores it only after the send.
PR_OwnerValuePublished == PR!OwnerValuePublished
=============================================================================
