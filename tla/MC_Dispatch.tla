----------------------------- MODULE MC_Dispatch -----------------------------
(***************************************************************************)
(* Two parts of one worker's dispatch that share no state, checked in one  *)
(* run: the dispatch table with its deferred mutations (PacketProcessor,   *)
(* extended, with two planes, two topics and two dispatching tasks) and an *)
(* inline handler that sends on its own topic (ReentrantDispatch,          *)
(* instantiated).  `part` picks, in the initial state, the part a         *)
(* behaviour explores; the other stays in its initial state, so the       *)
(* dispatch table stutters under its refinement mapping there.            *)
(***************************************************************************)
EXTENDS PacketProcessor

CONSTANTS p1, p2, t1, t2, k1, k2, RDSends, RDLocalCap, RDSinkCap

MCPlanes == {p1, p2}
MCTopics == {t1, t2}
MCTasks  == {k1, k2}

VARIABLES
    part,
    rdAppNext, rdLpq, rdSq, rdDisp, rdInHandler, rdHGot, rdSGot, rdAccepted

\* The handler comes first in the chain, the subscriber's LocalQueue after
RD == INSTANCE ReentrantDispatch
        WITH appNext <- rdAppNext, lpq <- rdLpq, sq <- rdSq, disp <- rdDisp,
             inHandler <- rdInHandler, hGot <- rdHGot, sGot <- rdSGot,
             accepted <- rdAccepted, NSends <- RDSends, LocalCap <- RDLocalCap,
             SinkCap <- RDSinkCap, Chain <- <<"inline", "queue">>

rdVars == <<rdAppNext, rdLpq, rdSq, rdDisp, rdInHandler, rdHGot, rdSGot,
            rdAccepted>>
allVars == <<part, vars, rdVars>>

DInit == part \in {"pp", "rd"} /\ Init /\ RD!Init

\* A step of part p: the other's variables and the choice unchanged
Step(p, A, others) == part = p /\ A /\ UNCHANGED <<part, others>>

DNext == Step("pp", Next, rdVars) \/ Step("rd", RD!Next, vars)

\* Each part's fairness, as its module states and justifies it
DFairness ==
    /\ \A k \in Tasks :
         /\ WF_allVars(Step("pp", ResumeDispatch(k), rdVars))
         /\ WF_allVars(Step("pp", DrainMutations(k), rdVars))
    /\ WF_allVars(Step("pp", ConsumeLocalQueue, rdVars))
    /\ WF_allVars(Step("rd", RD!LocalRx, vars))
    /\ \A k \in RD!Tasks : WF_allVars(Step("rd", RD!Resume(k), vars))
    /\ WF_allVars(Step("rd", RD!Consume, vars))

DSpec == DInit /\ [][DNext]_allVars /\ DFairness

\* ReentrantDispatch: a packet the inline handler sends on its own topic
\* goes round through the local packet queue and the local-rx task;
\* eventually every packet sent, and every follow-up whose try_send returned
\* true, has reached the handler and the subscriber exactly once, and a
\* refused one neither (on the behaviours that explore it).
RD_ReentrantDelivered == part = "rd" => RD!ReentrantDelivered
=============================================================================
