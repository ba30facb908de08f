------------------------- MODULE ReentrantDispatch -------------------------
(***************************************************************************)
(* A topic whose inline handler sends on its own topic, on one worker      *)
(* (src/crates/modrpc/src/packet_processor.rs, packet_sender.rs and the    *)
(* local-rx task of worker.rs).                                            *)
(*                                                                         *)
(* handle_packet sets the chain's is_in_handler flag around each call of   *)
(* an inline handler.  A handler cannot await, so it sends with try_send,  *)
(* which polls send_raw, and so handle_packet, once (now_or_never).  That  *)
(* inner handle_packet finds the flag set and, instead of walking the      *)
(* chain (and calling the handler while it is on the stack), pushes the    *)
(* packet on the worker's local packet queue and returns.  If that queue   *)
(* is full its send is pending, now_or_never drops it and try_send returns *)
(* false.  The local-rx task later takes the packet and dispatches it      *)
(* through the whole chain.                                                *)
(*                                                                         *)
(* The chain is a constant sequence of nodes: the inline handler and a     *)
(* LocalQueue node whose bounded queue a subscriber's task consumes.  The  *)
(* application task sends packets 1..NSends with send().await; the handler *)
(* answers each of them with one follow-up (NSends + i) and no others.     *)
(* Each action runs a task from one await to the next.                     *)
(***************************************************************************)
EXTENDS Naturals, Sequences

CONSTANTS
    NSends,     \* packets the application task sends on the topic
    LocalCap,   \* capacity of the worker's local packet queue (64 in rt.rs)
    SinkCap,    \* capacity of the subscriber's queue behind the LocalQueue node
    Chain       \* the topic's nodes, head first: "inline" or "queue"

ASSUME NSends \in Nat \ {0} /\ LocalCap \in Nat \ {0} /\ SinkCap \in Nat \ {0}
ASSUME Chain \in Seq({"inline", "queue"})

Packets == 1..(2 * NSends)
IsApp(p) == p <= NSends
FollowUp(p) == NSends + p
Tasks == {"app", "local-rx"}

\* Positions a suspended handle_packet can be at: 0 is the send to the
\* local packet queue, i the LocalQueue node i; Done is a finished walk.
Done == Len(Chain) + 1
Idle == [pkt |-> 0, at |-> Done]

VARIABLES
    appNext,    \* the next packet the application task sends
    lpq,        \* the worker's local packet queue (local_packet_tx / rx)
    sq,         \* the subscriber's queue behind the LocalQueue node
    disp,       \* per task: its suspended handle_packet, packet and position
    inHandler,  \* the chain's is_in_handler flag
    hGot,       \* ghost: calls of the inline handler with each packet
    sGot,       \* ghost: pushes of each packet to the subscriber's queue
    accepted    \* ghost: packets sent, and follow-ups whose try_send was true

vars == <<appNext, lpq, sq, disp, inHandler, hGot, sGot, accepted>>

\* The state a call of handle_packet changes, as one record
St == [lpq |-> lpq, sq |-> sq, flag |-> inHandler, h |-> hGot, s |-> sGot,
       acc |-> accepted]

-----------------------------------------------------------------------------
(* handle_packet, from one await to the next.  The four operators call one *)
(* another: the handler's try_send re-enters handle_packet.                *)

RECURSIVE HandlePacket(_, _), Walk(_, _, _), Handler(_, _), TrySend(_, _)

\* A variant that never clears the flag
LeaveHandlerKept == TRUE

\* `node_chain.is_in_handler.replace(false)` once the handler returns
LeaveHandler == FALSE

\* A variant that, after re-queueing the packet, walks the chain anyway
HandlePacketNoReturn(st, p) ==
    IF st.flag
    THEN IF Len(st.lpq) < LocalCap
         THEN Walk([st EXCEPT !.lpq = Append(@, p)], p, 1)
         ELSE [st |-> st, at |-> 0]
    ELSE Walk(st, p, 1)

\* The is_in_handler check: a packet for a chain whose handler is on the
\* stack goes to the local packet queue, and handle_packet returns.
\* Otherwise the chain is walked from its head.
HandlePacket(st, p) ==
    IF st.flag
    THEN IF Len(st.lpq) < LocalCap
         THEN [st |-> [st EXCEPT !.lpq = Append(@, p)], at |-> Done]
         ELSE [st |-> st, at |-> 0]
    ELSE Walk(st, p, 1)

\* The walk from node i: an inline node calls the handler; a LocalQueue
\* node pushes the packet, or suspends there when its queue is full.
Walk(st, p, i) ==
    IF i > Len(Chain) THEN [st |-> st, at |-> Done]
    ELSE IF Chain[i] = "inline" THEN Walk(Handler(st, p), p, i + 1)
    ELSE IF Len(st.sq) < SinkCap
         THEN Walk([st EXCEPT !.sq = Append(@, p), !.s[p] = @ + 1], p, i + 1)
         ELSE [st |-> st, at |-> i]

\* NodeBody::Inline: the handler is called with the flag set, and answers
\* an application packet with a try_send of its follow-up
Handler(st, p) ==
    LET in  == [st EXCEPT !.flag = TRUE, !.h[p] = @ + 1]
        out == IF IsApp(p) THEN TrySend(in, FollowUp(p)) ELSE in
    IN  [out EXCEPT !.flag = LeaveHandler]

\* PacketSender::try_send: send polled once.  If handle_packet is pending
\* the future is dropped: what it did so far stays, and try_send is false.
TrySend(st, q) ==
    LET r == HandlePacket(st, q)
    IN  IF r.at = Done THEN [r.st EXCEPT !.acc = @ \cup {q}] ELSE r.st

\* A suspended handle_packet's send completes, and its walk goes on
Continue(st, p, i) ==
    IF i = 0 THEN [st |-> [st EXCEPT !.lpq = Append(@, p)], at |-> Done]
    ELSE Walk(st, p, i)

\* Task k's handle_packet of p has reached r
Reached(k, p, r) ==
    /\ lpq' = r.st.lpq
    /\ sq' = r.st.sq
    /\ inHandler' = r.st.flag
    /\ hGot' = r.st.h
    /\ sGot' = r.st.s
    /\ accepted' = r.st.acc
    /\ disp' = [disp EXCEPT ![k] = IF r.at = Done THEN Idle
                                   ELSE [pkt |-> p, at |-> r.at]]

-----------------------------------------------------------------------------
(* The tasks.                                                              *)

\* EventTx::send from the application's task: send_raw builds the packet
\* and awaits handle_packet
AppSend ==
    /\ disp["app"] = Idle /\ appNext <= NSends
    /\ appNext' = appNext + 1
    /\ Reached("app", appNext,
               HandlePacket([St EXCEPT !.acc = @ \cup {appNext}], appNext))

\* The local-rx task: `local_packet_rx.recv().await`, then handle_packet
LocalRx ==
    /\ disp["local-rx"] = Idle /\ lpq # <<>>
    /\ Reached("local-rx", Head(lpq), HandlePacket([St EXCEPT !.lpq = Tail(@)], Head(lpq)))
    /\ UNCHANGED appNext

\* The send a suspended handle_packet awaits finds room
Resume(k) ==
    /\ disp[k] # Idle
    /\ IF disp[k].at = 0 THEN Len(lpq) < LocalCap ELSE Len(sq) < SinkCap
    /\ Reached(k, disp[k].pkt, Continue(St, disp[k].pkt, disp[k].at))
    /\ UNCHANGED appNext

\* The subscriber's task takes a packet from its queue
Consume ==
    /\ sq # <<>>
    /\ sq' = Tail(sq)
    /\ UNCHANGED <<appNext, lpq, disp, inHandler, hGot, sGot, accepted>>

\* Everything is sent and handled: the worker waits for input
Finished ==
    /\ appNext > NSends /\ lpq = <<>> /\ sq = <<>>
    /\ \A k \in Tasks : disp[k] = Idle
    /\ UNCHANGED vars

\* The chain was built with is_in_handler: Cell::new(false), and both queues
\* are empty
Init ==
    /\ appNext = 1
    /\ lpq = <<>>
    /\ sq = <<>>
    /\ disp = [k \in Tasks |-> Idle]
    /\ inHandler = FALSE
    /\ hGot = [p \in Packets |-> 0]
    /\ sGot = [p \in Packets |-> 0]
    /\ accepted = {}

Next ==
    \/ AppSend
    \/ LocalRx
    \/ \E k \in Tasks : Resume(k)
    \/ Consume
    \/ Finished

\* The worker's executor polls every task that is ready: local-rx, a
\* suspended dispatch and the subscriber.  Sending is the application's.
Fairness ==
    /\ WF_vars(LocalRx)
    /\ \A k \in Tasks : WF_vars(Resume(k))
    /\ WF_vars(Consume)

Spec == Init /\ [][Next]_vars /\ Fairness

-----------------------------------------------------------------------------

TypeOK ==
    /\ appNext \in 1..(NSends + 1)
    /\ lpq \in Seq(Packets) /\ Len(lpq) <= LocalCap
    /\ sq \in Seq(Packets) /\ Len(sq) <= SinkCap
    /\ disp \in [Tasks -> [pkt : Packets \cup {0}, at : 0..Done]]
    /\ inHandler \in BOOLEAN
    /\ hGot \in [Packets -> Nat] /\ sGot \in [Packets -> Nat]
    /\ accepted \subseteq Packets

\* Each packet sent, by the application or by a try_send of the handler
\* that returned true, reaches the handler and the subscriber exactly once,
\* and a refused try_send reaches neither.
Delivered ==
    \A p \in Packets :
        /\ hGot[p] = sGot[p]
        /\ hGot[p] = IF p \in accepted THEN 1 ELSE 0

\* The re-entrancy guard neither loses, repeats nor withholds a packet: the
\* re-queued follow-ups come back through local-rx, and eventually every
\* packet sent has been handled exactly once, from then on.
ReentrantDelivered == <>[]Delivered

=============================================================================
