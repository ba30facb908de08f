----------------------------- MODULE AppHubAccept -----------------------------
(***************************************************************************)
(* The endpoint addresses modrpc-hub gives its clients: AppHubBuilder::   *)
(* build (app_hub.rs) starts the hub's own role as endpoint 0 and hands    *)
(* one Rc<Cell<u64>> next_endpoint_id, starting at 1, to spawn_hub_tcp and *)
(* spawn_hub_websocket.  Each is an accept loop, a task of its own on the  *)
(* hub's worker.  For each connection a loop reads the id, awaits the      *)
(* delegate's client_handshake (which writes the PlaneHandshake with that  *)
(* address), sets the cell to one more than its current value, and then    *)
(* gives the client a spoke, a next hop in the broadcaster and a task that *)
(* calls client_disconnected(endpoint_addr) once the spoke shuts down.     *)
(*                                                                         *)
(* The broadcaster and the spokes are HubBroadcaster's subject; here a     *)
(* client is its loop, its connection number and its address, and the      *)
(* steps after the handshake, which touch none of these, are one action.   *)
(***************************************************************************)
EXTENDS Naturals, FiniteSets

CONSTANTS
    Loops,      \* the accept loops build spawns: a subset of {"tcp", "ws"}
    MaxConns    \* connections each listener accepts

ASSUME Loops \subseteq {"tcp", "ws"} /\ MaxConns \in Nat

\* The EndpointAddr of the hub's own role (start_role in build)
HubAddr == 0
NoAddr  == 0

VARIABLES
    nextId,   \* the shared next_endpoint_id cell
    pc,       \* each loop: "accept", "handshake" (in client_handshake),
              \* "register" (spoke, next hop and disconnect task)
    cur,      \* the endpoint_addr each loop read for its current client
    conns,    \* connections each loop has accepted
    live      \* clients registered and not yet disconnected:
              \* [loop, n, addr]

vars == <<nextId, pc, cur, conns, live>>

Clients == [loop : Loops, n : 1..MaxConns, addr : Nat]

Init ==
    /\ nextId = 1
    /\ pc = [l \in Loops |-> "accept"]
    /\ cur = [l \in Loops |-> NoAddr]
    /\ conns = [l \in Loops |-> 0]
    /\ live = {}

\* listener.accept() returns a connection (set_nodelay failing only warns);
\* the websocket loop then runs accept_async, whose failure drops the
\* connection and goes round again; otherwise the loop reads the cell
Accept(l) ==
    /\ pc[l] = "accept" /\ conns[l] < MaxConns
    /\ conns' = [conns EXCEPT ![l] = @ + 1]
    /\ \/ /\ pc' = [pc EXCEPT ![l] = "handshake"]
          /\ cur' = [cur EXCEPT ![l] = nextId]
       \/ /\ l = "ws"
          /\ UNCHANGED <<pc, cur>>
    /\ UNCHANGED <<nextId, live>>

\* next_endpoint_id.set(next_endpoint_id.get() + 1)
AdvanceFromCell(l) == nextId + 1

\* client_handshake returns: on an error the loop logs it and goes round
\* again, the address unused; otherwise the cell is advanced
Handshake(l) ==
    /\ pc[l] = "handshake"
    /\ \/ /\ nextId' = AdvanceFromCell(l)
          /\ pc' = [pc EXCEPT ![l] = "register"]
          /\ UNCHANGED cur
       \/ /\ pc' = [pc EXCEPT ![l] = "accept"]
          /\ cur' = [cur EXCEPT ![l] = NoAddr]
          /\ UNCHANGED nextId
    /\ UNCHANGED <<conns, live>>

\* spawn_tcp_spoke / spawn_websocket_spoke, add_next_hop_to_channels, and
\* the spawned task that waits for the spoke's shutdown
Register(l) ==
    /\ pc[l] = "register"
    /\ live' = live \cup {[loop |-> l, n |-> conns[l], addr |-> cur[l]]}
    /\ pc' = [pc EXCEPT ![l] = "accept"]
    /\ cur' = [cur EXCEPT ![l] = NoAddr]
    /\ UNCHANGED <<nextId, conns>>

\* The client's connection ends: the spoke's shutdown signal is notified
\* and the task calls client_disconnected with the client's address
Disconnect(c) ==
    /\ c \in live
    /\ live' = live \ {c}
    /\ UNCHANGED <<nextId, pc, cur, conns>>

\* Every listener has accepted its connections and every client has left
Finished ==
    /\ \A l \in Loops : pc[l] = "accept" /\ conns[l] = MaxConns
    /\ live = {}
    /\ UNCHANGED vars

Next ==
    \/ \E l \in Loops : Accept(l) \/ Handshake(l) \/ Register(l)
    \/ \E c \in live : Disconnect(c)
    \/ Finished

Spec == Init /\ [][Next]_vars

-----------------------------------------------------------------------------
(* Properties                                                               *)

TypeOK ==
    /\ nextId \in Nat \ {0}
    /\ pc \in [Loops -> {"accept", "handshake", "register"}]
    /\ cur \in [Loops -> Nat]
    /\ conns \in [Loops -> 0..MaxConns]
    /\ live \subseteq Clients

\* spec.md: an EndpointAddr is unique per plane.  Every client on the hub's
\* plane holds an address no other connected client and not the hub's own
\* role holds, however connections come and go and however a handshake
\* fails, so a response or a client_disconnected call for an address
\* concerns one client only.
EndpointsUnique ==
    \A c \in live :
        /\ c.addr # HubAddr
        /\ \A d \in live : d # c => d.addr # c.addr

=============================================================================
