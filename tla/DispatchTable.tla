--------------------------- MODULE DispatchTable ---------------------------
(***************************************************************************)
(* What a worker's PacketProcessor promises about its dispatch table: a    *)
(* map from (plane, topic) to a chain of handler nodes, most recently      *)
(* added first, changed only by two atomic operations, "add a node" and    *)
(* "remove every chain of a plane".  The detailed module PacketProcessor   *)
(* defers these operations while a dispatch holds the table; it implements *)
(* this specification when every deferred operation takes effect in the    *)
(* order in which it was called.                                           *)
(***************************************************************************)
EXTENDS Sequences, Functions, TLC

CONSTANTS Planes, Topics, Nodes

VARIABLE table

Keys == Planes \X Topics

EmptyTable == [key \in {} |-> <<>>]

Init == table = EmptyTable

\* add_node: push the node on top of the topic's chain, creating the chain.
Add(p, t, n) ==
    table' = IF <<p, t>> \in DOMAIN table
             THEN [table EXCEPT ![<<p, t>>] = <<n>> \o @]
             ELSE table @@ (<<p, t>> :> <<n>>)

\* remove_plane: drop every chain of the plane.
Remove(p) ==
    table' = Restrict(table, {key \in DOMAIN table : key[1] # p})

Next ==
    \/ \E p \in Planes, t \in Topics, n \in Nodes : Add(p, t, n)
    \/ \E p \in Planes : Remove(p)

Spec == Init /\ [][Next]_table
=============================================================================
