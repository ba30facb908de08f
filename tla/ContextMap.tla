----------------------------- MODULE ContextMap -----------------------------
(***************************************************************************)
(* ContextMapPrivate (context_map.rs): a hash table of items keyed by a    *)
(* (type, key) pair, and per tag an intrusive singly linked chain of the   *)
(* items first created under that tag, so that shutdown_tag can drop them  *)
(* all.  Every operation runs under &mut self (a RefCell borrow or the     *)
(* globals mutex), so each is one atomic step.                             *)
(*                                                                         *)
(* An item is its (type, key) pair, a member of Keys; an ItemId is the     *)
(* item it points to, or Null.  The user's value and f are left out: they  *)
(* do not touch the table.                                                 *)
(***************************************************************************)
EXTENDS Naturals, Sequences, FiniteSets, Functions, TLC

CONSTANTS
    Keys,   \* (TypeId, key) pairs
    Tags,   \* ModrpcContextTag values: Role(id) and Worker(id)
    Null    \* ItemId::null()

ASSUME Null \notin Keys

VARIABLES
    map,        \* the HashTable: item -> its tag_next
    tagChains,  \* tag_chains: tag -> first item of its chain
    owner,      \* the tag each item was created under (history)
    panicked    \* shutdown_tag's expect("missing item") fired

vars == <<map, tagChains, owner, panicked>>

\* ContextMapPrivate::new_inner
Init ==
    /\ map = [k \in {} |-> Null]
    /\ tagChains = [t \in {} |-> Null]
    /\ owner = [k \in {} |-> Null]
    /\ panicked = FALSE

\* The items shutdown_tag visits from id, following tag_next; a missing item
\* ends the walk (find_item returns None).  fuel bounds a cyclic chain.
RECURSIVE ChainFrom(_, _)
ChainFrom(id, fuel) ==
    IF id = Null \/ fuel = 0 THEN <<>>
    ELSE IF id \notin DOMAIN map THEN <<id>>
    ELSE <<id>> \o ChainFrom(map[id], fuel - 1)

Chain(t) == IF t \in DOMAIN tagChains
              THEN ChainFrom(tagChains[t], Cardinality(Keys) + 1)
              ELSE <<>>

(* Variant of the next definition as a plausible slip would write it: the  *)
(* new item not linked to the previous head of its tag's chain.            *)
PrevHeadDropped(t) == Null

\* f with k mapped to v
Put(f, k, v) == [x \in DOMAIN f \cup {k} |-> IF x = k THEN v ELSE f[x]]

\* item.tag_next = prev_tag_chain_head.unwrap_or(ItemId::null())
PrevHead(t) == IF t \in DOMAIN tagChains THEN tagChains[t] ELSE Null

\* get_ptr / get_ptr_fn: entry(...).or_insert_with(...).  An existing item
\* is returned as it is, whatever tag it was created under; a new one is
\* pushed on the front of the chain of the tag passed in.
GetPtr(t, k) ==
    IF k \in DOMAIN map
        THEN UNCHANGED <<map, tagChains, owner>>
        ELSE /\ map' = map @@ (k :> PrevHead(t))
             /\ tagChains' = Put(tagChains, t, k)
             /\ owner' = Put(owner, k, t)

\* with / with_inner: get_ptr, then f on the value
With(t, k) ==
    /\ ~panicked
    /\ GetPtr(t, k)
    /\ UNCHANGED panicked

\* with_fn / with_inner_fn: the same lookup with a constructor closure
WithFn(t, k) ==
    /\ ~panicked
    /\ GetPtr(t, k)
    /\ UNCHANGED panicked

(* Variant of the next definition as a plausible slip would write it: the  *)
(* tag's chain head reset to null instead of removed from tag_chains.      *)
ShutdownTagKeepsEntry(t) ==
    /\ ~panicked
    /\ t \in DOMAIN tagChains
    /\ LET ids == Range(Chain(t)) IN
       /\ map' = [k \in DOMAIN map \ ids |-> map[k]]
       /\ tagChains' = [tagChains EXCEPT ![t] = Null]
       /\ UNCHANGED <<owner, panicked>>

\* shutdown_tag: take the tag's chain out of tag_chains, then remove and
\* drop every item on it; an item the table lacks panics.
ShutdownTag(t) ==
    /\ ~panicked
    /\ t \in DOMAIN tagChains
    /\ LET ids == Range(Chain(t)) IN
       IF ids \subseteq DOMAIN map
          THEN /\ map' = [k \in DOMAIN map \ ids |-> map[k]]
               /\ tagChains' = [s \in DOMAIN tagChains \ {t} |-> tagChains[s]]
               /\ UNCHANGED <<owner, panicked>>
          ELSE /\ panicked' = TRUE
               /\ UNCHANGED <<map, tagChains, owner>>

Next ==
    \E t \in Tags, k \in Keys :
        \/ With(t, k)
        \/ WithFn(t, k)
        \/ ShutdownTag(t)

Spec == Init /\ [][Next]_vars

-----------------------------------------------------------------------------
(* Properties                                                               *)

TypeOK ==
    /\ DOMAIN map \subseteq Keys /\ \A k \in DOMAIN map : map[k] \in Keys \cup {Null}
    /\ DOMAIN tagChains \subseteq Tags /\ Range(tagChains) \subseteq Keys
    /\ DOMAIN owner \subseteq Keys /\ Range(owner) \subseteq Tags
    /\ panicked \in BOOLEAN

\* The tag chains partition the table: the chain of each tag reaches, once
\* each, exactly the items present that were created under that tag, and
\* every present item's tag has a chain.  So shutdown_tag(t) never meets a
\* missing item and leaves no item created under t behind, however with,
\* with_fn and shutdown_tag calls on several tags interleave.
ChainsPartition ==
    /\ ~panicked
    /\ \A t \in DOMAIN tagChains :
         /\ Len(Chain(t)) = Cardinality(Range(Chain(t)))
         /\ Range(Chain(t)) = {k \in DOMAIN map : owner[k] = t}
    /\ \A k \in DOMAIN map : owner[k] \in DOMAIN tagChains

=============================================================================
