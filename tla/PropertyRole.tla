----------------------------- MODULE PropertyRole -----------------------------
(***************************************************************************)
(* The Property roles of std-modrpc (property_owner.rs,                    *)
(* property_observer.rs).  A PropertyOwner is a cloneable handle on one    *)
(* shared State; update(new_value) sends a PropertyUpdate event and only   *)
(* then stores the value.  The send is PacketSender::send_raw: reserve a   *)
(* slot in the writer (an await), encode the header and the payload into   *)
(* it, hand the packet to the local PacketProcessor (an await), then       *)
(* schedule a flush.  A PropertyObserver on the other end of the           *)
(* connection decodes each update its inline handler gets and stores it.   *)
(* The owner's own inline handler does nothing.                            *)
(*                                                                         *)
(* The wire is the packets written into the writer, in the order their    *)
(* slots were reserved, which is the order tcp-tx sends them in.           *)
(***************************************************************************)
EXTENDS Naturals, Sequences, EndpointProto, StdProto

CONSTANTS
    Handles,       \* tasks each updating through its own clone of the owner
    Values,        \* the values an update may carry (u32)
    InitValue,     \* PropertyInitState.value
    MaxUpdates,    \* update() calls in a behaviour
    Cancellation,  \* an update() future may be dropped at an await
    Plane, Topic,  \* the role's plane and its update topic
    OwnerAddr      \* the owner's EndpointAddr

ASSUME MaxUpdates \in Nat /\ InitValue \in Values

VARIABLES
    ownerValue,    \* State.value
    pc,            \* each task: "idle", "reserve", "dispatch"
    arg,           \* the new_value of each task's update in progress
    calls,         \* update() calls made
    wire,          \* the packets written into the writer, in order
    obsPos,        \* packets the observer's handler has taken
    observerValue  \* the observer's value cell

vars == <<ownerValue, pc, arg, calls, wire, obsPos, observerValue>>

\* The packet send_raw writes for update(v): the TransmitPacket header
\* with payload_length = encoded_len, then PropertyUpdateGen's bytes
UpdatePacket(v) ==
    LET payload == PropertyUpdateBytes(v)
    IN  TransmitHeader(Len(payload), Plane, Topic, OwnerAddr) \o payload

Init ==
    /\ ownerValue = InitValue
    /\ pc = [h \in Handles |-> "idle"]
    /\ arg = [h \in Handles |-> InitValue]
    /\ calls = 0
    /\ wire = <<>>
    /\ obsPos = 0
    /\ observerValue = InitValue

(* Variant of the next definition as a plausible slip would write it: the  *)
(* value stored before the send.                                           *)
OwnerValueEarly(v) == v

\* What update() leaves in State.value when it is called: nothing yet
OwnerValueOnCall(v) == ownerValue

\* update(new_value): send_raw selects the channel and awaits reserve
Update(h, v) ==
    /\ pc[h] = "idle" /\ calls < MaxUpdates
    /\ pc' = [pc EXCEPT ![h] = "reserve"]
    /\ arg' = [arg EXCEPT ![h] = v]
    /\ calls' = calls + 1
    /\ ownerValue' = OwnerValueOnCall(v)
    /\ UNCHANGED <<wire, obsPos, observerValue>>

\* reserve returns; the header and payload are encoded into the slot, and
\* handle_packet is awaited
Reserve(h) ==
    /\ pc[h] = "reserve"
    /\ wire' = Append(wire, UpdatePacket(arg[h]))
    /\ pc' = [pc EXCEPT ![h] = "dispatch"]
    /\ UNCHANGED <<ownerValue, arg, calls, obsPos, observerValue>>

\* handle_packet returns (the owner's own handler does nothing), the flush
\* is scheduled, send returns and update stores the value
Dispatch(h) ==
    /\ pc[h] = "dispatch"
    /\ ownerValue' = arg[h]
    /\ pc' = [pc EXCEPT ![h] = "idle"]
    /\ UNCHANGED <<arg, calls, wire, obsPos, observerValue>>

\* The update() future is dropped at either await: before reserve returns
\* nothing was written; in handle_packet the packet is already in the
\* writer; either way the value is not stored
Drop(h) ==
    /\ Cancellation /\ pc[h] \in {"reserve", "dispatch"}
    /\ pc' = [pc EXCEPT ![h] = "idle"]
    /\ UNCHANGED <<ownerValue, arg, calls, wire, obsPos, observerValue>>

\* EventRxBuilder::inline: decode_value of packet[BASE_LEN..] as the event
\* type, here the PropertyUpdate's new_value, for the handler (every packet
\* here decodes, so none is dropped)
InlineEvent(p) == PUNewValue(DecodePacket(p).payload)

\* The observer's handler: store the update's new_value
Observe ==
    /\ obsPos < Len(wire)
    /\ observerValue' = InlineEvent(wire[obsPos + 1])
    /\ obsPos' = obsPos + 1
    /\ UNCHANGED <<ownerValue, pc, arg, calls, wire>>

\* Every update made has returned or been dropped and the observer has
\* taken every packet
Finished ==
    /\ calls = MaxUpdates /\ \A h \in Handles : pc[h] = "idle"
    /\ obsPos = Len(wire)
    /\ UNCHANGED vars

Next ==
    \/ \E h \in Handles :
         \/ \E v \in Values : Update(h, v)
         \/ Reserve(h) \/ Dispatch(h) \/ Drop(h)
    \/ Observe
    \/ Finished

Spec == Init /\ [][Next]_vars

-----------------------------------------------------------------------------
(* Properties                                                               *)

TypeOK ==
    /\ ownerValue \in Values /\ observerValue \in Values
    /\ pc \in [Handles -> {"idle", "reserve", "dispatch"}]
    /\ arg \in [Handles -> Values]
    /\ calls \in 0..MaxUpdates
    /\ wire \in Seq({UpdatePacket(v) : v \in Values})
    /\ obsPos \in 0..Len(wire)

\* The values the observer will have taken once it has read the wire
Published == {InitValue} \cup {InlineEvent(wire[i]) : i \in 1..Len(wire)}

\* update() never leaves the owner holding a value its observers are not
\* sent: whatever tasks update through clones of the owner and whichever
\* of their futures are dropped, State.value is the initial value or the
\* value of a packet in the writer.
OwnerValuePublished == ownerValue \in Published

=============================================================================
