------------------------------- MODULE StdProto -------------------------------
(***************************************************************************)
(* The byte layouts of the std-modrpc types generated into proto.rs that   *)
(* the role implementations read back from packets: Request, Response,     *)
(* StreamItem, MultiStreamId, MultiStreamItem and PropertyUpdate, each as  *)
(* its Gen encode writes it and its Lazy accessors read it.  Request and   *)
(* Response payloads are empty; a PropertyUpdate's value is a u32; the     *)
(* other payloads are the bytes the caller gives.                          *)
(***************************************************************************)
EXTENDS Naturals, Sequences, LittleEndian

\* RequestGen's encode: request_id u32, worker u16, payload
RequestBytes(id, worker) == LE(id, 4) \o LE(worker, 2)

\* Response's encode: request_id u32, requester u64, requester_worker u16,
\* payload
ResponseBytes(id, requester, worker) == LE(id, 4) \o LE(requester, 8) \o LE(worker, 2)

\* RequestLazy's accessors, at offsets 0 and 4
ReqId(b) == FromLE(b, 0, 4)
ReqWorker(b) == FromLE(b, 4, 2)

\* ResponseLazy's accessors, at offsets 0, 4 and 12
RspId(b) == FromLE(b, 0, 4)
RspRequester(b) == FromLE(b, 4, 8)
RspWorker(b) == FromLE(b, 12, 2)

\* StreamItemGen's encode: seq u64, payload
StreamItemBytes(seq, payload) == LE(seq, 8) \o payload

\* StreamItemLazy's accessors on an item decoded at offset off: seq at 0,
\* payload at 8
StreamItemSeq(b, off) == FromLE(b, off, 8)
StreamItemPayload(b, off) == SubSeq(b, off + 9, Len(b))

\* MultiStreamIdGen's encode: owner u64, id u32
MultiStreamIdBytes(owner, id) == LE(owner, 8) \o LE(id, 4)

\* MultiStreamIdLazy's id accessor, at offset 8 of the id at off
MultiStreamIdId(b, off) == FromLE(b, off + 8, 4)

\* MultiStreamItemGen's encode: stream_id, seq u64, then the payload's
\* Option bytes
MultiStreamItemBytes(owner, id, seq, payload) ==
    MultiStreamIdBytes(owner, id) \o LE(seq, 8) \o payload

\* MultiStreamItemLazy's accessors on an item decoded at offset off:
\* stream_id at 0, seq at 12, payload at 20
MSItemStreamId(b, off) == MultiStreamIdId(b, off)
MSItemSeq(b, off) == FromLE(b, off + 12, 8)
MSItemPayloadAt(off) == off + 20

\* PropertyUpdateGen's encode: new_value, here a u32
PropertyUpdateBytes(v) == LE(v, 4)

\* PropertyUpdate's decode: new_value at offset 0
PUNewValue(b) == FromLE(b, 0, 4)

=============================================================================
