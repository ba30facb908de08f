------------------------------ MODULE TcpIngress ------------------------------
(***************************************************************************)
(* TcpIngress::receive (tcp_ingress.rs): the reassembly of PacketBundles   *)
(* from a TCP byte stream into the buffers of a bab::Framer.  A bundle is  *)
(* a BASE_LEN header holding its payload length, then the payload.  Each   *)
(* read returns any number of the bytes that have arrived, up to the room  *)
(* it is given; the peer writes whole bundles and then closes.             *)
(*                                                                         *)
(* The Framer is not in the repository; the model takes it as a buffer of  *)
(* BufSize bytes in which committed frames are followed by the write      *)
(* region: write() is that region, commit(n) adds n bytes to the frame,    *)
(* finish_frame() returns the frame and starts the next one after it, and  *)
(* next_buffer() returns the frame and moves to a fresh buffer, whose      *)
(* write region does not hold the bytes read past the frame.  Bytes are    *)
(* stream offsets; a frame is the offset it starts at.                     *)
(***************************************************************************)
EXTENDS Naturals, Sequences, SequencesExt

CONSTANTS
    Base,       \* PacketBundle::BASE_LEN
    BufSize,    \* the buffer pool's buffer_size
    MaxPacket,  \* max_packet_size, the header included
    Lens,       \* payload lengths the peer's bundles may have
    NBundles    \* bundles the peer writes

ASSUME /\ Base \in Nat \ {0} /\ MaxPacket <= BufSize
       /\ Lens \subseteq Nat \ {0} /\ NBundles \in Nat \ {0}
       /\ \A l \in Lens : Base + l <= MaxPacket   \* the peer's max_packet_size

VARIABLES
    bundles,   \* the payload lengths the peer writes, in order
    pos,       \* stream bytes read so far
    fs,        \* where the current frame starts in the buffer
    cursor,    \* TcpIngress.cursor: bytes read into the write region
    garbled,   \* the write region's first cursor bytes are not the stream's
    out,       \* the frames receive() has returned, by stream offset
    closed,    \* receive() has returned the ConnectionReset error
    panicked   \* "none", or the check that panicked

vars == <<bundles, pos, fs, cursor, garbled, out, closed, panicked>>

Larger(a, b) == IF a >= b THEN a ELSE b
Smaller(a, b) == IF a <= b THEN a ELSE b

\* Stream offset of the i-th bundle, and of the end of the stream
Offset(i) == FoldSeq(LAMBDA l, acc : acc + Base + l, 0, SubSeq(bundles, 1, i - 1))
Total == Offset(NBundles + 1)

\* The length the header at stream offset p decodes to: a bundle's payload
\* length at a bundle boundary, and otherwise any length the bytes spell
HeaderLens(p) ==
    IF \E i \in 1..NBundles : Offset(i) = p
       THEN {bundles[CHOOSE i \in 1..NBundles : Offset(i) = p]}
       ELSE Lens

\* Bytes a read of room r can return: some of what has arrived
ReadSizes(r) == 1..Smaller(r, Total - pos)

W == BufSize - fs                 \* write.len()
Busy == ~closed /\ panicked = "none"

Init ==
    /\ bundles \in [1..NBundles -> Lens]
    /\ pos = 0 /\ fs = 0 /\ cursor = 0
    /\ garbled = FALSE /\ out = <<>> /\ closed = FALSE /\ panicked = "none"

-----------------------------------------------------------------------------
(* Variant of the next definition as a plausible slip would write it: no   *)
(* floor at the header length.                                             *)
HeaderLimitNoFloor(w) == w - MaxPacket

\* The header read's bound: leave room for a packet of max size, but read
\* at least the header
HeaderLimit(w) == Larger(w - MaxPacket, Base)

\* Reading the bundle header (cursor < BASE_LEN): write.len() - max_packet_size
\* is a usize subtraction; then read into write[cursor..max_read], or, with
\* no room, debug_assert!(cursor >= BASE_LEN)
HeaderRead ==
    /\ Busy /\ cursor < Base
    /\ IF W < MaxPacket
          THEN panicked' = "usize underflow" /\ UNCHANGED <<pos, cursor, closed>>
       ELSE IF HeaderLimit(W) <= cursor
          THEN panicked' = "debug_assert" /\ UNCHANGED <<pos, cursor, closed>>
       ELSE IF pos = Total
          THEN closed' = TRUE /\ UNCHANGED <<pos, cursor, panicked>>
       ELSE \E n \in ReadSizes(HeaderLimit(W) - cursor) :
               /\ pos' = pos + n /\ cursor' = cursor + n
               /\ UNCHANGED <<panicked, closed>>
    /\ UNCHANGED <<bundles, fs, garbled, out>>

(* Variant of the next definition as a plausible slip would write it: the  *)
(* body read filling the whole write region.                               *)
BodyLimitWhole(w, len) == w

\* The body read's bound: leave room for a packet of max size, but read at
\* least to the end of this bundle
BodyLimit(w, len) == Larger(w - MaxPacket, Base + len)

\* The header decoded, the loop reading while packet_len > cursor - BASE_LEN;
\* a bound past the end of the buffer panics the slice
BodyRead ==
    /\ Busy /\ cursor >= Base
    /\ \E len \in HeaderLens(pos - cursor) :
         /\ len > cursor - Base
         /\ IF BodyLimit(W, len) > W
               THEN panicked' = "slice out of range" /\ UNCHANGED <<pos, cursor, closed>>
            ELSE IF pos = Total
               THEN closed' = TRUE /\ UNCHANGED <<pos, cursor, panicked>>
            ELSE \E n \in ReadSizes(BodyLimit(W, len) - cursor) :
                    /\ pos' = pos + n /\ cursor' = cursor + n
                    /\ UNCHANGED <<panicked, closed>>
    /\ UNCHANGED <<bundles, fs, garbled, out>>

(* Variant of the next definition as a plausible slip would write it:      *)
(* finish_frame handing back no packet.                                    *)
FinishFrameNone(o, start) == o

\* The frame is returned
FinishFrame(o, start) == Append(o, start)

\* The whole bundle is in: commit it, then next_buffer() when the rest of
\* the buffer cannot hold a packet of max size (debug_assert_eq!(cursor, 0):
\* bytes read past the frame do not move with it), else finish_frame()
Deliver ==
    /\ Busy /\ cursor >= Base
    /\ \E len \in HeaderLens(pos - cursor) :
         /\ len <= cursor - Base
         /\ LET fsNew == fs + Base + len
                rest  == cursor - (Base + len)
            IN /\ cursor' = rest
               /\ IF BufSize - fsNew < MaxPacket
                     THEN /\ fs' = 0
                          /\ garbled' = (garbled \/ rest > 0)
                     ELSE fs' = fsNew /\ UNCHANGED garbled
         /\ out' = IF garbled THEN FinishFrame(out, -1)
                   ELSE FinishFrame(out, pos - cursor)
    /\ UNCHANGED <<bundles, pos, closed, panicked>>

\* receive() has returned its error or panicked: the rx task has ended
Ended ==
    /\ ~Busy
    /\ UNCHANGED vars

Next == HeaderRead \/ BodyRead \/ Deliver \/ Ended

\* The rx task is polled whenever its socket has bytes, and the peer's
\* bytes all arrive
Fairness == WF_vars(HeaderRead \/ BodyRead \/ Deliver)

Spec == Init /\ [][Next]_vars /\ Fairness

-----------------------------------------------------------------------------
(* Properties                                                               *)

TypeOK ==
    /\ bundles \in [1..NBundles -> Lens]
    /\ pos \in 0..Total /\ fs \in 0..BufSize /\ cursor \in 0..BufSize
    /\ garbled \in BOOLEAN /\ closed \in BOOLEAN
    /\ out \in Seq(Int) /\ Len(out) <= NBundles
    /\ panicked \in {"none", "usize underflow", "debug_assert", "slice out of range"}

\* receive() never panics on bundles within max_packet_size, and each call
\* returns exactly the next bundle the peer wrote, however the stream is
\* split into reads and frames into buffers.
FramesExact ==
    /\ panicked = "none"
    /\ \A i \in 1..Len(out) : out[i] = Offset(i)

\* Every bundle the peer writes is returned before receive() reports the
\* closed socket.
AllReceived == <>(closed /\ Len(out) = NBundles)

=============================================================================
