---------------------------- MODULE LittleEndian ----------------------------
(***************************************************************************)
(* mproto's fixed-width integers: u16, u32 and u64 are written least       *)
(* significant byte first; an Option<T> is a tag byte, 1 for Some, then    *)
(* T's bytes, with T's base length kept for None (mproto is not in the     *)
(* repository; this is the layout endpoint_proto.rs and the generated      *)
(* proto code rely on, whose BASE_LENs count 1 + T::BASE_LEN for it).      *)
(***************************************************************************)
EXTENDS Naturals, Sequences

\* The n bytes of v, least significant first
RECURSIVE LE(_, _)
LE(v, n) == IF n = 0 THEN <<>> ELSE <<v % 256>> \o LE(v \div 256, n - 1)

\* The value of the n bytes of s after its first off bytes
RECURSIVE FromLE(_, _, _)
FromLE(s, off, n) == IF n = 0 THEN 0 ELSE s[off + 1] + 256 * FromLE(s, off + 1, n - 1)

\* An Option of the n-byte value t, and its tag and value after off bytes
OptionSome(t) == <<1>> \o t
OptionNone(n) == <<0>> \o [i \in 1..n |-> 0]
OptionIsSome(s, off) == s[off + 1] = 1
OptionValue(s, off, n) == SubSeq(s, off + 2, off + 1 + n)

=============================================================================
