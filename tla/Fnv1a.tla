------------------------------- MODULE Fnv1a --------------------------------
(***************************************************************************)
(* The hash of kv_engine_shard_for_key: 32-bit FNV-1a over the bytes of    *)
(* the key.  A word is a pair of halves of 16 bits, so that every product  *)
(* fits TLC's integers; the prime 16777619 is 2^24 + 403.                  *)
(***************************************************************************)
EXTENDS Integers, Sequences
LOCAL INSTANCE Bitwise
LOCAL INSTANCE SequencesExt

Half == 65536

OffsetBasis == [hi |-> 33052, lo |-> 40389]

\* hash ^= byte
XorByte(w, byte) == [w EXCEPT !.lo = @ ^^ byte]

\* hash *= 16777619, modulo 2^32
TimesPrime(w) ==
    [hi |-> (w.hi * 403 + (w.lo * 403) \div Half + (w.lo % 256) * 256) % Half,
     lo |-> (w.lo * 403) % Half]

Hash32(bytes) ==
    FoldLeft(LAMBDA w, byte : TimesPrime(XorByte(w, byte)), OffsetBasis, bytes)

\* Published values of the function for "", "a" and "foobar".
ASSUME FnvVectors ==
    /\ Hash32(<<>>) = [hi |-> 33052, lo |-> 40389]
    /\ Hash32(<<97>>) = [hi |-> 58380, lo |-> 10540]
    /\ Hash32(<<102, 111, 111, 98, 97, 114>>) = [hi |-> 49052, lo |-> 63848]
=============================================================================
