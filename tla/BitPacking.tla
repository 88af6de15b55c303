----------------------------- MODULE BitPacking -----------------------------
(***************************************************************************)
(* Fixed-width indices in little-endian bit order, as turbo-quant and      *)
(* fib-quant pack them: value i has its bits at i * bits and up, bit 0 of  *)
(* a byte first.                                                           *)
(***************************************************************************)
EXTENDS Integers, Sequences, FiniteSetsExt

Ceil8(n) == (n + 7) \div 8

Byte(bit(_), used, j) ==
    MapThenSumSet(LAMBDA b : IF 8 * j + b < used THEN bit(8 * j + b) * 2 ^ b ELSE 0,
                  0 .. 7)

PackIndices(values, bits) ==
    LET used == Len(values) * bits
        bit(k) == (values[(k \div bits) + 1] \div 2 ^ (k % bits)) % 2
    IN  [j \in 1 .. Ceil8(used) |-> Byte(bit, used, j - 1)]

BitOf(bytes, k) == (bytes[(k \div 8) + 1] \div 2 ^ (k % 8)) % 2

(* Mistake: the bits of a value are read from its other end. *)
WrongUnpackIndices(bytes, count, bits) ==
    [i \in 1 .. count |->
        MapThenSumSet(LAMBDA b : BitOf(bytes, (i - 1) * bits + b) * 2 ^ (bits - 1 - b),
                      0 .. bits - 1)]

UnpackIndices(bytes, count, bits) ==
    [i \in 1 .. count |->
        MapThenSumSet(LAMBDA b : BitOf(bytes, (i - 1) * bits + b) * 2 ^ b,
                      0 .. bits - 1)]

(* validate_padding_zero, which the length has been checked before. *)
PaddingZero(bytes, used) ==
    \A k \in used .. 8 * Len(bytes) - 1 : BitOf(bytes, k) = 0
=============================================================================
