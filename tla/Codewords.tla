----------------------------- MODULE Codewords ------------------------------
(***************************************************************************)
(* The lookups of gpu-backend: the index, from 0, of the codeword nearest  *)
(* to a block, by a loop over the codewords and by a loop over pairs of    *)
(* them (simd_nearest.rs).  Blocks and codewords are sequences of          *)
(* integers, so the rounding of f32 is left out.                           *)
(***************************************************************************)
EXTENDS BitPacking, SequencesExt

CONSTANT LookupDim  \* the block dimension with a vector kernel, 4 in the code

SumOf(n, f(_)) == MapThenSumSet(f, 1 .. n)

SquaredDistance(u, v) == SumOf(Len(u), LAMBDA j : (u[j] - v[j]) * (u[j] - v[j]))

Infinity == 1000000
Farthest == [index |-> 0, dist |-> Infinity]

Nearer(best, index, dist) ==
    IF dist < best.dist THEN [index |-> index, dist |-> dist] ELSE best

(* nearest_codeword_f32_scalar, and a block of codebook_lookup_cpu. *)
NearestScalar(block, words) ==
    FoldLeftDomain(LAMBDA best, c : Nearer(best, c - 1, SquaredDistance(block, words[c])),
                   Farthest, words).index

(* nearest_codeword_f32_avx2_k4: two at a time, then the one left over. *)
NearestPairs(block, words) ==
    LET pair(best, i) ==
            Nearer(Nearer(best, 2 * i - 2, SquaredDistance(block, words[2 * i - 1])),
                   2 * i - 1, SquaredDistance(block, words[2 * i]))
        pairs == FoldLeft(pair, Farthest, [i \in 1 .. Len(words) \div 2 |-> i])
        n == Len(words)
    IN  IF n % 2 = 0 THEN pairs.index
        ELSE Nearer(pairs, n - 1, SquaredDistance(block, words[n])).index

Nearest(block, words, k) ==
    IF k = LookupDim THEN NearestPairs(block, words) ELSE NearestScalar(block, words)
=============================================================================
