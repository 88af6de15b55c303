------------------------------- MODULE MCFib -------------------------------
(* The parts of fib-quant, and gpu-backend, each explored on its own while *)
(* the others stay as they start.                                          *)
(* - FibCodec: vectors of four coordinates in blocks of two; three         *)
(*   codewords, so that an index of two bits can be out of range and one   *)
(*   codeword is left over when they are taken in pairs; two seeds, two    *)
(*   codebooks of one profile, and profiles that fail.  Directions have    *)
(*   length 2.                                                             *)
(* - FibLloyd: four samples, repeated ones and equal distances among them, *)
(*   codebooks of three codewords with one or two cells that get no sample *)
(* - FibKv: two heads and one layer, or two layers and one head, with      *)
(*   three tokens in pages of two, so that the last page is shorter; a     *)
(*   zero vector; every axis and both fallbacks; shapes, profiles and      *)
(*   tensors that are refused.                                             *)
(* - GpuBackend: a warp of four codewords; lookups for the device, one     *)
(*   with a tie, too few, of another size, of a wrong length.              *)
EXTENDS FibCodec, FibLloyd, FibKv, GpuBackend

CONSTANT Parts  \* what to explore

VARIABLE part   \* what this behaviour explores

-----------------------------------------------------------------------------
Profile(k, n, seed) ==
    [dim |-> 4, k |-> k, n |-> n, bits |-> IndexBits(n), seed |-> seed,
     format |-> "Fp16Paper", source |-> "SphericalBeta", methods |-> Methods(2),
     restarts |-> 4, iterations |-> 25, samples |-> 256]

Words == << <<1, 1>>, <<-1, -1>>, <<2, 0>> >>

MCQuantizers ==
    {[profile |-> Profile(2, 3, 1), words |-> Words],
     [profile |-> Profile(2, 3, 2), words |-> Words],
     [profile |-> Profile(2, 3, 1), words |-> << <<1, -1>>, <<0, 0>>, <<2, 0>> >>],
     [profile |-> Profile(2, 4, 1), words |-> Append(Words, <<0, -2>>)],
     [profile |-> Profile(4, 3, 1), words |-> Words]}

MCOrthogonal(dim, seed) ==
    IF seed = 1
    THEN << <<0, 1, 0, 0>>, <<0, 0, 1, 0>>, <<0, 0, 0, -1>>, <<1, 0, 0, 0>> >>
    ELSE << <<1, 0, 0, 0>>, <<0, 0, 0, 1>>, <<0, 1, 0, 0>>, <<0, 0, -1, 0>> >>

MCHadamardSigns(seed) == << 1, -1, IF seed = 1 THEN -1 ELSE 1, 1 >>

MCVectors ==
    {<<2, 0, 0, 0>>, <<3, -3, 3, 3>>, <<0, 0, -4, 0>>,
     <<0, 0, 0, 0>>, <<8, 0, 0, 0>>, <<2, 0, 0>>, <<NaN, 1, 1, 1>>}
-----------------------------------------------------------------------------
MCInitials == {<<0, 0, 0>>, <<-12, 12, 300>>, <<-24, 0, 12>>}
MCSamples == {xs \in [1 .. 4 -> {-24, 0, 12, 24, 48}] : \A i \in 1 .. 3 : xs[i] <= xs[i + 1]}
-----------------------------------------------------------------------------
Shape(role, kind, layers, heads) ==
    [role |-> role, kind |-> kind, batch |-> 1, layers |-> layers, heads |-> heads,
     queries |-> 2, tokens |-> 3, dim |-> 4,
     rope |-> IF role = "Key" THEN "PostRope" ELSE "NotApplicable"]

MCShapes ==
    {Shape("Key", "Mha", 1, 2), Shape("Value", "Gqa", 2, 1), Shape("Value", "Mha", 2, 1)}

Fib == [dim |-> 4, k |-> 2, seed |-> 1, book |-> "book"]

None == [first |-> 0, last |-> 0, layers |-> {}, heads |-> {}]
Ends == [first |-> 1, last |-> 1, layers |-> {}, heads |-> {}]
Second(s) ==
    [first |-> 0, last |-> 2, layers |-> {1} \cap 0 .. s.layers - 1,
     heads |-> {1} \cap 0 .. s.heads - 1]

Of(s, axis, protected, mode, tokens) ==
    [shape |-> s, role |-> s.role, fib |-> Fib, fibDigest |-> Fib, rotation |-> <<4, 1>>,
     codebook |-> "book", axis |-> axis, protected |-> protected, mode |-> mode,
     geometry |-> [tokens |-> tokens, vectors |-> 1, dim |-> 4, raw |-> 16, reserved |-> 8]]

MCKvProfiles(s) ==
    {Of(s, "PerToken", None, "KeepRaw", 2), Of(s, "PerToken", Ends, "FailClosed", 2),
     Of(s, "PerToken", Second(s), "KeepRaw", 1), Of(s, "RoleAware", Ends, "KeepRaw", 3),
     Of(s, "PerToken", None, "KeepRaw", 4),
     [Of(s, "PerToken", None, "KeepRaw", 2) EXCEPT !.codebook = "other"]}

MCKvPolicies ==
    {[strategy |-> st, protected |-> p, calibration |-> c, fallback |-> TRUE] :
        st \in {"RoleAwareBaseline", "PerToken", "Raw"}, p \in {None, Ends}, c \in BOOLEAN}

MCTensors(n) ==
    {[i \in 1 .. n |-> IF i = z THEN 0 ELSE i] : z \in {0, 2}}
        \cup {[i \in 1 .. n |-> NonFinite], [i \in 1 .. n - 1 |-> i]}
-----------------------------------------------------------------------------
Call(n, d, words, blocks) ==
    [n |-> n, d |-> d, k |-> 2, words |-> words, blocks |-> blocks,
     finiteWords |-> TRUE]

Compass == << <<5, 5>>, <<1, 0>>, <<0, 1>>, <<-1, 0>> >>

MCLookups ==
    LET batch == Call(2, 2, Compass, << <<2, 0>>, <<4, 4>> >>) IN
    {batch, Call(2, 2, Compass, << <<0, 0>>, <<-3, 0>> >>),
     Call(1, 2, Compass, << <<0, 2>> >>), Call(2, 2, Words, << <<0, 2>>, <<1, 1>> >>),
     [batch EXCEPT !.n = 3], [batch EXCEPT !.finiteWords = FALSE],
     [batch EXCEPT !.blocks[1] = Wild]}

MCScalars ==
    LET four == <<-1510, -453, 453, 1510>> IN
    {[block |-> <<3, 4, -3>>, norm |-> 5, centroids |-> four],
     [block |-> <<0, 0>>, norm |-> 0, centroids |-> four]}

-----------------------------------------------------------------------------
MCInit ==
    /\ FibInit /\ LloydInit /\ FibKvInit /\ GpuInit
    /\ part \in Parts

MCNext ==
    \/ part = "codec" /\ FibNext /\ UNCHANGED <<part, lloydVars, fibKvVars, gpuVars>>
    \/ part = "training" /\ LloydNext /\ UNCHANGED <<part, fibVars, fibKvVars, gpuVars>>
    \/ part = "kv" /\ FibKvNext /\ UNCHANGED <<part, fibVars, lloydVars, gpuVars>>
    \/ part = "gpu" /\ GpuNext /\ UNCHANGED <<part, fibVars, lloydVars, fibKvVars>>
=============================================================================
