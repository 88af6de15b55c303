------------------------------ MODULE MCTurbo ------------------------------
(* The parts of turbo-quant, each explored on its own while the others     *)
(* stay as they start.                                                     *)
(* - TurboWire: vectors of two and three pairs; three bits to an angle, so *)
(*   that angles straddle bytes and padding is left; nine signs; a seed, a *)
(*   mode and a rotation in which a reader can differ; and configurations  *)
(*   that fail.                                                            *)
(* - TurboScoring: a Hadamard rotation of two and of four values, and a    *)
(*   rotation of two by a matrix; two ids, so that an id is added twice;   *)
(*   vectors that lie on the directions of the code, on the one that wraps *)
(*   and between them.                                                     *)
(* - TurboKv: policies with and without compression and shadow; scores     *)
(*   close to each other and far enough apart for an exponential to        *)
(*   vanish; plans whose cap cuts, whose blocks do not divide the tokens,  *)
(*   whose top k does not fit the savings, that ask for the whole mass.    *)
(* - RadiusCodec: blocks with equal radii, with a zero, with a radius      *)
(*   halfway between two levels, of a range as wide as f32::EPSILON, and   *)
(*   narrower ones of two and of three different radii.                    *)
EXTENDS TurboWire, TurboScoring, TurboKv, RadiusCodec

VARIABLE part \* what this behaviour explores

-----------------------------------------------------------------------------
Config(dim, bits, seed, mode, rot) ==
    [dim |-> dim, bits |-> bits, proj |-> 9, seed |-> seed, mode |-> mode, rot |-> rot]

MCConfigs ==
    {Config(4, 4, 1, "PolarWithQjl", "Auto"),
     Config(4, 4, 2, "PolarWithQjl", "Auto"),
     Config(4, 3, 1, "PolarOnly", "Auto"),
     Config(4, 4, 1, "PolarWithQjl", "StoredQr"),
     Config(6, 4, 1, "PolarWithQjl", "Auto"),
     Config(6, 4, 1, "PolarWithQjl", "FastHadamard"),
     Config(5, 4, 1, "PolarWithQjl", "Auto")}

WireCode(q, radius, angle(_)) ==
    [dim |-> q.dim, bits |-> PolarBits(q),
     radii |-> [i \in 1 .. Pairs(q) |-> radius],
     angles |-> [i \in 1 .. Pairs(q) |-> angle(i)],
     signs |-> [i \in 1 .. Signs(q) |-> IF i % 3 = 0 THEN -1 ELSE 1]]

MCCodes(q) ==
    {WireCode(q, 0, LAMBDA i : i), WireCode(q, 5, LAMBDA i : 2 ^ PolarBits(q) - i)}

-----------------------------------------------------------------------------
Hadamard2 ==
    [dim |-> 2, norm |-> 2, signs |-> <<1, -1>>,
     rows |-> << <<1, 2>>, <<-2, 1>>, <<1, -1>> >>]

Matrix2 ==
    [dim |-> 2, norm |-> 25, matrix |-> << <<3, 4>>, <<-4, 3>> >>, rows |-> <<>>]

Hadamard4 ==
    [dim |-> 4, norm |-> 4, signs |-> <<1, -1, -1, 1>>, rows |-> << <<1, 2, -1, 0>> >>]

MCScorers == {Hadamard2, Matrix2, Hadamard4}

MCVectors(s) ==
    CASE s = Hadamard2 -> {<<1, 1>>, <<1, -1>>, <<-1, 1>>, <<7, 1>>, <<-1, 7>>}
      [] s = Matrix2 -> {<<3, 4>>, <<-3, -4>>, <<1, 0>>, <<0, 1>>}
      [] s = Hadamard4 -> {<<1, 0, 0, 1>>, <<-1, 1, 0, 0>>, <<0, 0, 1, 1>>}

MCLimits == {[top_k |-> k, oversample |-> o] : k \in 0 .. 1, o \in {0, 2}}

-----------------------------------------------------------------------------
Policy(key, value, shadow) == [key |-> key, value |-> value, shadow |-> shadow]

MCPolicies ==
    {Policy("Quantized", "Quantized", TRUE), Policy("Quantized", "Exact", FALSE),
     Policy("Exact", "Quantized", TRUE)}

MCTokenPairs == {<<0, 1>>, <<1, 1>>, <<4, 1>>, <<NaN, 1>>, <<0, NaN>>}

Plan(cap, top_k, saved, target, include) ==
    [anchors |-> 1, recent |-> 1, stride |-> 2, block_size |-> 2, max_blocks |-> 1,
     max_tokens |-> cap, top_k |-> top_k, saved |-> saved, target |-> target,
     include_top_k |-> include]

MCPlans ==
    {Plan(2, 2, <<1, 2>>, <<9, 10>>, TRUE), Plan(4, 2, <<0, 1>>, <<1, 1>>, FALSE),
     Plan(3, 1, <<1, 4>>, <<1, 2>>, TRUE), Plan(1, 2, <<1, 2>>, <<9, 10>>, FALSE)}

-----------------------------------------------------------------------------
MCRadii ==
    UNION {[1 .. n -> {Zero, 1, 2, 7}] : n \in 0 .. 3} \cup {<<1, NotARadius>>}

MCLogOfTiny == -9
MCLevels == [F32 |-> 1, BlockLinearU16 |-> 6, BlockLogU8 |-> 4]
MCEpsilon == [F32 |-> 1, BlockLinearU16 |-> 3, BlockLogU8 |-> 5]

-----------------------------------------------------------------------------
MCInit ==
    /\ WireInit /\ ScoringInit /\ KvInit /\ RadiusInit
    /\ part \in {"wire", "scoring", "kv", "radii"}

MCNext ==
    \/ part = "wire" /\ WireNext /\ UNCHANGED <<part, scoringVars, kvVars, block>>
    \/ part = "scoring" /\ ScoringNext /\ UNCHANGED <<part, wireVars, kvVars, block>>
    \/ part = "kv" /\ KvNext /\ UNCHANGED <<part, wireVars, scoringVars, block>>
    \/ part = "radii" /\ RadiusNext /\ UNCHANGED <<part, wireVars, scoringVars, kvVars>>
=============================================================================
