------------------------------ MODULE FibCodec ------------------------------
(***************************************************************************)
(* FibQuant (codec.rs, profile.rs, codebook.rs, rotation.rs, bitpack.rs)   *)
(* with the operations of gpu-backend it calls: a quantizer encodes        *)
(* vectors one by one or as a batch, the codes travel as the serialized    *)
(* FibCodeV1, as FB1 (one code) or as FB2 (a batch), and a quantizer,      *)
(* perhaps another one, decodes them.                                      *)
(*                                                                         *)
(* A vector is its norm, a positive integer, times a direction with        *)
(* integer coordinates of length Unit.  The rotation of a seed is an       *)
(* integer matrix, so arithmetic is exact; the rounding of f32 and of the  *)
(* norm is left out, its range is not.  A digest is what it is taken of.   *)
(*                                                                         *)
(* A definition whose name starts with Wrong is a mistake the definition   *)
(* after it could have had.                                                *)
(***************************************************************************)
EXTENDS Codewords, SequencesExt

CONSTANTS
    Quantizers,     \* profiles with their codewords
    Vectors,        \* what callers encode
    MaxVectors,     \* vectors in a batch
    Orthogonal(_, _),   \* the matrix StoredRotation::new makes of a seed
    HadamardSigns(_),   \* the signs generate_signs makes of a seed
    Unit,           \* the length of a direction
    MaxNorm,        \* the largest norm f16 represents
    NaN,            \* a coordinate that is not finite
    SmallBatch, GpuMinBatch, GpuMinDim, \* 4, 16 and 64 in the code
    Gpus            \* whether a CUDA device is ready

(* No quantizer is the mark for none; codewords have integer coordinates.  *)
ASSUME QuantizerAssumption ==
    /\ <<>> \notin Quantizers
    /\ \A q \in Quantizers : q.words \in Seq(Seq(Int))

ASSUME NormAssumption == MaxNorm \in Nat

VARIABLES
    quantizer,  \* the quantizer that encoded, <<>> for none
    inputs,     \* the vectors it was given
    codes,      \* the codes it made of them
    wire,       \* their bytes, <<>> for none
    decoded     \* what the last reader made of the codes or of the bytes

fibVars == <<quantizer, inputs, codes, wire, decoded>>

-----------------------------------------------------------------------------
(* Profiles and quantizers.                                                *)

IndexBits(n) == CHOOSE b \in 1 .. 20 : n <= 2 ^ b /\ n > 2 ^ (b - 1)

Methods(k) ==
    CASE k = 2 -> <<"K2ClosedForm", "FibonacciSpiral">>
      [] k = 3 -> <<"BetaQuantile", "FibonacciSphere">>
      [] OTHER -> <<"BetaQuantile", "RobertsKronecker">>

MaxAmbientDim == 16384
MaxBlockDim == 256
MaxCodebookSize == 1048576
MaxRotationValues == 16777216
MaxCodebookValues == 67108864
MaxTrainingSamples == 10000000
MaxLloydRestarts == 1024
MaxLloydIterations == 100000

(* FibQuantProfileV1::validate.                                            *)
ValidProfile(p) ==
    /\ p.dim \in 1 .. MaxAmbientDim
    /\ p.k \in 1 .. MaxBlockDim /\ p.k < p.dim /\ p.dim % p.k = 0
    /\ p.n \in 2 .. MaxCodebookSize
    /\ p.dim * p.dim <= MaxRotationValues /\ p.n * p.k <= MaxCodebookValues
    /\ p.format = "Fp16Paper" /\ p.source = "SphericalBeta"
    /\ p.bits = IndexBits(p.n)
    /\ p.methods = Methods(p.k)
    /\ p.restarts \in 1 .. MaxLloydRestarts /\ p.iterations \in 1 .. MaxLloydIterations
    /\ p.samples \in p.n .. MaxTrainingSamples

(* FibCodebookV1::validate, but for the digests a codebook carries of its  *)
(* own contents.                                                           *)
ValidQuantizer(q) ==
    /\ ValidProfile(q.profile)
    /\ Len(q.words) = q.profile.n
    /\ \A c \in DOMAIN q.words : Len(q.words[c]) = q.profile.k

Blocks(p) == p.dim \div p.k
CodebookDigest(q) == q
RotationDigest(p) == <<p.dim, p.seed>>

-----------------------------------------------------------------------------
(* Rotations.                                                              *)

Coordinates(n, f(_)) == [i \in 1 .. n |-> f(i)]

Rotate(p, x) ==
    LET m == Orthogonal(p.dim, p.seed) IN
    Coordinates(p.dim, LAMBDA row : SumOf(p.dim, LAMBDA c : m[row][c] * x[c]))

(* Mistake: the matrix is not transposed. *)
WrongRotateBack(p, y) ==
    LET m == Orthogonal(p.dim, p.seed) IN
    Coordinates(p.dim, LAMBDA c : SumOf(p.dim, LAMBDA row : m[c][row] * y[row]))

RotateBack(p, y) ==
    LET m == Orthogonal(p.dim, p.seed) IN
    Coordinates(p.dim, LAMBDA c : SumOf(p.dim, LAMBDA row : m[row][c] * y[row]))

(* The matrix is the Q of a QR decomposition (rotation.rs): its rows are of *)
(* length 1 and at right angles.                                           *)
ASSUME RotationAssumption ==
    \A q \in Quantizers : ValidQuantizer(q) =>
        LET d == q.profile.dim  m == Orthogonal(d, q.profile.seed) IN
        /\ m \in [1 .. d -> [1 .. d -> Int]]
        /\ \A i, j \in 1 .. d :
               SumOf(d, LAMBDA c : m[i][c] * m[j][c]) = IF i = j THEN 1 ELSE 0

(* hadamard_batch_cpu: the transform of the vector padded to a power of 2, *)
(* signs, the scale, and the first coordinates of it.                      *)
Butterfly(v, step) ==
    [i \in DOMAIN v |->
        IF ((i - 1) \div step) % 2 = 0 THEN v[i] + v[i + step] ELSE v[i - step] - v[i]]

Hadamard(p, x) ==
    LET size == CHOOSE n \in {2 ^ e : e \in 0 .. 10} : n >= p.dim /\ n < 2 * p.dim
        padded == [i \in 1 .. size |-> IF i <= p.dim THEN x[i] ELSE 0]
        steps == SelectSeq([e \in 1 .. 10 |-> 2 ^ (e - 1)], LAMBDA s : s < size)
        v == FoldLeft(Butterfly, padded, steps)
        root == CHOOSE r \in 1 .. size : r * r = size
    IN  Coordinates(p.dim, LAMBDA i : (v[i] * HadamardSigns(p.seed)[i]) \div root)

-----------------------------------------------------------------------------
(* Indices, which start at 0.                                              *)

BlockOf(v, b, k) == SubSeq(v, (b - 1) * k + 1, b * k)

Indices(q, v, near(_, _, _)) ==
    [b \in 1 .. Blocks(q.profile) |-> near(BlockOf(v, b, q.profile.k), q.words, q.profile.k)]

(* codebook_lookup_batch outside the contract of its CUDA kernel, which is *)
(* in GpuBackend.                                                          *)
CodebookLookup(block, words, k) == NearestScalar(block, words)

-----------------------------------------------------------------------------
(* Encoding.                                                               *)

Failed == [ok |-> FALSE, value |-> <<>>]
Succeeded(v) == [ok |-> TRUE, value |-> v]

(* The results of every element, or the failure of one. *)
Collected(results) ==
    IF \A i \in DOMAIN results : results[i].ok
    THEN Succeeded([i \in DOMAIN results |-> results[i].value]) ELSE Failed

SquaredNorm(x) == SumOf(Len(x), LAMBDA i : x[i] * x[i])
NormOf(x) == CHOOSE n \in 0 .. 2 * MaxNorm : n * n * Unit * Unit = SquaredNorm(x)

(* The checks and the norm that encode and encode_batch begin with. *)
Encodable(p, x) ==
    /\ Len(x) = p.dim
    /\ \A i \in DOMAIN x : x[i] # NaN
    /\ NormOf(x) # 0

Direction(x) == [i \in DOMAIN x |-> x[i] \div NormOf(x)]

(* Vectors have integer coordinates, and so have their directions.         *)
ASSUME VectorAssumption ==
    \A x \in Vectors : (\A i \in DOMAIN x : x[i] # NaN) =>
        /\ x \in Seq(Int)
        /\ NormOf(x) # 0 => \A i \in DOMAIN x : x[i] % NormOf(x) = 0

(* No codeword is as far from a block as the loops take for infinitely far.*)
ASSUME DistanceAssumption ==
    \A q \in Quantizers, x \in Vectors :
        (ValidQuantizer(q) /\ Encodable(q.profile, x)) =>
            \A b \in 1 .. Blocks(q.profile), c \in DOMAIN q.words :
                LET v == Rotate(q.profile, Direction(x)) IN
                SquaredDistance(BlockOf(v, b, q.profile.k), q.words[c]) < Infinity

(* encode_norm: two bytes, low byte first. *)
NormBytes(n) == <<n % 256, n \div 256>>

NormEncodes(n) == n \in 1 .. MaxNorm

(* pack_indices. *)
Packed(indices, bits) ==
    IF bits \in 1 .. 32 /\ \A i \in DOMAIN indices : indices[i] < 2 ^ bits
    THEN Succeeded(PackIndices(indices, bits)) ELSE Failed

(* A code for a vector of norm n whose rotated direction has indices.  Its *)
(* digests are those of the profile, the codebook and the stored rotation. *)
CodeFor(q, n, indices) ==
    LET packed == Packed(indices, q.profile.bits) IN
    IF NormEncodes(n) /\ packed.ok
    THEN Succeeded([profile |-> q.profile, codebook |-> CodebookDigest(q),
                    rotation |-> RotationDigest(q.profile),
                    dim |-> q.profile.dim, k |-> q.profile.k,
                    format |-> q.profile.format, norm |-> NormBytes(n),
                    bits |-> q.profile.bits, blocks |-> Blocks(q.profile),
                    indices |-> packed.value])
    ELSE Failed

Encoded(q, x) ==
    IF Encodable(q.profile, x)
    THEN CodeFor(q, NormOf(x), Indices(q, Rotate(q.profile, Direction(x)), Nearest))
    ELSE Failed

OnDevice(n, p, gpu) == gpu /\ n >= GpuMinBatch /\ p.dim >= GpuMinDim

(* The indices of a vector in a batch of n, with the features gpu and      *)
(* gpu_codebook_lookup: on a device the batch is rotated by hadamard_batch.*)
BatchIndices(q, n, gpu, x) ==
    IF OnDevice(n, q.profile, gpu)
    THEN Indices(q, Hadamard(q.profile, Direction(x)), CodebookLookup)
    ELSE Indices(q, Rotate(q.profile, Direction(x)), Nearest)

(* encode_batch. *)
BatchEncoded(q, xs, gpu) ==
    LET code(x) == CodeFor(q, NormOf(x), BatchIndices(q, Len(xs), gpu, x))
    IN  IF Len(xs) < SmallBatch THEN Collected([i \in DOMAIN xs |-> Encoded(q, xs[i])])
        ELSE IF \E i \in DOMAIN xs : ~Encodable(q.profile, xs[i]) THEN Failed
        ELSE Collected([i \in DOMAIN xs |-> code(xs[i])])

-----------------------------------------------------------------------------
(* Decoding.                                                               *)

(* Mistake: the codebook of a code is not compared with the reader's. *)
WrongHeaderFits(code, q) ==
    /\ code.profile = q.profile
    /\ code.rotation \in {<<>>, RotationDigest(q.profile)}
    /\ code.dim = q.profile.dim /\ code.k = q.profile.k
    /\ code.blocks = Blocks(q.profile) /\ code.bits = q.profile.bits
    /\ code.format = q.profile.format

(* validate_code_header: the empty digests of FB1 and FB2 are not compared *)
HeaderFits(code, q) ==
    /\ code.profile = q.profile
    /\ code.codebook \in {<<>>, CodebookDigest(q)}
    /\ code.rotation \in {<<>>, RotationDigest(q.profile)}
    /\ code.dim = q.profile.dim /\ code.k = q.profile.k
    /\ code.blocks = Blocks(q.profile) /\ code.bits = q.profile.bits
    /\ code.format = q.profile.format

(* unpack_indices. *)
Unpacked(bytes, count, bits) ==
    IF /\ bits \in 1 .. 32
       /\ Len(bytes) = Ceil8(count * bits)
       /\ PaddingZero(bytes, count * bits)
    THEN Succeeded(UnpackIndices(bytes, count, bits)) ELSE Failed

(* decode_norm. *)
NormDecoded(bytes) ==
    IF Len(bytes) = 2 /\ bytes[1] + 256 * bytes[2] \in 1 .. MaxNorm
    THEN Succeeded(bytes[1] + 256 * bytes[2]) ELSE Failed

Decode(q, code) ==
    LET p == q.profile
        unpacked == Unpacked(code.indices, Blocks(p), p.bits)
        norm == NormDecoded(code.norm)
        word(b) == q.words[unpacked.value[b] + 1]
        rotated == FlattenSeq([b \in 1 .. Blocks(p) |-> word(b)])
    IN  IF /\ HeaderFits(code, q) /\ unpacked.ok
           /\ \A b \in DOMAIN unpacked.value : unpacked.value[b] < p.n
           /\ norm.ok
        THEN LET x == RotateBack(p, rotated) IN
             Succeeded([i \in DOMAIN x |-> x[i] * norm.value])
        ELSE Failed

(* decode_batch_fast: codewords are slices of one flat array. *)
FastDecode(q, code) ==
    LET p == q.profile
        flat == FlattenSeq(q.words)
        unpacked == Unpacked(code.indices, Blocks(p), p.bits)
        norm == NormDecoded(code.norm)
        base(b) == unpacked.value[b] * p.k
        rotated == FlattenSeq([b \in 1 .. Blocks(p) |-> SubSeq(flat, base(b) + 1, base(b) + p.k)])
    IN  IF /\ HeaderFits(code, q) /\ unpacked.ok
           /\ \A b \in DOMAIN unpacked.value : unpacked.value[b] < p.n
           /\ norm.ok
        THEN LET x == RotateBack(p, rotated) IN
             Succeeded([i \in DOMAIN x |-> x[i] * norm.value])
        ELSE Failed

DecodeBatch(q, cs, one(_, _)) == Collected([i \in DOMAIN cs |-> one(q, cs[i])])

(* encode_with_receipt: the error it measures, squared and not averaged. *)
Receipt(q, x) ==
    LET code == Encoded(q, x) IN
    IF code.ok /\ Decode(q, code.value).ok
    THEN LET y == Decode(q, code.value).value IN
         Succeeded([codebook |-> code.value.codebook, code |-> code.value, source |-> x,
                    error |-> SquaredDistance(x, y)])
    ELSE Failed

-----------------------------------------------------------------------------
(* Wire bytes: the fields of the header, the bytes after it, their number. *)

(* to_compact_bytes: FB1, 11 bytes and the norm and the indices. *)
Compact(code) ==
    [magic |-> "FB1", body |-> code.norm \o code.indices,
     head |-> [version |-> 1, bits |-> code.bits, blocks |-> code.blocks,
               norm |-> Len(code.norm)]]

(* What a wire format does not carry is taken from the reader's profile.   *)
Rebuilt(p, norm, indices, bits, blocks) ==
    [profile |-> p, codebook |-> <<>>, rotation |-> <<>>, dim |-> p.dim, k |-> p.k,
     format |-> p.format, norm |-> norm, bits |-> bits, blocks |-> blocks,
     indices |-> indices]

(* from_compact_bytes. *)
FromCompact(w, p) ==
    IF /\ w.magic = "FB1" /\ w.head.version = 1
       /\ Len(w.body) >= w.head.norm
       /\ Len(w.body) - w.head.norm = Ceil8(w.head.blocks * w.head.bits)
    THEN Succeeded(<<Rebuilt(p, SubSeq(w.body, 1, w.head.norm),
                             SubSeq(w.body, w.head.norm + 1, Len(w.body)),
                             w.head.bits, w.head.blocks)>>)
    ELSE Failed

(* FibCodeV1::encode_batch: FB2, one header of 19 bytes.  The codes agree  *)
(* with the first and its numbers with the profile; whose they are is not  *)
(* compared.                                                               *)
Batched(cs, p) ==
    IF /\ cs # <<>>
       /\ \A i \in DOMAIN cs :
              /\ cs[i].bits = cs[1].bits /\ cs[i].blocks = cs[1].blocks
              /\ cs[i].format = cs[1].format
              /\ Len(cs[i].norm) = Len(cs[1].norm)
              /\ Len(cs[i].indices) = Len(cs[1].indices)
       /\ p.bits = cs[1].bits /\ Blocks(p) = cs[1].blocks
    THEN Succeeded(
            [magic |-> "FB2",
             body |-> FlattenSeq([i \in DOMAIN cs |-> cs[i].norm \o cs[i].indices]),
             head |-> [version |-> 1, bits |-> cs[1].bits, blocks |-> cs[1].blocks,
                       format |-> cs[1].format, n |-> Len(cs),
                       norm |-> Len(cs[1].norm), indices |-> Len(cs[1].indices)]])
    ELSE Failed

(* What of a slice is inside the buffer; the code panics outside of it.    *)
Slice(s, first, last) == SubSeq(s, first, IF last > Len(s) THEN Len(s) ELSE last)

(* Mistake: the buffer is not measured before blocks are cut out of it, so *)
(* that a block may be shorter than the header says.                       *)
WrongFromBatch(w, p) ==
    LET size == w.head.norm + w.head.indices
        norm(i) == Slice(w.body, (i - 1) * size + 1, (i - 1) * size + w.head.norm)
        indices(i) == Slice(w.body, (i - 1) * size + w.head.norm + 1, i * size)
    IN  IF /\ w.magic = "FB2" /\ w.head.version = 1
           /\ w.head.bits = p.bits /\ w.head.blocks = Blocks(p)
           /\ w.head.format = p.format
           /\ w.head.indices = Ceil8(w.head.blocks * w.head.bits)
        THEN Succeeded([i \in 1 .. w.head.n |->
                            Rebuilt(p, norm(i), indices(i), w.head.bits, w.head.blocks)])
        ELSE Failed

(* FibCodeV1::decode_batch.  Bytes after the last block are not looked at. *)
FromBatch(w, p) ==
    LET size == w.head.norm + w.head.indices
        norm(i) == Slice(w.body, (i - 1) * size + 1, (i - 1) * size + w.head.norm)
        indices(i) == Slice(w.body, (i - 1) * size + w.head.norm + 1, i * size)
    IN  IF /\ w.magic = "FB2" /\ w.head.version = 1
           /\ w.head.bits = p.bits /\ w.head.blocks = Blocks(p)
           /\ w.head.format = p.format
           /\ Len(w.body) >= w.head.n * size
           /\ w.head.indices = Ceil8(w.head.blocks * w.head.bits)
        THEN Succeeded([i \in 1 .. w.head.n |->
                            Rebuilt(p, norm(i), indices(i), w.head.bits, w.head.blocks)])
        ELSE Failed

(* The slices that building the codes takes are inside the buffer. *)
InBounds(w, read) ==
    read.ok => \A i \in DOMAIN read.value :
        /\ Len(read.value[i].norm) = w.head.norm
        /\ Len(read.value[i].indices) = Ceil8(w.head.blocks * w.head.bits)

ReadWire(w, p) == IF w.magic = "FB1" THEN FromCompact(w, p) ELSE FromBatch(w, p)

-----------------------------------------------------------------------------
ReadBy(q, result) == [ok |-> result.ok, value |-> result.value, reader |-> q]
NotRead == ReadBy(<<>>, Failed)

FibInit ==
    /\ quantizer = <<>> /\ inputs = <<>> /\ codes = <<>> /\ wire = <<>>
    /\ decoded = NotRead

EncodeBatch(q, xs, gpu) ==
    /\ quantizer = <<>>
    /\ ValidQuantizer(q)
    /\ BatchEncoded(q, xs, gpu).ok
    /\ quantizer' = q /\ inputs' = xs
    /\ codes' = BatchEncoded(q, xs, gpu).value
    /\ UNCHANGED <<wire, decoded>>

ToCompact ==
    /\ codes # <<>> /\ wire = <<>>
    /\ wire' = Compact(codes[1])
    /\ UNCHANGED <<quantizer, inputs, codes, decoded>>

ToBatch ==
    /\ codes # <<>> /\ wire = <<>>
    /\ Batched(codes, quantizer.profile).ok
    /\ wire' = Batched(codes, quantizer.profile).value
    /\ UNCHANGED <<quantizer, inputs, codes, decoded>>

AsWritten ==
    wire \in {Compact(codes[1]), Batched(codes, quantizer.profile).value}

(* Bytes are lost or added at the end, or a number of the header changes. *)
Cut ==
    /\ wire # <<>> /\ AsWritten
    /\ wire' = [wire EXCEPT !.body = Front(@)]
    /\ UNCHANGED <<quantizer, inputs, codes, decoded>>

Extend ==
    /\ wire # <<>> /\ AsWritten
    /\ wire' = [wire EXCEPT !.body = Append(@, 0)]
    /\ UNCHANGED <<quantizer, inputs, codes, decoded>>

DamageHeader(f, v) ==
    /\ wire # <<>> /\ AsWritten
    /\ f # "format" /\ v >= 0
    /\ wire' = [wire EXCEPT !.head[f] = v]
    /\ UNCHANGED <<quantizer, inputs, codes, decoded>>

(* The codes are read as they are, or out of the bytes. *)
ReadCodes(q) ==
    /\ codes # <<>> /\ wire = <<>> /\ ValidQuantizer(q)
    /\ decoded' = ReadBy(q, DecodeBatch(q, codes, Decode))
    /\ UNCHANGED <<quantizer, inputs, codes, wire>>

ReadBytes(q) ==
    /\ wire # <<>> /\ ValidQuantizer(q)
    /\ LET read == ReadWire(wire, q.profile) IN
           decoded' = ReadBy(q, IF read.ok THEN DecodeBatch(q, read.value, FastDecode)
                                ELSE Failed)
    /\ UNCHANGED <<quantizer, inputs, codes, wire>>

(* The codes and the bytes are dropped. *)
DropCodes ==
    /\ codes # <<>>
    /\ quantizer' = <<>> /\ inputs' = <<>> /\ codes' = <<>> /\ wire' = <<>>
    /\ decoded' = NotRead

FibNext ==
    \/ \E q \in Quantizers, gpu \in Gpus : \E n \in 1 .. MaxVectors :
           \E xs \in [1 .. n -> Vectors] : EncodeBatch(q, xs, gpu)
    \/ ToCompact \/ ToBatch
    \/ Cut \/ Extend
    \/ wire # <<>> /\ \E f \in DOMAIN wire.head \ {"format"} :
           \E v \in {wire.head[f] - 1, wire.head[f] + 1} : DamageHeader(f, v)
    \/ \E q \in Quantizers : ReadCodes(q) \/ ReadBytes(q)
    \/ DropCodes

FibSpec == FibInit /\ [][FibNext]_fibVars

-----------------------------------------------------------------------------
(* Properties.                                                             *)

(* No choice of indices comes nearer to a vector than the ones encode      *)
(* makes, measured where decode leads: the rotation is undone, the norm    *)
(* applied and every block is at its nearest codeword.                     *)
EncodesToNearest ==
    (codes # <<>> /\ wire = <<>> /\ decoded = NotRead) =>
        \A x \in Range(inputs) :
            \A choice \in [1 .. Blocks(quantizer.profile) -> 0 .. quantizer.profile.n - 1] :
                LET other == CodeFor(quantizer, NormOf(x), choice).value IN
                Receipt(quantizer, x).value.error
                    <= SquaredDistance(x, Decode(quantizer, other).value)

(* A serialized code is read only by a quantizer with the profile, the     *)
(* codebook and the rotation it was encoded with.                          *)
CodeIsBound ==
    (decoded.ok /\ wire = <<>>) => decoded.reader = quantizer

(* Whatever one mistake happened to the bytes, they give the codes' own    *)
(* vectors, the first of them, or an error under the profile they were     *)
(* written with, and no read leaves the buffer.                            *)
WireDecodesOrFails ==
    wire # <<>> =>
        /\ InBounds(wire, ReadWire(wire, quantizer.profile))
        /\ (decoded.ok /\ decoded.reader = quantizer) =>
               IsPrefix(decoded.value, DecodeBatch(quantizer, codes, Decode).value)
        /\ (AsWritten /\ wire.magic = "FB2" /\ decoded.reader = quantizer) =>
               decoded.value = DecodeBatch(quantizer, codes, Decode).value

(* A batch has the codes its vectors have one by one (codec.rs:586).  On a *)
(* device encode_batch rotates by a Hadamard transform, decode by the      *)
(* stored matrix.                                                          *)
BatchEncodesLikeSingle ==
    codes # <<>> => \A i \in DOMAIN inputs : codes[i] = Encoded(quantizer, inputs[i]).value
=============================================================================
