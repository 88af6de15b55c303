------------------------------ MODULE TurboWire ------------------------------
(***************************************************************************)
(* The quantizers of turbo-quant and their wire formats (turbo.rs,         *)
(* polar.rs, qjl.rs, wire.rs, bitpack.rs, radius.rs, packed.rs): one       *)
(* process encodes vectors under its quantizer, TQW1 for one vector or     *)
(* TQB1 for a batch, the bytes may be cut, extended or damaged in their    *)
(* header or padding, and another process reads them under a quantizer of  *)
(* its own.                                                                *)
(*                                                                         *)
(* Bytes are kept as the header's fields, the payload of each vector and   *)
(* the number of bytes; indices and signs are packed bit by bit.  Radii    *)
(* are values that a radius codec gives back (its loss is not modelled).   *)
(*                                                                         *)
(* A definition whose name starts with Wrong is a mistake the definition   *)
(* after it could have had.                                                *)
(***************************************************************************)
EXTENDS BitPacking, SequencesExt

CONSTANTS
    Configs,    \* arguments of TurboQuantizer::new_with_mode_and_rotation
    Codes(_),   \* the codes the vectors a caller has encode to, per quantizer
    RadiusCodecs,   \* the radius codecs callers write batches with
    MaxBatch    \* vectors in a batch

(* The numbers of a configuration are unsigned.  BlockLinearU16 is not     *)
(* wired through yet: no caller writes a batch with it.                    *)
ASSUME WireAssumption ==
    /\ Configs \subseteq
           [dim : Nat, bits : Nat, proj : Nat, seed : Nat,
            mode : {"PolarOnly", "PolarWithQjl"}, rot : {"Auto", "FastHadamard", "StoredQr"}]
    /\ RadiusCodecs \subseteq {"F32", "BlockLogU8"}
    /\ MaxBatch \in Nat

VARIABLES
    sender,     \* the quantizer that encoded the wire bytes, <<>> for none
    sent,       \* the codes it encoded
    wire,       \* the bytes on their way, <<>> for none
    got         \* what the last reader made of them

wireVars == <<sender, sent, wire, got>>

-----------------------------------------------------------------------------
(* Quantizers.                                                             *)

PowerOfTwo(n) == n \in {2 ^ k : k \in 0 .. 10}

(* RotationBackend::new. *)
Rotation(kind, dim) ==
    IF kind = "Auto"
    THEN IF PowerOfTwo(dim) THEN "FastHadamard" ELSE "StoredQr"
    ELSE kind

(* TurboQuantizer::new_with_mode_and_rotation. *)
ValidConfig(c) ==
    /\ c.dim > 0 /\ c.dim % 2 = 0
    /\ c.bits \in (IF c.mode = "PolarOnly" THEN 1 ELSE 2) .. 16
    /\ c.mode = "PolarWithQjl" => c.proj > 0
    /\ Rotation(c.rot, c.dim) = "FastHadamard" => PowerOfTwo(c.dim)

Quantizer(c) == [c EXCEPT !.rot = Rotation(@, c.dim)]

PolarBits(q) == IF q.mode = "PolarOnly" THEN q.bits ELSE q.bits - 1
Signs(q) == IF q.mode = "PolarOnly" THEN 0 ELSE q.proj
Pairs(q) == q.dim \div 2

(* TurboCode::validate_for, with the polar code's and the sketch's. *)
ValidCode(code, q) ==
    /\ code.dim = q.dim /\ code.bits = PolarBits(q)
    /\ Len(code.radii) = Pairs(q)
    /\ \A i \in DOMAIN code.radii : code.radii[i] >= 0
    /\ Len(code.angles) = Pairs(q)
    /\ \A i \in DOMAIN code.angles : code.angles[i] < 2 ^ PolarBits(q)
    /\ Len(code.signs) = Signs(q)
    /\ \A i \in DOMAIN code.signs : code.signs[i] \in {-1, 1}

CodeType ==
    [dim : Nat, bits : Nat, radii : Seq(Nat), angles : Seq(Nat), signs : Seq(Int)]

ASSUME CodeAssumption ==
    \A c \in Configs : ValidConfig(c) =>
        \A code \in Codes(Quantizer(c)) : code \in CodeType

-----------------------------------------------------------------------------
(* Payloads.                                                               *)

PackSigns(signs) == PackIndices([i \in DOMAIN signs |-> (signs[i] + 1) \div 2], 1)

UnpackSigns(bytes, count) == [i \in 1 .. count |-> 2 * BitOf(bytes, i - 1) - 1]

(* Bytes of n radii with the minimum and maximum of a block codec. *)
RadiiBytes(codec, n) ==
    CASE codec = "F32" -> 4 * n
      [] codec = "BlockLinearU16" -> 2 * n + 8
      [] codec = "BlockLogU8" -> n + 8

Payload(code) ==
    [radii |-> code.radii, angles |-> PackIndices(code.angles, code.bits),
     signs |-> PackSigns(code.signs)]

(* The bytes of one vector's payload under q. *)
PayloadBytes(q, codec) ==
    RadiiBytes(codec, Pairs(q)) + Ceil8(Pairs(q) * PolarBits(q)) + Ceil8(Signs(q))

(* unpack_indices and unpack_signs accept the payload. *)
Readable(p, q) ==
    /\ PaddingZero(p.angles, Pairs(q) * PolarBits(q))
    /\ PaddingZero(p.signs, Signs(q))

CodeOf(p, q) ==
    [dim |-> q.dim, bits |-> PolarBits(q), radii |-> p.radii,
     angles |-> UnpackIndices(p.angles, Pairs(q), PolarBits(q)),
     signs |-> UnpackSigns(p.signs, Signs(q))]

(* PackedTurboCode: from_turbo under any radius codec, and unpack. *)
Repacked(code, q) == CodeOf(Payload(code), q)

-----------------------------------------------------------------------------
(* Wire bytes.                                                             *)

RotationFlag(q) == IF q.rot = "FastHadamard" THEN 1 ELSE 2

(* encode: a header of 46 bytes and the payload. *)
Encoded(code, q) ==
    LET n == PayloadBytes(q, "F32") IN
    [magic |-> "TQW1", payloads |-> <<Payload(code)>>, len |-> 46 + n,
     head |-> [version |-> 1, rot |-> RotationFlag(q), variant |-> 1, reserved |-> 0,
               dim |-> q.dim, bits |-> PolarBits(q), proj |-> q.proj, seed |-> q.seed,
               blocks |-> Pairs(q), signs |-> Signs(q), plen |-> n]]

(* The flag of every codec but F32 is that of BlockLogU8. *)
RadiiFlag(codec) == IF codec = "F32" THEN 0 ELSE 1

(* encode_batch_with_radii: a header of 38 bytes and the payloads. *)
BatchEncoded(codes, q, codec) ==
    LET n == PayloadBytes(q, codec) IN
    [magic |-> "TQB1", payloads |-> [i \in DOMAIN codes |-> Payload(codes[i])],
     len |-> 38 + Len(codes) * n,
     head |-> [version |-> 1, rot |-> RotationFlag(q), variant |-> 2, reserved |-> 0,
               dim |-> q.dim, bits |-> PolarBits(q), proj |-> q.proj, seed |-> q.seed,
               radii |-> RadiiFlag(codec), n |-> Len(codes), vlen |-> n]]

(* Mistake: the seed of the header is not compared. *)
WrongProfileFits(h, q) ==
    /\ h.version = 1 /\ h.rot = RotationFlag(q)
    /\ h.dim = q.dim /\ h.bits = PolarBits(q) /\ h.proj = q.proj

(* What both decoders compare of the header with the reader's quantizer. *)
ProfileFits(h, q) ==
    /\ h.version = 1 /\ h.rot = RotationFlag(q)
    /\ h.dim = q.dim /\ h.bits = PolarBits(q) /\ h.proj = q.proj
    /\ h.seed = q.seed

Failed == [ok |-> FALSE, codes |-> <<>>]

Read(w, q) ==
    LET codes == [i \in DOMAIN w.payloads |-> CodeOf(w.payloads[i], q)]
    IN  IF /\ \A i \in DOMAIN w.payloads : Readable(w.payloads[i], q)
           /\ \A i \in DOMAIN codes : ValidCode(codes[i], q)
        THEN [ok |-> TRUE, codes |-> codes] ELSE Failed

(* decode.  What is longer or shorter than the payload is an error.  Only  *)
(* a buffer with one payload passes the checks of its length.              *)
Decoded(w, q) ==
    IF /\ w.magic = "TQW1" /\ w.len >= 46
       /\ w.head.variant = 1 /\ w.head.reserved = 0
       /\ ProfileFits(w.head, q)
       /\ w.head.blocks = Pairs(q) /\ w.head.signs = Signs(q)
       /\ w.head.plen = PayloadBytes(q, "F32")
       /\ w.len = 46 + w.head.plen
    THEN Read(w, q) ELSE Failed

(* decode_batch.  The reserved bytes of a batch are not looked at. *)
BatchDecoded(w, q) ==
    IF /\ w.magic = "TQB1" /\ w.len >= 38
       /\ w.head.variant = 2 /\ w.head.radii \in {0, 1}
       /\ ProfileFits(w.head, q)
       /\ w.head.vlen = PayloadBytes(q, IF w.head.radii = 0 THEN "F32" ELSE "BlockLogU8")
       /\ w.len = 38 + w.head.n * w.head.vlen
    THEN Read(w, q) ELSE Failed

-----------------------------------------------------------------------------
ReadBy(q, result) == [ok |-> result.ok, codes |-> result.codes, reader |-> q]
Nothing == ReadBy(<<>>, Failed)

WireInit ==
    /\ sender = <<>> /\ sent = <<>> /\ wire = <<>>
    /\ got = Nothing

Send(c, codes, w) ==
    /\ wire = <<>>
    /\ ValidConfig(c)
    /\ \A i \in DOMAIN codes : ValidCode(codes[i], Quantizer(c))
    /\ sender' = Quantizer(c) /\ sent' = codes
    /\ wire' = w
    /\ UNCHANGED got

EncodeOne(c, code) == Send(c, <<code>>, Encoded(code, Quantizer(c)))

EncodeBatch(c, codes, codec) ==
    /\ codes # <<>>
    /\ Send(c, codes, BatchEncoded(codes, Quantizer(c), codec))

(* Nothing has happened to the bytes yet.  One thing may, and bytes to     *)
(* which something did are read under the sender's quantizer: without a    *)
(* checksum, two mistakes can make another valid buffer.                   *)
AsWritten ==
    \/ wire = Encoded(sent[1], sender)
    \/ \E r \in RadiusCodecs : wire = BatchEncoded(sent, sender, r)

Intact == wire # <<>> /\ got = Nothing /\ AsWritten

(* Bytes are lost or added at the end. *)
Resize(n) ==
    /\ Intact
    /\ n >= 0 /\ n # wire.len
    /\ wire' = [wire EXCEPT !.len = n]
    /\ UNCHANGED <<sender, sent, got>>

(* A number of the header is one off. *)
DamageField(f, v) ==
    /\ Intact
    /\ f \in DOMAIN wire.head /\ v >= 0 /\ v # wire.head[f]
    /\ wire' = [wire EXCEPT !.head[f] = v]
    /\ UNCHANGED <<sender, sent, got>>

(* A bit of the first vector's padding is set. *)
DamagePadding ==
    /\ Intact
    /\ LET used == Pairs(sender) * PolarBits(sender) IN
           /\ used % 8 # 0
           /\ wire' = [wire EXCEPT !.payloads[1].angles[Ceil8(used)] = @ + 2 ^ (used % 8)]
    /\ UNCHANGED <<sender, sent, got>>

ReadOne(c) ==
    /\ wire # <<>> /\ ValidConfig(c)
    /\ AsWritten \/ Quantizer(c) = sender
    /\ got' = ReadBy(Quantizer(c), Decoded(wire, Quantizer(c)))
    /\ UNCHANGED <<sender, sent, wire>>

ReadBatch(c) ==
    /\ wire # <<>> /\ ValidConfig(c)
    /\ AsWritten \/ Quantizer(c) = sender
    /\ got' = ReadBy(Quantizer(c), BatchDecoded(wire, Quantizer(c)))
    /\ UNCHANGED <<sender, sent, wire>>

(* The buffer is dropped. *)
Drop ==
    /\ wire # <<>>
    /\ wire' = <<>> /\ sender' = <<>> /\ sent' = <<>> /\ got' = Nothing

WireNext ==
    \/ \E c \in Configs : \E code \in Codes(Quantizer(c)) : EncodeOne(c, code)
    \/ \E c \in Configs, codec \in RadiusCodecs :
           \E n \in 1 .. MaxBatch : \E codes \in [1 .. n -> Codes(Quantizer(c))] :
               EncodeBatch(c, codes, codec)
    \/ wire # <<>> /\ \E n \in {40, 44, 45, wire.len - 1, wire.len + 1} : Resize(n)
    \/ wire # <<>> /\ \E f \in DOMAIN wire.head :
           \E v \in {wire.head[f] - 1, wire.head[f] + 1} : DamageField(f, v)
    \/ DamagePadding
    \/ \E c \in Configs : ReadOne(c) \/ ReadBatch(c)
    \/ Drop

WireSpec == WireInit /\ [][WireNext]_wireVars

-----------------------------------------------------------------------------
(* Properties.                                                             *)

(* Whatever happened to the bytes on their way, or whatever quantizer they *)
(* are read under, the reader has an error or exactly the codes that were  *)
(* sent, and has them only under the sender's own quantizer, the split of  *)
(* its bits between polar code and sketch included.                        *)
DecodedIsSent ==
    got.ok => got.codes = sent /\ got.reader = sender

(* Bytes that arrive as they were written are read under the quantizer     *)
(* they were written with, F32 and BlockLogU8 radii alike, and a sidecar   *)
(* that is packed and unpacked is the code it was made from.               *)
OwnWireDecodes ==
    wire # <<>> =>
        /\ Repacked(sent[1], sender) = sent[1]
        /\ wire = Encoded(sent[1], sender) =>
               Decoded(wire, sender) = [ok |-> TRUE, codes |-> sent]
        /\ wire \in {BatchEncoded(sent, sender, r) : r \in {"F32", "BlockLogU8"}} =>
               BatchDecoded(wire, sender) = [ok |-> TRUE, codes |-> sent]
=============================================================================
