------------------------------- MODULE FibKv -------------------------------
(***************************************************************************)
(* The KV cache path of fib-quant (fib-quant/src/kv): a tensor of vectors, *)
(* one for every batch, layer, head and token, is encoded into pages of    *)
(* tokens, the pages are stored, lost, repeated, reordered or damaged, and *)
(* decoded again.                                                          *)
(*                                                                         *)
(* A vector is a number, 0 the zero vector, which the quantizer refuses;   *)
(* what the quantizer makes of v is v + Loss.  A digest is what it is      *)
(* taken of.                                                               *)
(*                                                                         *)
(* A definition whose name starts with Wrong is a mistake the definition   *)
(* after it could have had.                                                *)
(***************************************************************************)
EXTENDS Integers, Sequences, FiniteSetsExt, SequencesExt, Sorting

CONSTANTS
    Shapes,     \* KvTensorShapeV1
    Tensors(_), \* the tensors callers have, given the number of vectors
    KvProfiles(_),  \* the profiles they use, given the shape
    KvPolicies, \* KvCompressionPolicyV1
    NonFinite,        \* a vector with a value that is not finite
    Loss

VARIABLES
    tensor,     \* the tensor last encoded, with its shape and profile
    artifact,   \* KvEncodedTensorV1, <<>> for none
    fault,      \* what happened to its pages
    restored    \* KvDecodedTensorV1, <<>> for none, "error"

fibKvVars == <<tensor, artifact, fault, restored>>

-----------------------------------------------------------------------------
(* Shapes, layouts, profiles.                                              *)

(* KvTensorShapeV1::validate. *)
ValidShape(s) ==
    /\ \A f \in {"batch", "layers", "heads", "queries", "tokens", "dim"} : s[f] > 0
    /\ CASE s.kind = "Mha" -> s.queries = s.heads
         [] s.kind = "Mqa" -> s.heads = 1
         [] s.kind = "Gqa" -> s.queries % s.heads = 0
    /\ (s.role = "Key") <=> (s.rope \in {"PreRope", "PostRope"})

VectorCount(s) == s.batch * s.layers * s.heads * s.tokens

Places(s) ==
    [b : 0 .. s.batch - 1, l : 0 .. s.layers - 1, h : 0 .. s.heads - 1, t : 0 .. s.tokens - 1]

(* vector_offset, in vectors and from 1. *)
Position(s, at) ==
    (((at.b * s.layers + at.l) * s.heads + at.h) * s.tokens) + at.t + 1

(* KvCacheLayoutV1::canonical, in vectors. *)
Strides(s) ==
    [t |-> 1, h |-> s.tokens, l |-> s.heads * s.tokens, b |-> s.layers * s.heads * s.tokens]

(* Mistake: the first of the last tokens is not counted among them. *)
WrongProtected(p, s, at) ==
    \/ at.t < p.first \/ at.t + p.last > s.tokens
    \/ at.l \in p.layers \/ at.h \in p.heads

(* KvProtectedPolicyV1::is_protected. *)
Protected(p, s, at) ==
    \/ at.t < p.first \/ at.t + p.last >= s.tokens
    \/ at.l \in p.layers \/ at.h \in p.heads

Protection == [first : Nat, last : Nat, layers : SUBSET Nat, heads : SUBSET Nat]

ASSUME FibKvAssumption ==
    /\ \A s \in Shapes :
           /\ \A f \in {"batch", "layers", "heads", "tokens"} : s[f] \in Nat
           /\ Tensors(VectorCount(s)) \subseteq Seq(Int \cup {NonFinite})
           /\ \A p \in KvProfiles(s) :
                  {"axis", "protected"} \subseteq DOMAIN p /\ p.protected \in Protection
    /\ \A policy \in KvPolicies : policy.protected \in Protection
    /\ NonFinite \notin Int

ValidProtection(p, s) ==
    /\ p.first <= s.tokens /\ p.last <= s.tokens
    /\ \A l \in p.layers : l < s.layers
    /\ \A h \in p.heads : h < s.heads

(* KvPageGeometryV1::validate_for_shape. *)
ValidGeometry(g, s) ==
    /\ g.tokens \in 1 .. s.tokens
    /\ g.vectors = 1 /\ g.dim = s.dim
    /\ g.raw = 4 * g.dim /\ g.reserved # 0

(* KvCompressionProfileV1::validate_for_shape. *)
ValidKvProfile(p, s) ==
    /\ ValidShape(s)
    /\ p.fib.k > 0 /\ s.dim % p.fib.k = 0 /\ p.fib.dim = s.dim
    /\ p.shape = s /\ p.role = s.role
    /\ p.fibDigest = p.fib /\ p.rotation = <<p.fib.dim, p.fib.seed>>
    /\ p.codebook # ""
    /\ ValidGeometry(p.geometry, s)
    /\ ValidProtection(p.protected, s)

(* build_quantizer: the codebook a profile names is the one it builds.     *)
QuantizerBuilds(p) == p.codebook = p.fib.book

Encodes(v) == v # 0

-----------------------------------------------------------------------------
(* Encoding.                                                               *)

Raw(at, v, reason) == [at |-> at, raw |-> TRUE, reason |-> reason, payload |-> v]

Refused == [refused |-> TRUE]

(* encode_vector_block. *)
VectorBlock(p, at, v) ==
    CASE p.axis = "Raw" -> Raw(at, v, "raw_axis_policy")
      [] p.axis = "PerToken" /\ Encodes(v) ->
             [at |-> at, raw |-> FALSE, reason |-> "fib_quant_per_token", payload |-> v]
      [] p.axis = "PerToken" /\ ~Encodes(v) /\ p.mode = "KeepRaw" ->
             Raw(at, v, "encode_fallback")
      [] p.axis \in {"PerChannel", "RoleAware"} /\ p.mode = "KeepRaw" ->
             Raw(at, v, "unsupported_axis_raw_fallback")
      [] OTHER -> Refused

BlockFor(p, s, at, v) ==
    IF Protected(p.protected, s, at) THEN Raw(at, v, "protected_region")
    ELSE VectorBlock(p, at, v)

PageCount(g, s) == (s.tokens + g.tokens - 1) \div g.tokens

Smaller(a, b) == IF a < b THEN a ELSE b

(* The places of a page in the order encode_kv_tensor visits them. *)
PlacesOfPage(s, start, count) ==
    LET places == {at \in Places(s) : at.t \in start .. start + count - 1}
    IN  Ordered(places, {p \in places \X places : Position(s, p[1]) < Position(s, p[2])})

Sealed(body) == [body |-> body, digest |-> body]

Page(p, s, values, id) ==
    LET start == id * p.geometry.tokens
        count == Smaller(p.geometry.tokens, s.tokens - start)
        places == PlacesOfPage(s, start, count)
        blocks == [i \in DOMAIN places |->
                      BlockFor(p, s, places[i], values[Position(s, places[i])])]
    IN  Sealed([id |-> id, start |-> start, count |-> count, source |-> values,
                profile |-> p, shape |-> s, blocks |-> blocks])

RawBlocks(blocks) == Cardinality({i \in DOMAIN blocks : blocks[i].raw})

(* encode_kv_tensor. *)
EncodedTensor(s, p, values) ==
    LET pages == [i \in 1 .. PageCount(p.geometry, s) |-> Page(p, s, values, i - 1)]
        blocks == FlattenSeq([i \in DOMAIN pages |-> pages[i].body.blocks])
    IN  IF /\ ValidShape(s) /\ ValidKvProfile(p, s)
           /\ Len(values) = VectorCount(s)
           /\ \A i \in DOMAIN values : values[i] # NonFinite
           /\ QuantizerBuilds(p)
           /\ \A i \in DOMAIN blocks : blocks[i] # Refused
        THEN [shape |-> s, profile |-> p, layout |-> Strides(s), pages |-> pages,
              receipt |-> [source |-> values, profile |-> p, shape |-> s,
                           pages |-> [i \in DOMAIN pages |-> pages[i].digest],
                           encoded |-> Len(pages),
                           compressed |-> Len(blocks) - RawBlocks(blocks),
                           raw |-> RawBlocks(blocks),
                           reasons |-> {blocks[i].reason : i \in
                                           {j \in DOMAIN blocks : blocks[j].raw}}]]
        ELSE <<>>

-----------------------------------------------------------------------------
(* Decoding.                                                               *)

(* KvEncodedPageV1::validate, with KvEncodedBlockV1::validate. *)
ValidPage(page, s) ==
    /\ page.body.shape = s /\ ValidGeometry(page.body.profile.geometry, s)
    /\ page.body.count > 0 /\ page.body.start + page.body.count <= s.tokens
    /\ page.body.count <= page.body.profile.geometry.tokens
    /\ \A i \in DOMAIN page.body.blocks :
           page.body.blocks[i].at.t \in
               page.body.start .. page.body.start + page.body.count - 1
    /\ page.digest = page.body

DecodedBlock(block) == IF block.raw THEN block.payload ELSE block.payload + Loss

(* Blocks in the order they come; a place no block is for is left at zero. *)
Placed(s, blocks) ==
    LET put(values, block) == [values EXCEPT ![Position(s, block.at)] = DecodedBlock(block)]
    IN  FoldLeft(put, [i \in 1 .. VectorCount(s) |-> 0], blocks)

(* decode_kv_pages: pages in the order they come. *)
DecodedTensor(a) ==
    LET blocks == FlattenSeq([i \in DOMAIN a.pages |-> a.pages[i].body.blocks])
    IN  IF /\ ValidShape(a.shape) /\ a.layout = Strides(a.shape)
           /\ ValidKvProfile(a.profile, a.shape) /\ a.receipt.profile = a.profile
           /\ QuantizerBuilds(a.profile)
           /\ \A i \in DOMAIN a.pages :
                  /\ ValidPage(a.pages[i], a.shape)
                  /\ a.pages[i].body.profile = a.receipt.profile
           /\ \A i \in DOMAIN blocks : blocks[i].at \in Places(a.shape)
        THEN [values |-> Placed(a.shape, blocks),
              pages |-> [i \in DOMAIN a.pages |-> a.pages[i].digest],
              raw |-> RawBlocks(blocks)]
        ELSE [error |-> TRUE]

-----------------------------------------------------------------------------
(* decide_kv_compression for one vector. *)
Decision(policy, s, at, calibrated) ==
    LET roleAxis == IF s.role = "Key" THEN "PerChannel" ELSE "PerToken" IN
    IF Protected(policy.protected, s, at) THEN [action |-> "KeepRaw", axis |-> "Raw"]
    ELSE IF policy.calibration /\ ~calibrated
    THEN [action |-> IF policy.fallback THEN "KeepRaw" ELSE "NeedCalibration", axis |-> "Raw"]
    ELSE CASE policy.strategy = "Raw" -> [action |-> "KeepRaw", axis |-> "Raw"]
           [] policy.strategy = "PerToken" -> [action |-> "Compress", axis |-> "PerToken"]
           [] policy.strategy = "PerChannel" -> [action |-> "Compress", axis |-> "PerChannel"]
           [] policy.strategy \in {"RoleAwareBaseline", "ExperimentalRoleAware"} ->
                  [action |-> "Compress", axis |-> roleAxis]

(* The profile a caller makes of a policy's decisions about a tensor.      *)
DecidedAxes(policy, s, calibrated) ==
    {Decision(policy, s, at, calibrated).axis : at \in Places(s)} \ {"Raw"}

-----------------------------------------------------------------------------
FibKvInit ==
    /\ tensor = <<>> /\ artifact = <<>> /\ fault = "none" /\ restored = <<>>

EncodeTensor(s, p, values) ==
    /\ artifact = <<>>
    /\ LET made == EncodedTensor(s, p, values) IN made # <<>> /\ artifact' = made
    /\ tensor' = [shape |-> s, profile |-> p, values |-> values]
    /\ UNCHANGED <<fault, restored>>

(* A profile that keeps a policy's protection and takes its axis. *)
EncodeDecided(s, p, policy, calibrated, values) ==
    \E axis \in DecidedAxes(policy, s, calibrated) :
        EncodeTensor(s, [p EXCEPT !.axis = axis, !.protected = policy.protected], values)

Fault(kind, pages) ==
    /\ artifact # <<>> /\ fault = "none" /\ restored = <<>>
    /\ artifact' = [artifact EXCEPT !.pages = pages]
    /\ fault' = kind
    /\ UNCHANGED <<tensor, restored>>

LosePage(i) == Fault("lost", RemoveAt(artifact.pages, i))
RepeatPage(i) == Fault("repeated", Append(artifact.pages, artifact.pages[i]))
ReversePages == Fault("reordered", Reverse(artifact.pages))

(* A value of a stored block, its place or the span of the page changes. *)
DamageBlock(i, j, v) ==
    Fault("damaged", [artifact.pages EXCEPT ![i].body.blocks[j].payload = v])
MoveBlock(i, j, at) ==
    Fault("damaged", [artifact.pages EXCEPT ![i].body.blocks[j].at = at])

DecodePages ==
    /\ artifact # <<>> /\ restored = <<>>
    /\ restored' = DecodedTensor(artifact)
    /\ UNCHANGED <<tensor, artifact, fault>>

DropTensor ==
    /\ artifact # <<>>
    /\ tensor' = <<>> /\ artifact' = <<>> /\ fault' = "none" /\ restored' = <<>>

FibKvNext ==
    \/ \E s \in Shapes : \E p \in KvProfiles(s), values \in Tensors(VectorCount(s)) :
           \/ EncodeTensor(s, p, values)
           \/ \E policy \in KvPolicies, calibrated \in BOOLEAN :
                  EncodeDecided(s, p, policy, calibrated, values)
    \/ artifact # <<>> /\ \E i \in DOMAIN artifact.pages :
           \/ LosePage(i) \/ RepeatPage(i)
           \/ \E j \in DOMAIN artifact.pages[i].body.blocks :
                  \/ DamageBlock(i, j, artifact.pages[i].body.blocks[j].payload + 1)
                  \/ \E at \in Places(artifact.shape) :
                         /\ at # artifact.pages[i].body.blocks[j].at
                         /\ MoveBlock(i, j, at)
    \/ artifact # <<>> /\ Len(artifact.pages) > 1 /\ ReversePages
    \/ DecodePages \/ DropTensor

FibKvSpec == FibKvInit /\ [][FibKvNext]_fibKvVars

-----------------------------------------------------------------------------
(* Properties.                                                             *)

IsDecoded == restored # <<>> /\ "values" \in DOMAIN restored

(* The place of a vector in the layout [batch][layer][kv_head][token].     *)
Canonical(at) ==
    LET stride == Strides(tensor.shape)
    IN  1 + at.b * stride.b + at.l * stride.l + at.h * stride.h + at.t * stride.t

(* Every vector of a tensor comes back at its own batch, layer, head and   *)
(* token, exactly if its token, layer or head is protected or the quantizer*)
(* refuses it, as the quantizer approximates it otherwise.  Pages that come*)
(* twice or in another order change nothing, a lost one leaves zeros and   *)
(* moves nothing, and one that changed after it was sealed is an error.    *)
DecodedInPlace ==
    IsDecoded =>
        /\ fault # "damaged"
        /\ LET p == tensor.profile.protected
               s == tensor.shape
               spared == (0 .. p.first - 1) \cup (s.tokens - p.last .. s.tokens - 1)
           IN  \A at \in Places(s) :
                   LET v == tensor.values[Canonical(at)]
                       w == restored.values[Canonical(at)]
                       exact == at.t \in spared \/ at.l \in p.layers \/ at.h \in p.heads
                                \/ ~Encodes(v)
                   IN  \/ w \in (IF exact THEN {v} ELSE {v, v + Loss})
                       \/ (w = 0 /\ fault = "lost")
=============================================================================
